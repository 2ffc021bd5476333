------------------------------- MODULE MCConfig -------------------------------
(***************************************************************************)
(* An instance of Config: lists of up to three tokens in every order, and  *)
(* an 8-bit duration with an hour of 16 units, so that hours past the      *)
(* clamp would turn negative, zero, or positive again.                     *)
(***************************************************************************)
EXTENDS Config

MCTexts == {"", "*", "..", "%", "o", "p", "long"}
MCSafeTexts == {"o", "p", "long"}
MCBroken == {"%"}
MCSize == [t \in MCTexts |-> IF t = "long" THEN 4 ELSE IF t = "" THEN 0 ELSE IF t = ".." THEN 2 ELSE 1]

Plain(t) == [text |-> t, upper |-> FALSE, escaped |-> FALSE]
Upper(t) == [text |-> t, upper |-> TRUE, escaped |-> FALSE]
Escaped(t) == [text |-> t, upper |-> FALSE, escaped |-> TRUE]
Ref(o, name) == [slash |-> TRUE, owner |-> o, repo |-> name, raw |-> FALSE]

MCTokens ==
    { [slash |-> FALSE, owner |-> Plain(""), repo |-> <<Plain("")>>, raw |-> FALSE],
      [slash |-> FALSE, owner |-> Plain("o"), repo |-> <<Plain("")>>, raw |-> FALSE],
      Ref(Plain("o"), <<Plain("p")>>), Ref(Upper("o"), <<Plain("p")>>),
      Ref(Plain("o"), <<Upper("p")>>), Ref(Plain("o"), <<Escaped("p")>>),
      Ref(Plain("o"), <<Plain("*")>>), Ref(Plain("o"), <<Escaped("*")>>),
      Ref(Plain("o"), <<Escaped("..")>>), Ref(Plain("o"), <<Escaped("%")>>),
      Ref(Plain("o"), <<Plain("")>>), Ref(Plain(".."), <<Plain("p")>>),
      Ref(Plain("long"), <<Plain("p")>>), Ref(Plain("long"), <<Plain("*")>>),
      Ref(Plain("p"), <<Plain("o")>>),
      Ref(Plain("o"), <<Plain("p"), Plain("o")>>), Ref(Plain("o"), <<Plain("p"), Upper("o")>>),
      Ref(Plain("o"), <<Plain("p"), Plain("")>>),
      [slash |-> TRUE, owner |-> Plain("o"), repo |-> <<Plain("p"), Plain("o")>>, raw |-> TRUE] }

MCLists ==
    { [reg \in {DockerHub, GHCR} |-> s] : s \in UNION {[1..n -> MCTokens] : n \in 0..3} }

Number(n) == [kind |-> "number", hours |-> n]

\* 8 * 16 turns negative in 8 bits, 16 * 16 is 0 and 17 * 16 is an hour.
MCPolls ==
    {[kind |-> "unset", hours |-> 0], [kind |-> "malformed", hours |-> 0]}
        \union {Number(n) : n \in {-1, 0, 1, 7, 8, 9, 16, 17, 127}}
=============================================================================
