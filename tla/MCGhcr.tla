-------------------------------- MODULE MCGhcr --------------------------------
(***************************************************************************)
(* An instance of Ghcr: owner a is an organization whose listing may fill  *)
(* more than a page and changes while it is read, owner b is a user with a *)
(* package or without, or does not exist.                                  *)
(***************************************************************************)
EXTENDS Ghcr

MCNames == {"a1", "a2", "a3", "a4", "a5", "b1"}
MCOwnerOf == [n \in MCNames |-> IF n = "b1" THEN "b" ELSE "a"]
MCWildRefs == <<"a", "b">>
MCUnsafe == {"a!"}
MCExplicit == [s \in Registries |-> IF s = GHCR THEN {"a2"} ELSE {}]
MCWildcard == [s \in Registries |-> IF s = GHCR THEN {"a", "b"} ELSE {}]
MCKinds == {k \in [{"a", "b"} -> AccountKinds] : k["a"] = "org" /\ k["b"] \in {"user", "none"}}
MCBothExist == {k \in MCKinds : k["b"] = "user"}

\* An empty owner, one with a refused name only, a page and a row, and a
\* refused name among usable ones; one removal leaves an exactly full page.
MCListings ==
    [o \in {"a", "b"} |->
        IF o = "a" THEN {<<>>, <<"a!">>, <<"a1", "a2", "a3">>, <<"a1", "a!", "a2">>}
                   ELSE {<<>>, <<"b1">>}]

\* Owner a fills a page and a row of the next; both owners exist.
MCThreePackages == [o \in {"a", "b"} |-> IF o = "a" THEN {<<"a1", "a2", "a3">>} ELSE {<<"b1">>}]
=============================================================================
