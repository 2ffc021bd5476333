----------------------------- MODULE MCHubClient -----------------------------
(***************************************************************************)
(* An instance of HubClient: owner a is walked and may fill two pages, owner*)
(* b is walked and holds one repository or none, owner c has an explicit    *)
(* ref only.                                                                *)
(***************************************************************************)
EXTENDS HubClient

MCNames == {"a1", "a2", "a3", "a4", "b1", "c1"}
MCOwnerOf == [n \in MCNames |-> CASE n = "b1" -> "b" [] n = "c1" -> "c" [] OTHER -> "a"]
MCWildRefs == <<"a", "b">>
MCExplicitRefs == <<"a2", "c1">>
MCUnsafe == {"a!"}
MCExplicit == [s \in Registries |-> IF s = DockerHub THEN {"a2", "c1"} ELSE {}]
MCWildcard == [s \in Registries |-> IF s = DockerHub THEN {"a", "b"} ELSE {}]

\* An empty owner, one with a refused name only, a partial page, two full
\* pages, a walk that meets the cap, and a full second page of refused names.
MCListings ==
    [o \in {"a", "b", "c"} |->
        CASE o = "a" -> {<<>>, <<"a!">>, <<"a1", "a2", "a3">>, <<"a1", "a2", "a3", "a4">>,
                         <<"a1", "a!", "a2", "a3", "a4">>}
          [] o = "b" -> {<<>>, <<"b1">>}
          [] o = "c" -> {<<>>, <<"c1">>}]

\* Owner a fills two pages; one removal leaves a row on the second.
MCTwoFullPages ==
    [o \in {"a", "b", "c"} |->
        CASE o = "a" -> {<<"a1", "a2", "a3", "a4">>} [] o = "b" -> {<<"b1">>} [] o = "c" -> {<<"c1">>}]
=============================================================================
