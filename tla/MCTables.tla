------------------------------ MODULE MCTables ------------------------------
(***************************************************************************)
(* Names: "/", "/A", "/A/B" and its sibling "/A/d", where d is an implicit *)
(* digest.  Interest "a" is for /A and "ad" for /A/d, both hanging on /A;  *)
(* "ab" is for /A/B.                                                       *)
(*                                                                         *)
(* A behaviour is one of the tables, of the index under the name tree or   *)
(* of the Dead Nonce List, as part says.                                   *)
(***************************************************************************)
EXTENDS Tables, NameTreeIndex, DeadNonceList, TLC

MCNames == {"/", "/A", "/A/B", "/A/d"}

MCPrefixes ==
    "/" :> {"/"} @@ "/A" :> {"/", "/A"}
        @@ "/A/B" :> {"/", "/A", "/A/B"} @@ "/A/d" :> {"/", "/A", "/A/d"}

MCLongName == [i \in Interests |-> CASE i = "a" -> "/A" [] i = "ad" -> "/A/d" [] i = "ab" -> "/A/B"]

MCNteName == [i \in Interests |-> IF i = "ab" THEN "/A/B" ELSE "/A"]

MCTypeOf == [s \in Strategies |-> IF s = "multicast" THEN "multicast" ELSE "best-route"]

\* Two names with the components of each other, which share a hash, and one below another.
MCStored == {<<"a">>, <<"a", "b">>, <<"b", "a">>, <<"c">>}

MCCuts == {<<"a">>}

MCHash == [a |-> 5, b |-> 6, c |-> 3]

VARIABLE part

MCInit == part \in {"tables", "index", "nonces"} /\ TablesInit /\ NtInit /\ DnlInit

MCNext == \/ part = "tables" /\ TablesNext /\ UNCHANGED <<part, ntVars, dnlVars>>
          \/ part = "index" /\ NtNext /\ UNCHANGED <<part, tableVars, dnlVars>>
          \/ part = "nonces" /\ DnlNext /\ UNCHANGED <<part, tableVars, ntVars>>

MCSpec == MCInit /\ [][MCNext]_<<part, tableVars, ntVars, dnlVars>>
=============================================================================
