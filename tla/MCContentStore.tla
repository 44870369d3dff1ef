--------------------------- MODULE MCContentStore ---------------------------
(***************************************************************************)
(* Packets: 1 is /A, 2 and 3 are /A/1 and /A/2, 4 is /B, 5 is local.  The  *)
(* names "A" and "A1" select a subtree of the table and one packet of it.    *)
(***************************************************************************)
EXTENDS ContentStore

MCUnder == "A" :> Packets \cap 1 .. 3 @@ "A1" :> Packets \cap {2}

MCExact == "A" :> Packets \cap {1} @@ "A1" :> Packets \cap {2}
=============================================================================
