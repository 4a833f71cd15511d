--------------------------- MODULE MCSessionTable ---------------------------
(* Values for the constants of SessionTable.                               *)
EXTENDS SessionTable, TLC

Interchangeable == Permutations(Sid) \cup Permutations(Tx)
=============================================================================
