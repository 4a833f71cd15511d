-------------------------- MODULE MCSessionCookies --------------------------
(* Values for the constants of SessionCookies.                             *)
EXTENDS SessionCookies, TLC

Interchangeable == Permutations(Sid) \cup Permutations(Tx)
=============================================================================
