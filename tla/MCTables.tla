------------------------------ MODULE MCTables ------------------------------
EXTENDS Tables, TLC

\* Rows, comments and reads are interchangeable, and so are requests, calls and
\* readers; the sides share their names.
TablesSymmetry == Permutations(Sid) \cup Permutations(Tx)
=============================================================================
