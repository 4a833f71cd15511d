------------------------------ MODULE MCServer ------------------------------
EXTENDS Server, TLC

\* Requests are interchangeable, those of every side and by the same names,
\* and so are rows of sessions, users, links and two of the codes, which
\* have their names in common: one pair of permutations serves every side.
ServerSymmetry == Permutations(Visitors \cup Tx \cup Req) \cup Permutations(Sid)
=============================================================================
