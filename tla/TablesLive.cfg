\* Two requests for sessions under fairness, with the clock at rest; the other
\* sides are as small as they can be. No symmetry, it is not sound here.
SPECIFICATION FairTablesSpec
CONSTANTS
  None = None
  Sid = {s1, s2, s3}
  Tx = {r1, r2}
  Grace = 1
  Ttl = 1
  MaxTime = 0
  Poems = {p1}
  Remarks = {c1}
  Fans = {u1}
  Calls = {r1}
  Nothing = None
  Readers = {d1}
  Flights = {f1}
  NoFlight = None
  CacheTtl = 1
  ReadTime = 1
  MaxTick = 1
  MaxVersion = 1
PROPERTY EveryRequestAnswered
CHECK_DEADLOCK FALSE
