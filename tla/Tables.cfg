\* Sessions: two requests, three rows, a clock that outlasts grace and life.
\* Club: two readers, three comments and two calls on one poem. Caches: two
\* readers, three reads, three versions.
SPECIFICATION TablesSpec
CONSTANTS
  None = None
  Sid = {s1, s2, s3}
  Tx = {r1, r2}
  Grace = 1
  Ttl = 2
  MaxTime = 2
  Poems = {p1}
  Remarks = {s1, s2, s3}
  Fans = {u1, u2}
  Calls = {r1, r2}
  Nothing = None
  Readers = {r1, r2}
  Flights = {s1, s2, s3}
  NoFlight = None
  CacheTtl = 2
  ReadTime = 1
  MaxTick = 4
  MaxVersion = 3
INVARIANTS TablesTypeOK OneTipPerFamily ChainIsSound OnlyRevocationsDeadlock NumbersCatchUp ThreadsAreShallow
INVARIANTS StaleForABoundedTime QuietChangeIsSeen ComponentsAgree
PROPERTIES RevokedOnce ImplementsLoginFamily
SYMMETRY TablesSymmetry
CHECK_DEADLOCK FALSE
