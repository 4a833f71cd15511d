\* Ttl is longer than Grace: a row that was rotated by a browser which never
\* got its heir is still alive when the grace is over.
SPECIFICATION ServerSpec
CONSTANTS
  Users = {s1, s2}
  Links = {s1, s2}
  Visitors = {x1, x2}
  Nobody = Nobody
  MaxEra = 2
  MaxVisits = 4
  None = None
  Sid = {s1, s2}
  Tx = {x1, x2}
  Browser = {b1}
  Doors = {"page", "/auth", "/panel"}
  Latency = 1
  Lossy = TRUE
  Grace = 3
  Ttl = 4
  MaxTime = 3
  Code = {s1, s2, c3}
  Req = {x1, x2}
  NoCode = NoCode
  MaxAttempts = 2
  MaxPerEmail = 1
  Cooldown = 1
  CodeTtl = 2
  Window = 3
  MaxMinute = 3
  MaxCounted = 3
INVARIANTS ServerTypeOK SurvivorsAreNew LinksOnlyMeetInFlight PanelStaysOpen EveryUserHasAWayIn
  ReuseOnlyAfterDrop JarHoldsTip
  GuessesAreLimited  IssuesAreLimited ConfirmedByACode
CHECK_DEADLOCK FALSE
SYMMETRY ServerSymmetry
