\* Two administrators who act at once.
SPECIFICATION ServerSpec
CONSTANTS
  Users = {u1, u2}
  Links = {l1, l2}
  Visitors = {x1, x2}
  Nobody = Nobody
  MaxEra = 2
  MaxVisits = 4
  None = None
  Sid = {s1}
  Tx = {x1}
  Browser = {b1}
  Doors = {"page"}
  Latency = 0
  Lossy = FALSE
  Grace = 1
  Ttl = 1
  MaxTime = 0
  Code = {c1}
  Req = {x1}
  NoCode = NoCode
  MaxAttempts = 1
  MaxPerEmail = 1
  Cooldown = 0
  CodeTtl = 0
  Window = 0
  MaxMinute = 0
  MaxCounted = 1
INVARIANT LastAdminStays
CHECK_DEADLOCK FALSE
SYMMETRY ServerSymmetry
