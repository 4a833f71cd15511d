CONSTANTS
  None = None
  Sid = {s1, s2}
  Tx = {r1, r2}
  Grace = 1
  Ttl = 1
  MaxTime = 1
SPECIFICATION Spec
PROPERTY NobodyStaysSignedIn
CHECK_DEADLOCK FALSE
