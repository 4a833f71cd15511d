\* A browser whose answers all arrive opens the sign-in page.
CONSTANTS
  None = None
  Sid = {s1, s2, s3}
  Tx = {r1}
  Browser = {b1}
  Doors = {"page", "/auth"}
  Latency = 0
  Lossy = FALSE
  Grace = 1
  Ttl = 2
  MaxTime = 1
SPECIFICATION CookiesSpec
INVARIANT NoFalseReuse
CHECK_DEADLOCK FALSE
