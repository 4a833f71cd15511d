\* Two readers like one poem at once.
SPECIFICATION ClubSpec
CONSTANTS
  Poems = {p1}
  Remarks = {c1}
  Fans = {u1, u2}
  Calls = {r1, r2}
  Nothing = Nothing
INVARIANT LikesAreRight
CHECK_DEADLOCK FALSE
