\* One button, one read.
CONSTANTS
  None = None
  q1 = q1
  q2 = q2
  pill = pill
  modal = modal
  Ref = {q1}
  Button = {pill}
  Shows <- ShowOne
  Call = {c1}
  MaxClicks = 1
SPECIFICATION Spec
PROPERTY OldAnswerYields
CHECK_DEADLOCK FALSE
