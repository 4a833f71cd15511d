\* A tab that is hidden as the question ends, and comes back to the results.
CONSTANTS
  Questions = 1
  Units = 1
  AnswerTime = 1
  FirstUnitExtra = 0
  Epsilon = 0
  ReplayPreviewOnReset = FALSE
  Reason = {"visibility"}
  None = None
  MaxRun = 4
  MaxResume = 1
SPECIFICATION FairSpec
PROPERTY GoesOnAfterReturn
CHECK_DEADLOCK FALSE
