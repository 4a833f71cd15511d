\* A player who leaves the first question once its preview is over.
CONSTANTS
  Questions = 1
  Units = 1
  AnswerTime = 1
  FirstUnitExtra = 0
  Epsilon = 1
  ReplayPreviewOnReset = FALSE
  Reason = {}
  None = None
  MaxRun = 2
  MaxResume = 0
SPECIFICATION FairSpec
PROPERTY GoesOnAfterExit
CHECK_DEADLOCK FALSE
