\* Two questions of two units, so that a run has a first unit and a last one,
\* and room for both questions or for two restarts. No symmetry: liveness.
CONSTANTS
  Questions = 2
  Units = 2
  AnswerTime = 2
  FirstUnitExtra = 1
  Epsilon = 1
  ReplayPreviewOnReset = FALSE
  Reason = {"visibility", "layoutTransition"}
  None = None
  MaxRun = 4
  MaxResume = 1
SPECIFICATION FairSpec
INVARIANT ClockIsInteractive
INVARIANT EveryRunIsCounted
PROPERTY OneOutcomeEach
PROPERTY GameGoesOn
CHECK_DEADLOCK FALSE
