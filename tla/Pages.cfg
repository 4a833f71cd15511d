\* No symmetry: liveness is checked.
SPECIFICATION PagesSpec
CONSTANTS
  None = None
  word = word
  pill = pill
  modal = modal
  Ref = {word}
  Button = {pill, modal}
  Shows <- ShowOneWord
  Call = {c1, c2, c3}
  MaxClicks = 2
  p1 = p1  p2 = p2
  a = a  b = b
  Pieces = {p1, p2}
  NoPiece = NoPiece
  Roles = {a, b}
  SlotCount = 2
  Questions <- MCQuestions
  SessionLength = 2
  MaxLoads = 2
  MaxRun = 6
  MaxLooks = 1
  BridgeQuestions = {q1, q2}
  MaxSteps = 2
  SideRun = 1
  GuestLimit = 1
  MaxStarts = 2
  MaxSlots = 3
  MaxRoles = 3
  MaxCapacity = 2
  MaxStates = 20
INVARIANTS PagesTypeOK LatestWishShown AgreesWhenQuiet
  VerdictsFitTheBoard LightMeansSolved LockedBoardIsSolvable ResultsTell
  SearchDecides RunTally GuestStops
PROPERTIES NothingHangs SequencesEnd EveryRunEnds
CHECK_DEADLOCK FALSE
