\* A reader moves through the story, turns and resizes the window, points and types.
SPECIFICATION MCSpec
CONSTANTS
  None = None
  Dots = {"cut", "grown", "same"}
  Changed = {"cut", "grown"}
  SizeKind <- Kinds
  Late = {"grown"}
  Duration = 2
  Windows = {"beside", "stacked"}
  Lines <- TwoLines
  MaxScroll = 3
  StepList <- ThreeSteps
  Undrawn <- LeftOut
  Rank <- Ranks
  Sizes = {"roomy", "tight", "short"}
  Stages <- TwoStages
  Short = {"short"}
  Tall = {"tight"}
  Seen = {1, 2}
  MaxMoves = 3
INVARIANTS
  RestingPicture
  MarksAgree
PROPERTIES
  TurnKeepsTheStep
  PictureCatchesUp
CHECK_DEADLOCK FALSE
