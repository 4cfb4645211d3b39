SPECIFICATION MCSpec
CONSTANTS
  None = None
  Unknown = Unknown
  Gone = Gone
  OffScale = 500
  MaxTries = 2000
  NameRows = 2
  PageRows = 2
  Products <- MCProducts
  Categories = {"cereal", "coffee", "tea"}
  Category <- MCCategory
  Others = {"ref"}
  Label <- MCLabel
  Stages <- MCStages
  Links <- MCLinks
  Feeds <- MCFeeds
INVARIANTS
  CountsKeepTheirWord
  StoryTellsTheDots
  GridTellsTheField
  DotsApart
  LabelsApart
CHECK_DEADLOCK FALSE
