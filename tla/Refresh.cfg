\* Days, runs and failures of every kind, over a catalog that changes at any time.
SPECIFICATION FairSpec
CONSTANTS
  Products = {p1, p2}
  BatchSize = 1
  InactiveAfter = 2
  Attempts = 2
INVARIANTS
  TypeOK
  InactiveMeansMissed
PROPERTIES
  OkMeansEveryProductRead
  ListedStaysSeen
  DroppedIsDeactivated
