\* Reparse stopped after it committed a revised parse and before it demoted.
SPECIFICATION Spec
CONSTANTS
  None = None
  Refreshers = {r1}
  Baskets = {}
  Labels <- TwoLabels
  Prices <- OnePrice
  Readings <- SureReadings
  ModelRead <- NoLabels
  Overlap = FALSE
  ReparseAlone = TRUE
  ReparseFails = TRUE
  MaxRuns = 4
  MaxDeploys = 1
  MaxCommits = 4
INVARIANTS
  EvidenceAgrees
CHECK_DEADLOCK FALSE
