\* Every pair of snapshots over prices and quantities on and around the thresholds.
SPECIFICATION Spec
CONSTANTS
  None = None
  Prices = {None, 0, 100, 199, 200, 201}
  Quantities = {39, 40, 199, 200, 201}
  Confidences = {69, 70}
INVARIANTS
  NoChangeIsItsOwnReverse
  SilentOnlyOnNoise
  UnitOfQuantityIrrelevant
  ShrinkKindMatchesUnitPrice
  PercentagesAgree
