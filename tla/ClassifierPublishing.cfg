\* The stated publishing rule against the classifier.
SPECIFICATION Spec
CONSTANTS
  None = None
  Prices = {None, 0, 100, 199, 200, 201}
  Quantities = {39, 40, 199, 200, 201}
  Confidences = {69, 70}
INVARIANT ConservativePublishing
