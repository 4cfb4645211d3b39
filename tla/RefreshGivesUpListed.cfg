\* Is a product the site calls dropped really gone from the catalog?
SPECIFICATION Spec
CONSTANTS
  Products = {p1, p2}
  BatchSize = 1
  InactiveAfter = 2
  Attempts = 2
SYMMETRY AnyProduct
INVARIANTS
  InactiveMeansDropped
