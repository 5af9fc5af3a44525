CONSTANTS
  Signals = {g1, g2}
  Slots = {s1, s2, s3}
  None = None
  FireOnceArgs = {TRUE, FALSE}
  MaxDepth = 3
SYMMETRY Symmetry
SPECIFICATION Spec
INVARIANTS TypeOK Coherent IteratorsValid NothingSkipped FiredOnce
