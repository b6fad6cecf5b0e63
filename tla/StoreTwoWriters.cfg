CONSTANTS
  Writers = {w1, w2}
  File = {f1, f2, f3, f4}
  None = None
  MaxVersion = 2
SPECIFICATION Spec
SYMMETRY Interchangeable
INVARIANTS
  NeverPartial
CHECK_DEADLOCK FALSE
