\* One write method at a time, over four transactions.
CONSTANTS
  Writers = {w1}
  File = {f1, f2, f3}
  None = None
  MaxVersion = 4
SPECIFICATION Spec
SYMMETRY Interchangeable
INVARIANTS
  AckedSurvives
PROPERTIES
  ImplementsTransactions
CHECK_DEADLOCK FALSE
