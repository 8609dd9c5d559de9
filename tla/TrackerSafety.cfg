SPECIFICATION Spec
CONSTANTS
  Precondition = TRUE
  MaxVersion = 5
  MaxEvents = 2
  MaxMarks = 3
INVARIANTS
  ForeignChangeSeen
  DropsOnce
  IndInv
\* The resource stops changing at the bound on its versions.
CHECK_DEADLOCK FALSE
