SPECIFICATION Spec
CONSTANTS
  MaxVisits <- MCMaxVisits
  Lengths <- MCLengths
INVARIANTS
  RowInRange
CHECK_DEADLOCK FALSE
