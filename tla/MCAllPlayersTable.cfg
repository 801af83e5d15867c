SPECIFICATION FairSpec
CONSTANTS
  MaxVisits <- MCMaxVisits
  Lengths <- MCLengths
INVARIANTS
  TypeOK
  OwnAnswerShown
  FirstVisitSafe
PROPERTIES
  TableSettles
CHECK_DEADLOCK FALSE
