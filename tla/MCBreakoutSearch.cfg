SPECIFICATION FairSpec
CONSTANTS
  Entries <- MCEntries
INVARIANTS
  TypeOK
  ReportedHasPoints
  MissedBreakoutExplained
PROPERTIES
  SearchReturns
CHECK_DEADLOCK FALSE
