SPECIFICATION Spec
CONSTANTS
  Taps = {t1, t2}
  NoName <- MCNoName
  Feeds <- MCFeeds
  WeekFetched = FALSE
INVARIANTS
  TypeOK
  NothingLeftPending
  SavedRowWhole
  TornRowExplained
  RowIsTappedPlayer
  DeleteTakesEffect
  TableMatchesStore
PROPERTIES
  RowsFollowUser
