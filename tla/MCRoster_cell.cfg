SPECIFICATION Spec
CONSTANTS
  Taps = {t1}
  NoName <- MCNoName
  Feeds <- MCFeeds
  WeekFetched = FALSE
INVARIANTS
  DisplayedRowHasTeam
