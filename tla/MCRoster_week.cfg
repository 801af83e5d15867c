SPECIFICATION FairSpec
CONSTANTS
  Taps = {t1}
  NoName <- MCNoName
  Feeds <- MCFeeds
  WeekFetched = TRUE
INVARIANTS
  GameRowFollowsSeasonRow
  RowIsTappedPlayer
PROPERTIES
  AddCompletes
  ContextCommits
