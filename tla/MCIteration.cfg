CONSTANTS
  Keys <- TwoKeys
  DeletedKeys <- One
  SplitKeys <- Two
  NumLevels = 4
  MaxMemLevel = 2
  ManualRanges <- PointRanges
  MaxSeq = 4
  MaxSnapshots = 1
  MaxIterated = 3
  None = None
SPECIFICATION BoundedSpec
INVARIANTS SnapshotsReadHistory LevelsDisjoint IteratorsReadHistory
CHECK_DEADLOCK FALSE
