CONSTANTS
  Keys <- TwoKeys
  DeletedKeys <- TwoKeys
  SplitKeys <- TwoKeys
  NumLevels = 4
  MaxMemLevel = 2
  ManualRanges <- NoKey
  MaxSeq = 4
  MaxSnapshots = 1
  None = None
SPECIFICATION Spec
INVARIANT SnapshotsReadHistory
CHECK_DEADLOCK FALSE
