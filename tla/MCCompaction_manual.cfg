CONSTANTS
  Keys <- ThreeKeys
  DeletedKeys <- NoKey
  SplitKeys <- NoKey
  NumLevels = 4
  MaxMemLevel = 2
  ManualRanges <- WideRange
  MaxSeq = 5
  MaxSnapshots = 0
  None = None
SPECIFICATION Spec
INVARIANT LevelsDisjoint
CHECK_DEADLOCK FALSE
