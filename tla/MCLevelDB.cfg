CONSTANTS
  Writers <- MCWriters
  SyncWriters <- MCSyncWriters
  Flushers <- MCFlushers
  MemCapacity = 0
  L0Trigger = 2
  L0Stop = 2
  DeepTrigger = 2
  MaxStarts = 2
  MaxPowerLosses = 1
  MaxFaults = 1
  BlockSize = 10
  HeaderSize = 3
  RecordLengths <- MCRecordLengths
  MaxRecords = 3
  None = None
SPECIFICATION Spec
INVARIANTS TypeOK NeededFilesKept SequencesOrdered TruncatedLogRead FailedAppendRead
PROPERTIES  WritersReturn
CHECK_DEADLOCK FALSE
