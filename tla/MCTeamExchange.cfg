SPECIFICATION Spec
CONSTANTS
  Devices <- MCDevices
  Teams = {t1}
  MaxWrites <- MCMaxWrites
  MaxObservers = 1
  MaxDrops <- MCMaxDrops
  MaxRefusals <- MCMaxRefusals
  NoWrite = NoWrite
  NoData = NoData
INVARIANTS
  TypeOK
  ReadYourWrites
  AckedNotUndone
  NothingReceived
CHECK_DEADLOCK FALSE
PROPERTIES
  Converges
  EveryWriteAnswered
