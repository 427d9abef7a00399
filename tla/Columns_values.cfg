SPECIFICATION Spec
CHECK_DEADLOCK FALSE
CONSTANTS
  LongHalf = 8
  TicksHalf = 2048
  FloatStep = 4
  MicrosPerSecond = 100
  MaxRows = 2
  Tables <- WrittenTables
  PhpValues <- WrittenValues
  RowsFor <- RowsOf
  ServerTypes <- OtherPrograms
  Stored <- StoredBy
INVARIANTS
  BuildInv
  BlockIsAligned
  ReadsBackWhatWasWritten
  ShowsWhatIsStored
