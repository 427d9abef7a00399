SPECIFICATION Spec
CHECK_DEADLOCK FALSE
CONSTANTS
  LongHalf = 8
  TicksHalf = 2048
  FloatStep = 4
  MicrosPerSecond = 100
  MaxRows = 2
  Tables <- ReferenceTables
  PhpValues <- ReferenceValues
  RowsFor <- RowsWithReferences
  ServerTypes <- NoTypes
  Stored <- NoCells
INVARIANTS
  NullStaysNull
