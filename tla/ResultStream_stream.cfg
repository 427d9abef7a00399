SPECIFICATION FairSpec
CONSTANTS
  MaxRows = 2
  MaxPackets = 4
  StreamErrors <- AnyErrors
  DecodeErrors <- RowErrors
INVARIANTS
  ResultInv
  RowsInOrder
  NoRowLost
  ReadsOnlyItsLease
  ReusedOnlyWhenRead
  RunsBeforeReturn
  EndMeansAll
  CurrentIsLatest
PROPERTIES
  NothingAfterTheEnd
  SummaryIsFinal
  CallReturns
  KeepsPromise
