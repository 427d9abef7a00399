SPECIFICATION FairSpec
CONSTANTS
  SendSpace = 2
  RecvSpace = 2
  MaxLen = 3
  MaxBytes = 4
INVARIANTS
  TransportInv
  WritesInOrder
  ReadsInOrder
  WaitLeavesNothing
  WokenWhenReady
PROPERTIES
  CancelEndsCall
  CallEnds
