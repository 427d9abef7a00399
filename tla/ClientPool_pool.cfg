SPECIFICATION Spec
CONSTANTS
  Coroutines = {t1, t2}
  Conns = {c1, c2}
  Handles = {h1, h2}
  User = user
  Nil = nil
  MaxRows = 2
  ReadErrors <- SoundErrors
  DecodeErrors <- AssertionErrors
  HoldAndWait = TRUE
SYMMETRY Symmetry
INVARIANTS
  IInv
  WireInv
  LeaseHasOneHolder
  ExclusiveUse
  FreedClientLeavesNothing
  IdleIsClean
PROPERTIES
  OnlyUncleanDropped
  KeepsContract
