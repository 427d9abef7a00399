SPECIFICATION FairSpec
CONSTANTS
  Coroutines = {t1, t2}
  Conns = {c1}
  Handles = {h1, h2}
  User = user
  Nil = nil
  MaxRows = 1
  ReadErrors <- SoundErrors
  DecodeErrors <- NoErrors
  HoldAndWait = FALSE
PROPERTIES
  AcquireReturns
