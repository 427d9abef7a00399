SPECIFICATION Spec
CONSTANTS
  Coroutines = {t1}
  Conns = {c1}
  Handles = {h1}
  User = user
  Nil = nil
  MaxRows = 1
  ReadErrors <- LostConnection
  DecodeErrors <- NoErrors
  HoldAndWait = TRUE
INVARIANTS
  StartsClean
