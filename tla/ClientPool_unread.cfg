SPECIFICATION Spec
CONSTANTS
  Coroutines = {t1, t2}
  Conns = {c1}
  Handles = {h1}
  User = user
  Nil = nil
  MaxRows = 1
  ReadErrors <- OtherErrors
  DecodeErrors <- NoErrors
  HoldAndWait = TRUE
INVARIANTS
  IdleIsClean
