SPECIFICATION Spec
CONSTANTS
  plain = plain
  other = other
  wide = wide
  odd = odd
  refused = refused
  Rows <- MCRows
  Unfit <- MCUnfit
  Unencodable <- MCUnencodable
  Refused <- MCRefused
  ReadErrors <- AllErrors
  Shared = FALSE
  MaxFlushes = 4
INVARIANTS
  TypeOK
  NoRowForgotten
  StoredInOrder
