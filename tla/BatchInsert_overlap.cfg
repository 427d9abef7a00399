SPECIFICATION Spec
CONSTANTS
  plain = plain
  other = other
  wide = wide
  odd = odd
  refused = refused
  Rows <- MCRows
  Unfit <- MCUnfit
  Unencodable <- MCUnencodable
  Refused <- MCRefused
  ReadErrors <- SoundErrors
  Shared = TRUE
  MaxFlushes = 1
INVARIANTS
  NoRowForgotten
