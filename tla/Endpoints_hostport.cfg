\* The first entry names a port and a later one does not.
SPECIFICATION Spec
CONSTANTS
  c1 = c1
  c2 = c2
  Coroutines = {c1}
  NoPort = NoPort
  Configs <- FirstWithPort
  CursorMod = 4
  MaxOpens = 2
INVARIANTS DialsConfiguredPort
