\* Two coroutines open connections, conn_seq wraps at 4, servers come and go.
SPECIFICATION Spec
CONSTANTS
  c1 = c1
  c2 = c2
  Coroutines = {c1, c2}
  NoPort = NoPort
  Configs <- Sound
  CursorMod = 4
  MaxOpens = 7
SYMMETRY Symmetry
INVARIANTS EndpointsInv TriesEachEndpointOnce SpreadsOverHosts DialsConfiguredPort
