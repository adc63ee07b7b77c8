SPECIFICATION Spec
CONSTANTS
  r1 = r1
  r2 = r2
  r3 = r3
  a = a
  b = b
  Requests <- MCRequests
  Tokens <- MCTokens
  NSlots = 3
  MaxCtx = 6
  MinSeed = 2
  Setups <- MCSpoiling
SYMMETRY Symmetry
INVARIANT
  CachedRowsSound
