SPECIFICATION Spec
CONSTANTS
  t1 = t1
  t2 = t2
  t3 = t3
  b1 = b1
  b2 = b2
  b3 = b3
  NoBlock = NoBlock
  Threads <- MCThreads
  Blocks <- MCBlocks
  NSlots = 2
  MaxPins = 2
  Tiers <- MCTiers
SYMMETRY Symmetry
INVARIANTS
  NoDataRace
  BookkeepingAgrees
  FloorSuffices
PROPERTIES
  ImplementsLeases
