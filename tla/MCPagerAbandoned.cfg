SPECIFICATION MCSpec
CONSTANTS
  b1 = b1
  b2 = b2
  b3 = b3
  b4 = b4
  b5 = b5
  NoBlock = NoBlock
  Blocks <- MCBlocks
  NSlots = 3
  MaxBatches = 3
  Passes = 4
  Models <- MCModels
  MaxInflight = 2
  MaxForwards = 2
SYMMETRY BlockSymmetry
CHECK_DEADLOCK FALSE
INVARIANTS
  ResidentAtExecution
