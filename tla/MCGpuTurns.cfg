SPECIFICATION FairSpec
CONSTANTS
  Seqs = {s1, s2}
  MaxTickets = 13
  MaxChunks = 1
  MaxSteps = 2
  Setups <- MCPassing
\* every sequence runs one generation and really ends
CHECK_DEADLOCK FALSE
INVARIANTS
  PoolSynchronisedInRegions
  AbortStopsSoon
PROPERTY
  GenerationEnds
