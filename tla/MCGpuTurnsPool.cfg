SPECIFICATION Spec
CONSTANTS
  Seqs = {s1, s2}
  MaxTickets = 13
  MaxChunks = 1
  MaxSteps = 2
  Setups <- MCUngated
\* every sequence runs one generation and really ends
CHECK_DEADLOCK FALSE
INVARIANT
  PoolSynchronised
