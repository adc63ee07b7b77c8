SPECIFICATION MtpSpec
CONSTANTS
  Tokens = {t1, t2}
  Setups <- MCPassing
SYMMETRY TokenSymmetry
INVARIANTS
  NoStaleReadsWhereDependable
  CachedIsResident
  JudgedInContext
  HeadFollowsTrunk
PROPERTIES
  FedRowsAreKept
