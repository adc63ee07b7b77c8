SPECIFICATION MtpSpec
CONSTANTS
  Tokens = {t1, t2}
  Setups <- MCUndependable
SYMMETRY TokenSymmetry
INVARIANTS
  NoStaleReads
