SPECIFICATION MCSpec
CONSTANTS
  Objects <- MCObjects
  Conns = {1, 2}
  Attempts = 2
  MaxRuns = 3
  p1 = p1
  p2 = p2
  p3 = p3
  Procs = {p1, p2}
  Setups <- MCSetups
  Sites <- MCSites
  NoCache = NoCache
\* the runs, the calls and the processes come to an end
CHECK_DEADLOCK FALSE
INVARIANTS
  BlobIsOneObject
  PartialIsSound
  SnapshotIsOneCommit
  StaysCached
  TripwireHolds
  LostRunsLeaveNothing
PROPERTIES
  QuietRunCommits
  YesMeansThere
