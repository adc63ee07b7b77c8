SPECIFICATION AllSpec
CONSTANTS
  Seqs = {s1, s2, s3}
  MaxTickets = 6
  c1 = c1
  c2 = c2
  Callers = {c1, c2}
  MaxTasks = 2
  MayPanic = {0}
  Crews <- MCCrews
  NoJob = NoJob
  r1 = r1
  r2 = r2
  Requests = {r1, r2}
  Setups <- MCServers
  t1 = t1
  t2 = t2
  t3 = t3
  Borrowers = {t1, t2, t3}
  Blocks = {b1, b2}
  NSlots = 1
  NoBlock = NoBlock
  MaxPins = 1
  Tiers <- MCTiers
CHECK_DEADLOCK FALSE
INVARIANTS
  OneBaton NobodyForgotten RoundRobin
  ClosureOutlivesItsUse NobodyElseIsBilled EveryReplyIsHonest
PROPERTIES
  EveryTurnComes
  KeepsItsPromise CallsComeBack SlotsComeBack WaiterWakes
