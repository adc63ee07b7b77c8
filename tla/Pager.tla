------------------------------- MODULE Pager --------------------------------
(***************************************************************************)
(* The pager as the VRAM tier drives it: one owner opens a batch per       *)
(* dispatch and touches the blocks that dispatch reads, by recency (touch)  *)
(* or as a scan (touch_cold, schedule).  A touched block's slot is handed   *)
(* to the device, so it must survive until the batch is over.               *)
(***************************************************************************)
EXTENDS PagerOps, FiniteSets

CONSTANT MaxBatches     \* bound: batches opened in one behaviour

ASSUME BlocksFinite == IsFiniteSet(Blocks)    \* those of one model's file

VARIABLES
  pg,         \* the Pager
  panicked    \* take_slot found no victim outside the open batch

(* What happened so far; nothing in the code holds these.                   *)
VARIABLES
  batch,      \* blocks touched since begin_batch (the last touch, if never called)
  recent,     \* every block touched so far, latest first
  scanned,    \* whether a scan has happened
  hot,        \* what was resident when the present scan began
  width       \* the most blocks one batch of the present scan touched

history == <<batch, recent, scanned, hot, width>>
vars == <<pg, panicked, batch, recent, scanned, hot, width>>

TypeOK ==
  /\ pg \in PagerType
  /\ panicked \in BOOLEAN
  /\ batch \subseteq Blocks
  /\ recent \in Seq(Blocks)
  /\ scanned \in BOOLEAN
  /\ hot \subseteq Blocks
  /\ width \in 0 .. Cardinality(Blocks)

Init ==
  /\ pg = NewPager
  /\ panicked = FALSE
  /\ batch = {}
  /\ recent = <<>>
  /\ scanned = FALSE
  /\ hot = {}
  /\ width = 0

OpenBatch ==
  /\ ~panicked
  /\ pg.cur < MaxBatches
  /\ pg' = BeginBatch(pg)
  /\ batch' = {}
  /\ UNCHANGED <<panicked, recent, scanned, hot, width>>

(* The blocks the open batch has touched once it touches b too.             *)
BatchWith(b) == (IF pg.cur = 0 THEN {} ELSE batch) \cup {b}

TouchBlock(b, policy) ==
  LET t == Touch(pg, b, policy)
  IN  /\ ~panicked
      /\ IsResident(pg, b) \/ ~TakeSlotPanics(Stamped(pg, b))
      /\ pg' = t.pager
      /\ batch' = BatchWith(b)
      /\ recent' = <<b>> \o RemoveFirst(recent, b)
      /\ scanned' = (scanned \/ policy = "Cold")
      /\ hot' = IF policy = "Cold" THEN hot ELSE ResidentBlocks(t.pager)
      /\ width' = IF policy = "Cold" THEN Max({width, Cardinality(batch')}) ELSE 0
      /\ UNCHANGED panicked

TouchPanics(b) ==
  /\ ~panicked
  /\ ~IsResident(pg, b)
  /\ TakeSlotPanics(Stamped(pg, b))
  /\ panicked' = TRUE
  /\ batch' = BatchWith(b)
  /\ UNCHANGED <<pg, recent, scanned, hot, width>>

Next ==
  \/ OpenBatch
  \/ \E b \in Blocks, policy \in InsertPolicies : TouchBlock(b, policy)
  \/ \E b \in Blocks : TouchPanics(b)

Spec == Init /\ [][Next]_vars

-----------------------------------------------------------------------------
(* Until the first scan the order is that of the last touches: batches and    *)
(* epochs do not disturb LRU.                                              *)
RecencyKept ==
  ~scanned /\ ~panicked =>
    pg.lru = Reverse(SubSeq(recent, 1, Min({NSlots, Len(recent)})))

(* Every slot is on the free stack once or holds one block, never both and  *)
(* never lost (pager.rs, take_slot: "every lru entry has a resident         *)
(* mapping"); the recency order lists exactly the resident blocks, the       *)
(* epoch map keeps no entry for an evicted one, and recency is kept.         *)
SlotsAccounted ==
  /\ TypeOK
  /\ RecencyKept
  /\ \A s \in Slots :
       Cardinality({i \in DOMAIN pg.free : pg.free[i] = s})
         + Cardinality({b \in Blocks : pg.resident[b] = s}) = 1
  /\ Len(pg.lru) = Cardinality(ResidentBlocks(pg))
  /\ ToSet(pg.lru) = ResidentBlocks(pg)
  /\ \A b \in Blocks : pg.epoch[b] # NoEpoch <=> IsResident(pg, b)

(* A block the open batch has touched keeps its slot until the batch ends,  *)
(* whichever end of the order it was inserted at (the within-batch safety   *)
(* invariant of begin_batch); and the panic of take_slot means what its      *)
(* message says: one batch touched more distinct blocks than there are slots. *)
BatchSurvives ==
  IF panicked THEN Cardinality(batch) > NSlots ELSE batch \subseteq ResidentBlocks(pg)

(* touch_cold is scan-resistant: however long the scan, it displaces no     *)
(* more of the hot set than the blocks of its widest batch.                 *)
ScanResistant == Cardinality(hot \ ResidentBlocks(pg)) <= width
=============================================================================
