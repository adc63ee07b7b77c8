----------------------------- MODULE CyclicSweep ----------------------------
(***************************************************************************)
(* Dense layer streaming (Pager::schedule): every forward pass visits the  *)
(* layers of a model in the same order, one batch per layer.  Beside the   *)
(* pager runs Belady's offline policy, which on a miss drops the block      *)
(* whose next use is furthest away; it is the yardstick the documentation   *)
(* of schedule measures itself by.                                          *)
(***************************************************************************)
EXTENDS PagerOps, FiniteSets

CONSTANT Passes     \* bound: how many forward passes are made

VARIABLES
  layers,     \* the blocks of this model, in the order every pass visits them
  pg,         \* the Pager
  belady,     \* what Belady's policy keeps
  at,         \* how many layers this pass has visited
  pass,       \* passes completed
  hits,       \* hits of the pager in this pass
  beladyHits, \* hits of Belady's policy in this pass
  prefix      \* slots of the blocks at the end of the first pass

vars == <<layers, pg, belady, at, pass, hits, beladyHits, prefix>>

n == Len(layers)
Layer == layers[at + 1]    \* the layer visited next

Init ==
  /\ layers \in UNION {[1 .. k -> Blocks] : k \in 0 .. Cardinality(Blocks)}
  /\ IsInjective(layers)
  /\ pg = NewPager
  /\ belady = {}
  /\ at = 0
  /\ pass = 0
  /\ hits = 0 /\ beladyHits = 0
  /\ prefix = [b \in Blocks |-> NoSlot]

(* How many visits away the next use of b is, after visiting Layer.         *)
Distance(b) ==
  LET i == CHOOSE j \in 1 .. n : layers[j] = b
  IN  IF i > at + 1 THEN i - at - 1 ELSE i - at - 1 + n

BeladyKeeps ==
  IF Layer \in belady \/ Cardinality(belady) < NSlots
  THEN belady \cup {Layer}
  ELSE LET furthest == CHOOSE b \in belady : \A c \in belady : Distance(c) <= Distance(b)
       IN  (belady \ {furthest}) \cup {Layer}

(* schedule(Layer), in a batch of its own.                                  *)
Visit ==
  /\ pass < Passes
  /\ at < n
  /\ pg' = Touch(BeginBatch(pg), Layer, "Cold").pager
  /\ hits' = IF IsResident(pg, Layer) THEN hits + 1 ELSE hits
  /\ belady' = BeladyKeeps
  /\ beladyHits' = IF Layer \in belady THEN beladyHits + 1 ELSE beladyHits
  /\ at' = at + 1
  /\ UNCHANGED <<layers, pass, prefix>>

EndPass ==
  /\ pass < Passes
  /\ at = n
  /\ prefix' = IF pass = 0 THEN pg.resident ELSE prefix
  /\ pass' = pass + 1
  /\ at' = 0
  /\ hits' = 0 /\ beladyHits' = 0
  /\ UNCHANGED <<layers, pg, belady>>

Next == Visit \/ EndPass

Spec == Init /\ [][Next]_vars

-----------------------------------------------------------------------------
(* From the second pass on the blocks kept are a stable prefix: they keep   *)
(* their slots pass over pass, and only one slot churns (pager.rs,          *)
(* schedule).                                                               *)
PrefixKeepsItsSlots ==
  pass > 0 =>
    Cardinality({b \in Blocks : prefix[b] # NoSlot /\ pg.resident[b] # prefix[b]}) <= 1

(* The offline optimum is never far: a pass of the sweep hits as often as    *)
(* Belady's policy or once less (schedule's documentation says as often).    *)
WithinOneOfBelady == at = n /\ pass > 0 => hits \in {beladyHits - 1, beladyHits}
=============================================================================
