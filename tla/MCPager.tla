------------------------------ MODULE MCPager -------------------------------
(* The ways the VRAM tier drives its pagers, in one run: batches of five        *)
(* interchangeable blocks over three slots, dense sweeps of up to five layers,   *)
(* or whole forwards that stream a model's blocks through the ring while the      *)
(* device reads them.  Each has pagers of its own; those that are not driven     *)
(* stand still.                                                             *)
EXTENDS Pager

CONSTANTS b1, b2, b3, b4, b5
CONSTANTS Passes, Models, MaxInflight, MaxForwards

MCBlocks == {b1, b2, b3, b4, b5}
BlockSymmetry == Permutations(MCBlocks)

ASSUME DrivesAreBounded ==
  Passes \in Nat /\ MaxInflight \in Nat /\ MaxForwards \in Nat

(* An op of a dense model needs one block, and an arena holds the experts of one      *)
(* op at once (the floor that seam/mod.rs gives each pager).                  *)
ASSUME KnownModels ==
  \A m \in Models :
    /\ m.kind \in {"dense", "moe"} /\ m.ops \in Seq(Seq(Blocks))
    /\ m.pools \in Nat \ {0} /\ m.half \in Nat \ {0} /\ m.tape \in Nat /\ m.routed \in Nat
    /\ m.splits \in BOOLEAN /\ m.faults \in BOOLEAN
    /\ \A o \in DOMAIN m.ops : Cardinality(ToSet(m.ops[o])) <= NSlots
    /\ m.kind = "moe" => m.routed > 0
    /\ m.kind = "dense" => m.pools = 1 /\ \A o \in DOMAIN m.ops : Len(m.ops[o]) = 1

VARIABLES
  driven,
  layers, swept, belady, at, pass, hits, beladyHits, prefix,
  model, pools, lut, arena, ring, tape, run, device, forwards, lost

sweepVars == <<layers, swept, belady, at, pass, hits, beladyHits, prefix>>
streamVars == <<model, pools, lut, arena, ring, tape, run, device, forwards, lost>>

Sweep == INSTANCE CyclicSweep WITH pg <- swept
Stream == INSTANCE WeightStream WITH pg <- pools

(* Four blocks of a model, in some order: four dense layers, or two layers of    *)
(* two experts with two roles each.                                         *)
Orders == {s \in [1 .. 4 -> MCBlocks] : IsInjective(s)}

DenseModel(s, half, faults) ==
  [kind |-> "dense", ops |-> [i \in 1 .. 4 |-> <<s[i]>>], pools |-> 1, routed |-> 0,
   half |-> half, tape |-> 0, splits |-> TRUE, faults |-> faults]
MoeModel(s, routed, windows, faults) ==
  [kind |-> "moe", ops |-> <<<<s[1], s[2]>>, <<s[3], s[4]>>>>, pools |-> 2,
   routed |-> routed, half |-> 1, tape |-> windows, splits |-> TRUE, faults |-> faults]
NoModel == [DenseModel(<<b1, b2, b3, b4>>, 1, FALSE) EXCEPT !.ops = <<>>]

(* Ring halves of one block and of two; a tape that holds a forward's windows     *)
(* and one that overflows; with and without faults.                         *)
MCModels ==
  {NoModel}
  \cup UNION {{DenseModel(s, 1, TRUE), DenseModel(s, 2, FALSE),
              MoeModel(s, 1, 4, TRUE), MoeModel(s, 2, 4, FALSE),
              MoeModel(s, 1, 3, FALSE)} : s \in Orders}

MCInit ==
  /\ driven \in {"batches", "sweep", "stream"}
  /\ Init
  /\ Sweep!Init /\ (driven = "sweep" <=> layers # <<>>)
  /\ Stream!Init /\ (driven = "stream" <=> model # NoModel)

MCNext ==
  \/ driven = "batches" /\ Next /\ UNCHANGED <<driven, sweepVars, streamVars>>
  \/ driven = "sweep" /\ Sweep!Next /\ UNCHANGED <<driven, vars, streamVars>>
  \/ driven = "stream" /\ Stream!Next /\ UNCHANGED <<driven, vars, sweepVars>>

MCSpec == MCInit /\ [][MCNext]_<<driven, vars, sweepVars, streamVars>>

SweepTypeOK ==
  /\ swept \in PagerType
  /\ belady \subseteq Blocks
  /\ at \in 0 .. Len(layers) /\ pass \in 0 .. Passes
  /\ hits \in 0 .. Len(layers) /\ beladyHits \in 0 .. Len(layers)
  /\ prefix \in [Blocks -> Slots \cup {NoSlot}]

(* Scans are cheap: a cyclic sweep keeps a stable prefix of its blocks in their    *)
(* slots and is never more than one hit behind the offline optimum (the two        *)
(* properties of CyclicSweep, about schedule in pager.rs), and no scan displaces   *)
(* more of the hot set than its widest batch (ScanResistant, touch_cold).    *)
ScansAreCheap ==
  /\ SweepTypeOK /\ Sweep!PrefixKeepsItsSlots /\ Sweep!WithinOneOfBelady
  /\ ScanResistant

(* The properties of WeightStream.                                           *)
DeviceSeesWhatWasMeant == Stream!DeviceSeesWhatWasMeant
SegmentsAreRetired == Stream!SegmentsAreRetired
ResidentAtExecution == Stream!ResidentAtExecution
=============================================================================
