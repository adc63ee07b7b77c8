---------------------------- MODULE MCHostPager -----------------------------
(* Model values for HostPager, and the tiers the runs set up.                *)
EXTENDS HostPager

CONSTANTS t1, t2, t3, b1, b2, b3

MCThreads == {t1, t2, t3}
MCBlocks == {b1, b2, b3}
Symmetry == Permutations(MCThreads) \cup Permutations(MCBlocks)

AnyTwo == {T \in SUBSET MCThreads : Cardinality(T) = 2}

(* Two callers that each hold two blocks of a two-slot arena.                *)
Pinners ==
  {[threads |-> T, pins |-> 2, resident |-> 2, ops |-> {"pin", "try_pin"},
    inserts |-> InsertPolicies, large |-> {}] : T \in AnyTwo}

(* Three callers that copy blocks out.                                       *)
Fillers ==
  {[threads |-> MCThreads, pins |-> 1, resident |-> 2, ops |-> {"fill"},
    inserts |-> {}, large |-> {}]}

(* Every method at once, with a slot for every pin.                          *)
Mixed ==
  {[threads |-> T, pins |-> 1, resident |-> 2, ops |-> {"pin", "fill", "try_pin"},
    inserts |-> InsertPolicies, large |-> {}] : T \in AnyTwo}

(* The tier without an arena, with one block too long for a slot.            *)
Arenaless ==
  {[threads |-> T, pins |-> 1, resident |-> 0, ops |-> {"pin", "fill", "try_pin"},
    inserts |-> InsertPolicies, large |-> {b}] : T \in AnyTwo, b \in MCBlocks}

MCTiers == Pinners \cup Fillers \cup Mixed \cup Arenaless
=============================================================================
