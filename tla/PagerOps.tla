------------------------------ MODULE PagerOps ------------------------------
(***************************************************************************)
(* The residency bookkeeping of a fixed-slot block cache                   *)
(* (infr-core/src/pager.rs): which block sits in which slot, the recency   *)
(* order victims are taken from, the batch epochs and the pins that        *)
(* protect a block.  The structure has one owner (the VRAM tier) or lives  *)
(* under one mutex (the DRAM tier), so every method is an operator from a  *)
(* pager record to a pager record.                                         *)
(*                                                                         *)
(* The hit, miss and eviction counters of PagerStats are reports and are   *)
(* left out; the two hash maps are total functions, with NoSlot, NoEpoch   *)
(* and 0 pins for an absent key.                                           *)
(***************************************************************************)
EXTENDS Integers, Sequences, SequencesExt

CONSTANTS
  Blocks,     \* the block ids the callers name
  NSlots,     \* how many uniform slots the cache has
  NoBlock     \* "no block was evicted"

ASSUME NSlotsPositive == NSlots \in Nat \ {0}
ASSUME NoBlockIsNoBlock == NoBlock \notin Blocks

Slots == 0 .. NSlots - 1
NoSlot == -1
NoEpoch == -1

InsertPolicies == {"Mru", "Cold"}

PagerType ==
  [resident : [Blocks -> Slots \cup {NoSlot}],
   lru      : Seq(Blocks),
   free     : Seq(Slots),
   epoch    : [Blocks -> Nat \cup {NoEpoch}],
   cur      : Nat,
   pinned   : [Blocks -> Nat]]

NewPager ==
  [resident |-> [b \in Blocks |-> NoSlot],
   lru      |-> <<>>,
   free     |-> [i \in 1 .. NSlots |-> NSlots - i],    \* a stack: slot 0 on top
   epoch    |-> [b \in Blocks |-> NoEpoch],
   cur      |-> 0,
   pinned   |-> [b \in Blocks |-> 0]]

IsResident(p, b) == p.resident[b] # NoSlot

ResidentBlocks(p) == {b \in Blocks : IsResident(p, b)}

BeginBatch(p) == [p EXCEPT !.cur = @ + 1]

(* Mutant of MarkMru: a hit does not promote the block.                      *)
MarkMruNot(p, b) == p

MarkMru(p, b) == [p EXCEPT !.lru = Append(RemoveFirst(@, b), b)]

Stamped(p, b) == [p EXCEPT !.epoch[b] = p.cur]

-----------------------------------------------------------------------------
(* Finding a slot: a free one, else the slot of the coldest victim.         *)

InBatch(p, b) == p.epoch[b] = p.cur

(* Mutant of Evictable: a pinned block may be the victim.                    *)
EvictableThoughPinned(p) ==
  {i \in DOMAIN p.lru : ~(p.cur # 0 /\ InBatch(p, p.lru[i]))}

(* Positions of the recency order that the pin-aware search may take.  The  *)
(* epoch protects only once some batch has been opened.                     *)
Evictable(p) ==
  {i \in DOMAIN p.lru : ~(p.cur # 0 /\ InBatch(p, p.lru[i])) /\ p.pinned[p.lru[i]] = 0}

(* Mutant of Replaceable: no batch protects a block.                         *)
ReplaceableInBatch(p) == DOMAIN p.lru

(* Positions the pin-blind search of the batched callers may take; with no  *)
(* batch ever opened it falls back to the coldest block.                    *)
Replaceable(p) ==
  LET outside == {i \in DOMAIN p.lru : ~InBatch(p, p.lru[i])}
  IN  IF outside = {} /\ p.cur = 0 THEN DOMAIN p.lru \cap {1} ELSE outside

(* The slot obtained, the block it was taken from, and the pager after it.  *)
SlotFrom(p, victims) ==
  IF p.free # <<>>
  THEN [slot |-> Last(p.free), evicted |-> NoBlock, pager |-> [p EXCEPT !.free = Front(@)]]
  ELSE LET i == CHOOSE j \in victims : \A k \in victims : j <= k
           v == p.lru[i]
       IN  [slot    |-> p.resident[v],
            evicted |-> v,
            pager   |-> [p EXCEPT !.lru = RemoveAt(@, i),
                                  !.resident[v] = NoSlot,
                                  !.epoch[v] = NoEpoch]]

(* take_slot_opt is None when neither is there. *)
CanTakeSlot(p) == p.free # <<>> \/ Evictable(p) # {}
TakeSlotOpt(p) == SlotFrom(p, Evictable(p))

(* take_slot panics when a batch is open and every block belongs to it.     *)
TakeSlotPanics(p) == p.free = <<>> /\ Replaceable(p) = {}
TakeSlot(p) == SlotFrom(p, Replaceable(p))

(* Mutant of Insert: a scan inserts at the warm end.                          *)
InsertScanWarm(p, b, slot, policy) ==
  [p EXCEPT !.resident[b] = slot, !.lru = Append(@, b)]

Insert(p, b, slot, policy) ==
  [p EXCEPT !.resident[b] = slot,
            !.lru = IF policy = "Mru" THEN Append(@, b) ELSE <<b>> \o @]

-----------------------------------------------------------------------------
(* The pinned interface: callers that read slots in place.                  *)

Pin(p, b) == [p EXCEPT !.pinned[b] = @ + 1]

MissAndPin(p, b, policy) ==
  LET t == TakeSlotOpt(p)
  IN  [t EXCEPT !.pager = Pin(Insert(Stamped(@, b), b, t.slot, policy), b)]

PinIfResident(p, b) == Pin(Stamped(p, b), b)

Repin(p, b) == Pin(p, b)

Unpin(p, b) == [p EXCEPT !.pinned[b] = @ - 1]

(* Forget a resident block whose fill failed; its slot goes back on top.    *)
Evict(p, b) ==
  [p EXCEPT !.resident[b] = NoSlot,
            !.lru = RemoveFirst(@, b),
            !.epoch[b] = NoEpoch,
            !.free = Append(@, p.resident[b])]

-----------------------------------------------------------------------------
(* The batched interface: callers that copy a slot out while a batch is     *)
(* open.  Defined when the block is resident or TakeSlot does not panic.     *)

Touch(p, b, policy) ==
  LET q == Stamped(p, b)
      t == TakeSlot(q)
  IN  IF IsResident(p, b)
      THEN [slot    |-> p.resident[b],
            evicted |-> NoBlock,
            pager   |-> IF policy = "Mru" THEN MarkMru(q, b) ELSE q]
      ELSE [t EXCEPT !.pager = Insert(@, b, t.slot, policy)]
=============================================================================
