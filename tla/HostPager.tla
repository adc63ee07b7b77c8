----------------------------- MODULE HostPager ------------------------------
(***************************************************************************)
(* The DRAM tier of the weight pager (infr-core/src/hostpager.rs): threads *)
(* borrow blocks of a shared arena in place.  One mutex guards all         *)
(* residency state, so a locked section is one action; the arena is read   *)
(* and written outside the mutex, under the rule that only the thread that *)
(* set a block to Loading writes its slot and only a pinned Ready block is  *)
(* read.  One condition variable, `ready`, holds the threads that wait for  *)
(* a block somebody else is loading.                                        *)
(*                                                                         *)
(* begin_batch is never called on this tier, so the pager's epoch stays 0.  *)
(***************************************************************************)
EXTENDS PagerOps, FiniteSets, FiniteSetsExt

CONSTANTS
  Threads,
  MaxPins,      \* bound: pins one caller holds at a time, a fill's own included
  Tiers         \* the ways this tier is set up and called

(* One tier and its callers: the threads that call it, the pins each holds   *)
(* at most, max_resident (0 on the arena-less stream_only tier), the methods *)
(* called, the insertion policies of pin, the blocks beyond the slot stride. *)
Tier ==
  [threads : SUBSET Threads, pins : 1 .. MaxPins, resident : {0, NSlots},
   ops : SUBSET {"pin", "fill", "try_pin"}, inserts : SUBSET InsertPolicies,
   large : SUBSET Blocks]

ASSUME ThreadsFinite == IsFiniteSet(Threads)
ASSUME MaxPinsPositive == MaxPins \in Nat \ {0}
ASSUME TiersAreTiers == Tiers \subseteq Tier

PinIds == 1 .. MaxPins

VARIABLES
  tier,       \* the tier this is, and who calls it; never changes
  pg,         \* Inner::pager
  state,      \* Inner::state: "none", "loading" or "ready"
  descs,      \* Inner::descs: the registered blocks
  missed,     \* Inner::missed_once, the admission doorkeeper
  arena,      \* which block's bytes each slot holds, NoBlock for partial ones
  call,       \* the call each thread is in, and where it is in it
  pins,       \* the borrows each thread holds: block, slot pointer, use
  exhausted   \* whether some pin has returned the exhaustion error

vars == <<tier, pg, state, descs, missed, arena, call, pins, exhausted>>

NoPin == [blk |-> NoBlock, slot |-> NoSlot, use |-> "none"]
Borrow == [blk : Blocks, slot : Slots, use : {"read", "write"}]
Locations == {"want", "wait", "read", "publish", "abandon",
              "copyHit", "copyNew", "notify", "stream"}
Call == [at : Locations, op : {"pin", "fill", "try_pin"}, blk : Blocks,
         insert : InsertPolicies, k : PinIds]
NoCall == [at |-> "idle", op |-> "none", blk |-> NoBlock, insert |-> "Cold", k |-> 1]

TypeOK ==
  /\ tier \in Tiers
  /\ pg \in PagerType
  /\ state \in [Blocks -> {"none", "loading", "ready"}]
  /\ descs \subseteq Blocks
  /\ missed \subseteq Blocks
  /\ arena \in [Slots -> Blocks \cup {NoBlock}]
  /\ call \in [Threads -> Call \cup {NoCall}]
  /\ pins \in [Threads -> [PinIds -> Borrow \cup {NoPin}]]
  /\ exhausted \in BOOLEAN

Init ==
  /\ tier \in Tiers
  /\ pg = NewPager
  /\ state = [b \in Blocks |-> "none"]
  /\ descs = {}
  /\ missed = {}
  /\ arena = [s \in Slots |-> NoBlock]
  /\ call = [t \in Threads |-> NoCall]
  /\ pins = [t \in Threads |-> [k \in PinIds |-> NoPin]]
  /\ exhausted = FALSE

Caches == tier.resident > 0
At(t) == call[t].at
Blk(t) == call[t].blk

(* The call of t moves on; at "idle" it has returned.                       *)
Goto(t, from, to) ==
  /\ At(t) = from
  /\ call' = [call EXCEPT ![t] = IF to = "idle" THEN NoCall ELSE [@ EXCEPT !.at = to]]

(* The call of t borrows its block's slot, or gives it back.                *)
Borrows(t, slot, use) ==
  pins' = [pins EXCEPT ![t][call[t].k] = [blk |-> Blk(t), slot |-> slot, use |-> use]]
Returns(t) == pins' = [pins EXCEPT ![t][call[t].k] = NoPin]
MySlot(t) == pins[t][call[t].k].slot

-----------------------------------------------------------------------------
Register(b) ==
  /\ b \notin descs \cup tier.large
  /\ descs' = descs \cup {b}
  /\ UNCHANGED <<pg, state, missed, arena, call, pins, exhausted>>

(* The caller enters pin, fill or try_pin.                                  *)
Enter(t, op, b, insert) ==
  LET unused == {k \in 1 .. tier.pins : pins[t][k] = NoPin}
  IN  /\ At(t) = "idle"
      /\ t \in tier.threads /\ op \in tier.ops
      /\ insert \in IF op = "pin" THEN tier.inserts ELSE {"Cold"}
      /\ unused # {}
      /\ call' = [call EXCEPT ![t] = [at |-> "want", op |-> op, blk |-> b, insert |-> insert,
                                      k |-> CHOOSE k \in unused : \A j \in unused : k <= j]]
      /\ UNCHANGED <<pg, state, descs, missed, arena, pins, exhausted>>

(* pin on an arena-less tier, or pin or fill of an unregistered block.      *)
Refused(t) ==
  /\ Goto(t, "want", "idle")
  /\ \/ call[t].op = "pin" /\ ~Caches
     \/ call[t].op \in {"pin", "fill"} /\ Blk(t) \notin descs
  /\ UNCHANGED <<pg, state, descs, missed, arena, pins, exhausted>>

Admissible(t) ==
  /\ At(t) = "want"
  /\ Blk(t) \in descs
  /\ call[t].op = "pin" => Caches

(* Mutant of Hit: a Loading block is lent as if it were Ready.               *)
HitWhileLoading(t) ==
  /\ Admissible(t)
  /\ call[t].op \in {"pin", "fill"}
  /\ IsResident(pg, Blk(t))
  /\ pg' = PinIfResident(pg, Blk(t))
  /\ Borrows(t, pg.resident[Blk(t)], "read")
  /\ Goto(t, "want", IF call[t].op = "pin" THEN "idle" ELSE "copyHit")
  /\ UNCHANGED <<state, descs, missed, arena, exhausted>>

(* The block is resident and readable: borrow it; a fill copies it out.     *)
Hit(t) ==
  /\ Admissible(t)
  /\ call[t].op \in {"pin", "fill"}
  /\ state[Blk(t)] = "ready" /\ IsResident(pg, Blk(t))
  /\ pg' = PinIfResident(pg, Blk(t))
  /\ Borrows(t, pg.resident[Blk(t)], "read")
  /\ Goto(t, "want", IF call[t].op = "pin" THEN "idle" ELSE "copyHit")
  /\ UNCHANGED <<state, descs, missed, arena, exhausted>>

Wait(t) ==
  /\ Admissible(t)
  /\ call[t].op \in {"pin", "fill"}
  /\ state[Blk(t)] = "loading"
  /\ Goto(t, "want", "wait")
  /\ UNCHANGED <<pg, state, descs, missed, arena, pins, exhausted>>

(* A condition variable may wake a waiter for no reason.                    *)
SpuriousWake(t) ==
  /\ Goto(t, "wait", "want")
  /\ UNCHANGED <<pg, state, descs, missed, arena, pins, exhausted>>

(* Mutant of Claim: the victim's state entry stays behind.                   *)
ClaimKeepsVictimState(t) ==
  LET m == MissAndPin(pg, Blk(t), call[t].insert)
  IN  /\ state[Blk(t)] = "none"
      /\ CanTakeSlot(pg)
      /\ pg' = m.pager
      /\ state' = [state EXCEPT ![Blk(t)] = "loading"]
      /\ Borrows(t, m.slot, "write")
      /\ Goto(t, "want", "read")

(* resolve_and_pin gave the thread a slot: the block is Loading and the      *)
(* thread leaves the mutex to read it.  (The code's arms for a resident      *)
(* block with no state entry are unreachable: BookkeepingAgrees.)            *)
Claim(t) ==
  LET m == MissAndPin(pg, Blk(t), call[t].insert)
  IN  /\ state[Blk(t)] = "none"
      /\ CanTakeSlot(pg)
      /\ pg' = m.pager
      /\ state' = [b \in Blocks |-> IF b = Blk(t) THEN "loading"
                                    ELSE IF b = m.evicted THEN "none" ELSE state[b]]
      /\ Borrows(t, m.slot, "write")
      /\ Goto(t, "want", "read")

ClaimForPin(t) ==
  /\ Admissible(t)
  /\ call[t].op = "pin"
  /\ Claim(t)
  /\ UNCHANGED <<descs, missed, arena, exhausted>>

(* No slot to give: an error at once, never a wait for somebody's pin.      *)
Exhausted(t) ==
  /\ Admissible(t)
  /\ call[t].op = "pin"
  /\ state[Blk(t)] = "none"
  /\ ~CanTakeSlot(pg)
  /\ exhausted' = TRUE
  /\ Goto(t, "want", "idle")
  /\ UNCHANGED <<pg, state, descs, missed, arena, pins>>

Room == Cardinality(ResidentBlocks(pg)) < tier.resident

(* A fill admits its block only into a free slot and on its second miss.    *)
ClaimForFill(t) ==
  /\ Admissible(t)
  /\ call[t].op = "fill"
  /\ Room /\ Blk(t) \in missed
  /\ Claim(t)
  /\ UNCHANGED <<descs, missed, arena, exhausted>>

(* Otherwise it reads straight into the caller's buffer; the doorkeeper      *)
(* notes the miss only while there is room.                                  *)
Stream(t) ==
  /\ Admissible(t)
  /\ call[t].op = "fill"
  /\ state[Blk(t)] = "none"
  /\ ~(Room /\ Blk(t) \in missed /\ CanTakeSlot(pg))
  /\ missed' = IF Room THEN missed \cup {Blk(t)} ELSE missed
  /\ Goto(t, "want", "stream")
  /\ UNCHANGED <<pg, state, descs, arena, pins, exhausted>>

StreamEnds(t) ==
  /\ Goto(t, "stream", "idle")
  /\ UNCHANGED <<pg, state, descs, missed, arena, pins, exhausted>>

(* The read of the block into its slot, outside the mutex, ends.            *)
ReadSucceeds(t) ==
  /\ Goto(t, "read", "publish")
  /\ arena' = [arena EXCEPT ![MySlot(t)] = Blk(t)]
  /\ UNCHANGED <<pg, state, descs, missed, pins, exhausted>>

ReadFails(t) ==
  /\ Goto(t, "read", "abandon")
  /\ arena' = [arena EXCEPT ![MySlot(t)] = NoBlock]
  /\ UNCHANGED <<pg, state, descs, missed, pins, exhausted>>

(* Locked again: the block is Ready, and the loader's pin is now a borrow.  *)
Publish(t) ==
  /\ Goto(t, "publish", IF call[t].op = "pin" THEN "notify" ELSE "copyNew")
  /\ state' = [state EXCEPT ![Blk(t)] = "ready"]
  /\ Borrows(t, MySlot(t), "read")
  /\ UNCHANGED <<pg, descs, missed, arena, exhausted>>

(* Mutants of Abandon: the pin taken by the claim is left behind; the        *)
(* waiters are not told.                                                     *)
AbandonLeaksPin(t) ==
  /\ Goto(t, "abandon", "notify")
  /\ state' = [state EXCEPT ![Blk(t)] = "none"]
  /\ pg' = Evict(pg, Blk(t))
  /\ Returns(t)
  /\ UNCHANGED <<descs, missed, arena, exhausted>>

AbandonSilently(t) ==
  /\ Goto(t, "abandon", "idle")
  /\ state' = [state EXCEPT ![Blk(t)] = "none"]
  /\ pg' = Evict(Unpin(pg, Blk(t)), Blk(t))
  /\ Returns(t)
  /\ UNCHANGED <<descs, missed, arena, exhausted>>

(* Locked again after a failed read: forget the block and free its slot.    *)
Abandon(t) ==
  /\ Goto(t, "abandon", "notify")
  /\ state' = [state EXCEPT ![Blk(t)] = "none"]
  /\ pg' = Evict(Unpin(pg, Blk(t)), Blk(t))
  /\ Returns(t)
  /\ UNCHANGED <<descs, missed, arena, exhausted>>

(* A fill has copied the slot out: its pin drops.                           *)
Copied(t) ==
  /\ \/ Goto(t, "copyHit", "idle")
     \/ Goto(t, "copyNew", "notify")
  /\ pg' = Unpin(pg, Blk(t))
  /\ Returns(t)
  /\ UNCHANGED <<state, descs, missed, arena, exhausted>>

(* ready.notify_all, after the mutex is released.                           *)
Notify(t) ==
  /\ At(t) = "notify"
  /\ call' = [u \in Threads |-> IF u = t THEN NoCall
                                ELSE IF At(u) = "wait" THEN [call[u] EXCEPT !.at = "want"]
                                ELSE call[u]]
  /\ UNCHANGED <<pg, state, descs, missed, arena, pins, exhausted>>

(* try_pin: borrow the block again if it is there, never read or wait.      *)
TryPin(t) ==
  /\ call[t].op = "try_pin"
  /\ Goto(t, "want", "idle")
  /\ IF Caches /\ state[Blk(t)] = "ready" /\ IsResident(pg, Blk(t))
     THEN /\ pg' = Repin(pg, Blk(t))
          /\ Borrows(t, pg.resident[Blk(t)], "read")
     ELSE UNCHANGED <<pg, pins>>
  /\ UNCHANGED <<state, descs, missed, arena, exhausted>>

(* The caller drops a Pin.                                                   *)
DropPin(t, k) ==
  /\ At(t) = "idle"
  /\ pins[t][k] # NoPin
  /\ pg' = Unpin(pg, pins[t][k].blk)
  /\ pins' = [pins EXCEPT ![t][k] = NoPin]
  /\ UNCHANGED <<state, descs, missed, arena, call, exhausted>>

(* What a thread does by itself once it is inside a call.                   *)
Proceed(t) ==
  \/ Refused(t) \/ Hit(t) \/ Wait(t) \/ ClaimForPin(t) \/ Exhausted(t)
  \/ ClaimForFill(t) \/ Stream(t) \/ StreamEnds(t)
  \/ ReadSucceeds(t) \/ ReadFails(t) \/ Publish(t) \/ Abandon(t)
  \/ Copied(t) \/ Notify(t) \/ TryPin(t)

Step ==
  \/ \E b \in Blocks : Register(b)
  \/ \E t \in Threads, op \in {"pin", "fill", "try_pin"}, b \in Blocks, insert \in InsertPolicies :
       Enter(t, op, b, insert)
  \/ \E t \in Threads : Proceed(t) \/ SpuriousWake(t)
  \/ \E t \in Threads, k \in PinIds : DropPin(t, k)

Next == Step /\ UNCHANGED tier

Spec == Init /\ [][Next]_vars

(* A running thread gets the mutex again, and reads of the file return.     *)
FairSpec == Spec /\ \A t \in Threads : WF_vars(Proceed(t) /\ UNCHANGED tier)

-----------------------------------------------------------------------------
(* A thread that holds a borrow, and the slot it has a pointer to.          *)
Readers(s) == {t \in Threads : \E k \in PinIds : pins[t][k].use = "read" /\ pins[t][k].slot = s}
Writers(s) == {t \in Threads : \E k \in PinIds : pins[t][k].use = "write" /\ pins[t][k].slot = s}

(* hostpager.rs, Soundness: "for any byte, at most one writer and no        *)
(* concurrent reader" - the unsafe slices never alias.                      *)
NoDataRace ==
  \A s \in Slots :
    /\ Writers(s) # {} => Readers(s) = {}
    /\ Cardinality(Writers(s)) <= 1

Holders(b) == {h \in Threads \X PinIds : pins[h[1]][h[2]].blk = b}

(* The pager, the state map and the borrows tell one story.  The pin count is   *)
(* the number of outstanding borrows and loads: no error path leaks a pin (the   *)
(* slot would never be evictable again) or drops one twice (unpin panics).       *)
(* state and residency are set together: the arms of pin and fill for a          *)
(* resident block without a state entry cannot be reached.  And the slots not    *)
(* counted as resident are free ones: "a free slot cannot have evicted" (fill).    *)
BookkeepingAgrees ==
  /\ TypeOK
  /\ Len(pg.free) + Cardinality(ResidentBlocks(pg)) = NSlots
  /\ \A b \in Blocks :
       /\ pg.pinned[b] = Cardinality(Holders(b))
       /\ state[b] # "none" <=> IsResident(pg, b)

(* With a slot for every pin the callers can hold at once, pin never fails  *)
(* for want of a slot (the sizing rule of HostPager::new).                  *)
FloorSuffices == NSlots >= Cardinality(tier.threads) * tier.pins => ~exhausted

(* Seen from outside the tier is a library that lends blocks: a Pin shows   *)
(* its block's bytes, whole, from the moment it is handed out until it is    *)
(* dropped: no eviction, no failed or half-done read shows through.          *)
LeaseOf(t, k) ==
  IF pins[t][k].use = "read"
  THEN [blk |-> pins[t][k].blk, bytes |-> arena[pins[t][k].slot]]
  ELSE [blk |-> NoBlock, bytes |-> NoBlock]

Leases == INSTANCE LeasedReads WITH
  Nothing <- NoBlock,
  lease <- [t \in Threads |-> [k \in PinIds |-> LeaseOf(t, k)]]

ImplementsLeases == Leases!Spec

(* Every waiter is woken, whether the load succeeds or fails.               *)
WaiterWakes == \A t \in Threads : At(t) = "wait" ~> At(t) # "wait"
=============================================================================
