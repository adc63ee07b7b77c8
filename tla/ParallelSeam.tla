---------------------------- MODULE ParallelSeam ----------------------------
(***************************************************************************)
(* The pool of KV slots of the concurrent engine                            *)
(* (infr-llama/src/parallel.rs): a request checks out a free slot, keeps    *)
(* its KV for the whole generation and puts it back on drop.  The pool is   *)
(* one mutex, so a locked section is one action; `freed` is a condition     *)
(* variable.  A slot may be seeded from another one on checkout, and the    *)
(* mutex is not held while the rows are copied.                             *)
(*                                                                         *)
(* A slot's KV is the tokens it claims (`cached`) and how many of the rows   *)
(* behind them are really theirs.  LRU ticks are an order: the slots from    *)
(* the longest unused to the last used.  The baton the copy waits for and    *)
(* the generation itself are GpuTurns and KvSession.                        *)
(***************************************************************************)
EXTENDS Integers, Sequences, FiniteSets, SequencesExt

CONSTANTS
  Requests,   \* the threads that call generate
  Tokens,
  NSlots,
  MaxCtx,     \* the rows of a slot
  MinSeed,    \* MIN_SEED: the shortest prefix worth a copy
  Setups      \* the requests and the faults tried, below

ASSUME RequestsFinite == IsFiniteSet(Requests)
ASSUME NSlotsPositive == NSlots \in Nat \ {0}
ASSUME MaxCtxPositive == MaxCtx \in Nat \ {0}
ASSUME MinSeedPositive == MinSeed \in Nat \ {0}
ASSUME KnownSetups ==
  \A c \in Setups :
    /\ c.prompts \subseteq Seq(Tokens) \ {<<>>} /\ c.replies \subseteq Seq(Tokens) \ {<<>>}
    /\ c.faults \subseteq {"copy", "generate", "panic"}

VARIABLES
  setup,   \* what is asked and what may go wrong; never changes
  kv,      \* Slot::kv, NoKv while it is checked out
  busy,    \* Slot::busy
  lru,     \* the slots in the order of Slot::tick
  req      \* where each request is and what it holds

vars == <<setup, kv, busy, lru, req>>

Prompts == setup.prompts    \* the token sequences asked for
Replies == setup.replies    \* the token sequences a model may answer with
Faults == setup.faults      \* of "copy", "generate" and "panic" in the copy

SlotIds == 1 .. NSlots
NoSlot == 0
NoKv == [cached |-> <<>>, sound |-> -1]
Fresh == [cached |-> <<>>, sound |-> 0]
Idle == [pc |-> "idle", prompt |-> <<>>, target |-> NoSlot, best |-> NoSlot,
         mine |-> NoKv, src |-> NoKv]

IsKv(k) == k.sound \in 0 .. Len(k.cached) /\ Len(k.cached) < MaxCtx

TypeOK ==
  /\ setup \in Setups
  /\ \A i \in SlotIds : kv[i] = NoKv \/ IsKv(kv[i])
  /\ busy \in [SlotIds -> BOOLEAN]
  /\ Len(lru) = NSlots /\ Range(lru) = SlotIds
  /\ \A r \in Requests :
       /\ req[r].pc \in {"idle", "checkout", "asleep", "seeding", "generating",
                         "dropping", "notify", "panicked"}
       /\ req[r].target \in SlotIds \cup {NoSlot}
       /\ req[r].best \in SlotIds \cup {NoSlot}

Init ==
  /\ setup \in Setups
  /\ kv = [i \in SlotIds |-> Fresh]
  /\ busy = [i \in SlotIds |-> FALSE]
  /\ lru = [i \in SlotIds |-> i]
  /\ req = [r \in Requests |-> Idle]

-----------------------------------------------------------------------------
(* The choice of a slot.                                                    *)

Lesser(m, n) == IF m < n THEN m ELSE n

(* common_prefix_len *)
Shared(s, t) ==
  Cardinality({n \in 1 .. Lesser(Len(s), Len(t)) : \A k \in 1 .. n : s[k] = t[k]})
Score(i, prompt) == Shared(kv[i].cached, prompt)

FreeSlots == {i \in SlotIds : ~busy[i]}

(* The best of some slots; max_by_key keeps the last of equal maxima.  Like   *)
(* the choices below it is a set of one slot, or of none.                    *)
LastBest(S, prompt) ==
  {i \in S : \A j \in S :
     \/ Score(j, prompt) < Score(i, prompt)
     \/ Score(j, prompt) = Score(i, prompt) /\ j <= i}

(* Free slots whose conversation the prompt continues or repeats.           *)
Continuing(prompt) ==
  {i \in FreeSlots : /\ Score(i, prompt) > 0
                     /\ Score(i, prompt) \in {Len(kv[i].cached), Len(prompt)}}

(* The longest unused free slot, an empty one before any other.             *)
Recycled ==
  LET Empty == {i \in FreeSlots : kv[i].cached = <<>>}
      From == IF Empty # {} THEN Empty ELSE FreeSlots
  IN  {i \in From : \E n \in DOMAIN lru : lru[n] = i /\ \A m \in 1 .. n - 1 : lru[m] \notin From}

Target(prompt) ==
  IF Continuing(prompt) # {} THEN LastBest(Continuing(prompt), prompt) ELSE Recycled

(* The slot a recycled one is seeded from.                                   *)
SeedSource(prompt, target) ==
  {i \in LastBest(FreeSlots \ {target}, prompt) :
     /\ Continuing(prompt) = {}
     /\ Score(i, prompt) >= MinSeed /\ Score(i, prompt) > Score(target, prompt)}

(* The slot gets the newest tick.                                            *)
Used(order, i) == Append(RemoveFirst(order, i), i)

(* Mutant of WakeOne: notify_one is left out.                                *)
WakeNone(next) == req' = next

(* notify_one: one sleeper, whichever, goes back to look for a slot.        *)
WakeOne(next) ==
  LET asleep == {u \in Requests : next[u].pc = "asleep"}
  IN  IF asleep = {} THEN req' = next
      ELSE \E u \in asleep : req' = [next EXCEPT ![u].pc = "checkout"]

-----------------------------------------------------------------------------
Ask(r, prompt) ==
  /\ req[r].pc = "idle"
  /\ req' = [req EXCEPT ![r] = [Idle EXCEPT !.pc = "checkout", !.prompt = prompt]]
  /\ UNCHANGED <<kv, busy, lru>>

Sleep(r) ==
  /\ req[r].pc = "checkout"
  /\ FreeSlots = {}
  /\ req' = [req EXCEPT ![r].pc = "asleep"]
  /\ UNCHANGED <<kv, busy, lru>>

SpuriousWake(r) ==
  /\ req[r].pc = "asleep"
  /\ req' = [req EXCEPT ![r].pc = "checkout"]
  /\ UNCHANGED <<kv, busy, lru>>

(* The slot is marked, stamped and its KV moved out.                        *)
Take(r, i) ==
  /\ busy' = [busy EXCEPT ![i] = TRUE]
  /\ kv' = [kv EXCEPT ![i] = NoKv]
  /\ lru' = Used(lru, i)
  /\ req' = [req EXCEPT ![r].pc = "generating", ![r].target = i, ![r].mine = kv[i]]

(* Mutant of Reserve: the source is not reserved.                            *)
ReserveTargetOnly(r, i, best) ==
  /\ busy' = [busy EXCEPT ![i] = TRUE]
  /\ kv' = [kv EXCEPT ![i] = NoKv, ![best] = NoKv]
  /\ req' = [req EXCEPT ![r].pc = "seeding", ![r].target = i, ![r].best = best,
                        ![r].mine = kv[i], ![r].src = kv[best]]
  /\ UNCHANGED lru

(* Both slots are reserved and emptied before the mutex is dropped.         *)
Reserve(r, i, best) ==
  /\ busy' = [busy EXCEPT ![i] = TRUE, ![best] = TRUE]
  /\ kv' = [kv EXCEPT ![i] = NoKv, ![best] = NoKv]
  /\ req' = [req EXCEPT ![r].pc = "seeding", ![r].target = i, ![r].best = best,
                        ![r].mine = kv[i], ![r].src = kv[best]]
  /\ UNCHANGED lru

Checkout(r) ==
  /\ req[r].pc = "checkout"
  /\ \E i \in Target(req[r].prompt) :
       \/ SeedSource(req[r].prompt, i) = {} /\ Take(r, i)
       \/ \E best \in SeedSource(req[r].prompt, i) : Reserve(r, i, best)

(* Mutant of Seeded: one row too few is copied.                              *)
SeededOneShort(src, p) ==
  [cached |-> SubSeq(src.cached, 1, p), sound |-> Lesser(src.sound, p - 1)]

(* seed_from copies p rows and then takes over the tokens they stand for.    *)
Seeded(src, p) == [cached |-> SubSeq(src.cached, 1, p), sound |-> Lesser(src.sound, p)]

(* Failing, it leaves some layers copied and the tokens as they were.        *)
Overwritten(mine, src) ==
  [mine EXCEPT !.sound = Lesser(@, Shared(mine.cached, src.cached))]

(* It copies nothing from a wrapped ring, nor any recurrent state.           *)
SeedOutcomes(mine, src, p) ==
  {Seeded(src, p), mine} \cup
  (IF "copy" \in Faults THEN {Overwritten(mine, src)} ELSE {})

(* Mutant of SeedEnds: the source stays reserved.                            *)
SeedEndsHoldingSource(r) ==
  LET i == req[r].target
      best == req[r].best
      p == Shared(req[r].src.cached, req[r].prompt)
  IN  /\ req[r].pc = "seeding"
      /\ busy' = busy
      /\ kv' = [kv EXCEPT ![best] = req[r].src]
      /\ lru' = Used(lru, i)
      /\ \E dst \in SeedOutcomes(req[r].mine, req[r].src, p) :
           WakeOne([req EXCEPT ![r].pc = "generating", ![r].best = NoSlot,
                               ![r].mine = dst, ![r].src = NoKv])

(* Locked again: the source goes back, the target is taken, a copy that       *)
(* failed is only logged.                                                    *)
SeedEnds(r) ==
  LET i == req[r].target
      best == req[r].best
      p == Shared(req[r].src.cached, req[r].prompt)
  IN  /\ req[r].pc = "seeding"
      /\ busy' = [busy EXCEPT ![best] = FALSE]
      /\ kv' = [kv EXCEPT ![best] = req[r].src]
      /\ lru' = Used(lru, i)
      /\ \E dst \in SeedOutcomes(req[r].mine, req[r].src, p) :
           WakeOne([req EXCEPT ![r].pc = "generating", ![r].best = NoSlot,
                               ![r].mine = dst, ![r].src = NoKv])

(* A panic in the copy unwinds through the KV of both slots.                 *)
SeedPanics(r) ==
  /\ req[r].pc = "seeding"
  /\ "panic" \in Faults
  /\ req' = [req EXCEPT ![r] = [Idle EXCEPT !.pc = "panicked"]]
  /\ UNCHANGED <<kv, busy, lru>>

-----------------------------------------------------------------------------
(* The generation, seen from its slot: the rows from `start` on are written  *)
(* again, so they are right where what they build on is.                     *)
Rebuilt(k, start, tokens) ==
  LET kept == Lesser(k.sound, Shared(k.cached, tokens))
  IN  [cached |-> tokens, sound |-> IF kept >= start THEN Len(tokens) ELSE kept]

Start(k, prompt) == Lesser(Shared(k.cached, prompt), Len(prompt) - 1)

TooLong(prompt) == Len(prompt) + 1 > MaxCtx

(* The prompt is resident but for its unfed frontier, or with the reply but  *)
(* for its last token.                                                      *)
Residents(prompt) ==
  {Front(prompt)} \cup
  {prompt \o Front(reply) : reply \in {w \in Replies : Len(prompt) + Len(w) + 1 <= MaxCtx}}

GenerateEnds(r) ==
  LET k == req[r].mine
      prompt == req[r].prompt
  IN  /\ req[r].pc = "generating"
      /\ ~TooLong(prompt)
      /\ \E tokens \in Residents(prompt) :
           req' = [req EXCEPT ![r].pc = "dropping",
                              ![r].mine = Rebuilt(k, Start(k, prompt), tokens)]
      /\ UNCHANGED <<kv, busy, lru>>

(* An error or an abort leaves the reused prefix.                            *)
GenerateFails(r) ==
  LET k == req[r].mine
      prompt == req[r].prompt
      start == Start(k, prompt)
  IN  /\ req[r].pc = "generating"
      /\ "generate" \in Faults
      /\ ~TooLong(prompt)
      /\ req' = [req EXCEPT ![r].pc = "dropping",
                            ![r].mine = Rebuilt(k, start, SubSeq(k.cached, 1, start))]
      /\ UNCHANGED <<kv, busy, lru>>

(* A prompt that cannot fit is refused before the slot is looked at.         *)
GenerateRefused(r) ==
  /\ req[r].pc = "generating"
  /\ TooLong(req[r].prompt)
  /\ req' = [req EXCEPT ![r].pc = "dropping"]
  /\ UNCHANGED <<kv, busy, lru>>

(* SlotGuard drops: the KV goes back, and then somebody is told.             *)
Drop(r) ==
  LET i == req[r].target
  IN  /\ req[r].pc = "dropping"
      /\ kv' = [kv EXCEPT ![i] = req[r].mine]
      /\ busy' = [busy EXCEPT ![i] = FALSE]
      /\ lru' = Used(lru, i)
      /\ req' = [req EXCEPT ![r] = [Idle EXCEPT !.pc = "notify"]]

Notify(r) ==
  /\ req[r].pc = "notify"
  /\ WakeOne([req EXCEPT ![r] = Idle])
  /\ UNCHANGED <<kv, busy, lru>>

Proceed(r) ==
  \/ Checkout(r) \/ Sleep(r) \/ SeedEnds(r) \/ SeedPanics(r)
  \/ GenerateEnds(r) \/ GenerateFails(r) \/ GenerateRefused(r) \/ Drop(r) \/ Notify(r)

Next ==
  UNCHANGED setup /\ \E r \in Requests :
    Proceed(r) \/ SpuriousWake(r) \/ \E prompt \in Prompts : Ask(r, prompt)

Spec == Init /\ [][Next]_vars

-----------------------------------------------------------------------------
Holds(r) == {req[r].target, req[r].best} \ {NoSlot}

(* A slot is in one place: free with its KV, or reserved by exactly one       *)
(* request that carries the KV (parallel.rs, checkout: "RESERVE both slots   *)
(* so no concurrent checkout can select them"; the `expect` on a scored       *)
(* slot never fires).                                                        *)
SlotsExclusive ==
  /\ \A r, u \in Requests : r # u => Holds(r) \cap Holds(u) = {}
  /\ \A i \in SlotIds : busy[i] <=> kv[i] = NoKv
  /\ \A r \in Requests : \A i \in Holds(r) : busy[i]

(* "a failed request can never permanently burn a slot" (SlotGuard): every    *)
(* busy slot is held by a request still in flight.                           *)
NoSlotBurned == \A i \in SlotIds : busy[i] => \E r \in Requests : i \in Holds(r)

(* It is so of every failure but a panic in the middle of a copy.            *)
NoSlotBurnedBarringPanics == "panic" \notin Faults => NoSlotBurned

(* No lost wake-up: while a request sleeps, each free slot is matched by a     *)
(* thread that will look for one or is about to wake somebody.               *)
SleepersAreWoken ==
  (\E r \in Requests : req[r].pc = "asleep") =>
    Cardinality(FreeSlots) <= Cardinality({r \in Requests : req[r].pc \in {"checkout", "notify"}})

(* What a free slot claims to hold it does hold, row for row: the next       *)
(* request that continues it reads its own conversation.                     *)
CachedRowsSound == \A i \in FreeSlots : kv[i].sound = Len(kv[i].cached)

(* It does, unless a copy may fail and the prompt be refused after that.     *)
CachedRowsSoundWhereAccepted ==
  /\ TypeOK
  /\ "copy" \notin Faults \/ (\A prompt \in Prompts : ~TooLong(prompt)) => CachedRowsSound
=============================================================================
