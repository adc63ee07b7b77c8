------------------------- MODULE ParallelSeamProofs -------------------------
(***************************************************************************)
(* Proofs about the pool of KV slots, for any number of requests and slots, *)
(* any prompts and replies: a slot is in one place at a time, and only a     *)
(* panic in a copy can lose one.                                            *)
(***************************************************************************)
EXTENDS ParallelSeam, FiniteSetTheorems, SequenceTheorems, TLAPS

(* A KV that somebody has, and a KV or its absence.                          *)
KvType == [cached : Seq(Tokens), sound : Nat]
KvOrNone == KvType \cup {NoKv}

RequestType ==
  [pc : {"idle", "checkout", "asleep", "seeding", "generating", "dropping", "notify",
         "panicked"},
   prompt : Seq(Tokens), target : SlotIds \cup {NoSlot}, best : SlotIds \cup {NoSlot},
   mine : KvOrNone, src : KvOrNone]

Typed ==
  /\ setup \in Setups
  /\ kv \in [SlotIds -> KvOrNone]
  /\ busy \in [SlotIds -> BOOLEAN]
  /\ req \in [Requests -> RequestType]

(* What a request carries follows from where it is.                         *)
CarriesWell(q) ==
  /\ q.pc \in {"checkout", "asleep", "seeding", "generating"} => q.prompt # <<>>
  /\ q.pc = "seeding" =>
       /\ q.target \in SlotIds /\ q.best \in SlotIds /\ q.target # q.best
       /\ q.mine \in KvType /\ q.src \in KvType
  /\ q.pc \in {"generating", "dropping"} =>
       q.target \in SlotIds /\ q.best = NoSlot /\ q.mine \in KvType
  /\ q.pc \notin {"seeding", "generating", "dropping"} =>
       q.target = NoSlot /\ q.best = NoSlot

Carried == \A r \in Requests : CarriesWell(req[r])

(* The inductive invariant.  SlotsExclusive alone is not inductive: it does   *)
(* not say that the KV a request puts back is one.                           *)
SeamInv == Typed /\ Carried /\ SlotsExclusive /\ NoSlotBurnedBarringPanics

-----------------------------------------------------------------------------
(* The shared prefix of two sequences is no longer than either.              *)
LEMMA SharedBound ==
  ASSUME NEW s \in Seq(Tokens), NEW t \in Seq(Tokens)
  PROVE  Shared(s, t) \in Nat /\ Shared(s, t) <= Len(s) /\ Shared(s, t) <= Len(t)
<1> DEFINE n == Lesser(Len(s), Len(t))
           S == {m \in 1 .. n : \A k \in 1 .. m : s[k] = t[k]}
<1>1. n \in Nat /\ n <= Len(s) /\ n <= Len(t)
  BY DEF Lesser
<1> HIDE DEF n
<1>2. IsFiniteSet(1 .. n) /\ Cardinality(1 .. n) = n
  BY <1>1, FS_Interval
<1>3. S \in SUBSET (1 .. n)
  OBVIOUS
<1>4. IsFiniteSet(S) /\ Cardinality(S) <= Cardinality(1 .. n)
  BY <1>2, <1>3, FS_Subset
<1>5. Cardinality(S) \in Nat
  BY <1>4, FS_CardinalityType
<1>6. Shared(s, t) = Cardinality(S)
  BY DEF Shared, n
<1> HIDE DEF S
<1> QED
  BY <1>1, <1>2, <1>4, <1>5, <1>6

(* What a request asks and what a model answers are sequences of tokens.     *)
LEMMA WordsType ==
  ASSUME setup \in Setups
  PROVE  /\ \A prompt \in Prompts : prompt \in Seq(Tokens) /\ prompt # <<>>
         /\ \A reply \in Replies : reply \in Seq(Tokens) /\ reply # <<>>
BY KnownSetups DEF Prompts, Replies

(* However the copy ends, the target has a KV.                              *)
LEMMA SeedOutcomesType ==
  ASSUME NEW mine \in KvType, NEW src \in KvType, NEW prompt \in Seq(Tokens),
         NEW dst \in SeedOutcomes(mine, src, Shared(src.cached, prompt))
  PROVE  dst \in KvType
<1> DEFINE p == Shared(src.cached, prompt)
           q == Shared(mine.cached, src.cached)
<1>1. mine.cached \in Seq(Tokens) /\ src.cached \in Seq(Tokens)
      /\ mine.sound \in Nat /\ src.sound \in Nat
  BY DEF KvType
<1>2. p \in Nat /\ p <= Len(src.cached) /\ q \in Nat
  BY <1>1, SharedBound
<1> HIDE DEF p, q
<1>3. SubSeq(src.cached, 1, p) \in Seq(Tokens)
  BY <1>1, <1>2
<1>4. Lesser(src.sound, p) \in Nat /\ Lesser(mine.sound, q) \in Nat
  BY <1>1, <1>2 DEF Lesser
<1>5. Seeded(src, p) \in KvType
  BY <1>3, <1>4 DEF Seeded, KvType
<1>6. Overwritten(mine, src) \in KvType
  BY <1>1, <1>4 DEF Overwritten, KvType, q
<1> QED
  BY <1>5, <1>6 DEF SeedOutcomes, p

(* The generation leaves a KV as well, complete or cut back.                *)
LEMMA RebuiltType ==
  ASSUME NEW k \in KvType, NEW start \in Int, NEW tokens \in Seq(Tokens)
  PROVE  Rebuilt(k, start, tokens) \in KvType
<1>1. k.cached \in Seq(Tokens) /\ k.sound \in Nat
  BY DEF KvType
<1>2. Shared(k.cached, tokens) \in Nat
  BY <1>1, SharedBound
<1>3. Lesser(k.sound, Shared(k.cached, tokens)) \in Nat
  BY <1>1, <1>2 DEF Lesser
<1> QED
  BY <1>3 DEF Rebuilt, KvType

LEMMA StartBound ==
  ASSUME NEW k \in KvType, NEW prompt \in Seq(Tokens), prompt # <<>>
  PROVE  Start(k, prompt) \in Nat /\ Start(k, prompt) <= Len(k.cached)
<1>1. k.cached \in Seq(Tokens)
  BY DEF KvType
<1>2. Len(prompt) - 1 \in Nat
  OBVIOUS
<1> QED
  BY <1>1, <1>2, SharedBound DEF Start, Lesser

LEMMA ResidentsType ==
  ASSUME setup \in Setups, NEW prompt \in Seq(Tokens), prompt # <<>>,
         NEW tokens \in Residents(prompt)
  PROVE  tokens \in Seq(Tokens)
<1>1. ASSUME NEW w \in Seq(Tokens), w # <<>> PROVE Front(w) \in Seq(Tokens)
  BY <1>1 DEF Front
<1>2. CASE tokens = Front(prompt)
  BY <1>1, <1>2
<1>3. CASE \E reply \in Replies : tokens = prompt \o Front(reply)
  BY <1>1, <1>3, WordsType
<1> QED
  BY <1>2, <1>3 DEF Residents

(* notify_one moves at most a sleeper, back to where it looks for a slot; what  *)
(* everybody carries stays as it is.                                         *)
LEMMA WakeKeeps ==
  ASSUME NEW next \in [Requests -> RequestType], \A r \in Requests : CarriesWell(next[r]),
         WakeOne(next)
  PROVE  /\ req' \in [Requests -> RequestType]
         /\ Carried'
         /\ \A r \in Requests : req'[r].target = next[r].target /\ req'[r].best = next[r].best
         /\ \A r \in Requests : Holds(r)' = {next[r].target, next[r].best} \ {NoSlot}
<1>1. CASE req' = next
  BY <1>1 DEF Carried, Holds
<1>2. CASE \E u \in Requests : next[u].pc = "asleep" /\ req' = [next EXCEPT ![u].pc = "checkout"]
  <2>1. PICK u \in Requests : next[u].pc = "asleep" /\ req' = [next EXCEPT ![u].pc = "checkout"]
    BY <1>2
  <2>2. next[u] \in RequestType /\ CarriesWell(next[u])
    OBVIOUS
  <2>3. req'[u] = [next[u] EXCEPT !.pc = "checkout"]
    BY <2>1
  <2>4. req'[u] \in RequestType
    BY <2>2, <2>3 DEF RequestType
  <2>5. CarriesWell(req'[u]) /\ req'[u].target = next[u].target /\ req'[u].best = next[u].best
    BY <2>1, <2>2, <2>3 DEF RequestType, CarriesWell
  <2>6. \A r \in Requests \ {u} : req'[r] = next[r]
    BY <2>1
  <2> QED
    BY <2>1, <2>4, <2>5, <2>6 DEF Carried, Holds
<1> QED
  BY <1>1, <1>2 DEF WakeOne

-----------------------------------------------------------------------------
LEMMA SlotFacts == NoSlot \notin SlotIds /\ NoKv \notin KvType
BY NSlotsPositive DEF SlotIds, NoSlot, NoKv, KvType

LEMMA IdleType ==
  Idle \in RequestType /\ Idle.pc = "idle" /\ Idle.target = NoSlot /\ Idle.best = NoSlot
BY DEF Idle, RequestType, KvOrNone

(* A chosen slot is free, and the source of a copy is another one.           *)
LEMMA ChosenAreFree ==
  ASSUME NEW prompt, NEW i \in Target(prompt)
  PROVE  i \in FreeSlots /\ SeedSource(prompt, i) \subseteq FreeSlots \ {i}
BY DEF Target, LastBest, Continuing, Recycled, SeedSource

(* The parts of SeamInv from what a step changes of one request.             *)
LEMMA OneChanges ==
  ASSUME SeamInv, NEW r \in Requests, NEW q \in RequestType, CarriesWell(q),
         req' = [req EXCEPT ![r] = q]
  PROVE  /\ req' \in [Requests -> RequestType]
         /\ Carried'
         /\ \A u \in Requests : Holds(u)' = IF u = r THEN {q.target, q.best} \ {NoSlot}
                                           ELSE Holds(u)
BY DEF SeamInv, Typed, Carried, Holds

LEMMA SeamStep ==
  ASSUME SeamInv, [Next]_vars
  PROVE  SeamInv'
<1>1. /\ setup \in Setups
      /\ kv \in [SlotIds -> KvOrNone]
      /\ busy \in [SlotIds -> BOOLEAN]
      /\ req \in [Requests -> RequestType]
  BY DEF SeamInv, Typed
<1>2. \A r \in Requests : CarriesWell(req[r]) /\ req[r] \in RequestType
  BY <1>1 DEF SeamInv, Carried
<1>3. CASE UNCHANGED vars
  BY <1>3 DEF vars, SeamInv, Typed, Carried, CarriesWell, SlotsExclusive, Holds,
              NoSlotBurnedBarringPanics, NoSlotBurned, Faults
<1> SUFFICES ASSUME Next PROVE SeamInv'
  BY <1>3
<1>4. setup' \in Setups /\ Faults' = Faults
  BY <1>1 DEF Next, Faults
(* A step that leaves the slots alone, and what its request holds.           *)
<1>5. ASSUME NEW r \in Requests, NEW q \in RequestType, CarriesWell(q),
             req' = [req EXCEPT ![r] = q], UNCHANGED <<kv, busy>>,
             q.target = req[r].target, q.best = req[r].best
      PROVE  SeamInv'
  <2>1. \A u \in Requests : Holds(u)' = Holds(u)
    BY <1>5, OneChanges DEF Holds
  <2>2. req' \in [Requests -> RequestType] /\ Carried'
    BY <1>5, OneChanges
  <2>3. SlotsExclusive'
    BY <1>5, <2>1 DEF SeamInv, SlotsExclusive
  <2>4. NoSlotBurnedBarringPanics'
    BY <1>4, <1>5, <2>1 DEF SeamInv, NoSlotBurnedBarringPanics, NoSlotBurned
  <2> QED
    BY <1>1, <1>4, <1>5, <2>2, <2>3, <2>4 DEF SeamInv, Typed
<1>6. ASSUME NEW r \in Requests, NEW prompt \in Prompts, Ask(r, prompt) PROVE SeamInv'
  <2> DEFINE q == [Idle EXCEPT !.pc = "checkout", !.prompt = prompt]
  <2>1. prompt \in Seq(Tokens) /\ prompt # <<>>
    BY <1>1, WordsType
  <2>2. q \in RequestType /\ CarriesWell(q) /\ q.target = NoSlot /\ q.best = NoSlot
    BY <2>1 DEF Idle, RequestType, CarriesWell, KvOrNone
  <2>3. req[r].target = NoSlot /\ req[r].best = NoSlot
    BY <1>2, <1>6 DEF Ask, CarriesWell
  <2> QED
    BY <1>5, <1>6, <2>2, <2>3 DEF Ask
<1>7. ASSUME NEW r \in Requests, Sleep(r) \/ SpuriousWake(r) \/ GenerateRefused(r)
      PROVE  SeamInv'
  <2> DEFINE q(pc) == [req[r] EXCEPT !.pc = pc]
  <2>1. CASE Sleep(r)
    <3>1. q("asleep") \in RequestType /\ CarriesWell(q("asleep"))
          /\ q("asleep").target = req[r].target /\ q("asleep").best = req[r].best
      BY <1>2, <2>1 DEF Sleep, RequestType, CarriesWell
    <3> QED
      BY <1>5, <2>1, <3>1 DEF Sleep
  <2>2. CASE SpuriousWake(r)
    <3>1. q("checkout") \in RequestType /\ CarriesWell(q("checkout"))
          /\ q("checkout").target = req[r].target /\ q("checkout").best = req[r].best
      BY <1>2, <2>2 DEF SpuriousWake, RequestType, CarriesWell
    <3> QED
      BY <1>5, <2>2, <3>1 DEF SpuriousWake
  <2>3. CASE GenerateRefused(r)
    <3>1. q("dropping") \in RequestType /\ CarriesWell(q("dropping"))
          /\ q("dropping").target = req[r].target /\ q("dropping").best = req[r].best
      BY <1>2, <2>3 DEF GenerateRefused, RequestType, CarriesWell
    <3> QED
      BY <1>5, <2>3, <3>1 DEF GenerateRefused
  <2> QED
    BY <1>7, <2>1, <2>2, <2>3
(* A generation that ends: the request holds the slot with another KV.       *)
<1>8. ASSUME NEW r \in Requests, NEW k \in KvType, req[r].pc = "generating",
             req' = [req EXCEPT ![r].pc = "dropping", ![r].mine = k],
             UNCHANGED <<kv, busy>>
      PROVE  SeamInv'
  <2> DEFINE q == [req[r] EXCEPT !.pc = "dropping", !.mine = k]
  <2>1. q \in RequestType /\ CarriesWell(q) /\ q.target = req[r].target /\ q.best = req[r].best
    BY <1>2, <1>8 DEF RequestType, CarriesWell, KvOrNone
  <2>2. req' = [req EXCEPT ![r] = q]
    BY <1>8
  <2> QED
    BY <1>5, <1>8, <2>1, <2>2
<1>9. ASSUME NEW r \in Requests, GenerateEnds(r) PROVE SeamInv'
  <2> DEFINE k == req[r].mine
             prompt == req[r].prompt
  <2>1. k \in KvType /\ prompt \in Seq(Tokens) /\ prompt # <<>> /\ req[r].pc = "generating"
    BY <1>2, <1>9 DEF GenerateEnds, CarriesWell, RequestType
  <2>2. PICK tokens \in Residents(prompt) :
          req' = [req EXCEPT ![r].pc = "dropping",
                             ![r].mine = Rebuilt(k, Start(k, prompt), tokens)]
    BY <1>9 DEF GenerateEnds
  <2>3. Rebuilt(k, Start(k, prompt), tokens) \in KvType
    BY <1>1, <2>1, ResidentsType, StartBound, RebuiltType
  <2> QED
    BY <1>8, <1>9, <2>1, <2>2, <2>3 DEF GenerateEnds
<1>10. ASSUME NEW r \in Requests, GenerateFails(r) PROVE SeamInv'
  <2> DEFINE k == req[r].mine
             start == Start(k, req[r].prompt)
             back == Rebuilt(k, start, SubSeq(k.cached, 1, start))
  <2>1. k \in KvType /\ req[r].prompt \in Seq(Tokens) /\ req[r].prompt # <<>>
        /\ req[r].pc = "generating"
    BY <1>2, <1>10 DEF GenerateFails, CarriesWell, RequestType
  <2>2. k.cached \in Seq(Tokens) /\ start \in Nat /\ start <= Len(k.cached)
    BY <2>1, StartBound DEF KvType
  <2>3. back \in KvType
    <3>1. SubSeq(k.cached, 1, start) \in Seq(Tokens)
      BY <2>2
    <3>2. start \in Int /\ k \in KvType
      BY <2>1, <2>2
    <3> HIDE DEF k, start
    <3> QED
      BY <3>1, <3>2, RebuiltType
  <2>4. req' = [req EXCEPT ![r].pc = "dropping", ![r].mine = back] /\ UNCHANGED <<kv, busy>>
    BY <1>10 DEF GenerateFails
  <2> HIDE DEF back
  <2> QED
    BY <1>8, <2>1, <2>3, <2>4
<1>11. ASSUME NEW r \in Requests, NEW i \in Target(req[r].prompt), req[r].pc = "checkout",
              Take(r, i)
       PROVE  SeamInv'
  <2> DEFINE q == [req[r] EXCEPT !.pc = "generating", !.target = i, !.mine = kv[i]]
  <2>1. i \in SlotIds /\ ~busy[i] /\ kv[i] \in KvType
    BY <1>1, <1>11, ChosenAreFree DEF FreeSlots, SeamInv, SlotsExclusive, KvOrNone
  <2>2. req[r].best = NoSlot /\ req[r].target = NoSlot /\ req[r].prompt # <<>>
    BY <1>2, <1>11 DEF CarriesWell
  <2>3. q \in RequestType /\ CarriesWell(q) /\ q.target = i /\ q.best = NoSlot
    BY <1>2, <2>1, <2>2 DEF RequestType, CarriesWell, KvOrNone
  <2>4. req' = [req EXCEPT ![r] = q]
    BY <1>11 DEF Take
  <2> HIDE DEF q
  <2>5. /\ req' \in [Requests -> RequestType] /\ Carried'
        /\ \A u \in Requests : Holds(u)' = IF u = r THEN {i} ELSE Holds(u)
    <3>1. {q.target, q.best} \ {NoSlot} = {i}
      BY <2>1, <2>3, SlotFacts
    <3> QED
      BY <2>3, <2>4, <3>1, OneChanges
  <2>6. busy' = [busy EXCEPT ![i] = TRUE] /\ kv' = [kv EXCEPT ![i] = NoKv]
    BY <1>11 DEF Take
  <2>7. SlotsExclusive'
    BY <1>1, <2>1, <2>5, <2>6 DEF SeamInv, SlotsExclusive
  <2>8. NoSlotBurnedBarringPanics'
    <3>1. Holds(r) = {}
      BY <1>2, <1>11 DEF CarriesWell, Holds
    <3>2. ASSUME "panic" \notin Faults, NEW j \in SlotIds, busy'[j]
          PROVE  \E u \in Requests : j \in Holds(u)'
      <4>1. CASE j = i
        BY <2>5, <4>1
      <4>2. CASE j # i
        <5>1. busy[j]
          BY <1>1, <2>1, <2>6, <3>2, <4>2
        <5>2. PICK u \in Requests : j \in Holds(u)
          BY <3>2, <5>1 DEF SeamInv, NoSlotBurnedBarringPanics, NoSlotBurned
        <5> QED
          BY <2>5, <3>1, <5>2
      <4> QED
        BY <4>1, <4>2
    <3> QED
      BY <1>4, <3>2 DEF NoSlotBurnedBarringPanics, NoSlotBurned
  <2> QED
    BY <1>1, <1>4, <2>5, <2>6, <2>7, <2>8 DEF SeamInv, Typed, KvOrNone
<1>12. ASSUME NEW r \in Requests, NEW i \in Target(req[r].prompt),
              NEW best \in SeedSource(req[r].prompt, i), req[r].pc = "checkout",
              Reserve(r, i, best)
       PROVE  SeamInv'
  <2> DEFINE q == [req[r] EXCEPT !.pc = "seeding", !.target = i, !.best = best,
                                 !.mine = kv[i], !.src = kv[best]]
  <2>1. /\ i \in SlotIds /\ ~busy[i] /\ kv[i] \in KvType
        /\ best \in SlotIds /\ ~busy[best] /\ kv[best] \in KvType /\ best # i
    BY <1>1, <1>12, ChosenAreFree DEF FreeSlots, SeamInv, SlotsExclusive, KvOrNone
  <2>2. req[r].prompt # <<>>
    BY <1>2, <1>12 DEF CarriesWell
  <2>3. q \in RequestType /\ CarriesWell(q) /\ q.target = i /\ q.best = best
    BY <1>2, <2>1, <2>2 DEF RequestType, CarriesWell, KvOrNone
  <2>4. req' = [req EXCEPT ![r] = q]
    BY <1>12 DEF Reserve
  <2> HIDE DEF q
  <2>5. /\ req' \in [Requests -> RequestType] /\ Carried'
        /\ \A u \in Requests : Holds(u)' = IF u = r THEN {i, best} ELSE Holds(u)
    <3>1. {q.target, q.best} \ {NoSlot} = {i, best}
      BY <2>1, <2>3, SlotFacts
    <3> QED
      BY <2>3, <2>4, <3>1, OneChanges
  <2>6. /\ busy' = [busy EXCEPT ![i] = TRUE, ![best] = TRUE]
        /\ kv' = [kv EXCEPT ![i] = NoKv, ![best] = NoKv]
    BY <1>12 DEF Reserve
  <2>7. SlotsExclusive'
    <3>1. \A u \in Requests : i \notin Holds(u) /\ best \notin Holds(u)
      BY <2>1 DEF SeamInv, SlotsExclusive
    <3>2. \A u, v \in Requests : u # v => Holds(u)' \cap Holds(v)' = {}
      BY <2>5, <3>1 DEF SeamInv, SlotsExclusive
    <3>3. \A j \in SlotIds : busy'[j] <=> kv'[j] = NoKv
      BY <1>1, <2>1, <2>6 DEF SeamInv, SlotsExclusive
    <3>4. \A u \in Requests : \A j \in Holds(u)' : busy'[j]
      <4>1. \A u \in Requests : Holds(u) \subseteq SlotIds /\ \A j \in Holds(u) : busy[j]
        BY <1>1 DEF SeamInv, SlotsExclusive, Holds, RequestType
      <4> QED
        BY <1>1, <2>1, <2>5, <2>6, <4>1
    <3> QED
      BY <3>2, <3>3, <3>4 DEF SlotsExclusive
  <2>8. NoSlotBurnedBarringPanics'
    <3>1. Holds(r) = {}
      BY <1>2, <1>12 DEF CarriesWell, Holds
    <3>2. ASSUME "panic" \notin Faults, NEW j \in SlotIds, busy'[j]
          PROVE  \E u \in Requests : j \in Holds(u)'
      <4>1. CASE j \in {i, best}
        BY <2>5, <4>1
      <4>2. CASE j \notin {i, best}
        <5>1. busy[j]
          BY <1>1, <2>1, <2>6, <3>2, <4>2
        <5>2. PICK u \in Requests : j \in Holds(u)
          BY <3>2, <5>1 DEF SeamInv, NoSlotBurnedBarringPanics, NoSlotBurned
        <5> QED
          BY <2>5, <3>1, <5>2
      <4> QED
        BY <4>1, <4>2
    <3> QED
      BY <1>4, <3>2 DEF NoSlotBurnedBarringPanics, NoSlotBurned
  <2> QED
    BY <1>1, <1>4, <2>5, <2>6, <2>7, <2>8 DEF SeamInv, Typed, KvOrNone
<1>13. ASSUME NEW r \in Requests, SeedEnds(r) PROVE SeamInv'
  <2> DEFINE i == req[r].target
             best == req[r].best
             p == Shared(req[r].src.cached, req[r].prompt)
             after(dst) == [req[r] EXCEPT !.pc = "generating", !.best = NoSlot,
                                          !.mine = dst, !.src = NoKv]
  <2>1. /\ i \in SlotIds /\ best \in SlotIds /\ i # best
        /\ req[r].mine \in KvType /\ req[r].src \in KvType
        /\ req[r].prompt \in Seq(Tokens) /\ req[r].prompt # <<>>
    BY <1>2, <1>13 DEF SeedEnds, CarriesWell, RequestType
  <2>2. PICK dst \in SeedOutcomes(req[r].mine, req[r].src, p) :
          WakeOne([req EXCEPT ![r].pc = "generating", ![r].best = NoSlot,
                              ![r].mine = dst, ![r].src = NoKv])
    BY <1>13 DEF SeedEnds
  <2>3. dst \in KvType
    BY <2>1, SeedOutcomesType
  <2> DEFINE q == after(dst)
             next == [req EXCEPT ![r] = q]
  <2>4. q \in RequestType /\ CarriesWell(q) /\ q.target = i /\ q.best = NoSlot
    BY <1>2, <2>1, <2>3 DEF RequestType, CarriesWell, KvOrNone
  <2>5. WakeOne(next)
    BY <2>2
  <2> HIDE DEF q
  <2>6. next \in [Requests -> RequestType] /\ \A u \in Requests : CarriesWell(next[u])
    BY <1>1, <1>2, <2>4
  <2>7. /\ req' \in [Requests -> RequestType] /\ Carried'
        /\ \A u \in Requests : Holds(u)' = {next[u].target, next[u].best} \ {NoSlot}
    BY <2>5, <2>6, WakeKeeps
  <2>8. \A u \in Requests : Holds(u)' = IF u = r THEN {i} ELSE Holds(u)
    BY <1>1, <2>1, <2>4, <2>7, SlotFacts DEF Holds
  <2>9. Holds(r) = {i, best}
    BY <2>1, SlotFacts DEF Holds
  <2>10. busy' = [busy EXCEPT ![best] = FALSE] /\ kv' = [kv EXCEPT ![best] = req[r].src]
    BY <1>13 DEF SeedEnds
  <2>11. req[r].src # NoKv
    BY <2>1, SlotFacts
  <2> HIDE DEF i, best
  <2>12. SlotsExclusive'
    BY <1>1, <2>1, <2>8, <2>9, <2>10, <2>11 DEF SeamInv, SlotsExclusive
  <2>13. NoSlotBurnedBarringPanics'
    BY <1>1, <1>4, <2>1, <2>8, <2>9, <2>10 DEF SeamInv, NoSlotBurnedBarringPanics, NoSlotBurned
  <2> QED
    BY <1>1, <1>4, <2>1, <2>7, <2>10, <2>12, <2>13 DEF SeamInv, Typed, KvOrNone
<1>14. ASSUME NEW r \in Requests, SeedPanics(r) PROVE SeamInv'
  <2> DEFINE q == [Idle EXCEPT !.pc = "panicked"]
  <2>1. q \in RequestType /\ CarriesWell(q) /\ q.target = NoSlot /\ q.best = NoSlot
    BY IdleType DEF RequestType, CarriesWell
  <2>2. req' = [req EXCEPT ![r] = q] /\ UNCHANGED <<kv, busy>>
    BY <1>14 DEF SeedPanics
  <2> HIDE DEF q
  <2>3. /\ req' \in [Requests -> RequestType] /\ Carried'
        /\ \A u \in Requests : Holds(u)' = IF u = r THEN {} ELSE Holds(u)
    BY <2>1, <2>2, OneChanges
  <2>4. SlotsExclusive'
    BY <2>2, <2>3 DEF SeamInv, SlotsExclusive
  <2>5. NoSlotBurnedBarringPanics'
    BY <1>4, <1>14 DEF SeedPanics, NoSlotBurnedBarringPanics, NoSlotBurned
  <2> QED
    BY <1>1, <1>4, <2>2, <2>3, <2>4, <2>5 DEF SeamInv, Typed
<1>15. ASSUME NEW r \in Requests, Drop(r) PROVE SeamInv'
  <2> DEFINE i == req[r].target
             q == [Idle EXCEPT !.pc = "notify"]
  <2>1. i \in SlotIds /\ req[r].best = NoSlot /\ req[r].mine \in KvType /\ req[r].mine # NoKv
    BY <1>2, <1>15, SlotFacts DEF Drop, CarriesWell
  <2>2. q \in RequestType /\ CarriesWell(q) /\ q.target = NoSlot /\ q.best = NoSlot
    BY IdleType DEF RequestType, CarriesWell
  <2>3. /\ req' = [req EXCEPT ![r] = q]
        /\ busy' = [busy EXCEPT ![i] = FALSE] /\ kv' = [kv EXCEPT ![i] = req[r].mine]
    BY <1>15 DEF Drop
  <2> HIDE DEF q
  <2>4. /\ req' \in [Requests -> RequestType] /\ Carried'
        /\ \A u \in Requests : Holds(u)' = IF u = r THEN {} ELSE Holds(u)
    BY <2>2, <2>3, OneChanges
  <2>5. Holds(r) = {i}
    BY <2>1, SlotFacts DEF Holds
  <2> HIDE DEF i
  <2>6. SlotsExclusive'
    BY <1>1, <2>1, <2>3, <2>4, <2>5 DEF SeamInv, SlotsExclusive
  <2>7. NoSlotBurnedBarringPanics'
    BY <1>1, <1>4, <2>1, <2>3, <2>4, <2>5 DEF SeamInv, NoSlotBurnedBarringPanics, NoSlotBurned
  <2> QED
    BY <1>1, <1>4, <2>1, <2>3, <2>4, <2>6, <2>7 DEF SeamInv, Typed, KvOrNone
<1>16. ASSUME NEW r \in Requests, Notify(r) PROVE SeamInv'
  <2> DEFINE next == [req EXCEPT ![r] = Idle]
  <2>1. Idle \in RequestType /\ CarriesWell(Idle) /\ Idle.target = NoSlot /\ Idle.best = NoSlot
    BY IdleType DEF CarriesWell
  <2>2. next \in [Requests -> RequestType] /\ \A u \in Requests : CarriesWell(next[u])
    BY <1>1, <1>2, <2>1
  <2>3. WakeOne(next) /\ UNCHANGED <<kv, busy>>
    BY <1>16 DEF Notify
  <2>4. /\ req' \in [Requests -> RequestType] /\ Carried'
        /\ \A u \in Requests : Holds(u)' = {next[u].target, next[u].best} \ {NoSlot}
    BY <2>2, <2>3, WakeKeeps
  <2>5. \A u \in Requests : Holds(u)' = Holds(u)
    BY <1>1, <1>2, <1>16, <2>1, <2>4 DEF Notify, CarriesWell, Holds
  <2>6. SlotsExclusive'
    BY <2>3, <2>5 DEF SeamInv, SlotsExclusive
  <2>7. NoSlotBurnedBarringPanics'
    BY <1>4, <2>3, <2>5 DEF SeamInv, NoSlotBurnedBarringPanics, NoSlotBurned
  <2> QED
    BY <1>1, <1>4, <2>3, <2>4, <2>6, <2>7 DEF SeamInv, Typed
<1>17. ASSUME NEW r \in Requests, Checkout(r) PROVE SeamInv'
  BY <1>11, <1>12, <1>17 DEF Checkout
<1> QED
  BY <1>6, <1>7, <1>9, <1>10, <1>13, <1>14, <1>15, <1>16, <1>17 DEF Next, Proceed

-----------------------------------------------------------------------------
LEMMA SeamInit == Init => SeamInv
<1> SUFFICES ASSUME Init PROVE SeamInv
  OBVIOUS
<1>1. Idle \in RequestType /\ CarriesWell(Idle) /\ Idle.target = NoSlot /\ Idle.best = NoSlot
  BY IdleType DEF CarriesWell
<1>2. Fresh \in KvType /\ Fresh # NoKv
  BY DEF Fresh, NoKv, KvType
<1>3. Typed /\ Carried
  BY <1>1, <1>2 DEF Init, Typed, Carried, KvOrNone
<1>4. \A r \in Requests : Holds(r) = {}
  BY <1>1 DEF Init, Holds
<1>5. SlotsExclusive /\ NoSlotBurnedBarringPanics
  BY <1>2, <1>4 DEF Init, SlotsExclusive, NoSlotBurnedBarringPanics, NoSlotBurned
<1> QED
  BY <1>3, <1>5 DEF SeamInv

LEMMA SeamAlways == Spec => []SeamInv
BY SeamInit, SeamStep, PTL DEF Spec

(* However many requests and slots there are and whatever fails, a slot is    *)
(* either free with its KV in the pool, or reserved by one request that has  *)
(* the KV: no two generations ever write to the same rows.                   *)
THEOREM SlotsStayExclusive == Spec => []SlotsExclusive
<1>1. SeamInv => SlotsExclusive
  BY DEF SeamInv
<1> QED
  BY <1>1, SeamAlways, PTL

(* Where no copy panics, every reserved slot is some request's, whichever of  *)
(* its steps fail: it will be dropped, and the slot is not lost to the pool.  *)
THEOREM NoSlotIsBurned == Spec => []NoSlotBurnedBarringPanics
<1>1. SeamInv => NoSlotBurnedBarringPanics
  BY DEF SeamInv
<1> QED
  BY <1>1, SeamAlways, PTL

-----------------------------------------------------------------------------
(* Wake-ups: who sleeps, and who will look for a slot or wake somebody.       *)
Asleep == {r \in Requests : req[r].pc = "asleep"}
Coming == {r \in Requests : req[r].pc \in {"checkout", "notify"}}

LEMMA CountsFinite == IsFiniteSet(FreeSlots) /\ IsFiniteSet(Coming)
<1>1. IsFiniteSet(SlotIds)
  BY NSlotsPositive, FS_Interval DEF SlotIds
<1> QED
  BY <1>1, RequestsFinite, FS_Subset DEF FreeSlots, Coming

LEMMA CountsFiniteNext == IsFiniteSet(FreeSlots') /\ IsFiniteSet(Coming')
<1>1. IsFiniteSet(SlotIds)
  BY NSlotsPositive, FS_Interval DEF SlotIds
<1> QED
  BY <1>1, RequestsFinite, FS_Subset DEF FreeSlots, Coming

(* No slot comes free and nobody who was coming goes away.                   *)
LEMMA NothingFreed ==
  ASSUME SleepersAreWoken, Asleep # {}, FreeSlots' \subseteq FreeSlots, Coming \subseteq Coming'
  PROVE  SleepersAreWoken'
<1>1. Cardinality(FreeSlots') <= Cardinality(FreeSlots)
  BY CountsFinite, FS_Subset
<1>2. Cardinality(Coming) <= Cardinality(Coming')
  BY CountsFiniteNext, FS_Subset
<1>3. /\ Cardinality(FreeSlots) \in Nat /\ Cardinality(FreeSlots') \in Nat
      /\ Cardinality(Coming) \in Nat /\ Cardinality(Coming') \in Nat
  BY CountsFinite, CountsFiniteNext, FS_CardinalityType
<1>4. Cardinality(FreeSlots) <= Cardinality(Coming)
  BY DEF SleepersAreWoken, Asleep, Coming
<1>5. Cardinality(FreeSlots') <= Cardinality(Coming')
  BY <1>1, <1>2, <1>3, <1>4
<1> QED
  BY <1>5 DEF SleepersAreWoken, Coming

(* A slot comes free and somebody comes for it.                              *)
LEMMA FreedAndSomebodyComes ==
  ASSUME SleepersAreWoken, Asleep # {}, NEW i, FreeSlots' \subseteq FreeSlots \cup {i},
         NEW u, u \in Coming' \ Coming, Coming \subseteq Coming'
  PROVE  SleepersAreWoken'
<1>1. /\ IsFiniteSet(FreeSlots \cup {i})
      /\ Cardinality(FreeSlots \cup {i}) <= Cardinality(FreeSlots) + 1
  <2>1. Cardinality(FreeSlots) \in Nat
    BY CountsFinite, FS_CardinalityType
  <2>2. /\ IsFiniteSet(FreeSlots \cup {i})
        /\ \/ Cardinality(FreeSlots \cup {i}) = Cardinality(FreeSlots)
           \/ Cardinality(FreeSlots \cup {i}) = Cardinality(FreeSlots) + 1
    BY CountsFinite, FS_AddElement
  <2> QED
    BY <2>1, <2>2
<1>2. Cardinality(FreeSlots') <= Cardinality(FreeSlots \cup {i})
  BY <1>1, FS_Subset
<1>3. Cardinality(Coming \cup {u}) = Cardinality(Coming) + 1
  BY CountsFinite, FS_AddElement
<1>4. Cardinality(Coming \cup {u}) <= Cardinality(Coming')
  BY CountsFiniteNext, FS_Subset
<1>5. /\ Cardinality(FreeSlots) \in Nat /\ Cardinality(FreeSlots') \in Nat
      /\ Cardinality(Coming) \in Nat /\ Cardinality(Coming') \in Nat
      /\ Cardinality(FreeSlots \cup {i}) \in Nat
  BY <1>1, CountsFinite, CountsFiniteNext, FS_CardinalityType
<1>6. Cardinality(FreeSlots) <= Cardinality(Coming)
  BY DEF SleepersAreWoken, Asleep, Coming
<1>7. Cardinality(FreeSlots') <= Cardinality(Coming')
  BY <1>1, <1>2, <1>3, <1>4, <1>5, <1>6
<1> QED
  BY <1>7 DEF SleepersAreWoken, Coming

(* Somebody who came takes at least a slot.                                  *)
LEMMA ComesAndTakes ==
  ASSUME SleepersAreWoken, Asleep # {}, NEW i \in FreeSlots, FreeSlots' \subseteq FreeSlots \ {i},
         NEW r \in Coming, Coming \ {r} \subseteq Coming'
  PROVE  SleepersAreWoken'
<1>1. /\ IsFiniteSet(FreeSlots \ {i})
      /\ Cardinality(FreeSlots \ {i}) = Cardinality(FreeSlots) - 1
  BY CountsFinite, FS_RemoveElement
<1>2. Cardinality(FreeSlots') <= Cardinality(FreeSlots \ {i})
  BY <1>1, FS_Subset
<1>3. Cardinality(Coming \ {r}) = Cardinality(Coming) - 1
  BY CountsFinite, FS_RemoveElement
<1>4. Cardinality(Coming \ {r}) <= Cardinality(Coming')
  BY CountsFiniteNext, FS_Subset
<1>5. /\ Cardinality(FreeSlots) \in Nat /\ Cardinality(FreeSlots') \in Nat
      /\ Cardinality(Coming) \in Nat /\ Cardinality(Coming') \in Nat
  BY CountsFinite, CountsFiniteNext, FS_CardinalityType
<1>6. Cardinality(FreeSlots) <= Cardinality(Coming)
  BY DEF SleepersAreWoken, Asleep, Coming
<1>7. Cardinality(FreeSlots') <= Cardinality(Coming')
  BY <1>1, <1>2, <1>3, <1>4, <1>5, <1>6
<1> QED
  BY <1>7 DEF SleepersAreWoken, Coming

(* One goes and another comes, and the slots stay as they are.               *)
LEMMA OneForAnother ==
  ASSUME SleepersAreWoken, Asleep # {}, FreeSlots' = FreeSlots, NEW r \in Coming,
         NEW u \in Coming', u \notin Coming, Coming \ {r} \subseteq Coming'
  PROVE  SleepersAreWoken'
<1>1. Cardinality(Coming \ {r}) = Cardinality(Coming) - 1 /\ IsFiniteSet(Coming \ {r})
  BY CountsFinite, FS_RemoveElement
<1>2. Cardinality((Coming \ {r}) \cup {u}) = Cardinality(Coming \ {r}) + 1
  BY <1>1, FS_AddElement
<1>3. Cardinality((Coming \ {r}) \cup {u}) <= Cardinality(Coming')
  BY CountsFiniteNext, FS_Subset
<1>4. /\ Cardinality(FreeSlots) \in Nat /\ Cardinality(Coming) \in Nat
      /\ Cardinality(Coming') \in Nat
  BY CountsFinite, CountsFiniteNext, FS_CardinalityType
<1>5. Cardinality(FreeSlots) <= Cardinality(Coming)
  BY DEF SleepersAreWoken, Asleep, Coming
<1>6. Cardinality(FreeSlots') <= Cardinality(Coming')
  BY <1>1, <1>2, <1>3, <1>4, <1>5
<1> QED
  BY <1>6 DEF SleepersAreWoken, Coming

(* notify_one, in a step that only moves the request r: it wakes one of those  *)
(* who slept, if any did.                                                    *)
LEMMA WakesASleeper ==
  ASSUME req \in [Requests -> RequestType], NEW r \in Requests, NEW q, q.pc \notin {"asleep"},
         req[r].pc # "asleep", WakeOne([req EXCEPT ![r] = q])
  PROVE  \/ Asleep = {} /\ Asleep' = {}
         \/ \E u \in Asleep : /\ u # r
                              /\ \A v \in Requests : req'[v].pc =
                                   IF v = u THEN "checkout" ELSE IF v = r THEN q.pc ELSE req[v].pc
<1> DEFINE next == [req EXCEPT ![r] = q]
<1>1. \A v \in Requests : next[v] = IF v = r THEN q ELSE req[v]
  OBVIOUS
<1>2. {u \in Requests : next[u].pc = "asleep"} = Asleep
  BY <1>1 DEF Asleep
<1> HIDE DEF next
<1>3. CASE Asleep = {}
  <2>1. req' = next
    BY <1>2, <1>3 DEF WakeOne, next
  <2> QED
    BY <1>2, <1>3, <2>1 DEF Asleep
<1>4. CASE Asleep # {}
  <2>1. PICK u \in Asleep : req' = [next EXCEPT ![u].pc = "checkout"]
    BY <1>2, <1>4 DEF WakeOne, next
  <2>2. u \in Requests /\ u # r
    BY DEF Asleep
  <2>3. next \in [Requests -> RequestType \cup {q}]
    BY DEF next
  <2>4. next[u] = req[u] /\ req[u] \in RequestType
    BY <1>1, <2>2
  <2>5. req'[u] = [next[u] EXCEPT !.pc = "checkout"] /\ \A v \in Requests \ {u} : req'[v] = next[v]
    BY <2>1, <2>2, <2>3
  <2>6. req'[u].pc = "checkout"
    BY <2>4, <2>5 DEF RequestType
  <2>7. \A v \in Requests : req'[v].pc =
          IF v = u THEN "checkout" ELSE IF v = r THEN q.pc ELSE req[v].pc
    <3> TAKE v \in Requests
    <3>1. CASE v = u
      BY <2>6, <3>1
    <3>2. CASE v # u
      BY <1>1, <2>5, <3>2
    <3> QED
      BY <3>1, <3>2
  <2> HIDE DEF Asleep
  <2> QED
    BY <2>2, <2>7
<1> QED
  BY <1>3, <1>4

LEMMA WokenStep ==
  ASSUME SeamInv, SleepersAreWoken, [Next]_vars
  PROVE  SleepersAreWoken'
<1>1. /\ busy \in [SlotIds -> BOOLEAN] /\ req \in [Requests -> RequestType]
      /\ \A r \in Requests : req[r] \in RequestType /\ CarriesWell(req[r])
  BY DEF SeamInv, Typed, Carried
<1>2. CASE Asleep' = {}
  BY <1>2 DEF Asleep, SleepersAreWoken
<1>3. CASE UNCHANGED vars
  BY <1>3 DEF vars, SleepersAreWoken, FreeSlots
<1> SUFFICES ASSUME Asleep' # {}, Next PROVE SleepersAreWoken'
  BY <1>2, <1>3
(* The slots stay, the request goes from `from` to `to` and nobody is lost.   *)
<1>4. ASSUME NEW r \in Requests, NEW q, req' = [req EXCEPT ![r] = q], UNCHANGED busy,
             q.pc # "asleep", req[r].pc \in {"checkout", "notify"} => q.pc = req[r].pc
      PROVE  SleepersAreWoken'
  <2>1. \A v \in Requests : req'[v] = IF v = r THEN q ELSE req[v]
    BY <1>1, <1>4
  <2>2. Asleep # {} /\ Coming \subseteq Coming'
    BY <1>4, <2>1 DEF Asleep, Coming
  <2>3. FreeSlots' = FreeSlots
    BY <1>4 DEF FreeSlots
  <2> QED
    BY <2>2, <2>3, NothingFreed
<1>5. ASSUME NEW r \in Requests, NEW prompt \in Prompts, Ask(r, prompt)
      PROVE  SleepersAreWoken'
  <2> DEFINE q == [Idle EXCEPT !.pc = "checkout", !.prompt = prompt]
  <2>1. q.pc = "checkout"
    BY DEF Idle
  <2> HIDE DEF q
  <2>2. req' = [req EXCEPT ![r] = q] /\ UNCHANGED busy /\ req[r].pc = "idle"
    BY <1>5 DEF Ask, q
  <2> QED
    BY <1>4, <2>1, <2>2
<1>6. ASSUME NEW r \in Requests, Sleep(r) PROVE SleepersAreWoken'
  <2>1. FreeSlots' = {} /\ Cardinality(FreeSlots') = 0
    BY <1>6, FS_EmptySet DEF Sleep, FreeSlots
  <2>2. Cardinality(Coming') \in Nat
    BY CountsFiniteNext, FS_CardinalityType
  <2>3. Cardinality(FreeSlots') <= Cardinality(Coming')
    BY <2>1, <2>2
  <2> QED
    BY <2>3 DEF SleepersAreWoken, Coming
<1>7. ASSUME NEW r \in Requests, SpuriousWake(r) PROVE SleepersAreWoken'
  <2>1. [req[r] EXCEPT !.pc = "checkout"].pc = "checkout"
    BY <1>1 DEF RequestType
  <2> QED
    BY <1>4, <1>7, <2>1 DEF SpuriousWake
<1>8. ASSUME NEW r \in Requests, SeedPanics(r) PROVE SleepersAreWoken'
  <2>1. [Idle EXCEPT !.pc = "panicked"].pc = "panicked"
    BY DEF Idle
  <2> QED
    BY <1>4, <1>8, <2>1 DEF SeedPanics
<1>9. ASSUME NEW r \in Requests, GenerateEnds(r) \/ GenerateFails(r) \/ GenerateRefused(r)
      PROVE  SleepersAreWoken'
  <2>1. PICK k : req' = [req EXCEPT ![r] = [req[r] EXCEPT !.pc = "dropping", !.mine = k]]
    <3>1. CASE GenerateEnds(r) \/ GenerateFails(r)
      BY <3>1 DEF GenerateEnds, GenerateFails
    <3>2. CASE GenerateRefused(r)
      <4>1. [req[r] EXCEPT !.pc = "dropping"]
            = [req[r] EXCEPT !.pc = "dropping", !.mine = req[r].mine]
        BY <1>1 DEF RequestType
      <4> QED
        BY <3>2, <4>1 DEF GenerateRefused
    <3> QED
      BY <1>9, <3>1, <3>2
  <2>2. [req[r] EXCEPT !.pc = "dropping", !.mine = k].pc = "dropping"
    BY <1>1 DEF RequestType
  <2>3. UNCHANGED busy /\ req[r].pc = "generating"
    BY <1>9 DEF GenerateEnds, GenerateFails, GenerateRefused
  <2> QED
    BY <1>4, <2>1, <2>2, <2>3
<1>10. ASSUME NEW r \in Requests, Checkout(r) PROVE SleepersAreWoken'
  <2>0. \E i \in FreeSlots : \E q :
          /\ req' = [req EXCEPT ![r] = q] /\ q.pc \in {"generating", "seeding"}
          /\ FreeSlots' \subseteq FreeSlots \ {i}
    <3>1. PICK i \in Target(req[r].prompt) :
            \/ Take(r, i)
            \/ \E best \in SeedSource(req[r].prompt, i) : Reserve(r, i, best)
      BY <1>10 DEF Checkout
    <3>2. i \in FreeSlots /\ i \in SlotIds
      BY <3>1, ChosenAreFree DEF FreeSlots
    <3>3. CASE Take(r, i)
      <4> DEFINE q == [req[r] EXCEPT !.pc = "generating", !.target = i, !.mine = kv[i]]
      <4>1. q.pc = "generating"
        BY <1>1 DEF RequestType
      <4>2. req' = [req EXCEPT ![r] = q]
        BY <3>3 DEF Take
      <4>3. FreeSlots' \subseteq FreeSlots \ {i}
        BY <1>1, <3>2, <3>3 DEF Take, FreeSlots
      <4> HIDE DEF q
      <4> QED
        BY <3>2, <4>1, <4>2, <4>3
    <3>4. ASSUME NEW best \in SeedSource(req[r].prompt, i), Reserve(r, i, best)
          PROVE  \E q : /\ req' = [req EXCEPT ![r] = q] /\ q.pc \in {"generating", "seeding"}
                        /\ FreeSlots' \subseteq FreeSlots \ {i}
      <4> DEFINE q == [req[r] EXCEPT !.pc = "seeding", !.target = i, !.best = best,
                                     !.mine = kv[i], !.src = kv[best]]
      <4>1. q.pc = "seeding"
        BY <1>1 DEF RequestType
      <4>2. req' = [req EXCEPT ![r] = q]
        BY <3>4 DEF Reserve
      <4>3. FreeSlots' \subseteq FreeSlots \ {i}
        BY <1>1, <3>2, <3>4 DEF Reserve, FreeSlots
      <4> HIDE DEF q
      <4> QED
        BY <4>1, <4>2, <4>3
    <3> QED
      BY <3>1, <3>2, <3>3, <3>4
  <2>i. PICK i \in FreeSlots : \E q :
          /\ req' = [req EXCEPT ![r] = q] /\ q.pc \in {"generating", "seeding"}
          /\ FreeSlots' \subseteq FreeSlots \ {i}
    BY <2>0
  <2>1. PICK q : /\ req' = [req EXCEPT ![r] = q] /\ q.pc \in {"generating", "seeding"}
                 /\ FreeSlots' \subseteq FreeSlots \ {i}
    BY <2>i
  <2>2. \A v \in Requests : req'[v] = IF v = r THEN q ELSE req[v]
    BY <1>1, <2>1
  <2>3. r \in Coming
    BY <1>10 DEF Checkout, Coming
  <2>4. Asleep # {} /\ Coming \ {r} \subseteq Coming'
    BY <2>1, <2>2 DEF Asleep, Coming
  <2> QED
    BY <2>1, <2>3, <2>4, ComesAndTakes
<1>11. ASSUME NEW r \in Requests, SeedEnds(r) PROVE SleepersAreWoken'
  <2>1. PICK q : WakeOne([req EXCEPT ![r] = q]) /\ q.pc = "generating"
    <3>1. PICK dst : WakeOne([req EXCEPT ![r] =
            [req[r] EXCEPT !.pc = "generating", !.best = NoSlot, !.mine = dst, !.src = NoKv]])
      BY <1>11 DEF SeedEnds
    <3> DEFINE q == [req[r] EXCEPT !.pc = "generating", !.best = NoSlot, !.mine = dst,
                                   !.src = NoKv]
    <3>2. q.pc = "generating" /\ WakeOne([req EXCEPT ![r] = q])
      BY <1>1, <3>1 DEF RequestType
    <3> HIDE DEF q
    <3> QED
      BY <3>2
  <2>2. q.pc \notin {"asleep"}
    BY <2>1
  <2>3. req[r].pc = "seeding" /\ req[r].pc # "asleep"
    BY <1>11 DEF SeedEnds
  <2>4. PICK u \in Asleep : \A v \in Requests : req'[v].pc =
          IF v = u THEN "checkout" ELSE IF v = r THEN q.pc ELSE req[v].pc
    <3>1. \/ Asleep = {} /\ Asleep' = {}
          \/ \E u \in Asleep : /\ u # r
                              /\ \A v \in Requests : req'[v].pc =
                                   IF v = u THEN "checkout" ELSE IF v = r THEN q.pc ELSE req[v].pc
      BY <1>1, <2>1, <2>2, <2>3, WakesASleeper
    <3> QED
      BY <3>1
  <2>5. u \in Coming' \ Coming /\ Coming \subseteq Coming'
    BY <2>1, <2>3, <2>4 DEF Asleep, Coming
  <2>6. FreeSlots' \subseteq FreeSlots \cup {req[r].best}
    BY <1>1, <1>11 DEF SeedEnds, FreeSlots
  <2> QED
    BY <2>4, <2>5, <2>6, FreedAndSomebodyComes
<1>12. ASSUME NEW r \in Requests, Drop(r) PROVE SleepersAreWoken'
  <2>1. \A v \in Requests :
          req'[v] = IF v = r THEN [Idle EXCEPT !.pc = "notify"] ELSE req[v]
    BY <1>1, <1>12 DEF Drop
  <2>2. [Idle EXCEPT !.pc = "notify"].pc = "notify" /\ req[r].pc = "dropping"
    BY <1>12 DEF Idle, Drop
  <2>3. Asleep # {} /\ r \in Coming' \ Coming /\ Coming \subseteq Coming'
    BY <2>1, <2>2 DEF Asleep, Coming
  <2>4. FreeSlots' \subseteq FreeSlots \cup {req[r].target}
    BY <1>1, <1>12 DEF Drop, FreeSlots
  <2> QED
    BY <2>3, <2>4, FreedAndSomebodyComes
<1>13. ASSUME NEW r \in Requests, Notify(r) PROVE SleepersAreWoken'
  <2>1. /\ Idle.pc \notin {"asleep"} /\ req[r].pc = "notify" /\ req[r].pc # "asleep"
        /\ WakeOne([req EXCEPT ![r] = Idle])
    BY <1>13 DEF Notify, Idle
  <2>2. PICK u \in Asleep : \A v \in Requests : req'[v].pc =
          IF v = u THEN "checkout" ELSE IF v = r THEN Idle.pc ELSE req[v].pc
    <3>1. \/ Asleep = {} /\ Asleep' = {}
          \/ \E u \in Asleep : /\ u # r
                              /\ \A v \in Requests : req'[v].pc =
                                   IF v = u THEN "checkout" ELSE IF v = r THEN Idle.pc ELSE req[v].pc
      BY <1>1, <2>1, WakesASleeper
    <3> QED
      BY <3>1
  <2>3. Asleep # {} /\ r \in Coming /\ u \in Coming' /\ u \notin Coming
        /\ Coming \ {r} \subseteq Coming'
    BY <2>1, <2>2 DEF Asleep, Coming
  <2>4. FreeSlots' = FreeSlots
    BY <1>13 DEF Notify, FreeSlots
  <2> QED
    BY <2>3, <2>4, OneForAnother
<1> QED
  BY <1>5, <1>6, <1>7, <1>8, <1>9, <1>10, <1>11, <1>12, <1>13 DEF Next, Proceed

(* However many requests and slots there are: whenever a request sleeps, each *)
(* free slot has a thread that will take it or is about to wake somebody.     *)
THEOREM NoWakeUpIsLost == Spec => []SleepersAreWoken
<1>1. Init => SleepersAreWoken
  BY IdleType DEF Init, SleepersAreWoken
<1> QED
  BY <1>1, SeamAlways, WokenStep, PTL DEF Spec

-----------------------------------------------------------------------------
(* Shared is the length of the longest common prefix.                        *)
LEMMA SharedIs ==
  ASSUME NEW s \in Seq(Tokens), NEW t \in Seq(Tokens), NEW n \in Nat,
         n <= Len(s), n <= Len(t)
  PROVE  (\A k \in 1 .. n : s[k] = t[k]) <=> n <= Shared(s, t)
<1> DEFINE l == Lesser(Len(s), Len(t))
           S == {m \in 1 .. l : \A k \in 1 .. m : s[k] = t[k]}
<1>1. l \in Nat /\ n <= l
  BY DEF Lesser
<1>2. Shared(s, t) = Cardinality(S)
  BY DEF Shared
<1> HIDE DEF l
<1>3. /\ \A m \in Nat : IsFiniteSet(1 .. m) /\ Cardinality(1 .. m) = m
      /\ IsFiniteSet(1 .. l)
  BY <1>1, FS_Interval
<1>4. IsFiniteSet(S) /\ Cardinality(S) \in Nat
  BY <1>3, FS_Subset, FS_CardinalityType
<1>5. ASSUME \A k \in 1 .. n : s[k] = t[k] PROVE n <= Cardinality(S)
  <2>1. 1 .. n \subseteq S
    BY <1>1, <1>5
  <2> HIDE DEF S
  <2> QED
    BY <1>3, <1>4, <2>1, FS_Subset
<1>6. ASSUME NEW k \in 1 .. n, s[k] # t[k] PROVE Cardinality(S) < n
  <2>1. S \subseteq 1 .. (n - 1)
    BY <1>1, <1>6
  <2>2. n - 1 \in Nat
    BY <1>6
  <2>3. IsFiniteSet(1 .. (n - 1)) /\ Cardinality(1 .. (n - 1)) = n - 1
    BY <1>3, <2>2
  <2> HIDE DEF S
  <2>4. Cardinality(S) <= n - 1
    BY <2>1, <2>3, FS_Subset
  <2> QED
    BY <1>4, <2>2, <2>4
<1> HIDE DEF S
<1> QED
  BY <1>2, <1>4, <1>5, <1>6

(* Two sequences that share with a third share what both share with it.      *)
LEMMA SharedWithBoth ==
  ASSUME NEW s \in Seq(Tokens), NEW t \in Seq(Tokens), NEW w \in Seq(Tokens), NEW n \in Nat,
         n <= Shared(s, w), n <= Shared(t, w)
  PROVE  n <= Shared(s, t)
<1>1. n <= Len(s) /\ n <= Len(t) /\ n <= Len(w)
  BY SharedBound
<1>2. \A k \in 1 .. n : s[k] = w[k] /\ t[k] = w[k]
  BY <1>1, SharedIs
<1> QED
  BY <1>1, <1>2, SharedIs

(* A prefix shares itself.                                                   *)
LEMMA SharedWithPrefix ==
  ASSUME NEW s \in Seq(Tokens), NEW n \in Nat, n <= Len(s)
  PROVE  /\ SubSeq(s, 1, n) \in Seq(Tokens) /\ Len(SubSeq(s, 1, n)) = n
         /\ Shared(s, SubSeq(s, 1, n)) = n
<1> DEFINE w == SubSeq(s, 1, n)
<1>1. w \in Seq(Tokens) /\ Len(w) = n /\ \A k \in 1 .. n : s[k] = w[k]
  OBVIOUS
<1> HIDE DEF w
<1>2. n <= Shared(s, w)
  BY <1>1, SharedIs
<1>3. Shared(s, w) \in Nat /\ Shared(s, w) <= n
  BY <1>1, SharedBound
<1>4. Shared(s, w) = n
  BY <1>2, <1>3
<1> QED
  BY <1>1, <1>4 DEF w

-----------------------------------------------------------------------------
(* The order of the slots, whichever of them is used.                        *)
LruExact == lru \in Seq(SlotIds) /\ Len(lru) = NSlots /\ Range(lru) = SlotIds

LEMMA LeastExists ==
  ASSUME NEW S \in SUBSET Nat, S # {}
  PROVE  \E j \in S : \A k \in S : j <= k
<1> DEFINE R == {p \in Nat \X Nat : p[1] < p[2]}
<1>1. IsWellFoundedOn(R, Nat)
  BY NatLessThanWellFounded DEF OpToRel
<1>2. PICK j \in S : \A k \in S : ~(<<k, j>> \in R)
  <2> HIDE DEF R
  <2> QED
    BY <1>1, WFMin
<1>3. \A k \in S : k < j => <<k, j>> \in R
  OBVIOUS
<1> HIDE DEF R
<1>4. \A k \in S : ~(k < j)
  BY <1>2, <1>3, Zenon
<1> QED
  BY <1>4

LEMMA UsedKeepsOrder ==
  ASSUME LruExact, NEW i \in SlotIds, lru' = Used(lru, i)
  PROVE  LruExact'
<1>1. lru \in Seq(SlotIds) /\ Len(lru) = NSlots /\ NSlots \in Nat /\ \E n \in 1 .. Len(lru) : lru[n] = i
  BY NSlotsPositive DEF LruExact, Range
<1> DEFINE I == {n \in 1 .. Len(lru) : lru[n] = i}
<1>2. Min(I) \in 1 .. Len(lru) /\ lru[Min(I)] = i
  <2>1. \E j \in I : \A k \in I : j <= k
    <3>1. I \in SUBSET Nat /\ I # {}
      BY <1>1
    <3> HIDE DEF I
    <3> QED
      BY <3>1, LeastExists
  <2>2. Min(I) \in I
    BY <2>1 DEF Min
  <2> QED
    BY <2>2
<1>3. RemoveFirst(lru, i) = RemoveAt(lru, Min(I))
  BY <1>1 DEF RemoveFirst, SelectInSeq
<1> HIDE DEF I
<1>4. PICK k \in 1 .. Len(lru) : lru[k] = i /\ Used(lru, i) = Append(RemoveAt(lru, k), i)
  BY <1>2, <1>3 DEF Used
<1> DEFINE l == SubSeq(lru, 1, k - 1)
           u == SubSeq(lru, k + 1, Len(lru))
<1>5. /\ l \in Seq(SlotIds) /\ Len(l) = k - 1
      /\ \A n \in 1 .. k - 1 : l[n] = lru[n]
  BY <1>1, <1>4, SubSeqProperties
<1>6. /\ u \in Seq(SlotIds) /\ Len(u) = Len(lru) - k
      /\ \A n \in 1 .. Len(lru) - k : u[n] = lru[k + n]
  BY <1>1, <1>4, SubSeqProperties
<1>7. Used(lru, i) = Append(l \o u, i)
  BY <1>4 DEF RemoveAt
<1> HIDE DEF l, u
<1>8. l \o u \in Seq(SlotIds) /\ Len(l \o u) = NSlots - 1
  BY <1>1, <1>4, <1>5, <1>6
<1>e. \A n \in 1 .. Len(l) + Len(u) : (l \o u)[n] = IF n <= Len(l) THEN l[n] ELSE u[n - Len(l)]
  BY <1>5, <1>6, ConcatProperties
<1>f. \A n \in 1 .. NSlots - 1 : (l \o u)[n] = IF n <= k - 1 THEN l[n] ELSE u[n - (k - 1)]
  <2>1. Len(l) = k - 1 /\ Len(l) + Len(u) = NSlots - 1
    BY <1>1, <1>4, <1>5, <1>6
  <2> QED
    BY <1>e, <2>1, Zenon
<1>9. Used(lru, i) \in Seq(SlotIds) /\ Len(Used(lru, i)) = NSlots
  BY <1>1, <1>7, <1>8
<1>10. \A j \in SlotIds : \E n \in 1 .. NSlots : Used(lru, i)[n] = j
  <2> TAKE j \in SlotIds
  <2>1. PICK n \in 1 .. NSlots : lru[n] = j
    BY <1>1 DEF LruExact, Range
  <2>2. CASE n = k
    <3>1. Used(lru, i)[NSlots] = i /\ NSlots \in 1 .. NSlots
      BY <1>1, <1>7, <1>8, NSlotsPositive
    <3>2. j = i
      BY <1>4, <2>1, <2>2
    <3> QED
      BY <3>1, <3>2
  <2>3. CASE n < k
    <3>1. Used(lru, i)[n] = (l \o u)[n] /\ (l \o u)[n] = l[n]
      <4>1. n \in 1 .. NSlots - 1 /\ n <= k - 1
        BY <1>1, <1>4, <2>1, <2>3
      <4>2. Used(lru, i)[n] = (l \o u)[n]
        BY <1>7, <1>8, <4>1, AppendProperties
      <4> QED
        BY <1>f, <4>1, <4>2
    <3>2. l[n] = lru[n]
      BY <1>4, <1>5, <2>1, <2>3
    <3> QED
      BY <2>1, <3>1, <3>2
  <2>4. CASE n > k
    <3>1. /\ Used(lru, i)[n - 1] = (l \o u)[n - 1]
          /\ (l \o u)[n - 1] = u[n - k]
      <4>1. n - 1 \in 1 .. NSlots - 1 /\ ~(n - 1 <= k - 1) /\ (n - 1) - (k - 1) = n - k
        BY <1>1, <1>4, <2>1, <2>4
      <4>2. Used(lru, i)[n - 1] = (l \o u)[n - 1]
        BY <1>7, <1>8, <4>1, AppendProperties
      <4>3. (l \o u)[n - 1] = u[(n - 1) - (k - 1)]
        BY <1>f, <4>1
      <4> QED
        BY <4>1, <4>2, <4>3
    <3>2. u[n - k] = lru[n]
      <4>1. n - k \in 1 .. Len(lru) - k /\ k + (n - k) = n
        BY <1>1, <1>4, <2>1, <2>4
      <4> QED
        BY <1>6, <4>1
    <3>3. n - 1 \in 1 .. NSlots
      BY <1>1, <1>4, <2>1, <2>4
    <3> QED
      BY <2>1, <3>1, <3>2, <3>3
  <2>5. n \in Int /\ k \in Int
    BY <1>1, <1>4, <2>1
  <2>6. n = k \/ n < k \/ n > k
    BY <2>5
  <2> QED
    BY <2>2, <2>3, <2>4, <2>6
<1>11. Range(Used(lru, i)) = SlotIds
  BY <1>1, <1>9, <1>10 DEF Range
<1> QED
  BY <1>9, <1>11 DEF LruExact

-----------------------------------------------------------------------------
(* Rows.  What a request has in its hands are KVs that fit a slot, for a      *)
(* prompt that was asked.                                                    *)
HoldsKvs(q) ==
  /\ q.pc \in {"checkout", "asleep", "seeding", "generating"} => q.prompt \in Prompts
  /\ q.pc = "seeding" => IsKv(q.mine) /\ IsKv(q.src)
  /\ q.pc \in {"generating", "dropping"} => IsKv(q.mine)

Whole(k) == k.sound = Len(k.cached)

(* No copy fails, or no prompt is refused after one.                         *)
Accepted == "copy" \notin Faults \/ \A prompt \in Prompts : ~TooLong(prompt)

(* A failed copy may spoil rows, but none of those the prompt shares with the *)
(* slot: the source it was copied from shares as much.                       *)
HoldsRows(q) ==
  /\ q.pc = "seeding" =>
       /\ Whole(q.mine) /\ Whole(q.src)
       /\ Shared(q.mine.cached, q.prompt) <= Shared(q.src.cached, q.prompt)
  /\ q.pc = "generating" =>
       /\ Shared(q.mine.cached, q.prompt) <= q.mine.sound
       /\ "copy" \notin Faults => Whole(q.mine)
  /\ q.pc = "dropping" => Whole(q.mine)

Hands(q) == HoldsKvs(q) /\ (Accepted => HoldsRows(q))

(* What a slot has is one of two: nothing, and it is taken, or a whole KV.    *)
WellKept(k) == IsKv(k) /\ (Accepted => Whole(k))

RowsInv ==
  /\ LruExact
  /\ \A i \in SlotIds : (kv[i] = NoKv /\ busy[i]) \/ WellKept(kv[i])
  /\ \A r \in Requests : Hands(req[r])

LEMMA RowsFollow ==
  ASSUME SeamInv, RowsInv
  PROVE  CachedRowsSoundWhereAccepted
<1>1. Len(lru) = NSlots /\ Range(lru) = SlotIds
  BY DEF RowsInv, LruExact
<1>2. \A i \in SlotIds : kv[i] = NoKv \/ IsKv(kv[i])
  BY DEF RowsInv, WellKept
<1>3. \A r \in Requests : req[r] \in RequestType
  BY DEF SeamInv, Typed
<1>4. TypeOK
  BY <1>1, <1>2, <1>3 DEF SeamInv, Typed, TypeOK, RequestType
<1>5. Accepted => CachedRowsSound
  BY DEF RowsInv, WellKept, Whole, FreeSlots, CachedRowsSound
<1> QED
  BY <1>4, <1>5 DEF CachedRowsSoundWhereAccepted, Accepted

(* A request that is woken has in its hands what it had.                     *)
LEMMA WakeKeepsHands ==
  ASSUME NEW next \in [Requests -> RequestType], \A r \in Requests : Hands(next[r]),
         WakeOne(next)
  PROVE  \A r \in Requests : Hands(req'[r])
<1>1. CASE req' = next
  BY <1>1
<1>2. CASE \E u \in Requests : next[u].pc = "asleep" /\ req' = [next EXCEPT ![u].pc = "checkout"]
  <2>1. PICK u \in Requests : next[u].pc = "asleep" /\ req' = [next EXCEPT ![u].pc = "checkout"]
    BY <1>2
  <2>2. next[u] \in RequestType /\ Hands(next[u])
    OBVIOUS
  <2>3. req'[u] = [next[u] EXCEPT !.pc = "checkout"] /\ \A r \in Requests \ {u} : req'[r] = next[r]
    BY <2>1
  <2>4. req'[u].pc = "checkout" /\ req'[u].prompt = next[u].prompt
    BY <2>2, <2>3 DEF RequestType
  <2>5. Hands(req'[u])
    BY <2>1, <2>2, <2>4 DEF Hands, HoldsKvs, HoldsRows
  <2> QED
    BY <2>3, <2>5
<1> QED
  BY <1>1, <1>2 DEF WakeOne

(* RowsInv after a step, from what the step leaves in the hands of a request  *)
(* and in a slot.                                                            *)
LEMMA RowsNext ==
  ASSUME RowsInv, setup' = setup, LruExact',
         \A r \in Requests : Hands(req'[r]),
         \A i \in SlotIds : \/ kv'[i] = NoKv /\ busy'[i]
                            \/ kv'[i] = kv[i] /\ busy'[i] = busy[i]
                            \/ WellKept(kv'[i])
  PROVE  RowsInv'
<1>1. \A i \in SlotIds : (kv'[i] = NoKv /\ busy'[i]) \/ WellKept(kv'[i])
  BY DEF RowsInv
<1>2. \A i \in SlotIds : ((kv[i] = NoKv /\ busy[i]) \/ WellKept(kv[i]))'
  BY <1>1 DEF WellKept, IsKv, Accepted, Whole, Faults, Prompts, TooLong
<1>3. \A r \in Requests : Hands(req[r])'
  BY DEF Hands, HoldsKvs, HoldsRows, IsKv, Accepted, Whole, Faults, Prompts, TooLong,
         Shared, Lesser
<1> QED
  BY <1>2, <1>3 DEF RowsInv

-----------------------------------------------------------------------------
(* However the copy ends, the rows the prompt continues are right.           *)
LEMMA SeedingKeepsRows ==
  ASSUME NEW mine \in KvType, NEW src \in KvType, NEW prompt \in Seq(Tokens),
         IsKv(mine), IsKv(src),
         Accepted => /\ Whole(mine) /\ Whole(src)
                     /\ Shared(mine.cached, prompt) <= Shared(src.cached, prompt),
         NEW dst \in SeedOutcomes(mine, src, Shared(src.cached, prompt))
  PROVE  /\ IsKv(dst)
         /\ Accepted => /\ Shared(dst.cached, prompt) <= dst.sound
                        /\ "copy" \notin Faults => Whole(dst)
<1> DEFINE p == Shared(src.cached, prompt)
           o == Shared(mine.cached, src.cached)
           n == Shared(mine.cached, prompt)
<1>1. /\ mine.cached \in Seq(Tokens) /\ mine.sound \in Nat
      /\ src.cached \in Seq(Tokens) /\ src.sound \in Nat
  BY DEF KvType
<1>2. /\ p \in Nat /\ p <= Len(src.cached) /\ o \in Nat /\ o <= Len(mine.cached)
      /\ n \in Nat /\ n <= Len(mine.cached)
  BY <1>1, SharedBound
<1>3. CASE dst = Seeded(src, p)
  <2>1. /\ dst.cached \in Seq(Tokens) /\ Len(dst.cached) = p
        /\ dst.cached = SubSeq(src.cached, 1, p) /\ dst.sound = Lesser(src.sound, p)
    BY <1>1, <1>2, <1>3, SharedWithPrefix DEF Seeded
  <2>2. IsKv(dst)
    BY <1>1, <1>2, <2>1, MaxCtxPositive DEF IsKv, Lesser
  <2>3. Whole(src) => Whole(dst)
    BY <1>1, <1>2, <2>1 DEF Whole, Lesser
  <2>4. Shared(dst.cached, prompt) <= Len(dst.cached)
    BY <2>1, SharedBound
  <2> QED
    BY <2>2, <2>3, <2>4 DEF Whole
<1>4. CASE dst = mine
  BY <1>2, <1>4 DEF Whole
<1>5. CASE dst = Overwritten(mine, src) /\ "copy" \in Faults
  <2>1. dst.cached = mine.cached /\ dst.sound = Lesser(mine.sound, o)
    BY <1>5 DEF Overwritten, KvType
  <2>2. IsKv(dst)
    BY <1>1, <1>2, <2>1, MaxCtxPositive DEF IsKv, Lesser
  <2>3. ASSUME Accepted PROVE n <= dst.sound
    <3>1. n <= p /\ mine.sound = Len(mine.cached)
      BY <2>3 DEF Whole
    <3>2. n <= o
      BY <1>1, <1>2, <3>1, SharedWithBoth
    <3> QED
      BY <1>1, <1>2, <2>1, <3>1, <3>2 DEF Lesser
  <2> QED
    BY <1>5, <2>1, <2>2, <2>3
<1> QED
  BY <1>3, <1>4, <1>5 DEF SeedOutcomes

(* Rows rebuilt from `start` on, where all before are right and are theirs.   *)
LEMMA RebuildingKeepsRows ==
  ASSUME NEW k \in KvType, NEW start \in Nat, NEW tokens \in Seq(Tokens), Len(tokens) < MaxCtx
  PROVE  /\ IsKv(Rebuilt(k, start, tokens))
         /\ start <= k.sound /\ start <= Shared(k.cached, tokens) =>
              Whole(Rebuilt(k, start, tokens))
<1> DEFINE m == Shared(k.cached, tokens)
           kept == Lesser(k.sound, m)
<1>1. k.cached \in Seq(Tokens) /\ k.sound \in Nat
  BY DEF KvType
<1>2. m \in Nat /\ m <= Len(tokens)
  BY <1>1, SharedBound
<1>3. /\ Rebuilt(k, start, tokens).cached = tokens
      /\ Rebuilt(k, start, tokens).sound = IF kept >= start THEN Len(tokens) ELSE kept
  BY DEF Rebuilt
<1> HIDE DEF m
<1>4. kept \in 0 .. Len(tokens) /\ (start <= k.sound /\ start <= m => kept >= start)
  BY <1>1, <1>2 DEF Lesser
<1> HIDE DEF kept
<1> QED
  BY <1>3, <1>4 DEF IsKv, Whole, m

(* A generation starts within what the slot shares with its prompt, and what  *)
(* it leaves resident begins with the prompt but for its last token.         *)
LEMMA ResidentsShare ==
  ASSUME setup \in Setups, NEW prompt \in Seq(Tokens), prompt # <<>>, ~TooLong(prompt),
         NEW k \in KvType, NEW tokens \in Residents(prompt)
  PROVE  /\ Len(tokens) < MaxCtx
         /\ Start(k, prompt) <= Shared(k.cached, prompt)
         /\ Start(k, prompt) <= Shared(k.cached, tokens)
<1> DEFINE n == Start(k, prompt)
<1>1. k.cached \in Seq(Tokens)
  BY DEF KvType
<1>2. /\ n \in Nat /\ n <= Shared(k.cached, prompt) /\ n <= Len(prompt) - 1
      /\ Shared(k.cached, prompt) \in Nat /\ Len(prompt) - 1 \in Nat
  BY <1>1, SharedBound DEF Start, Lesser
<1> HIDE DEF n
<1>3. ASSUME NEW w \in Seq(Tokens), w # <<>>
      PROVE  /\ Front(w) \in Seq(Tokens) /\ Len(Front(w)) = Len(w) - 1
             /\ \A j \in 1 .. Len(w) - 1 : Front(w)[j] = w[j]
  <2>1. Len(w) - 1 \in Nat /\ Len(w) - 1 <= Len(w) /\ Front(w) = SubSeq(w, 1, Len(w) - 1)
    BY <1>3 DEF Front
  <2> DEFINE l == Len(w) - 1
  <2>2. l \in Nat /\ l <= Len(w)
    BY <2>1
  <2> HIDE DEF l
  <2>3. /\ SubSeq(w, 1, l) \in Seq(Tokens) /\ Len(SubSeq(w, 1, l)) = l
        /\ \A j \in 1 .. l : SubSeq(w, 1, l)[j] = w[j]
    BY <2>2
  <2> QED
    BY <2>1, <2>3 DEF l
<1>4. /\ tokens \in Seq(Tokens) /\ Len(tokens) < MaxCtx /\ Len(prompt) - 1 <= Len(tokens)
      /\ \A j \in 1 .. Len(prompt) - 1 : tokens[j] = prompt[j]
  <2>1. CASE tokens = Front(prompt)
    BY <1>3, <2>1, MaxCtxPositive DEF TooLong
  <2>2. ASSUME NEW reply \in Replies, Len(prompt) + Len(reply) + 1 <= MaxCtx,
               tokens = prompt \o Front(reply)
        PROVE  /\ tokens \in Seq(Tokens) /\ Len(tokens) < MaxCtx
               /\ Len(prompt) - 1 <= Len(tokens)
               /\ \A j \in 1 .. Len(prompt) - 1 : tokens[j] = prompt[j]
    <3>1. reply \in Seq(Tokens) /\ reply # <<>>
      BY WordsType
    <3> DEFINE f == Front(reply)
    <3>2. f \in Seq(Tokens) /\ Len(f) = Len(reply) - 1 /\ Len(f) \in Nat
      BY <1>3, <3>1
    <3> HIDE DEF f
    <3> QED
      BY <2>2, <3>1, <3>2, MaxCtxPositive DEF f
  <2> QED
    BY <2>1, <2>2 DEF Residents
<1>5. \A j \in 1 .. n : k.cached[j] = prompt[j]
  BY <1>1, <1>2, SharedBound, SharedIs
<1>6. \A j \in 1 .. n : k.cached[j] = tokens[j]
  BY <1>2, <1>4, <1>5
<1>7. n <= Len(k.cached) /\ n <= Len(tokens)
  BY <1>1, <1>2, <1>4, SharedBound
<1>8. n <= Shared(k.cached, tokens)
  BY <1>1, <1>2, <1>4, <1>6, <1>7, SharedIs
<1> QED
  BY <1>2, <1>4, <1>8 DEF n

-----------------------------------------------------------------------------
LEMMA RowsStep ==
  ASSUME SeamInv, RowsInv, [Next]_vars
  PROVE  RowsInv'
<1>1. /\ setup \in Setups /\ kv \in [SlotIds -> KvOrNone]
      /\ busy \in [SlotIds -> BOOLEAN] /\ req \in [Requests -> RequestType]
      /\ \A r \in Requests : req[r] \in RequestType /\ CarriesWell(req[r]) /\ Hands(req[r])
  BY DEF SeamInv, Typed, Carried, RowsInv
<1>2. CASE UNCHANGED vars
  BY <1>2, RowsNext DEF vars, RowsInv, LruExact
<1> SUFFICES ASSUME Next PROVE RowsInv'
  BY <1>2
<1>3. setup' = setup
  BY DEF Next
<1>4. \A i \in SlotIds : ~busy[i] => WellKept(kv[i]) /\ kv[i] \in KvType
  BY <1>1 DEF SeamInv, SlotsExclusive, KvOrNone, RowsInv
(* A step that leaves the slots alone.                                       *)
<1>5. ASSUME NEW r \in Requests, NEW q, Hands(q), req' = [req EXCEPT ![r] = q],
             UNCHANGED <<kv, busy, lru>>
      PROVE  RowsInv'
  <2>1. \A v \in Requests : Hands(req'[v])
    BY <1>1, <1>5
  <2>2. LruExact'
    BY <1>5 DEF RowsInv, LruExact
  <2> QED
    BY <1>3, <1>5, <2>1, <2>2, RowsNext
<1>6. ASSUME NEW r \in Requests, NEW prompt \in Prompts, Ask(r, prompt) PROVE RowsInv'
  <2> DEFINE q == [Idle EXCEPT !.pc = "checkout", !.prompt = prompt]
  <2>1. q.pc = "checkout" /\ q.prompt = prompt
    BY DEF Idle
  <2> HIDE DEF q
  <2>2. Hands(q)
    BY <2>1 DEF Hands, HoldsKvs, HoldsRows
  <2> QED
    BY <1>5, <1>6, <2>2 DEF Ask, q
<1>7. ASSUME NEW r \in Requests, Sleep(r) \/ SpuriousWake(r) PROVE RowsInv'
  <2>1. PICK pc \in {"asleep", "checkout"} : req' = [req EXCEPT ![r] = [req[r] EXCEPT !.pc = pc]]
    BY <1>7 DEF Sleep, SpuriousWake
  <2> DEFINE q == [req[r] EXCEPT !.pc = pc]
  <2>2. q.pc = pc /\ q.prompt = req[r].prompt /\ req[r].pc \in {"asleep", "checkout"}
    BY <1>1, <1>7 DEF RequestType, Sleep, SpuriousWake
  <2>3. UNCHANGED <<kv, busy, lru>>
    BY <1>7 DEF Sleep, SpuriousWake
  <2>4. req' = [req EXCEPT ![r] = q]
    BY <2>1
  <2> HIDE DEF q
  <2>5. Hands(q)
    BY <1>1, <2>2 DEF Hands, HoldsKvs, HoldsRows
  <2> QED
    BY <1>5, <2>3, <2>4, <2>5
<1>8. ASSUME NEW r \in Requests, SeedPanics(r) PROVE RowsInv'
  <2>1. Hands([Idle EXCEPT !.pc = "panicked"])
    BY DEF Idle, Hands, HoldsKvs, HoldsRows
  <2> QED
    BY <1>5, <1>8, <2>1 DEF SeedPanics
(* A generation that ends with some KV.                                      *)
<1>9. ASSUME NEW r \in Requests, NEW k, IsKv(k), Accepted => Whole(k),
             req' = [req EXCEPT ![r].pc = "dropping", ![r].mine = k],
             UNCHANGED <<kv, busy, lru>>
      PROVE  RowsInv'
  <2> DEFINE q == [req[r] EXCEPT !.pc = "dropping", !.mine = k]
  <2>1. q.pc = "dropping" /\ q.mine = k
    BY <1>1 DEF RequestType
  <2>2. req' = [req EXCEPT ![r] = q]
    BY <1>9
  <2> HIDE DEF q
  <2>3. Hands(q)
    BY <1>9, <2>1 DEF Hands, HoldsKvs, HoldsRows
  <2> QED
    BY <1>5, <1>9, <2>2, <2>3
(* What a generating request has in its hands.                               *)
<1>10. ASSUME NEW r \in Requests, req[r].pc = "generating"
       PROVE  /\ req[r].mine \in KvType /\ IsKv(req[r].mine)
              /\ req[r].prompt \in Prompts /\ req[r].prompt \in Seq(Tokens)
              /\ req[r].prompt # <<>>
              /\ Start(req[r].mine, req[r].prompt) \in Nat
              /\ Start(req[r].mine, req[r].prompt) <= Len(req[r].mine.cached)
              /\ Accepted => /\ Shared(req[r].mine.cached, req[r].prompt) <= req[r].mine.sound
                             /\ "copy" \notin Faults => Whole(req[r].mine)
  <2>1. /\ req[r].mine \in KvType /\ req[r].prompt \in Prompts
        /\ IsKv(req[r].mine)
        /\ Accepted => /\ Shared(req[r].mine.cached, req[r].prompt) <= req[r].mine.sound
                       /\ "copy" \notin Faults => Whole(req[r].mine)
    BY <1>1, <1>10 DEF CarriesWell, Hands, HoldsKvs, HoldsRows
  <2>2. req[r].prompt \in Seq(Tokens) /\ req[r].prompt # <<>>
    BY <1>1, <2>1, WordsType
  <2> QED
    BY <2>1, <2>2, StartBound
<1>11. ASSUME NEW r \in Requests, GenerateEnds(r) PROVE RowsInv'
  <2> DEFINE k == req[r].mine
             prompt == req[r].prompt
  <2>1. req[r].pc = "generating" /\ ~TooLong(prompt) /\ UNCHANGED <<kv, busy, lru>>
    BY <1>11 DEF GenerateEnds
  <2>2. PICK tokens \in Residents(prompt) :
          req' = [req EXCEPT ![r].pc = "dropping",
                             ![r].mine = Rebuilt(k, Start(k, prompt), tokens)]
    BY <1>11 DEF GenerateEnds
  <2>3. /\ k \in KvType /\ prompt \in Seq(Tokens) /\ prompt # <<>>
        /\ Start(k, prompt) \in Nat /\ k.sound \in Nat /\ k.cached \in Seq(Tokens)
        /\ Accepted => Shared(k.cached, prompt) <= k.sound
    BY <1>10, <2>1 DEF KvType
  <2> HIDE DEF k, prompt
  <2>4. /\ tokens \in Seq(Tokens) /\ Len(tokens) < MaxCtx
        /\ Start(k, prompt) <= Shared(k.cached, prompt)
        /\ Start(k, prompt) <= Shared(k.cached, tokens)
    BY <1>1, <2>1, <2>2, <2>3, ResidentsShare, ResidentsType
  <2>5. Shared(k.cached, prompt) \in Nat
    BY <2>3, SharedBound
  <2>6. Accepted => Start(k, prompt) <= k.sound
    BY <2>3, <2>4, <2>5
  <2> DEFINE n == Start(k, prompt)
  <2>7. n \in Nat /\ n <= Shared(k.cached, tokens) /\ (Accepted => n <= k.sound)
    BY <2>3, <2>4, <2>6
  <2> HIDE DEF n
  <2>8. IsKv(Rebuilt(k, n, tokens)) /\ (Accepted => Whole(Rebuilt(k, n, tokens)))
    BY <2>3, <2>4, <2>7, RebuildingKeepsRows
  <2> QED
    BY <1>9, <2>1, <2>2, <2>8 DEF n, k
<1>12. ASSUME NEW r \in Requests, GenerateFails(r) PROVE RowsInv'
  <2> DEFINE k == req[r].mine
             prompt == req[r].prompt
             n == Start(k, prompt)
             back == SubSeq(k.cached, 1, n)
  <2>1. req[r].pc = "generating" /\ ~TooLong(prompt) /\ UNCHANGED <<kv, busy, lru>>
        /\ req' = [req EXCEPT ![r].pc = "dropping", ![r].mine = Rebuilt(k, n, back)]
    BY <1>12 DEF GenerateFails
  <2>2. /\ k \in KvType /\ prompt \in Seq(Tokens) /\ prompt # <<>> /\ IsKv(k)
        /\ n \in Nat /\ n <= Len(k.cached) /\ k.sound \in Nat /\ k.cached \in Seq(Tokens)
        /\ Accepted => Shared(k.cached, prompt) <= k.sound
    BY <1>10, <2>1 DEF KvType
  <2> HIDE DEF k, prompt
  <2>3. n <= Shared(k.cached, prompt) /\ Shared(k.cached, prompt) \in Nat
    BY <2>2, SharedBound DEF Start, Lesser
  <2> HIDE DEF n
  <2>4. back \in Seq(Tokens) /\ Len(back) = n /\ Shared(k.cached, back) = n
    BY <2>2, SharedWithPrefix
  <2> HIDE DEF back
  <2>5. Len(back) < MaxCtx
    BY <2>2, <2>4, MaxCtxPositive DEF IsKv
  <2>6. n <= Shared(k.cached, back) /\ (Accepted => n <= k.sound)
    BY <2>2, <2>3, <2>4
  <2>7. IsKv(Rebuilt(k, n, back)) /\ (Accepted => Whole(Rebuilt(k, n, back)))
    BY <2>2, <2>4, <2>5, <2>6, RebuildingKeepsRows
  <2> QED
    BY <1>9, <2>1, <2>7
<1>13. ASSUME NEW r \in Requests, GenerateRefused(r) PROVE RowsInv'
  <2>1. req[r].pc = "generating" /\ TooLong(req[r].prompt) /\ UNCHANGED <<kv, busy, lru>>
    BY <1>13 DEF GenerateRefused
  <2>2. IsKv(req[r].mine) /\ (Accepted => Whole(req[r].mine))
    BY <1>10, <2>1 DEF Accepted
  <2>3. [req[r] EXCEPT !.pc = "dropping"]
        = [req[r] EXCEPT !.pc = "dropping", !.mine = req[r].mine]
    BY <1>1 DEF RequestType
  <2>4. req' = [req EXCEPT ![r].pc = "dropping", ![r].mine = req[r].mine]
    BY <1>13, <2>3 DEF GenerateRefused
  <2> QED
    BY <1>9, <2>1, <2>2, <2>4
<1>14. ASSUME NEW r \in Requests, NEW i \in Target(req[r].prompt), req[r].pc = "checkout",
              Take(r, i)
       PROVE  RowsInv'
  <2>1. i \in SlotIds /\ WellKept(kv[i]) /\ kv[i] \in KvType
    BY <1>4, ChosenAreFree DEF FreeSlots
  <2>2. req[r].prompt \in Prompts /\ req[r].prompt \in Seq(Tokens)
    BY <1>1, <1>14, WordsType DEF Hands, HoldsKvs
  <2> DEFINE q == [req[r] EXCEPT !.pc = "generating", !.target = i, !.mine = kv[i]]
  <2>3. q.pc = "generating" /\ q.mine = kv[i] /\ q.prompt = req[r].prompt
    BY <1>1 DEF RequestType
  <2>4. req' = [req EXCEPT ![r] = q]
    BY <1>14 DEF Take
  <2> HIDE DEF q
  <2>5. Shared(kv[i].cached, req[r].prompt) <= Len(kv[i].cached)
    BY <2>1, <2>2, SharedBound DEF KvType
  <2>6. Hands(q)
    BY <2>1, <2>2, <2>3, <2>5 DEF Hands, HoldsKvs, HoldsRows, WellKept, Whole
  <2>7. \A v \in Requests : Hands(req'[v])
    BY <1>1, <2>4, <2>6
  <2>8. LruExact'
    BY <1>14, <2>1, UsedKeepsOrder DEF RowsInv, Take
  <2>9. busy' = [busy EXCEPT ![i] = TRUE] /\ kv' = [kv EXCEPT ![i] = NoKv]
    BY <1>14 DEF Take
  <2>10. \A j \in SlotIds : \/ kv'[j] = NoKv /\ busy'[j]
                            \/ kv'[j] = kv[j] /\ busy'[j] = busy[j]
    BY <1>1, <2>1, <2>9
  <2> QED
    BY <1>3, <2>7, <2>8, <2>10, RowsNext
<1>15. ASSUME NEW r \in Requests, NEW i \in Target(req[r].prompt),
              NEW best \in SeedSource(req[r].prompt, i), req[r].pc = "checkout",
              Reserve(r, i, best)
       PROVE  RowsInv'
  <2>1. /\ i \in SlotIds /\ WellKept(kv[i]) /\ kv[i] \in KvType
        /\ best \in SlotIds /\ WellKept(kv[best]) /\ kv[best] \in KvType
    BY <1>4, ChosenAreFree DEF FreeSlots
  <2>2. req[r].prompt \in Prompts /\ req[r].prompt \in Seq(Tokens)
    BY <1>1, <1>15, WordsType DEF Hands, HoldsKvs
  <2> DEFINE q == [req[r] EXCEPT !.pc = "seeding", !.target = i, !.best = best,
                                 !.mine = kv[i], !.src = kv[best]]
  <2>3. /\ q.pc = "seeding" /\ q.mine = kv[i] /\ q.src = kv[best]
        /\ q.prompt = req[r].prompt
    BY <1>1 DEF RequestType
  <2>4. req' = [req EXCEPT ![r] = q]
    BY <1>15 DEF Reserve
  <2> HIDE DEF q
  <2>5. Shared(kv[i].cached, req[r].prompt) <= Shared(kv[best].cached, req[r].prompt)
    <3>1. Shared(kv[best].cached, req[r].prompt) > Shared(kv[i].cached, req[r].prompt)
      BY <1>15 DEF SeedSource, Score
    <3>2. /\ Shared(kv[best].cached, req[r].prompt) \in Nat
          /\ Shared(kv[i].cached, req[r].prompt) \in Nat
      BY <2>1, <2>2, SharedBound DEF KvType
    <3> QED
      BY <3>1, <3>2
  <2>6. Hands(q)
    BY <2>1, <2>2, <2>3, <2>5 DEF Hands, HoldsKvs, HoldsRows, WellKept
  <2>7. \A v \in Requests : Hands(req'[v])
    BY <1>1, <2>4, <2>6
  <2>8. LruExact'
    BY <1>15 DEF RowsInv, Reserve, LruExact
  <2>9. /\ busy' = [busy EXCEPT ![i] = TRUE, ![best] = TRUE]
        /\ kv' = [kv EXCEPT ![i] = NoKv, ![best] = NoKv]
    BY <1>15 DEF Reserve
  <2>10. \A j \in SlotIds : \/ kv'[j] = NoKv /\ busy'[j]
                            \/ kv'[j] = kv[j] /\ busy'[j] = busy[j]
    BY <1>1, <2>1, <2>9
  <2> QED
    BY <1>3, <2>7, <2>8, <2>10, RowsNext
<1>16. ASSUME NEW r \in Requests, SeedEnds(r) PROVE RowsInv'
  <2> DEFINE mine == req[r].mine
             src == req[r].src
             prompt == req[r].prompt
  <2>1. PICK dst \in SeedOutcomes(mine, src, Shared(src.cached, prompt)) :
          WakeOne([req EXCEPT ![r].pc = "generating", ![r].best = NoSlot,
                              ![r].mine = dst, ![r].src = NoKv])
    BY <1>16 DEF SeedEnds
  <2>2. /\ req[r].pc = "seeding" /\ req[r].target \in SlotIds /\ req[r].best \in SlotIds
        /\ mine \in KvType /\ src \in KvType /\ IsKv(mine) /\ IsKv(src)
        /\ prompt \in Prompts
        /\ Accepted => /\ Whole(mine) /\ Whole(src)
                       /\ Shared(mine.cached, prompt) <= Shared(src.cached, prompt)
    BY <1>1, <1>16 DEF SeedEnds, CarriesWell, Hands, HoldsKvs, HoldsRows
  <2>3. prompt \in Seq(Tokens) /\ prompt # <<>>
    BY <1>1, <2>2, WordsType
  <2> DEFINE q == [req[r] EXCEPT !.pc = "generating", !.best = NoSlot, !.mine = dst, !.src = NoKv]
             next == [req EXCEPT ![r] = q]
  <2>4. WakeOne(next)
    BY <2>1
  <2>5. q.pc = "generating" /\ q.mine = dst /\ q.prompt = prompt
    BY <1>1 DEF RequestType
  <2>6. dst \in KvType
    BY <2>2, <2>3, SeedOutcomesType
  <2>7. q \in RequestType
    BY <1>1, <2>6 DEF RequestType, KvOrNone
  <2> HIDE DEF q, mine, src, prompt
  <2>8. /\ IsKv(dst)
        /\ Accepted => /\ Shared(dst.cached, prompt) <= dst.sound
                       /\ "copy" \notin Faults => Whole(dst)
    BY <2>1, <2>2, <2>3, SeedingKeepsRows
  <2>9. Hands(q)
    BY <2>2, <2>5, <2>8 DEF Hands, HoldsKvs, HoldsRows
  <2>10. next \in [Requests -> RequestType] /\ \A v \in Requests : Hands(next[v])
    BY <1>1, <2>7, <2>9
  <2>11. \A v \in Requests : Hands(req'[v])
    <3> HIDE DEF next
    <3> QED
      BY <2>4, <2>10, WakeKeepsHands
  <2>12. /\ busy' = [busy EXCEPT ![req[r].best] = FALSE]
         /\ kv' = [kv EXCEPT ![req[r].best] = src] /\ lru' = Used(lru, req[r].target)
    BY <1>16 DEF SeedEnds, src
  <2>13. LruExact'
    BY <2>2, <2>12, UsedKeepsOrder DEF RowsInv
  <2>14. WellKept(src)
    BY <2>2 DEF WellKept
  <2>15. \A j \in SlotIds : \/ kv'[j] = kv[j] /\ busy'[j] = busy[j]
                            \/ WellKept(kv'[j])
    BY <1>1, <2>2, <2>12, <2>14
  <2> QED
    BY <1>3, <2>11, <2>13, <2>15, RowsNext
<1>17. ASSUME NEW r \in Requests, Drop(r) PROVE RowsInv'
  <2>1. /\ req[r].pc = "dropping" /\ req[r].target \in SlotIds
        /\ WellKept(req[r].mine)
    BY <1>1, <1>17 DEF Drop, CarriesWell, Hands, HoldsKvs, HoldsRows, WellKept
  <2>2. Hands([Idle EXCEPT !.pc = "notify"])
    BY DEF Idle, Hands, HoldsKvs, HoldsRows
  <2>3. \A v \in Requests : Hands(req'[v])
    BY <1>1, <1>17, <2>2 DEF Drop
  <2>4. /\ busy' = [busy EXCEPT ![req[r].target] = FALSE]
        /\ kv' = [kv EXCEPT ![req[r].target] = req[r].mine] /\ lru' = Used(lru, req[r].target)
    BY <1>17 DEF Drop
  <2>5. LruExact'
    BY <2>1, <2>4, UsedKeepsOrder DEF RowsInv
  <2>6. \A j \in SlotIds : \/ kv'[j] = kv[j] /\ busy'[j] = busy[j]
                           \/ WellKept(kv'[j])
    BY <1>1, <2>1, <2>4
  <2> QED
    BY <1>3, <2>3, <2>5, <2>6, RowsNext
<1>18. ASSUME NEW r \in Requests, Notify(r) PROVE RowsInv'
  <2> DEFINE next == [req EXCEPT ![r] = Idle]
  <2>1. Hands(Idle) /\ Idle \in RequestType
    BY IdleType DEF Hands, HoldsKvs, HoldsRows
  <2>2. next \in [Requests -> RequestType] /\ \A v \in Requests : Hands(next[v])
    BY <1>1, <2>1
  <2>3. WakeOne(next) /\ UNCHANGED <<kv, busy, lru>>
    BY <1>18 DEF Notify
  <2>4. \A v \in Requests : Hands(req'[v])
    <3> HIDE DEF next
    <3> QED
      BY <2>2, <2>3, WakeKeepsHands
  <2>5. LruExact'
    BY <2>3 DEF RowsInv, LruExact
  <2> QED
    BY <1>3, <2>3, <2>4, <2>5, RowsNext
<1>19. ASSUME NEW r \in Requests, Checkout(r) PROVE RowsInv'
  BY <1>14, <1>15, <1>19 DEF Checkout
<1> QED
  BY <1>6, <1>7, <1>8, <1>11, <1>12, <1>13, <1>16, <1>17, <1>18, <1>19 DEF Next, Proceed

LEMMA RowsInit == Init => RowsInv
<1> SUFFICES ASSUME Init PROVE RowsInv
  OBVIOUS
<1>1. LruExact
  <2>1. lru = [i \in 1 .. NSlots |-> i] /\ SlotIds = 1 .. NSlots /\ NSlots \in Nat
    BY NSlotsPositive DEF Init, SlotIds
  <2> QED
    BY <2>1 DEF LruExact, Range
<1>2. Fresh.cached = <<>> /\ Fresh.sound = 0 /\ Len(<<>>) = 0
  BY DEF Fresh
<1>3. WellKept(Fresh)
  BY <1>2, MaxCtxPositive DEF WellKept, IsKv, Whole
<1>4. Hands(Idle)
  BY IdleType DEF Hands, HoldsKvs, HoldsRows
<1> QED
  BY <1>1, <1>3, <1>4 DEF Init, RowsInv

(* However many requests and slots, whatever prompts, replies and failures:   *)
(* a free slot claims no row it does not hold, unless a copy failed and a     *)
(* prompt was refused; and everything has its type.                          *)
THEOREM CachedRowsAreSound == Spec => []CachedRowsSoundWhereAccepted
BY SeamAlways, RowsInit, RowsStep, RowsFollow, PTL DEF Spec
=============================================================================
