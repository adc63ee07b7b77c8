--------------------------- MODULE HostPagerProofs ---------------------------
(***************************************************************************)
(* Proofs about the DRAM tier, for any finite set of threads, any blocks, any *)
(* number of slots and any way the tier is set up and called: its books       *)
(* agree, no byte of the arena is written while it is read, and what its       *)
(* callers see is a library that lends whole blocks.                         *)
(***************************************************************************)
EXTENDS HostPager, PagerOpsProofs

Loading == {"read", "publish", "abandon"}
Copying == {"copyHit", "copyNew"}
Quiet == {"idle", "want", "wait", "notify", "stream"}

PinsCounted == \A b \in Blocks : pg.pinned[b] = Cardinality(Holders(b))

StatesAgree == \A b \in Blocks : state[b] # "none" <=> IsResident(pg, b)

(* A ready block is whole.                                                   *)
ReadyIsWhole == \A b \in Blocks : state[b] = "ready" => arena[pg.resident[b]] = b

(* A borrow points to where its block is.  A read borrow is of a ready block,  *)
(* a write borrow belongs to the load its thread is in.                      *)
BorrowGood(t, k) ==
  LET h == pins[t][k]
  IN  /\ h.slot = pg.resident[h.blk]
      /\ h.use = "read" => state[h.blk] = "ready"
      /\ h.use = "write" => /\ state[h.blk] = "loading"
                            /\ At(t) \in Loading /\ k = call[t].k /\ h.blk = Blk(t)

(* What the call a thread is in holds.                                       *)
CallGood(t) ==
  LET h == pins[t][call[t].k]
  IN  /\ At(t) \in {"want", "wait"} => h = NoPin
      /\ At(t) \in Loading => h.use = "write" /\ h.blk = Blk(t)
      /\ At(t) = "publish" => arena[h.slot] = h.blk
      /\ At(t) \in Copying => h.use = "read" /\ h.blk = Blk(t)

OneLoader ==
  \A t, u \in Threads : At(t) \in Loading /\ At(u) \in Loading /\ Blk(t) = Blk(u) => t = u

BorrowsGood == \A t \in Threads, k \in PinIds : pins[t][k] # NoPin => BorrowGood(t, k)
CallsGood == \A t \in Threads : CallGood(t)

TierInv ==
  /\ TypeOK /\ Sound(pg) /\ pg.cur = 0
  /\ PinsCounted /\ StatesAgree /\ ReadyIsWhole
  /\ BorrowsGood /\ CallsGood /\ OneLoader

-----------------------------------------------------------------------------
PinsType == pins \in [Threads -> [PinIds -> Borrow \cup {NoPin}]]
CallsType == call \in [Threads -> Call \cup {NoCall}]

(* A call that is not idle, and its step.                                    *)
LEMMA CallFacts ==
  ASSUME CallsType, NEW t \in Threads, At(t) # "idle"
  PROVE  /\ call[t] \in Call /\ call[t].at \in Locations /\ call[t].blk \in Blocks
         /\ call[t].k \in PinIds /\ call[t].op \in {"pin", "fill", "try_pin"}
         /\ call[t].insert \in InsertPolicies
BY DEF CallsType, Call, NoCall, At

LEMMA GotoFacts ==
  ASSUME CallsType, NEW t \in Threads, NEW from \in Locations,
         NEW to \in Locations \cup {"idle"}, Goto(t, from, to)
  PROVE  /\ CallsType' /\ At(t) = from /\ call'[t].at = to
         /\ to # "idle" => /\ call'[t].blk = call[t].blk /\ call'[t].k = call[t].k
                           /\ call'[t].op = call[t].op
         /\ \A u \in Threads : u # t => call'[u] = call[u]
         /\ call[t] \in Call /\ call[t].blk \in Blocks /\ call[t].k \in PinIds
         /\ call[t].op \in {"pin", "fill", "try_pin"} /\ call[t].insert \in InsertPolicies
<1>1. At(t) = from /\ from # "idle"
  BY DEF Goto, Locations
<1>2. call[t] \in Call /\ call[t].blk \in Blocks /\ call[t].k \in PinIds
      /\ call[t].op \in {"pin", "fill", "try_pin"} /\ call[t].insert \in InsertPolicies
  BY <1>1, CallFacts
<1> DEFINE c == IF to = "idle" THEN NoCall ELSE [call[t] EXCEPT !.at = to]
<1>3. call' = [call EXCEPT ![t] = c]
  BY DEF Goto
<1>4. /\ c \in Call \cup {NoCall} /\ c.at = to
      /\ to # "idle" => c.blk = call[t].blk /\ c.k = call[t].k /\ c.op = call[t].op
  BY <1>2 DEF Call, NoCall
<1> HIDE DEF c
<1>5. CallsType' /\ call'[t] = c /\ \A u \in Threads : u # t => call'[u] = call[u]
  BY <1>3, <1>4 DEF CallsType
<1> QED
  BY <1>1, <1>2, <1>4, <1>5

LEMMA SetPin ==
  ASSUME PinsType, NEW t \in Threads, NEW k \in PinIds, NEW h \in Borrow \cup {NoPin},
         pins' = [pins EXCEPT ![t][k] = h]
  PROVE  /\ PinsType'
         /\ \A u \in Threads, j \in PinIds :
              pins'[u][j] = IF u = t /\ j = k THEN h ELSE pins[u][j]
BY DEF PinsType

LEMMA PinFacts ==
  ASSUME PinsType, NEW t \in Threads, NEW k \in PinIds
  PROVE  /\ pins[t][k] # NoPin => /\ pins[t][k].blk \in Blocks /\ pins[t][k].slot \in Slots
                                  /\ pins[t][k].use \in {"read", "write"}
         /\ pins[t][k].use # "none" => pins[t][k] # NoPin
         /\ pins[t][k].use \in {"none", "read", "write"}
         /\ pins[t][k].blk # NoBlock => pins[t][k] # NoPin
BY DEF PinsType, Borrow, NoPin

LEMMA HoldersFinite == ASSUME NEW b PROVE IsFiniteSet(Holders(b))
<1>1. IsFiniteSet(Threads \X PinIds)
  <2>1. IsFiniteSet(PinIds)
    <3>1. 1 \in Int /\ MaxPins \in Int
      BY MaxPinsPositive
    <3> QED
      BY <3>1, FS_Interval DEF PinIds
  <2> QED
    BY <2>1, ThreadsFinite, FS_Product
<1>2. Holders(b) \in SUBSET (Threads \X PinIds)
  BY DEF Holders
<1> QED
  BY <1>1, <1>2, FS_Subset

(* Who holds a block after one borrow has changed.                           *)
LEMMA HoldersAfter ==
  ASSUME PinsType, NEW t \in Threads, NEW k \in PinIds, NEW h,
         pins' = [pins EXCEPT ![t][k] = h], NEW b \in Blocks
  PROVE  Holders(b)' = IF h.blk = b THEN Holders(b) \cup {<<t, k>>}
                       ELSE Holders(b) \ {<<t, k>>}
<1>1. \A u \in Threads, j \in PinIds :
         pins'[u][j].blk = IF u = t /\ j = k THEN h.blk ELSE pins[u][j].blk
  <2>1. \A u \in Threads, j \in PinIds :
           pins'[u][j] = IF u = t /\ j = k THEN h ELSE pins[u][j]
    BY DEF PinsType
  <2> TAKE u \in Threads, j \in PinIds
  <2>2. CASE u = t /\ j = k
    BY <2>1, <2>2
  <2>3. CASE ~(u = t /\ j = k)
    <3>1. pins'[u][j] = pins[u][j]
      BY <2>1, <2>3
    <3> QED
      BY <3>1, <2>3
  <2> QED
    BY <2>2, <2>3
<1>2. \A x \in Threads \X PinIds :
         /\ x[1] \in Threads /\ x[2] \in PinIds
         /\ x = <<t, k>> <=> x[1] = t /\ x[2] = k
  OBVIOUS
<1>3. \A x \in Threads \X PinIds :
         pins'[x[1]][x[2]].blk = IF x = <<t, k>> THEN h.blk ELSE pins[x[1]][x[2]].blk
  BY <1>1, <1>2
<1>4. <<t, k>> \in Threads \X PinIds
  OBVIOUS
<1>5. /\ Holders(b)' = {x \in Threads \X PinIds : pins'[x[1]][x[2]].blk = b}
      /\ Holders(b) = {x \in Threads \X PinIds : pins[x[1]][x[2]].blk = b}
  BY DEF Holders
<1> QED
  BY <1>3, <1>4, <1>5

(* One borrow more, one borrow less, and the count that goes with it.        *)
LEMMA CountBorrow ==
  ASSUME PinsType, PinsCounted, pg \in PagerType,
         NEW t \in Threads, NEW k \in PinIds, NEW h \in Borrow, pins[t][k] = NoPin,
         pins' = [pins EXCEPT ![t][k] = h],
         pg'.pinned = [pg.pinned EXCEPT ![h.blk] = @ + 1]
  PROVE  PinsCounted'
<1> SUFFICES ASSUME NEW b \in Blocks
             PROVE  pg'.pinned[b] = Cardinality(Holders(b)')
  BY DEF PinsCounted
<1>1. Holders(b)' = IF h.blk = b THEN Holders(b) \cup {<<t, k>>} ELSE Holders(b) \ {<<t, k>>}
  BY HoldersAfter
<1>6. h.blk \in Blocks /\ <<t, k>> \notin Holders(b)
  BY NoBlockIsNoBlock DEF Holders, NoPin, Borrow
<1>2. IsFiniteSet(Holders(b)) /\ pg.pinned[b] = Cardinality(Holders(b))
  BY HoldersFinite DEF PinsCounted
<1>3. pg.pinned \in [Blocks -> Nat]
  BY FieldsType
<1>4. CASE b = h.blk
  <2>1. Holders(b)' = Holders(b) \cup {<<t, k>>} /\ <<t, k>> \notin Holders(b)
    BY <1>1, <1>4, <1>6
  <2>2. Cardinality(Holders(b)') = Cardinality(Holders(b)) + 1
    BY <2>1, <1>2, FS_AddElement
  <2>3. pg'.pinned[b] = pg.pinned[b] + 1
    BY <1>3, <1>4
  <2> QED
    BY <2>2, <2>3, <1>2
<1>5. CASE b # h.blk
  <2>1. Holders(b)' = Holders(b)
    BY <1>1, <1>5, <1>6
  <2> QED
    BY <2>1, <1>2, <1>3, <1>5
<1> QED
  BY <1>4, <1>5

LEMMA CountReturn ==
  ASSUME PinsType, PinsCounted, pg \in PagerType,
         NEW t \in Threads, NEW k \in PinIds, pins[t][k] # NoPin,
         pins' = [pins EXCEPT ![t][k] = NoPin],
         pg'.pinned = [pg.pinned EXCEPT ![pins[t][k].blk] = @ - 1]
  PROVE  PinsCounted'
<1> SUFFICES ASSUME NEW b \in Blocks
             PROVE  pg'.pinned[b] = Cardinality(Holders(b)')
  BY DEF PinsCounted
<1>1. Holders(b)' = Holders(b) \ {<<t, k>>}
  <2>1. NoPin.blk # b
    BY NoBlockIsNoBlock DEF NoPin
  <2> QED
    BY <2>1, HoldersAfter
<1>6. pins[t][k].blk \in Blocks /\ (<<t, k>> \in Holders(b) <=> pins[t][k].blk = b)
  BY PinFacts DEF Holders
<1>2. IsFiniteSet(Holders(b)) /\ pg.pinned[b] = Cardinality(Holders(b))
  BY HoldersFinite DEF PinsCounted
<1>3. pg.pinned \in [Blocks -> Nat]
  BY FieldsType
<1>4. CASE b = pins[t][k].blk
  <2>1. Holders(b)' = Holders(b) \ {<<t, k>>} /\ <<t, k>> \in Holders(b)
    BY <1>1, <1>4, <1>6
  <2>2. Cardinality(Holders(b)') = Cardinality(Holders(b)) - 1
    BY <2>1, <1>2, FS_RemoveElement
  <2>3. pg'.pinned[b] = pg.pinned[b] - 1
    BY <1>3, <1>4
  <2> QED
    BY <2>2, <2>3, <1>2
<1>5. CASE b # pins[t][k].blk
  <2>1. Holders(b)' = Holders(b)
    BY <1>1, <1>5, <1>6
  <2> QED
    BY <2>1, <1>2, <1>3, <1>5
<1> QED
  BY <1>4, <1>5

(* A held block is pinned, and an unpinned one is held by nobody.            *)
LEMMA HeldIsPinned ==
  ASSUME PinsType, PinsCounted, NEW t \in Threads, NEW k \in PinIds, pins[t][k] # NoPin
  PROVE  pg.pinned[pins[t][k].blk] # 0 /\ (pg \in PagerType => pg.pinned[pins[t][k].blk] > 0)
<1> DEFINE b == pins[t][k].blk
<1>1. b \in Blocks /\ <<t, k>> \in Holders(b)
  BY PinFacts DEF Holders
<1>2. IsFiniteSet(Holders(b)) /\ pg.pinned[b] = Cardinality(Holders(b))
  BY <1>1, HoldersFinite DEF PinsCounted
<1>3. Cardinality(Holders(b)) # 0
  BY <1>1, <1>2, FS_EmptySet
<1>4. pg \in PagerType => pg.pinned[b] \in Nat
  BY <1>1, FieldsType
<1> QED
  BY <1>2, <1>3, <1>4

-----------------------------------------------------------------------------
LEMMA InitTier == Init => TierInv
<1> SUFFICES ASSUME Init PROVE TierInv
  OBVIOUS
<1>1. Sound(pg)
  BY NewPagerSound DEF Init
<1>2. pg.cur = 0 /\ pg.pinned = [b \in Blocks |-> 0] /\ pg.resident = [b \in Blocks |-> NoSlot]
  BY DEF Init, NewPager
<1>3. TypeOK
  BY <1>1 DEF Init, TypeOK, Sound
<1>4. \A t \in Threads, k \in PinIds : pins[t][k] = NoPin
  BY DEF Init
<1>5. \A b \in Blocks : Holders(b) = {}
  <2> TAKE b \in Blocks
  <2>1. NoPin.blk # b
    BY NoBlockIsNoBlock DEF NoPin
  <2>2. \A x \in Threads \X PinIds : x[1] \in Threads /\ x[2] \in PinIds
    OBVIOUS
  <2> QED
    BY <1>4, <2>1, <2>2 DEF Holders
<1>6. PinsCounted
  BY <1>2, <1>5, FS_EmptySet DEF PinsCounted
<1>7. StatesAgree /\ ReadyIsWhole
  BY <1>2 DEF Init, StatesAgree, ReadyIsWhole, IsResident
<1>8. \A t \in Threads : At(t) = "idle"
  BY DEF Init, At, NoCall
<1>9. BorrowsGood /\ CallsGood /\ OneLoader
  BY <1>4, <1>8 DEF BorrowsGood, CallsGood, CallGood, OneLoader, Loading, Copying
<1> QED
  BY <1>1, <1>2, <1>3, <1>6, <1>7, <1>9 DEF TierInv

(* A step of calls that load and copy nothing.                               *)
LEMMA QuietStep ==
  ASSUME TierInv, CallsType', UNCHANGED <<tier, pg, state, arena, pins>>,
         descs' \in SUBSET Blocks, missed' \in SUBSET Blocks, exhausted' \in BOOLEAN,
         \A u \in Threads :
           \/ call'[u] = call[u]
           \/ /\ At(u) \in Quiet /\ call'[u].at \in Quiet
              /\ call'[u].at \in {"want", "wait"} => pins[u][call'[u].k] = NoPin
  PROVE  TierInv'
<1>1. TypeOK' /\ Sound(pg)' /\ pg'.cur = 0 /\ PinsCounted' /\ StatesAgree' /\ ReadyIsWhole'
  BY DEF TierInv, TypeOK, CallsType, PinsCounted, StatesAgree, ReadyIsWhole, Holders, Sound
<1>2. \A u \in Threads : At(u)' \in Loading \cup Copying => call'[u] = call[u]
  BY DEF Quiet, Loading, Copying, At
<1>3. \A u \in Threads : At(u) \in Loading \cup Copying => call'[u] = call[u]
  BY DEF Quiet, Loading, Copying, At
<1>4. BorrowsGood'
  BY <1>3 DEF TierInv, BorrowsGood, BorrowGood, At, Blk
<1>5. CallsGood'
  BY <1>2 DEF TierInv, CallsGood, CallGood, At, Blk, Loading, Copying
<1>6. OneLoader'
  BY <1>2 DEF TierInv, OneLoader, At, Blk
<1> QED
  BY <1>1, <1>4, <1>5, <1>6 DEF TierInv

LEMMA Typed ==
  ASSUME TierInv
  PROVE  /\ CallsType /\ PinsType /\ pg \in PagerType /\ Sound(pg)
         /\ pg.resident \in [Blocks -> Slots \cup {NoSlot}] /\ pg.pinned \in [Blocks -> Nat]
         /\ state \in [Blocks -> {"none", "loading", "ready"}]
         /\ arena \in [Slots -> Blocks \cup {NoBlock}]
         /\ NoSlot \notin Slots
BY FieldsType, NSlotsPositive DEF TierInv, TypeOK, CallsType, PinsType, Slots, NoSlot

(* Two borrows of one slot are of one block, and nobody borrows a block that   *)
(* is being loaded but its loader.                                          *)
LEMMA SameSlotSameBlock ==
  ASSUME TierInv, NEW t \in Threads, NEW k \in PinIds, NEW u \in Threads, NEW j \in PinIds,
         pins[t][k] # NoPin, pins[u][j] # NoPin
  PROVE  /\ pins[t][k].slot = pins[u][j].slot => pins[t][k].blk = pins[u][j].blk
         /\ pins[t][k].use = "write" /\ pins[t][k].blk = pins[u][j].blk => u = t /\ j = k
<1>1. BorrowGood(t, k) /\ BorrowGood(u, j) /\ PinsType /\ SlotsDisjoint(pg)
  BY Typed DEF TierInv, BorrowsGood, Sound
<1>2. /\ pins[t][k].blk \in Blocks /\ pins[t][k].slot \in Slots
      /\ pins[u][j].blk \in Blocks /\ pins[u][j].use \in {"read", "write"}
  BY <1>1, PinFacts
<1>3. NoSlot \notin Slots
  BY Typed
<1>4. ASSUME pins[t][k].slot = pins[u][j].slot PROVE pins[t][k].blk = pins[u][j].blk
  BY <1>1, <1>2, <1>3, <1>4 DEF BorrowGood, SlotsDisjoint, IsResident
<1>5. ASSUME pins[t][k].use = "write", pins[t][k].blk = pins[u][j].blk PROVE u = t /\ j = k
  BY <1>1, <1>2, <1>5 DEF BorrowGood, TierInv, OneLoader
<1> QED
  BY <1>4, <1>5

(* A ready block is lent once more.                                          *)
LEMMA LendStep ==
  ASSUME TierInv, NEW t \in Threads, NEW q, pg' = q,
         At(t) = "want", state[Blk(t)] = "ready", IsResident(pg, Blk(t)),
         q \in PagerType, q.resident = pg.resident, q.lru = pg.lru, q.free = pg.free,
         q.cur = pg.cur, q.pinned = [pg.pinned EXCEPT ![Blk(t)] = @ + 1],
         Borrows(t, pg.resident[Blk(t)], "read"),
         NEW to \in {"idle", "copyHit"}, Goto(t, "want", to),
         UNCHANGED <<tier, state, descs, missed, arena, exhausted>>
  PROVE  TierInv'
<1> DEFINE b == Blk(t)
           k == call[t].k
           h == [blk |-> b, slot |-> pg.resident[b], use |-> "read"]
<1>1. /\ CallsType' /\ call'[t].at = to
      /\ to # "idle" => call'[t].blk = b /\ call'[t].k = k
      /\ \A u \in Threads : u # t => call'[u] = call[u]
      /\ b \in Blocks /\ k \in PinIds
  <2>1. "want" \in Locations /\ to \in Locations \cup {"idle"}
    BY DEF Locations
  <2> QED
    BY <2>1, Typed, GotoFacts DEF Blk
<1>2. pg.resident[b] \in Slots
  BY <1>1, Typed DEF IsResident
<1>3. h \in Borrow /\ pins' = [pins EXCEPT ![t][k] = h]
  BY <1>1, <1>2 DEF Borrow, Borrows
<1>4. pins[t][k] = NoPin
  BY DEF TierInv, CallsGood, CallGood
<1>6. h.blk = b /\ h.slot = pg.resident[b] /\ h.use = "read" /\ h # NoPin
  BY DEF NoPin
<1> HIDE DEF h, b, k
<1>5. PinsType' /\ \A u \in Threads, j \in PinIds :
                     pins'[u][j] = IF u = t /\ j = k THEN h ELSE pins[u][j]
  <2>1. PinsType /\ h \in Borrow \cup {NoPin}
    BY <1>3, Typed
  <2> QED
    BY <1>1, <1>3, <2>1, SetPin
<1>7. PinsCounted'
  <2>1. pg'.pinned = [pg.pinned EXCEPT ![h.blk] = @ + 1]
    BY <1>6 DEF b
  <2> QED
    BY <1>1, <1>3, <1>4, <2>1, Typed, CountBorrow DEF TierInv
<1>8. Sound(pg)' /\ pg'.cur = 0 /\ StatesAgree' /\ ReadyIsWhole'
  BY SameWhereabouts DEF TierInv, StatesAgree, ReadyIsWhole, IsResident
<1>9. TypeOK'
  BY <1>1, <1>5 DEF TierInv, TypeOK, CallsType, PinsType
<1>10. \A u \in Threads : At(u)' \in Loading => u # t
  BY <1>1 DEF At, Loading
<1>11. BorrowsGood'
  <2> SUFFICES ASSUME NEW u \in Threads, NEW j \in PinIds, pins'[u][j] # NoPin
               PROVE  BorrowGood(u, j)'
    BY DEF BorrowsGood
  <2>1. CASE u = t /\ j = k
    <3>1. pins'[u][j] = h
      BY <1>5, <2>1
    <3> QED
      BY <2>1, <3>1, <1>6 DEF BorrowGood, b
  <2>2. CASE ~(u = t /\ j = k)
    <3>1. pins'[u][j] = pins[u][j] /\ BorrowGood(u, j)
      BY <2>2, <1>5 DEF TierInv, BorrowsGood
    <3>2. pins[u][j].use = "write" => u # t
      BY <3>1 DEF BorrowGood, Loading, At
    <3> QED
      BY <3>1, <3>2, <1>1 DEF BorrowGood, At, Blk
  <2> QED
    BY <2>1, <2>2
<1>12. CallsGood'
  <2> SUFFICES ASSUME NEW u \in Threads PROVE CallGood(u)'
    BY DEF CallsGood
  <2>1. CASE u = t
    BY <2>1, <1>1, <1>5, <1>6 DEF CallGood, At, Blk, Loading, Copying
  <2>2. CASE u # t
    <3>1. \A j \in PinIds : pins'[u][j] = pins[u][j]
      BY <2>2, <1>5
    <3>2. CallGood(u) /\ call'[u] = call[u]
      BY <2>2, <1>1 DEF TierInv, CallsGood
    <3>3. call[u] \in Call \/ call[u] = NoCall
      BY Typed DEF CallsType
    <3> QED
      BY <3>1, <3>2, <3>3 DEF CallGood, At, Blk, Call, NoCall, Loading, Copying
  <2> QED
    BY <2>1, <2>2
<1>13. OneLoader'
  BY <1>1, <1>10 DEF TierInv, OneLoader, At, Blk
<1> QED
  BY <1>7, <1>8, <1>9, <1>11, <1>12, <1>13 DEF TierInv

(* A block nobody knows is loaded into a slot of its own, or into that of a     *)
(* block nobody holds.                                                      *)
LEMMA ClaimStep ==
  ASSUME TierInv, NEW t \in Threads, At(t) = "want", Claim(t),
         UNCHANGED <<tier, descs, missed, arena, exhausted>>
  PROVE  TierInv'
<1> DEFINE b == Blk(t)
           k == call[t].k
           m == MissAndPin(pg, b, call[t].insert)
           h == [blk |-> b, slot |-> m.slot, use |-> "write"]
<1>1. /\ CallsType' /\ call'[t].at = "read" /\ call'[t].blk = b /\ call'[t].k = k
      /\ \A u \in Threads : u # t => call'[u] = call[u]
      /\ b \in Blocks /\ k \in PinIds
  <2>1. "want" \in Locations /\ "read" \in Locations \cup {"idle"} /\ "read" # "idle"
    BY DEF Locations
  <2>2. Goto(t, "want", "read")
    BY DEF Claim
  <2> QED
    BY <2>1, <2>2, Typed, GotoFacts DEF Blk
<1>2. /\ state[b] = "none" /\ pg' = m.pager
      /\ state' = [c \in Blocks |-> IF c = b THEN "loading"
                                    ELSE IF c = m.evicted THEN "none" ELSE state[c]]
      /\ pins' = [pins EXCEPT ![t][k] = h]
  BY DEF Claim, Borrows
<1>3. ~IsResident(pg, b) /\ CanTakeSlot(pg) /\ Sound(pg)
  BY <1>1, <1>2 DEF TierInv, StatesAgree, Claim
<1>4. /\ Sound(m.pager) /\ m.slot \in Slots
      /\ m.pager.pinned = [pg.pinned EXCEPT ![b] = @ + 1] /\ m.pager.cur = pg.cur
      /\ \A c \in Blocks : m.pager.resident[c] = IF c = b THEN m.slot
                                                ELSE IF c = m.evicted THEN NoSlot
                                                ELSE pg.resident[c]
      /\ m.evicted # b
      /\ m.evicted \in Blocks => IsResident(pg, m.evicted) /\ pg.pinned[m.evicted] = 0
  BY <1>1, <1>3, MissAndPinSound
<1>5. h \in Borrow
  BY <1>1, <1>4 DEF Borrow
<1>6. h.blk = b /\ h.slot = m.slot /\ h.use = "write" /\ h # NoPin
  BY DEF NoPin
<1> HIDE DEF h, m, b, k
<1>7. pins[t][k] = NoPin
  BY DEF TierInv, CallsGood, CallGood, k
<1>8. PinsType' /\ \A u \in Threads, j \in PinIds :
                     pins'[u][j] = IF u = t /\ j = k THEN h ELSE pins[u][j]
  <2>1. PinsType /\ h \in Borrow \cup {NoPin}
    BY <1>5, Typed
  <2> QED
    BY <1>1, <1>2, <2>1, SetPin
<1>9. PinsCounted'
  <2>1. pg'.pinned = [pg.pinned EXCEPT ![h.blk] = @ + 1]
    BY <1>2, <1>4, <1>6
  <2> QED
    BY <1>1, <1>2, <1>5, <1>7, <2>1, Typed, CountBorrow DEF TierInv
<1>10. \A c \in Blocks : pg'.resident[c] = IF c = b THEN m.slot
                                           ELSE IF c = m.evicted THEN NoSlot
                                           ELSE pg.resident[c]
  BY <1>2, <1>4
<1>11. \A c \in Blocks : state'[c] = IF c = b THEN "loading"
                                     ELSE IF c = m.evicted THEN "none" ELSE state[c]
  BY <1>2
<1>12. StatesAgree' /\ ReadyIsWhole'
  <2>1. m.slot # NoSlot
    BY <1>4, Typed
  <2> QED
    BY <2>1, <1>4, <1>10, <1>11 DEF TierInv, StatesAgree, ReadyIsWhole, IsResident
<1>13. Sound(pg)' /\ pg'.cur = 0
  BY <1>2, <1>4 DEF TierInv
<1>14. TypeOK'
  <2>1. state' \in [Blocks -> {"none", "loading", "ready"}]
    <3>1. \A c \in Blocks : state[c] \in {"none", "loading", "ready"}
      BY Typed
    <3> QED
      BY <3>1, <1>2
  <2> QED
    BY <1>1, <1>8, <1>13, <2>1 DEF TierInv, TypeOK, CallsType, PinsType, Sound
(* Nobody holds the block, nor the one whose slot it takes.                  *)
<1>15. \A u \in Threads, j \in PinIds :
         pins[u][j] # NoPin => /\ BorrowGood(u, j) /\ pins[u][j].blk \in Blocks
                               /\ pins[u][j].use \in {"read", "write"}
                               /\ pins[u][j].blk # b /\ pins[u][j].blk # m.evicted
  <2> SUFFICES ASSUME NEW u \in Threads, NEW j \in PinIds, pins[u][j] # NoPin
               PROVE  /\ BorrowGood(u, j) /\ pins[u][j].blk \in Blocks
                      /\ pins[u][j].use \in {"read", "write"}
                      /\ pins[u][j].blk # b /\ pins[u][j].blk # m.evicted
    OBVIOUS
  <2>1. BorrowGood(u, j) /\ pins[u][j].blk \in Blocks /\ pins[u][j].use \in {"read", "write"}
    BY Typed, PinFacts DEF TierInv, BorrowsGood
  <2>2. state[pins[u][j].blk] # "none"
    BY <2>1 DEF BorrowGood
  <2>3. pg.pinned[pins[u][j].blk] # 0
    BY Typed, HeldIsPinned DEF TierInv
  <2> QED
    BY <2>1, <2>2, <2>3, <1>2, <1>4
<1>16. BorrowsGood'
  <2> SUFFICES ASSUME NEW u \in Threads, NEW j \in PinIds, pins'[u][j] # NoPin
               PROVE  BorrowGood(u, j)'
    BY DEF BorrowsGood
  <2>1. CASE u = t /\ j = k
    <3>1. pins'[u][j] = h
      BY <1>8, <2>1
    <3> QED
      BY <2>1, <3>1, <1>1, <1>6, <1>10, <1>11 DEF BorrowGood, At, Blk, Loading
  <2>2. CASE ~(u = t /\ j = k)
    <3>1. pins'[u][j] = pins[u][j]
      BY <2>2, <1>8
    <3>2. /\ pg'.resident[pins[u][j].blk] = pg.resident[pins[u][j].blk]
          /\ state'[pins[u][j].blk] = state[pins[u][j].blk]
          /\ BorrowGood(u, j)
      BY <3>1, <1>10, <1>11, <1>15
    <3>3. pins[u][j].use = "write" => u # t
      BY <3>2 DEF BorrowGood, Loading, At
    <3> QED
      BY <3>1, <3>2, <3>3, <1>1 DEF BorrowGood, At, Blk
  <2> QED
    BY <2>1, <2>2
<1>17. CallsGood'
  <2> SUFFICES ASSUME NEW u \in Threads PROVE CallGood(u)'
    BY DEF CallsGood
  <2>1. CASE u = t
    BY <2>1, <1>1, <1>6, <1>8 DEF CallGood, At, Blk, Loading, Copying
  <2>2. CASE u # t
    <3>1. \A j \in PinIds : pins'[u][j] = pins[u][j]
      BY <2>2, <1>8
    <3>2. CallGood(u) /\ call'[u] = call[u]
      BY <2>2, <1>1 DEF TierInv, CallsGood
    <3>3. call[u] \in Call \/ call[u] = NoCall
      BY Typed DEF CallsType
    <3> QED
      BY <3>1, <3>2, <3>3 DEF CallGood, At, Blk, Call, NoCall, Loading, Copying
  <2> QED
    BY <2>1, <2>2
<1>18. \A u \in Threads : At(u) \in Loading => Blk(u) # b
  <2> SUFFICES ASSUME NEW u \in Threads, At(u) \in Loading PROVE Blk(u) # b
    OBVIOUS
  <2>1. call[u].k \in PinIds
    BY Typed, CallFacts DEF Loading
  <2>2. pins[u][call[u].k].use = "write" /\ pins[u][call[u].k].blk = Blk(u)
    BY DEF TierInv, CallsGood, CallGood
  <2>3. pins[u][call[u].k] # NoPin
    BY <2>1, <2>2, Typed, PinFacts
  <2> QED
    BY <2>1, <2>2, <2>3, <1>15
<1>19. OneLoader'
  BY <1>1, <1>18 DEF TierInv, OneLoader, At, Blk
<1> QED
  BY <1>9, <1>12, <1>13, <1>14, <1>16, <1>17, <1>19 DEF TierInv

(* What a loading thread holds: the only borrow of its block.                *)
LEMMA LoaderHolds ==
  ASSUME TierInv, NEW t \in Threads, At(t) \in Loading
  PROVE  LET k == call[t].k
             b == Blk(t)
         IN  /\ k \in PinIds /\ b \in Blocks /\ pins[t][k] \in Borrow
             /\ pins[t][k] # NoPin /\ pins[t][k].use = "write" /\ pins[t][k].blk = b
             /\ MySlot(t) = pins[t][k].slot /\ MySlot(t) = pg.resident[b] /\ MySlot(t) \in Slots
             /\ state[b] = "loading" /\ IsResident(pg, b)
             /\ \A u \in Threads, j \in PinIds :
                  pins[u][j] # NoPin /\ pins[u][j].blk = b => u = t /\ j = k
<1>1. call[t].k \in PinIds /\ Blk(t) \in Blocks /\ PinsType
  BY Typed, CallFacts DEF Loading, Blk
<1>2. pins[t][call[t].k].use = "write" /\ pins[t][call[t].k].blk = Blk(t)
  BY DEF TierInv, CallsGood, CallGood
<1>3. pins[t][call[t].k] # NoPin
  BY <1>1, <1>2, PinFacts
<1>4. pins[t][call[t].k] \in Borrow
  BY <1>1, <1>3 DEF PinsType
<1>5. BorrowGood(t, call[t].k)
  BY <1>1, <1>3 DEF TierInv, BorrowsGood
<1>6. \A u \in Threads, j \in PinIds :
        pins[u][j] # NoPin /\ pins[u][j].blk = Blk(t) => u = t /\ j = call[t].k
  BY <1>1, <1>2, <1>3, SameSlotSameBlock
<1>7. MySlot(t) = pins[t][call[t].k].slot /\ MySlot(t) \in Slots
  BY <1>4 DEF MySlot, Borrow
<1>8. MySlot(t) = pg.resident[Blk(t)] /\ state[Blk(t)] = "loading"
  BY <1>2, <1>5, <1>7 DEF BorrowGood
<1>9. IsResident(pg, Blk(t))
  BY <1>7, <1>8, Typed DEF IsResident
<1> QED
  BY <1>1, <1>2, <1>3, <1>4, <1>6, <1>7, <1>8, <1>9

(* The bytes of a slot being loaded are nobody's.                            *)
LEMMA ReadStep ==
  ASSUME TierInv, NEW t \in Threads, ReadSucceeds(t) \/ ReadFails(t), tier' = tier
  PROVE  TierInv'
<1> DEFINE k == call[t].k
           b == Blk(t)
           s == MySlot(t)
<1>1. UNCHANGED <<pg, state, descs, missed, pins, exhausted>>
  BY DEF ReadSucceeds, ReadFails
<1>2. PICK to \in {"publish", "abandon"}, x \in {b, NoBlock} :
        Goto(t, "read", to) /\ arena' = [arena EXCEPT ![s] = x] /\ (to = "publish" => x = b)
  BY DEF ReadSucceeds, ReadFails
<1>3. /\ CallsType' /\ At(t) = "read" /\ call'[t].at = to
      /\ call'[t].blk = b /\ call'[t].k = k
      /\ \A u \in Threads : u # t => call'[u] = call[u]
  <2>1. "read" \in Locations /\ to \in Locations \cup {"idle"} /\ to # "idle"
    BY DEF Locations
  <2> QED
    BY <1>2, <2>1, Typed, GotoFacts DEF Blk
<1>4. At(t) \in Loading
  BY <1>3 DEF Loading
<1>5. /\ k \in PinIds /\ b \in Blocks /\ pins[t][k].use = "write" /\ pins[t][k].blk = b
      /\ s = pins[t][k].slot /\ s = pg.resident[b] /\ s \in Slots /\ state[b] = "loading"
  BY <1>4, LoaderHolds
<1> HIDE DEF k, b, s
<1>6. arena' \in [Slots -> Blocks \cup {NoBlock}]
      /\ arena'[s] = x /\ \A r \in Slots : r # s => arena'[r] = arena[r]
  BY <1>2, <1>5, Typed
<1>7. TypeOK'
  BY <1>1, <1>3, <1>6 DEF TierInv, TypeOK, CallsType
<1>8. Sound(pg)' /\ pg'.cur = 0 /\ PinsCounted' /\ StatesAgree'
  BY <1>1 DEF TierInv, PinsCounted, StatesAgree, Holders
<1>9. ReadyIsWhole'
  <2> SUFFICES ASSUME NEW c \in Blocks, state[c] = "ready"
               PROVE  arena'[pg.resident[c]] = c
    BY <1>1 DEF ReadyIsWhole
  <2>1. IsResident(pg, c) /\ pg.resident[c] \in Slots
    BY Typed DEF TierInv, StatesAgree, IsResident
  <2>2. pg.resident[c] # s
    BY <1>5, <2>1 DEF TierInv, Sound, SlotsDisjoint
  <2> QED
    BY <1>6, <2>1, <2>2 DEF TierInv, ReadyIsWhole
<1>10. BorrowsGood'
  BY <1>1, <1>2, <1>3, <1>4 DEF TierInv, BorrowsGood, BorrowGood, At, Blk, Loading, b, k
<1>11. CallsGood'
  <2> SUFFICES ASSUME NEW u \in Threads PROVE CallGood(u)'
    BY DEF CallsGood
  <2>1. CASE u = t
    BY <2>1, <1>1, <1>2, <1>3, <1>5, <1>6 DEF CallGood, At, Blk, Loading, Copying
  <2>2. CASE u # t
    <3>1. CallGood(u) /\ call'[u] = call[u]
      BY <2>2, <1>3 DEF TierInv, CallsGood
    <3>2. ASSUME At(u) = "publish" PROVE arena'[pins[u][call[u].k].slot] = pins[u][call[u].k].blk
      <4>1. At(u) \in Loading
        BY <3>2 DEF Loading
      <4>2. /\ call[u].k \in PinIds /\ Blk(u) \in Blocks
            /\ pins[u][call[u].k].blk = Blk(u) /\ IsResident(pg, Blk(u))
            /\ pins[u][call[u].k].slot = pg.resident[Blk(u)]
            /\ pins[u][call[u].k].slot \in Slots
        BY <4>1, LoaderHolds
      <4>3. Blk(u) # b
        BY <2>2, <1>4, <4>1 DEF TierInv, OneLoader, b
      <4>4. pins[u][call[u].k].slot # s
        BY <1>5, <4>2, <4>3 DEF TierInv, Sound, SlotsDisjoint
      <4>5. arena[pins[u][call[u].k].slot] = pins[u][call[u].k].blk
        BY <3>1, <3>2 DEF CallGood
      <4> QED
        BY <1>6, <4>2, <4>4, <4>5
    <3> QED
      BY <3>1, <3>2, <1>1 DEF CallGood, At, Blk
  <2> QED
    BY <2>1, <2>2
<1>12. OneLoader'
  BY <1>3, <1>4 DEF TierInv, OneLoader, At, Blk, b
<1> QED
  BY <1>7, <1>8, <1>9, <1>10, <1>11, <1>12 DEF TierInv

(* The load is done: its write borrow becomes a read borrow.                  *)
LEMMA PublishStep ==
  ASSUME TierInv, NEW t \in Threads, Publish(t), tier' = tier
  PROVE  TierInv'
<1> DEFINE k == call[t].k
           b == Blk(t)
           s == MySlot(t)
           h == [blk |-> b, slot |-> s, use |-> "read"]
<1>1. PICK to \in {"notify", "copyNew"} : Goto(t, "publish", to)
  BY DEF Publish
<1>2. /\ UNCHANGED <<pg, descs, missed, arena, exhausted>>
      /\ state' = [state EXCEPT ![b] = "ready"]
      /\ pins' = [pins EXCEPT ![t][k] = h]
  BY DEF Publish, Borrows
<1>3. /\ CallsType' /\ At(t) = "publish" /\ call'[t].at = to
      /\ call'[t].blk = b /\ call'[t].k = k
      /\ \A u \in Threads : u # t => call'[u] = call[u]
  <2>1. "publish" \in Locations /\ to \in Locations \cup {"idle"} /\ to # "idle"
    BY DEF Locations
  <2> QED
    BY <1>1, <2>1, Typed, GotoFacts DEF Blk
<1>4. At(t) \in Loading
  BY <1>3 DEF Loading
<1>5. /\ k \in PinIds /\ b \in Blocks /\ pins[t][k].blk = b /\ pins[t][k] # NoPin
      /\ s = pins[t][k].slot /\ s = pg.resident[b] /\ s \in Slots /\ IsResident(pg, b)
      /\ \A u \in Threads, j \in PinIds :
           pins[u][j] # NoPin /\ pins[u][j].blk = b => u = t /\ j = k
  BY <1>4, LoaderHolds
<1>6. arena[s] = b
  BY <1>3, <1>5 DEF TierInv, CallsGood, CallGood
<1>7. h \in Borrow /\ h.blk = b /\ h.slot = s /\ h.use = "read" /\ h # NoPin
  BY <1>5 DEF Borrow, NoPin
<1> HIDE DEF k, b, s, h
<1>8. PinsType' /\ \A u \in Threads, j \in PinIds :
                     pins'[u][j] = IF u = t /\ j = k THEN h ELSE pins[u][j]
  <2>1. PinsType /\ h \in Borrow \cup {NoPin}
    BY <1>7, Typed
  <2> QED
    BY <1>2, <1>5, <2>1, SetPin
<1>9. /\ state' \in [Blocks -> {"none", "loading", "ready"}] /\ state'[b] = "ready"
      /\ \A c \in Blocks : c # b => state'[c] = state[c]
  BY <1>2, <1>5, Typed
<1>10. TypeOK'
  BY <1>2, <1>3, <1>8, <1>9 DEF TierInv, TypeOK, CallsType, PinsType
<1>11. Sound(pg)' /\ pg'.cur = 0 /\ StatesAgree' /\ ReadyIsWhole'
  BY <1>2, <1>5, <1>6, <1>9 DEF TierInv, StatesAgree, ReadyIsWhole
<1>12. PinsCounted'
  <2> SUFFICES \A c \in Blocks : Holders(c)' = Holders(c)
    BY <1>2 DEF TierInv, PinsCounted
  <2> TAKE c \in Blocks
  <2>1. PinsType
    BY Typed
  <2>2. Holders(c)' = IF h.blk = c THEN Holders(c) \cup {<<t, k>>} ELSE Holders(c) \ {<<t, k>>}
    <3>1. pins' = [pins EXCEPT ![t][k] = h] /\ k \in PinIds
      BY <1>2, <1>5
    <3> QED
      BY <3>1, <2>1, HoldersAfter
  <2>3. <<t, k>> \in Holders(c) <=> b = c
    BY <1>5 DEF Holders
  <2> QED
    BY <2>2, <2>3, <1>7
<1>13. BorrowsGood'
  <2> SUFFICES ASSUME NEW u \in Threads, NEW j \in PinIds, pins'[u][j] # NoPin
               PROVE  BorrowGood(u, j)'
    BY DEF BorrowsGood
  <2>1. CASE u = t /\ j = k
    <3>1. pins'[u][j] = h
      BY <1>8, <2>1
    <3> QED
      BY <2>1, <3>1, <1>2, <1>5, <1>7, <1>9 DEF BorrowGood
  <2>2. CASE ~(u = t /\ j = k)
    <3>1. pins'[u][j] = pins[u][j] /\ BorrowGood(u, j)
      BY <2>2, <1>8 DEF TierInv, BorrowsGood
    <3>2. pins[u][j].blk \in Blocks /\ pins[u][j].blk # b
      BY <2>2, <3>1, <1>5, Typed, PinFacts
    <3>3. pins[u][j].use = "write" => u # t
      BY <2>2, <3>1 DEF BorrowGood, k
    <3> QED
      BY <3>1, <3>2, <3>3, <1>2, <1>3, <1>9 DEF BorrowGood, At, Blk
  <2> QED
    BY <2>1, <2>2
<1>14. CallsGood'
  <2> SUFFICES ASSUME NEW u \in Threads PROVE CallGood(u)'
    BY DEF CallsGood
  <2>1. CASE u = t
    <3>1. pins'[u][call'[u].k] = h
      BY <2>1, <1>3, <1>5, <1>8
    <3> QED
      BY <3>1, <2>1, <1>3, <1>7 DEF CallGood, At, Blk, Loading, Copying
  <2>2. CASE u # t
    <3>1. \A j \in PinIds : pins'[u][j] = pins[u][j]
      BY <2>2, <1>8
    <3>2. CallGood(u) /\ call'[u] = call[u]
      BY <2>2, <1>3 DEF TierInv, CallsGood
    <3>3. call[u] \in Call \/ call[u] = NoCall
      BY Typed DEF CallsType
    <3> QED
      BY <3>1, <3>2, <3>3, <1>2 DEF CallGood, At, Blk, Call, NoCall, Loading, Copying
  <2> QED
    BY <2>1, <2>2
<1>15. OneLoader'
  BY <1>3 DEF TierInv, OneLoader, At, Blk, Loading
<1> QED
  BY <1>10, <1>11, <1>12, <1>13, <1>14, <1>15 DEF TierInv

(* A read borrow is given back, by a thread that is done with it.            *)
LEMMA ReturnStep ==
  ASSUME TierInv, NEW t \in Threads, NEW k \in PinIds, pins[t][k].use = "read",
         pg' = Unpin(pg, pins[t][k].blk), pins' = [pins EXCEPT ![t][k] = NoPin],
         CallsType', \A u \in Threads : u # t => call'[u] = call[u],
         At(t) \in Copying \cup {"idle"}, call'[t].at \in {"idle", "notify"},
         UNCHANGED <<tier, state, descs, missed, arena, exhausted>>
  PROVE  TierInv'
<1> DEFINE b == pins[t][k].blk
<1>1. PinsType /\ pins[t][k] # NoPin /\ b \in Blocks
  BY Typed, PinFacts
<1>2. pg.pinned[b] > 0
  BY <1>1, Typed, HeldIsPinned DEF TierInv
<1>3. /\ pg' \in PagerType /\ pg'.resident = pg.resident /\ pg'.lru = pg.lru
      /\ pg'.free = pg.free /\ pg'.cur = pg.cur
      /\ pg'.pinned = [pg.pinned EXCEPT ![b] = @ - 1]
  BY <1>1, <1>2, Typed, UnpinKeeps
<1> HIDE DEF b
<1>4. PinsType' /\ \A u \in Threads, j \in PinIds :
                     pins'[u][j] = IF u = t /\ j = k THEN NoPin ELSE pins[u][j]
  <2>1. NoPin \in Borrow \cup {NoPin}
    OBVIOUS
  <2> QED
    BY <1>1, <2>1, SetPin
<1>5. PinsCounted'
  BY <1>1, <1>3, CountReturn, Typed DEF TierInv, b
<1>6. Sound(pg)' /\ pg'.cur = 0 /\ StatesAgree' /\ ReadyIsWhole'
  BY <1>3, SameWhereabouts DEF TierInv, StatesAgree, ReadyIsWhole, IsResident
<1>7. TypeOK'
  BY <1>3, <1>4 DEF TierInv, TypeOK, CallsType, PinsType
<1>8. BorrowsGood'
  <2> SUFFICES ASSUME NEW u \in Threads, NEW j \in PinIds, pins'[u][j] # NoPin
               PROVE  BorrowGood(u, j)'
    BY DEF BorrowsGood
  <2>1. pins'[u][j] = pins[u][j] /\ BorrowGood(u, j)
    BY <1>4 DEF TierInv, BorrowsGood
  <2>2. pins[u][j].use = "write" => u # t
    BY <2>1 DEF BorrowGood, Loading, Copying, At
  <2> QED
    BY <2>1, <2>2, <1>3 DEF BorrowGood, At, Blk
<1>9. CallsGood'
  <2> SUFFICES ASSUME NEW u \in Threads PROVE CallGood(u)'
    BY DEF CallsGood
  <2>1. CASE u = t
    BY <2>1 DEF CallGood, At, Loading, Copying
  <2>2. CASE u # t
    <3>1. \A j \in PinIds : pins'[u][j] = pins[u][j]
      BY <2>2, <1>4
    <3>2. CallGood(u) /\ call'[u] = call[u]
      BY <2>2 DEF TierInv, CallsGood
    <3>3. call[u] \in Call \/ call[u] = NoCall
      BY Typed DEF CallsType
    <3> QED
      BY <3>1, <3>2, <3>3 DEF CallGood, At, Blk, Call, NoCall, Loading, Copying
  <2> QED
    BY <2>1, <2>2
<1>10. OneLoader'
  BY DEF TierInv, OneLoader, At, Blk, Loading
<1> QED
  BY <1>5, <1>6, <1>7, <1>8, <1>9, <1>10 DEF TierInv

(* A failed load leaves nothing behind.                                      *)
LEMMA AbandonStep ==
  ASSUME TierInv, NEW t \in Threads, Abandon(t), tier' = tier
  PROVE  TierInv'
<1> DEFINE k == call[t].k
           b == Blk(t)
           q == Unpin(pg, b)
<1>1. /\ CallsType' /\ At(t) = "abandon" /\ call'[t].at = "notify"
      /\ \A u \in Threads : u # t => call'[u] = call[u]
  <2>1. "abandon" \in Locations /\ "notify" \in Locations \cup {"idle"}
    BY DEF Locations
  <2>2. Goto(t, "abandon", "notify")
    BY DEF Abandon
  <2> QED
    BY <2>1, <2>2, Typed, GotoFacts
<1>2. /\ UNCHANGED <<descs, missed, arena, exhausted>>
      /\ state' = [state EXCEPT ![b] = "none"]
      /\ pg' = Evict(q, b) /\ pins' = [pins EXCEPT ![t][k] = NoPin]
  BY DEF Abandon, Returns
<1>3. At(t) \in Loading
  BY <1>1 DEF Loading
<1>4. /\ k \in PinIds /\ b \in Blocks /\ pins[t][k].blk = b /\ pins[t][k] # NoPin
      /\ IsResident(pg, b)
      /\ \A u \in Threads, j \in PinIds :
           pins[u][j] # NoPin /\ pins[u][j].blk = b => u = t /\ j = k
  BY <1>3, LoaderHolds
<1>5. pg.pinned[b] > 0
  BY <1>4, Typed, HeldIsPinned DEF TierInv
<1>6. /\ q \in PagerType /\ q.resident = pg.resident /\ q.lru = pg.lru /\ q.free = pg.free
      /\ q.pinned = [pg.pinned EXCEPT ![b] = @ - 1] /\ q.cur = pg.cur
  <2>1. pg \in PagerType /\ b \in Blocks
    BY <1>4, Typed
  <2> QED
    BY <1>5, <2>1, UnpinKeeps
<1> HIDE DEF k, b, q
<1>7. Sound(q) /\ IsResident(q, b)
  BY <1>4, <1>6, Typed, SameWhereabouts DEF IsResident
<1>8. /\ Sound(pg') /\ pg'.cur = pg.cur
      /\ pg'.resident = [pg.resident EXCEPT ![b] = NoSlot]
      /\ pg'.pinned = [pg.pinned EXCEPT ![b] = @ - 1]
  <2>1. LET e == Evict(q, b)
        IN  /\ Sound(e) /\ e.resident = [q.resident EXCEPT ![b] = NoSlot]
            /\ e.pinned = q.pinned /\ e.cur = q.cur
    BY <1>4, <1>7, EvictSound
  <2> QED
    BY <1>2, <1>6, <2>1
<1>9. PinsType' /\ \A u \in Threads, j \in PinIds :
                     pins'[u][j] = IF u = t /\ j = k THEN NoPin ELSE pins[u][j]
  <2>1. PinsType /\ NoPin \in Borrow \cup {NoPin}
    BY Typed
  <2>2. k \in PinIds /\ pins' = [pins EXCEPT ![t][k] = NoPin]
    BY <1>2, <1>4
  <2> QED
    BY <2>1, <2>2, SetPin
<1>10. PinsCounted'
  BY <1>2, <1>4, <1>8, CountReturn, Typed DEF TierInv
<1>11. /\ state' \in [Blocks -> {"none", "loading", "ready"}]
       /\ \A c \in Blocks : /\ state'[c] = IF c = b THEN "none" ELSE state[c]
                            /\ pg'.resident[c] = IF c = b THEN NoSlot ELSE pg.resident[c]
  BY <1>2, <1>4, <1>8, Typed
<1>12. Sound(pg)' /\ pg'.cur = 0 /\ StatesAgree' /\ ReadyIsWhole'
  BY <1>2, <1>8, <1>11 DEF TierInv, StatesAgree, ReadyIsWhole, IsResident
<1>13. TypeOK'
  BY <1>1, <1>2, <1>9, <1>11, <1>12 DEF TierInv, TypeOK, CallsType, PinsType, Sound
<1>14. BorrowsGood'
  <2> SUFFICES ASSUME NEW u \in Threads, NEW j \in PinIds, pins'[u][j] # NoPin
               PROVE  BorrowGood(u, j)'
    BY DEF BorrowsGood
  <2>1. pins'[u][j] = pins[u][j] /\ BorrowGood(u, j) /\ ~(u = t /\ j = k)
    BY <1>9 DEF TierInv, BorrowsGood
  <2>2. pins[u][j].blk \in Blocks /\ pins[u][j].blk # b
    BY <2>1, <1>4, Typed, PinFacts
  <2>3. pins[u][j].use = "write" => u # t
    BY <2>1 DEF BorrowGood, k
  <2> QED
    BY <2>1, <2>2, <2>3, <1>1, <1>2, <1>11 DEF BorrowGood, At, Blk
<1>15. CallsGood'
  <2> SUFFICES ASSUME NEW u \in Threads PROVE CallGood(u)'
    BY DEF CallsGood
  <2>1. CASE u = t
    BY <2>1, <1>1 DEF CallGood, At, Loading, Copying
  <2>2. CASE u # t
    <3>1. \A j \in PinIds : pins'[u][j] = pins[u][j]
      BY <2>2, <1>9
    <3>2. CallGood(u) /\ call'[u] = call[u]
      BY <2>2, <1>1 DEF TierInv, CallsGood
    <3>3. call[u] \in Call \/ call[u] = NoCall
      BY Typed DEF CallsType
    <3> QED
      BY <3>1, <3>2, <3>3, <1>2 DEF CallGood, At, Blk, Call, NoCall, Loading, Copying
  <2> QED
    BY <2>1, <2>2
<1>16. OneLoader'
  BY <1>1 DEF TierInv, OneLoader, At, Blk, Loading
<1> QED
  BY <1>10, <1>12, <1>13, <1>14, <1>15, <1>16 DEF TierInv

(* A call moves between places where it loads and copies nothing.            *)
LEMMA MoveStep ==
  ASSUME TierInv, NEW t \in Threads, NEW from \in {"want", "wait", "stream"},
         NEW to \in {"idle", "want", "wait", "stream"}, Goto(t, from, to),
         to \in {"want", "wait"} => from \in {"want", "wait"},
         UNCHANGED <<tier, pg, state, arena, pins>>,
         descs' \in SUBSET Blocks, missed' \in SUBSET Blocks, exhausted' \in BOOLEAN
  PROVE  TierInv'
<1>1. /\ CallsType' /\ At(t) = from /\ call'[t].at = to
      /\ to # "idle" => call'[t].k = call[t].k
      /\ \A u \in Threads : u # t => call'[u] = call[u]
  <2>1. from \in Locations /\ to \in Locations \cup {"idle"}
    BY DEF Locations
  <2> QED
    BY <2>1, Typed, GotoFacts
<1>2. to \in {"want", "wait"} => pins[t][call'[t].k] = NoPin
  BY <1>1 DEF TierInv, CallsGood, CallGood
<1> QED
  BY <1>1, <1>2, QuietStep DEF Quiet

LEMMA EnterStep ==
  ASSUME TierInv, tier' = tier, NEW t \in Threads, NEW op \in {"pin", "fill", "try_pin"},
         NEW b \in Blocks, NEW insert \in InsertPolicies, Enter(t, op, b, insert)
  PROVE  TierInv'
<1> DEFINE unused == {k \in 1 .. tier.pins : pins[t][k] = NoPin}
           k == CHOOSE i \in unused : \A j \in unused : i <= j
           c == [at |-> "want", op |-> op, blk |-> b, insert |-> insert, k |-> k]
<1>1. /\ At(t) = "idle" /\ call' = [call EXCEPT ![t] = c] /\ unused # {}
      /\ UNCHANGED <<pg, state, descs, missed, arena, pins, exhausted>>
  BY DEF Enter
<1>2. k \in unused
  <2>1. unused \in SUBSET Nat
    OBVIOUS
  <2>2. \E i \in unused : \A j \in unused : i <= j
    BY <1>1, <2>1, LeastExists
  <2> HIDE DEF unused
  <2> QED
    BY <2>2
<1>3. tier.pins \in 1 .. MaxPins
  BY TiersAreTiers DEF TierInv, TypeOK, Tier
<1>4. k \in PinIds /\ pins[t][k] = NoPin
  BY <1>2, <1>3, MaxPinsPositive DEF PinIds
<1> HIDE DEF k
<1>5. c \in Call /\ c.at = "want" /\ c.k = k
  BY <1>4 DEF Call, Locations
<1> HIDE DEF c
<1>6. /\ CallsType' /\ call'[t] = c
      /\ \A u \in Threads : u # t => call'[u] = call[u]
  BY <1>1, <1>5, Typed DEF CallsType
<1>7. descs' \in SUBSET Blocks /\ missed' \in SUBSET Blocks /\ exhausted' \in BOOLEAN
  BY <1>1 DEF TierInv, TypeOK
<1>8. \A u \in Threads :
        \/ call'[u] = call[u]
        \/ /\ At(u) \in Quiet /\ call'[u].at \in Quiet
           /\ call'[u].at \in {"want", "wait"} => pins[u][call'[u].k] = NoPin
  BY <1>1, <1>4, <1>5, <1>6 DEF Quiet
<1> QED
  BY <1>1, <1>6, <1>7, <1>8, QuietStep

LEMMA NotifyStep ==
  ASSUME TierInv, tier' = tier, NEW t \in Threads, Notify(t)
  PROVE  TierInv'
<1>1. /\ At(t) = "notify" /\ UNCHANGED <<pg, state, descs, missed, arena, pins, exhausted>>
      /\ call' = [u \in Threads |-> IF u = t THEN NoCall
                                    ELSE IF At(u) = "wait" THEN [call[u] EXCEPT !.at = "want"]
                                    ELSE call[u]]
  BY DEF Notify
<1>2. \A u \in Threads : At(u) = "wait" =>
        /\ [call[u] EXCEPT !.at = "want"] \in Call
        /\ [call[u] EXCEPT !.at = "want"].at = "want"
        /\ [call[u] EXCEPT !.at = "want"].k = call[u].k
  BY Typed, CallFacts DEF Call, Locations
<1>3. CallsType'
  <2>1. \A u \in Threads : call[u] \in Call \cup {NoCall}
    BY Typed DEF CallsType
  <2> QED
    BY <1>1, <1>2, <2>1 DEF CallsType
<1>4. \A u \in Threads : At(u) = "wait" => pins[u][call[u].k] = NoPin
  BY DEF TierInv, CallsGood, CallGood
<1>5. \A u \in Threads :
        \/ call'[u] = call[u]
        \/ /\ At(u) \in Quiet /\ call'[u].at \in Quiet
           /\ call'[u].at \in {"want", "wait"} => pins[u][call'[u].k] = NoPin
  <2> TAKE u \in Threads
  <2>1. CASE u = t
    BY <2>1, <1>1 DEF Quiet, NoCall
  <2>2. CASE u # t /\ At(u) = "wait"
    <3>1. call'[u].at = "want" /\ call'[u].k = call[u].k
      BY <2>2, <1>1, <1>2
    <3> QED
      BY <2>2, <3>1, <1>4 DEF Quiet
  <2>3. CASE u # t /\ At(u) # "wait"
    BY <2>3, <1>1
  <2> QED
    BY <2>1, <2>2, <2>3
<1>6. descs' \in SUBSET Blocks /\ missed' \in SUBSET Blocks /\ exhausted' \in BOOLEAN
  BY <1>1 DEF TierInv, TypeOK
<1> QED
  BY <1>1, <1>3, <1>5, <1>6, QuietStep

LEMMA HitStep ==
  ASSUME TierInv, tier' = tier, NEW t \in Threads, Hit(t)
  PROVE  TierInv'
<1> DEFINE b == Blk(t)
           q == PinIfResident(pg, b)
<1>1. PICK to \in {"idle", "copyHit"} : Goto(t, "want", to)
  BY DEF Hit
<1>2. /\ At(t) = "want" /\ state[b] = "ready" /\ IsResident(pg, b) /\ pg' = q
      /\ Borrows(t, pg.resident[b], "read")
      /\ UNCHANGED <<state, descs, missed, arena, exhausted>>
  BY DEF Hit, Admissible
<1>3. b \in Blocks
  BY <1>2, Typed, CallFacts DEF Blk
<1>4. /\ q \in PagerType /\ q.resident = pg.resident /\ q.lru = pg.lru
      /\ q.free = pg.free /\ q.cur = pg.cur
      /\ q.pinned = [pg.pinned EXCEPT ![b] = @ + 1]
  <2> DEFINE s == Stamped(pg, b)
  <2>1. /\ s \in PagerType /\ s.resident = pg.resident /\ s.lru = pg.lru
        /\ s.free = pg.free /\ s.pinned = pg.pinned /\ s.cur = pg.cur
    BY <1>3, Typed, StampKeeps
  <2>2. q = Pin(s, b)
    BY DEF PinIfResident
  <2> HIDE DEF s, b, q
  <2>3. LET x == Pin(s, b)
        IN  /\ x \in PagerType /\ x.resident = s.resident /\ x.lru = s.lru
            /\ x.free = s.free /\ x.cur = s.cur /\ x.pinned = [s.pinned EXCEPT ![b] = @ + 1]
    BY <1>3, <2>1, PinKeeps
  <2> QED
    BY <2>1, <2>2, <2>3
<1> HIDE DEF q
<1> QED
  BY <1>1, <1>2, <1>4, LendStep

LEMMA TryPinStep ==
  ASSUME TierInv, tier' = tier, NEW t \in Threads, TryPin(t)
  PROVE  TierInv'
<1> DEFINE b == Blk(t)
           q == Repin(pg, b)
<1>1. /\ Goto(t, "want", "idle") /\ At(t) = "want"
      /\ UNCHANGED <<state, descs, missed, arena, exhausted>>
  BY DEF TryPin, Goto
<1>2. b \in Blocks
  BY <1>1, Typed, CallFacts DEF Blk
<1>3. CASE state[b] = "ready" /\ IsResident(pg, b) /\ pg' = q
           /\ Borrows(t, pg.resident[b], "read")
  <2>1. /\ q \in PagerType /\ q.resident = pg.resident /\ q.lru = pg.lru
        /\ q.free = pg.free /\ q.cur = pg.cur
        /\ q.pinned = [pg.pinned EXCEPT ![b] = @ + 1]
    <3>1. pg \in PagerType
      BY Typed
    <3>2. q = Pin(pg, b)
      BY DEF Repin
    <3> HIDE DEF b, q
    <3>3. LET x == Pin(pg, b)
          IN  /\ x \in PagerType /\ x.resident = pg.resident /\ x.lru = pg.lru
              /\ x.free = pg.free /\ x.cur = pg.cur /\ x.pinned = [pg.pinned EXCEPT ![b] = @ + 1]
      BY <1>2, <3>1, PinKeeps
    <3> QED
      BY <3>2, <3>3
  <2> HIDE DEF q
  <2> QED
    BY <1>1, <1>3, <2>1, LendStep
<1>4. CASE UNCHANGED <<pg, pins>>
  <2>1. descs' \in SUBSET Blocks /\ missed' \in SUBSET Blocks /\ exhausted' \in BOOLEAN
    BY <1>1 DEF TierInv, TypeOK
  <2> QED
    BY <1>1, <1>4, <2>1, MoveStep
<1> QED
  BY <1>3, <1>4 DEF TryPin

LEMMA ProceedStep ==
  ASSUME TierInv, tier' = tier, NEW t \in Threads, Proceed(t)
  PROVE  TierInv'
<1>0. TypeOK
  BY DEF TierInv
<1>1. CASE Refused(t)
  <2>1. /\ Goto(t, "want", "idle")
        /\ UNCHANGED <<pg, state, descs, missed, arena, pins, exhausted>>
    BY <1>1 DEF Refused
  <2> QED
    BY <1>0, <2>1, MoveStep DEF TypeOK
<1>2. CASE Hit(t)
  BY <1>2, HitStep
<1>3. CASE Wait(t)
  <2>1. /\ Goto(t, "want", "wait")
        /\ UNCHANGED <<pg, state, descs, missed, arena, pins, exhausted>>
    BY <1>3 DEF Wait
  <2> QED
    BY <1>0, <2>1, MoveStep DEF TypeOK
<1>4. CASE ClaimForPin(t)
  BY <1>4, ClaimStep DEF ClaimForPin, Admissible
<1>5. CASE Exhausted(t)
  <2>1. /\ Goto(t, "want", "idle") /\ exhausted' = TRUE
        /\ UNCHANGED <<pg, state, descs, missed, arena, pins>>
    BY <1>5 DEF Exhausted
  <2> QED
    BY <1>0, <2>1, MoveStep DEF TypeOK
<1>6. CASE ClaimForFill(t)
  BY <1>6, ClaimStep DEF ClaimForFill, Admissible
<1>7. CASE Stream(t)
  <2>1. /\ Goto(t, "want", "stream") /\ At(t) = "want"
        /\ missed' = missed \/ missed' = missed \cup {Blk(t)}
        /\ UNCHANGED <<pg, state, descs, arena, pins, exhausted>>
    BY <1>7 DEF Stream, Goto
  <2>2. Blk(t) \in Blocks
    BY <2>1, Typed, CallFacts DEF Blk
  <2>3. missed' \in SUBSET Blocks
    BY <1>0, <2>1, <2>2 DEF TypeOK
  <2> QED
    BY <1>0, <2>1, <2>3, MoveStep DEF TypeOK
<1>8. CASE StreamEnds(t)
  <2>1. /\ Goto(t, "stream", "idle")
        /\ UNCHANGED <<pg, state, descs, missed, arena, pins, exhausted>>
    BY <1>8 DEF StreamEnds
  <2> QED
    BY <1>0, <2>1, MoveStep DEF TypeOK
<1>9. CASE ReadSucceeds(t) \/ ReadFails(t)
  BY <1>9, ReadStep
<1>10. CASE Publish(t)
  BY <1>10, PublishStep
<1>11. CASE Abandon(t)
  BY <1>11, AbandonStep
<1>12. CASE Copied(t)
  <2>1. PICK from \in Copying, to \in {"idle", "notify"} : Goto(t, from, to)
    BY <1>12 DEF Copied, Copying
  <2>2. /\ CallsType' /\ At(t) = from /\ call'[t].at = to /\ call[t].k \in PinIds
        /\ \A u \in Threads : u # t => call'[u] = call[u]
    <3>1. from \in Locations /\ to \in Locations \cup {"idle"}
      BY DEF Locations, Copying
    <3> QED
      BY <2>1, <3>1, Typed, GotoFacts
  <2>3. pins[t][call[t].k].use = "read" /\ pins[t][call[t].k].blk = Blk(t)
    BY <2>2 DEF TierInv, CallsGood, CallGood
  <2>4. /\ pg' = Unpin(pg, Blk(t)) /\ pins' = [pins EXCEPT ![t][call[t].k] = NoPin]
        /\ UNCHANGED <<state, descs, missed, arena, exhausted>>
    BY <1>12 DEF Copied, Returns
  <2> QED
    BY <2>2, <2>3, <2>4, ReturnStep
<1>13. CASE Notify(t)
  BY <1>13, NotifyStep
<1>14. CASE TryPin(t)
  BY <1>14, TryPinStep
<1> QED
  BY <1>1, <1>2, <1>3, <1>4, <1>5, <1>6, <1>7, <1>8, <1>9, <1>10, <1>11, <1>12, <1>13, <1>14
     DEF Proceed

LEMMA TierStep == TierInv /\ [Next]_vars => TierInv'
<1> SUFFICES ASSUME TierInv, [Next]_vars PROVE TierInv'
  OBVIOUS
<1>0. TypeOK
  BY DEF TierInv
<1>1. CASE UNCHANGED vars
  <2>1. /\ UNCHANGED <<tier, pg, state, arena, pins>>
        /\ UNCHANGED <<descs, missed, exhausted, call>>
    BY <1>1 DEF vars
  <2>2. CallsType'
    BY <1>0, <2>1 DEF TypeOK, CallsType
  <2> QED
    BY <1>0, <2>1, <2>2, QuietStep DEF TypeOK
<1>2. ASSUME NEW b \in Blocks, Register(b), tier' = tier PROVE TierInv'
  <2>1. /\ descs' = descs \cup {b}
        /\ UNCHANGED <<pg, state, missed, arena, call, pins, exhausted>>
    BY <1>2 DEF Register
  <2>2. CallsType'
    BY <1>0, <2>1 DEF TypeOK, CallsType
  <2> QED
    BY <1>0, <1>2, <2>1, <2>2, QuietStep DEF TypeOK
<1>3. ASSUME NEW t \in Threads, SpuriousWake(t), tier' = tier PROVE TierInv'
  <2>1. /\ Goto(t, "wait", "want")
        /\ UNCHANGED <<pg, state, descs, missed, arena, pins, exhausted>>
    BY <1>3 DEF SpuriousWake
  <2> QED
    BY <1>0, <1>3, <2>1, MoveStep DEF TypeOK
<1>4. ASSUME NEW t \in Threads, NEW k \in PinIds, DropPin(t, k), tier' = tier PROVE TierInv'
  <2>1. /\ At(t) = "idle" /\ pins[t][k] # NoPin
        /\ pg' = Unpin(pg, pins[t][k].blk) /\ pins' = [pins EXCEPT ![t][k] = NoPin]
        /\ UNCHANGED <<state, descs, missed, arena, call, exhausted>>
    BY <1>4 DEF DropPin
  <2>2. pins[t][k].use = "read"
    <3>1. pins[t][k].use \in {"read", "write"} /\ BorrowGood(t, k)
      BY <2>1, Typed, PinFacts DEF TierInv, BorrowsGood
    <3> QED
      BY <2>1, <3>1 DEF BorrowGood, Loading
  <2>3. CallsType' /\ call'[t].at = "idle"
    BY <1>0, <2>1 DEF TypeOK, CallsType, At
  <2> QED
    BY <1>4, <2>1, <2>2, <2>3, ReturnStep
<1> QED
  BY <1>1, <1>2, <1>3, <1>4, EnterStep, ProceedStep DEF Next, Step

-----------------------------------------------------------------------------
LEMMA TierAlways == Spec => []TierInv
BY InitTier, TierStep, PTL DEF Spec

(* The pager, the state map and the borrows agree in every reachable state:    *)
(* no pin is leaked or dropped twice on any path of pin, fill and try_pin, and   *)
(* no slot is lost.                                                         *)
THEOREM TierBooksAgree == Spec => []BookkeepingAgrees
<1>1. TierInv => BookkeepingAgrees
  <2> SUFFICES ASSUME TierInv PROVE BookkeepingAgrees
    OBVIOUS
  <2>1. Len(pg.free) + Cardinality(ResidentBlocks(pg)) = NSlots
    <3>1. /\ IsFiniteSet(ResidentBlocks(pg))
          /\ Len(pg.free) + Cardinality(ResidentBlocks(pg)) + 0 = NSlots
      BY DEF TierInv, Sound, AllBut
    <3>2. Len(pg.free) \in Nat /\ Cardinality(ResidentBlocks(pg)) \in Nat
      <4>1. pg.free \in Seq(Slots)
        BY Typed, FieldsType
      <4> QED
        BY <3>1, <4>1, FS_CardinalityType
    <3> QED
      BY <3>1, <3>2
  <2> QED
    BY <2>1 DEF TierInv, BookkeepingAgrees, PinsCounted, StatesAgree
<1> QED
  BY <1>1, TierAlways, PTL

(* hostpager.rs, Soundness: for any byte of the arena at most one writer and no *)
(* concurrent reader.                                                       *)
THEOREM SlicesNeverAlias == Spec => []NoDataRace
<1>1. TierInv => NoDataRace
  <2> SUFFICES ASSUME TierInv, NEW s \in Slots
               PROVE  /\ Writers(s) # {} => Readers(s) = {}
                      /\ Cardinality(Writers(s)) <= 1
    BY DEF NoDataRace
  <2>1. ASSUME NEW t \in Threads, NEW k \in PinIds, NEW u \in Threads, NEW j \in PinIds,
               pins[t][k].use = "write", pins[t][k].slot = s,
               pins[u][j].use \in {"read", "write"}, pins[u][j].slot = s
        PROVE  u = t /\ j = k
    <3>1. pins[t][k] # NoPin /\ pins[u][j] # NoPin
      BY <2>1, Typed, PinFacts
    <3> QED
      BY <2>1, <3>1, SameSlotSameBlock
  <2>2. ASSUME Writers(s) # {}, Readers(s) # {} PROVE FALSE
    <3>1. PICK t \in Threads, k \in PinIds : pins[t][k].use = "write" /\ pins[t][k].slot = s
      BY <2>2 DEF Writers
    <3>2. PICK u \in Threads, j \in PinIds : pins[u][j].use = "read" /\ pins[u][j].slot = s
      BY <2>2 DEF Readers
    <3>3. u = t /\ j = k
      BY <2>1, <3>1, <3>2
    <3> QED
      BY <3>1, <3>2, <3>3
  <2>3. CASE Writers(s) = {}
    BY <2>3, FS_EmptySet
  <2>4. CASE Writers(s) # {}
    <3>1. PICK t \in Threads, k \in PinIds : pins[t][k].use = "write" /\ pins[t][k].slot = s
      BY <2>4 DEF Writers
    <3>2. Writers(s) = {t}
      BY <2>1, <3>1 DEF Writers
    <3>3. Cardinality(Writers(s)) = 1
      BY <3>2, FS_Singleton
    <3> QED
      BY <2>2, <2>4, <3>3
  <2> QED
    BY <2>3, <2>4
<1> QED
  BY <1>1, TierAlways, PTL

-----------------------------------------------------------------------------
(* What a caller sees of its borrows.                                        *)
Seen == [t \in Threads |-> [k \in PinIds |-> LeaseOf(t, k)]]

NothingSeen == [blk |-> NoBlock, bytes |-> NoBlock]
BlockSeen(b) == [blk |-> b, bytes |-> b]
SeenIn(h) == IF h.use = "read" THEN BlockSeen(h.blk) ELSE NothingSeen

LEMMA SeesWholeBlocks ==
  TierInv => Seen = [t \in Threads |-> [k \in PinIds |-> SeenIn(pins[t][k])]]
<1> SUFFICES ASSUME TierInv, NEW t \in Threads, NEW k \in PinIds
             PROVE  LeaseOf(t, k) = SeenIn(pins[t][k])
  BY DEF Seen
<1>1. CASE pins[t][k].use = "read"
  <2>1. pins[t][k] # NoPin /\ pins[t][k].blk \in Blocks
    BY <1>1, Typed, PinFacts
  <2>2. BorrowGood(t, k)
    BY <2>1 DEF TierInv, BorrowsGood
  <2>3. arena[pins[t][k].slot] = pins[t][k].blk
    BY <1>1, <2>1, <2>2 DEF BorrowGood, TierInv, ReadyIsWhole
  <2> QED
    BY <1>1, <2>3 DEF LeaseOf, BlockSeen, SeenIn
<1>2. CASE pins[t][k].use # "read"
  BY <1>2 DEF LeaseOf, NothingSeen, SeenIn
<1> QED
  BY <1>1, <1>2

(* A step that changes what one borrow is used for lends that block, or ends   *)
(* that lease, and changes nothing that anybody else sees.                   *)
LEMMA OneLeaseChanges ==
  ASSUME PinsType, NEW t \in Threads, NEW k \in PinIds, NEW h \in Borrow \cup {NoPin},
         h.use = "read" => pins[t][k].use # "read" /\ h.blk \in Blocks,
         Seen = [u \in Threads |-> [j \in PinIds |-> SeenIn(pins[u][j])]],
         Seen' = [u \in Threads |-> [j \in PinIds |-> SeenIn([pins EXCEPT ![t][k] = h][u][j])]]
  PROVE  [Leases!Next]_Seen
<1>1. Seen' = [Seen EXCEPT ![t][k] = SeenIn(h)]
  BY DEF PinsType
<1>2. Seen[t][k] = SeenIn(pins[t][k])
  OBVIOUS
<1>3. CASE h.use = "read"
  <2>1. Seen[t][k] = NothingSeen /\ SeenIn(h) = BlockSeen(h.blk)
    BY <1>2, <1>3 DEF SeenIn
  <2>2. Leases!Lend(t, k, h.blk)
    BY <1>1, <2>1 DEF Leases!Lend, Leases!NoLease, Leases!Lent, NothingSeen, BlockSeen, Seen
  <2> QED
    BY <2>2, <1>3 DEF Leases!Next
<1>4. CASE h.use # "read" /\ pins[t][k].use = "read"
  <2>1. pins[t][k].blk \in Blocks
    BY <1>4, PinFacts
  <2>2. Seen[t][k] # NothingSeen /\ SeenIn(h) = NothingSeen
    BY <1>2, <1>4, <2>1, NoBlockIsNoBlock DEF SeenIn, NothingSeen, BlockSeen
  <2>3. Leases!Return(t, k)
    BY <1>1, <2>2 DEF Leases!Return, Leases!NoLease, NothingSeen, Seen
  <2> QED
    BY <2>3 DEF Leases!Next
<1>5. CASE h.use # "read" /\ pins[t][k].use # "read"
  <2>1. Seen[t][k] = SeenIn(h)
    BY <1>2, <1>5 DEF SeenIn
  <2> QED
    BY <1>1, <2>1
<1> QED
  BY <1>3, <1>4, <1>5

(* Every step changes at most one borrow: it is dropped, or it is that of the   *)
(* call the thread is in, and it becomes readable only if it was not.          *)
OneBorrowChanges ==
  \/ pins' = pins
  \/ \E t \in Threads, k \in PinIds, h \in Borrow \cup {NoPin} :
       /\ pins' = [pins EXCEPT ![t][k] = h]
       /\ h.use = "read" => pins[t][k].use # "read" /\ h.blk \in Blocks
       /\ h = NoPin \/ (At(t) # "idle" /\ k = call[t].k)

LEMMA BorrowChanges ==
  ASSUME TierInv, NEW t \in Threads, At(t) \in {"want", "publish"},
         NEW slot \in Slots, NEW use \in {"read", "write"}, Borrows(t, slot, use)
  PROVE  OneBorrowChanges
<1> DEFINE k == call[t].k
           h == [blk |-> Blk(t), slot |-> slot, use |-> use]
<1>1. k \in PinIds /\ Blk(t) \in Blocks
  BY Typed, CallFacts DEF Blk
<1>2. pins[t][k].use # "read"
  BY DEF TierInv, CallsGood, CallGood, Loading, NoPin
<1>3. h \in Borrow /\ h.blk = Blk(t) /\ pins' = [pins EXCEPT ![t][k] = h]
  BY <1>1 DEF Borrow, Borrows
<1>4. At(t) # "idle" /\ k = call[t].k /\ h \in Borrow \cup {NoPin}
  BY <1>3
<1> HIDE DEF h, k
<1>5. /\ pins' = [pins EXCEPT ![t][k] = h]
      /\ h.use = "read" => pins[t][k].use # "read" /\ h.blk \in Blocks
      /\ h = NoPin \/ (At(t) # "idle" /\ k = call[t].k)
  BY <1>1, <1>2, <1>3, <1>4 DEF k
<1> QED
  BY <1>1, <1>4, <1>5, Zenon DEF OneBorrowChanges

LEMMA ReturnChanges ==
  ASSUME NEW t \in Threads, NEW k \in PinIds, pins' = [pins EXCEPT ![t][k] = NoPin]
  PROVE  OneBorrowChanges
<1>1. NoPin.use # "read"
  BY DEF NoPin
<1> QED
  BY <1>1 DEF OneBorrowChanges

LEMMA ChangesOneByOne == TierInv /\ [Next]_vars => OneBorrowChanges
<1> SUFFICES ASSUME TierInv, [Next]_vars, pins' # pins PROVE OneBorrowChanges
  BY DEF OneBorrowChanges
<1>1. ASSUME NEW t \in Threads, Hit(t) \/ TryPin(t) PROVE OneBorrowChanges
  <2>1. /\ At(t) = "want" /\ IsResident(pg, Blk(t))
        /\ Borrows(t, pg.resident[Blk(t)], "read")
    BY <1>1 DEF Hit, TryPin, Admissible, Goto
  <2>2. pg.resident[Blk(t)] \in Slots
    <3>1. Blk(t) \in Blocks
      BY <2>1, Typed, CallFacts DEF Blk
    <3> QED
      BY <2>1, <3>1, Typed DEF IsResident
  <2> QED
    BY <2>1, <2>2, BorrowChanges
<1>2. ASSUME NEW t \in Threads, At(t) = "want", Claim(t) PROVE OneBorrowChanges
  <2> DEFINE m == MissAndPin(pg, Blk(t), call[t].insert)
  <2>1. Blk(t) \in Blocks
    BY <1>2, Typed, CallFacts DEF Blk
  <2>2. ~IsResident(pg, Blk(t)) /\ CanTakeSlot(pg) /\ Sound(pg)
    BY <1>2, <2>1 DEF TierInv, StatesAgree, Claim
  <2>3. m.slot \in Slots
    BY <2>1, <2>2, MissAndPinSound
  <2>4. Borrows(t, m.slot, "write")
    BY <1>2 DEF Claim
  <2> HIDE DEF m
  <2> QED
    BY <1>2, <2>3, <2>4, BorrowChanges
<1>3. ASSUME NEW t \in Threads, Publish(t) PROVE OneBorrowChanges
  <2>1. At(t) = "publish" /\ Borrows(t, MySlot(t), "read")
    BY <1>3 DEF Publish, Goto
  <2>2. MySlot(t) \in Slots
    BY <2>1, LoaderHolds DEF Loading
  <2> QED
    BY <2>1, <2>2, BorrowChanges
<1>4. ASSUME NEW t \in Threads, Abandon(t) \/ Copied(t) PROVE OneBorrowChanges
  <2>1. At(t) # "idle" /\ Returns(t)
    BY <1>4 DEF Abandon, Copied, Goto
  <2>2. call[t].k \in PinIds
    BY <2>1, Typed, CallFacts
  <2> QED
    BY <2>1, <2>2, ReturnChanges DEF Returns
<1>5. ASSUME NEW t \in Threads, Proceed(t) PROVE OneBorrowChanges
  BY <1>1, <1>2, <1>3, <1>4, <1>5
     DEF Proceed, Refused, Wait, ClaimForPin, ClaimForFill, Exhausted, Stream, StreamEnds,
         ReadSucceeds, ReadFails, Notify, Admissible
<1>6. ASSUME NEW t \in Threads, NEW k \in PinIds, DropPin(t, k) PROVE OneBorrowChanges
  BY <1>6, ReturnChanges DEF DropPin
<1> QED
  BY <1>5, <1>6 DEF Next, Step, vars, Register, Enter, SpuriousWake

LEMMA LeaseStep == TierInv /\ TierInv' /\ [Next]_vars => [Leases!Next]_Seen
<1> SUFFICES ASSUME TierInv, TierInv', [Next]_vars PROVE [Leases!Next]_Seen
  OBVIOUS
<1>1. Seen = [t \in Threads |-> [k \in PinIds |-> SeenIn(pins[t][k])]]
  BY SeesWholeBlocks
<1>2. (TierInv => Seen = [t \in Threads |-> [k \in PinIds |-> SeenIn(pins[t][k])]])'
  BY SeesWholeBlocks, PTL
<1>3. Seen' = [t \in Threads |-> [k \in PinIds |-> SeenIn(pins'[t][k])]]
  BY <1>2 DEF SeenIn
<1>4. OneBorrowChanges
  BY ChangesOneByOne
<1>5. CASE pins' = pins
  BY <1>1, <1>3, <1>5
<1>6. ASSUME NEW t \in Threads, NEW k \in PinIds, NEW h \in Borrow \cup {NoPin},
             pins' = [pins EXCEPT ![t][k] = h],
             h.use = "read" => pins[t][k].use # "read" /\ h.blk \in Blocks
      PROVE  [Leases!Next]_Seen
  <2>1. PinsType
    BY Typed
  <2>2. Seen' = [u \in Threads |-> [j \in PinIds |-> SeenIn([pins EXCEPT ![t][k] = h][u][j])]]
    BY <1>3, <1>6
  <2> QED
    BY <1>1, <1>6, <2>1, <2>2, OneLeaseChanges
<1> QED
  BY <1>4, <1>5, <1>6 DEF OneBorrowChanges

(* A borrower sees its block, whole, from the moment the Pin is handed out      *)
(* until it is dropped: the tier implements the library of leases.            *)
THEOREM LendsWholeBlocks == Spec => ImplementsLeases
<1>1. Init => Leases!Init
  BY DEF Init, Leases!Init, Leases!NoLease, LeaseOf, NoPin
<1>2. TierInv /\ TierInv' /\ [Next]_vars => [Leases!Next]_Seen
  BY LeaseStep
<1> QED
  BY <1>1, <1>2, TierAlways, PTL DEF Spec, ImplementsLeases, Leases!Spec, Seen

-----------------------------------------------------------------------------
(* Only the threads the tier is made for call it, with the pins they may hold.  *)
MayHold == tier.threads \X (1 .. tier.pins)

WithinTier ==
  /\ \A t \in Threads, k \in PinIds : pins[t][k] # NoPin => <<t, k>> \in MayHold
  /\ \A t \in Threads : At(t) # "idle" => <<t, call[t].k>> \in MayHold

LEMMA TierTyped ==
  ASSUME TypeOK
  PROVE  /\ tier.threads \in SUBSET Threads /\ tier.pins \in Nat
         /\ 1 .. tier.pins \subseteq PinIds
BY TiersAreTiers, MaxPinsPositive DEF TypeOK, Tier, PinIds

(* A call begins for a caller of the tier, and goes on with its own pin.       *)
LEMMA CallsChange ==
  ASSUME TierInv, [Next]_vars, NEW u \in Threads
  PROVE  \/ call'[u] = call[u]
         \/ call'[u].at = "idle"
         \/ At(u) # "idle" /\ call'[u].k = call[u].k
         \/ <<u, call'[u].k>> \in MayHold
<1> DEFINE Fine == \/ call'[u] = call[u]
                   \/ call'[u].at = "idle"
                   \/ At(u) # "idle" /\ call'[u].k = call[u].k
                   \/ <<u, call'[u].k>> \in MayHold
<1>1. ASSUME NEW t \in Threads, NEW from \in Locations, NEW to \in Locations \cup {"idle"},
             Goto(t, from, to)
      PROVE  Fine
  <2>1. /\ At(t) = from /\ call'[t].at = to /\ from # "idle"
        /\ to # "idle" => call'[t].k = call[t].k
        /\ \A v \in Threads : v # t => call'[v] = call[v]
    BY <1>1, Typed, GotoFacts DEF Locations
  <2> QED
    BY <2>1
<1>2. ASSUME NEW t \in Threads, Notify(t) PROVE Fine
  <2>1. call' = [v \in Threads |-> IF v = t THEN NoCall
                                   ELSE IF At(v) = "wait" THEN [call[v] EXCEPT !.at = "want"]
                                   ELSE call[v]]
    BY <1>2 DEF Notify
  <2>2. At(u) = "wait" => [call[u] EXCEPT !.at = "want"].k = call[u].k
    BY Typed, CallFacts DEF Call
  <2> QED
    BY <2>1, <2>2 DEF NoCall
<1>3. ASSUME NEW t \in Threads, NEW op \in {"pin", "fill", "try_pin"}, NEW b \in Blocks,
             NEW insert \in InsertPolicies, Enter(t, op, b, insert)
      PROVE  Fine
  <2> DEFINE unused == {k \in 1 .. tier.pins : pins[t][k] = NoPin}
             k == CHOOSE i \in unused : \A j \in unused : i <= j
             c == [at |-> "want", op |-> op, blk |-> b, insert |-> insert, k |-> k]
  <2>1. t \in tier.threads /\ unused # {} /\ call' = [call EXCEPT ![t] = c]
    BY <1>3 DEF Enter
  <2>2. k \in unused
    <3>1. unused \in SUBSET Nat
      OBVIOUS
    <3>2. \E i \in unused : \A j \in unused : i <= j
      BY <2>1, <3>1, LeastExists
    <3> HIDE DEF unused
    <3> QED
      BY <3>2
  <2>3. c.k = k
    OBVIOUS
  <2>5. k \in 1 .. tier.pins
    BY <2>2
  <2> HIDE DEF c, k, unused
  <2>4. <<t, k>> \in MayHold
    BY <2>1, <2>5 DEF MayHold
  <2> QED
    BY <2>1, <2>3, <2>4, Typed DEF CallsType
<1>4. ASSUME NEW t \in Threads, Proceed(t) \/ SpuriousWake(t) PROVE Fine
  <2>1. CASE \E from \in Locations, to \in Locations \cup {"idle"} : Goto(t, from, to)
    BY <2>1, <1>1
  <2>2. CASE Notify(t)
    BY <2>2, <1>2
  <2>3. /\ \A x \in {"want", "wait", "read", "publish", "abandon",
                     "copyHit", "copyNew", "notify", "stream"} : x \in Locations
        /\ "idle" \in Locations \cup {"idle"}
    BY DEF Locations
  <2> HIDE DEF Fine
  <2> QED
    BY <1>4, <2>1, <2>2, <2>3
       DEF Proceed, Refused, Hit, Wait, ClaimForPin, ClaimForFill, Claim, Exhausted, Stream,
           StreamEnds, ReadSucceeds, ReadFails, Publish, Abandon, Copied, TryPin, SpuriousWake
<1>5. ASSUME call' = call PROVE Fine
  BY <1>5
<1> HIDE DEF Fine
<1>6. Fine
  <2>1. CASE UNCHANGED vars
    BY <2>1, <1>5 DEF vars
  <2>2. CASE \E b \in Blocks : Register(b)
    BY <2>2, <1>5 DEF Register
  <2>3. CASE \E t \in Threads, k \in PinIds : DropPin(t, k)
    BY <2>3, <1>5 DEF DropPin
  <2> QED
    BY <2>1, <2>2, <2>3, <1>3, <1>4, Zenon DEF Next, Step
<1> QED
  BY <1>6 DEF Fine

LEMMA WithinTierStep == TierInv /\ WithinTier /\ [Next]_vars => WithinTier'
<1> SUFFICES ASSUME TierInv, WithinTier, [Next]_vars PROVE WithinTier'
  OBVIOUS
<1>1. MayHold' = MayHold
  BY DEF Next, vars, MayHold
<1>2. ASSUME NEW t \in Threads, NEW k \in PinIds, pins'[t][k] # NoPin
      PROVE  <<t, k>> \in MayHold
  <2>1. CASE pins' = pins
    BY <1>2, <2>1 DEF WithinTier
  <2>2. ASSUME NEW u \in Threads, NEW j \in PinIds, NEW h \in Borrow \cup {NoPin},
               pins' = [pins EXCEPT ![u][j] = h],
               h = NoPin \/ (At(u) # "idle" /\ j = call[u].k)
        PROVE  <<t, k>> \in MayHold
    <3>1. pins'[t][k] = IF t = u /\ k = j THEN h ELSE pins[t][k]
      BY <2>2, Typed DEF PinsType
    <3> QED
      BY <1>2, <2>2, <3>1 DEF WithinTier
  <2> QED
    BY <2>1, <2>2, ChangesOneByOne DEF OneBorrowChanges
<1>3. ASSUME NEW t \in Threads, call'[t].at # "idle" PROVE <<t, call'[t].k>> \in MayHold
  BY <1>3, CallsChange DEF WithinTier, At
<1> QED
  BY <1>1, <1>2, <1>3 DEF WithinTier, At

(* A thread that finds every block held holds nothing for the pin it asks for,  *)
(* so the callers may hold more pins than there are slots.                   *)
LEMMA ExhaustedMeansPinned ==
  ASSUME TierInv, WithinTier, NEW t \in Threads, At(t) = "want", ~CanTakeSlot(pg)
  PROVE  NSlots < Cardinality(tier.threads) * tier.pins
<1> DEFINE R == ResidentBlocks(pg)
           H == {x \in MayHold : pins[x[1]][x[2]] # NoPin}
           f == [x \in H |-> pins[x[1]][x[2]].blk]
<1>1. /\ pg.free = <<>> /\ Evictable(pg) = {}
      /\ OrderExact(pg) /\ AllBut(pg, 0) /\ pg.cur = 0
  BY DEF CanTakeSlot, TierInv, Sound
<1>2. tier.threads \in SUBSET Threads /\ tier.pins \in Nat /\ 1 .. tier.pins \subseteq PinIds
  BY TierTyped DEF TierInv
<1>3. Cardinality(R) = NSlots
  <2>1. Len(pg.free) = 0 /\ Len(pg.free) + Cardinality(R) + 0 = NSlots /\ IsFiniteSet(R)
    BY <1>1 DEF AllBut
  <2>2. Cardinality(R) \in Nat
    BY <2>1, FS_CardinalityType
  <2> QED
    BY <2>1, <2>2
<1>4. \A x \in MayHold : x[1] \in Threads /\ x[2] \in PinIds /\ x = <<x[1], x[2]>>
  BY <1>2 DEF MayHold
<1>5. f \in Surjection(H, R)
  <2>1. \A x \in H : f[x] \in R
    <3> SUFFICES ASSUME NEW x \in H PROVE pins[x[1]][x[2]].blk \in R
      OBVIOUS
    <3>1. pins[x[1]][x[2]].blk \in Blocks /\ pins[x[1]][x[2]].slot \in Slots
      BY <1>4, Typed, PinFacts
    <3>2. pins[x[1]][x[2]].slot = pg.resident[pins[x[1]][x[2]].blk]
      BY <1>4 DEF TierInv, BorrowsGood, BorrowGood
    <3> QED
      BY <3>1, <3>2, Typed DEF ResidentBlocks, IsResident
  <2>2. \A b \in R : \E x \in H : f[x] = b
    <3> SUFFICES ASSUME NEW b \in R PROVE \E x \in H : pins[x[1]][x[2]].blk = b
      OBVIOUS
    <3>1. b \in Blocks /\ pg.pinned[b] # 0
      BY <1>1 DEF Evictable, OrderExact, ResidentBlocks
    <3>2. Holders(b) # {}
      BY <3>1, FS_EmptySet DEF TierInv, PinsCounted
    <3>3. PICK x \in Threads \X PinIds : pins[x[1]][x[2]].blk = b
      BY <3>2 DEF Holders
    <3>4. x[1] \in Threads /\ x[2] \in PinIds /\ x = <<x[1], x[2]>>
      OBVIOUS
    <3>5. pins[x[1]][x[2]] # NoPin
      BY <3>1, <3>3, NoBlockIsNoBlock DEF NoPin
    <3>6. x \in MayHold
      BY <3>4, <3>5 DEF WithinTier
    <3> QED
      BY <3>3, <3>5, <3>6
  <2> QED
    BY <2>1, <2>2 DEF Surjection
<1>6. IsFiniteSet(MayHold) /\ Cardinality(MayHold) = Cardinality(tier.threads) * tier.pins
  <2>1. IsFiniteSet(tier.threads)
    BY <1>2, ThreadsFinite, FS_Subset
  <2>2. IsFiniteSet(1 .. tier.pins) /\ Cardinality(1 .. tier.pins) = tier.pins
    <3>1. 1 \in Int /\ tier.pins \in Int
      BY <1>2
    <3>2. IsFiniteSet(1 .. tier.pins)
          /\ Cardinality(1 .. tier.pins) = IF 1 > tier.pins THEN 0 ELSE tier.pins - 1 + 1
      BY <3>1, FS_Interval
    <3> QED
      BY <1>2, <3>2
  <2> QED
    BY <2>1, <2>2, FS_Product DEF MayHold
<1> DEFINE x0 == <<t, call[t].k>>
           M == MayHold \ {x0}
<1>7. x0 \in MayHold /\ pins[t][call[t].k] = NoPin
  BY DEF WithinTier, TierInv, CallsGood, CallGood
<1>8. IsFiniteSet(M) /\ Cardinality(M) = Cardinality(MayHold) - 1
  BY <1>6, <1>7, FS_RemoveElement
<1>9. H \in SUBSET M
  <2>1. x0[1] = t /\ x0[2] = call[t].k
    OBVIOUS
  <2> QED
    BY <1>7, <2>1
<1>10. IsFiniteSet(H) /\ Cardinality(H) <= Cardinality(M)
  BY <1>8, <1>9, FS_Subset
<1> HIDE DEF H, R, f, M
<1>11. Cardinality(R) <= Cardinality(H)
  BY <1>5, <1>10, FS_Surjection
<1>12. Cardinality(H) \in Nat /\ Cardinality(M) \in Nat /\ Cardinality(MayHold) \in Nat
  BY <1>6, <1>8, <1>10, FS_CardinalityType
<1>13. NSlots < Cardinality(MayHold)
  BY <1>3, <1>8, <1>10, <1>11, <1>12, NSlotsPositive
<1> QED
  BY <1>6, <1>13

(* With a slot for every pin its callers can hold at once, pin never fails for   *)
(* want of a slot, whatever they pin, in any order (HostPager::new).           *)
THEOREM EnoughSlotsSuffice == Spec => []FloorSuffices
<1>1. Init => WithinTier /\ FloorSuffices
  BY DEF Init, WithinTier, FloorSuffices, At, NoCall
<1>2. TierInv /\ WithinTier /\ FloorSuffices /\ [Next]_vars => FloorSuffices'
  <2> SUFFICES ASSUME TierInv, WithinTier, FloorSuffices, [Next]_vars,
                      exhausted' # exhausted \/ tier' # tier
               PROVE  FloorSuffices'
    BY DEF FloorSuffices
  <2>1. tier' = tier
    BY DEF Next, vars
  <2>2. PICK t \in Threads : Exhausted(t)
    BY <2>1 DEF Next, Step, vars, Register, Enter, Proceed, SpuriousWake, DropPin, Refused, Hit,
                Wait, ClaimForPin, ClaimForFill, Stream, StreamEnds, ReadSucceeds, ReadFails,
                Publish, Abandon, Copied, Notify, TryPin
  <2>3. NSlots < Cardinality(tier.threads) * tier.pins
    BY <2>2, ExhaustedMeansPinned DEF Exhausted, Admissible
  <2>4. Cardinality(tier.threads) * tier.pins \in Int
    <3>1. IsFiniteSet(tier.threads) /\ tier.pins \in Nat
      BY TierTyped, ThreadsFinite, FS_Subset DEF TierInv
    <3>2. Cardinality(tier.threads) \in Nat
      BY <3>1, FS_CardinalityType
    <3> QED
      BY <3>1, <3>2
  <2> QED
    BY <2>1, <2>3, <2>4, NSlotsPositive DEF FloorSuffices
<1> QED
  BY <1>1, <1>2, WithinTierStep, TierAlways, PTL DEF Spec

=============================================================================
