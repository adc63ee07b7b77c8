--------------------------- MODULE PagerOpsProofs ---------------------------
(***************************************************************************)
(* What the operators of the block cache preserve, for any set of blocks     *)
(* and any number of slots: the lemmas that the proofs about the two tiers    *)
(* rest on.                                                                 *)
(***************************************************************************)
EXTENDS PagerOps, FiniteSets, FiniteSetsExt, FiniteSetTheorems, SequenceTheorems, TLAPS

(* No two blocks in a slot, no slot twice on the free stack, none both free    *)
(* and in use.                                                              *)
SlotsDisjoint(p) ==
  /\ \A b, c \in Blocks : IsResident(p, b) /\ p.resident[b] = p.resident[c] => b = c
  /\ \A i, j \in DOMAIN p.free : p.free[i] = p.free[j] => i = j
  /\ \A i \in DOMAIN p.free, b \in Blocks : p.resident[b] # p.free[i]

(* The recency order is a list of the resident blocks.                       *)
OrderExact(p) ==
  /\ \A i, j \in DOMAIN p.lru : p.lru[i] = p.lru[j] => i = j
  /\ \A i \in DOMAIN p.lru : IsResident(p, p.lru[i])
  /\ \A b \in ResidentBlocks(p) : \E i \in DOMAIN p.lru : p.lru[i] = b

(* All slots but n of them are free or hold a block.                         *)
AllBut(p, n) ==
  /\ IsFiniteSet(ResidentBlocks(p))
  /\ Len(p.free) + Cardinality(ResidentBlocks(p)) + n = NSlots

Sound(p) == p \in PagerType /\ SlotsDisjoint(p) /\ OrderExact(p) /\ AllBut(p, 0)

(* A pager whose slot s was handed out and is in no place yet.               *)
Without(p, s) ==
  /\ p \in PagerType /\ SlotsDisjoint(p) /\ OrderExact(p) /\ AllBut(p, 1)
  /\ s \in Slots
  /\ \A i \in DOMAIN p.free : p.free[i] # s
  /\ \A b \in Blocks : p.resident[b] # s

-----------------------------------------------------------------------------
LEMMA LeastExists ==
  ASSUME NEW S \in SUBSET Nat, S # {}
  PROVE  \E j \in S : \A k \in S : j <= k
<1> DEFINE R == {p \in Nat \X Nat : p[1] < p[2]}
<1>1. IsWellFoundedOn(R, Nat)
  BY NatLessThanWellFounded DEF OpToRel
<1>2. PICK j \in S : \A k \in S : ~(<<k, j>> \in R)
  <2> HIDE DEF R
  <2> QED BY <1>1, WFMin
<1>3. \A k \in S : k < j => <<k, j>> \in R
  OBVIOUS
<1> HIDE DEF R
<1>4. \A k \in S : ~(k < j)
  BY <1>2, <1>3, Zenon
<1>5. \A k \in S : j <= k
  BY <1>4
<1> QED
  BY <1>5

(* Taking one element out of a list closes the gap it leaves.                *)
LEMMA RemoveAtIs ==
  ASSUME NEW T, NEW s \in Seq(T), NEW k \in DOMAIN s
  PROVE  LET r == RemoveAt(s, k) IN
         /\ r \in Seq(T) /\ Len(r) = Len(s) - 1 /\ DOMAIN r = 1 .. Len(s) - 1
         /\ \A i \in 1 .. Len(s) - 1 : r[i] = IF i < k THEN s[i] ELSE s[i + 1]
<1> DEFINE r == RemoveAt(s, k)
<1>1. k \in 1 .. Len(s) /\ Len(s) \in Nat
  OBVIOUS
<1> DEFINE a == SubSeq(s, 1, k - 1)
           c == SubSeq(s, k + 1, Len(s))
<1>2. /\ a \in Seq(T) /\ Len(a) = k - 1
      /\ \A i \in 1 .. k - 1 : a[i] = s[i]
  BY <1>1, SubSeqProperties
<1>c. /\ c \in Seq(T) /\ Len(c) = Len(s) - k
      /\ \A i \in 1 .. Len(s) - k : c[i] = s[k + i]
  BY <1>1, SubSeqProperties
<1>d. r = a \o c
  BY DEF RemoveAt
<1> HIDE DEF a, c, r
<1>3. r \in Seq(T) /\ Len(r) = Len(s) - 1 /\ DOMAIN r = 1 .. Len(s) - 1
  BY <1>1, <1>2, <1>c, <1>d
<1>e. \A i \in 1 .. Len(a) + Len(c) :
        (a \o c)[i] = IF i <= Len(a) THEN a[i] ELSE c[i - Len(a)]
  BY <1>2, <1>c, ConcatProperties
<1>f. \A i \in 1 .. Len(s) - 1 : r[i] = IF i <= k - 1 THEN a[i] ELSE c[i - (k - 1)]
  <2>1. Len(a) = k - 1 /\ Len(a) + Len(c) = Len(s) - 1
    BY <1>1, <1>2, <1>c
  <2> QED
    BY <2>1, <1>d, <1>e, Zenon
<1>4. \A i \in 1 .. Len(s) - 1 : r[i] = IF i < k THEN s[i] ELSE s[i + 1]
  <2> TAKE i \in 1 .. Len(s) - 1
  <2>1. CASE i < k
    BY <2>1, <1>1, <1>2, <1>f
  <2>2. CASE i >= k
    <3>1. r[i] = c[i - (k - 1)]
      BY <2>2, <1>1, <1>f
    <3>2. i - (k - 1) \in 1 .. Len(s) - k /\ k + (i - (k - 1)) = i + 1
      BY <2>2, <1>1
    <3> QED
      BY <2>2, <3>1, <3>2, <1>1, <1>c
  <2> QED
    BY <2>1, <2>2, <1>1
<1> QED
  BY <1>3, <1>4 DEF r

(* If the list has no repetitions, the others are left and in it once.         *)
LEMMA RemoveAtKeeps ==
  ASSUME NEW T, NEW s \in Seq(T), NEW k \in DOMAIN s,
         \A i, j \in DOMAIN s : s[i] = s[j] => i = j
  PROVE  LET r == RemoveAt(s, k) IN
         /\ r \in Seq(T)
         /\ \A i \in DOMAIN r : r[i] # s[k]
         /\ \A i, j \in DOMAIN r : r[i] = r[j] => i = j
         /\ \A i \in DOMAIN r : \E j \in DOMAIN s : r[i] = s[j]
         /\ \A j \in DOMAIN s : s[j] # s[k] => \E i \in DOMAIN r : r[i] = s[j]
<1> DEFINE r == RemoveAt(s, k)
           from(i) == IF i < k THEN i ELSE i + 1
<1>1. k \in 1 .. Len(s) /\ Len(s) \in Nat /\ DOMAIN s = 1 .. Len(s)
  OBVIOUS
<1>2. /\ r \in Seq(T) /\ DOMAIN r = 1 .. Len(s) - 1
      /\ \A i \in 1 .. Len(s) - 1 : r[i] = IF i < k THEN s[i] ELSE s[i + 1]
  BY RemoveAtIs
<1> HIDE DEF r
<1>3. r \in Seq(T) /\ DOMAIN r = 1 .. Len(s) - 1
  BY <1>2
<1>4. \A i \in DOMAIN r : r[i] = s[from(i)]
  BY <1>2
<1>a. \A i \in DOMAIN r : from(i) \in DOMAIN s /\ from(i) # k
  BY <1>1, <1>3
<1>b. \A i, j \in DOMAIN r : from(i) = from(j) => i = j
  BY <1>1, <1>3
<1>c. \A j \in DOMAIN s : j # k => \E i \in DOMAIN r : from(i) = j
  <2> SUFFICES ASSUME NEW j \in DOMAIN s, j # k PROVE \E i \in DOMAIN r : from(i) = j
    OBVIOUS
  <2>1. CASE j < k
    BY <2>1, <1>1, <1>3
  <2>2. CASE j > k
    <3>1. j - 1 \in DOMAIN r /\ from(j - 1) = j
      BY <2>2, <1>1, <1>3
    <3> QED
      BY <3>1
  <2> QED
    BY <2>1, <2>2, <1>1
<1> HIDE DEF from
<1>6. \A i, j \in DOMAIN r : r[i] = r[j] => i = j
  BY <1>4, <1>a, <1>b
<1>7. \A i \in DOMAIN r : r[i] # s[k] /\ \E j \in DOMAIN s : r[i] = s[j]
  BY <1>4, <1>a
<1>8. \A j \in DOMAIN s : s[j] # s[k] => \E i \in DOMAIN r : r[i] = s[j]
  <2> SUFFICES ASSUME NEW j \in DOMAIN s, s[j] # s[k]
               PROVE  \E i \in DOMAIN r : r[i] = s[j]
    OBVIOUS
  <2>1. PICK i \in DOMAIN r : from(i) = j
    BY <1>c
  <2> QED
    BY <2>1, <1>4
<1> QED
  BY <1>3, <1>6, <1>7, <1>8 DEF r

(* The one occurrence of an element is its first.                            *)
LEMMA RemoveFirstIs ==
  ASSUME NEW T, NEW s \in Seq(T), NEW k \in DOMAIN s,
         \A i, j \in DOMAIN s : s[i] = s[j] => i = j
  PROVE  RemoveFirst(s, s[k]) = RemoveAt(s, k)
<1>1. k \in 1 .. Len(s) /\ \A i \in 1 .. Len(s) : s[i] = s[k] => i = k
  OBVIOUS
<1>2. {i \in 1 .. Len(s) : s[i] = s[k]} = {k}
  BY <1>1
<1>3. Min({k}) = k
  BY <1>1 DEF Min
<1> QED
  BY <1>1, <1>2, <1>3 DEF RemoveFirst, SelectInSeq

LEMMA RemoveFirstKeeps ==
  ASSUME NEW T, NEW s \in Seq(T), NEW e \in T,
         \A i, j \in DOMAIN s : s[i] = s[j] => i = j
  PROVE  LET r == RemoveFirst(s, e) IN
         /\ r \in Seq(T)
         /\ \A i \in DOMAIN r : r[i] # e
         /\ \A i, j \in DOMAIN r : r[i] = r[j] => i = j
         /\ \A i \in DOMAIN r : \E j \in DOMAIN s : r[i] = s[j]
         /\ \A j \in DOMAIN s : s[j] # e => \E i \in DOMAIN r : r[i] = s[j]
<1>1. CASE \E i \in 1 .. Len(s) : s[i] = e
  <2>1. PICK k \in 1 .. Len(s) : s[k] = e
    BY <1>1
  <2>4. RemoveFirst(s, e) = RemoveAt(s, k)
    BY <2>1, RemoveFirstIs
  <2> QED
    BY RemoveAtKeeps, <2>1, <2>4
<1>2. CASE ~(\E i \in 1 .. Len(s) : s[i] = e)
  BY <1>2 DEF RemoveFirst
<1> QED
  BY <1>1, <1>2
-----------------------------------------------------------------------------
LEMMA NewPagerSound == Sound(NewPager)
<1> DEFINE p == NewPager
<1>1. p \in PagerType
  BY NSlotsPositive DEF NewPager, PagerType, Slots, NoSlot, NoEpoch
<1>2. SlotsDisjoint(p)
  BY NSlotsPositive DEF NewPager, SlotsDisjoint, IsResident, NoSlot
<1>3. ResidentBlocks(p) = {}
  BY DEF NewPager, ResidentBlocks, IsResident
<1>4. OrderExact(p)
  BY <1>3 DEF NewPager, OrderExact
<1>5. AllBut(p, 0)
  <2>1. p.free = [i \in 1 .. NSlots |-> NSlots - i]
    BY DEF NewPager
  <2>2. Len(p.free) = NSlots
    BY <2>1, NSlotsPositive
  <2>3. IsFiniteSet(ResidentBlocks(p)) /\ Cardinality(ResidentBlocks(p)) = 0
    BY <1>3, FS_EmptySet
  <2> HIDE DEF p
  <2> QED
    BY <2>2, <2>3, NSlotsPositive DEF AllBut
<1> QED
  BY <1>1, <1>2, <1>4, <1>5 DEF Sound

(* A pager with other fields.                                               *)
LEMMA PutType ==
  ASSUME NEW p \in PagerType, NEW r \in [Blocks -> Slots \cup {NoSlot}], NEW l \in Seq(Blocks),
         NEW f \in Seq(Slots), NEW e \in [Blocks -> Nat \cup {NoEpoch}],
         NEW n \in [Blocks -> Nat]
  PROVE  LET q == [p EXCEPT !.resident = r, !.lru = l, !.free = f, !.epoch = e, !.pinned = n]
         IN  /\ q \in PagerType
             /\ q.resident = r /\ q.lru = l /\ q.free = f /\ q.epoch = e /\ q.pinned = n
             /\ q.cur = p.cur
BY DEF PagerType

LEMMA FieldsType ==
  ASSUME NEW p \in PagerType
  PROVE  /\ p.resident \in [Blocks -> Slots \cup {NoSlot}]
         /\ p.lru \in Seq(Blocks) /\ p.free \in Seq(Slots)
         /\ p.epoch \in [Blocks -> Nat \cup {NoEpoch}]
         /\ p.cur \in Nat /\ p.pinned \in [Blocks -> Nat]
BY DEF PagerType

(* Stamps and pins disturb nothing.                                         *)
LEMMA SameWhereabouts ==
  ASSUME NEW p, NEW q \in PagerType,
         q.resident = p.resident, q.lru = p.lru, q.free = p.free
  PROVE  /\ Sound(p) => Sound(q)
         /\ \A s : Without(p, s) => Without(q, s)
BY DEF Sound, Without, SlotsDisjoint, OrderExact, AllBut, ResidentBlocks, IsResident

LEMMA OpenKeeps ==
  ASSUME NEW p \in PagerType
  PROVE  LET q == BeginBatch(p)
         IN  /\ q \in PagerType /\ q.cur = p.cur + 1 /\ q.epoch = p.epoch
             /\ q.resident = p.resident /\ q.lru = p.lru /\ q.free = p.free
<1>1. p.cur + 1 \in Nat
  BY FieldsType
<1> QED
  BY <1>1 DEF PagerType, BeginBatch

LEMMA StampKeeps ==
  ASSUME NEW p \in PagerType, NEW b \in Blocks
  PROVE  LET q == Stamped(p, b)
         IN  /\ q \in PagerType
             /\ q.resident = p.resident /\ q.lru = p.lru /\ q.free = p.free
             /\ q.pinned = p.pinned /\ q.cur = p.cur
             /\ q.epoch = [p.epoch EXCEPT ![b] = p.cur]
<1>1. Stamped(p, b) = [p EXCEPT !.epoch = [p.epoch EXCEPT ![b] = p.cur]]
  BY DEF Stamped
<1>2. [p.epoch EXCEPT ![b] = p.cur] \in [Blocks -> Nat \cup {NoEpoch}]
  BY FieldsType
<1> QED
  BY <1>1, <1>2 DEF PagerType

LEMMA PinKeeps ==
  ASSUME NEW p \in PagerType, NEW b \in Blocks
  PROVE  LET q == Pin(p, b)
         IN  /\ q \in PagerType
             /\ q.resident = p.resident /\ q.lru = p.lru /\ q.free = p.free
             /\ q.pinned = [p.pinned EXCEPT ![b] = @ + 1] /\ q.cur = p.cur
<1>1. Pin(p, b) = [p EXCEPT !.pinned = [p.pinned EXCEPT ![b] = @ + 1]]
  BY DEF Pin
<1>2. [p.pinned EXCEPT ![b] = @ + 1] \in [Blocks -> Nat]
  BY FieldsType
<1> QED
  BY <1>1, <1>2 DEF PagerType

LEMMA UnpinKeeps ==
  ASSUME NEW p \in PagerType, NEW b \in Blocks, p.pinned[b] > 0
  PROVE  LET q == Unpin(p, b)
         IN  /\ q \in PagerType
             /\ q.resident = p.resident /\ q.lru = p.lru /\ q.free = p.free
             /\ q.pinned = [p.pinned EXCEPT ![b] = @ - 1] /\ q.cur = p.cur
<1>1. Unpin(p, b) = [p EXCEPT !.pinned = [p.pinned EXCEPT ![b] = @ - 1]]
  BY DEF Unpin
<1>2. [p.pinned EXCEPT ![b] = @ - 1] \in [Blocks -> Nat]
  BY FieldsType
<1> QED
  BY <1>1, <1>2 DEF PagerType

-----------------------------------------------------------------------------
(* Inserting a block gives the slot that was out a place.                    *)
LEMMA InsertSound ==
  ASSUME NEW p, NEW b \in Blocks, NEW s, Without(p, s), ~IsResident(p, b), NEW policy
  PROVE  LET q == Insert(p, b, s, policy)
         IN  /\ Sound(q)
             /\ q.resident = [p.resident EXCEPT ![b] = s]
             /\ q.pinned = p.pinned /\ q.cur = p.cur /\ q.epoch = p.epoch
<1> DEFINE q == Insert(p, b, s, policy)
           r == [p.resident EXCEPT ![b] = s]
           l == IF policy = "Mru" THEN Append(p.lru, b) ELSE <<b>> \o p.lru
<1>1. /\ p \in PagerType /\ s \in Slots
      /\ p.resident \in [Blocks -> Slots \cup {NoSlot}] /\ p.lru \in Seq(Blocks)
      /\ p.free \in Seq(Slots)
  BY FieldsType DEF Without
<1>2. r \in [Blocks -> Slots \cup {NoSlot}] /\ l \in Seq(Blocks)
  BY <1>1
<1>3. q = [p EXCEPT !.resident = r, !.lru = l]
  BY DEF Insert
<1>4. /\ q \in PagerType
      /\ q.resident = r /\ q.lru = l /\ q.free = p.free /\ q.pinned = p.pinned /\ q.cur = p.cur /\ q.epoch = p.epoch
  BY <1>1, <1>2, <1>3 DEF PagerType
<1>5. s # NoSlot
  BY <1>1, NSlotsPositive DEF Slots, NoSlot
<1>6. \A c \in Blocks : IsResident(q, c) <=> IsResident(p, c) \/ c = b
  BY <1>1, <1>4, <1>5 DEF IsResident
<1>7. ResidentBlocks(q) = ResidentBlocks(p) \cup {b} /\ b \notin ResidentBlocks(p)
  BY <1>6 DEF ResidentBlocks
<1>8. SlotsDisjoint(q)
  BY <1>1, <1>4, <1>6 DEF SlotsDisjoint, Without, IsResident
<1>9. AllBut(q, 0)
  <2>1. IsFiniteSet(ResidentBlocks(p))
        /\ Len(p.free) + Cardinality(ResidentBlocks(p)) + 1 = NSlots
    BY DEF Without, AllBut
  <2>2. IsFiniteSet(ResidentBlocks(q))
        /\ Cardinality(ResidentBlocks(q)) = Cardinality(ResidentBlocks(p)) + 1
    BY <2>1, <1>7, FS_AddElement
  <2>3. Cardinality(ResidentBlocks(p)) \in Nat /\ Len(p.free) \in Nat
    BY <2>1, <1>1, FS_CardinalityType
  <2> QED
    BY <2>1, <2>2, <2>3, <1>4 DEF AllBut
<1>10. OrderExact(q)
  <2>1. /\ \A i \in DOMAIN p.lru : p.lru[i] # b
        /\ \A i, j \in DOMAIN p.lru : p.lru[i] = p.lru[j] => i = j
    BY DEF Without, OrderExact, SlotsDisjoint
  <2>2. CASE policy = "Mru"
    <3>1. /\ DOMAIN l = 1 .. Len(p.lru) + 1 /\ DOMAIN p.lru = 1 .. Len(p.lru)
          /\ \A i \in DOMAIN p.lru : l[i] = p.lru[i]
          /\ l[Len(p.lru) + 1] = b
      BY <1>1, <2>2
    <3> HIDE DEF l
    <3>2. \A i, j \in DOMAIN l : l[i] = l[j] => i = j
      BY <3>1, <2>1
    <3>3. \A i \in DOMAIN l : IsResident(q, l[i])
      BY <3>1, <1>6, <1>1 DEF Without, OrderExact
    <3>4. \A c \in ResidentBlocks(q) : \E i \in DOMAIN l : l[i] = c
      BY <3>1, <1>7 DEF Without, OrderExact
    <3> QED
      BY <3>2, <3>3, <3>4, <1>4 DEF OrderExact
  <2>3. CASE policy # "Mru"
    <3>1. /\ DOMAIN l = 1 .. Len(p.lru) + 1 /\ DOMAIN p.lru = 1 .. Len(p.lru)
          /\ \A i \in DOMAIN p.lru : l[i + 1] = p.lru[i] /\ i + 1 \in DOMAIN l
          /\ \A i \in DOMAIN l : i # 1 => i - 1 \in DOMAIN p.lru /\ l[i] = p.lru[i - 1]
          /\ l[1] = b
      BY <1>1, <2>3
    <3> HIDE DEF l
    <3>2. \A i, j \in DOMAIN l : l[i] = l[j] => i = j
      BY <3>1, <2>1
    <3>3. \A i \in DOMAIN l : IsResident(q, l[i])
      BY <3>1, <1>6, <1>1 DEF Without, OrderExact
    <3>4. \A c \in ResidentBlocks(q) : \E i \in DOMAIN l : l[i] = c
      BY <3>1, <1>7 DEF Without, OrderExact
    <3> QED
      BY <3>2, <3>3, <3>4, <1>4 DEF OrderExact
  <2> QED
    BY <2>2, <2>3
<1> QED
  BY <1>4, <1>8, <1>9, <1>10 DEF Sound

-----------------------------------------------------------------------------
(* A slot that is handed out leaves every place; the block it was taken       *)
(* from, if any, is one the search was allowed to take.                      *)
LEMMA SlotFromSound ==
  ASSUME NEW p, Sound(p), NEW victims \in SUBSET DOMAIN p.lru,
         p.free # <<>> \/ victims # {}
  PROVE  LET t == SlotFrom(p, victims)
         IN  /\ t = [slot |-> t.slot, evicted |-> t.evicted, pager |-> t.pager]
             /\ Without(t.pager, t.slot)
             /\ t.pager.pinned = p.pinned /\ t.pager.cur = p.cur
             /\ \/ /\ t.evicted = NoBlock /\ t.pager.resident = p.resident
                   /\ t.pager.epoch = p.epoch
                \/ /\ \E i \in victims : t.evicted = p.lru[i]
                   /\ t.evicted \in Blocks /\ IsResident(p, t.evicted)
                   /\ t.slot = p.resident[t.evicted]
                   /\ t.pager.resident = [p.resident EXCEPT ![t.evicted] = NoSlot]
                   /\ t.pager.epoch = [p.epoch EXCEPT ![t.evicted] = NoEpoch]
<1>1. /\ p \in PagerType /\ SlotsDisjoint(p) /\ OrderExact(p) /\ AllBut(p, 0)
      /\ p.resident \in [Blocks -> Slots \cup {NoSlot}] /\ p.lru \in Seq(Blocks)
      /\ p.free \in Seq(Slots) /\ p.epoch \in [Blocks -> Nat \cup {NoEpoch}]
  BY FieldsType DEF Sound
<1>2. NoSlot \notin Slots
  BY NSlotsPositive DEF Slots, NoSlot
<1>3. IsFiniteSet(ResidentBlocks(p)) /\ Cardinality(ResidentBlocks(p)) \in Nat
  BY <1>1, FS_CardinalityType DEF AllBut
<1>4. CASE p.free # <<>>
  <2> DEFINE f == SubSeq(p.free, 1, Len(p.free) - 1)
             s == p.free[Len(p.free)]
             q == [p EXCEPT !.free = f]
  <2>1. SlotFrom(p, victims) = [slot |-> s, evicted |-> NoBlock, pager |-> q]
    BY <1>4 DEF SlotFrom, Front, Last
  <2>2. Len(p.free) \in Nat \ {0} /\ DOMAIN p.free = 1 .. Len(p.free)
    BY <1>1, <1>4
  <2>3. /\ f \in Seq(Slots) /\ Len(f) = Len(p.free) - 1
        /\ \A i \in 1 .. Len(p.free) - 1 : f[i] = p.free[i]
    BY <1>1, <2>2, SubSeqProperties
  <2>4. s \in Slots
    BY <1>1, <2>2
  <2> HIDE DEF f
  <2>5. q \in PagerType /\ q.free = f /\ q.resident = p.resident /\ q.lru = p.lru
        /\ q.pinned = p.pinned /\ q.cur = p.cur /\ q.epoch = p.epoch
    BY <1>1, <2>3 DEF PagerType
  <2> HIDE DEF q
  <2>6. DOMAIN f = 1 .. Len(p.free) - 1
    BY <2>3
  <2>7. \A i \in DOMAIN f : i \in DOMAIN p.free /\ f[i] = p.free[i] /\ i # Len(p.free)
    BY <2>2, <2>3, <2>6
  <2>8. \A i \in DOMAIN f : f[i] # s
    BY <1>1, <2>2, <2>7 DEF SlotsDisjoint
  <2>9. \A b \in Blocks : q.resident[b] # s
    BY <1>1, <2>2, <2>5 DEF SlotsDisjoint
  <2>10. SlotsDisjoint(q)
    BY <1>1, <2>5, <2>7 DEF SlotsDisjoint, IsResident
  <2>11. OrderExact(q) /\ ResidentBlocks(q) = ResidentBlocks(p)
    BY <1>1, <2>5 DEF OrderExact, IsResident, ResidentBlocks
  <2>12. AllBut(q, 1)
    <3>1. Len(p.free) + Cardinality(ResidentBlocks(p)) + 0 = NSlots
      BY <1>1 DEF AllBut
    <3>2. Len(q.free) = Len(p.free) - 1
      BY <2>3, <2>5
    <3>3. ResidentBlocks(q) = ResidentBlocks(p)
      BY <2>11
    <3> QED
      BY <3>1, <3>2, <3>3, <1>3, <2>2 DEF AllBut
  <2> HIDE DEF s
  <2>13. Without(q, s)
    BY <2>4, <2>5, <2>8, <2>9, <2>10, <2>11, <2>12 DEF Without
  <2> QED
    BY <2>1, <2>5, <2>13
<1>5. CASE p.free = <<>>
  <2> DEFINE i == CHOOSE j \in victims : \A k \in victims : j <= k
             v == p.lru[i]
             r == [p.resident EXCEPT ![v] = NoSlot]
             l == RemoveAt(p.lru, i)
             e == [p.epoch EXCEPT ![v] = NoEpoch]
             q == [p EXCEPT !.lru = l, !.resident = r, !.epoch = e]
  <2>1. SlotFrom(p, victims) = [slot |-> p.resident[v], evicted |-> v, pager |-> q]
    BY <1>5 DEF SlotFrom
  <2>2. i \in victims
    <3>1. victims \in SUBSET Nat /\ victims # {}
      BY <1>1, <1>5
    <3>2. \E j \in victims : \A k \in victims : j <= k
      BY <3>1, LeastExists
    <3> QED
      BY <3>2
  <2> HIDE DEF i
  <2>3. i \in DOMAIN p.lru /\ v \in Blocks /\ IsResident(p, v)
    BY <1>1, <2>2 DEF OrderExact
  <2>4. p.resident[v] \in Slots
    BY <1>1, <2>3 DEF IsResident
  <2>5. /\ l \in Seq(Blocks)
        /\ \A j \in DOMAIN l : l[j] # v
        /\ \A j, k \in DOMAIN l : l[j] = l[k] => j = k
        /\ \A j \in DOMAIN l : \E k \in DOMAIN p.lru : l[j] = p.lru[k]
        /\ \A k \in DOMAIN p.lru : p.lru[k] # v => \E j \in DOMAIN l : l[j] = p.lru[k]
    <3>1. \A j, k \in DOMAIN p.lru : p.lru[j] = p.lru[k] => j = k
      BY <1>1 DEF OrderExact
    <3> QED
      BY <3>1, <1>1, <2>3, RemoveAtKeeps
  <2> HIDE DEF l, v
  <2>6. r \in [Blocks -> Slots \cup {NoSlot}] /\ e \in [Blocks -> Nat \cup {NoEpoch}]
    BY <1>1, <2>3
  <2>7. \A b \in Blocks : r[b] = IF b = v THEN NoSlot ELSE p.resident[b]
    BY <1>1
  <2> HIDE DEF r, e
  <2>8. q \in PagerType /\ q.free = p.free /\ q.resident = r /\ q.lru = l
        /\ q.pinned = p.pinned /\ q.cur = p.cur /\ q.epoch = e
    BY <1>1, <2>5, <2>6 DEF PagerType
  <2> HIDE DEF q
  <2>9. \A b \in Blocks : IsResident(q, b) <=> IsResident(p, b) /\ b # v
    BY <2>7, <2>8 DEF IsResident
  <2>10. SlotsDisjoint(q)
    BY <1>1, <2>3, <2>7, <2>8, <2>9, <1>2, <1>5 DEF SlotsDisjoint, IsResident
  <2>11. \A b \in Blocks : q.resident[b] # p.resident[v]
    BY <1>1, <1>2, <2>3, <2>4, <2>7, <2>8 DEF SlotsDisjoint, IsResident
  <2>12. OrderExact(q)
    <3>1. \A j \in DOMAIN l : IsResident(q, l[j])
      BY <1>1, <2>5, <2>9 DEF OrderExact
    <3>2. \A b \in ResidentBlocks(q) : \E j \in DOMAIN l : l[j] = b
      BY <1>1, <2>5, <2>9 DEF OrderExact, ResidentBlocks
    <3> QED
      BY <3>1, <3>2, <2>5, <2>8 DEF OrderExact
  <2>13. ResidentBlocks(q) = ResidentBlocks(p) \ {v} /\ v \in ResidentBlocks(p)
    BY <2>3, <2>9 DEF ResidentBlocks
  <2>14. AllBut(q, 1)
    <3>1. Len(p.free) + Cardinality(ResidentBlocks(p)) + 0 = NSlots /\ Len(p.free) = 0
      BY <1>1, <1>5 DEF AllBut
    <3>2. IsFiniteSet(ResidentBlocks(q))
          /\ Cardinality(ResidentBlocks(q)) = Cardinality(ResidentBlocks(p)) - 1
      BY <1>3, <2>13, FS_RemoveElement
    <3> QED
      BY <3>1, <3>2, <1>3, <2>8 DEF AllBut
  <2>15. \A j \in DOMAIN q.free : q.free[j] # p.resident[v]
    BY <1>1, <2>3, <2>8 DEF SlotsDisjoint
  <2>16. Without(q, p.resident[v])
    BY <2>4, <2>8, <2>10, <2>11, <2>12, <2>14, <2>15 DEF Without
  <2> QED
    BY <2>1, <2>2, <2>3, <2>8, <2>16 DEF r, e, v
<1> QED
  BY <1>4, <1>5

(* A block that is forgotten leaves its slot on the free stack.              *)
LEMMA EvictSound ==
  ASSUME NEW p, Sound(p), NEW b \in Blocks, IsResident(p, b)
  PROVE  LET q == Evict(p, b)
         IN  /\ Sound(q)
             /\ q.resident = [p.resident EXCEPT ![b] = NoSlot]
             /\ q.pinned = p.pinned /\ q.cur = p.cur
<1> DEFINE r == [p.resident EXCEPT ![b] = NoSlot]
           l == RemoveFirst(p.lru, b)
           e == [p.epoch EXCEPT ![b] = NoEpoch]
           f == Append(p.free, p.resident[b])
           q == [p EXCEPT !.resident = r, !.lru = l, !.epoch = e, !.free = f]
<1>1. /\ p \in PagerType /\ SlotsDisjoint(p) /\ OrderExact(p) /\ AllBut(p, 0)
      /\ p.resident \in [Blocks -> Slots \cup {NoSlot}] /\ p.lru \in Seq(Blocks)
      /\ p.free \in Seq(Slots) /\ p.epoch \in [Blocks -> Nat \cup {NoEpoch}]
  BY FieldsType DEF Sound
<1>2. NoSlot \notin Slots
  BY NSlotsPositive DEF Slots, NoSlot
<1>3. Evict(p, b) = q
  BY DEF Evict
<1>4. p.resident[b] \in Slots
  BY <1>1 DEF IsResident
<1>5. /\ l \in Seq(Blocks)
      /\ \A j \in DOMAIN l : l[j] # b
      /\ \A j, k \in DOMAIN l : l[j] = l[k] => j = k
      /\ \A j \in DOMAIN l : \E k \in DOMAIN p.lru : l[j] = p.lru[k]
      /\ \A k \in DOMAIN p.lru : p.lru[k] # b => \E j \in DOMAIN l : l[j] = p.lru[k]
  <2>1. \A j, k \in DOMAIN p.lru : p.lru[j] = p.lru[k] => j = k
    BY <1>1 DEF OrderExact
  <2> QED
    BY <2>1, <1>1, RemoveFirstKeeps
<1> HIDE DEF l
<1>6. /\ r \in [Blocks -> Slots \cup {NoSlot}] /\ e \in [Blocks -> Nat \cup {NoEpoch}]
      /\ \A c \in Blocks : r[c] = IF c = b THEN NoSlot ELSE p.resident[c]
  BY <1>1
<1> HIDE DEF r, e
<1>7. /\ f \in Seq(Slots) /\ Len(f) = Len(p.free) + 1
      /\ DOMAIN f = 1 .. Len(p.free) + 1 /\ DOMAIN p.free = 1 .. Len(p.free)
      /\ \A i \in DOMAIN p.free : f[i] = p.free[i]
      /\ f[Len(p.free) + 1] = p.resident[b]
      /\ Len(p.free) \in Nat
  BY <1>1, <1>4
<1> HIDE DEF f
<1>8. q \in PagerType /\ q.free = f /\ q.resident = r /\ q.lru = l
      /\ q.pinned = p.pinned /\ q.cur = p.cur
  BY <1>1, <1>5, <1>6, <1>7 DEF PagerType
<1> HIDE DEF q
<1>9. \A c \in Blocks : IsResident(q, c) <=> IsResident(p, c) /\ c # b
  BY <1>6, <1>8 DEF IsResident
<1>10. SlotsDisjoint(q)
  <2>1. \A c, d \in Blocks : IsResident(q, c) /\ q.resident[c] = q.resident[d] => c = d
    BY <1>1, <1>6, <1>8 DEF SlotsDisjoint, IsResident
  <2>2. \A i \in DOMAIN p.free : p.free[i] # p.resident[b]
    BY <1>1 DEF SlotsDisjoint
  <2>3. \A i, j \in DOMAIN f : f[i] = f[j] => i = j
    BY <1>1, <1>7, <2>2 DEF SlotsDisjoint
  <2>4. \A i \in DOMAIN f, c \in Blocks : r[c] # f[i]
    <3> SUFFICES ASSUME NEW i \in DOMAIN f, NEW c \in Blocks
                 PROVE  r[c] # f[i]
      OBVIOUS
    <3>1. f[i] \in Slots
      BY <1>7
    <3>2. CASE c = b
      BY <3>1, <3>2, <1>2, <1>6
    <3>3. CASE c # b /\ i \in DOMAIN p.free
      BY <3>3, <1>1, <1>6, <1>7 DEF SlotsDisjoint
    <3>4. CASE c # b /\ i = Len(p.free) + 1
      BY <3>4, <1>1, <1>6, <1>7 DEF SlotsDisjoint, IsResident
    <3> QED
      BY <3>2, <3>3, <3>4, <1>7
  <2> QED
    BY <2>1, <2>3, <2>4, <1>8 DEF SlotsDisjoint
<1>11. OrderExact(q)
  <2>1. \A j \in DOMAIN l : IsResident(q, l[j])
    BY <1>1, <1>5, <1>9 DEF OrderExact
  <2>2. \A c \in ResidentBlocks(q) : \E j \in DOMAIN l : l[j] = c
    BY <1>1, <1>5, <1>9 DEF OrderExact, ResidentBlocks
  <2> QED
    BY <2>1, <2>2, <1>5, <1>8 DEF OrderExact
<1>12. ResidentBlocks(q) = ResidentBlocks(p) \ {b} /\ b \in ResidentBlocks(p)
  BY <1>9 DEF ResidentBlocks
<1>13. AllBut(q, 0)
  <2>1. /\ IsFiniteSet(ResidentBlocks(p)) /\ Cardinality(ResidentBlocks(p)) \in Nat
        /\ Len(p.free) + Cardinality(ResidentBlocks(p)) + 0 = NSlots
    BY <1>1, FS_CardinalityType DEF AllBut
  <2>2. IsFiniteSet(ResidentBlocks(q))
        /\ Cardinality(ResidentBlocks(q)) = Cardinality(ResidentBlocks(p)) - 1
    BY <2>1, <1>12, FS_RemoveElement
  <2> QED
    BY <2>1, <2>2, <1>7, <1>8 DEF AllBut
<1> QED
  BY <1>3, <1>8, <1>10, <1>11, <1>13 DEF Sound, r

-----------------------------------------------------------------------------
(* The pinned interface takes the slot of no pinned block and leaves every     *)
(* other block where it was.                                                *)
LEMMA MissAndPinSound ==
  ASSUME NEW p, Sound(p), NEW b \in Blocks, ~IsResident(p, b), CanTakeSlot(p), NEW policy
  PROVE  LET m == MissAndPin(p, b, policy)
         IN  /\ Sound(m.pager) /\ m.slot \in Slots
             /\ m.pager.pinned = [p.pinned EXCEPT ![b] = @ + 1] /\ m.pager.cur = p.cur
             /\ \A c \in Blocks : m.pager.resident[c] = IF c = b THEN m.slot
                                                       ELSE IF c = m.evicted THEN NoSlot
                                                       ELSE p.resident[c]
             /\ m.evicted # b
             /\ m.evicted \in Blocks => IsResident(p, m.evicted) /\ p.pinned[m.evicted] = 0
<1> DEFINE t == SlotFrom(p, Evictable(p))
           q == Stamped(t.pager, b)
           r == Insert(q, b, t.slot, policy)
<1>1. /\ p \in PagerType /\ p.resident \in [Blocks -> Slots \cup {NoSlot}]
      /\ p.lru \in Seq(Blocks)
  BY FieldsType DEF Sound
<1>2. Evictable(p) \in SUBSET DOMAIN p.lru /\ \A i \in Evictable(p) : p.pinned[p.lru[i]] = 0
  BY DEF Evictable
<1>3. /\ t = [slot |-> t.slot, evicted |-> t.evicted, pager |-> t.pager]
      /\ Without(t.pager, t.slot)
      /\ t.pager.pinned = p.pinned /\ t.pager.cur = p.cur
      /\ \/ /\ t.evicted = NoBlock /\ t.pager.resident = p.resident
            /\ t.pager.epoch = p.epoch
         \/ /\ \E i \in Evictable(p) : t.evicted = p.lru[i]
            /\ t.evicted \in Blocks /\ IsResident(p, t.evicted)
            /\ t.slot = p.resident[t.evicted]
            /\ t.pager.resident = [p.resident EXCEPT ![t.evicted] = NoSlot]
            /\ t.pager.epoch = [p.epoch EXCEPT ![t.evicted] = NoEpoch]
  <2>1. p.free # <<>> \/ Evictable(p) # {}
    BY DEF CanTakeSlot
  <2> QED
    BY <1>2, <2>1, SlotFromSound, Zenon
<1>4. MissAndPin(p, b, policy) = [slot |-> t.slot, evicted |-> t.evicted, pager |-> Pin(r, b)]
  <2>1. MissAndPin(p, b, policy) = [t EXCEPT !.pager = Pin(Insert(Stamped(t.pager, b), b, t.slot, policy), b)]
    BY Zenon DEF MissAndPin, TakeSlotOpt
  <2>2. \A x : [[slot |-> t.slot, evicted |-> t.evicted, pager |-> t.pager] EXCEPT !.pager = x]
                = [slot |-> t.slot, evicted |-> t.evicted, pager |-> x]
    OBVIOUS
  <2> HIDE DEF t
  <2> QED
    BY <1>3, <2>1, <2>2, Zenon
<1> HIDE DEF t
<1>5. t.pager \in PagerType /\ t.slot \in Slots
  BY <1>3 DEF Without
<1>6. /\ q.resident = t.pager.resident /\ q.pinned = t.pager.pinned /\ q.cur = t.pager.cur
      /\ Without(q, t.slot)
  <2>1. /\ q \in PagerType /\ q.resident = t.pager.resident /\ q.lru = t.pager.lru
        /\ q.free = t.pager.free /\ q.pinned = t.pager.pinned /\ q.cur = t.pager.cur
    BY <1>5, StampKeeps
  <2> HIDE DEF q
  <2> QED
    BY <1>3, <2>1, SameWhereabouts
<1> HIDE DEF q
<1>7. t.evicted = NoBlock \/ t.evicted \in Blocks
  BY <1>3
<1>8. \A c \in Blocks : q.resident[c] = IF c = t.evicted THEN NoSlot ELSE p.resident[c]
  BY <1>1, <1>3, <1>6, NoBlockIsNoBlock
<1>9. ~IsResident(q, b)
  BY <1>8 DEF IsResident
<1>10. /\ Sound(r) /\ r.resident = [q.resident EXCEPT ![b] = t.slot]
       /\ r.pinned = q.pinned /\ r.cur = q.cur
  BY <1>6, <1>9, InsertSound
<1> HIDE DEF r
<1>11. /\ Pin(r, b).resident = r.resident /\ Pin(r, b).cur = r.cur /\ Sound(Pin(r, b))
       /\ Pin(r, b).pinned = [r.pinned EXCEPT ![b] = @ + 1]
  <2>1. r \in PagerType
    BY <1>10 DEF Sound
  <2> QED
    BY <2>1, <1>10, PinKeeps, SameWhereabouts
<1>12. q.resident \in [Blocks -> Slots \cup {NoSlot}]
  BY <1>6, FieldsType DEF Without
<1>13. \A c \in Blocks : r.resident[c] = IF c = b THEN t.slot
                                         ELSE IF c = t.evicted THEN NoSlot
                                         ELSE p.resident[c]
  BY <1>8, <1>10, <1>12
<1>14. t.evicted \in Blocks => IsResident(p, t.evicted) /\ p.pinned[t.evicted] = 0
  BY <1>2, <1>3, NoBlockIsNoBlock
<1>15. t.evicted # b
  BY <1>14, <1>7, NoBlockIsNoBlock
<1>16. r.pinned = p.pinned /\ r.cur = p.cur
  BY <1>3, <1>6, <1>10
<1> QED
  BY <1>4, <1>5, <1>11, <1>13, <1>14, <1>15, <1>16

-----------------------------------------------------------------------------
(* A hit only reorders the recency order.                                    *)
LEMMA MarkMruSound ==
  ASSUME NEW p, Sound(p), NEW b \in Blocks, IsResident(p, b)
  PROVE  LET q == MarkMru(p, b)
         IN  /\ Sound(q)
             /\ q.resident = p.resident /\ q.epoch = p.epoch
             /\ q.pinned = p.pinned /\ q.cur = p.cur
<1> DEFINE l == RemoveFirst(p.lru, b)
           n == Append(l, b)
           q == [p EXCEPT !.lru = n]
<1>1. /\ p \in PagerType /\ SlotsDisjoint(p) /\ OrderExact(p) /\ AllBut(p, 0)
      /\ p.lru \in Seq(Blocks)
  BY FieldsType DEF Sound
<1>2. MarkMru(p, b) = q
  BY DEF MarkMru
<1>3. /\ l \in Seq(Blocks)
      /\ \A j \in DOMAIN l : l[j] # b
      /\ \A j, k \in DOMAIN l : l[j] = l[k] => j = k
      /\ \A j \in DOMAIN l : \E k \in DOMAIN p.lru : l[j] = p.lru[k]
      /\ \A k \in DOMAIN p.lru : p.lru[k] # b => \E j \in DOMAIN l : l[j] = p.lru[k]
  <2>1. \A j, k \in DOMAIN p.lru : p.lru[j] = p.lru[k] => j = k
    BY <1>1 DEF OrderExact
  <2> QED
    BY <2>1, <1>1, RemoveFirstKeeps
<1> HIDE DEF l
<1>4. /\ n \in Seq(Blocks)
      /\ DOMAIN n = 1 .. Len(l) + 1 /\ DOMAIN l = 1 .. Len(l) /\ Len(l) \in Nat
      /\ \A i \in DOMAIN l : n[i] = l[i]
      /\ n[Len(l) + 1] = b
  BY <1>3
<1> HIDE DEF n
<1>5. /\ q \in PagerType /\ q.lru = n /\ q.free = p.free
      /\ q.resident = p.resident /\ q.epoch = p.epoch
      /\ q.pinned = p.pinned /\ q.cur = p.cur
  BY <1>1, <1>4 DEF PagerType
<1> HIDE DEF q
<1>6. SlotsDisjoint(q) /\ AllBut(q, 0)
  BY <1>1, <1>5 DEF SlotsDisjoint, AllBut, ResidentBlocks, IsResident
<1>7. OrderExact(q)
  <2>1. \A i, j \in DOMAIN n : n[i] = n[j] => i = j
    BY <1>3, <1>4
  <2>2. \A i \in DOMAIN n : IsResident(p, n[i])
    BY <1>1, <1>3, <1>4 DEF OrderExact
  <2>3. \A c \in ResidentBlocks(p) : \E i \in DOMAIN n : n[i] = c
    <3> SUFFICES ASSUME NEW c \in ResidentBlocks(p) PROVE \E i \in DOMAIN n : n[i] = c
      OBVIOUS
    <3>1. CASE c = b
      BY <3>1, <1>4
    <3>2. CASE c # b
      <4>1. PICK k \in DOMAIN p.lru : p.lru[k] = c
        BY <1>1 DEF OrderExact
      <4>2. PICK j \in DOMAIN l : l[j] = c
        BY <3>2, <4>1, <1>3
      <4>3. j \in DOMAIN n /\ n[j] = c
        BY <4>2, <1>4
      <4> QED
        BY <4>3
    <3> QED
      BY <3>1, <3>2
  <2>4. ResidentBlocks(q) = ResidentBlocks(p) /\ \A c : IsResident(q, c) <=> IsResident(p, c)
    BY <1>5 DEF ResidentBlocks, IsResident
  <2> QED
    BY <2>1, <2>2, <2>3, <2>4, <1>5 DEF OrderExact
<1> QED
  BY <1>2, <1>5, <1>6, <1>7 DEF Sound

(* The batched interface: the block touched is resident and of the batch; no    *)
(* other block comes in, and the one that goes, if any, is not of an open       *)
(* batch.                                                                   *)
LEMMA TouchSound ==
  ASSUME NEW p, Sound(p), NEW b \in Blocks, NEW policy,
         IsResident(p, b) \/ ~TakeSlotPanics(Stamped(p, b))
  PROVE  LET q == Touch(p, b, policy).pager
         IN  /\ Sound(q) /\ q.cur = p.cur
             /\ IsResident(q, b) /\ q.epoch[b] = p.cur
             /\ \A c \in Blocks : c # b =>
                  \/ /\ IsResident(q, c) <=> IsResident(p, c)
                     /\ q.epoch[c] = p.epoch[c]
                  \/ /\ IsResident(p, c) /\ ~IsResident(q, c) /\ q.epoch[c] = NoEpoch
                     /\ p.cur = 0 \/ p.epoch[c] # p.cur
<1> DEFINE s == Stamped(p, b)
<1>1. p \in PagerType /\ p.resident \in [Blocks -> Slots \cup {NoSlot}]
      /\ p.epoch \in [Blocks -> Nat \cup {NoEpoch}] /\ p.lru \in Seq(Blocks) /\ NoSlot \notin Slots
  BY FieldsType, NSlotsPositive DEF Sound, Slots, NoSlot
<1>2. /\ s \in PagerType /\ s.resident = p.resident /\ s.lru = p.lru /\ s.free = p.free
      /\ s.cur = p.cur /\ s.epoch = [p.epoch EXCEPT ![b] = p.cur]
  BY <1>1, StampKeeps
<1>3. Sound(s)
  BY <1>2, SameWhereabouts
<1>4. s.epoch[b] = p.cur /\ \A c \in Blocks : c # b => s.epoch[c] = p.epoch[c]
  BY <1>1, <1>2
<1>5. CASE IsResident(p, b)
  <2> DEFINE q == IF policy = "Mru" THEN MarkMru(s, b) ELSE s
  <2>1. Touch(p, b, policy).pager = q
    BY <1>5 DEF Touch
  <2>2. IsResident(s, b)
    BY <1>2, <1>5 DEF IsResident
  <2> HIDE DEF s
  <2>3. Sound(q) /\ q.resident = s.resident /\ q.epoch = s.epoch /\ q.cur = s.cur
    BY <1>3, <2>2, MarkMruSound
  <2> HIDE DEF q
  <2> QED
    BY <2>1, <2>2, <2>3, <1>2, <1>4 DEF IsResident
<1>6. CASE ~IsResident(p, b)
  <2> DEFINE t == SlotFrom(s, Replaceable(s))
             q == Insert(t.pager, b, t.slot, policy)
  <2> HIDE DEF s
  <2>1. Replaceable(s) \in SUBSET DOMAIN s.lru
        /\ \A i \in Replaceable(s) : s.cur = 0 \/ s.epoch[s.lru[i]] # s.cur
    BY DEF Replaceable, InBatch
  <2>2. s.free # <<>> \/ Replaceable(s) # {}
    BY <1>6 DEF TakeSlotPanics, s
  <2>3. /\ t = [slot |-> t.slot, evicted |-> t.evicted, pager |-> t.pager]
        /\ Without(t.pager, t.slot)
        /\ t.pager.pinned = s.pinned /\ t.pager.cur = s.cur
        /\ \/ /\ t.evicted = NoBlock /\ t.pager.resident = s.resident
              /\ t.pager.epoch = s.epoch
           \/ /\ \E i \in Replaceable(s) : t.evicted = s.lru[i]
              /\ t.evicted \in Blocks /\ IsResident(s, t.evicted)
              /\ t.slot = s.resident[t.evicted]
              /\ t.pager.resident = [s.resident EXCEPT ![t.evicted] = NoSlot]
              /\ t.pager.epoch = [s.epoch EXCEPT ![t.evicted] = NoEpoch]
    BY <1>3, <2>1, <2>2, SlotFromSound, Zenon
  <2>4. Touch(p, b, policy).pager = q
    <3>1. Touch(p, b, policy) = [t EXCEPT !.pager = Insert(t.pager, b, t.slot, policy)]
      BY <1>6, Zenon DEF Touch, TakeSlot, s
    <3>2. \A x : [[slot |-> t.slot, evicted |-> t.evicted, pager |-> t.pager] EXCEPT !.pager = x].pager = x
      OBVIOUS
    <3> HIDE DEF t
    <3> QED
      BY <2>3, <3>1, <3>2, Zenon
  <2> HIDE DEF t
  <2>5. s.resident \in [Blocks -> Slots \cup {NoSlot}] /\ s.epoch \in [Blocks -> Nat \cup {NoEpoch}]
    BY <1>2, FieldsType
  <2>6. \A c \in Blocks :
          /\ t.pager.resident[c] = IF c = t.evicted THEN NoSlot ELSE s.resident[c]
          /\ t.pager.epoch[c] = IF c = t.evicted THEN NoEpoch ELSE s.epoch[c]
    BY <2>3, <2>5, NoBlockIsNoBlock
  <2>7. t.evicted = NoBlock \/ (t.evicted \in Blocks /\ IsResident(s, t.evicted)
                                /\ (s.cur = 0 \/ s.epoch[t.evicted] # s.cur))
    BY <2>1, <2>3
  <2>8. t.evicted # b
    BY <2>7, <1>2, <1>6, NoBlockIsNoBlock DEF IsResident
  <2>9. ~IsResident(t.pager, b)
    BY <2>6, <2>8, <1>2, <1>6 DEF IsResident
  <2>10. /\ Sound(q) /\ q.resident = [t.pager.resident EXCEPT ![b] = t.slot]
         /\ q.cur = t.pager.cur /\ q.epoch = t.pager.epoch
    BY <2>3, <2>9, InsertSound
  <2> HIDE DEF q
  <2>11. t.pager.resident \in [Blocks -> Slots \cup {NoSlot}] /\ t.slot \in Slots
    BY <2>3, FieldsType DEF Without
  <2>12. q.resident[b] = t.slot /\ \A c \in Blocks : c # b => q.resident[c] = t.pager.resident[c]
    BY <2>10, <2>11
  <2>13. IsResident(q, b) /\ q.epoch[b] = p.cur /\ q.cur = p.cur
    BY <2>3, <2>6, <2>8, <2>10, <2>11, <2>12, <1>1, <1>2, <1>4 DEF IsResident
  <2>14. ASSUME NEW c \in Blocks, c # b
         PROVE  \/ /\ IsResident(q, c) <=> IsResident(p, c)
                   /\ q.epoch[c] = p.epoch[c]
                \/ /\ IsResident(p, c) /\ ~IsResident(q, c) /\ q.epoch[c] = NoEpoch
                   /\ p.cur = 0 \/ p.epoch[c] # p.cur
    <3>1. CASE c = t.evicted
      BY <3>1, <2>6, <2>7, <2>10, <2>12, <2>14, <1>2, <1>4, NoBlockIsNoBlock DEF IsResident
    <3>2. CASE c # t.evicted
      BY <3>2, <2>6, <2>10, <2>12, <2>14, <1>2, <1>4 DEF IsResident
    <3> QED
      BY <3>1, <3>2
  <2> QED
    BY <2>4, <2>10, <2>13, <2>14
<1> QED
  BY <1>5, <1>6

(* Whom a miss of b may replace: b itself is not in the order, so its stamp    *)
(* protects nobody.                                                         *)
LEMMA ReplaceableIs ==
  ASSUME NEW p, Sound(p), NEW b \in Blocks, ~IsResident(p, b)
  PROVE  LET outside == {i \in DOMAIN p.lru : p.epoch[p.lru[i]] # p.cur}
         IN  Replaceable(Stamped(p, b))
               = IF outside = {} /\ p.cur = 0 THEN DOMAIN p.lru \cap {1} ELSE outside
<1> DEFINE s == Stamped(p, b)
           outside == {i \in DOMAIN p.lru : p.epoch[p.lru[i]] # p.cur}
<1>1. /\ p \in PagerType /\ p.epoch \in [Blocks -> Nat \cup {NoEpoch}] /\ p.lru \in Seq(Blocks)
      /\ OrderExact(p)
  BY FieldsType DEF Sound
<1>2. s.lru = p.lru /\ s.cur = p.cur /\ s.epoch = [p.epoch EXCEPT ![b] = p.cur]
  BY <1>1, StampKeeps
<1> HIDE DEF s
<1>3. \A i \in DOMAIN p.lru : p.lru[i] \in Blocks /\ p.lru[i] # b
  BY <1>1 DEF OrderExact
<1>4. \A i \in DOMAIN p.lru : InBatch(s, s.lru[i]) <=> p.epoch[p.lru[i]] = p.cur
  BY <1>1, <1>2, <1>3 DEF InBatch
<1>5. {i \in DOMAIN s.lru : ~InBatch(s, s.lru[i])} = outside
  BY <1>2, <1>4
<1> HIDE DEF outside
<1>6. Replaceable(s) = IF outside = {} /\ s.cur = 0 THEN DOMAIN s.lru \cap {1} ELSE outside
  BY <1>5, Zenon DEF Replaceable
<1> QED
  BY <1>2, <1>6 DEF s, outside

(* What a touch does to the recency order.                                   *)
Placed(l, b, policy) == IF policy = "Mru" THEN Append(l, b) ELSE <<b>> \o l

LEMMA HitOrder ==
  ASSUME NEW p, Sound(p), NEW b \in Blocks, NEW policy, IsResident(p, b)
  PROVE  LET q == Touch(p, b, policy).pager
         IN  /\ q.lru = IF policy = "Mru" THEN Append(RemoveFirst(p.lru, b), b) ELSE p.lru
             /\ q.resident = p.resident /\ q.free = p.free
<1> DEFINE s == Stamped(p, b)
<1>1. s \in PagerType /\ s.lru = p.lru /\ s.resident = p.resident /\ s.free = p.free
  BY StampKeeps DEF Sound
<1>2. Touch(p, b, policy).pager = IF policy = "Mru" THEN MarkMru(s, b) ELSE s
  BY DEF Touch
<1> HIDE DEF s
<1>3. /\ MarkMru(s, b).lru = Append(RemoveFirst(s.lru, b), b)
      /\ MarkMru(s, b).resident = s.resident /\ MarkMru(s, b).free = s.free
  BY <1>1 DEF MarkMru, PagerType
<1> QED
  BY <1>1, <1>2, <1>3

LEMMA MissOrder ==
  ASSUME NEW p, Sound(p), NEW b \in Blocks, NEW policy, ~IsResident(p, b),
         ~TakeSlotPanics(Stamped(p, b))
  PROVE  LET q == Touch(p, b, policy).pager
             victims == Replaceable(Stamped(p, b))
         IN  /\ p.free # <<>> =>
                  /\ q.lru = Placed(p.lru, b, policy)
                  /\ \A c \in Blocks : q.resident[c] = IF c = b THEN Last(p.free)
                                                     ELSE p.resident[c]
                  /\ q.free = Front(p.free)
             /\ p.free = <<>> =>
                  \E v \in victims :
                    /\ \A k \in victims : v <= k
                    /\ q.lru = Placed(RemoveAt(p.lru, v), b, policy)
                    /\ \A c \in Blocks : q.resident[c] = IF c = b THEN p.resident[p.lru[v]]
                                                       ELSE IF c = p.lru[v] THEN NoSlot
                                                       ELSE p.resident[c]
                    /\ q.free = p.free
<1> DEFINE s == Stamped(p, b)
           victims == Replaceable(s)
           t == SlotFrom(s, victims)
<1>1. s \in PagerType /\ s.lru = p.lru /\ s.resident = p.resident /\ s.free = p.free
  BY StampKeeps DEF Sound
<1>2. p.lru \in Seq(Blocks) /\ victims \in SUBSET DOMAIN p.lru
  <2>1. victims \in SUBSET DOMAIN s.lru
    BY DEF Replaceable
  <2> QED
    BY <1>1, <2>1, FieldsType DEF Sound
<1>3. Touch(p, b, policy) = [t EXCEPT !.pager = Insert(t.pager, b, t.slot, policy)]
  BY DEF Touch, TakeSlot
<1>4. p.free # <<>> \/ victims # {}
  BY <1>1 DEF TakeSlotPanics
<1> HIDE DEF s, victims
<1>5. ASSUME NEW q \in PagerType, NEW x
      PROVE  /\ Insert(q, b, x, policy).lru = Placed(q.lru, b, policy)
             /\ Insert(q, b, x, policy).resident = [q.resident EXCEPT ![b] = x]
             /\ Insert(q, b, x, policy).free = q.free
  BY DEF Insert, Placed, PagerType
<1>6. CASE p.free # <<>>
  <2> DEFINE u == [s EXCEPT !.free = Front(s.free)]
  <2>1. t = [slot |-> Last(s.free), evicted |-> NoBlock, pager |-> u]
    BY <1>1, <1>6 DEF SlotFrom
  <2>2. u.lru = p.lru /\ u.resident = p.resident /\ u.free = Front(p.free)
    BY <1>1 DEF PagerType
  <2>3. u \in PagerType
    <3>1. p.free \in Seq(Slots)
      BY FieldsType DEF Sound
    <3>2. Front(p.free) \in Seq(Slots)
      BY <3>1, <1>6 DEF Front
    <3> QED
      BY <3>2, <1>1 DEF PagerType
  <2> HIDE DEF u
  <2>4. Touch(p, b, policy).pager = Insert(u, b, Last(p.free), policy)
    BY <1>1, <1>3, <2>1
  <2>5. /\ Insert(u, b, Last(p.free), policy).lru = Placed(u.lru, b, policy)
        /\ Insert(u, b, Last(p.free), policy).resident = [u.resident EXCEPT ![b] = Last(p.free)]
        /\ Insert(u, b, Last(p.free), policy).free = u.free
    BY <1>5, <2>3
  <2>6. \A c \in Blocks : [p.resident EXCEPT ![b] = Last(p.free)][c]
                           = IF c = b THEN Last(p.free) ELSE p.resident[c]
    BY FieldsType DEF Sound
  <2> QED
    BY <1>6, <2>2, <2>4, <2>5, <2>6
<1>7. CASE p.free = <<>>
  <2> DEFINE i == CHOOSE j \in victims : \A k \in victims : j <= k
             v == s.lru[i]
             r == [s.resident EXCEPT ![v] = NoSlot]
             l == RemoveAt(s.lru, i)
             e == [s.epoch EXCEPT ![v] = NoEpoch]
             u == [s EXCEPT !.lru = l, !.resident = r, !.epoch = e]
  <2>1. t = [slot |-> s.resident[v], evicted |-> v, pager |-> u]
    <3>1. s.free = <<>>
      BY <1>1, <1>7
    <3> QED
      BY <3>1 DEF SlotFrom
  <2>a. v = p.lru[i] /\ r = [p.resident EXCEPT ![v] = NoSlot] /\ l = RemoveAt(p.lru, i)
    BY <1>1
  <2>2. i \in victims /\ \A k \in victims : i <= k
    <3>1. victims \in SUBSET Nat /\ victims # {}
      BY <1>2, <1>4, <1>7
    <3>2. \E j \in victims : \A k \in victims : j <= k
      BY <3>1, LeastExists
    <3> QED
      BY <3>2
  <2> HIDE DEF i
  <2>3. /\ v \in Blocks /\ l \in Seq(Blocks)
        /\ r \in [Blocks -> Slots \cup {NoSlot}] /\ e \in [Blocks -> Nat \cup {NoEpoch}]
    <3>1. i \in DOMAIN p.lru /\ v \in Blocks
      BY <1>2, <2>2, <2>a
    <3>2. l \in Seq(Blocks)
      BY <3>1, <1>2, <2>a, RemoveAtIs
    <3>3. p.resident \in [Blocks -> Slots \cup {NoSlot}] /\ s.epoch \in [Blocks -> Nat \cup {NoEpoch}]
      BY <1>1, FieldsType DEF Sound
    <3> QED
      BY <3>1, <3>2, <3>3, <2>a
  <2> HIDE DEF v, l, r, e
  <2>4. u \in PagerType /\ u.lru = l /\ u.resident = r /\ u.free = p.free
    BY <1>1, <2>3 DEF PagerType
  <2> HIDE DEF u
  <2>5. Touch(p, b, policy).pager = Insert(u, b, p.resident[v], policy)
    BY <1>1, <1>3, <2>1
  <2>6. /\ Insert(u, b, p.resident[v], policy).lru = Placed(u.lru, b, policy)
        /\ Insert(u, b, p.resident[v], policy).resident = [u.resident EXCEPT ![b] = p.resident[v]]
        /\ Insert(u, b, p.resident[v], policy).free = u.free
    BY <1>5, <2>4
  <2> DEFINE q == Touch(p, b, policy).pager
  <2>7. /\ q.lru = Placed(RemoveAt(p.lru, i), b, policy) /\ q.free = p.free
        /\ q.resident = [r EXCEPT ![b] = p.resident[v]]
    BY <2>4, <2>5, <2>6, <2>a
  <2>8. \A c \in Blocks : q.resident[c] = IF c = b THEN p.resident[v]
                                          ELSE IF c = v THEN NoSlot ELSE p.resident[c]
    <3>1. p.resident \in [Blocks -> Slots \cup {NoSlot}] /\ r = [p.resident EXCEPT ![v] = NoSlot]
      BY <2>a, FieldsType DEF Sound
    <3> HIDE DEF q
    <3> QED
      BY <3>1, <2>7
  <2> HIDE DEF q
  <2>9. /\ \A c \in Blocks : q.resident[c] = IF c = b THEN p.resident[p.lru[i]]
                                             ELSE IF c = p.lru[i] THEN NoSlot
                                             ELSE p.resident[c]
    BY <2>8, <2>a
  <2> QED
    BY <1>7, <2>2, <2>7, <2>9 DEF victims, s, q
<1> QED
  BY <1>6, <1>7

(* take_slot panics only when every slot holds a block of the open batch.      *)
LEMMA PanicMeansFull ==
  ASSUME NEW p, Sound(p), NEW b \in Blocks, ~IsResident(p, b), TakeSlotPanics(Stamped(p, b))
  PROVE  /\ p.cur # 0
         /\ \A c \in ResidentBlocks(p) : p.epoch[c] = p.cur
         /\ Cardinality(ResidentBlocks(p)) = NSlots /\ IsFiniteSet(ResidentBlocks(p))
<1> DEFINE s == Stamped(p, b)
<1>1. /\ p \in PagerType /\ p.epoch \in [Blocks -> Nat \cup {NoEpoch}] /\ p.lru \in Seq(Blocks)
      /\ OrderExact(p) /\ AllBut(p, 0)
  BY FieldsType DEF Sound
<1>2. /\ s.lru = p.lru /\ s.free = p.free
      /\ s.cur = p.cur /\ s.epoch = [p.epoch EXCEPT ![b] = p.cur]
  BY <1>1, StampKeeps
<1> HIDE DEF s
<1>3. p.free = <<>> /\ Replaceable(s) = {}
  BY <1>2 DEF TakeSlotPanics, s
<1>4. Cardinality(ResidentBlocks(p)) = NSlots /\ IsFiniteSet(ResidentBlocks(p))
  <2>1. /\ IsFiniteSet(ResidentBlocks(p)) /\ Len(p.free) = 0
        /\ Len(p.free) + Cardinality(ResidentBlocks(p)) + 0 = NSlots
    BY <1>1, <1>3 DEF AllBut
  <2>2. Cardinality(ResidentBlocks(p)) \in Nat
    BY <2>1, FS_CardinalityType
  <2> QED
    BY <2>1, <2>2
<1>5. PICK c0 \in ResidentBlocks(p) : TRUE
  BY <1>4, FS_EmptySet, NSlotsPositive
<1>6. DOMAIN p.lru = 1 .. Len(p.lru) /\ Len(p.lru) \in Nat /\ 1 \in DOMAIN p.lru
  BY <1>1, <1>5 DEF OrderExact
<1>7. p.cur # 0 /\ \A i \in DOMAIN p.lru : s.epoch[p.lru[i]] = p.cur
  <2> DEFINE outside == {i \in DOMAIN s.lru : ~InBatch(s, s.lru[i])}
  <2>1. outside = {} /\ s.cur # 0
    <3>1. CASE outside = {} /\ s.cur = 0
      BY <3>1, <1>2, <1>3, <1>6 DEF Replaceable
    <3>2. CASE ~(outside = {} /\ s.cur = 0)
      BY <3>2, <1>3 DEF Replaceable
    <3> QED
      BY <3>1, <3>2
  <2> QED
    BY <2>1, <1>2 DEF InBatch
<1>8. \A c \in ResidentBlocks(p) : p.epoch[c] = p.cur
  <2> SUFFICES ASSUME NEW c \in ResidentBlocks(p) PROVE p.epoch[c] = p.cur
    OBVIOUS
  <2>1. c \in Blocks /\ c # b
    BY DEF ResidentBlocks
  <2>2. PICK i \in DOMAIN p.lru : p.lru[i] = c
    BY <1>1 DEF OrderExact
  <2> QED
    BY <2>1, <2>2, <1>1, <1>2, <1>7
<1> QED
  BY <1>4, <1>7, <1>8

-----------------------------------------------------------------------------
(* Lists without repetitions.                                               *)
LEMMA ListCounts ==
  ASSUME NEW T, NEW s \in Seq(T), \A i, j \in DOMAIN s : s[i] = s[j] => i = j,
         NEW S, \A i \in DOMAIN s : s[i] \in S, \A x \in S : \E i \in DOMAIN s : s[i] = x
  PROVE  IsFiniteSet(S) /\ Cardinality(S) = Len(s) /\ Len(s) \in Nat
<1>1. Len(s) \in Nat /\ DOMAIN s = 1 .. Len(s) /\ s \in [1 .. Len(s) -> S]
  OBVIOUS
<1>2. s \in Bijection(1 .. Len(s), S)
  BY <1>1 DEF Bijection, Injection, Surjection, IsInjective
<1>3. ExistsBijection(1 .. Len(s), S)
  BY <1>2 DEF ExistsBijection
<1>4. IsFiniteSet(1 .. Len(s)) /\ Cardinality(1 .. Len(s)) = Len(s)
  BY <1>1, FS_Interval
<1> QED
  BY <1>1, <1>3, <1>4, FS_Bijection

LEMMA ConsIs ==
  ASSUME NEW T, NEW s \in Seq(T), NEW e \in T
  PROVE  LET r == <<e>> \o s IN
         /\ r \in Seq(T) /\ Len(r) = Len(s) + 1 /\ Len(s) \in Nat /\ DOMAIN r = 1 .. Len(s) + 1
         /\ r[1] = e /\ \A i \in 2 .. Len(s) + 1 : r[i] = s[i - 1]
<1> DEFINE r == <<e>> \o s
           u == <<e>>
<1>1. u \in Seq(T) /\ Len(u) = 1 /\ u[1] = e /\ Len(s) \in Nat
  OBVIOUS
<1> HIDE DEF u
<1>a. /\ u \o s \in Seq(T) /\ Len(u \o s) = Len(u) + Len(s)
      /\ \A i \in 1 .. Len(u) + Len(s) :
           (u \o s)[i] = IF i <= Len(u) THEN u[i] ELSE s[i - Len(u)]
  BY <1>1, ConcatProperties
<1>2. /\ u \o s \in Seq(T) /\ Len(u \o s) = 1 + Len(s)
      /\ \A i \in 1 .. 1 + Len(s) : (u \o s)[i] = IF i <= 1 THEN u[i] ELSE s[i - 1]
  BY <1>1, <1>a, Zenon
<1>3. r = u \o s
  BY DEF u
<1> HIDE DEF r
<1>4. r \in Seq(T) /\ Len(r) = Len(s) + 1 /\ DOMAIN r = 1 .. Len(s) + 1
  BY <1>1, <1>2, <1>3
<1>5. r[1] = e /\ \A i \in 2 .. Len(s) + 1 : r[i] = s[i - 1]
  BY <1>1, <1>2, <1>3
<1> QED
  BY <1>1, <1>4, <1>5 DEF r

LEMMA AppendIs ==
  ASSUME NEW T, NEW s \in Seq(T), NEW e \in T
  PROVE  LET r == Append(s, e) IN
         /\ r \in Seq(T) /\ Len(r) = Len(s) + 1 /\ Len(s) \in Nat /\ DOMAIN r = 1 .. Len(s) + 1
         /\ r[Len(s) + 1] = e /\ \A i \in 1 .. Len(s) : r[i] = s[i]
OBVIOUS

(* The recency order and the resident blocks are as many, and with the free     *)
(* slots they are NSlots.                                                   *)
LEMMA OrderCounts ==
  ASSUME NEW p, Sound(p)
  PROVE  /\ Len(p.lru) = Cardinality(ResidentBlocks(p)) /\ Len(p.lru) \in Nat
         /\ Len(p.free) \in Nat /\ Len(p.free) + Len(p.lru) = NSlots
         /\ ToSet(p.lru) = ResidentBlocks(p)
<1>1. /\ p.lru \in Seq(Blocks) /\ p.free \in Seq(Slots) /\ OrderExact(p) /\ AllBut(p, 0)
  BY FieldsType DEF Sound
<1>2. /\ \A i, j \in DOMAIN p.lru : p.lru[i] = p.lru[j] => i = j
      /\ \A i \in DOMAIN p.lru : p.lru[i] \in ResidentBlocks(p)
      /\ \A x \in ResidentBlocks(p) : \E i \in DOMAIN p.lru : p.lru[i] = x
  BY <1>1 DEF OrderExact, ResidentBlocks
<1>3. Cardinality(ResidentBlocks(p)) = Len(p.lru) /\ Len(p.lru) \in Nat
  BY <1>1, <1>2, ListCounts
<1>4. Len(p.free) \in Nat
  BY <1>1
<1>5. Len(p.free) + Cardinality(ResidentBlocks(p)) + 0 = NSlots
  BY <1>1 DEF AllBut
<1>6. ToSet(p.lru) = ResidentBlocks(p)
  BY <1>2 DEF ToSet
<1>7. Len(p.free) + Len(p.lru) = NSlots
  <2> DEFINE f == Len(p.free)
             l == Len(p.lru)
  <2>1. f \in Nat /\ l \in Nat /\ f + l + 0 = NSlots
    BY <1>3, <1>4, <1>5
  <2> HIDE DEF f, l
  <2>2. f + l = NSlots
    BY <2>1
  <2> QED
    BY <2>2 DEF f, l
<1> QED
  BY <1>3, <1>4, <1>6, <1>7

(* Every slot is in one place.                                               *)
LEMMA EachSlotOnce ==
  ASSUME NEW p, Sound(p), NEW s \in Slots
  PROVE  Cardinality({i \in DOMAIN p.free : p.free[i] = s})
           + Cardinality({b \in Blocks : p.resident[b] = s}) = 1
<1> DEFINE F == {x \in Slots : \E i \in DOMAIN p.free : p.free[i] = x}
           U == {x \in Slots : \E b \in Blocks : p.resident[b] = x}
           R == ResidentBlocks(p)
<1>1. /\ p.resident \in [Blocks -> Slots \cup {NoSlot}] /\ p.free \in Seq(Slots)
      /\ SlotsDisjoint(p) /\ AllBut(p, 0)
  BY FieldsType DEF Sound
<1>2. NoSlot \notin Slots
  BY NSlotsPositive DEF Slots, NoSlot
<1>3. IsFiniteSet(F) /\ Cardinality(F) = Len(p.free) /\ Len(p.free) \in Nat
  <2>1. \A i, j \in DOMAIN p.free : p.free[i] = p.free[j] => i = j
    BY <1>1 DEF SlotsDisjoint
  <2>2. (\A i \in DOMAIN p.free : p.free[i] \in F) /\ (\A x \in F : \E i \in DOMAIN p.free : p.free[i] = x)
    BY <1>1
  <2> HIDE DEF F
  <2> QED
    BY <1>1, <2>1, <2>2, ListCounts
<1>4. IsFiniteSet(U) /\ Cardinality(U) = Cardinality(R)
  <2> DEFINE f == [b \in R |-> p.resident[b]]
  <2>1. \A b \in R : b \in Blocks /\ p.resident[b] \in Slots
    BY <1>1 DEF ResidentBlocks, IsResident
  <2>2. f \in [R -> U]
    BY <2>1
  <2>3. \A b, c \in R : f[b] = f[c] => b = c
    BY <1>1 DEF SlotsDisjoint, ResidentBlocks, IsResident
  <2>4. \A x \in U : \E b \in R : f[b] = x
    BY <1>2 DEF ResidentBlocks, IsResident
  <2>5. IsFiniteSet(R)
    BY <1>1 DEF AllBut
  <2> HIDE DEF f, U, R
  <2>6. f \in Bijection(R, U)
    BY <2>2, <2>3, <2>4 DEF Bijection, Injection, Surjection, IsInjective
  <2>7. ExistsBijection(R, U)
    BY <2>6 DEF ExistsBijection
  <2> QED
    BY <2>5, <2>7, FS_Bijection
<1>5. F \cap U = {}
  BY <1>1 DEF SlotsDisjoint
<1>6. F \cup U = Slots
  <2>1. F \cup U \in SUBSET Slots
    OBVIOUS
  <2>2. IsFiniteSet(Slots) /\ Cardinality(Slots) = NSlots
    <3>1. 0 \in Int /\ NSlots - 1 \in Int /\ ~(0 > NSlots - 1) /\ NSlots - 1 - 0 + 1 = NSlots
      BY NSlotsPositive
    <3> QED
      BY <3>1, FS_Interval DEF Slots
  <2>3. Len(p.free) + Cardinality(R) + 0 = NSlots /\ Cardinality(R) \in Nat
    BY <1>1, FS_CardinalityType DEF AllBut
  <2> HIDE DEF F, U, R
  <2>4. Cardinality(F \cap U) = 0
    BY <1>5, FS_EmptySet
  <2>5. Cardinality(F \cup U) = Cardinality(F) + Cardinality(U) - Cardinality(F \cap U)
    BY <1>3, <1>4, FS_Union
  <2>6. Cardinality(F \cup U) = NSlots
    BY <1>3, <1>4, <2>3, <2>4, <2>5, NSlotsPositive
  <2> QED
    BY <2>1, <2>2, <2>6, FS_Subset
<1>7. CASE s \in F
  <2>1. PICK i \in DOMAIN p.free : p.free[i] = s
    BY <1>7
  <2>2. {j \in DOMAIN p.free : p.free[j] = s} = {i}
    BY <2>1, <1>1 DEF SlotsDisjoint
  <2>3. {b \in Blocks : p.resident[b] = s} = {}
    BY <1>5, <1>7
  <2>4. Cardinality({i}) = 1 /\ Cardinality({}) = 0
    BY FS_Singleton, FS_EmptySet
  <2> QED
    BY <2>2, <2>3, <2>4
<1>8. CASE s \in U /\ s \notin F
  <2>1. PICK b \in Blocks : p.resident[b] = s
    BY <1>8
  <2>2. {c \in Blocks : p.resident[c] = s} = {b}
    BY <2>1, <1>1, <1>2 DEF SlotsDisjoint, IsResident
  <2>3. {i \in DOMAIN p.free : p.free[i] = s} = {}
    BY <1>8
  <2>4. Cardinality({b}) = 1 /\ Cardinality({}) = 0
    BY FS_Singleton, FS_EmptySet
  <2> QED
    BY <2>2, <2>3, <2>4
<1> HIDE DEF F, U
<1> QED
  BY <1>6, <1>7, <1>8
=============================================================================
