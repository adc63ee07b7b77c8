----------------------------- MODULE PagerProofs -----------------------------
(***************************************************************************)
(* Proofs about the block cache under one owner, for any blocks, any number   *)
(* of slots and any sequence of batches: no slot is lost, a block touched in   *)
(* the open batch keeps its slot, a panic means what its message says, a scan  *)
(* spares the hot set, and a sweep over the layers of a model is near optimal. *)
(***************************************************************************)
EXTENDS MCPager, PagerOpsProofs

(* The epochs tell what the open batch has touched.                          *)
EpochsTell ==
  /\ \A b \in Blocks : pg.epoch[b] <= pg.cur
  /\ ~panicked /\ pg.cur # 0 =>
       \A b \in ResidentBlocks(pg) : pg.epoch[b] = pg.cur <=> b \in batch

CacheInv ==
  /\ Sound(pg) /\ batch \in SUBSET Blocks
  /\ EpochsTell /\ BatchSurvives

LEMMA InitCache == Init => CacheInv
<1> SUFFICES ASSUME Init PROVE CacheInv
  OBVIOUS
<1>1. Sound(pg) /\ pg.cur = 0 /\ pg.epoch = [b \in Blocks |-> NoEpoch]
  BY NewPagerSound DEF Init, NewPager
<1> QED
  BY <1>1 DEF Init, CacheInv, EpochsTell, BatchSurvives, NoEpoch

LEMMA OpenStep == ASSUME CacheInv, OpenBatch PROVE CacheInv'
<1>1. /\ ~panicked /\ ~panicked' /\ batch' = {} /\ pg' = BeginBatch(pg)
  BY DEF OpenBatch
<1>2. /\ pg \in PagerType /\ pg.cur \in Nat /\ pg.epoch \in [Blocks -> Nat \cup {NoEpoch}]
  BY FieldsType DEF CacheInv, Sound
<1>3. /\ pg' \in PagerType /\ pg'.cur = pg.cur + 1 /\ pg'.epoch = pg.epoch
      /\ pg'.resident = pg.resident /\ pg'.lru = pg.lru /\ pg'.free = pg.free
  BY <1>1, <1>2, OpenKeeps
<1>4. Sound(pg')
  BY <1>3, SameWhereabouts DEF CacheInv
<1>5. \A b \in Blocks : pg.epoch[b] <= pg.cur /\ pg.epoch[b] \in Int
  BY <1>2 DEF CacheInv, EpochsTell, NoEpoch
<1>6. EpochsTell'
  BY <1>1, <1>2, <1>3, <1>5 DEF EpochsTell, ResidentBlocks
<1> QED
  BY <1>1, <1>4, <1>6 DEF CacheInv, BatchSurvives

LEMMA TouchStep ==
  ASSUME CacheInv, NEW b \in Blocks, NEW policy \in InsertPolicies, TouchBlock(b, policy)
  PROVE  CacheInv'
<1> DEFINE q == Touch(pg, b, policy).pager
<1>1. /\ ~panicked /\ ~panicked' /\ pg' = q
      /\ batch' = (IF pg.cur = 0 THEN {} ELSE batch) \cup {b}
      /\ IsResident(pg, b) \/ ~TakeSlotPanics(Stamped(pg, b))
  BY DEF TouchBlock, BatchWith
<1>2. Sound(pg) /\ pg \in PagerType /\ pg.cur \in Nat /\ pg.epoch \in [Blocks -> Nat \cup {NoEpoch}]
  BY FieldsType DEF CacheInv, Sound
<1>3. /\ Sound(q) /\ q.cur = pg.cur
      /\ IsResident(q, b) /\ q.epoch[b] = pg.cur
      /\ \A c \in Blocks : c # b =>
           \/ /\ IsResident(q, c) <=> IsResident(pg, c)
              /\ q.epoch[c] = pg.epoch[c]
           \/ /\ IsResident(pg, c) /\ ~IsResident(q, c) /\ q.epoch[c] = NoEpoch
              /\ pg.cur = 0 \/ pg.epoch[c] # pg.cur
  BY <1>1, <1>2, TouchSound
<1> HIDE DEF q
<1>4. \A c \in Blocks : q.epoch[c] <= q.cur
  BY <1>2, <1>3 DEF CacheInv, EpochsTell, NoEpoch
<1>5. batch' \in SUBSET Blocks
  BY <1>1 DEF CacheInv
<1>6. batch \subseteq ResidentBlocks(pg)
  BY <1>1 DEF CacheInv, BatchSurvives
<1>7. ASSUME NEW c \in batch' PROVE IsResident(q, c)
  <2>1. CASE c = b
    BY <2>1, <1>3
  <2>2. CASE c # b
    <3>1. pg.cur # 0 /\ c \in batch /\ c \in Blocks /\ IsResident(pg, c)
      BY <2>2, <1>1, <1>6, <1>7 DEF ResidentBlocks
    <3>2. pg.epoch[c] = pg.cur
      BY <3>1, <1>1, <1>6 DEF CacheInv, EpochsTell
    <3> QED
      BY <2>2, <3>1, <3>2, <1>3
  <2> QED
    BY <2>1, <2>2
<1>8. ASSUME q.cur # 0, NEW c \in Blocks, IsResident(q, c)
      PROVE  q.epoch[c] = q.cur <=> c \in batch'
  <2>1. CASE c = b
    BY <2>1, <1>1, <1>3
  <2>2. CASE c # b
    <3>1. IsResident(pg, c) /\ q.epoch[c] = pg.epoch[c]
      BY <2>2, <1>3, <1>8
    <3>2. pg.epoch[c] = pg.cur <=> c \in batch
      BY <3>1, <1>1, <1>3, <1>8 DEF CacheInv, EpochsTell, ResidentBlocks
    <3> QED
      BY <2>2, <3>1, <3>2, <1>1, <1>3, <1>8
  <2> QED
    BY <2>1, <2>2
<1> QED
  BY <1>1, <1>3, <1>4, <1>5, <1>7, <1>8 DEF CacheInv, EpochsTell, BatchSurvives, ResidentBlocks

LEMMA PanicStep == ASSUME CacheInv, NEW b \in Blocks, TouchPanics(b) PROVE CacheInv'
<1>1. /\ ~panicked /\ panicked' /\ pg' = pg /\ ~IsResident(pg, b)
      /\ batch' = (IF pg.cur = 0 THEN {} ELSE batch) \cup {b}
      /\ TakeSlotPanics(Stamped(pg, b))
  BY DEF TouchPanics, BatchWith
<1>2. /\ pg.cur # 0
      /\ \A c \in ResidentBlocks(pg) : pg.epoch[c] = pg.cur
      /\ Cardinality(ResidentBlocks(pg)) = NSlots /\ IsFiniteSet(ResidentBlocks(pg))
  BY <1>1, PanicMeansFull DEF CacheInv
<1>3. batch = ResidentBlocks(pg)
  BY <1>1, <1>2 DEF CacheInv, EpochsTell, BatchSurvives
<1>4. batch' = ResidentBlocks(pg) \cup {b} /\ b \notin ResidentBlocks(pg)
  BY <1>1, <1>2, <1>3 DEF ResidentBlocks
<1>5. Cardinality(batch') = NSlots + 1
  BY <1>2, <1>4, FS_AddElement
<1>6. BatchSurvives'
  BY <1>1, <1>5, NSlotsPositive DEF BatchSurvives
<1>7. EpochsTell' /\ batch' \in SUBSET Blocks
  BY <1>1 DEF CacheInv, EpochsTell
<1> QED
  BY <1>1, <1>6, <1>7 DEF CacheInv

LEMMA CacheAlways == Spec => []CacheInv
<1>1. CacheInv /\ [Next]_vars => CacheInv'
  <2>1. CacheInv /\ UNCHANGED vars => CacheInv'
    BY DEF vars, CacheInv, EpochsTell, BatchSurvives
  <2> QED
    BY <2>1, OpenStep, TouchStep, PanicStep DEF Next
<1> QED
  BY <1>1, InitCache, PTL DEF Spec

-----------------------------------------------------------------------------
(* Recency.  An order l lists the n latest of the blocks touched, r, the latest   *)
(* last.                                                                    *)
Latest(l, r, size) ==
  /\ Len(l) = IF Len(r) < size THEN Len(r) ELSE size
  /\ \A i \in DOMAIN l : l[i] = r[Len(l) + 1 - i]

Once(s) == \A i, j \in DOMAIN s : s[i] = s[j] => i = j

LEMMA HitIsLatest ==
  ASSUME NEW l \in Seq(Blocks), NEW r \in Seq(Blocks), NEW size \in Nat \ {0},
         Latest(l, r, size), Once(l), Once(r), NEW k \in DOMAIN l
  PROVE  Latest(Append(RemoveAt(l, k), l[k]), <<l[k]>> \o RemoveFirst(r, l[k]), size)
<1> DEFINE b == l[k]
           n == Len(l)
           m == Len(r)
           d == n + 1 - k
           lo == RemoveAt(l, k)
           ro == RemoveAt(r, d)
<1>1. /\ n \in Nat /\ m \in Nat /\ k \in 1 .. n /\ b \in Blocks
      /\ DOMAIN l = 1 .. n /\ DOMAIN r = 1 .. m
      /\ n = IF m < size THEN m ELSE size
      /\ \A i \in 1 .. n : l[i] = r[n + 1 - i]
  BY DEF Latest
<1>2. /\ d \in 1 .. m /\ d <= n /\ r[d] = b
  BY <1>1
<1>3. RemoveFirst(r, b) = ro
  <2>1. RemoveFirst(r, r[d]) = RemoveAt(r, d)
    BY <1>1, <1>2, RemoveFirstIs DEF Once
  <2> QED
    BY <2>1, <1>2
<1>4. /\ lo \in Seq(Blocks) /\ Len(lo) = n - 1
      /\ \A i \in 1 .. n - 1 : lo[i] = IF i < k THEN l[i] ELSE l[i + 1]
  BY <1>1, RemoveAtIs
<1> HIDE DEF d
<1>5. /\ ro \in Seq(Blocks) /\ Len(ro) = m - 1
      /\ \A i \in 1 .. m - 1 : ro[i] = IF i < d THEN r[i] ELSE r[i + 1]
  <2>1. d \in DOMAIN r
    BY <1>1, <1>2
  <2> QED
    BY <2>1, RemoveAtIs
<1> HIDE DEF lo, ro, b
<1> DEFINE a == Append(lo, b)
           c == <<b>> \o ro
<1>6. /\ Len(a) = Len(lo) + 1 /\ DOMAIN a = 1 .. Len(lo) + 1
      /\ a[Len(lo) + 1] = b /\ \A i \in 1 .. Len(lo) : a[i] = lo[i]
  BY <1>1, <1>4, AppendIs
<1>7. /\ Len(c) = Len(ro) + 1
      /\ c[1] = b /\ \A i \in 2 .. Len(ro) + 1 : c[i] = ro[i - 1]
  <2>1. b \in Blocks /\ ro \in Seq(Blocks)
    BY <1>1, <1>5
  <2> QED
    BY <2>1, ConsIs
<1> HIDE DEF a, c, n, m
<1> USE DEF d
<1>8. /\ Len(a) = n /\ DOMAIN a = 1 .. n /\ a[n] = b /\ Len(c) = m
      /\ \A i \in 1 .. n - 1 : a[i] = lo[i]
      /\ \A i \in 2 .. m : c[i] = ro[i - 1]
  BY <1>1, <1>4, <1>5, <1>6, <1>7
<1>11. n \in Nat /\ m \in Nat
  BY <1>1
<1>9. ASSUME NEW i \in 1 .. n PROVE a[i] = c[n + 1 - i]
  <2>1. CASE i = n
    BY <2>1, <1>1, <1>7, <1>8
  <2>2. CASE i < k
    <3>1. i \in 1 .. n - 1 /\ a[i] = l[i] /\ l[i] = r[n + 1 - i]
      BY <2>2, <1>1, <1>4, <1>8
    <3>2. n + 1 - i \in 2 .. m /\ n + 1 - i - 1 = n - i
      BY <2>2, <1>1
    <3>5. n - i \in 1 .. m - 1 /\ ~(n - i < d) /\ n - i + 1 = n + 1 - i
      BY <2>2, <1>1
    <3>3. c[n + 1 - i] = ro[n - i]
      <4>1. \A j \in 2 .. m : c[j] = ro[j - 1]
        BY <1>8
      <4> DEFINE p == n + 1 - i
      <4>2. p \in 2 .. m /\ p - 1 = n - i
        BY <3>2, <1>11
      <4> HIDE DEF p
      <4>3. c[p] = ro[p - 1]
        BY <4>1, <4>2
      <4>4. c[p] = ro[n - i]
        BY <4>2, <4>3
      <4> QED
        BY <4>4 DEF p
    <3>4. ro[n - i] = r[n - i + 1]
      BY <3>5, <1>5
    <3> QED
      BY <3>1, <3>3, <3>4, <3>5
  <2>3. CASE k <= i /\ i < n
    <3>1. i \in 1 .. n - 1 /\ i + 1 \in 1 .. n /\ n + 1 - (i + 1) = n - i
      BY <2>3, <1>1
    <3>2. a[i] = l[i + 1]
      BY <2>3, <3>1, <1>1, <1>4, <1>8
    <3>3. l[i + 1] = r[n - i]
      BY <3>1, <1>1
    <3>4. n + 1 - i \in 2 .. m /\ n + 1 - i - 1 = n - i
      BY <2>3, <1>1
    <3>7. n - i \in 1 .. m - 1 /\ n - i < d
      BY <2>3, <1>1
    <3>5. c[n + 1 - i] = ro[n - i]
      <4>1. \A j \in 2 .. m : c[j] = ro[j - 1]
        BY <1>8
      <4> DEFINE p == n + 1 - i
      <4>2. p \in 2 .. m /\ p - 1 = n - i
        BY <3>4, <1>11
      <4> HIDE DEF p
      <4>3. c[p] = ro[p - 1]
        BY <4>1, <4>2
      <4>4. c[p] = ro[n - i]
        BY <4>2, <4>3
      <4> QED
        BY <4>4 DEF p
    <3>6. ro[n - i] = r[n - i]
      BY <3>7, <1>5
    <3> QED
      BY <3>2, <3>3, <3>5, <3>6
  <2> QED
    BY <2>1, <2>2, <2>3, <1>1
<1>10. Latest(a, c, size)
  BY <1>1, <1>8, <1>9 DEF Latest
<1> QED
  BY <1>3, <1>10 DEF a, c, lo, b

LEMMA MissIsLatest ==
  ASSUME NEW l \in Seq(Blocks), NEW r \in Seq(Blocks), NEW size \in Nat \ {0},
         Latest(l, r, size), Once(r), NEW b \in Blocks, \A i \in DOMAIN l : l[i] # b
  PROVE  /\ Len(l) < size => Latest(Append(l, b), <<b>> \o RemoveFirst(r, b), size)
         /\ Len(l) = size =>
              1 \in DOMAIN l /\ Latest(Append(RemoveAt(l, 1), b), <<b>> \o RemoveFirst(r, b), size)
<1> DEFINE n == Len(l)
           m == Len(r)
           ro == RemoveFirst(r, b)
           c == <<b>> \o ro
<1>1. /\ n \in Nat /\ m \in Nat /\ DOMAIN l = 1 .. n /\ DOMAIN r = 1 .. m
      /\ n = IF m < size THEN m ELSE size
      /\ \A i \in 1 .. n : l[i] = r[n + 1 - i]
  BY DEF Latest
(* What was touched before b: r itself, or r without an older touch of b.        *)
<1>2. \E d \in n + 1 .. m + 1 :
        /\ ro \in Seq(Blocks) /\ Len(ro) = IF d = m + 1 THEN m ELSE m - 1
        /\ \A i \in 1 .. Len(ro) : i < d => ro[i] = r[i]
  <2>1. CASE \E i \in DOMAIN r : r[i] = b
    <3>1. PICK d \in 1 .. m : r[d] = b
      BY <2>1, <1>1
    <3>2. d > n
      <4>1. ASSUME d <= n PROVE FALSE
        <5>1. n + 1 - d \in 1 .. n /\ n + 1 - (n + 1 - d) = d
          BY <4>1, <1>1
        <5> QED
          BY <5>1, <1>1, <3>1
      <4> QED
        BY <4>1, <1>1
    <3>3. ro = RemoveAt(r, d)
      <4>1. RemoveFirst(r, r[d]) = RemoveAt(r, d)
        BY <1>1, <3>1, RemoveFirstIs DEF Once
      <4> QED
        BY <4>1, <3>1
    <3>4. /\ RemoveAt(r, d) \in Seq(Blocks) /\ Len(RemoveAt(r, d)) = m - 1
          /\ \A i \in 1 .. m - 1 : RemoveAt(r, d)[i] = IF i < d THEN r[i] ELSE r[i + 1]
      <4>1. d \in DOMAIN r
        BY <1>1, <3>1
      <4> QED
        BY <4>1, RemoveAtIs
    <3>5. d \in n + 1 .. m + 1 /\ d # m + 1
      BY <3>1, <3>2, <1>1
    <3>6. ro \in Seq(Blocks) /\ Len(ro) = m - 1 /\ \A i \in 1 .. Len(ro) : i < d => ro[i] = r[i]
      BY <3>3, <3>4
    <3> HIDE DEF ro, n, m
    <3> QED
      BY <3>5, <3>6
  <2>2. CASE \A i \in DOMAIN r : r[i] # b
    <3>1. ro = r
      BY <2>2, <1>1 DEF RemoveFirst
    <3>2. m + 1 \in n + 1 .. m + 1 /\ Len(ro) = m
      BY <3>1, <1>1
    <3> QED
      BY <3>1, <3>2
  <2> QED
    BY <2>1, <2>2
<1>3. PICK d \in n + 1 .. m + 1 :
        /\ ro \in Seq(Blocks) /\ Len(ro) = IF d = m + 1 THEN m ELSE m - 1
        /\ \A i \in 1 .. Len(ro) : i < d => ro[i] = r[i]
  BY <1>2
<1> HIDE DEF ro
<1>4. /\ Len(c) = Len(ro) + 1 /\ c[1] = b
      /\ \A i \in 2 .. Len(ro) + 1 : c[i] = ro[i - 1]
  <2>1. b \in Blocks /\ ro \in Seq(Blocks)
    BY <1>3
  <2> QED
    BY <2>1, ConsIs
<1> HIDE DEF c, n, m
<1>5. /\ Len(c) \in Nat /\ Len(c) = IF d = m + 1 THEN m + 1 ELSE m
      /\ \A i \in 1 .. n : i + 1 <= Len(c) => c[i + 1] = r[i]
  <2>1. Len(c) = IF d = m + 1 THEN m + 1 ELSE m
    BY <1>1, <1>3, <1>4, SMTT(30)
  <2>2. ASSUME NEW i \in 1 .. n, i + 1 <= Len(c) PROVE c[i + 1] = r[i]
    <3>1. i + 1 \in 2 .. Len(ro) + 1 /\ i + 1 - 1 = i /\ i \in 1 .. Len(ro) /\ i < d
      BY <2>2, <1>1, <1>3, <1>4
    <3>2. c[i + 1] = ro[i + 1 - 1]
      BY <3>1, <1>4
    <3>3. ro[i] = r[i]
      BY <3>1, <1>3
    <3> QED
      BY <3>1, <3>2, <3>3
  <2> QED
    BY <2>1, <2>2, <1>1
<1>6. ASSUME n < size PROVE Latest(Append(l, b), c, size)
  <2> DEFINE a == Append(l, b)
  <2>1. /\ Len(a) = n + 1 /\ DOMAIN a = 1 .. n + 1
        /\ a[n + 1] = b /\ \A i \in 1 .. n : a[i] = l[i]
    BY <1>1, AppendIs DEF n
  <2> HIDE DEF a
  <2>2. m = n /\ d = m + 1 /\ Len(c) = n + 1
    BY <1>1, <1>3, <1>5, <1>6
  <2>3. ASSUME NEW i \in 1 .. n + 1 PROVE a[i] = c[n + 1 + 1 - i]
    <3>1. CASE i = n + 1
      <4>1. n + 1 + 1 - i = 1
        BY <3>1, <1>1
      <4> QED
        BY <3>1, <4>1, <2>1, <1>4
    <3>2. CASE i \in 1 .. n
      <4>a. n \in Nat /\ Len(c) = n + 1
        BY <1>1, <2>2
      <4>1. n + 1 - i \in 1 .. n /\ (n + 1 - i) + 1 = n + 1 + 1 - i /\ n + 1 + 1 - i <= Len(c)
        BY <3>2, <4>a
      <4>2. c[(n + 1 - i) + 1] = r[n + 1 - i]
        BY <4>1, <1>5
      <4> QED
        BY <3>2, <4>1, <4>2, <2>1, <1>1
    <3> QED
      BY <3>1, <3>2, <1>1
  <2>4. Len(a) = IF Len(c) < size THEN Len(c) ELSE size
    BY <2>1, <2>2, <1>1, <1>6
  <2>5. \A i \in DOMAIN a : a[i] = c[Len(a) + 1 - i]
    BY <2>1, <2>3
  <2> QED
    BY <2>4, <2>5 DEF Latest, a
<1>7. ASSUME n = size PROVE 1 \in DOMAIN l /\ Latest(Append(RemoveAt(l, 1), b), c, size)
  <2> DEFINE lo == RemoveAt(l, 1)
             a == Append(lo, b)
  <2>0. 1 \in DOMAIN l
    BY <1>1, <1>7
  <2>1. /\ lo \in Seq(Blocks) /\ Len(lo) = n - 1
        /\ \A i \in 1 .. n - 1 : lo[i] = IF i < 1 THEN l[i] ELSE l[i + 1]
    BY <2>0, RemoveAtIs DEF n
  <2> HIDE DEF lo
  <2>2. /\ Len(a) = Len(lo) + 1 /\ DOMAIN a = 1 .. Len(lo) + 1
        /\ a[Len(lo) + 1] = b /\ \A i \in 1 .. Len(lo) : a[i] = lo[i]
    BY <2>1, AppendIs
  <2> HIDE DEF a
  <2>3. /\ Len(a) = n /\ DOMAIN a = 1 .. n /\ a[n] = b
        /\ \A i \in 1 .. n - 1 : a[i] = l[i + 1]
    BY <2>1, <2>2, <1>1, <1>7
  <2>4. Len(c) >= n
    BY <1>1, <1>3, <1>5
  <2>5. ASSUME NEW i \in 1 .. n PROVE a[i] = c[n + 1 - i]
    <3>1. CASE i = n
      <4>1. n + 1 - i = 1
        BY <3>1, <1>1
      <4> QED
        BY <3>1, <4>1, <2>3, <1>4
    <3>2. CASE i \in 1 .. n - 1
      <4>1. /\ i + 1 \in 1 .. n /\ n + 1 - (i + 1) = n - i /\ n - i \in 1 .. n
            /\ (n - i) + 1 = n + 1 - i /\ n + 1 - i <= Len(c)
        BY <3>2, <1>1, <1>5, <2>4
      <4>2. c[(n - i) + 1] = r[n - i]
        BY <4>1, <1>5
      <4>3. l[i + 1] = r[n - i]
        BY <4>1, <1>1
      <4> QED
        BY <3>2, <4>1, <4>2, <4>3, <2>3
    <3> QED
      BY <3>1, <3>2, <1>1
  <2>6. Len(a) = IF Len(c) < size THEN Len(c) ELSE size
    BY <2>3, <2>4, <1>1, <1>5, <1>7
  <2>7. \A i \in DOMAIN a : a[i] = c[Len(a) + 1 - i]
    BY <2>3, <2>5
  <2> QED
    BY <2>0, <2>6, <2>7 DEF Latest, a, lo
<1> QED
  BY <1>6, <1>7 DEF n, c, ro

(* A block that the open batch has touched keeps its slot until the batch is    *)
(* over, and take_slot panics only in a batch of more distinct blocks than      *)
(* there are slots.                                                         *)
THEOREM BatchKeepsItsSlots == Spec => []BatchSurvives
<1>1. CacheInv => BatchSurvives
  BY DEF CacheInv
<1> QED
  BY <1>1, CacheAlways, PTL

(* Every slot is in one place: on the free stack, or with one block that is      *)
(* once in the recency order.                                               *)
THEOREM NoSlotIsLost == Spec => []Sound(pg)
<1>1. CacheInv => Sound(pg)
  BY DEF CacheInv
<1> QED
  BY <1>1, CacheAlways, PTL

-----------------------------------------------------------------------------
(* Along the order the stamps do not decrease.                                *)
Rising(p) ==
  \A i, j \in DOMAIN p.lru : i <= j => p.epoch[p.lru[i]] <= p.epoch[p.lru[j]]

RecencyInv ==
  /\ recent \in Seq(Blocks) /\ Once(recent)
  /\ ~scanned /\ ~panicked => Latest(pg.lru, recent, NSlots) /\ Rising(pg)

(* The last conjuncts of SlotsAccounted are inductive only with RecencyInv: which   *)
(* block goes is decided by the stamps, and that it is the least recent is      *)
(* so because they rise along the order: if the first is of the open batch, all    *)
(* are, and the miss panics.                                                *)
AccountInv ==
  /\ CacheInv /\ RecencyInv
  /\ scanned \in BOOLEAN /\ panicked \in BOOLEAN
  /\ hot \in SUBSET Blocks /\ width \in 0 .. Cardinality(Blocks)
  /\ \A b \in Blocks : pg.epoch[b] # NoEpoch <=> IsResident(pg, b)

LEMMA InitAccount == Init => AccountInv
<1> SUFFICES ASSUME Init PROVE AccountInv
  OBVIOUS
<1>1. CacheInv
  BY InitCache
<1>2. /\ pg.lru = <<>> /\ pg.epoch = [b \in Blocks |-> NoEpoch]
      /\ pg.resident = [b \in Blocks |-> NoSlot]
  BY DEF Init, NewPager
<1>3. recent \in Seq(Blocks) /\ Once(recent) /\ Len(recent) = 0
  BY DEF Init, Once
<1>4. Latest(pg.lru, recent, NSlots) /\ Rising(pg)
  BY <1>2, <1>3, NSlotsPositive DEF Latest, Rising
<1>5. 0 \in 0 .. Cardinality(Blocks)
  BY BlocksFinite, FS_CardinalityType
<1> QED
  BY <1>1, <1>2, <1>3, <1>4, <1>5 DEF Init, AccountInv, RecencyInv, IsResident

(* A touch moves the block to the front of what was touched.                   *)
LEMMA RecentMoves ==
  ASSUME NEW r \in Seq(Blocks), Once(r), NEW b \in Blocks
  PROVE  <<b>> \o RemoveFirst(r, b) \in Seq(Blocks) /\ Once(<<b>> \o RemoveFirst(r, b))
<1> DEFINE ro == RemoveFirst(r, b)
           c == <<b>> \o ro
<1>1. /\ ro \in Seq(Blocks)
      /\ \A i \in DOMAIN ro : ro[i] # b
      /\ \A i, j \in DOMAIN ro : ro[i] = ro[j] => i = j
  BY RemoveFirstKeeps DEF Once
<1> HIDE DEF ro
<1>2. /\ c \in Seq(Blocks) /\ DOMAIN c = 1 .. Len(ro) + 1 /\ Len(ro) \in Nat
      /\ c[1] = b /\ \A i \in 2 .. Len(ro) + 1 : c[i] = ro[i - 1]
  BY <1>1, ConsIs
<1> HIDE DEF c
<1>3. ASSUME NEW i \in DOMAIN c, NEW j \in DOMAIN c, c[i] = c[j] PROVE i = j
  <2>1. DOMAIN ro = 1 .. Len(ro)
    BY <1>1
  <2>2. \A k \in 2 .. Len(ro) + 1 : k - 1 \in DOMAIN ro /\ c[k] = ro[k - 1] /\ c[k] # b
    <3> TAKE k \in 2 .. Len(ro) + 1
    <3>1. k - 1 \in DOMAIN ro
      BY <1>2, <2>1
    <3>2. c[k] = ro[k - 1]
      BY <1>2
    <3> QED
      BY <3>1, <3>2, <1>1
  <2>3. CASE i = 1
    BY <2>3, <2>2, <1>2, <1>3
  <2>4. CASE j = 1
    BY <2>4, <2>2, <1>2, <1>3
  <2>5. CASE i # 1 /\ j # 1
    <3>1. i \in 2 .. Len(ro) + 1 /\ j \in 2 .. Len(ro) + 1
      BY <2>5, <1>2
    <3>2. i - 1 = j - 1
      BY <3>1, <2>2, <1>1, <1>3
    <3> QED
      BY <3>1, <3>2
  <2> QED
    BY <2>3, <2>4, <2>5
<1> QED
  BY <1>2, <1>3 DEF Once, c, ro

LEMMA TouchRecency ==
  ASSUME AccountInv, NEW b \in Blocks, TouchBlock(b, "Mru"), ~scanned
  PROVE  Latest(pg'.lru, recent', NSlots) /\ Rising(pg')
<1> DEFINE q == Touch(pg, b, "Mru").pager
           n == Len(pg.lru)
<1>1. /\ ~panicked /\ pg' = q /\ recent' = <<b>> \o RemoveFirst(recent, b)
      /\ IsResident(pg, b) \/ ~TakeSlotPanics(Stamped(pg, b))
  BY DEF TouchBlock
<1>2. /\ Sound(pg) /\ pg.lru \in Seq(Blocks) /\ Once(pg.lru)
      /\ recent \in Seq(Blocks) /\ Once(recent)
      /\ Latest(pg.lru, recent, NSlots) /\ Rising(pg)
      /\ pg.epoch \in [Blocks -> Nat \cup {NoEpoch}] /\ pg.cur \in Nat
      /\ \A c \in Blocks : pg.epoch[c] <= pg.cur
      /\ OrderExact(pg)
  BY <1>1, FieldsType DEF AccountInv, CacheInv, RecencyInv, Sound, OrderExact, Once, EpochsTell
<1>3. /\ Sound(q) /\ q.cur = pg.cur /\ q.epoch[b] = pg.cur
      /\ \A c \in Blocks : c # b /\ IsResident(q, c) => q.epoch[c] = pg.epoch[c]
  BY <1>1, <1>2, TouchSound
<1>4. /\ n \in Nat /\ Len(pg.free) \in Nat /\ Len(pg.free) + n = NSlots
      /\ DOMAIN pg.lru = 1 .. n
  <2>1. n \in Nat /\ Len(pg.free) \in Nat /\ Len(pg.free) + n = NSlots
    BY <1>2, OrderCounts
  <2>2. DOMAIN pg.lru = 1 .. n
    BY <1>2
  <2> QED
    BY <2>1, <2>2
<1>5. NSlots \in Nat \ {0}
  BY NSlotsPositive
<1> HIDE DEF q
<1>6. ASSUME NEW rest \in Seq(Blocks), q.lru = Append(rest, b),
             \E from \in [DOMAIN rest -> DOMAIN pg.lru] :
               /\ \A i, j \in DOMAIN rest : i <= j => from[i] <= from[j]
               /\ \A i \in DOMAIN rest : rest[i] = pg.lru[from[i]]
      PROVE  Rising(q)
  <2>1. PICK from \in [DOMAIN rest -> DOMAIN pg.lru] :
          /\ \A i, j \in DOMAIN rest : i <= j => from[i] <= from[j]
          /\ \A i \in DOMAIN rest : rest[i] = pg.lru[from[i]]
    BY <1>6
  <2>2. /\ DOMAIN q.lru = 1 .. Len(rest) + 1 /\ DOMAIN rest = 1 .. Len(rest) /\ Len(rest) \in Nat
        /\ q.lru[Len(rest) + 1] = b /\ \A i \in 1 .. Len(rest) : q.lru[i] = rest[i]
    BY <1>6, AppendIs
  <2>3. \A i \in 1 .. Len(rest) : rest[i] \in Blocks /\ rest[i] # b
    <3>1. \A i, j \in DOMAIN q.lru : q.lru[i] = q.lru[j] => i = j
      BY <1>3 DEF Sound, OrderExact
    <3>2. \A i \in 1 .. Len(rest) : i \in DOMAIN q.lru /\ Len(rest) + 1 \in DOMAIN q.lru
                                     /\ i # Len(rest) + 1
      BY <2>2
    <3> QED
      BY <3>1, <3>2, <2>2, <1>6
  <2>4. \A i \in 1 .. Len(rest) : q.epoch[rest[i]] = pg.epoch[pg.lru[from[i]]]
    <3>1. \A i \in 1 .. Len(rest) : IsResident(q, rest[i])
      BY <1>3, <2>2 DEF Sound, OrderExact
    <3> QED
      BY <3>1, <2>1, <2>2, <2>3, <1>3
  <2>5. ASSUME NEW i \in DOMAIN q.lru, NEW j \in DOMAIN q.lru, i <= j
        PROVE  q.epoch[q.lru[i]] <= q.epoch[q.lru[j]]
    <3>1. CASE j \in 1 .. Len(rest)
      <4>1. i \in 1 .. Len(rest) /\ from[i] <= from[j]
        BY <2>1, <2>2, <2>5, <3>1
      <4>2. pg.epoch[pg.lru[from[i]]] <= pg.epoch[pg.lru[from[j]]]
        BY <1>2, <2>1, <2>2, <3>1, <4>1 DEF Rising
      <4> QED
        BY <2>2, <2>4, <3>1, <4>1, <4>2
    <3>2. CASE j = Len(rest) + 1
      <4>1. q.epoch[q.lru[j]] = pg.cur
        BY <1>3, <2>2, <3>2
      <4>2. CASE i \in 1 .. Len(rest)
        <5>1. pg.lru[from[i]] \in Blocks
          BY <1>2, <2>1, <2>2, <4>2
        <5> QED
          BY <1>2, <2>2, <2>4, <4>1, <4>2, <5>1
      <4>3. CASE i = Len(rest) + 1
        BY <3>2, <4>1, <4>3, <1>2
      <4> QED
        BY <2>2, <4>2, <4>3
    <3> QED
      BY <2>2, <3>1, <3>2
  <2> QED
    BY <2>5 DEF Rising
<1>7. CASE IsResident(pg, b)
  <2>1. PICK k \in DOMAIN pg.lru : pg.lru[k] = b
    BY <1>2, <1>7 DEF OrderExact, ResidentBlocks
  <2>2. q.lru = Append(RemoveAt(pg.lru, k), b)
    <3>1. q.lru = Append(RemoveFirst(pg.lru, b), b)
      <4>1. Sound(pg)
        BY <1>2
      <4>2. /\ q.lru = IF "Mru" = "Mru" THEN Append(RemoveFirst(pg.lru, b), b) ELSE pg.lru
            /\ q.resident = pg.resident /\ q.free = pg.free
        BY <4>1, <1>7, HitOrder, Zenon DEF q
      <4> QED
        BY <4>2
    <3>2. RemoveFirst(pg.lru, pg.lru[k]) = RemoveAt(pg.lru, k)
      BY <1>2, RemoveFirstIs DEF Once
    <3> QED
      BY <2>1, <3>1, <3>2
  <2>3. Latest(Append(RemoveAt(pg.lru, k), pg.lru[k]), <<pg.lru[k]>> \o RemoveFirst(recent, pg.lru[k]), NSlots)
    BY <1>2, <1>5, HitIsLatest
  <2>4. Latest(q.lru, recent', NSlots)
    BY <1>1, <2>1, <2>2, <2>3
  <2>5. Rising(q)
    <3> DEFINE rest == RemoveAt(pg.lru, k)
               from == [i \in 1 .. n - 1 |-> IF i < k THEN i ELSE i + 1]
    <3>1. /\ rest \in Seq(Blocks) /\ DOMAIN rest = 1 .. n - 1
          /\ \A i \in 1 .. n - 1 : rest[i] = IF i < k THEN pg.lru[i] ELSE pg.lru[i + 1]
      BY <1>2, RemoveAtIs
    <3> HIDE DEF rest, n
    <3>2. from \in [1 .. n - 1 -> 1 .. n] /\ \A i, j \in 1 .. n - 1 : i <= j => from[i] <= from[j]
      BY <1>4
    <3>3. \A i \in 1 .. n - 1 : rest[i] = pg.lru[from[i]]
      BY <3>1
    <3>4. q.lru = Append(rest, b)
      BY <2>2 DEF rest
    <3> HIDE DEF from
    <3> QED
      BY <1>4, <1>6, <3>1, <3>2, <3>3, <3>4
  <2> QED
    BY <1>1, <2>4, <2>5
<1>8. CASE ~IsResident(pg, b)
  <2>0. \A i \in DOMAIN pg.lru : pg.lru[i] # b
    BY <1>2, <1>8 DEF OrderExact
  <2>1. ~TakeSlotPanics(Stamped(pg, b))
    BY <1>1, <1>8
  <2>a. \A l : Placed(l, b, "Mru") = Append(l, b)
    BY DEF Placed
  <2>2. CASE pg.free # <<>>
    <3>1. q.lru = Append(pg.lru, b)
      <4>1. Sound(pg)
        BY <1>2
      <4>2. q.lru = Placed(pg.lru, b, "Mru")
        BY <4>1, <1>8, <2>1, <2>2, MissOrder DEF q
      <4> QED
        BY <4>2, <2>a
    <3>2. n < NSlots
      <4> DEFINE f == Len(pg.free)
      <4>1. f # 0
        BY <2>2, <1>2, FieldsType DEF Sound
      <4>2. f \in Nat /\ n \in Nat /\ f + n = NSlots
        BY <1>4
      <4> HIDE DEF f, n
      <4> QED
        BY <4>1, <4>2, <1>5
    <3>3. Latest(Append(pg.lru, b), <<b>> \o RemoveFirst(recent, b), NSlots)
      BY <1>2, <1>5, <2>0, <3>2, MissIsLatest
    <3>4. Rising(q)
      <4> DEFINE from == [i \in DOMAIN pg.lru |-> i]
      <4>1. /\ from \in [DOMAIN pg.lru -> DOMAIN pg.lru]
            /\ \A i, j \in DOMAIN pg.lru : i <= j => from[i] <= from[j]
            /\ \A i \in DOMAIN pg.lru : pg.lru[i] = pg.lru[from[i]]
        OBVIOUS
      <4> HIDE DEF from
      <4> QED
        BY <4>1, <1>2, <1>6, <3>1
    <3> QED
      BY <1>1, <3>1, <3>3, <3>4
  <2>3. CASE pg.free = <<>>
    <3> DEFINE victims == Replaceable(Stamped(pg, b))
    <3>0. \E v \in victims : (\A k \in victims : v <= k)
                               /\ q.lru = Placed(RemoveAt(pg.lru, v), b, "Mru")
      <4>1. Sound(pg)
        BY <1>2
      <4> QED
        BY <4>1, <1>8, <2>1, <2>3, MissOrder DEF q
    <3> HIDE DEF victims
    <3>1. PICK v \in victims : (\A k \in victims : v <= k) /\ q.lru = Append(RemoveAt(pg.lru, v), b)
      BY <3>0, <2>a
    <3>2. n = NSlots
      BY <2>3, <1>4, <1>5
    <3>3. 1 \in DOMAIN pg.lru
      BY <1>4, <1>5, <3>2
    <3>4. victims \in SUBSET DOMAIN pg.lru /\ 1 \in victims
      <4> DEFINE outside == {i \in DOMAIN pg.lru : pg.epoch[pg.lru[i]] # pg.cur}
      <4>1. victims = IF outside = {} /\ pg.cur = 0 THEN DOMAIN pg.lru \cap {1} ELSE outside
        BY <1>2, <1>8, ReplaceableIs DEF victims
      <4>2. CASE outside = {} /\ pg.cur = 0
        BY <4>1, <4>2, <3>3
      <4>3. CASE ~(outside = {} /\ pg.cur = 0)
        <5>1. victims = outside
          BY <4>1, <4>3
        <5>2. ASSUME 1 \notin outside PROVE FALSE
          <6>1. pg.epoch[pg.lru[1]] = pg.cur
            BY <5>2, <3>3
          <6>2. \A i \in DOMAIN pg.lru : pg.cur <= pg.epoch[pg.lru[i]] /\ pg.lru[i] \in Blocks
            BY <6>1, <3>3, <1>2, <1>4 DEF Rising
          <6>3. \A i \in DOMAIN pg.lru : pg.epoch[pg.lru[i]] = pg.cur
            <7>1. \A i \in DOMAIN pg.lru : pg.epoch[pg.lru[i]] <= pg.cur /\ pg.epoch[pg.lru[i]] \in Int
              BY <6>2, <1>2 DEF NoEpoch
            <7>2. \A x, y \in Int : x <= y /\ y <= x => x = y
              OBVIOUS
            <7>3. pg.cur \in Int
              BY <1>2
            <7> QED
              BY <6>2, <7>1, <7>2, <7>3
          <6>4. outside = {}
            BY <6>3
          <6> HIDE DEF outside
          <6>5. v \in outside
            BY <3>1, <5>1
          <6> QED
            BY <6>4, <6>5
        <5> QED
          BY <5>1, <5>2
      <4> QED
        BY <4>2, <4>3
    <3>5. v = 1
      <4>1. v \in DOMAIN pg.lru /\ v <= 1
        BY <3>1, <3>4
      <4> QED
        BY <4>1, <1>4
    <3>6. Latest(Append(RemoveAt(pg.lru, 1), b), <<b>> \o RemoveFirst(recent, b), NSlots)
      BY <1>2, <1>5, <2>0, <3>2, MissIsLatest
    <3>7. Rising(q)
      <4> DEFINE rest == RemoveAt(pg.lru, 1)
                 from == [i \in 1 .. n - 1 |-> i + 1]
      <4>1. /\ rest \in Seq(Blocks) /\ DOMAIN rest = 1 .. n - 1
            /\ \A i \in 1 .. n - 1 : rest[i] = IF i < 1 THEN pg.lru[i] ELSE pg.lru[i + 1]
        BY <1>2, <3>3, RemoveAtIs
      <4> HIDE DEF rest, n
      <4>2. from \in [1 .. n - 1 -> 1 .. n] /\ \A i, j \in 1 .. n - 1 : i <= j => from[i] <= from[j]
        BY <1>4
      <4>3. \A i \in 1 .. n - 1 : rest[i] = pg.lru[from[i]]
        BY <4>1
      <4>4. q.lru = Append(rest, b)
        BY <3>1, <3>5 DEF rest
      <4> HIDE DEF from
      <4> QED
        BY <1>4, <1>6, <4>1, <4>2, <4>3, <4>4
    <3> QED
      BY <1>1, <3>1, <3>5, <3>6, <3>7
  <2> QED
    BY <2>2, <2>3
<1> QED
  BY <1>7, <1>8

LEMMA AccountStep == ASSUME AccountInv, [Next]_vars PROVE AccountInv'
<1>0. /\ CacheInv /\ pg \in PagerType /\ NSlots \in Nat \ {0}
      /\ recent \in Seq(Blocks) /\ Once(recent)
      /\ \A b \in Blocks : pg.epoch[b] # NoEpoch <=> IsResident(pg, b)
  BY NSlotsPositive DEF AccountInv, CacheInv, Sound, RecencyInv
<1>1. ASSUME OpenBatch PROVE AccountInv'
  <2>1. /\ pg' = BeginBatch(pg) /\ UNCHANGED <<panicked, recent, scanned, hot, width>>
    BY <1>1 DEF OpenBatch
  <2>2. /\ pg'.epoch = pg.epoch /\ pg'.resident = pg.resident /\ pg'.lru = pg.lru
    BY <1>0, <2>1, OpenKeeps
  <2>3. CacheInv'
    BY <1>0, <1>1, OpenStep
  <2> QED
    BY <2>1, <2>2, <2>3 DEF AccountInv, RecencyInv, Rising, IsResident
<1>2. ASSUME NEW b \in Blocks, NEW policy \in InsertPolicies, TouchBlock(b, policy)
      PROVE  AccountInv'
  <2> DEFINE q == Touch(pg, b, policy).pager
  <2>1. /\ ~panicked /\ pg' = q /\ recent' = <<b>> \o RemoveFirst(recent, b)
        /\ IsResident(pg, b) \/ ~TakeSlotPanics(Stamped(pg, b))
        /\ scanned' = (scanned \/ policy = "Cold") /\ panicked' = panicked
        /\ hot' = IF policy = "Cold" THEN hot ELSE ResidentBlocks(q)
        /\ width' = IF policy = "Cold" THEN Max({width, Cardinality(batch')}) ELSE 0
    BY <1>2 DEF TouchBlock
  <2>2. CacheInv'
    BY <1>0, <1>2, TouchStep
  <2>3. \A c \in Blocks : q.epoch[c] # NoEpoch <=> IsResident(q, c)
    <3>1. /\ IsResident(q, b) /\ q.epoch[b] = pg.cur
          /\ \A c \in Blocks : c # b =>
               \/ (IsResident(q, c) <=> IsResident(pg, c)) /\ q.epoch[c] = pg.epoch[c]
               \/ ~IsResident(q, c) /\ q.epoch[c] = NoEpoch
      BY <2>1, TouchSound DEF AccountInv, CacheInv
    <3>2. pg.cur # NoEpoch
      BY <1>0, FieldsType DEF NoEpoch
    <3> HIDE DEF q
    <3> QED
      BY <1>0, <3>1, <3>2
  <2>4. recent' \in Seq(Blocks) /\ Once(recent')
    BY <1>0, <2>1, RecentMoves
  <2>5. ~scanned' => Latest(pg'.lru, recent', NSlots) /\ Rising(pg')
    <3>1. ~scanned' => ~scanned /\ policy = "Mru"
      BY <2>1 DEF InsertPolicies
    <3> QED
      BY <3>1, <1>2, TouchRecency
  <2>6. hot' \in SUBSET Blocks
    BY <2>1 DEF AccountInv, ResidentBlocks
  <2>7. width' \in 0 .. Cardinality(Blocks)
    <3> DEFINE w == Cardinality(batch')
               m == Cardinality(Blocks)
    <3>1. w \in Nat /\ w <= m /\ m \in Nat /\ width \in 0 .. m
      BY <2>2, BlocksFinite, FS_Subset, FS_CardinalityType DEF AccountInv, CacheInv
    <3> HIDE DEF w, m
    <3>2. \A x \in 0 .. m : Max({x, w}) \in 0 .. m
      <4> TAKE x \in 0 .. m
      <4>1. \E y \in {x, w} : \A z \in {x, w} : y >= z
        BY <3>1
      <4>2. Max({x, w}) \in {x, w}
        BY <4>1 DEF Max
      <4> QED
        BY <4>2, <3>1
    <3>3. width' = IF policy = "Cold" THEN Max({width, w}) ELSE 0
      BY <2>1 DEF w
    <3> QED
      BY <3>1, <3>2, <3>3 DEF m
  <2>8. scanned' \in BOOLEAN /\ panicked' \in BOOLEAN
    BY <2>1 DEF AccountInv
  <2> QED
    BY <2>1, <2>2, <2>3, <2>4, <2>5, <2>6, <2>7, <2>8 DEF AccountInv, RecencyInv
<1>3. ASSUME NEW b \in Blocks, TouchPanics(b) PROVE AccountInv'
  <2>1. panicked' /\ UNCHANGED <<pg, recent, scanned, hot, width>> /\ panicked' \in BOOLEAN
    BY <1>3 DEF TouchPanics
  <2>2. CacheInv'
    BY <1>0, <1>3, PanicStep
  <2> QED
    BY <2>1, <2>2 DEF AccountInv, RecencyInv
<1>4. CASE UNCHANGED vars
  BY <1>4 DEF vars, AccountInv, RecencyInv, CacheInv, EpochsTell, BatchSurvives
<1> QED
  BY <1>1, <1>2, <1>3, <1>4 DEF Next

LEMMA AccountHolds == AccountInv => SlotsAccounted
<1> SUFFICES ASSUME AccountInv PROVE SlotsAccounted
  OBVIOUS
<1>1. /\ Sound(pg) /\ pg \in PagerType /\ batch \in SUBSET Blocks
  BY DEF AccountInv, CacheInv, Sound
<1>2. TypeOK
  BY <1>1 DEF AccountInv, RecencyInv, TypeOK
<1>3. RecencyKept
  <2> SUFFICES ASSUME ~scanned, ~panicked
               PROVE  pg.lru = Reverse(SubSeq(recent, 1, Min({NSlots, Len(recent)})))
    BY DEF RecencyKept
  <2> DEFINE m == Len(recent)
             n == Len(pg.lru)
             s == SubSeq(recent, 1, n)
  <2>1. Latest(pg.lru, recent, NSlots) /\ recent \in Seq(Blocks) /\ pg.lru \in Seq(Blocks)
    BY <1>1, FieldsType DEF AccountInv, RecencyInv
  <2>2. m \in Nat /\ n \in Nat /\ NSlots \in Nat /\ n = IF m < NSlots THEN m ELSE NSlots
    BY <2>1, NSlotsPositive DEF Latest
  <2>3. Min({NSlots, m}) = n
    <3>1. \A x, y \in Nat : x <= y => Min({x, y}) = x /\ Min({y, x}) = x
      BY DEF Min
    <3> HIDE DEF m, n
    <3>2. CASE m < NSlots
      BY <2>2, <3>1, <3>2
    <3>3. CASE ~(m < NSlots)
      BY <2>2, <3>1, <3>3
    <3> QED
      BY <3>2, <3>3
  <2>4. s \in Seq(Blocks) /\ Len(s) = n /\ \A i \in 1 .. n : s[i] = recent[i]
    <3>1. n <= m
      BY <2>2
    <3> QED
      BY <2>1, <2>2, <3>1, SubSeqProperties
  <2> HIDE DEF s, m
  <2>5. Reverse(s) = [i \in 1 .. n |-> s[(n - i) + 1]]
    BY <2>4 DEF Reverse
  <2>6. pg.lru = [i \in 1 .. n |-> s[(n - i) + 1]]
    <3>1. pg.lru = [i \in 1 .. n |-> pg.lru[i]]
      BY <2>1
    <3>2. \A i \in 1 .. n : pg.lru[i] = recent[n + 1 - i]
      BY <2>1 DEF Latest
    <3> HIDE DEF n
    <3>a. n \in Nat
      BY <2>2
    <3>3. \A i \in 1 .. n : (n - i) + 1 \in 1 .. n /\ (n - i) + 1 = n + 1 - i
      BY <3>a
    <3>4. \A i \in 1 .. n : pg.lru[i] = s[(n - i) + 1]
      <4> TAKE i \in 1 .. n
      <4>1. (n - i) + 1 \in 1 .. n /\ (n - i) + 1 = n + 1 - i
        BY <3>3
      <4>2. s[(n - i) + 1] = recent[(n - i) + 1]
        BY <2>4, <4>1
      <4> QED
        BY <3>2, <4>1, <4>2
    <3> QED
      BY <3>1, <3>4
  <2> QED
    BY <2>3, <2>5, <2>6 DEF s, m
<1>4. \A s \in Slots :
        Cardinality({i \in DOMAIN pg.free : pg.free[i] = s})
          + Cardinality({b \in Blocks : pg.resident[b] = s}) = 1
  BY <1>1, EachSlotOnce
<1>5. Len(pg.lru) = Cardinality(ResidentBlocks(pg)) /\ ToSet(pg.lru) = ResidentBlocks(pg)
  BY <1>1, OrderCounts
<1> QED
  BY <1>2, <1>3, <1>4, <1>5 DEF SlotsAccounted, AccountInv

(* Every slot is on the free stack once or holds one block, the order lists the     *)
(* resident blocks, the epochs forget who was evicted, and until the first scan    *)
(* batches and epochs leave the order that of the last touches.                *)
THEOREM EverySlotAccounted == Spec => []SlotsAccounted
<1>1. AccountInv /\ [Next]_vars => AccountInv'
  BY AccountStep
<1> QED
  BY <1>1, InitAccount, AccountHolds, PTL DEF Spec
-----------------------------------------------------------------------------
(* A stretch of a list without repetitions holds as many elements as it is long. *)
Stretch(l, a, z) == {l[i] : i \in a + 1 .. z}

LEMMA StretchCounts ==
  ASSUME NEW T, NEW l \in Seq(T), Once(l), NEW a \in Nat, NEW z \in Nat, a <= z, z <= Len(l)
  PROVE  LET S == Stretch(l, a, z)
         IN  S \in SUBSET T /\ IsFiniteSet(S) /\ Cardinality(S) = z - a
<1> USE DEF Stretch
<1> DEFINE S == Stretch(l, a, z)
           f == [i \in a + 1 .. z |-> l[i]]
<1>1. Len(l) \in Nat /\ a + 1 .. z \subseteq DOMAIN l /\ a + 1 \in Int /\ z \in Int
  OBVIOUS
<1>2. f \in Bijection(a + 1 .. z, S)
  BY <1>1 DEF Bijection, Injection, Surjection, IsInjective, Once
<1>3. IsFiniteSet(a + 1 .. z) /\ Cardinality(a + 1 .. z) = IF a + 1 > z THEN 0 ELSE z - (a + 1) + 1
  BY <1>1, FS_Interval
<1>4. Cardinality(a + 1 .. z) = z - a
  BY <1>3
<1>5. S \in SUBSET T
  BY <1>1
<1> HIDE DEF S
<1>6. ExistsBijection(a + 1 .. z, S)
  BY <1>2 DEF ExistsBijection
<1>7. IsFiniteSet(S) /\ Cardinality(S) = z - a
  BY <1>3, <1>4, <1>6, FS_Bijection
<1> QED
  BY <1>5, <1>7 DEF S

(* Beyond some place of the order only hot blocks are left, and nearly all of       *)
(* them.                                                                    *)
Beyond(l, m) == Stretch(l, m, Len(l))

Spares(l, m, S, w) == Beyond(l, m) \subseteq S /\ Cardinality(S \ Beyond(l, m)) <= w

(* What a scan displaces is bounded because it works at the cold end: what lies      *)
(* beyond place m was there when the scan began, and a victim further up means that   *)
(* the open batch holds everything below it.                                 *)
ScanInv ==
  /\ AccountInv
  /\ Cardinality(hot) <= NSlots
  /\ \E m \in 0 .. Len(pg.lru) : Spares(pg.lru, m, hot, width)

LEMMA HotIsFinite ==
  ASSUME AccountInv
  PROVE  IsFiniteSet(hot) /\ Cardinality(hot) \in Nat /\ width \in Nat
         /\ IsFiniteSet(batch) /\ batch \subseteq Blocks
BY BlocksFinite, FS_Subset, FS_CardinalityType DEF AccountInv, CacheInv

LEMMA ScanHolds == ScanInv => ScanResistant
<1> SUFFICES ASSUME ScanInv PROVE ScanResistant
  OBVIOUS
<1>1. PICK m \in 0 .. Len(pg.lru) : Spares(pg.lru, m, hot, width)
  BY DEF ScanInv
<1>2. Sound(pg) /\ pg.lru \in Seq(Blocks) /\ OrderExact(pg)
  BY FieldsType DEF ScanInv, AccountInv, CacheInv, Sound
<1> DEFINE W == Beyond(pg.lru, m)
<1>3. W \subseteq ResidentBlocks(pg)
  <2>1. m + 1 .. Len(pg.lru) \subseteq DOMAIN pg.lru
    BY <1>2
  <2> QED
    BY <1>2, <2>1 DEF Beyond, Stretch, ResidentBlocks, OrderExact
<1>4. Cardinality(hot \ W) <= width
  BY <1>1 DEF Spares
<1> HIDE DEF W
<1>5. hot \ ResidentBlocks(pg) \subseteq hot \ W
  BY <1>3
<1>6. IsFiniteSet(hot \ W) /\ Cardinality(hot \ W) \in Nat /\ width \in Nat
  BY HotIsFinite, FS_Difference, FS_CardinalityType DEF ScanInv
<1>7. Cardinality(hot \ ResidentBlocks(pg)) <= Cardinality(hot \ W)
      /\ IsFiniteSet(hot \ ResidentBlocks(pg))
  BY <1>5, <1>6, FS_Subset
<1>8. Cardinality(hot \ ResidentBlocks(pg)) \in Nat
  BY <1>7, FS_CardinalityType
<1> QED
  BY <1>4, <1>6, <1>7, <1>8 DEF ScanResistant

LEMMA InitScan == Init => ScanInv
<1> SUFFICES ASSUME Init PROVE ScanInv
  OBVIOUS
<1>1. AccountInv
  BY InitAccount
<1>2. hot = {} /\ width = 0 /\ pg.lru = <<>>
  BY DEF Init, NewPager
<1>3. Cardinality({}) = 0
  BY FS_EmptySet
<1>4. Beyond(pg.lru, 0) = {}
  BY <1>2 DEF Beyond, Stretch
<1>5. Spares(pg.lru, 0, hot, width)
  BY <1>2, <1>3, <1>4 DEF Spares
<1> QED
  BY <1>1, <1>2, <1>3, <1>5, NSlotsPositive DEF ScanInv

(* A block that is put in front moves the rest one further; one that leaves closes   *)
(* the gap, and beyond both nothing has moved.                               *)
LEMMA ChurnIsBelow ==
  ASSUME NEW l \in Seq(Blocks), NEW b \in Blocks, NEW v \in DOMAIN l
  PROVE  LET r == <<b>> \o RemoveAt(l, v)
         IN  /\ Len(r) = Len(l) /\ r \in Seq(Blocks)
             /\ \A m \in v .. Len(l) : Beyond(r, m) = Beyond(l, m)
<1> DEFINE a == RemoveAt(l, v)
           r == <<b>> \o a
<1>1. /\ Len(l) \in Nat /\ v \in 1 .. Len(l)
      /\ a \in Seq(Blocks) /\ Len(a) = Len(l) - 1
      /\ \A i \in 1 .. Len(l) - 1 : a[i] = IF i < v THEN l[i] ELSE l[i + 1]
  BY RemoveAtIs
<1> HIDE DEF a
<1>2. /\ r \in Seq(Blocks) /\ Len(r) = Len(a) + 1
      /\ \A i \in 2 .. Len(a) + 1 : r[i] = a[i - 1]
  BY <1>1, ConsIs
<1> HIDE DEF r
<1>3. Len(r) = Len(l)
  BY <1>1, <1>2
<1>4. ASSUME NEW i \in v + 1 .. Len(l) PROVE r[i] = l[i]
  <2>1. i \in 2 .. Len(a) + 1 /\ i - 1 \in 1 .. Len(l) - 1 /\ ~(i - 1 < v) /\ (i - 1) + 1 = i
    BY <1>1
  <2> QED
    BY <2>1, <1>1, <1>2
<1>5. ASSUME NEW m \in v .. Len(l) PROVE Beyond(r, m) = Beyond(l, m)
  <2>1. \A i \in m + 1 .. Len(l) : i \in v + 1 .. Len(l)
    BY <1>1
  <2> QED
    BY <2>1, <1>3, <1>4 DEF Beyond, Stretch
<1> QED
  BY <1>2, <1>3, <1>5 DEF a, r

LEMMA FrontAdds ==
  ASSUME NEW l \in Seq(Blocks), NEW b \in Blocks, NEW m \in 0 .. Len(l)
  PROVE  LET r == <<b>> \o l
         IN  m + 1 \in 0 .. Len(r) /\ Beyond(r, m + 1) = Beyond(l, m)
<1> DEFINE r == <<b>> \o l
<1>1. /\ Len(l) \in Nat /\ Len(r) = Len(l) + 1 /\ \A i \in 2 .. Len(l) + 1 : r[i] = l[i - 1]
  BY ConsIs
<1> HIDE DEF r
<1>2. ASSUME NEW x PROVE x \in Beyond(r, m + 1) <=> x \in Beyond(l, m)
  <2>1. ASSUME x \in Beyond(r, m + 1) PROVE x \in Beyond(l, m)
    <3>1. PICK i \in (m + 1) + 1 .. Len(r) : x = r[i]
      BY <2>1 DEF Beyond, Stretch
    <3>2. i \in 2 .. Len(l) + 1 /\ i - 1 \in m + 1 .. Len(l)
      BY <3>1, <1>1
    <3>3. x = l[i - 1]
      BY <3>1, <3>2, <1>1
    <3> QED
      BY <3>2, <3>3 DEF Beyond, Stretch
  <2>2. ASSUME x \in Beyond(l, m) PROVE x \in Beyond(r, m + 1)
    <3>1. PICK i \in m + 1 .. Len(l) : x = l[i]
      BY <2>2 DEF Beyond, Stretch
    <3>2. i + 1 \in 2 .. Len(l) + 1 /\ i + 1 \in (m + 1) + 1 .. Len(r) /\ (i + 1) - 1 = i
      BY <3>1, <1>1
    <3>3. x = r[i + 1]
      BY <3>1, <3>2, <1>1
    <3> QED
      BY <3>2, <3>3 DEF Beyond, Stretch
  <2> QED
    BY <2>1, <2>2
<1> QED
  BY <1>1, <1>2 DEF r

(* The first victim the search finds is at most as far up as the open batch is       *)
(* large: what lies below it is of that batch.                               *)
LEMMA BatchIsBelow ==
  ASSUME AccountInv, ~panicked, NEW b \in Blocks, ~IsResident(pg, b),
         NEW v \in Replaceable(Stamped(pg, b)),
         \A k \in Replaceable(Stamped(pg, b)) : v <= k
  PROVE  v \in DOMAIN pg.lru /\ v <= Cardinality(BatchWith(b))
<1> DEFINE l == pg.lru
           outside == {i \in DOMAIN l : pg.epoch[l[i]] # pg.cur}
<1>1. /\ Sound(pg) /\ l \in Seq(Blocks) /\ OrderExact(pg) /\ pg.cur \in Nat
      /\ pg.epoch \in [Blocks -> Nat \cup {NoEpoch}]
  BY FieldsType DEF AccountInv, CacheInv, Sound
<1>2. Replaceable(Stamped(pg, b)) = IF outside = {} /\ pg.cur = 0 THEN DOMAIN l \cap {1} ELSE outside
  BY <1>1, ReplaceableIs
<1>3. v \in DOMAIN l
  BY <1>2
<1>4. /\ Len(l) \in Nat /\ v \in 1 .. Len(l) /\ DOMAIN l = 1 .. Len(l)
      /\ \A i \in DOMAIN l : l[i] \in Blocks /\ IsResident(pg, l[i])
      /\ Once(l)
  BY <1>1, <1>3 DEF OrderExact, Once
<1>5. IsFiniteSet(BatchWith(b)) /\ Cardinality(BatchWith(b)) \in Nat
  <2>1. BatchWith(b) \subseteq Blocks
    BY HotIsFinite DEF BatchWith
  <2> QED
    BY <2>1, BlocksFinite, FS_Subset, FS_CardinalityType
<1> DEFINE below == Stretch(l, 0, v - 1)
<1>6. below \in SUBSET Blocks /\ IsFiniteSet(below) /\ Cardinality(below) = v - 1
  <2>1. v - 1 \in Nat /\ 0 <= v - 1 /\ v - 1 <= Len(l) /\ 0 \in Nat /\ (v - 1) - 0 = v - 1
    BY <1>4
  <2> QED
    BY <1>1, <1>4, <2>1, StretchCounts
<1>7. b \notin below
  BY <1>4 DEF Stretch
<1>8. Cardinality(below \cup {b}) = v
  <2> HIDE DEF below
  <2>1. Cardinality(below \cup {b}) = (v - 1) + 1
    BY <1>6, <1>7, FS_AddElement
  <2> QED
    BY <2>1, <1>4
<1>9. below \subseteq BatchWith(b)
  <2> SUFFICES ASSUME NEW i \in 1 .. v - 1 PROVE l[i] \in BatchWith(b)
    BY DEF Stretch
  <2>1. v # 1 /\ i \in DOMAIN l /\ i < v
    BY <1>4
  <2>2. Replaceable(Stamped(pg, b)) = outside
    BY <2>1, <1>2
  <2>3. pg.epoch[l[i]] = pg.cur
    BY <2>1, <2>2, <1>4
  <2>4. v \in outside
    BY <2>2
  <2>5. pg.cur # 0
    <3>1. pg.epoch[l[v]] # pg.cur /\ l[v] \in Blocks /\ IsResident(pg, l[v])
      BY <2>4, <1>4
    <3>2. pg.epoch[l[v]] # NoEpoch /\ pg.epoch[l[v]] <= pg.cur
      BY <3>1 DEF AccountInv, CacheInv, EpochsTell
    <3> QED
      BY <3>1, <3>2, <1>1
  <2>6. l[i] \in batch
    BY <2>1, <2>3, <2>5, <1>4 DEF AccountInv, CacheInv, EpochsTell, ResidentBlocks
  <2> QED
    BY <2>5, <2>6 DEF BatchWith
<1>10. below \cup {b} \subseteq BatchWith(b)
  BY <1>9 DEF BatchWith
<1>11. Cardinality(below \cup {b}) <= Cardinality(BatchWith(b))
  <2> HIDE DEF below
  <2> QED
    BY <1>5, <1>10, FS_Subset
<1> QED
  BY <1>3, <1>8, <1>11

LEMMA LargerOf ==
  ASSUME NEW x \in Nat, NEW y \in Nat
  PROVE  Max({x, y}) \in Nat /\ Max({x, y}) >= x /\ Max({x, y}) >= y
<1>1. \E z \in {x, y} : \A u \in {x, y} : z >= u
  OBVIOUS
<1>2. Max({x, y}) \in {x, y} /\ \A u \in {x, y} : Max({x, y}) >= u
  BY <1>1 DEF Max
<1> QED
  BY <1>2

LEMMA ColdStep ==
  ASSUME ScanInv, NEW b \in Blocks, TouchBlock(b, "Cold")
  PROVE  \E m \in 0 .. Len(pg'.lru) : Spares(pg'.lru, m, hot', width')
<1> DEFINE q == Touch(pg, b, "Cold").pager
           c == Cardinality(BatchWith(b))
<1>1. /\ ~panicked /\ pg' = q /\ hot' = hot /\ width' = Max({width, c})
      /\ IsResident(pg, b) \/ ~TakeSlotPanics(Stamped(pg, b))
  BY DEF TouchBlock
<1>2. /\ AccountInv /\ Sound(pg) /\ pg.lru \in Seq(Blocks) /\ NSlots \in Nat
      /\ pg.free \in Seq(Slots)
  BY FieldsType, NSlotsPositive DEF ScanInv, AccountInv, CacheInv, Sound
<1>3. c \in Nat /\ width \in Nat
  <2>1. BatchWith(b) \subseteq Blocks
    BY <1>2, HotIsFinite DEF BatchWith
  <2> QED
    BY <2>1, <1>2, HotIsFinite, BlocksFinite, FS_Subset, FS_CardinalityType
<1> HIDE DEF c
<1>4. width' \in Nat /\ width' >= width /\ width' >= c
  BY <1>1, <1>3, LargerOf
<1>5. PICK m \in 0 .. Len(pg.lru) : Spares(pg.lru, m, hot, width)
  BY DEF ScanInv
<1>6. \A x : Cardinality(hot \ x) \in Nat /\ IsFiniteSet(hot \ x)
  BY <1>2, HotIsFinite, FS_Difference, FS_CardinalityType
<1>7. Spares(pg.lru, m, hot, width')
  <2> DEFINE k == Cardinality(hot \ Beyond(pg.lru, m))
  <2>1. k \in Nat /\ k <= width
    BY <1>5, <1>6 DEF Spares
  <2> HIDE DEF k
  <2>2. k <= width'
    BY <2>1, <1>3, <1>4
  <2> QED
    BY <2>2, <1>5 DEF Spares, k
<1>8. CASE IsResident(pg, b)
  <2>1. q.lru = pg.lru
    BY <1>2, <1>8, HitOrder
  <2> QED
    BY <1>1, <1>7, <2>1
<1>9. CASE ~IsResident(pg, b) /\ pg.free # <<>>
  <2>1. q.lru = Placed(pg.lru, b, "Cold")
    BY <1>1, <1>2, <1>9, MissOrder
  <2>a. q.lru = <<b>> \o pg.lru
    BY <2>1 DEF Placed
  <2>2. m + 1 \in 0 .. Len(q.lru) /\ Beyond(q.lru, m + 1) = Beyond(pg.lru, m)
    BY <1>2, <2>a, FrontAdds
  <2>3. Spares(q.lru, m + 1, hot, width')
    BY <1>7, <2>2 DEF Spares
  <2> QED
    BY <1>1, <2>2, <2>3
<1>10. CASE ~IsResident(pg, b) /\ pg.free = <<>>
  <2>1. PICK v \in Replaceable(Stamped(pg, b)) :
          /\ \A k \in Replaceable(Stamped(pg, b)) : v <= k
          /\ q.lru = Placed(RemoveAt(pg.lru, v), b, "Cold")
    BY <1>1, <1>2, <1>10, MissOrder
  <2>a. q.lru = <<b>> \o RemoveAt(pg.lru, v)
    BY <2>1 DEF Placed
  <2>2. v \in DOMAIN pg.lru /\ v <= c
    BY <1>1, <1>2, <1>10, <2>1, BatchIsBelow DEF c
  <2>3. Len(pg.lru) \in Nat /\ v \in 1 .. Len(pg.lru)
    BY <1>2, <2>2
  <2>4. Len(q.lru) = Len(pg.lru) /\ \A k \in v .. Len(pg.lru) : Beyond(q.lru, k) = Beyond(pg.lru, k)
    BY <1>2, <2>a, <2>2, ChurnIsBelow
  <2>5. CASE v <= m
    <3>1. m \in v .. Len(pg.lru)
      BY <2>3, <2>5, <1>5
    <3>2. Spares(q.lru, m, hot, width')
      BY <1>7, <2>4, <3>1 DEF Spares
    <3> QED
      BY <1>1, <2>4, <3>2
  <2>6. CASE v > m
    <3> DEFINE W == Beyond(pg.lru, v)
    <3>1. W \subseteq Beyond(pg.lru, m)
      BY <2>3, <2>6 DEF Beyond, Stretch
    <3>2. W \subseteq hot
      BY <3>1, <1>5 DEF Spares
    <3>3. IsFiniteSet(W) /\ Cardinality(W) = Len(pg.lru) - v
      <4>1. Once(pg.lru)
        BY <1>2 DEF Sound, OrderExact, Once
      <4> QED
        BY <4>1, <1>2, <2>3, StretchCounts DEF Beyond
    <3>4. Len(pg.lru) = NSlots
      <4> DEFINE f == Len(pg.free)
                 k == Len(pg.lru)
      <4>1. f = 0
        BY <1>10
      <4>2. f + k = NSlots /\ k \in Nat
        BY <1>2, OrderCounts
      <4> HIDE DEF f, k
      <4>3. k = NSlots
        BY <4>1, <4>2, <1>2
      <4> QED
        BY <4>3 DEF k
    <3>5. Cardinality(hot \ W) = Cardinality(hot) - Cardinality(hot \cap W)
      BY <1>2, HotIsFinite, FS_Difference
    <3>6. hot \cap W = W
      BY <3>2
    <3>7. Cardinality(hot \ W) <= v
      <4>1. Cardinality(hot) <= NSlots /\ Cardinality(hot) \in Nat
        BY <1>2, HotIsFinite DEF ScanInv
      <4> HIDE DEF W
      <4>2. Cardinality(W) = NSlots - v /\ v \in Nat
        BY <3>3, <3>4, <2>3
      <4>3. Cardinality(hot \ W) = Cardinality(hot) - (NSlots - v)
        BY <4>2, <3>5, <3>6
      <4> DEFINE h == Cardinality(hot)
      <4>4. h <= NSlots /\ h \in Nat /\ Cardinality(hot \ W) = h - (NSlots - v)
        BY <4>1, <4>3
      <4> HIDE DEF h
      <4> QED
        BY <4>2, <4>4, <1>2
    <3>8. Beyond(q.lru, v) = W /\ v \in 0 .. Len(q.lru)
      BY <2>3, <2>4
    <3>9. Cardinality(hot \ W) <= width'
      <4> DEFINE h == Cardinality(hot \ W)
      <4>1. h \in Nat /\ h <= v
        BY <3>7, <1>6
      <4> HIDE DEF h
      <4>2. h <= width'
        BY <4>1, <2>2, <2>3, <1>3, <1>4
      <4> QED
        BY <4>2 DEF h
    <3>10. Spares(q.lru, v, hot, width')
      BY <3>2, <3>8, <3>9 DEF Spares
    <3> QED
      BY <1>1, <3>8, <3>10
  <2> QED
    BY <2>3, <2>5, <2>6, <1>5
<1> QED
  BY <1>8, <1>9, <1>10

LEMMA WarmStep ==
  ASSUME ScanInv, NEW b \in Blocks, TouchBlock(b, "Mru"), AccountInv'
  PROVE  /\ Cardinality(hot') <= NSlots
         /\ \E m \in 0 .. Len(pg'.lru) : Spares(pg'.lru, m, hot', width')
<1>1. hot' = ResidentBlocks(pg') /\ width' = 0
  BY DEF TouchBlock
<1>2. Sound(pg') /\ pg'.lru \in Seq(Blocks) /\ OrderExact(pg')
  BY FieldsType DEF AccountInv, CacheInv, Sound
<1>3. /\ Len(pg'.lru) = Cardinality(ResidentBlocks(pg')) /\ Len(pg'.lru) \in Nat
      /\ Len(pg'.free) \in Nat /\ Len(pg'.free) + Len(pg'.lru) = NSlots
  BY <1>2, OrderCounts
<1>4. Beyond(pg'.lru, 0) = ResidentBlocks(pg')
  <2>1. DOMAIN pg'.lru = 0 + 1 .. Len(pg'.lru)
    BY <1>2
  <2> QED
    BY <2>1, <1>2 DEF Beyond, Stretch, OrderExact, ResidentBlocks
<1>5. Cardinality(hot' \ Beyond(pg'.lru, 0)) = 0
  BY <1>1, <1>4, FS_EmptySet
<1>6. Spares(pg'.lru, 0, hot', width')
  BY <1>1, <1>4, <1>5 DEF Spares
<1>7. Cardinality(hot') <= NSlots
  <2> DEFINE l == Len(pg'.lru)
             f == Len(pg'.free)
  <2>1. l \in Nat /\ f \in Nat /\ f + l = NSlots /\ Cardinality(hot') = l
    BY <1>1, <1>3
  <2> HIDE DEF l, f
  <2> QED
    BY <2>1
<1> QED
  BY <1>3, <1>6, <1>7

LEMMA ScanStep == ASSUME ScanInv, [Next]_vars PROVE ScanInv'
<1>1. AccountInv'
  BY AccountStep DEF ScanInv
<1>2. ASSUME pg'.lru = pg.lru, hot' = hot, width' = width PROVE ScanInv'
  BY <1>1, <1>2 DEF ScanInv
<1>3. ASSUME OpenBatch PROVE ScanInv'
  <2>1. pg.cur + 1 \in Nat /\ pg \in PagerType /\ pg' = BeginBatch(pg) /\ hot' = hot /\ width' = width
    BY <1>3, FieldsType DEF ScanInv, AccountInv, CacheInv, Sound, OpenBatch
  <2>2. pg'.lru = pg.lru
    BY <2>1, OpenKeeps
  <2> QED
    BY <1>2, <2>1, <2>2
<1>4. ASSUME NEW b \in Blocks, NEW policy \in InsertPolicies, TouchBlock(b, policy) PROVE ScanInv'
  <2>1. CASE policy = "Cold"
    <3>1. hot' = hot
      BY <1>4, <2>1 DEF TouchBlock
    <3> QED
      BY <1>1, <1>4, <2>1, <3>1, ColdStep DEF ScanInv
  <2>2. CASE policy = "Mru"
    BY <1>1, <1>4, <2>2, WarmStep DEF ScanInv
  <2> QED
    BY <2>1, <2>2 DEF InsertPolicies
<1>5. ASSUME NEW b \in Blocks, TouchPanics(b) PROVE ScanInv'
  BY <1>2, <1>5 DEF TouchPanics
<1>6. CASE UNCHANGED vars
  BY <1>2, <1>6 DEF vars
<1> QED
  BY <1>3, <1>4, <1>5, <1>6 DEF Next

(* However long a scan, it displaces no more of the blocks that were resident when    *)
(* it began than the blocks of its widest batch (touch_cold).                 *)
THEOREM ScansSpareTheHot == Spec => []ScanResistant
<1>1. ScanInv /\ [Next]_vars => ScanInv'
  BY ScanStep
<1> QED
  BY <1>1, InitScan, ScanHolds, PTL DEF Spec

-----------------------------------------------------------------------------
(* Dense layer streaming.  How many of the layers are in, and which came last: the     *)
(* place it sits in churns, the others keep theirs.                          *)
Lesser(x, y) == IF x <= y THEN x ELSE y

Filled == IF pass = 0 THEN Lesser(at, NSlots) ELSE Lesser(Len(layers), NSlots)
Top == IF pass = 0 \/ at >= NSlots THEN at ELSE Len(layers)

SweepTypes ==
  /\ layers \in Seq(Blocks) /\ Once(layers)
  /\ at \in 0 .. Len(layers) /\ pass \in 0 .. Passes
  /\ Sound(swept) /\ \A b \in Blocks : swept.epoch[b] <= swept.cur

SweepOrder ==
  /\ Len(swept.lru) = Filled
  /\ \A i \in 1 .. Filled : swept.lru[i] = layers[IF i = 1 THEN Top ELSE Filled + 1 - i]

SweepHits ==
  hits = IF pass = 0 THEN 0 ELSE IF Len(layers) <= NSlots THEN at ELSE Lesser(at, NSlots - 1)

PrefixStays ==
  /\ prefix \in [Blocks -> Slots \cup {NoSlot}]
  /\ pass > 0 =>
       /\ \A i \in 1 .. Filled - 1 : swept.resident[layers[i]] = prefix[layers[i]]
       /\ \A b \in Blocks : prefix[b] # NoSlot =>
            b = layers[Len(layers)] \/ \E i \in 1 .. Filled - 1 : b = layers[i]

(* What Belady's policy is still to hit in this pass, with what it has hit already,    *)
(* is all its blocks, or one less: only the first miss of a pass costs it one of them,  *)
(* later ones drop the layer just visited.                                  *)
Later == {layers[j] : j \in at + 1 .. Len(layers)}
Claim == beladyHits + Cardinality(belady \cap Later)

BeladyKnown ==
  /\ IsFiniteSet(belady) /\ Cardinality(belady) = Filled
  /\ \A b \in belady : \E i \in 1 .. Len(layers) : b = layers[i] /\ (pass = 0 => i <= at)
  /\ at > 0 => layers[at] \in belady
  /\ beladyHits \in 0 .. at
  /\ pass > 0 /\ Len(layers) <= NSlots => beladyHits = at
  /\ pass > 0 /\ Len(layers) > NSlots =>
       /\ Claim \in {NSlots - 1, NSlots}
       /\ at = 0 => Claim = NSlots

SweepInv == SweepTypes /\ SweepOrder /\ SweepHits /\ PrefixStays /\ BeladyKnown

-----------------------------------------------------------------------------
(* A visit, in a batch of its own, may replace any block, and so replaces the first.    *)
LEMMA VisitIs ==
  ASSUME NEW p, Sound(p), \A b \in Blocks : p.epoch[b] <= p.cur, NEW b \in Blocks
  PROVE  LET q == Touch(BeginBatch(p), b, "Cold").pager
         IN  /\ Sound(q) /\ \A c \in Blocks : q.epoch[c] <= q.cur
             /\ IsResident(p, b) => q.lru = p.lru /\ q.resident = p.resident
             /\ ~IsResident(p, b) /\ Len(p.lru) < NSlots =>
                  /\ q.lru = <<b>> \o p.lru
                  /\ \A c \in Blocks : c # b => q.resident[c] = p.resident[c]
             /\ ~IsResident(p, b) /\ Len(p.lru) >= NSlots =>
                  /\ Len(p.lru) = NSlots
                  /\ q.lru = <<b>> \o RemoveAt(p.lru, 1)
                  /\ \A c \in Blocks : c # b /\ c # p.lru[1] => q.resident[c] = p.resident[c]
<1> DEFINE o == BeginBatch(p)
           q == Touch(o, b, "Cold").pager
<1>1. /\ p \in PagerType /\ p.cur \in Nat /\ p.epoch \in [Blocks -> Nat \cup {NoEpoch}]
      /\ p.lru \in Seq(Blocks) /\ p.free \in Seq(Slots) /\ OrderExact(p)
  BY FieldsType DEF Sound
<1>2. /\ o \in PagerType /\ o.cur = p.cur + 1 /\ o.epoch = p.epoch
      /\ o.resident = p.resident /\ o.lru = p.lru /\ o.free = p.free
  BY <1>1, OpenKeeps
<1>3. Sound(o)
  BY <1>2, SameWhereabouts
<1>4. IsResident(o, b) <=> IsResident(p, b)
  BY <1>2 DEF IsResident
<1> HIDE DEF o
<1>5. Len(p.lru) \in Nat /\ Len(p.free) \in Nat /\ Len(p.free) + Len(p.lru) = NSlots
  BY OrderCounts
<1>6. NSlots \in Nat \ {0}
  BY NSlotsPositive
<1>7. ~IsResident(p, b) => Replaceable(Stamped(o, b)) = DOMAIN p.lru
  <2> SUFFICES ASSUME ~IsResident(p, b) PROVE Replaceable(Stamped(o, b)) = DOMAIN p.lru
    OBVIOUS
  <2>1. \A i \in DOMAIN o.lru : o.epoch[o.lru[i]] # o.cur
    <3> SUFFICES ASSUME NEW i \in DOMAIN p.lru PROVE p.epoch[p.lru[i]] # p.cur + 1
      BY <1>2
    <3>1. p.lru[i] \in Blocks
      BY <1>1
    <3>2. p.epoch[p.lru[i]] <= p.cur /\ p.epoch[p.lru[i]] \in Int
      BY <1>1, <3>1 DEF NoEpoch
    <3> QED
      BY <3>2, <1>1
  <2>2. {i \in DOMAIN o.lru : o.epoch[o.lru[i]] # o.cur} = DOMAIN o.lru /\ o.cur # 0
    BY <2>1, <1>1, <1>2
  <2>3. Replaceable(Stamped(o, b)) = DOMAIN o.lru
    BY <2>2, <1>3, <1>4, ReplaceableIs
  <2> QED
    BY <2>3, <1>2
<1>8. IsResident(o, b) \/ ~TakeSlotPanics(Stamped(o, b))
  <2> SUFFICES ASSUME ~IsResident(p, b), p.free = <<>> PROVE DOMAIN p.lru # {}
    <3>1. Stamped(o, b).free = p.free
      BY <1>2, StampKeeps
    <3> QED
      BY <1>4, <1>7, <3>1 DEF TakeSlotPanics
  <2>1. Len(p.free) = 0
    OBVIOUS
  <2> DEFINE l == Len(p.lru)
  <2>2. l \in Nat /\ l = NSlots
    <3> DEFINE f == Len(p.free)
    <3>1. f = 0 /\ f + l = NSlots /\ l \in Nat
      BY <2>1, <1>5
    <3> HIDE DEF f, l
    <3> QED
      BY <3>1
  <2> HIDE DEF l
  <2>3. 1 \in 1 .. l
    BY <2>2, <1>6
  <2>4. DOMAIN p.lru = 1 .. l
    BY <1>1 DEF l
  <2> QED
    BY <2>3, <2>4
<1>9. Sound(q) /\ \A c \in Blocks : q.epoch[c] <= q.cur
  <2>1. /\ Sound(q) /\ q.cur = o.cur
        /\ IsResident(q, b) /\ q.epoch[b] = o.cur
        /\ \A c \in Blocks : c # b =>
             \/ q.epoch[c] = o.epoch[c]
             \/ q.epoch[c] = NoEpoch
    BY <1>3, <1>8, TouchSound
  <2> HIDE DEF q
  <2>2. ASSUME NEW c \in Blocks PROVE q.epoch[c] <= q.cur
    <3>1. p.epoch[c] <= p.cur /\ p.epoch[c] \in Int
      BY <1>1 DEF NoEpoch
    <3> QED
      BY <2>1, <3>1, <1>1, <1>2 DEF NoEpoch
  <2> QED
    BY <2>1, <2>2
<1>10. IsResident(p, b) => q.lru = p.lru /\ q.resident = p.resident
  BY <1>2, <1>3, <1>4, HitOrder
<1>11. ASSUME ~IsResident(p, b), Len(p.lru) < NSlots
       PROVE  /\ q.lru = <<b>> \o p.lru
              /\ \A c \in Blocks : c # b => q.resident[c] = p.resident[c]
  <2>1. o.free # <<>>
    <3>1. CASE p.free = <<>>
      <4> DEFINE f == Len(p.free)
                 l == Len(p.lru)
      <4>1. f = 0 /\ f + l = NSlots /\ l \in Nat /\ l < NSlots
        BY <1>5, <1>11, <3>1
      <4> HIDE DEF f, l
      <4> QED
        BY <4>1, <1>6
    <3> QED
      BY <3>1, <1>2
  <2>2. q.lru = Placed(o.lru, b, "Cold") /\ \A c \in Blocks : c # b => q.resident[c] = o.resident[c]
    BY <2>1, <1>3, <1>4, <1>8, <1>11, MissOrder
  <2> QED
    BY <2>2, <1>2 DEF Placed
<1>12. ASSUME ~IsResident(p, b), Len(p.lru) >= NSlots
       PROVE  /\ Len(p.lru) = NSlots
              /\ q.lru = <<b>> \o RemoveAt(p.lru, 1)
              /\ \A c \in Blocks : c # b /\ c # p.lru[1] => q.resident[c] = p.resident[c]
  <2>1. Len(p.free) = 0 /\ Len(p.lru) = NSlots
    <3> DEFINE f == Len(p.free)
               l == Len(p.lru)
    <3>1. f \in Nat /\ f + l = NSlots /\ l \in Nat /\ l >= NSlots
      BY <1>5, <1>12
    <3> HIDE DEF f, l
    <3>2. f = 0 /\ l = NSlots
      BY <3>1, <1>6
    <3> QED
      BY <3>2 DEF f, l
  <2>2. o.free = <<>>
    BY <2>1, <1>1, <1>2
  <2>3. PICK v \in Replaceable(Stamped(o, b)) :
          /\ \A k \in Replaceable(Stamped(o, b)) : v <= k
          /\ q.lru = Placed(RemoveAt(o.lru, v), b, "Cold")
          /\ \A c \in Blocks : q.resident[c] = IF c = b THEN o.resident[o.lru[v]]
                                             ELSE IF c = o.lru[v] THEN NoSlot
                                             ELSE o.resident[c]
    BY <2>2, <1>3, <1>4, <1>8, <1>12, MissOrder
  <2>4. DOMAIN p.lru = 1 .. NSlots
    BY <2>1, <1>1
  <2>5. v = 1
    BY <2>3, <2>4, <1>6, <1>7, <1>12
  <2> HIDE DEF q
  <2> QED
    BY <2>1, <2>3, <2>5, <1>2 DEF Placed
<1> QED
  BY <1>9, <1>10, <1>11, <1>12 DEF q, o

(* The operators of the cache are the same in the sweep's module.            *)
LEMMA SweepOperators ==
  /\ Sweep!NewPager = NewPager /\ Sweep!Slots = Slots /\ Sweep!NoSlot = NoSlot
  /\ \A p : Sweep!BeginBatch(p) = BeginBatch(p)
  /\ \A p, b : Sweep!IsResident(p, b) <=> IsResident(p, b)
  /\ \A p, b, policy : Sweep!Touch(p, b, policy) = Touch(p, b, policy)
  /\ \A S : Sweep!Cardinality(S) = Cardinality(S)
<1>c. \A S : Sweep!Cardinality(S) = Cardinality(S)
  BY Zenon DEF Sweep!Cardinality, Cardinality
<1>1. Sweep!Slots = Slots /\ Sweep!NoSlot = NoSlot /\ Sweep!NoEpoch = NoEpoch
  BY DEF Sweep!Slots, Slots, Sweep!NoSlot, NoSlot, Sweep!NoEpoch, NoEpoch
<1>r. /\ \A s : Sweep!Front(s) = Front(s) /\ Sweep!Last(s) = Last(s)
      /\ \A s, i : Sweep!RemoveAt(s, i) = RemoveAt(s, i)
      /\ \A s, e : Sweep!RemoveFirst(s, e) = RemoveFirst(s, e)
  <2>1. /\ \A s : Sweep!Front(s) = Front(s) /\ Sweep!Last(s) = Last(s)
        /\ \A s, i : Sweep!RemoveAt(s, i) = RemoveAt(s, i)
    BY DEF Sweep!Front, Front, Sweep!Last, Last, Sweep!RemoveAt, RemoveAt
  <2>2. \A S : Sweep!Min(S) = Min(S)
    BY Zenon DEF Sweep!Min, Min
  <2>3. ASSUME NEW s, NEW e PROVE Sweep!RemoveFirst(s, e) = RemoveFirst(s, e)
    BY <2>1, <2>2, Zenon DEF Sweep!RemoveFirst, RemoveFirst, Sweep!SelectInSeq, SelectInSeq
  <2> QED
    BY <2>1, <2>3
<1>2. Sweep!NewPager = NewPager
  BY <1>1, Zenon DEF Sweep!NewPager, NewPager
<1>3. /\ \A p : Sweep!BeginBatch(p) = BeginBatch(p)
      /\ \A p, b : Sweep!Stamped(p, b) = Stamped(p, b)
      /\ \A p, b : Sweep!MarkMru(p, b) = MarkMru(p, b)
      /\ \A p, b, s, y : Sweep!Insert(p, b, s, y) = Insert(p, b, s, y)
  <2>1. ASSUME NEW p PROVE Sweep!BeginBatch(p) = BeginBatch(p)
    BY DEF Sweep!BeginBatch, BeginBatch
  <2>2. ASSUME NEW p, NEW b PROVE Sweep!Stamped(p, b) = Stamped(p, b)
    BY DEF Sweep!Stamped, Stamped
  <2>3. ASSUME NEW p, NEW b PROVE Sweep!MarkMru(p, b) = MarkMru(p, b)
    BY <1>r DEF Sweep!MarkMru, MarkMru
  <2>4. ASSUME NEW p, NEW b, NEW s, NEW y PROVE Sweep!Insert(p, b, s, y) = Insert(p, b, s, y)
    BY DEF Sweep!Insert, Insert
  <2> QED
    BY <2>1, <2>2, <2>3, <2>4, Zenon
<1>4. \A p, b : /\ Sweep!IsResident(p, b) <=> IsResident(p, b)
                /\ Sweep!InBatch(p, b) <=> InBatch(p, b)
  BY <1>1 DEF Sweep!IsResident, IsResident, Sweep!InBatch, InBatch
<1>5. \A p : Sweep!Replaceable(p) = Replaceable(p)
  BY <1>4, Zenon DEF Sweep!Replaceable, Replaceable
<1>6. \A p, v : Sweep!SlotFrom(p, v) = SlotFrom(p, v)
  <2> SUFFICES ASSUME NEW p, NEW v PROVE Sweep!SlotFrom(p, v) = SlotFrom(p, v)
    OBVIOUS
  <2> QED
    BY <1>1, <1>r DEF Sweep!SlotFrom, SlotFrom
<1>7. \A p : Sweep!TakeSlot(p) = TakeSlot(p)
  BY <1>5, <1>6, Zenon DEF Sweep!TakeSlot, TakeSlot
<1>8. \A p, b, policy : Sweep!Touch(p, b, policy) = Touch(p, b, policy)
  BY <1>3, <1>4, <1>7, Zenon DEF Sweep!Touch, Touch
<1> QED
  BY <1>1, <1>2, <1>3, <1>4, <1>8, <1>c

-----------------------------------------------------------------------------
LEMMA SweepFacts ==
  ASSUME SweepInv
  PROVE  /\ Len(layers) \in Nat /\ DOMAIN layers = 1 .. Len(layers)
         /\ at \in Nat /\ at <= Len(layers) /\ pass \in Nat /\ Filled \in Nat /\ Top \in Nat
         /\ NSlots \in Nat \ {0} /\ Passes \in Nat
         /\ swept.lru \in Seq(Blocks) /\ DOMAIN swept.lru = 1 .. Filled
         /\ \A i \in 1 .. Len(layers) : layers[i] \in Blocks
         /\ \A i, j \in 1 .. Len(layers) : layers[i] = layers[j] => i = j
         /\ Filled <= Len(layers) /\ Top <= Len(layers) /\ Filled <= NSlots
         /\ swept.resident \in [Blocks -> Slots \cup {NoSlot}]
BY NSlotsPositive, DrivesAreBounded, FieldsType DEF SweepInv, SweepTypes, SweepOrder, Once, Sound,
   Filled, Top, Lesser

(* Which layers are resident.                                                *)
LEMMA WhoIsIn ==
  ASSUME SweepInv, NEW k \in 1 .. Len(layers)
  PROVE  IsResident(swept, layers[k]) <=> Filled > 0 /\ (k = Top \/ k < Filled)
<1>1. OrderExact(swept) /\ layers[k] \in Blocks
  BY SweepFacts DEF SweepInv, SweepTypes, Sound
<1>2. IsResident(swept, layers[k]) <=> \E i \in 1 .. Filled : swept.lru[i] = layers[k]
  BY <1>1, SweepFacts DEF OrderExact, ResidentBlocks
<1>3. \A i \in 1 .. Filled : (IF i = 1 THEN Top ELSE Filled + 1 - i) \in 1 .. Len(layers)
  BY SweepFacts DEF Filled, Top, Lesser
<1>4. ASSUME NEW i \in 1 .. Filled
      PROVE  swept.lru[i] = layers[k] <=> k = IF i = 1 THEN Top ELSE Filled + 1 - i
  <2> DEFINE j == IF i = 1 THEN Top ELSE Filled + 1 - i
  <2>1. j \in 1 .. Len(layers) /\ swept.lru[i] = layers[j]
    BY <1>3 DEF SweepInv, SweepOrder
  <2> HIDE DEF j
  <2>2. swept.lru[i] = layers[k] <=> k = j
    BY <2>1, SweepFacts
  <2> QED
    BY <2>2 DEF j
<1>5. (\E i \in 1 .. Filled : k = IF i = 1 THEN Top ELSE Filled + 1 - i)
        <=> Filled > 0 /\ (k = Top \/ k < Filled)
  <2>1. ASSUME Filled > 0, k = Top \/ k < Filled
        PROVE  \E i \in 1 .. Filled : k = IF i = 1 THEN Top ELSE Filled + 1 - i
    <3>1. CASE k = Top
      <4>1. 1 \in 1 .. Filled
        BY <2>1, SweepFacts
      <4> QED
        BY <3>1, <4>1
    <3>2. CASE k < Filled
      <4>1. Filled + 1 - k \in 1 .. Filled /\ Filled + 1 - k # 1
            /\ Filled + 1 - (Filled + 1 - k) = k
        BY <3>2, SweepFacts
      <4> QED
        BY <4>1
    <3> QED
      BY <2>1, <3>1, <3>2
  <2>2. ASSUME NEW i \in 1 .. Filled, k = IF i = 1 THEN Top ELSE Filled + 1 - i
        PROVE  Filled > 0 /\ (k = Top \/ k < Filled)
    BY <2>2, SweepFacts
  <2> QED
    BY <2>1, <2>2
<1> QED
  BY <1>2, <1>4, <1>5

(* When the layer visited next is a hit.                                      *)
LEMMA NextIsIn ==
  ASSUME SweepInv, at < Len(layers)
  PROVE  /\ at + 1 \in 1 .. Len(layers)
         /\ IsResident(swept, layers[at + 1])
              <=> pass > 0 /\ (Len(layers) <= NSlots \/ at + 1 < NSlots)
<1>1. at + 1 \in 1 .. Len(layers)
  BY SweepFacts
<1>2. IsResident(swept, layers[at + 1])
        <=> Filled > 0 /\ (at + 1 = Top \/ at + 1 < Filled)
  BY <1>1, WhoIsIn
<1>3. Filled > 0 /\ (at + 1 = Top \/ at + 1 < Filled)
        <=> pass > 0 /\ (Len(layers) <= NSlots \/ at + 1 < NSlots)
  <2>1. CASE pass = 0
    BY <2>1, SweepFacts DEF Filled, Top, Lesser
  <2>2. CASE pass > 0 /\ Len(layers) <= NSlots
    BY <2>2, SweepFacts DEF Filled, Top, Lesser
  <2>3. CASE pass > 0 /\ Len(layers) > NSlots
    BY <2>3, SweepFacts DEF Filled, Top, Lesser
  <2> QED
    BY <2>1, <2>2, <2>3, SweepFacts
<1> QED
  BY <1>1, <1>2, <1>3

LEMMA VisitOrder ==
  ASSUME SweepInv, Sweep!Visit
  PROVE  SweepTypes' /\ SweepOrder' /\ SweepHits' /\ PrefixStays'
<1> DEFINE q == Touch(BeginBatch(swept), layers[at + 1], "Cold").pager
           b == layers[at + 1]
<1>1. /\ pass < Passes /\ at < Len(layers) /\ swept' = q /\ at' = at + 1
      /\ hits' = IF IsResident(swept, b) THEN hits + 1 ELSE hits
      /\ layers' = layers /\ pass' = pass /\ prefix' = prefix
  BY SweepOperators DEF Sweep!Visit, Sweep!Layer, Sweep!n
<1>2. b \in Blocks /\ at + 1 \in 1 .. Len(layers)
  BY <1>1, SweepFacts
<1>3. IsResident(swept, b) <=> pass > 0 /\ (Len(layers) <= NSlots \/ at + 1 < NSlots)
  BY <1>1, NextIsIn
<1>4. /\ Sound(q) /\ \A c \in Blocks : q.epoch[c] <= q.cur
      /\ IsResident(swept, b) => q.lru = swept.lru /\ q.resident = swept.resident
      /\ ~IsResident(swept, b) /\ Len(swept.lru) < NSlots =>
           /\ q.lru = <<b>> \o swept.lru
           /\ \A c \in Blocks : c # b => q.resident[c] = swept.resident[c]
      /\ ~IsResident(swept, b) /\ Len(swept.lru) >= NSlots =>
           /\ Len(swept.lru) = NSlots
           /\ q.lru = <<b>> \o RemoveAt(swept.lru, 1)
           /\ \A c \in Blocks : c # b /\ c # swept.lru[1] => q.resident[c] = swept.resident[c]
  BY <1>2, VisitIs DEF SweepInv, SweepTypes
<1> HIDE DEF q
<1>5. SweepTypes'
  BY <1>1, <1>2, <1>4, SweepFacts DEF SweepInv, SweepTypes, Once
<1>6. SweepHits'
  <2>1. hits = IF pass = 0 THEN 0 ELSE IF Len(layers) <= NSlots THEN at ELSE Lesser(at, NSlots - 1)
    BY DEF SweepInv, SweepHits
  <2> QED
    BY <2>1, <1>1, <1>3, SweepFacts DEF SweepHits, Lesser
<1>7. Filled' = (IF pass = 0 THEN Lesser(at + 1, NSlots) ELSE Filled)
      /\ Top' = (IF pass = 0 \/ at + 1 >= NSlots THEN at + 1 ELSE Len(layers))
  BY <1>1 DEF Filled, Top
<1>8. Len(swept.lru) = Filled /\ \A i \in 1 .. Filled :
        swept.lru[i] = layers[IF i = 1 THEN Top ELSE Filled + 1 - i]
  BY DEF SweepInv, SweepOrder
<1>9. CASE IsResident(swept, b)
  <2>1. Filled' = Filled /\ Top' = Top
    BY <1>1, <1>3, <1>7, <1>9, SweepFacts DEF Top
  <2>2. swept'.lru = swept.lru /\ swept'.resident = swept.resident
    BY <1>1, <1>4, <1>9
  <2>3. SweepOrder'
    BY <1>1, <1>8, <2>1, <2>2 DEF SweepOrder
  <2>4. PrefixStays'
    BY <1>1, <2>1, <2>2 DEF SweepInv, PrefixStays
  <2> QED
    BY <1>5, <1>6, <2>3, <2>4
<1>10. CASE ~IsResident(swept, b) /\ Filled < NSlots
  <2>1. pass = 0 /\ Filled = at /\ Top = at /\ Filled' = at + 1 /\ Top' = at + 1
    BY <1>1, <1>3, <1>7, <1>10, SweepFacts DEF Filled, Top, Lesser
  <2>2. q.lru = <<b>> \o swept.lru
    BY <1>4, <1>8, <1>10
  <2>3. /\ Len(q.lru) = at + 1 /\ q.lru[1] = b
        /\ \A i \in 2 .. at + 1 : q.lru[i] = swept.lru[i - 1]
    BY <1>2, <1>8, <2>1, <2>2, ConsIs, SweepFacts
  <2>4. ASSUME NEW i \in 1 .. at + 1
        PROVE  q.lru[i] = layers[IF i = 1 THEN at + 1 ELSE (at + 1) + 1 - i]
    <3>1. CASE i = 1
      BY <2>3, <3>1
    <3>2. CASE i # 1
      <4>1. i \in 2 .. at + 1 /\ i - 1 \in 1 .. at
        BY <3>2, SweepFacts
      <4>2. q.lru[i] = layers[IF i - 1 = 1 THEN at ELSE at + 1 - (i - 1)]
        BY <4>1, <1>8, <2>1, <2>3
      <4>3. (IF i - 1 = 1 THEN at ELSE at + 1 - (i - 1)) = (at + 1) + 1 - i
        BY <4>1, SweepFacts
      <4> QED
        BY <3>2, <4>2, <4>3
    <3> QED
      BY <3>1, <3>2
  <2>5. SweepOrder'
    BY <1>1, <2>1, <2>3, <2>4 DEF SweepOrder
  <2>6. PrefixStays'
    BY <1>1, <2>1 DEF SweepInv, PrefixStays
  <2> QED
    BY <1>5, <1>6, <2>5, <2>6
<1>11. CASE ~IsResident(swept, b) /\ ~(Filled < NSlots)
  <2>1. Filled = NSlots /\ Filled' = NSlots /\ Top' = at + 1 /\ at + 1 >= NSlots
    BY <1>1, <1>3, <1>7, <1>11, SweepFacts DEF Filled, Top, Lesser
  <2>2. /\ Len(swept.lru) >= NSlots /\ q.lru = <<b>> \o RemoveAt(swept.lru, 1)
        /\ \A c \in Blocks : c # b /\ c # swept.lru[1] => q.resident[c] = swept.resident[c]
    BY <1>4, <1>8, <1>11, <2>1, SweepFacts
  <2>3. 1 \in DOMAIN swept.lru /\ 1 \in 1 .. Filled
    BY <2>1, SweepFacts
  <2>4. /\ Len(q.lru) = NSlots /\ q.lru[1] = b
        /\ \A i \in 2 .. NSlots : q.lru[i] = swept.lru[i]
    <3> DEFINE a == RemoveAt(swept.lru, 1)
    <3>1. /\ a \in Seq(Blocks) /\ Len(a) = Filled - 1
          /\ \A i \in 1 .. Filled - 1 : a[i] = IF i < 1 THEN swept.lru[i] ELSE swept.lru[i + 1]
      <4> DEFINE l == swept.lru
      <4>1. l \in Seq(Blocks) /\ 1 \in DOMAIN l /\ Len(l) = Filled
        BY <1>8, <2>3, SweepFacts
      <4> HIDE DEF l
      <4>2. LET r == RemoveAt(l, 1)
            IN  /\ r \in Seq(Blocks) /\ Len(r) = Len(l) - 1 /\ DOMAIN r = 1 .. Len(l) - 1
                /\ \A i \in 1 .. Len(l) - 1 : r[i] = IF i < 1 THEN l[i] ELSE l[i + 1]
        BY <4>1, RemoveAtIs
      <4> QED
        BY <4>1, <4>2 DEF l
    <3> HIDE DEF a
    <3>2. /\ Len(<<b>> \o a) = Len(a) + 1 /\ (<<b>> \o a)[1] = b
          /\ \A i \in 2 .. Len(a) + 1 : (<<b>> \o a)[i] = a[i - 1]
      BY <1>2, <3>1, ConsIs
    <3>3. \A i \in 2 .. NSlots : i - 1 \in 1 .. Filled - 1 /\ (i - 1) + 1 = i
      BY <2>1, SweepFacts
    <3> QED
      BY <2>1, <2>2, <3>1, <3>2, <3>3, SweepFacts DEF a
  <2>5. ASSUME NEW i \in 1 .. NSlots
        PROVE  q.lru[i] = layers[IF i = 1 THEN at + 1 ELSE NSlots + 1 - i]
    <3>1. CASE i = 1
      BY <2>4, <3>1
    <3>2. CASE i # 1
      <4>1. i \in 2 .. NSlots
        BY <3>2, SweepFacts
      <4> QED
        BY <3>2, <4>1, <1>8, <2>1, <2>4
    <3> QED
      BY <3>1, <3>2
  <2>6. SweepOrder'
    BY <1>1, <2>1, <2>4, <2>5 DEF SweepOrder
  <2>7. PrefixStays'
    <3> SUFFICES ASSUME pass > 0
                 PROVE  \A i \in 1 .. NSlots - 1 : q.resident[layers[i]] = prefix[layers[i]]
      BY <1>1, <2>1 DEF SweepInv, PrefixStays
    <3> TAKE i \in 1 .. NSlots - 1
    <3>1. swept.lru[1] = layers[Top] /\ Top >= NSlots /\ Top \in 1 .. Len(layers)
      BY <1>1, <1>3, <1>8, <1>11, <2>1, <2>3, SweepFacts DEF Top
    <3>2. i \in 1 .. Len(layers) /\ i # at + 1 /\ i # Top /\ i \in 1 .. Filled - 1
      BY <2>1, <3>1, SweepFacts
    <3>3. layers[i] # b /\ layers[i] # swept.lru[1] /\ layers[i] \in Blocks
      BY <1>2, <3>1, <3>2, SweepFacts
    <3>4. swept.resident[layers[i]] = prefix[layers[i]]
      BY <3>2 DEF SweepInv, PrefixStays
    <3> QED
      BY <2>2, <3>3, <3>4
  <2> QED
    BY <1>5, <1>6, <2>6, <2>7
<1> QED
  BY <1>9, <1>10, <1>11

-----------------------------------------------------------------------------
(* Whom Belady's policy drops: the layer just visited, if this pass has visited any    *)
(* that it holds.                                                           *)
LEMMA DistanceIs ==
  ASSUME SweepInv, at < Len(layers), NEW i \in 1 .. Len(layers)
  PROVE  Sweep!Distance(layers[i])
           = IF i > at + 1 THEN i - at - 1 ELSE i - at - 1 + Len(layers)
<1>1. \A j \in 1 .. Len(layers) : layers[j] = layers[i] => j = i
  BY SweepFacts
<1>2. (CHOOSE j \in 1 .. Len(layers) : layers[j] = layers[i]) = i
  BY <1>1
<1> QED
  BY <1>2 DEF Sweep!Distance, Sweep!n

LEMMA FurthestIs ==
  ASSUME SweepInv, at < Len(layers), belady # {}, layers[at + 1] \notin belady
  PROVE  LET f == CHOOSE b \in belady : \A c \in belady : Sweep!Distance(c) <= Sweep!Distance(b)
         IN  /\ f \in belady
             /\ at > 0 => f \notin Later
<1> DEFINE n == Len(layers)
           far(x) == Sweep!Distance(x)
           best(b) == \A c \in belady : far(c) <= far(b)
           f == CHOOSE b \in belady : best(b)
           D == {n + n - far(b) : b \in belady}
<1>1. n \in Nat /\ at \in Nat /\ at < n
  BY SweepFacts
<1>2. \A b \in belady : \E i \in 1 .. n : b = layers[i]
  BY DEF SweepInv, BeladyKnown
<1>3. \A i \in 1 .. n : far(layers[i]) = IF i > at + 1 THEN i - at - 1 ELSE i - at - 1 + n
  BY DistanceIs
<1> HIDE DEF far, n
<1>4. \A b \in belady : far(b) \in Nat /\ far(b) <= n + n
  <2> TAKE b \in belady
  <2>1. PICK i \in 1 .. n : b = layers[i]
    BY <1>2
  <2>2. far(b) = IF i > at + 1 THEN i - at - 1 ELSE i - at - 1 + n
    BY <2>1, <1>3
  <2>3. i \in Nat /\ i >= 1 /\ i <= n
    BY <1>1
  <2> HIDE DEF far
  <2> QED
    BY <2>2, <2>3, <1>1
<1>5. D \subseteq Nat /\ D # {}
  BY <1>1, <1>4
<1>6. PICK d \in D : \A k \in D : d <= k
  <2> HIDE DEF D
  <2> QED
    BY <1>5, LeastExists
<1>7. PICK b0 \in belady : d = n + n - far(b0)
  BY <1>6
<1>8. best(b0)
  <2> TAKE c \in belady
  <2>1. n + n - far(b0) <= n + n - far(c)
    BY <1>6, <1>7
  <2> QED
    BY <2>1, <1>1, <1>4
<1> HIDE DEF best
<1>9. f \in belady /\ best(f)
  BY <1>8, Zenon
<1> HIDE DEF f
<1>10. ASSUME at > 0 PROVE f \notin Later
  <2>1. layers[at] \in belady /\ at \in 1 .. n
    BY <1>1, <1>10 DEF SweepInv, BeladyKnown
  <2>2. far(layers[at]) = n - 1 /\ far(layers[at]) <= far(f)
    <3>1. far(layers[at]) = IF at > at + 1 THEN at - at - 1 ELSE at - at - 1 + n
      BY <1>3, <2>1
    <3>2. (IF at > at + 1 THEN at - at - 1 ELSE at - at - 1 + n) = n - 1
      BY <1>1
    <3>3. far(layers[at]) <= far(f)
      BY <1>9, <2>1 DEF best
    <3> QED
      BY <3>1, <3>2, <3>3
  <2>3. PICK i \in 1 .. n : f = layers[i]
    BY <1>2, <1>9
  <2>4. far(f) = IF i > at + 1 THEN i - at - 1 ELSE i - at - 1 + n
    BY <1>3, <2>3
  <2>5. i <= at + 1
    <3>1. n - 1 <= far(f)
      BY <2>2
    <3>2. i \in Nat /\ i <= n
      BY <1>1
    <3> QED
      BY <3>1, <3>2, <2>4, <1>1, <1>10
  <2>6. i # at + 1
    BY <2>3, <1>9
  <2>7. \A j \in at + 1 .. n : j \in 1 .. n /\ j # i
    BY <2>5, <2>6, <1>1
  <2>8. \A j \in at + 1 .. n : layers[j] # layers[i]
    BY <2>3, <2>7, SweepFacts DEF n
  <2> QED
    BY <2>3, <2>8 DEF Later, n
<1> QED
  BY <1>9, <1>10 DEF f, best, far

(* What is still to come loses the layer that is visited.                     *)
LEMMA LaterShrinks ==
  ASSUME SweepInv, at < Len(layers), at' = at + 1, layers' = layers
  PROVE  /\ Later = Later' \cup {layers[at + 1]} /\ layers[at + 1] \notin Later'
         /\ IsFiniteSet(Later) /\ IsFiniteSet(Later')
<1>1. /\ at + 1 .. Len(layers) = {at + 1} \cup ((at + 1) + 1 .. Len(layers))
      /\ \A j \in (at + 1) + 1 .. Len(layers) : j \in 1 .. Len(layers) /\ j # at + 1
      /\ at + 1 \in 1 .. Len(layers)
  BY SweepFacts
<1>2. Later' = {layers[j] : j \in (at + 1) + 1 .. Len(layers)}
  BY DEF Later
<1>3. Later = Later' \cup {layers[at + 1]}
  BY <1>1, <1>2 DEF Later
<1>4. layers[at + 1] \notin Later'
  BY <1>1, <1>2, SweepFacts
<1>5. Later \subseteq Blocks /\ Later' \subseteq Blocks
  <2>1. \A j \in at + 1 .. Len(layers) : layers[j] \in Blocks
    BY SweepFacts
  <2> QED
    BY <2>1, <1>3 DEF Later
<1> QED
  BY <1>3, <1>4, <1>5, BlocksFinite, FS_Subset

LEMMA VisitBelady ==
  ASSUME SweepInv, Sweep!Visit
  PROVE  BeladyKnown'
<1> DEFINE b == layers[at + 1]
           n == Len(layers)
           f == CHOOSE x \in belady : \A c \in belady : Sweep!Distance(c) <= Sweep!Distance(x)
<1>1. /\ at < n /\ at' = at + 1 /\ layers' = layers /\ pass' = pass
      /\ belady' = IF b \in belady \/ Cardinality(belady) < NSlots THEN belady \cup {b}
                   ELSE (belady \ {f}) \cup {b}
      /\ beladyHits' = IF b \in belady THEN beladyHits + 1 ELSE beladyHits
  BY SweepOperators DEF Sweep!Visit, Sweep!Layer, Sweep!n, Sweep!BeladyKeeps
<1>2. /\ n \in Nat /\ at \in Nat /\ NSlots \in Nat \ {0} /\ Filled \in Nat /\ at + 1 \in 1 .. n
      /\ pass \in Nat
  BY <1>1, SweepFacts
<1>3. /\ IsFiniteSet(belady) /\ Cardinality(belady) = Filled /\ beladyHits \in 0 .. at
      /\ \A x \in belady : \E i \in 1 .. n : x = layers[i] /\ (pass = 0 => i <= at)
      /\ pass > 0 /\ n <= NSlots => beladyHits = at
      /\ pass > 0 /\ n > NSlots => Claim \in {NSlots - 1, NSlots} /\ (at = 0 => Claim = NSlots)
  BY DEF SweepInv, BeladyKnown
<1>4. Filled' = IF pass = 0 THEN Lesser(at + 1, NSlots) ELSE Filled
  BY <1>1 DEF Filled
<1>5. ~(b \in belady \/ Cardinality(belady) < NSlots) =>
         f \in belady /\ (at > 0 => f \notin Later)
  <2> SUFFICES ASSUME b \notin belady, ~(Cardinality(belady) < NSlots)
               PROVE  f \in belady /\ (at > 0 => f \notin Later)
    OBVIOUS
  <2>1. belady # {}
    BY <1>2, FS_EmptySet
  <2> QED
    BY <1>1, <2>1, FurthestIs
<1> HIDE DEF f
<1>6. layers'[at'] \in belady'
  BY <1>1
<1>7. IsFiniteSet(belady')
  BY <1>1, <1>3, FS_AddElement, FS_RemoveElement
<1>8. \A x \in belady' : \E i \in 1 .. n : x = layers[i] /\ (pass = 0 => i <= at + 1)
  <2> TAKE x \in belady'
  <2>1. CASE x = b
    BY <2>1, <1>2
  <2>2. CASE x # b
    <3>1. x \in belady
      BY <2>2, <1>1
    <3>2. PICK i \in 1 .. n : x = layers[i] /\ (pass = 0 => i <= at)
      BY <3>1, <1>3
    <3> QED
      BY <3>2, <1>2
  <2> QED
    BY <2>1, <2>2
<1>9. beladyHits' \in 0 .. at + 1
  BY <1>1, <1>2, <1>3
<1>10. pass = 0 => b \notin belady
  <2> SUFFICES ASSUME pass = 0, b \in belady PROVE FALSE
    OBVIOUS
  <2>1. PICK i \in 1 .. n : b = layers[i] /\ i <= at
    BY <1>3
  <2>2. i = at + 1
    BY <2>1, <1>2, SweepFacts
  <2> QED
    BY <2>1, <2>2, <1>2
<1>11. pass > 0 /\ n <= NSlots => b \in belady
  <2> SUFFICES ASSUME pass > 0, n <= NSlots PROVE b \in belady
    OBVIOUS
  <2> DEFINE all == Stretch(layers, 0, n)
  <2>1. all \in SUBSET Blocks /\ IsFiniteSet(all) /\ Cardinality(all) = n
    <3>1. layers \in Seq(Blocks) /\ Once(layers) /\ 0 \in Nat /\ n <= Len(layers) /\ 0 <= n
      BY <1>2 DEF SweepInv, SweepTypes
    <3>2. n - 0 = n
      BY <1>2
    <3> QED
      BY <3>1, <3>2, <1>2, StretchCounts
  <2>2. belady \subseteq all
    BY <1>3 DEF Stretch
  <2>3. Cardinality(belady) = n
    BY <1>2, <1>3 DEF Filled, Lesser
  <2>4. b \in all
    BY <1>2 DEF Stretch
  <2> HIDE DEF all
  <2> QED
    BY <2>1, <2>2, <2>3, <2>4, FS_Subset
<1>12. Cardinality(belady') = Filled'
  <2>1. CASE b \in belady
    <3>1. belady' = belady /\ Filled' = Filled
      BY <2>1, <1>1, <1>2, <1>4, <1>10
    <3> QED
      BY <3>1, <1>3
  <2>2. CASE b \notin belady /\ Cardinality(belady) < NSlots
    <3>1. pass = 0 /\ Filled = at /\ Filled' = at + 1
      BY <2>2, <1>2, <1>3, <1>4, <1>11 DEF Filled, Lesser
    <3>2. Cardinality(belady') = Filled + 1
      BY <2>2, <1>1, <1>3, FS_AddElement
    <3> QED
      BY <3>1, <3>2
  <2>3. CASE b \notin belady /\ ~(Cardinality(belady) < NSlots)
    <3>1. f \in belady /\ belady' = (belady \ {f}) \cup {b}
      BY <2>3, <1>1, <1>5
    <3>2. IsFiniteSet(belady \ {f}) /\ Cardinality(belady \ {f}) = Filled - 1
      BY <3>1, <1>3, FS_RemoveElement
    <3>3. Cardinality(belady') = (Filled - 1) + 1
      BY <2>3, <3>1, <3>2, FS_AddElement
    <3>4. Filled' = Filled
      BY <2>3, <1>2, <1>3, <1>4 DEF Filled, Lesser
    <3> QED
      BY <3>3, <3>4, <1>2
  <2> QED
    BY <2>1, <2>2, <2>3
<1>13. ASSUME pass > 0, n > NSlots
       PROVE  Claim' \in {NSlots - 1, NSlots} /\ (at > 0 \/ b \in belady => Claim' = Claim)
  <2> DEFINE h == beladyHits
             k == Cardinality(belady \cap Later)
             k1 == Cardinality(belady' \cap Later')
  <2>1. Later = Later' \cup {b} /\ b \notin Later' /\ IsFiniteSet(Later) /\ IsFiniteSet(Later')
    BY <1>1, LaterShrinks
  <2>2. k \in Nat /\ IsFiniteSet(belady \cap Later)
    <3>1. belady \cap Later \subseteq belady
      OBVIOUS
    <3> QED
      BY <3>1, <1>3, FS_Subset, FS_CardinalityType
  <2>3. h \in Nat /\ h + k \in {NSlots - 1, NSlots} /\ (at = 0 => h + k = NSlots)
    BY <1>2, <1>3, <1>13 DEF Claim
  <2>4. Claim' = beladyHits' + k1
    BY DEF Claim
  <2>5. CASE b \in belady
    <3>1. belady' \cap Later' = (belady \cap Later) \ {b} /\ b \in belady \cap Later
      BY <2>1, <2>5, <1>1
    <3>2. k1 = k - 1
      <4> DEFINE A == belady \cap Later
      <4>1. IsFiniteSet(A) /\ b \in A
        BY <2>2, <3>1
      <4> HIDE DEF A
      <4>2. Cardinality(A \ {b}) = Cardinality(A) - 1
        BY <4>1, FS_RemoveElement
      <4> QED
        BY <4>2, <3>1 DEF A
    <3>3. beladyHits' = h + 1
      BY <2>5, <1>1
    <3> HIDE DEF h, k, k1
    <3>4. Claim' = h + k
      BY <2>2, <2>3, <2>4, <3>2, <3>3
    <3>5. Claim = h + k
      BY DEF Claim, h, k
    <3> QED
      BY <3>4, <3>5, <2>3
  <2>6. CASE b \notin belady /\ f \notin Later
    <3>1. ~(Cardinality(belady) < NSlots)
      BY <1>2, <1>3, <1>13 DEF Filled, Lesser
    <3>2. belady' \cap Later' = belady \cap Later
      BY <2>1, <2>6, <3>1, <1>1
    <3>3. beladyHits' = h
      BY <2>6, <1>1
    <3> QED
      BY <3>2, <3>3, <2>3 DEF Claim
  <2>7. CASE b \notin belady /\ f \in Later
    <3>1. ~(Cardinality(belady) < NSlots)
      BY <1>2, <1>3, <1>13 DEF Filled, Lesser
    <3>2. f \in belady /\ at = 0
      BY <2>7, <3>1, <1>2, <1>5
    <3>3. belady' \cap Later' = (belady \cap Later) \ {f} /\ f \in belady \cap Later
      BY <2>1, <2>7, <3>1, <3>2, <1>1
    <3>4. k1 = k - 1
      <4> DEFINE A == belady \cap Later
      <4>1. IsFiniteSet(A) /\ f \in A
        BY <2>2, <3>3
      <4> HIDE DEF A
      <4>2. Cardinality(A \ {f}) = Cardinality(A) - 1
        BY <4>1, FS_RemoveElement
      <4> QED
        BY <4>2, <3>3 DEF A
    <3>5. beladyHits' = h
      BY <2>7, <1>1
    <3> HIDE DEF h, k, k1
    <3>6. Claim' = NSlots - 1
      BY <2>2, <2>3, <2>4, <3>2, <3>4, <3>5, <1>2
    <3> QED
      BY <3>6, <3>2, <2>7
  <2> QED
    BY <2>5, <2>6, <2>7
<1> QED
  BY <1>1, <1>2, <1>3, <1>6, <1>7, <1>8, <1>9, <1>11, <1>12, <1>13 DEF BeladyKnown

LEMMA EndPassStep == ASSUME SweepInv, Sweep!EndPass PROVE SweepInv'
<1> DEFINE n == Len(layers)
<1>1. /\ pass < Passes /\ at = n /\ pass' = pass + 1 /\ at' = 0
      /\ hits' = 0 /\ beladyHits' = 0
      /\ layers' = layers /\ swept' = swept /\ belady' = belady
      /\ prefix' = IF pass = 0 THEN swept.resident ELSE prefix
  BY DEF Sweep!EndPass, Sweep!n
<1>2. /\ n \in Nat /\ pass \in Nat /\ NSlots \in Nat \ {0} /\ Filled \in Nat /\ Filled <= n
      /\ Passes \in Nat
  BY SweepFacts
<1>3. Filled' = Filled /\ Top' = Top /\ Top = n /\ Filled = Lesser(n, NSlots)
  BY <1>1, <1>2 DEF Filled, Top, Lesser
<1>4. SweepTypes'
  BY <1>1, <1>2 DEF SweepInv, SweepTypes
<1>5. SweepOrder'
  BY <1>1, <1>3 DEF SweepInv, SweepOrder
<1>6. SweepHits'
  BY <1>1, <1>2 DEF SweepHits, Lesser
<1>7. PrefixStays'
  <2>1. CASE pass = 0
    <3>1. prefix' = swept.resident /\ prefix' \in [Blocks -> Slots \cup {NoSlot}]
      BY <1>1, <2>1, SweepFacts
    <3>2. ASSUME NEW c \in Blocks, swept.resident[c] # NoSlot
          PROVE  c = layers[n] \/ \E i \in 1 .. Filled - 1 : c = layers[i]
      <4>1. \E i \in 1 .. Filled : swept.lru[i] = c
        BY <3>2, SweepFacts DEF SweepInv, SweepTypes, Sound, OrderExact, ResidentBlocks, IsResident
      <4>2. PICK i \in 1 .. Filled : c = layers[IF i = 1 THEN Top ELSE Filled + 1 - i]
        BY <4>1 DEF SweepInv, SweepOrder
      <4>3. CASE i = 1
        BY <4>2, <4>3, <1>3
      <4>4. CASE i # 1
        <5>1. Filled + 1 - i \in 1 .. Filled - 1
          BY <4>4, <1>2
        <5> QED
          BY <4>2, <4>4, <5>1
      <4> QED
        BY <4>3, <4>4
    <3> QED
      BY <1>1, <1>3, <3>1, <3>2 DEF PrefixStays
  <2>2. CASE pass # 0
    BY <1>1, <1>2, <1>3, <2>2 DEF SweepInv, PrefixStays
  <2> QED
    BY <2>1, <2>2
<1>8. BeladyKnown'
  <2>1. /\ IsFiniteSet(belady) /\ Cardinality(belady) = Filled
        /\ \A x \in belady : \E i \in 1 .. n : x = layers[i]
    BY DEF SweepInv, BeladyKnown
  <2>2. pass' > 0 /\ at' = 0 /\ beladyHits' \in 0 .. at'
    BY <1>1, <1>2
  <2>3. \A j \in 1 .. n : j \in 0 + 1 .. n
    BY <1>2
  <2>4. belady' \cap Later' = belady
    BY <1>1, <2>1, <2>3 DEF Later
  <2>5. Claim' = Filled
    <3> DEFINE k == Cardinality(belady' \cap Later')
    <3>1. k = Filled
      BY <2>1, <2>4
    <3>2. Claim' = 0 + k
      BY <1>1 DEF Claim
    <3> HIDE DEF k
    <3> QED
      BY <3>1, <3>2, <1>2
  <2>6. n > NSlots => Filled = NSlots
    BY <1>2, <1>3 DEF Lesser
  <2> QED
    BY <1>1, <1>2, <1>3, <2>1, <2>2, <2>5, <2>6 DEF BeladyKnown
<1> QED
  BY <1>4, <1>5, <1>6, <1>7, <1>8 DEF SweepInv

LEMMA SweepInit == Sweep!Init => SweepInv
<1> SUFFICES ASSUME Sweep!Init PROVE SweepInv
  OBVIOUS
<1>1. PICK k \in 0 .. Cardinality(Blocks) : layers \in [1 .. k -> Blocks]
  BY SweepOperators DEF Sweep!Init
<1>2. k \in Nat
  BY BlocksFinite, FS_CardinalityType
<1>3. layers \in Seq(Blocks) /\ Len(layers) = k
  BY <1>1, <1>2
<1>4. /\ swept = NewPager /\ belady = {} /\ at = 0 /\ pass = 0 /\ hits = 0 /\ beladyHits = 0
      /\ prefix = [b \in Blocks |-> NoSlot]
      /\ \A i, j \in DOMAIN layers : layers[i] = layers[j] => i = j
  BY SweepOperators DEF Sweep!Init, Sweep!IsInjective
<1>5. Sound(swept) /\ (\A b \in Blocks : swept.epoch[b] <= swept.cur) /\ swept.lru = <<>>
  BY <1>4, NewPagerSound DEF NewPager, NoEpoch
<1>6. Filled = 0 /\ NSlots \in Nat \ {0} /\ Passes \in Nat
  BY <1>4, NSlotsPositive, DrivesAreBounded DEF Filled, Lesser
<1>7. SweepTypes
  BY <1>2, <1>3, <1>4, <1>5, <1>6 DEF SweepTypes, Once
<1>8. SweepOrder /\ SweepHits
  BY <1>4, <1>5, <1>6 DEF SweepOrder, SweepHits
<1>9. PrefixStays
  BY <1>4 DEF PrefixStays
<1>10. BeladyKnown
  <2>1. IsFiniteSet(belady) /\ Cardinality(belady) = 0
    BY <1>4, FS_EmptySet
  <2> QED
    BY <1>4, <1>6, <2>1 DEF BeladyKnown
<1> QED
  BY <1>7, <1>8, <1>9, <1>10 DEF SweepInv

LEMMA SweepStep == ASSUME SweepInv, [Sweep!Next]_sweepVars PROVE SweepInv'
<1>1. CASE Sweep!Visit
  BY <1>1, VisitOrder, VisitBelady DEF SweepInv
<1>2. CASE Sweep!EndPass
  BY <1>2, EndPassStep
<1>3. CASE UNCHANGED sweepVars
  <2>1. /\ layers' = layers /\ swept' = swept /\ belady' = belady /\ at' = at /\ pass' = pass
        /\ hits' = hits /\ beladyHits' = beladyHits /\ prefix' = prefix
    BY <1>3 DEF sweepVars
  <2>2. Filled' = Filled /\ Top' = Top /\ Later' = Later
    BY <2>1 DEF Filled, Top, Later
  <2>3. Claim' = Claim
    BY <2>1, <2>2 DEF Claim
  <2> QED
    BY <2>1, <2>2, <2>3
    DEF SweepInv, SweepTypes, SweepOrder, SweepHits, PrefixStays, BeladyKnown
<1> QED
  BY <1>1, <1>2, <1>3 DEF Sweep!Next

LEMMA SweepHolds ==
  SweepInv => SweepTypeOK /\ Sweep!PrefixKeepsItsSlots /\ Sweep!WithinOneOfBelady
<1> SUFFICES ASSUME SweepInv
             PROVE  SweepTypeOK /\ Sweep!PrefixKeepsItsSlots /\ Sweep!WithinOneOfBelady
  OBVIOUS
<1> DEFINE n == Len(layers)
<1>1. n \in Nat /\ at \in Nat /\ at <= n /\ pass \in Nat /\ NSlots \in Nat \ {0}
  BY SweepFacts
<1>2. SweepTypeOK
  <2>1. swept \in PagerType
    BY DEF SweepInv, SweepTypes, Sound
  <2>2. belady \subseteq Blocks
    BY SweepFacts DEF SweepInv, BeladyKnown
  <2>3. hits \in 0 .. n
    BY <1>1 DEF SweepInv, SweepHits, Lesser
  <2>4. beladyHits \in 0 .. n
    BY <1>1 DEF SweepInv, BeladyKnown
  <2> QED
    BY <2>1, <2>2, <2>3, <2>4 DEF SweepTypeOK, SweepInv, SweepTypes, PrefixStays
<1>3. Sweep!PrefixKeepsItsSlots
  <2> SUFFICES ASSUME pass > 0
               PROVE  Cardinality({b \in Blocks : prefix[b] # NoSlot
                                                /\ swept.resident[b] # prefix[b]}) <= 1
    BY SweepOperators DEF Sweep!PrefixKeepsItsSlots
  <2> DEFINE moved == {b \in Blocks : prefix[b] # NoSlot /\ swept.resident[b] # prefix[b]}
  <2>1. moved \subseteq {layers[n]}
    BY DEF SweepInv, PrefixStays
  <2> HIDE DEF moved
  <2>2. IsFiniteSet({layers[n]}) /\ Cardinality({layers[n]}) = 1
    BY FS_Singleton
  <2>3. Cardinality(moved) <= Cardinality({layers[n]})
    BY <2>1, <2>2, FS_Subset
  <2> QED
    BY <2>2, <2>3 DEF moved
<1>4. Sweep!WithinOneOfBelady
  <2> SUFFICES ASSUME at = n, pass > 0 PROVE hits \in {beladyHits - 1, beladyHits}
    BY DEF Sweep!WithinOneOfBelady, Sweep!n
  <2>1. CASE n <= NSlots
    <3>1. hits = at
      BY <1>1, <2>1 DEF SweepInv, SweepHits
    <3>2. beladyHits = at
      BY <2>1 DEF SweepInv, BeladyKnown
    <3> QED
      BY <3>1, <3>2
  <2>2. CASE n > NSlots
    <3>1. hits = NSlots - 1
      BY <1>1, <2>2 DEF SweepInv, SweepHits, Lesser
    <3>2. Claim \in {NSlots - 1, NSlots} /\ beladyHits \in Nat
      BY <1>1, <2>2 DEF SweepInv, BeladyKnown
    <3>3. \A j \in at + 1 .. n : FALSE
      BY <1>1
    <3>4. belady \cap Later = {}
      BY <3>3 DEF Later
    <3>5. Claim = beladyHits
      <4> DEFINE k == Cardinality(belady \cap Later)
      <4>1. k = 0
        BY <3>4, FS_EmptySet
      <4>2. Claim = beladyHits + k
        BY DEF Claim
      <4> HIDE DEF k
      <4> QED
        BY <3>2, <4>1, <4>2
    <3> QED
      BY <3>1, <3>2, <3>5, <1>1
  <2> QED
    BY <2>1, <2>2, <1>1
<1> QED
  BY <1>2, <1>3, <1>4

LEMMA SweepInvHolds == MCSpec => []SweepInv
<1>1. MCInit => SweepInv
  BY SweepInit DEF MCInit
<1>2. SweepInv /\ [MCNext]_<<driven, vars, sweepVars, streamVars>> => SweepInv'
  <2> SUFFICES ASSUME SweepInv, [MCNext]_<<driven, vars, sweepVars, streamVars>>
               PROVE  [Sweep!Next]_sweepVars
    BY SweepStep
  <2> QED
    BY DEF MCNext
<1> QED
  BY <1>1, <1>2, PTL DEF MCSpec

LEMMA CacheOfMCSpec == MCSpec => Spec
<1>1. MCInit => Init
  BY DEF MCInit
<1>2. [MCNext]_<<driven, vars, sweepVars, streamVars>> => [Next]_vars
  BY DEF MCNext
<1> QED
  BY <1>1, <1>2, PTL DEF MCSpec, Spec

(* ScansAreCheap of MCPager: for every number of slots and layers, every pass hits as   *)
(* often as Belady's policy or once less, keeps its prefix in place (schedule), and no   *)
(* scan displaces more of the hot set than its widest batch (touch_cold).      *)
THEOREM SweepsAreNearOptimal == MCSpec => []ScansAreCheap
<1>1. SweepInv /\ ScanResistant => ScansAreCheap
  BY SweepHolds DEF ScansAreCheap
<1> QED
  BY <1>1, SweepInvHolds, CacheOfMCSpec, ScansSpareTheHot, PTL

-----------------------------------------------------------------------------
(***************************************************************************)
(* The streaming of weights (WeightStream): what the CPU knows of the commands   *)
(* ahead of the device, submitted or still being recorded, and why that is      *)
(* enough for the device to find what each command was recorded for.        *)
(***************************************************************************)
(* ------ the commands ------ *)
Copying ==
  [do : {"copy"}, pool : Stream!Pools, slot : Slots, from : {0, 1} \X (0 .. model.half - 1),
   blk : Blocks]
Reading ==
  [do : {"read"}, pool : Stream!Pools, window : 0 .. model.tape, slot : Slots \cup {NoSlot},
   need : SUBSET Blocks, sound : SUBSET Blocks]
Fencing == [do : {"fence"}, id : Nat \ {0}]
Commands == Copying \cup Reading \cup Fencing \cup {Stream!Barrier}

Ahead == device \o run.rec

CopyTo(q, k, p, s) == q[k].do = "copy" /\ q[k].pool = p /\ q[k].slot = s

(* What slot s of pool p holds once everything before position n is done.    *)
Holds(q, n, held, p, s, b) ==
  \/ /\ \A k \in 1 .. n - 1 : ~CopyTo(q, k, p, s)
     /\ held[p][s] = b
  \/ \E k \in 1 .. n - 1 :
       /\ CopyTo(q, k, p, s) /\ q[k].blk = b
       /\ \A l \in k + 1 .. n - 1 : ~CopyTo(q, l, p, s)

Clash(c, d) ==
  \/ c.do = "copy" /\ d.do = "read"
  \/ c.do = "read" /\ d.do = "copy"
  \/ c.do = "copy" /\ d.do = "copy" /\ c.pool = d.pool /\ c.slot = d.slot

(* Commands that must not pass one another are kept apart by a barrier.      *)
Apart(q) ==
  \A i, k \in DOMAIN q :
    i < k /\ Clash(q[i], q[k]) => \E m \in i + 1 .. k - 1 : q[m].do = "barrier"

SlotOf(c, tp, b) == IF c.window = 0 THEN c.slot ELSE tp[c.window][b]

(* Every read finds what it is meant to find, whenever its turn comes.       *)
ReadsAreRight(q, held, tp) ==
  \A i \in DOMAIN q : q[i].do = "read" =>
    \A b \in q[i].sound :
      /\ SlotOf(q[i], tp, b) \in Slots
      /\ Holds(q, i, held, q[i].pool, SlotOf(q[i], tp, b), b)

WindowsAreOld(q, words) ==
  \A i \in DOMAIN q : q[i].do = "read" => q[i].window <= words

QueueInv ==
  /\ Ahead \in Seq(Commands)
  /\ Apart(Ahead)
  /\ ReadsAreRight(Ahead, arena, tape)
  /\ WindowsAreOld(Ahead, run.words)

(* The ring.                                                                 *)
RingInv ==
  \A i \in DOMAIN Ahead : Ahead[i].do = "copy" =>
    /\ ring[Ahead[i].from] = Ahead[i].blk
    /\ IF Ahead[i].from[1] = run.half /\ run.at # "rotate"
       THEN Ahead[i].from[2] < run.cursor
       ELSE \E j \in DOMAIN device :
              j > i /\ device[j] = Stream!Fence(run.pending[Ahead[i].from[1]])

EpochsBelow(p) == \A b \in Blocks : p.epoch[b] <= p.cur

(* What the pools, the mirror and the arenas have to do with one another.    *)
PoolInv ==
  /\ DOMAIN pools = Stream!Pools
  /\ \A p \in Stream!Pools : Sound(pools[p])
  /\ \A p \in Stream!Pools : EpochsBelow(pools[p])

Believed ==
  \A p \in Stream!Pools, b \in Blocks :
    IsResident(pools[p], b) /\ <<p, b>> \notin lost =>
      /\ lut[p][b] = pools[p].resident[b]
      /\ Holds(Ahead, Len(Ahead) + 1, arena, p, pools[p].resident[b], b)

RunFields ==
  {"at", "op", "wide", "rec", "fences", "half", "cursor", "pending", "segments", "words",
   "role", "ids", "todo", "windows"}
RunPlaces == {"idle", "op", "retire", "stage", "sync", "rotate", "finish", "unwind"}

RunInv ==
  /\ model \in Models
  /\ DOMAIN run = RunFields
  /\ run.at \in RunPlaces /\ run.op \in Nat \ {0} /\ run.wide \in BOOLEAN
  /\ run.rec \in Seq(Commands) /\ run.fences \in Nat /\ run.half \in {0, 1}
  /\ run.cursor \in 0 .. model.half /\ run.pending \in [{0, 1} -> Nat]
  /\ run.segments \in Seq(Nat) /\ run.words \in 0 .. model.tape /\ run.role \in Nat
  /\ run.ids \in Seq(Blocks) /\ run.todo \in Seq(Blocks) /\ run.windows \in Seq(Nat)
  /\ device \in Seq(Commands)
  /\ lut \in [Stream!Pools -> [Blocks -> Slots \cup {NoSlot}]]
  /\ arena \in [Stream!Pools -> [Slots -> Blocks \cup {NoBlock}]]
  /\ ring \in [{0, 1} \X (0 .. model.half - 1) -> Blocks \cup {NoBlock}]
  /\ DOMAIN tape = 1 .. model.tape
  /\ forwards \in 0 .. MaxForwards
  /\ lost \subseteq Stream!Pools \X Blocks

(* Every fence the device still has to reach is of a segment in flight.       *)
FencesAre(d, n, S) ==
  /\ \A i \in DOMAIN d : d[i].do = "fence" => d[i].id <= n /\ d[i].id \in S
  /\ \A i, j \in DOMAIN d :
       d[i].do = "fence" /\ d[j].do = "fence" /\ d[i].id = d[j].id => i = j

FenceInv ==
  /\ FencesAre(device, run.fences, Stream!InFlight)
  /\ \A i \in DOMAIN run.rec : run.rec[i].do # "fence"
  /\ Len(run.segments) <= MaxInflight + (IF run.at = "retire" THEN 1 ELSE 0)
  /\ run.at = "retire" => run.segments # <<>>
  /\ run.at # "rotate" => run.pending[run.half] = 0
  /\ run.at \notin {"sync", "finish"} =>
       device = <<>> \/ device[Len(device)].do = "fence"
  /\ run.at = "idle" => device = <<>>
  /\ run.at \in {"idle", "sync", "finish", "rotate", "unwind"} => run.rec = <<>>

InBatchOf(p, b) == IsResident(pools[p], b) /\ pools[p].epoch[b] = pools[p].cur

(* The op that is being staged.                                              *)
DenseInv ==
  run.at \in {"stage", "rotate"} /\ Stream!Dense =>
    /\ Stream!InGraph /\ run.todo = Stream!Op /\ run.role = 1
    /\ run.at = "stage" => run.rec # <<>> /\ run.rec[Len(run.rec)].do = "barrier"

MoeStaging ==
  run.at \in {"stage", "rotate"} /\ ~Stream!Dense =>
    /\ Stream!InGraph /\ run.role \in Stream!Pools
    /\ ToSet(run.ids) \subseteq Stream!Experts /\ ToSet(run.todo) \subseteq ToSet(run.ids)
    /\ pools[run.role].cur > 0
    /\ \A b \in Blocks : InBatchOf(run.role, b) => b \in Stream!Experts
    /\ \A b \in ToSet(run.ids) :
         /\ b \in ToSet(run.todo) \/ InBatchOf(run.role, b)
         /\ \A p \in 1 .. run.role - 1 : IsResident(pools[p], b)
    /\ run.ids = <<>> => \A p \in Stream!Pools, b \in Stream!Experts : IsResident(pools[p], b)
    /\ Len(run.windows) = run.role - 1
    /\ \A p \in 1 .. run.role - 1 :
         /\ run.windows[p] \in 1 .. run.words
         /\ \A b \in Stream!Experts : tape[run.windows[p]][b] = lut[p][b]

(* What the segment holds since its last barrier.                            *)
StagedSince(rec, m) ==
  /\ rec[m].do = "barrier"
  /\ \A k \in m + 1 .. Len(rec) :
       /\ rec[k].do = "copy" /\ rec[k].pool <= run.role
       /\ rec[k].pool = run.role =>
            InBatchOf(rec[k].pool, rec[k].blk) /\ pools[rec[k].pool].resident[rec[k].blk] = rec[k].slot

MoeInv ==
  /\ MoeStaging
  /\ run.at = "stage" /\ ~Stream!Dense => \E m \in DOMAIN run.rec : StagedSince(run.rec, m)

PlaceInv ==
  /\ run.at \in {"op", "retire"} /\ Stream!Dense => run.role = 1
  /\ run.at = "sync" => Stream!InGraph /\ ~Stream!Dense

StreamInv ==
  /\ RunInv /\ QueueInv /\ RingInv /\ PoolInv /\ Believed
  /\ FenceInv /\ DenseInv /\ MoeInv /\ PlaceInv

-----------------------------------------------------------------------------
LEMMA JoinIs ==
  ASSUME NEW T, NEW s \in Seq(T), NEW t \in Seq(T)
  PROVE  /\ s \o t \in Seq(T) /\ Len(s \o t) = Len(s) + Len(t)
         /\ Len(s) \in Nat /\ Len(t) \in Nat
         /\ DOMAIN s = 1 .. Len(s) /\ DOMAIN t = 1 .. Len(t)
         /\ DOMAIN (s \o t) = 1 .. Len(s) + Len(t)
         /\ \A i \in 1 .. Len(s) : (s \o t)[i] = s[i]
         /\ \A i \in 1 .. Len(t) : (s \o t)[Len(s) + i] = t[i]
         /\ \A i \in 1 .. Len(s) + Len(t) : i > Len(s) => (s \o t)[i] = t[i - Len(s)]
<1>1. s \o t \in Seq(T) /\ Len(s \o t) = Len(s) + Len(t) /\ Len(s) \in Nat /\ Len(t) \in Nat
  BY ConcatProperties
<1>2. \A i \in 1 .. Len(s) + Len(t) :
        (s \o t)[i] = IF i <= Len(s) THEN s[i] ELSE t[i - Len(s)]
  BY ConcatProperties
<1>3. DOMAIN s = 1 .. Len(s) /\ DOMAIN t = 1 .. Len(t) /\ DOMAIN (s \o t) = 1 .. Len(s) + Len(t)
  BY <1>1
<1> DEFINE m == Len(s)
           n == Len(t)
           u == s \o t
<1>4. m \in Nat /\ n \in Nat /\ \A i \in 1 .. m + n : u[i] = IF i <= m THEN s[i] ELSE t[i - m]
  BY <1>1, <1>2
<1>5. /\ \A i \in 1 .. m : u[i] = s[i]
      /\ \A i \in 1 .. n : u[m + i] = t[i]
      /\ \A i \in 1 .. m + n : i > m => u[i] = t[i - m]
  <2> HIDE DEF m, n, u
  <2> QED
    BY <1>4
<1> QED
  BY <1>1, <1>3, <1>5

(* What a slot holds at a position depends only on what comes before it.     *)
LEMMA HoldsBefore ==
  ASSUME NEW q, NEW r, NEW n \in Nat, \A k \in 1 .. n - 1 : r[k] = q[k],
         NEW held, NEW p, NEW s, NEW b
  PROVE  Holds(q, n, held, p, s, b) <=> Holds(r, n, held, p, s, b)
<1>1. \A k \in 1 .. n - 1 : CopyTo(q, k, p, s) <=> CopyTo(r, k, p, s)
  BY DEF CopyTo
<1>2. \A k \in 1 .. n - 1 : \A l \in k + 1 .. n - 1 : l \in 1 .. n - 1
  OBVIOUS
<1> QED
  BY <1>1, <1>2 DEF Holds

LEMMA HoldsLater ==
  ASSUME NEW q, NEW m \in Nat, NEW n \in Nat, m <= n, NEW held, NEW p, NEW s, NEW b,
         \A k \in m .. n - 1 : ~CopyTo(q, k, p, s), m > 0
  PROVE  Holds(q, m, held, p, s, b) <=> Holds(q, n, held, p, s, b)
<1>1. \A k \in 1 .. n - 1 : k \in 1 .. m - 1 \/ k \in m .. n - 1
  OBVIOUS
<1>2. \A k \in 1 .. m - 1 : k \in 1 .. n - 1
  OBVIOUS
<1>3. \A k \in 1 .. n - 1 : \A l \in k + 1 .. n - 1 : l \in k + 1 .. m - 1 \/ l \in m .. n - 1
  OBVIOUS
<1>4. \A k \in 1 .. m - 1 : \A l \in k + 1 .. m - 1 : l \in k + 1 .. n - 1
  OBVIOUS
<1> QED
  BY <1>1, <1>2, <1>3, <1>4 DEF Holds

(* The prefix of a queue.                                                    *)
LEMMA PrefixKeeps ==
  ASSUME NEW T, NEW q \in Seq(T), NEW t \in Seq(T), NEW held, NEW tp, NEW w
  PROVE  /\ Apart(q \o t) => Apart(q)
         /\ ReadsAreRight(q \o t, held, tp) => ReadsAreRight(q, held, tp)
         /\ WindowsAreOld(q \o t, w) => WindowsAreOld(q, w)
<1> DEFINE r == q \o t
           m == Len(q)
           n == Len(t)
<1>1. /\ m \in Nat /\ n \in Nat /\ DOMAIN q = 1 .. m /\ DOMAIN r = 1 .. m + n
      /\ \A i \in 1 .. m : r[i] = q[i]
  BY JoinIs
<1> HIDE DEF r, m, n
<1>2. \A i \in DOMAIN q : i \in DOMAIN r /\ r[i] = q[i]
  BY <1>1
<1>3. Apart(r) => Apart(q)
  <2>1. \A i, k \in DOMAIN q : \A x \in i + 1 .. k - 1 : x \in DOMAIN q
    BY <1>1
  <2> QED
    BY <1>2, <2>1 DEF Apart
<1>4. ReadsAreRight(r, held, tp) => ReadsAreRight(q, held, tp)
  <2> SUFFICES ASSUME ReadsAreRight(r, held, tp), NEW i \in DOMAIN q, q[i].do = "read",
                      NEW b \in q[i].sound
               PROVE  /\ SlotOf(q[i], tp, b) \in Slots
                      /\ Holds(q, i, held, q[i].pool, SlotOf(q[i], tp, b), b)
    BY DEF ReadsAreRight
  <2>1. /\ SlotOf(q[i], tp, b) \in Slots
        /\ Holds(r, i, held, q[i].pool, SlotOf(q[i], tp, b), b)
    BY <1>2 DEF ReadsAreRight
  <2>2. i \in Nat /\ \A k \in 1 .. i - 1 : r[k] = q[k]
    BY <1>1
  <2> QED
    BY <2>1, <2>2, HoldsBefore
<1>5. WindowsAreOld(r, w) => WindowsAreOld(q, w)
  BY <1>2 DEF WindowsAreOld
<1> QED
  BY <1>3, <1>4, <1>5 DEF r

(* A queue grows by commands that are apart from it and from one another.    *)
LEMMA GrowsApart ==
  ASSUME NEW T, NEW q \in Seq(T), NEW t \in Seq(T), Apart(q), Apart(t),
         \A i \in DOMAIN q, k \in DOMAIN t : Clash(q[i], t[k]) =>
           \/ \E x \in i + 1 .. Len(q) : q[x].do = "barrier"
           \/ \E x \in 1 .. k - 1 : t[x].do = "barrier"
  PROVE  Apart(q \o t)
<1> DEFINE r == q \o t
           m == Len(q)
           n == Len(t)
<1>1. /\ m \in Nat /\ n \in Nat /\ DOMAIN q = 1 .. m /\ DOMAIN t = 1 .. n /\ DOMAIN r = 1 .. m + n
      /\ \A i \in 1 .. m : r[i] = q[i]
      /\ \A i \in 1 .. n : r[m + i] = t[i]
      /\ \A i \in 1 .. m + n : i > m => r[i] = t[i - m]
  BY JoinIs
<1>2. \A i \in DOMAIN q, k \in DOMAIN t : Clash(q[i], t[k]) =>
        \/ \E x \in i + 1 .. m : q[x].do = "barrier"
        \/ \E x \in 1 .. k - 1 : t[x].do = "barrier"
  OBVIOUS
<1> HIDE DEF r, m, n
<1> SUFFICES ASSUME NEW i \in 1 .. m + n, NEW k \in 1 .. m + n, i < k, Clash(r[i], r[k])
             PROVE  \E x \in i + 1 .. k - 1 : r[x].do = "barrier"
  BY <1>1 DEF Apart, r
<1>3. CASE k <= m
  <2>1. i \in DOMAIN q /\ k \in DOMAIN q /\ r[i] = q[i] /\ r[k] = q[k]
    BY <1>1, <1>3
  <2>2. PICK x \in i + 1 .. k - 1 : q[x].do = "barrier"
    BY <2>1 DEF Apart
  <2> QED
    BY <1>1, <1>3, <2>2
<1>4. CASE i > m
  <2>1. i - m \in DOMAIN t /\ k - m \in DOMAIN t /\ r[i] = t[i - m] /\ r[k] = t[k - m] /\ i - m < k - m
    BY <1>1, <1>4
  <2>2. PICK x \in (i - m) + 1 .. (k - m) - 1 : t[x].do = "barrier"
    BY <2>1 DEF Apart
  <2>3. m + x \in i + 1 .. k - 1 /\ x \in 1 .. n
    BY <1>1, <1>4, <2>2
  <2> QED
    BY <1>1, <2>2, <2>3
<1>5. CASE i <= m /\ k > m
  <2>1. i \in DOMAIN q /\ k - m \in DOMAIN t /\ r[i] = q[i] /\ r[k] = t[k - m]
    BY <1>1, <1>5
  <2>2. \/ \E x \in i + 1 .. m : q[x].do = "barrier"
        \/ \E x \in 1 .. (k - m) - 1 : t[x].do = "barrier"
    BY <1>2, <2>1
  <2>3. CASE \E x \in i + 1 .. m : q[x].do = "barrier"
    <3>1. PICK x \in i + 1 .. m : q[x].do = "barrier"
      BY <2>3
    <3> QED
      BY <1>1, <1>5, <3>1
  <2>4. CASE \E x \in 1 .. (k - m) - 1 : t[x].do = "barrier"
    <3>1. PICK x \in 1 .. (k - m) - 1 : t[x].do = "barrier"
      BY <2>4
    <3>2. m + x \in i + 1 .. k - 1 /\ x \in 1 .. n
      BY <1>1, <1>5, <3>1
    <3> QED
      BY <1>1, <3>1, <3>2
  <2> QED
    BY <2>2, <2>3, <2>4
<1> QED
  BY <1>1, <1>3, <1>4, <1>5

(* At the end of a queue that grew by commands that copy nothing, the slots     *)
(* hold what they held.                                                     *)
LEMMA GrowsHolding ==
  ASSUME NEW T, NEW q \in Seq(T), NEW t \in Seq(T), NEW held, NEW p, NEW s, NEW b,
         \A k \in DOMAIN t : ~CopyTo(t, k, p, s), NEW n \in 0 .. Len(t)
  PROVE  Holds(q, Len(q) + 1, held, p, s, b) <=> Holds(q \o t, Len(q) + 1 + n, held, p, s, b)
<1> DEFINE r == q \o t
           m == Len(q)
<1>1. /\ m \in Nat /\ Len(t) \in Nat /\ DOMAIN t = 1 .. Len(t)
      /\ \A i \in 1 .. m : r[i] = q[i]
      /\ \A i \in 1 .. m + Len(t) : i > m => r[i] = t[i - m]
  BY JoinIs
<1>2. Holds(q, m + 1, held, p, s, b) <=> Holds(r, m + 1, held, p, s, b)
  <2>1. m + 1 \in Nat /\ \A k \in 1 .. (m + 1) - 1 : r[k] = q[k]
    BY <1>1
  <2> HIDE DEF r, m
  <2> QED
    BY <2>1, HoldsBefore
<1>3. Holds(r, m + 1, held, p, s, b) <=> Holds(r, m + 1 + n, held, p, s, b)
  <2>1. ASSUME NEW k \in m + 1 .. (m + 1 + n) - 1 PROVE ~CopyTo(r, k, p, s)
    <3> DEFINE z == Len(t)
    <3>1. z \in Nat /\ n \in 0 .. z /\ DOMAIN t = 1 .. z
          /\ \A i \in 1 .. m + z : i > m => r[i] = t[i - m]
      BY <1>1
    <3> HIDE DEF z, r, m
    <3>2. k - m \in DOMAIN t /\ r[k] = t[k - m]
      BY <1>1, <3>1, <2>1
    <3> QED
      BY <3>2 DEF CopyTo
  <2>2. m + 1 \in Nat /\ m + 1 + n \in Nat /\ m + 1 <= m + 1 + n /\ m + 1 > 0
    BY <1>1
  <2> HIDE DEF r, m
  <2> QED
    BY <2>1, <2>2, HoldsLater
<1> QED
  BY <1>2, <1>3 DEF r, m

(* The reads of a queue that grows: those it had stay right.                 *)
LEMMA GrowsRight ==
  ASSUME NEW T, NEW q \in Seq(T), NEW t \in Seq(T), NEW held, NEW tp,
         ReadsAreRight(q, held, tp),
         \A k \in DOMAIN t : t[k].do = "read" =>
           \A b \in t[k].sound :
             /\ SlotOf(t[k], tp, b) \in Slots
             /\ Holds(q \o t, Len(q) + k, held, t[k].pool, SlotOf(t[k], tp, b), b)
  PROVE  ReadsAreRight(q \o t, held, tp)
<1> DEFINE r == q \o t
           m == Len(q)
           n == Len(t)
<1>1. /\ m \in Nat /\ n \in Nat /\ DOMAIN q = 1 .. m /\ DOMAIN t = 1 .. n /\ DOMAIN r = 1 .. m + n
      /\ \A i \in 1 .. m : r[i] = q[i]
      /\ \A i \in 1 .. m + n : i > m => r[i] = t[i - m]
  BY JoinIs
<1>2. \A k \in DOMAIN t : t[k].do = "read" =>
        \A b \in t[k].sound :
          /\ SlotOf(t[k], tp, b) \in Slots
          /\ Holds(r, m + k, held, t[k].pool, SlotOf(t[k], tp, b), b)
  OBVIOUS
<1> HIDE DEF r, m, n
<1> SUFFICES ASSUME NEW i \in 1 .. m + n, r[i].do = "read", NEW b \in r[i].sound
             PROVE  /\ SlotOf(r[i], tp, b) \in Slots
                    /\ Holds(r, i, held, r[i].pool, SlotOf(r[i], tp, b), b)
  BY <1>1 DEF ReadsAreRight, r
<1>3. CASE i <= m
  <2>1. i \in DOMAIN q /\ r[i] = q[i] /\ i \in Nat /\ \A k \in 1 .. i - 1 : r[k] = q[k]
    BY <1>1, <1>3
  <2>2. /\ SlotOf(q[i], tp, b) \in Slots
        /\ Holds(q, i, held, q[i].pool, SlotOf(q[i], tp, b), b)
    BY <2>1 DEF ReadsAreRight
  <2> QED
    BY <2>1, <2>2, HoldsBefore
<1>4. CASE i > m
  <2>1. i - m \in DOMAIN t /\ r[i] = t[i - m] /\ m + (i - m) = i
    BY <1>1, <1>4
  <2> QED
    BY <1>2, <2>1
<1> QED
  BY <1>1, <1>3, <1>4

(* r is q without what was at position i.                                    *)
Removed(q, r, i) ==
  /\ DOMAIN q = 1 .. Len(q) /\ Len(q) \in Nat /\ i \in 1 .. Len(q)
  /\ DOMAIN r = 1 .. Len(q) - 1 /\ Len(r) = Len(q) - 1
  /\ \A j \in 1 .. Len(q) - 1 : r[j] = IF j < i THEN q[j] ELSE q[j + 1]

LEMMA RemovedApart ==
  ASSUME NEW q, NEW r, NEW i, Removed(q, r, i), Apart(q), i = 1 \/ q[i].do # "barrier"
  PROVE  Apart(r)
<1> DEFINE n == Len(q)
<1>1. /\ DOMAIN q = 1 .. n /\ n \in Nat /\ i \in 1 .. n /\ DOMAIN r = 1 .. n - 1
      /\ \A j \in 1 .. n - 1 : r[j] = IF j < i THEN q[j] ELSE q[j + 1]
  BY DEF Removed
<1> HIDE DEF n
<1> SUFFICES ASSUME NEW a \in 1 .. n - 1, NEW c \in 1 .. n - 1, a < c, Clash(r[a], r[c])
             PROVE  \E x \in a + 1 .. c - 1 : r[x].do = "barrier"
  BY <1>1 DEF Apart
<1> DEFINE from(j) == IF j < i THEN j ELSE j + 1
<1>2. from(a) \in 1 .. n /\ from(c) \in 1 .. n /\ from(a) < from(c)
  BY <1>1
<1>3. r[a] = q[from(a)] /\ r[c] = q[from(c)]
  BY <1>1
<1>4. PICK x \in from(a) + 1 .. from(c) - 1 : q[x].do = "barrier"
  <2> HIDE DEF from
  <2> QED
    BY <1>1, <1>2, <1>3 DEF Apart
<1>5. x # i
  BY <1>1, <1>2, <1>4
<1>6. CASE x < i
  BY <1>1, <1>2, <1>4, <1>6
<1>7. CASE x > i
  <2>1. x - 1 \in a + 1 .. c - 1 /\ x - 1 \in 1 .. n - 1 /\ r[x - 1] = q[x]
    BY <1>1, <1>2, <1>4, <1>7
  <2> QED
    BY <2>1, <1>4
<1> QED
  BY <1>5, <1>6, <1>7, <1>1, <1>4

(* A command that was done takes what it did from the queue to the arena.     *)
LEMMA RemovedHolds ==
  ASSUME NEW q, NEW r, NEW i, Removed(q, r, i), NEW n \in 1 .. Len(q), NEW p, NEW s, NEW b,
         NEW held, NEW after,
         after[p][s] = IF CopyTo(q, i, p, s) THEN q[i].blk ELSE held[p][s],
         CopyTo(q, i, p, s) => n >= i /\ \A k \in 1 .. i - 1 : ~CopyTo(q, k, p, s),
         Holds(q, IF n < i THEN n ELSE n + 1, held, p, s, b)
  PROVE  Holds(r, n, after, p, s, b)
<1> DEFINE z == Len(q)
<1>1. /\ DOMAIN q = 1 .. z /\ z \in Nat /\ i \in 1 .. z /\ DOMAIN r = 1 .. z - 1 /\ n \in 1 .. z
      /\ \A j \in 1 .. z - 1 : r[j] = IF j < i THEN q[j] ELSE q[j + 1]
  BY DEF Removed
<1> HIDE DEF z
<1>2. \A j \in 1 .. z - 1 : CopyTo(r, j, p, s) <=> CopyTo(q, IF j < i THEN j ELSE j + 1, p, s)
  BY <1>1 DEF CopyTo
<1>3. CASE n < i
  <2>1. after[p][s] = held[p][s]
    BY <1>3, <1>1
  <2>2. Holds(q, n, held, p, s, b)
    BY <1>3
  <2>3. n \in Nat /\ \A k \in 1 .. n - 1 : r[k] = q[k]
    BY <1>1, <1>3
  <2>4. Holds(r, n, held, p, s, b)
    BY <2>2, <2>3, HoldsBefore
  <2> QED
    BY <2>1, <2>4 DEF Holds
<1>4. CASE n >= i
  <2>1. Holds(q, n + 1, held, p, s, b)
    BY <1>1, <1>4
  <2>2. CASE \A k \in 1 .. n : ~CopyTo(q, k, p, s)
    <3>1. /\ \A k \in 1 .. (n + 1) - 1 : ~CopyTo(q, k, p, s)
          /\ ~CopyTo(q, i, p, s)
      BY <2>2, <1>1, <1>4
    <3>2. held[p][s] = b
      <4>1. ~\E k \in 1 .. (n + 1) - 1 : CopyTo(q, k, p, s)
        BY <3>1
      <4> QED
        BY <2>1, <4>1 DEF Holds
    <3>3. \A k \in 1 .. n - 1 : ~CopyTo(r, k, p, s)
      BY <1>1, <1>2, <2>2
    <3> QED
      BY <3>1, <3>2, <3>3 DEF Holds
  <2>3. CASE \E k \in 1 .. n : CopyTo(q, k, p, s)
    <3>1. (n + 1) - 1 = n
      BY <1>1
    <3>2. PICK k \in 1 .. n : /\ CopyTo(q, k, p, s) /\ q[k].blk = b
                              /\ \A l \in k + 1 .. n : ~CopyTo(q, l, p, s)
      BY <2>1, <2>3, <3>1 DEF Holds
    <3>3. CASE k = i
      <4>1. \A j \in 1 .. n - 1 : ~CopyTo(r, j, p, s)
        BY <1>1, <1>2, <3>2, <3>3
      <4>2. after[p][s] = b
        BY <3>2, <3>3
      <4> QED
        BY <4>1, <4>2 DEF Holds
    <3>4. CASE k < i
      <4>1. k \in 1 .. n - 1 /\ r[k] = q[k] /\ CopyTo(r, k, p, s)
        BY <1>1, <1>2, <1>4, <3>2, <3>4
      <4>2. \A l \in k + 1 .. n - 1 : ~CopyTo(r, l, p, s)
        BY <1>1, <1>2, <3>2
      <4> QED
        BY <3>2, <4>1, <4>2 DEF Holds
    <3>5. CASE k > i
      <4>1. k - 1 \in 1 .. n - 1 /\ r[k - 1] = q[k] /\ CopyTo(r, k - 1, p, s)
        BY <1>1, <1>2, <1>4, <3>2, <3>5
      <4>2. \A l \in (k - 1) + 1 .. n - 1 : ~CopyTo(r, l, p, s)
        BY <1>1, <1>2, <3>2, <3>5
      <4> QED
        BY <3>2, <4>1, <4>2 DEF Holds
    <3> QED
      BY <3>3, <3>4, <3>5, <1>1
  <2> QED
    BY <2>2, <2>3
<1> QED
  BY <1>3, <1>4, <1>1

-----------------------------------------------------------------------------
(* The operators of the cache are the same in the stream's module.           *)
LEMMA StreamOperators ==
  /\ Stream!NewPager = NewPager /\ Stream!Slots = Slots /\ Stream!NoSlot = NoSlot
  /\ \A p : Stream!BeginBatch(p) = BeginBatch(p)
  /\ \A p, b : Stream!IsResident(p, b) <=> IsResident(p, b)
  /\ \A p, b, policy : Stream!Touch(p, b, policy) = Touch(p, b, policy)
  /\ \A S : Stream!Cardinality(S) = Cardinality(S)
  /\ \A p : Stream!ResidentBlocks(p) = ResidentBlocks(p)
  /\ \A s, i : Stream!RemoveAt(s, i) = RemoveAt(s, i)
  /\ \A s : Stream!ToSet(s) = ToSet(s)
  /\ Stream!PagerType = PagerType /\ Stream!Halves = {0, 1}
<1>c. \A S : Stream!Cardinality(S) = Cardinality(S)
  BY Zenon DEF Stream!Cardinality, Cardinality
<1>1. Stream!Slots = Slots /\ Stream!NoSlot = NoSlot /\ Stream!NoEpoch = NoEpoch
  BY DEF Stream!Slots, Slots, Stream!NoSlot, NoSlot, Stream!NoEpoch, NoEpoch
<1>r. /\ \A s : Stream!Front(s) = Front(s) /\ Stream!Last(s) = Last(s)
      /\ \A s, i : Stream!RemoveAt(s, i) = RemoveAt(s, i)
      /\ \A s, e : Stream!RemoveFirst(s, e) = RemoveFirst(s, e)
  <2>1. /\ \A s : Stream!Front(s) = Front(s) /\ Stream!Last(s) = Last(s)
        /\ \A s, i : Stream!RemoveAt(s, i) = RemoveAt(s, i)
    BY DEF Stream!Front, Front, Stream!Last, Last, Stream!RemoveAt, RemoveAt
  <2>2. \A S : Stream!Min(S) = Min(S)
    BY Zenon DEF Stream!Min, Min
  <2>3. ASSUME NEW s, NEW e PROVE Stream!RemoveFirst(s, e) = RemoveFirst(s, e)
    BY <2>1, <2>2, Zenon DEF Stream!RemoveFirst, RemoveFirst, Stream!SelectInSeq, SelectInSeq
  <2> QED
    BY <2>1, <2>3
<1>2. Stream!NewPager = NewPager
  BY <1>1, Zenon DEF Stream!NewPager, NewPager
<1>3. /\ \A p : Stream!BeginBatch(p) = BeginBatch(p)
      /\ \A p, b : Stream!Stamped(p, b) = Stamped(p, b)
      /\ \A p, b : Stream!MarkMru(p, b) = MarkMru(p, b)
      /\ \A p, b, s, y : Stream!Insert(p, b, s, y) = Insert(p, b, s, y)
  <2>1. ASSUME NEW p PROVE Stream!BeginBatch(p) = BeginBatch(p)
    BY DEF Stream!BeginBatch, BeginBatch
  <2>2. ASSUME NEW p, NEW b PROVE Stream!Stamped(p, b) = Stamped(p, b)
    BY DEF Stream!Stamped, Stamped
  <2>3. ASSUME NEW p, NEW b PROVE Stream!MarkMru(p, b) = MarkMru(p, b)
    BY <1>r DEF Stream!MarkMru, MarkMru
  <2>4. ASSUME NEW p, NEW b, NEW s, NEW y PROVE Stream!Insert(p, b, s, y) = Insert(p, b, s, y)
    BY DEF Stream!Insert, Insert
  <2> QED
    BY <2>1, <2>2, <2>3, <2>4, Zenon
<1>4. \A p, b : /\ Stream!IsResident(p, b) <=> IsResident(p, b)
                /\ Stream!InBatch(p, b) <=> InBatch(p, b)
  BY <1>1 DEF Stream!IsResident, IsResident, Stream!InBatch, InBatch
<1>5. \A p : Stream!Replaceable(p) = Replaceable(p)
  BY <1>4, Zenon DEF Stream!Replaceable, Replaceable
<1>6. \A p, v : Stream!SlotFrom(p, v) = SlotFrom(p, v)
  <2> SUFFICES ASSUME NEW p, NEW v PROVE Stream!SlotFrom(p, v) = SlotFrom(p, v)
    OBVIOUS
  <2> QED
    BY <1>1, <1>r DEF Stream!SlotFrom, SlotFrom
<1>7. \A p : Stream!TakeSlot(p) = TakeSlot(p)
  BY <1>5, <1>6, Zenon DEF Stream!TakeSlot, TakeSlot
<1>8. \A p, b, policy : Stream!Touch(p, b, policy) = Touch(p, b, policy)
  BY <1>3, <1>4, <1>7, Zenon DEF Stream!Touch, Touch
<1>9. \A p : Stream!ResidentBlocks(p) = ResidentBlocks(p)
  BY <1>4 DEF Stream!ResidentBlocks, ResidentBlocks
<1>10. \A s : Stream!ToSet(s) = ToSet(s)
  BY DEF Stream!ToSet, ToSet
<1>11. Stream!PagerType = PagerType
  BY <1>1, Zenon DEF Stream!PagerType, PagerType
<1>12. Stream!Halves = {0, 1}
  BY DEF Stream!Halves
<1> QED
  <2>1. \A s, i : Stream!RemoveAt(s, i) = RemoveAt(s, i)
    BY <1>r
  <2>2. \A S : Stream!Cardinality(S) = Cardinality(S)
    BY <1>c
  <2> QED
    BY <1>1, <1>2, <1>3, <1>4, <1>8, <1>9, <1>10, <1>11, <1>12, <2>1, <2>2


(* Where a miss puts the block, and what it takes the slot from.             *)
LEMMA MissPlaces ==
  ASSUME NEW p, Sound(p), NEW b \in Blocks, NEW policy, ~IsResident(p, b),
         ~TakeSlotPanics(Stamped(p, b))
  PROVE  LET t == Touch(p, b, policy)
         IN  /\ t.slot \in Slots /\ t.pager.resident[b] = t.slot
             /\ t.evicted # b /\ t.evicted \in Blocks \cup {NoBlock}
             /\ \A c \in Blocks \ {b} :
                  t.pager.resident[c] = IF c = t.evicted THEN NoSlot ELSE p.resident[c]
             /\ t.evicted \in Blocks => IsResident(p, t.evicted)
<1> DEFINE s == Stamped(p, b)
           t == SlotFrom(s, Replaceable(s))
           q == Insert(t.pager, b, t.slot, policy)
<1>1. p \in PagerType /\ NoSlot \notin Slots /\ ~(NoBlock \in Blocks)
  BY NSlotsPositive, NoBlockIsNoBlock DEF Sound, NoSlot, Slots
<1>2. /\ s \in PagerType /\ s.resident = p.resident /\ s.lru = p.lru /\ s.free = p.free
      /\ s.cur = p.cur
  BY <1>1, StampKeeps
<1>3. Sound(s) /\ ~IsResident(s, b)
  BY <1>1, <1>2, SameWhereabouts DEF IsResident
<1>4. Replaceable(s) \in SUBSET DOMAIN s.lru /\ (s.free # <<>> \/ Replaceable(s) # {})
  BY DEF Replaceable, TakeSlotPanics
<1> HIDE DEF s
<1>5. /\ t = [slot |-> t.slot, evicted |-> t.evicted, pager |-> t.pager]
      /\ Without(t.pager, t.slot)
      /\ t.pager.pinned = s.pinned /\ t.pager.cur = s.cur
      /\ \/ /\ t.evicted = NoBlock /\ t.pager.resident = s.resident
            /\ t.pager.epoch = s.epoch
         \/ /\ \E i \in Replaceable(s) : t.evicted = s.lru[i]
            /\ t.evicted \in Blocks /\ IsResident(s, t.evicted)
            /\ t.slot = s.resident[t.evicted]
            /\ t.pager.resident = [s.resident EXCEPT ![t.evicted] = NoSlot]
            /\ t.pager.epoch = [s.epoch EXCEPT ![t.evicted] = NoEpoch]
  BY <1>3, <1>4, SlotFromSound, Zenon
<1>6. Touch(p, b, policy) = [t EXCEPT !.pager = q]
  BY DEF Touch, TakeSlot, s
<1>7. \A x : LET u == [[slot |-> t.slot, evicted |-> t.evicted, pager |-> t.pager] EXCEPT !.pager = x]
             IN  u.pager = x /\ u.slot = t.slot /\ u.evicted = t.evicted
  OBVIOUS
<1>8. t.slot \in Slots /\ t.pager \in PagerType
  BY <1>5 DEF Without
<1> DEFINE u == t.pager
           into == t.slot
           gone == t.evicted
<1>9. /\ Touch(p, b, policy).pager = q /\ Touch(p, b, policy).slot = into
      /\ Touch(p, b, policy).evicted = gone
  <2> HIDE DEF q
  <2>1. t = [slot |-> into, evicted |-> gone, pager |-> u]
    BY <1>5
  <2> HIDE DEF t
  <2> QED
    BY <1>6, <1>7, <2>1
<1>10. /\ into \in Slots /\ u \in PagerType
       /\ \/ gone = NoBlock /\ u.resident = s.resident
          \/ /\ gone \in Blocks /\ IsResident(s, gone)
             /\ u.resident = [s.resident EXCEPT ![gone] = NoSlot]
  BY <1>5, <1>8
<1>11. q = Insert(u, b, into, policy)
  OBVIOUS
<1> HIDE DEF t, u, into, gone, q
<1>12. q.resident = [u.resident EXCEPT ![b] = into]
  BY <1>10, <1>11 DEF Insert, PagerType
<1>13. u.resident \in [Blocks -> Slots \cup {NoSlot}] /\ s.resident \in [Blocks -> Slots \cup {NoSlot}]
  BY <1>2, <1>10, FieldsType
<1>14. gone # b
  BY <1>1, <1>3, <1>10
<1>15. q.resident[b] = into /\ \A c \in Blocks \ {b} : q.resident[c] = u.resident[c]
  BY <1>12, <1>13
<1>16. \A c \in Blocks : u.resident[c] = IF c = gone THEN NoSlot ELSE s.resident[c]
  BY <1>10, <1>13, <1>1
<1>17. gone \in Blocks => IsResident(p, gone)
  BY <1>10, <1>2, <1>1 DEF IsResident
<1> QED
  BY <1>2, <1>9, <1>10, <1>14, <1>15, <1>16, <1>17

(* What one touch of the open batch does to the pager.                       *)
LEMMA TouchDoes ==
  ASSUME NEW p, Sound(p), EpochsBelow(p), NEW b \in Blocks, NEW policy,
         IsResident(p, b) \/ ~TakeSlotPanics(Stamped(p, b))
  PROVE  LET t == Touch(p, b, policy)
             q == t.pager
         IN  /\ Sound(q) /\ EpochsBelow(q) /\ q.cur = p.cur
             /\ IsResident(q, b) /\ q.epoch[b] = q.cur
             /\ \A c \in Blocks \ {b} :
                  /\ IsResident(q, c) => IsResident(p, c) /\ q.resident[c] = p.resident[c]
                                         /\ q.epoch[c] = p.epoch[c]
                  /\ p.cur > 0 /\ IsResident(p, c) /\ p.epoch[c] = p.cur => IsResident(q, c)
             /\ IsResident(p, b) => q.resident = p.resident
             /\ ~IsResident(p, b) =>
                  /\ q.resident[b] = t.slot /\ t.slot \in Slots
                  /\ t.evicted # b /\ t.evicted \in Blocks \cup {NoBlock}
                  /\ t.evicted \in Blocks => ~IsResident(q, t.evicted)
                  /\ \A c \in Blocks \ {b} : IsResident(q, c) => q.resident[c] # t.slot
<1> DEFINE t == Touch(p, b, policy)
           q == t.pager
<1>1. /\ Sound(q) /\ q.cur = p.cur
      /\ IsResident(q, b) /\ q.epoch[b] = p.cur
      /\ \A c \in Blocks : c # b =>
           \/ /\ IsResident(q, c) <=> IsResident(p, c)
              /\ q.epoch[c] = p.epoch[c]
           \/ /\ IsResident(p, c) /\ ~IsResident(q, c) /\ q.epoch[c] = NoEpoch
              /\ p.cur = 0 \/ p.epoch[c] # p.cur
  BY TouchSound
<1>2. IsResident(p, b) => q.resident = p.resident
  BY HitOrder
<1>3. ~IsResident(p, b) =>
        /\ t.slot \in Slots /\ q.resident[b] = t.slot
        /\ t.evicted # b /\ t.evicted \in Blocks \cup {NoBlock}
        /\ \A c \in Blocks \ {b} :
             q.resident[c] = IF c = t.evicted THEN NoSlot ELSE p.resident[c]
        /\ t.evicted \in Blocks => IsResident(p, t.evicted)
  BY MissPlaces
<1>4. p.cur \in Nat /\ q \in PagerType /\ SlotsDisjoint(q)
  BY <1>1, FieldsType DEF Sound
<1> HIDE DEF t, q
<1>5. EpochsBelow(q)
  <2> SUFFICES ASSUME NEW c \in Blocks PROVE q.epoch[c] <= q.cur
    BY DEF EpochsBelow
  <2>1. CASE c = b
    BY <2>1, <1>1, <1>4
  <2>2. CASE c # b
    <3>1. p.epoch[c] <= p.cur
      BY DEF EpochsBelow
    <3>2. q.epoch[c] = p.epoch[c] \/ q.epoch[c] = -1
      BY <2>2, <1>1 DEF NoEpoch
    <3> QED
      BY <3>1, <3>2, <1>1, <1>4
  <2> QED
    BY <2>1, <2>2
<1>6. ASSUME NEW c \in Blocks \ {b}
      PROVE  /\ IsResident(q, c) => IsResident(p, c) /\ q.resident[c] = p.resident[c]
                                    /\ q.epoch[c] = p.epoch[c]
             /\ p.cur > 0 /\ IsResident(p, c) /\ p.epoch[c] = p.cur => IsResident(q, c)
  <2>1. ASSUME IsResident(q, c) PROVE q.resident[c] = p.resident[c]
    <3>1. CASE IsResident(p, b)
      BY <3>1, <1>2
    <3>2. CASE ~IsResident(p, b)
      BY <3>2, <2>1, <1>3 DEF IsResident
    <3> QED
      BY <3>1, <3>2
  <2> QED
    BY <2>1, <1>1, <1>4
<1>7. ASSUME ~IsResident(p, b)
      PROVE  /\ q.resident[b] = t.slot /\ t.slot \in Slots
             /\ t.evicted # b /\ t.evicted \in Blocks \cup {NoBlock}
             /\ t.evicted \in Blocks => ~IsResident(q, t.evicted)
             /\ \A c \in Blocks \ {b} : IsResident(q, c) => q.resident[c] # t.slot
  <2>1. /\ t.slot \in Slots /\ q.resident[b] = t.slot
        /\ t.evicted # b /\ t.evicted \in Blocks \cup {NoBlock}
        /\ \A c \in Blocks \ {b} :
             q.resident[c] = IF c = t.evicted THEN NoSlot ELSE p.resident[c]
    BY <1>3, <1>7
  <2>2. \A c \in Blocks \ {b} : IsResident(q, c) => q.resident[c] # t.slot
    BY <2>1, <1>1, <1>4 DEF SlotsDisjoint
  <2> QED
    BY <2>1, <2>2 DEF IsResident
<1> QED
  BY <1>1, <1>2, <1>5, <1>6, <1>7 DEF t, q

(* A batch that was just opened has room for its first block.                *)
LEMMA OpenDoes ==
  ASSUME NEW p, Sound(p), EpochsBelow(p)
  PROVE  LET q == BeginBatch(p)
         IN  /\ Sound(q) /\ EpochsBelow(q) /\ q.resident = p.resident
             /\ q.cur = p.cur + 1 /\ q.cur \in Nat /\ q.cur > 0
             /\ \A b \in Blocks : q.epoch[b] # q.cur
             /\ \A b \in Blocks : ~IsResident(q, b) => ~TakeSlotPanics(Stamped(q, b))
<1> DEFINE q == BeginBatch(p)
<1>1. p \in PagerType /\ p.cur \in Nat /\ p.epoch \in [Blocks -> Nat \cup {NoEpoch}]
  BY FieldsType DEF Sound
<1>2. /\ q \in PagerType /\ q.cur = p.cur + 1 /\ q.epoch = p.epoch
      /\ q.resident = p.resident /\ q.lru = p.lru /\ q.free = p.free
  BY <1>1, OpenKeeps
<1>3. Sound(q)
  BY <1>2, SameWhereabouts
<1> HIDE DEF q
<1>4. \A b \in Blocks : q.epoch[b] <= p.cur /\ q.epoch[b] \in Int
  BY <1>1, <1>2 DEF EpochsBelow, NoEpoch
<1>5. EpochsBelow(q) /\ \A b \in Blocks : q.epoch[b] # q.cur
  BY <1>1, <1>2, <1>4 DEF EpochsBelow
<1>6. ASSUME NEW b \in Blocks, ~IsResident(q, b), TakeSlotPanics(Stamped(q, b)) PROVE FALSE
  <2>1. /\ \A c \in ResidentBlocks(q) : q.epoch[c] = q.cur
        /\ Cardinality(ResidentBlocks(q)) = NSlots
    BY <1>3, <1>6, PanicMeansFull
  <2>2. ResidentBlocks(q) = {}
    BY <2>1, <1>5 DEF ResidentBlocks
  <2> QED
    BY <2>1, <2>2, FS_EmptySet, NSlotsPositive
<1> QED
  BY <1>1, <1>2, <1>3, <1>5, <1>6 DEF q

(* A batch of blocks that fit together has room for each of them.            *)
LEMMA BatchFits ==
  ASSUME NEW p, Sound(p), NEW E, IsFiniteSet(E), Cardinality(E) <= NSlots,
         \A c \in Blocks : IsResident(p, c) /\ p.epoch[c] = p.cur => c \in E,
         NEW b \in E, b \in Blocks, ~IsResident(p, b)
  PROVE  ~TakeSlotPanics(Stamped(p, b))
<1> SUFFICES ASSUME TakeSlotPanics(Stamped(p, b)) PROVE FALSE
  OBVIOUS
<1> DEFINE R == ResidentBlocks(p)
<1>1. (\A c \in R : p.epoch[c] = p.cur) /\ Cardinality(R) = NSlots /\ IsFiniteSet(R)
  BY PanicMeansFull
<1>2. R \subseteq E \ {b}
  BY <1>1 DEF ResidentBlocks
<1>3. IsFiniteSet(E \ {b}) /\ Cardinality(E \ {b}) = Cardinality(E) - 1
  BY FS_RemoveElement
<1> HIDE DEF R
<1>4. Cardinality(R) <= Cardinality(E \ {b})
  BY <1>2, <1>3, FS_Subset
<1>5. Cardinality(E) \in Nat
  BY FS_CardinalityType
<1> QED
  BY <1>1, <1>3, <1>4, <1>5, NSlotsPositive

(* touch_all_hits finds every expert, so nothing moves but the recency order.  *)
LEMMA TouchAllDoes ==
  ASSUME Stream!Op \in Seq(Blocks), NEW q, Sound(q), EpochsBelow(q),
         \A k \in DOMAIN Stream!Op : IsResident(q, Stream!Op[k])
  PROVE  LET r == Stream!TouchAll(q)
         IN  /\ Sound(r) /\ EpochsBelow(r)
             /\ r.resident = q.resident /\ r.cur = q.cur + 1
<1> DEFINE op == Stream!Op
           n == Len(Stream!Op)
           o == BeginBatch(q)
           body(f, k) == IF k = 0 THEN o ELSE Touch(f[k - 1], op[k], "Mru").pager
           Recursive(f, m) == f = [k \in 0 .. m |-> body(f, k)]
           touched == CHOOSE f : Recursive(f, n)
<1>1. n \in Nat /\ DOMAIN op = 1 .. n /\ \A k \in 1 .. n : op[k] \in Blocks /\ IsResident(q, op[k])
  OBVIOUS
<1>2. Stream!TouchAll(q) = touched[n]
  BY StreamOperators DEF Stream!TouchAll
<1>3. /\ Sound(o) /\ EpochsBelow(o) /\ o.resident = q.resident /\ o.cur = q.cur + 1
  BY OpenDoes
<1> HIDE DEF n, o, op
<1>4. \A m \in 0 .. n : \E f : Recursive(f, m)
  <2> DEFINE Bad == {m \in 0 .. n : ~\E f : Recursive(f, m)}
  <2> SUFFICES ASSUME Bad # {} PROVE FALSE
    OBVIOUS
  <2>1. PICK m \in Bad : \A k \in Bad : m <= k
    <3>1. Bad \in SUBSET Nat
      BY <1>1
    <3> HIDE DEF Bad
    <3> QED
      BY <3>1, LeastExists
  <2>2. m \in 0 .. n /\ ~\E f : Recursive(f, m)
    OBVIOUS
  <2>3. CASE m = 0
    <3> DEFINE g == [k \in 0 .. 0 |-> o]
    <3>1. Recursive(g, 0)
      OBVIOUS
    <3> QED
      BY <2>2, <2>3, <3>1
  <2>4. CASE m # 0
    <3>1. m - 1 \in 0 .. n /\ m - 1 \notin Bad
      <4>1. m \in 0 .. n
        BY <2>2
      <4> HIDE DEF Bad
      <4> QED
        BY <1>1, <2>1, <2>4, <4>1
    <3>2. PICK f : Recursive(f, m - 1)
      BY <3>1
    <3> DEFINE g == [k \in 0 .. m |-> IF k = m THEN Touch(f[m - 1], op[m], "Mru").pager ELSE f[k]]
    <3>3. \A k \in 0 .. m : g[k] = body(g, k)
      <4> SUFFICES ASSUME NEW k \in 0 .. m PROVE g[k] = body(g, k)
        OBVIOUS
      <4>1. CASE k = m
        <5>a. m - 1 \in 0 .. m /\ m - 1 # m
          BY <1>1, <2>2, <2>4
        <5>1. g[k - 1] = f[m - 1]
          BY <4>1, <5>a
        <5> QED
          BY <4>1, <5>1, <2>4
      <4>2. CASE k # m
        <5>1. k \in 0 .. m - 1 /\ g[k] = f[k]
          BY <4>2, <1>1, <2>2
        <5>2. f[k] = body(f, k)
          <6> HIDE DEF g, body
          <6> QED
            BY <3>2, <5>1
        <5>3. k # 0 => g[k - 1] = f[k - 1]
          BY <5>1, <1>1, <2>2
        <5> QED
          BY <5>1, <5>2, <5>3
      <4> QED
        BY <4>1, <4>2
    <3>4. Recursive(g, m)
      <4>1. DOMAIN g = 0 .. m /\ g = [k \in DOMAIN g |-> g[k]]
        OBVIOUS
      <4> HIDE DEF g, body
      <4> QED
        BY <3>3, <4>1
    <3> HIDE DEF Recursive
    <3> QED
      BY <2>2, <3>4
  <2> QED
    BY <2>3, <2>4
<1>5. Recursive(touched, n)
  <2>1. \E f : Recursive(f, n)
    BY <1>1, <1>4
  <2> HIDE DEF Recursive
  <2> QED
    BY <2>1
<1>6. \A k \in 0 .. n : touched[k] = body(touched, k)
  <2> HIDE DEF touched, body
  <2> QED
    BY <1>5
<1> HIDE DEF touched
<1> DEFINE Good(r) == Sound(r) /\ EpochsBelow(r) /\ r.resident = q.resident /\ r.cur = q.cur + 1
<1>7. \A k \in 0 .. n : Good(touched[k])
  <2> DEFINE Bad == {k \in 0 .. n : ~Good(touched[k])}
  <2> SUFFICES ASSUME Bad # {} PROVE FALSE
    OBVIOUS
  <2>1. PICK m \in Bad : \A k \in Bad : m <= k
    <3>1. Bad \in SUBSET Nat
      BY <1>1
    <3> HIDE DEF Bad
    <3> QED
      BY <3>1, LeastExists
  <2>2. m \in 0 .. n /\ ~Good(touched[m])
    OBVIOUS
  <2>3. m # 0
    BY <1>3, <1>6, <2>2
  <2>4. m - 1 \in 0 .. n /\ m - 1 \notin Bad /\ m \in 1 .. n
    BY <1>1, <2>1, <2>2, <2>3
  <2> DEFINE p == touched[m - 1]
  <2>5. Good(p)
    BY <2>4
  <2>6. touched[m] = Touch(p, op[m], "Mru").pager
    BY <1>6, <2>2, <2>3
  <2> HIDE DEF p, Bad
  <2>7. op[m] \in Blocks /\ IsResident(p, op[m])
    BY <1>1, <2>4, <2>5 DEF IsResident
  <2>8. Good(Touch(p, op[m], "Mru").pager)
    BY <2>5, <2>7, TouchDoes
  <2> QED
    BY <2>2, <2>6, <2>8
<1> QED
  BY <1>1, <1>2, <1>7

-----------------------------------------------------------------------------
LEMMA SameModel ==
  ASSUME model' = model
  PROVE  /\ Stream!Pools' = Stream!Pools /\ Commands' = Commands
         /\ Stream!Dense' <=> Stream!Dense
<1>1. Stream!Pools' = Stream!Pools
  BY DEF Stream!Pools
<1>2. Commands' = Commands
  BY <1>1 DEF Commands, Copying, Reading, Fencing, Stream!Barrier
<1> QED
  BY <1>1, <1>2 DEF Stream!Dense

LEMMA ModelIs ==
  ASSUME model \in Models
  PROVE  /\ model.kind \in {"dense", "moe"} /\ model.ops \in Seq(Seq(Blocks))
         /\ model.pools \in Nat \ {0} /\ model.half \in Nat \ {0} /\ model.tape \in Nat
         /\ model.routed \in Nat
         /\ \A o \in DOMAIN model.ops : Cardinality(ToSet(model.ops[o])) <= NSlots
         /\ model.kind = "moe" => model.routed > 0
         /\ model.kind = "dense" => model.pools = 1 /\ \A o \in DOMAIN model.ops : Len(model.ops[o]) = 1
         /\ Stream!Pools = 1 .. model.pools /\ 1 \in Stream!Pools
         /\ Stream!Dense <=> model.kind = "dense"
BY KnownModels DEF Stream!Pools, Stream!Dense

LEMMA CommandIs ==
  ASSUME NEW c \in Commands, model \in Models
  PROVE  /\ c.do \in {"copy", "read", "fence", "barrier"}
         /\ c.do = "copy" => c \in Copying
         /\ c.do = "read" => c \in Reading
         /\ c.do = "fence" => c \in Fencing /\ c = Stream!Fence(c.id)
         /\ c.do = "barrier" => c = Stream!Barrier
<1>1. c \in Copying => c.do = "copy"
  BY DEF Copying
<1>2. c \in Reading => c.do = "read"
  BY DEF Reading
<1>3. c \in Fencing => c.do = "fence" /\ c = Stream!Fence(c.id)
  BY DEF Fencing, Stream!Fence
<1>4. c = Stream!Barrier => c.do = "barrier"
  BY DEF Stream!Barrier
<1> QED
  BY <1>1, <1>2, <1>3, <1>4 DEF Commands

LEMMA CopyIs ==
  ASSUME NEW c \in Copying
  PROVE  /\ c.pool \in Stream!Pools /\ c.slot \in Slots /\ c.blk \in Blocks
         /\ c.from \in {0, 1} \X (0 .. model.half - 1)
         /\ c.from[1] \in {0, 1} /\ c.from[2] \in 0 .. model.half - 1
<1>1. /\ c.pool \in Stream!Pools /\ c.slot \in Slots /\ c.blk \in Blocks
      /\ c.from \in {0, 1} \X (0 .. model.half - 1)
  BY DEF Copying
<1> QED
  BY <1>1

LEMMA QueueIs ==
  ASSUME RunInv
  PROVE  /\ device \in Seq(Commands) /\ run.rec \in Seq(Commands) /\ Ahead \in Seq(Commands)
         /\ Len(device) \in Nat /\ Len(run.rec) \in Nat
         /\ DOMAIN device = 1 .. Len(device) /\ DOMAIN run.rec = 1 .. Len(run.rec)
         /\ Len(Ahead) = Len(device) + Len(run.rec) /\ DOMAIN Ahead = 1 .. Len(Ahead)
         /\ \A i \in DOMAIN device : i \in DOMAIN Ahead /\ Ahead[i] = device[i]
         /\ \A i \in DOMAIN run.rec :
              Len(device) + i \in DOMAIN Ahead /\ Ahead[Len(device) + i] = run.rec[i]
         /\ \A i \in DOMAIN Ahead :
              i \in DOMAIN device \/ i - Len(device) \in DOMAIN run.rec
         /\ \A i \in DOMAIN Ahead : Ahead[i] \in Commands
<1>1. device \in Seq(Commands) /\ run.rec \in Seq(Commands)
  BY DEF RunInv
<1>2. /\ Ahead \in Seq(Commands) /\ Len(Ahead) = Len(device) + Len(run.rec)
      /\ Len(device) \in Nat /\ Len(run.rec) \in Nat
      /\ DOMAIN device = 1 .. Len(device) /\ DOMAIN run.rec = 1 .. Len(run.rec)
      /\ DOMAIN Ahead = 1 .. Len(device) + Len(run.rec)
      /\ \A i \in 1 .. Len(device) : Ahead[i] = device[i]
      /\ \A i \in 1 .. Len(run.rec) : Ahead[Len(device) + i] = run.rec[i]
  BY <1>1, JoinIs DEF Ahead
<1> DEFINE m == Len(device)
           n == Len(run.rec)
<1>3. /\ m \in Nat /\ n \in Nat
      /\ DOMAIN device = 1 .. m /\ DOMAIN run.rec = 1 .. n /\ DOMAIN Ahead = 1 .. m + n
  BY <1>2
<1> HIDE DEF m, n
<1>4. /\ \A i \in DOMAIN device : i \in DOMAIN Ahead
      /\ \A i \in DOMAIN run.rec : m + i \in DOMAIN Ahead
      /\ \A i \in DOMAIN Ahead : i \in DOMAIN device \/ i - m \in DOMAIN run.rec
  BY <1>3
<1>5. \A i \in DOMAIN Ahead : Ahead[i] \in Commands
  BY <1>2
<1> QED
  BY <1>1, <1>2, <1>4, <1>5 DEF m

Quiet(t) == \A k \in DOMAIN t : t[k].do \in {"barrier", "fence"}

(* Barriers and fences change nothing that the commands before them do.      *)
LEMMA QuietQueue ==
  ASSUME RunInv, QueueInv, model' = model, UNCHANGED <<arena, tape>>,
         run'.words = run.words, NEW t \in Seq(Commands), Quiet(t), Ahead' = Ahead \o t
  PROVE  QueueInv'
<1>0. Ahead \in Seq(Commands)
  BY QueueIs, Zenon
<1>1. Ahead \in Seq(Commands) /\ DOMAIN Ahead = 1 .. Len(Ahead) /\ Len(Ahead) \in Nat
  BY <1>0, LenProperties
<1>2. Ahead' \in Seq(Commands)'
  <2>1. Ahead \o t \in Seq(Commands)
    BY <1>1, ConcatProperties
  <2>2. Commands' = Commands
    BY SameModel
  <2> QED
    BY <2>1, <2>2
<1>3. \A k \in DOMAIN t : t[k].do # "read" /\ \A c : ~Clash(c, t[k]) /\ ~Clash(t[k], c)
  BY DEF Quiet, Clash
<1>4. Apart(t)
  BY <1>3 DEF Apart
<1>5. Apart(Ahead \o t)
  BY <1>1, <1>3, <1>4, GrowsApart DEF QueueInv
<1>6. ReadsAreRight(Ahead \o t, arena, tape)
  BY <1>1, <1>3, GrowsRight DEF QueueInv
<1>7. WindowsAreOld(Ahead \o t, run.words)
  <2>1. /\ \A i \in 1 .. Len(Ahead) : (Ahead \o t)[i] = Ahead[i]
        /\ DOMAIN (Ahead \o t) = 1 .. Len(Ahead) + Len(t) /\ Len(t) \in Nat /\ DOMAIN t = 1 .. Len(t)
        /\ \A i \in 1 .. Len(Ahead) + Len(t) : i > Len(Ahead) => (Ahead \o t)[i] = t[i - Len(Ahead)]
    BY <1>1, JoinIs
  <2> DEFINE m == Len(Ahead)
             r == Ahead \o t
  <2>2. m \in Nat /\ DOMAIN Ahead = 1 .. m
    BY <1>1
  <2> HIDE DEF m, r
  <2>3. \A i \in DOMAIN r : (i \in DOMAIN Ahead /\ r[i] = Ahead[i]) \/ (i - m \in DOMAIN t /\ r[i] = t[i - m])
    BY <2>1, <2>2 DEF m, r
  <2>4. WindowsAreOld(r, run.words)
    BY <2>3, <1>3 DEF WindowsAreOld, QueueInv
  <2> QED
    BY <2>4 DEF r
<1> QED
  BY <1>2, <1>5, <1>6, <1>7 DEF QueueInv

LEMMA QuietBelieved ==
  ASSUME RunInv, Believed, model' = model, UNCHANGED <<arena, lut>>,
         NEW t \in Seq(Commands), Quiet(t), Ahead' = Ahead \o t, lost \subseteq lost',
         \A p \in Stream!Pools : pools'[p].resident = pools[p].resident
  PROVE  Believed'
<1> SUFFICES ASSUME NEW p \in Stream!Pools, NEW b \in Blocks,
                    IsResident(pools'[p], b), <<p, b>> \notin lost'
             PROVE  /\ lut[p][b] = pools'[p].resident[b]
                    /\ Holds(Ahead', Len(Ahead') + 1, arena, p, pools'[p].resident[b], b)
  BY SameModel DEF Believed
<1>1. IsResident(pools[p], b) /\ <<p, b>> \notin lost
  BY DEF IsResident
<1> DEFINE s == pools[p].resident[b]
<1>2. lut[p][b] = s /\ Holds(Ahead, Len(Ahead) + 1, arena, p, s, b)
  BY <1>1 DEF Believed
<1> HIDE DEF s
<1>3. \A k \in DOMAIN t : ~CopyTo(t, k, p, s)
  BY DEF Quiet, CopyTo
<1>a. Ahead \in Seq(Commands)
  BY QueueIs, Zenon
<1>4. /\ Ahead \in Seq(Commands) /\ Len(Ahead \o t) = Len(Ahead) + Len(t)
      /\ Len(Ahead) \in Nat /\ Len(t) \in Nat
  BY <1>a, ConcatProperties
<1>5. Len(t) \in 0 .. Len(t) /\ Len(Ahead) + 1 + Len(t) = Len(Ahead \o t) + 1
  BY <1>4
<1>6. Holds(Ahead \o t, Len(Ahead) + 1 + Len(t), arena, p, s, b)
  BY <1>2, <1>3, <1>4, <1>5, GrowsHolding
<1> QED
  BY <1>2, <1>5, <1>6 DEF s

(* The device finishes command i.                                            *)
LEMMA ExecuteRemoves ==
  ASSUME RunInv, NEW i \in DOMAIN device, Stream!Execute(i)
  PROVE  /\ Removed(device, device', i) /\ Removed(Ahead, Ahead', i)
         /\ device' \in Seq(Commands) /\ Ahead[i] = device[i]
<1>1. device' = RemoveAt(device, i) /\ run' = run
  BY StreamOperators DEF Stream!Execute
<1>2. /\ device \in Seq(Commands) /\ run.rec \in Seq(Commands)
      /\ DOMAIN device = 1 .. Len(device) /\ Len(device) \in Nat
  BY DEF RunInv
<1>3. /\ device' \in Seq(Commands) /\ Len(device') = Len(device) - 1
      /\ DOMAIN device' = 1 .. Len(device) - 1
      /\ \A j \in 1 .. Len(device) - 1 : device'[j] = IF j < i THEN device[j] ELSE device[j + 1]
  BY <1>1, <1>2, RemoveAtIs
<1>4. Removed(device, device', i)
  BY <1>2, <1>3 DEF Removed
<1>5. Ahead' = device' \o run.rec
  BY <1>1 DEF Ahead
<1> DEFINE m == Len(device)
           n == Len(run.rec)
           q == Ahead
           r == Ahead'
           d == device'
           c == run.rec
<1>6. /\ n \in Nat /\ DOMAIN c = 1 .. n /\ Len(q) = m + n /\ DOMAIN q = 1 .. m + n
      /\ \A j \in 1 .. m : q[j] = device[j]
      /\ \A j \in 1 .. n : q[m + j] = c[j]
  BY <1>2, JoinIs DEF Ahead
<1>7. /\ Len(r) = m - 1 + n /\ DOMAIN r = 1 .. m - 1 + n
      /\ \A j \in 1 .. m - 1 : r[j] = d[j]
      /\ \A j \in 1 .. n : r[m - 1 + j] = c[j]
  <2>1. /\ Len(device' \o run.rec) = Len(device') + Len(run.rec)
        /\ DOMAIN (device' \o run.rec) = 1 .. Len(device') + Len(run.rec)
        /\ \A j \in 1 .. Len(device') : (device' \o run.rec)[j] = device'[j]
        /\ \A j \in 1 .. Len(run.rec) : (device' \o run.rec)[Len(device') + j] = run.rec[j]
    <3>1. device' \in Seq(Commands) /\ run.rec \in Seq(Commands)
      BY <1>2, <1>3
    <3> QED
      BY <3>1, JoinIs
  <2>2. Len(device') = m - 1
    BY <1>3
  <2>3. r = device' \o run.rec /\ d = device' /\ c = run.rec /\ n = Len(run.rec)
    BY <1>5
  <2> HIDE DEF m, n, r, d, c
  <2> QED
    BY <2>1, <2>2, <2>3
<1>8. /\ m \in Nat /\ i \in 1 .. m
      /\ \A j \in 1 .. m - 1 : d[j] = IF j < i THEN device[j] ELSE device[j + 1]
  BY <1>2, <1>3
<1> HIDE DEF m, n, q, r, d, c
<1>9. \A j \in 1 .. (m + n) - 1 : r[j] = IF j < i THEN q[j] ELSE q[j + 1]
  <2> SUFFICES ASSUME NEW j \in 1 .. (m + n) - 1
               PROVE  r[j] = IF j < i THEN q[j] ELSE q[j + 1]
    OBVIOUS
  <2>1. CASE j <= m - 1
    BY <2>1, <1>6, <1>7, <1>8
  <2>2. CASE j > m - 1
    <3> DEFINE k == j - (m - 1)
    <3>1. k \in 1 .. n /\ j = m - 1 + k /\ j + 1 = m + k /\ ~(j < i)
      BY <2>2, <1>6, <1>8
    <3> HIDE DEF k
    <3>2. r[j] = c[k] /\ q[j + 1] = c[k]
      BY <3>1, <1>6, <1>7
    <3> QED
      BY <3>1, <3>2
  <2> QED
    BY <2>1, <2>2, <1>8
<1>10. Removed(q, r, i)
  BY <1>6, <1>7, <1>8, <1>9 DEF Removed
<1>11. q[i] = device[i]
  BY <1>6, <1>8
<1> QED
  BY <1>3, <1>4, <1>10, <1>11 DEF q, r

LEMMA ExecuteQueue ==
  ASSUME StreamInv, NEW i \in DOMAIN device, Stream!Execute(i)
  PROVE  QueueInv' /\ Believed' /\ arena' \in [Stream!Pools -> [Slots -> Blocks \cup {NoBlock}]]
<1>1. /\ RunInv /\ QueueInv /\ RingInv /\ PoolInv /\ Believed
  BY DEF StreamInv
<1>2. /\ Removed(Ahead, Ahead', i) /\ Ahead[i] = device[i]
      /\ DOMAIN Ahead = 1 .. Len(Ahead) /\ Len(Ahead) \in Nat /\ i \in 1 .. Len(Ahead)
      /\ device' \in Seq(Commands)
  BY <1>1, ExecuteRemoves DEF Removed
<1>3. /\ model' = model /\ pools' = pools /\ lut' = lut /\ lost' = lost /\ run' = run /\ tape' = tape
  BY DEF Stream!Execute
<1>4. \A k \in 1 .. i - 1 : Ahead[k].do # "barrier"
  <2>1. i = 1 \/ \A k \in 1 .. i - 1 : device[k].do # "barrier"
    BY DEF Stream!Execute, Stream!Executable
  <2>2. \A k \in 1 .. i - 1 : k \in DOMAIN device
    BY <1>1 DEF RunInv
  <2>3. \A k \in DOMAIN device : Ahead[k] = device[k]
    BY <1>1, QueueIs
  <2> QED
    BY <1>2, <2>1, <2>2, <2>3
<1>5. i = 1 \/ Ahead[i].do # "barrier"
  BY <1>2 DEF Stream!Execute, Stream!Executable
<1>6. Apart(Ahead')
  <2>1. Apart(Ahead)
    BY <1>1 DEF QueueInv
  <2> QED
    BY <1>2, <1>5, <2>1, RemovedApart
<1>7. \A k \in 1 .. i - 1 : ~Clash(Ahead[k], Ahead[i])
  <2> SUFFICES ASSUME NEW k \in 1 .. i - 1, Clash(Ahead[k], Ahead[i]) PROVE FALSE
    OBVIOUS
  <2>1. k \in DOMAIN Ahead /\ i \in DOMAIN Ahead /\ k < i
    BY <1>2
  <2>2. PICK x \in k + 1 .. i - 1 : Ahead[x].do = "barrier"
    BY <1>1, <2>1 DEF QueueInv, Apart
  <2>3. x \in 1 .. i - 1
    BY <1>2
  <2> QED
    BY <1>4, <2>2, <2>3
<1>8. Ahead[i] \in Commands /\ (Ahead[i].do = "copy" => Ahead[i] \in Copying)
  <2>1. Ahead[i] \in Commands
    BY <1>1, <1>2, QueueIs
  <2> QED
    BY <1>1, <2>1, CommandIs DEF RunInv
<1>9. arena \in [Stream!Pools -> [Slots -> Blocks \cup {NoBlock}]]
  BY <1>1 DEF RunInv
<1>10. Ahead[i].do = "copy" =>
         /\ arena' = [arena EXCEPT ![Ahead[i].pool][Ahead[i].slot] = Ahead[i].blk]
         /\ Ahead[i].pool \in Stream!Pools /\ Ahead[i].slot \in Slots /\ Ahead[i].blk \in Blocks
  <2> SUFFICES ASSUME Ahead[i].do = "copy"
               PROVE  /\ arena' = [arena EXCEPT ![Ahead[i].pool][Ahead[i].slot] = Ahead[i].blk]
                      /\ Ahead[i].pool \in Stream!Pools /\ Ahead[i].slot \in Slots
                      /\ Ahead[i].blk \in Blocks
    OBVIOUS
  <2>1. ring[Ahead[i].from] = Ahead[i].blk
    BY <1>1, <1>2 DEF RingInv
  <2>2. arena' = [arena EXCEPT ![Ahead[i].pool][Ahead[i].slot] = ring[Ahead[i].from]]
    BY <1>2 DEF Stream!Execute
  <2> QED
    BY <1>8, <2>1, <2>2, CopyIs
<1>11. Ahead[i].do # "copy" => arena' = arena
  BY <1>2 DEF Stream!Execute
<1>12. arena' \in [Stream!Pools -> [Slots -> Blocks \cup {NoBlock}]]
  BY <1>9, <1>10, <1>11
<1>13. \A p \in Stream!Pools, s \in Slots :
         arena'[p][s] = IF CopyTo(Ahead, i, p, s) THEN Ahead[i].blk ELSE arena[p][s]
  BY <1>9, <1>10, <1>11 DEF CopyTo
<1>14. ASSUME NEW n \in 1 .. Len(Ahead), NEW p \in Stream!Pools, NEW s \in Slots, NEW b,
              Holds(Ahead, IF n < i THEN n ELSE n + 1, arena, p, s, b),
              n < i => Ahead[n].do = "read"
       PROVE  Holds(Ahead', n, arena', p, s, b)
  <2>1. CopyTo(Ahead, i, p, s) => n >= i /\ \A k \in 1 .. i - 1 : ~CopyTo(Ahead, k, p, s)
    <3> SUFFICES ASSUME CopyTo(Ahead, i, p, s)
                 PROVE  n >= i /\ \A k \in 1 .. i - 1 : ~CopyTo(Ahead, k, p, s)
      OBVIOUS
    <3>1. \A k \in 1 .. i - 1 : ~CopyTo(Ahead, k, p, s)
      BY <1>7 DEF Clash, CopyTo
    <3>2. ASSUME n < i PROVE FALSE
      <4>1. n \in 1 .. i - 1
        BY <1>2, <3>2
      <4>2. Clash(Ahead[n], Ahead[i])
        BY <1>14, <3>2 DEF Clash, CopyTo
      <4> QED
        BY <1>7, <4>1, <4>2
    <3> QED
      BY <3>1, <3>2, <1>2
  <2> QED
    BY <1>2, <1>13, <1>14, <2>1, RemovedHolds
<1>15. \A n \in DOMAIN Ahead' :
         /\ n \in 1 .. Len(Ahead) /\ (IF n < i THEN n ELSE n + 1) \in DOMAIN Ahead
         /\ Ahead'[n] = Ahead[IF n < i THEN n ELSE n + 1]
  BY <1>2 DEF Removed
<1>16. ReadsAreRight(Ahead', arena', tape')
  <2> SUFFICES ASSUME NEW n \in DOMAIN Ahead', Ahead'[n].do = "read", NEW b \in Ahead'[n].sound
               PROVE  /\ SlotOf(Ahead'[n], tape, b) \in Slots
                      /\ Holds(Ahead', n, arena', Ahead'[n].pool, SlotOf(Ahead'[n], tape, b), b)
    BY <1>3 DEF ReadsAreRight
  <2> DEFINE f == IF n < i THEN n ELSE n + 1
  <2>1. n \in 1 .. Len(Ahead) /\ f \in DOMAIN Ahead /\ Ahead'[n] = Ahead[f]
    BY <1>15
  <2>2. /\ SlotOf(Ahead[f], tape, b) \in Slots
        /\ Holds(Ahead, f, arena, Ahead[f].pool, SlotOf(Ahead[f], tape, b), b)
    <3> HIDE DEF f
    <3> QED
      BY <1>1, <2>1 DEF QueueInv, ReadsAreRight
  <2>3. Ahead[f].pool \in Stream!Pools
    <3> HIDE DEF f
    <3>1. Ahead[f] \in Reading
      BY <1>1, <2>1, QueueIs, CommandIs DEF RunInv
    <3> QED
      BY <3>1 DEF Reading
  <2>4. n < i => Ahead[n].do = "read"
    BY <2>1
  <2> QED
    BY <2>1, <2>2, <2>3, <2>4, <1>14
<1>17. WindowsAreOld(Ahead', run'.words)
  BY <1>1, <1>3, <1>15 DEF QueueInv, WindowsAreOld
<1>18. Ahead' \in Seq(Commands)'
  <2>1. Ahead' = device' \o run.rec /\ run.rec \in Seq(Commands)
    BY <1>1, <1>3 DEF Ahead, RunInv
  <2>2. Ahead' \in Seq(Commands)
    BY <1>2, <2>1, ConcatProperties
  <2> QED
    BY <1>3, <2>2, SameModel
<1>19. Believed'
  <2> SUFFICES ASSUME NEW p \in Stream!Pools, NEW b \in Blocks,
                      IsResident(pools[p], b), <<p, b>> \notin lost
               PROVE  /\ lut[p][b] = pools[p].resident[b]
                      /\ Holds(Ahead', Len(Ahead') + 1, arena', p, pools[p].resident[b], b)
    BY <1>3, SameModel DEF Believed
  <2> DEFINE s == pools[p].resident[b]
  <2>1. lut[p][b] = s /\ Holds(Ahead, Len(Ahead) + 1, arena, p, s, b)
    BY <1>1 DEF Believed
  <2>2. s \in Slots
    BY <1>1, FieldsType DEF PoolInv, Sound, IsResident
  <2> HIDE DEF s
  <2>3. /\ Len(Ahead') + 1 \in 1 .. Len(Ahead) /\ ~(Len(Ahead') + 1 < i)
        /\ Len(Ahead') + 1 + 1 = Len(Ahead) + 1
    BY <1>2 DEF Removed
  <2>4. Holds(Ahead', Len(Ahead') + 1, arena', p, s, b)
    BY <2>1, <2>2, <2>3, <1>14
  <2> QED
    BY <2>1, <2>4 DEF s
<1> QED
  BY <1>6, <1>12, <1>16, <1>17, <1>18, <1>19 DEF QueueInv

-----------------------------------------------------------------------------
(* The copies of a queue that grows find their bytes in the ring.            *)
LEMMA RingGrows ==
  ASSUME RunInv, RingInv, NEW t \in Seq(Commands), Ahead' = Ahead \o t,
         \A i \in DOMAIN device : i \in DOMAIN device' /\ device'[i] = device[i],
         run'.half = run.half, run'.pending = run.pending,
         run.at # "rotate", run'.at # "rotate",
         run'.cursor \in Nat, run.cursor <= run'.cursor,
         \A x \in {0, 1} \X (0 .. model.half - 1) :
           x[1] # run.half \/ x[2] < run.cursor => ring'[x] = ring[x],
         \A k \in DOMAIN t : t[k].do = "copy" =>
           /\ ring'[t[k].from] = t[k].blk
           /\ t[k].from[1] = run.half /\ t[k].from[2] < run'.cursor
  PROVE  RingInv'
<1>0. Ahead \in Seq(Commands)
  BY QueueIs, Zenon
<1> DEFINE m == Len(Ahead)
           n == Len(t)
           q == Ahead
           r == Ahead'
<1>1. /\ m \in Nat /\ n \in Nat /\ DOMAIN q = 1 .. m /\ DOMAIN t = 1 .. n /\ DOMAIN r = 1 .. m + n
      /\ \A i \in 1 .. m : r[i] = q[i]
      /\ \A i \in 1 .. m + n : i > m => r[i] = t[i - m]
  BY <1>0, JoinIs
<1> HIDE DEF m, n, q, r
<1> SUFFICES ASSUME NEW i \in 1 .. m + n, r[i].do = "copy"
             PROVE  /\ ring'[r[i].from] = r[i].blk
                    /\ IF r[i].from[1] = run'.half /\ run'.at # "rotate"
                       THEN r[i].from[2] < run'.cursor
                       ELSE \E j \in DOMAIN device' :
                              j > i /\ device'[j] = Stream!Fence(run'.pending[r[i].from[1]])
  <2>1. Stream!Fence(run.pending[Ahead[1].from[1]])' = Stream!Fence(run'.pending[Ahead'[1].from[1]])
    BY DEF Stream!Fence
  <2> QED
    BY <1>1 DEF RingInv, r, Stream!Fence
<1>2. CASE i <= m
  <2>1. i \in DOMAIN Ahead /\ r[i] = q[i]
    BY <1>1, <1>2 DEF q
  <2>2. q[i] \in Copying
    <3>1. Ahead[i] \in Commands
      BY <2>1, QueueIs
    <3> QED
      BY <3>1, <2>1, CommandIs DEF RunInv, q
  <2> DEFINE x == q[i].from
  <2>3. x \in {0, 1} \X (0 .. model.half - 1) /\ x[1] \in {0, 1} /\ x[2] \in 0 .. model.half - 1
    BY <2>2, CopyIs
  <2>4. /\ ring[x] = q[i].blk
        /\ IF x[1] = run.half THEN x[2] < run.cursor
           ELSE \E j \in DOMAIN device : j > i /\ device[j] = Stream!Fence(run.pending[x[1]])
    BY <2>1 DEF RingInv, q
  <2>5. run.cursor \in Nat /\ model.half \in Nat
    BY ModelIs, SMTT(20) DEF RunInv
  <2>6. ring'[x] = ring[x]
    <3> HIDE DEF x
    <3> QED
      BY <2>3, <2>4
  <2>7. CASE x[1] = run.half
    <3>1. x[2] < run'.cursor
      <4> HIDE DEF x
      <4> QED
        BY <2>3, <2>4, <2>5, <2>7
    <3> QED
      BY <2>1, <2>4, <2>6, <2>7, <3>1
  <2>8. CASE x[1] # run.half
    <3>1. PICK j \in DOMAIN device : j > i /\ device[j] = Stream!Fence(run.pending[x[1]])
      BY <2>4, <2>8
    <3>2. j \in DOMAIN device' /\ device'[j] = Stream!Fence(run'.pending[x[1]])
      BY <3>1
    <3> QED
      BY <2>1, <2>4, <2>6, <2>8, <3>1, <3>2
  <2> QED
    BY <2>7, <2>8
<1>3. CASE i > m
  <2>1. i - m \in DOMAIN t /\ r[i] = t[i - m]
    BY <1>1, <1>3
  <2> QED
    BY <2>1
<1> QED
  BY <1>1, <1>2, <1>3

(* The fences of a queue that grows by at most one.                          *)
LEMMA FencesGrow ==
  ASSUME NEW d \in Seq(Commands), NEW t \in Seq(Commands), NEW n \in Nat, NEW S,
         FencesAre(d, n, S), NEW z \in Nat, n <= z, NEW R, S \subseteq R,
         \A k \in DOMAIN t : t[k].do = "fence" => t[k].id = n + 1 /\ n + 1 <= z /\ n + 1 \in R,
         \A k, l \in DOMAIN t : t[k].do = "fence" /\ t[l].do = "fence" => k = l,
         \A k \in DOMAIN d : d[k].do = "fence" => d[k].id \in Nat
  PROVE  FencesAre(d \o t, z, R)
<1> DEFINE a == Len(d)
           c == Len(t)
           r == d \o t
<1>1. /\ a \in Nat /\ c \in Nat /\ DOMAIN d = 1 .. a /\ DOMAIN t = 1 .. c /\ DOMAIN r = 1 .. a + c
      /\ \A i \in 1 .. a : r[i] = d[i]
      /\ \A i \in 1 .. a + c : i > a => r[i] = t[i - a]
  BY JoinIs
<1> HIDE DEF a, c, r
<1>2. \A i \in DOMAIN r : (i \in DOMAIN d /\ r[i] = d[i]) \/ (i > a /\ i - a \in DOMAIN t /\ r[i] = t[i - a])
  BY <1>1
<1>3. ASSUME NEW i \in DOMAIN r, r[i].do = "fence" PROVE r[i].id <= z /\ r[i].id \in R
  BY <1>2, <1>3 DEF FencesAre
<1>4. ASSUME NEW i \in DOMAIN r, NEW j \in DOMAIN r, r[i].do = "fence", r[j].do = "fence",
             r[i].id = r[j].id
      PROVE  i = j
  <2>0. i \in Nat /\ j \in Nat
    BY <1>1
  <2>1. CASE i \in DOMAIN d /\ j \in DOMAIN d /\ r[i] = d[i] /\ r[j] = d[j]
    BY <2>1, <1>4 DEF FencesAre
  <2>2. CASE i - a \in DOMAIN t /\ j - a \in DOMAIN t /\ r[i] = t[i - a] /\ r[j] = t[j - a]
    <3>1. i - a = j - a
      BY <2>2, <1>4
    <3> QED
      BY <3>1, <2>0, <1>1
  <2>3. CASE i \in DOMAIN d /\ j - a \in DOMAIN t /\ r[i] = d[i] /\ r[j] = t[j - a]
    BY <2>3, <1>4 DEF FencesAre
  <2>4. CASE i - a \in DOMAIN t /\ j \in DOMAIN d /\ r[i] = t[i - a] /\ r[j] = d[j]
    BY <2>4, <1>4 DEF FencesAre
  <2> QED
    BY <1>2, <2>1, <2>2, <2>3, <2>4
<1> QED
  BY <1>3, <1>4 DEF FencesAre, r

(* What is discarded was never to be relied upon.                            *)
LEMMA DiscardHolds ==
  ASSUME NEW T, NEW q \in Seq(T), NEW t \in Seq(T), NEW held, NEW p, NEW s, NEW b,
         Holds(q \o t, Len(q \o t) + 1, held, p, s, b),
         \A k \in DOMAIN t : ~(CopyTo(t, k, p, s) /\ t[k].blk = b)
  PROVE  Holds(q, Len(q) + 1, held, p, s, b)
<1> DEFINE m == Len(q)
           n == Len(t)
           r == q \o t
<1>1. /\ m \in Nat /\ n \in Nat /\ DOMAIN q = 1 .. m /\ DOMAIN t = 1 .. n
      /\ \A i \in 1 .. m : r[i] = q[i]
      /\ \A i \in 1 .. m + n : i > m => r[i] = t[i - m]
      /\ Len(r) = m + n
  BY JoinIs
<1>2. Holds(r, m + n + 1, held, p, s, b)
  BY <1>1
<1> HIDE DEF m, n, r
<1>3. \A k \in 1 .. m : CopyTo(r, k, p, s) <=> CopyTo(q, k, p, s)
  BY <1>1 DEF CopyTo
<1>4. (m + n + 1) - 1 = m + n /\ (m + 1) - 1 = m
  BY <1>1
<1>5. CASE \A k \in 1 .. m + n : ~CopyTo(r, k, p, s)
  <2>1. ~\E k \in 1 .. (m + n + 1) - 1 : CopyTo(r, k, p, s)
    BY <1>4, <1>5
  <2>2. held[p][s] = b
    BY <1>2, <2>1 DEF Holds
  <2>3. \A k \in 1 .. m : k \in 1 .. m + n
    BY <1>1
  <2> QED
    BY <1>3, <1>4, <1>5, <2>2, <2>3 DEF Holds, m
<1>6. CASE \E k \in 1 .. m + n : CopyTo(r, k, p, s)
  <2>1. PICK k \in 1 .. m + n : /\ CopyTo(r, k, p, s) /\ r[k].blk = b
                               /\ \A l \in k + 1 .. m + n : ~CopyTo(r, l, p, s)
    BY <1>2, <1>4, <1>6 DEF Holds
  <2>2. k \in 1 .. m
    <3> SUFFICES ASSUME k > m PROVE FALSE
      BY <1>1, <2>1
    <3>1. k - m \in DOMAIN t /\ r[k] = t[k - m]
      BY <1>1, <2>1
    <3> QED
      BY <3>1, <2>1 DEF CopyTo
  <2>3. \A l \in k + 1 .. m : l \in k + 1 .. m + n /\ l \in 1 .. m
    BY <1>1, <2>2
  <2> QED
    BY <1>1, <1>3, <1>4, <2>1, <2>2, <2>3 DEF Holds, m
<1> QED
  BY <1>5, <1>6

-----------------------------------------------------------------------------
LEMMA ExecuteFences ==
  ASSUME NEW d, NEW e, NEW i, Removed(d, e, i), NEW n, NEW S, FencesAre(d, n, S)
  PROVE  FencesAre(e, n, S)
<1> DEFINE z == Len(d)
           f(j) == IF j < i THEN j ELSE j + 1
<1>1. /\ z \in Nat /\ DOMAIN d = 1 .. z /\ DOMAIN e = 1 .. z - 1
      /\ \A j \in 1 .. z - 1 : e[j] = IF j < i THEN d[j] ELSE d[j + 1]
      /\ i \in 1 .. z
  BY DEF Removed
<1> HIDE DEF z
<1>2. \A j \in DOMAIN e : f(j) \in DOMAIN d /\ e[j] = d[f(j)]
  BY <1>1
<1>3. \A j, k \in DOMAIN e : f(j) = f(k) => j = k
  BY <1>1
<1> HIDE DEF f
<1> QED
  BY <1>2, <1>3 DEF FencesAre

LEMMA ExecuteRing ==
  ASSUME StreamInv, NEW i \in DOMAIN device, Stream!Execute(i)
  PROVE  RingInv'
<1>1. RunInv /\ RingInv
  BY DEF StreamInv
<1>2. Removed(device, device', i) /\ Removed(Ahead, Ahead', i)
  BY <1>1, ExecuteRemoves
<1>3. run' = run /\ ring' = ring
  BY DEF Stream!Execute
<1> DEFINE z == Len(device)
           n == Len(Ahead)
           d == device
           e == device'
           q == Ahead
           r == Ahead'
           f(j) == IF j < i THEN j ELSE j + 1
<1>4. /\ z \in Nat /\ DOMAIN d = 1 .. z /\ DOMAIN e = 1 .. z - 1 /\ i \in 1 .. z
      /\ \A j \in 1 .. z - 1 : e[j] = IF j < i THEN d[j] ELSE d[j + 1]
      /\ n \in Nat /\ DOMAIN q = 1 .. n /\ DOMAIN r = 1 .. n - 1 /\ i \in 1 .. n
      /\ \A j \in 1 .. n - 1 : r[j] = IF j < i THEN q[j] ELSE q[j + 1]
  BY <1>2 DEF Removed
<1>5. i = 1 \/ d[i].do # "fence"
  BY DEF Stream!Execute, Stream!Executable
<1> SUFFICES ASSUME NEW k \in DOMAIN r, r[k].do = "copy"
             PROVE  /\ ring[r[k].from] = r[k].blk
                    /\ IF r[k].from[1] = run.half /\ run.at # "rotate"
                       THEN r[k].from[2] < run.cursor
                       ELSE \E j \in DOMAIN e :
                              j > k /\ e[j] = Stream!Fence(run.pending[r[k].from[1]])
  BY <1>3 DEF RingInv, Stream!Fence
<1> HIDE DEF z, n, d, e, q, r
<1>6. f(k) \in DOMAIN q /\ r[k] = q[f(k)]
  BY <1>4
<1>7. /\ ring[r[k].from] = r[k].blk
      /\ IF r[k].from[1] = run.half /\ run.at # "rotate"
         THEN r[k].from[2] < run.cursor
         ELSE \E j \in DOMAIN d :
                j > f(k) /\ d[j] = Stream!Fence(run.pending[r[k].from[1]])
  <2> HIDE DEF f
  <2> QED
    BY <1>1, <1>6 DEF RingInv, q, d
<1>8. ASSUME NEW j \in DOMAIN d, j > f(k), NEW x, d[j] = Stream!Fence(x)
      PROVE  \E l \in DOMAIN e : l > k /\ e[l] = Stream!Fence(x)
  <2>1. d[j].do = "fence"
    BY <1>8 DEF Stream!Fence
  <2>2. j # i
    BY <2>1, <1>5, <1>4, <1>6, <1>8
  <2>3. CASE j < i
    BY <2>3, <1>4, <1>6, <1>8
  <2>4. CASE j > i
    <3>1. j - 1 \in DOMAIN e /\ e[j - 1] = d[j] /\ j - 1 > k
      BY <2>4, <1>4, <1>6, <1>8
    <3> QED
      BY <3>1, <1>8
  <2> QED
    BY <2>2, <2>3, <2>4, <1>4
<1> QED
  BY <1>7, <1>8

(* The device's step.                                                        *)
LEMMA ExecuteStep ==
  ASSUME StreamInv, NEW i \in DOMAIN device, Stream!Execute(i)
  PROVE  StreamInv'
<1>1. /\ RunInv /\ QueueInv /\ RingInv /\ PoolInv /\ Believed
      /\ FenceInv /\ DenseInv /\ MoeInv /\ PlaceInv
  BY DEF StreamInv
<1>2. QueueInv' /\ Believed' /\ arena' \in [Stream!Pools -> [Slots -> Blocks \cup {NoBlock}]]
  BY ExecuteQueue
<1>3. RingInv'
  BY ExecuteRing
<1>4. Removed(device, device', i) /\ device' \in Seq(Commands)
  BY <1>1, ExecuteRemoves
<1>5. /\ model' = model /\ pools' = pools /\ lut' = lut /\ ring' = ring /\ tape' = tape /\ run' = run
      /\ forwards' = forwards /\ lost' = lost
  BY DEF Stream!Execute
<1>6. Stream!Pools' = Stream!Pools /\ Commands' = Commands /\ (Stream!Dense' <=> Stream!Dense)
  BY <1>5, SameModel
<1>7. RunInv'
  BY <1>1, <1>2, <1>4, <1>5, <1>6 DEF RunInv
<1>8. PoolInv'
  BY <1>1, <1>5, <1>6 DEF PoolInv
<1>9. Stream!InFlight' = Stream!InFlight /\ (Stream!InGraph' <=> Stream!InGraph) /\ Stream!Op' = Stream!Op
  BY <1>5 DEF Stream!InFlight, Stream!InGraph, Stream!Op
<1>10. Stream!Experts' = Stream!Experts
  BY <1>9 DEF Stream!Experts
<1>11. DenseInv'
  BY <1>1, <1>5, <1>6, <1>9 DEF DenseInv
<1>12. PlaceInv'
  BY <1>1, <1>5, <1>6, <1>9 DEF PlaceInv
<1>13. MoeInv'
  BY <1>1, <1>5, <1>6, <1>9, <1>10 DEF MoeInv, MoeStaging, StagedSince, InBatchOf
<1>14. FenceInv'
  <2>1. FencesAre(device', run.fences, Stream!InFlight)
    BY <1>1, <1>4, ExecuteFences DEF FenceInv
  <2>2. run.at # "idle"
    BY <1>1 DEF FenceInv
  <2>3. run.at \notin {"sync", "finish"} => device' = <<>> \/ device'[Len(device')].do = "fence"
    <3> SUFFICES ASSUME run.at \notin {"sync", "finish"}, device' # <<>>
                 PROVE  device'[Len(device')].do = "fence"
      OBVIOUS
    <3> DEFINE z == Len(device)
               e == device'
    <3>1. /\ z \in Nat /\ DOMAIN device = 1 .. z /\ DOMAIN e = 1 .. z - 1 /\ i \in 1 .. z
          /\ \A j \in 1 .. z - 1 : e[j] = IF j < i THEN device[j] ELSE device[j + 1]
          /\ Len(e) = z - 1
      BY <1>4 DEF Removed
    <3>2. z # 1
      <4> SUFFICES ASSUME z = 1 PROVE FALSE
        OBVIOUS
      <4>1. Len(device') = 0
        BY <3>1
      <4> QED
        BY <4>1, <1>4, EmptySeq
    <3>3. device[z].do = "fence"
      <4>1. device # <<>>
        BY <3>1
      <4> QED
        BY <4>1, <1>1 DEF FenceInv
    <3>4. i = 1 \/ device[i].do # "fence"
      BY DEF Stream!Execute, Stream!Executable
    <3>5. i # z
      BY <3>2, <3>3, <3>4
    <3> HIDE DEF z, e
    <3>6. z - 1 \in 1 .. z - 1 /\ ~(z - 1 < i)
      BY <3>1, <3>2, <3>5
    <3>7. e[z - 1] = device[z]
      BY <3>1, <3>6
    <3> QED
      BY <3>1, <3>3, <3>7 DEF e
  <2> QED
    BY <1>1, <1>5, <1>9, <2>1, <2>2, <2>3 DEF FenceInv
<1> QED
  BY <1>2, <1>3, <1>7, <1>8, <1>11, <1>12, <1>13, <1>14 DEF StreamInv

-----------------------------------------------------------------------------
(* What is submitted.                                                        *)
LEMMA FencesAhead ==
  ASSUME RunInv, FenceInv
  PROVE  /\ FencesAre(Ahead, run.fences, Stream!InFlight)
         /\ \A k \in DOMAIN Ahead : Ahead[k].do = "fence" => Ahead[k].id \in Nat
<1>1. device \in Seq(Commands) /\ run.rec \in Seq(Commands) /\ run.fences \in Nat
  BY DEF RunInv
<1>2. ASSUME NEW s \in Seq(Commands), NEW k \in DOMAIN s, s[k].do = "fence" PROVE s[k].id \in Nat
  <2>1. s[k] \in Commands
    BY <1>2
  <2>2. s[k] \in Fencing
    BY <2>1, <1>2, CommandIs DEF RunInv
  <2> QED
    BY <2>2 DEF Fencing
<1>3. FencesAre(device, run.fences, Stream!InFlight) /\ \A k \in DOMAIN run.rec : run.rec[k].do # "fence"
  BY DEF FenceInv
<1>4. \A k \in DOMAIN device : device[k].do = "fence" => device[k].id \in Nat
  BY <1>1, <1>2
<1>5. FencesAre(device \o run.rec, run.fences, Stream!InFlight)
  <2> DEFINE d == device
             t == run.rec
             n == run.fences
             S == Stream!InFlight
  <2>1. /\ d \in Seq(Commands) /\ t \in Seq(Commands) /\ n \in Nat /\ n <= n /\ S \subseteq S
        /\ FencesAre(d, n, S) /\ \A k \in DOMAIN t : t[k].do # "fence"
        /\ \A k \in DOMAIN d : d[k].do = "fence" => d[k].id \in Nat
    BY <1>1, <1>3, <1>4
  <2> HIDE DEF d, t, n, S
  <2>2. FencesAre(d \o t, n, S)
    BY <2>1, FencesGrow
  <2> QED
    BY <2>2 DEF d, t, n, S
<1>6. Ahead \in Seq(Commands)
  BY QueueIs, Zenon
<1> QED
  BY <1>2, <1>5, <1>6 DEF Ahead

Joined(T, q, t, r) ==
  /\ q \in Seq(T) /\ t \in Seq(T) /\ r \in Seq(T)
  /\ Len(r) = Len(q) + Len(t) /\ Len(q) \in Nat /\ Len(t) \in Nat
  /\ DOMAIN q = 1 .. Len(q) /\ DOMAIN t = 1 .. Len(t) /\ DOMAIN r = 1 .. Len(q) + Len(t)
  /\ \A i \in 1 .. Len(q) : r[i] = q[i]
  /\ \A i \in 1 .. Len(t) : r[Len(q) + i] = t[i]
  /\ \A i \in 1 .. Len(q) + Len(t) : i > Len(q) => r[i] = t[i - Len(q)]

(* The same, of one element or two.                                          *)
One(T, c, t) == t \in Seq(T) /\ Len(t) = 1 /\ DOMAIN t = {1} /\ t[1] = c
Two(T, a, c, t) == t \in Seq(T) /\ Len(t) = 2 /\ DOMAIN t = {1, 2} /\ t[1] = a /\ t[2] = c

Added(T, q, c, r) ==
  /\ q \in Seq(T) /\ r \in Seq(T) /\ Len(r) = Len(q) + 1 /\ Len(q) \in Nat
  /\ DOMAIN q = 1 .. Len(q) /\ DOMAIN r = 1 .. Len(q) + 1
  /\ \A i \in 1 .. Len(q) : r[i] = q[i]
  /\ r[Len(q) + 1] = c

LEMMA JoinIsJoined ==
  ASSUME NEW T, NEW q \in Seq(T), NEW t \in Seq(T)
  PROVE  Joined(T, q, t, q \o t)
BY JoinIs DEF Joined

LEMMA OneIs ==
  ASSUME NEW T, NEW c \in T
  PROVE  One(T, c, <<c>>)
BY DEF One

LEMMA JoinAdds ==
  ASSUME NEW T, NEW q \in Seq(T), NEW c \in T
  PROVE  Added(T, q, c, q \o <<c>>)
<1> DEFINE t == <<c>>
           r == q \o t
<1>1. t \in Seq(T) /\ Len(t) = 1 /\ t[1] = c
  OBVIOUS
<1> HIDE DEF t
<1>2. Joined(T, q, t, r)
  BY <1>1, JoinIsJoined, Zenon
<1> HIDE DEF r
<1>3. Added(T, q, c, r)
  BY <1>1, <1>2 DEF Joined, Added
<1> QED
  BY <1>3 DEF r, t

LEMMA TwoIs ==
  ASSUME NEW T, NEW a \in T, NEW c \in T
  PROVE  Two(T, a, c, <<a>> \o <<c>>)
<1> DEFINE q == <<a>>
           t == q \o <<c>>
<1>1. q \in Seq(T) /\ Len(q) = 1 /\ q[1] = a
  OBVIOUS
<1> HIDE DEF q
<1>2. Added(T, q, c, t)
  BY <1>1, JoinAdds, Zenon
<1> HIDE DEF t
<1>3. 1 \in 1 .. Len(q) /\ Len(q) + 1 = 2 /\ 1 .. 2 = {1, 2}
  BY <1>1
<1>4. Two(T, a, c, t)
  BY <1>1, <1>2, <1>3 DEF Two, Added
<1> QED
  BY <1>4 DEF t, q

LEMMA AppendAdds ==
  ASSUME NEW T, NEW s \in Seq(T), NEW c \in T
  PROVE  Added(T, s, c, Append(s, c)) /\ ToSet(Append(s, c)) = ToSet(s) \cup {c}
<1> DEFINE n == Len(s)
           r == Append(s, c)
<1>1. /\ r \in Seq(T) /\ Len(r) = n + 1 /\ n \in Nat /\ DOMAIN r = 1 .. n + 1
      /\ r[n + 1] = c /\ \A i \in 1 .. n : r[i] = s[i]
  BY AppendIs
<1>2. DOMAIN s = 1 .. n
  OBVIOUS
<1> HIDE DEF n, r
<1>3. DOMAIN r = DOMAIN s \cup {n + 1} /\ \A i \in DOMAIN s : r[i] = s[i]
  BY <1>1, <1>2
<1>4. ToSet(r) = ToSet(s) \cup {c}
  BY <1>1, <1>3 DEF ToSet
<1> QED
  BY <1>1, <1>2, <1>4 DEF n, r, Added

LEMMA SubmittedIs ==
  ASSUME RunInv, FenceInv, NEW f, f = run.fences + 1, NEW d, d = Stream!Submitted(f)
  PROVE  /\ d = Ahead \o <<Stream!Fence(f)>> /\ Stream!Fence(f) \in Commands
         /\ f \in Nat \ {0} /\ d \in Seq(Commands) /\ Len(d) = Len(Ahead) + 1 /\ d # <<>>
         /\ Len(d) \in DOMAIN d
         /\ d[Len(d)] = Stream!Fence(f) /\ d[Len(d)].do = "fence"
         /\ \A i \in DOMAIN device : i \in DOMAIN d /\ d[i] = device[i]
         /\ \A i \in DOMAIN Ahead : i \in DOMAIN d /\ d[i] = Ahead[i] /\ i < Len(d)
         /\ \A R : Stream!InFlight \cup {f} \subseteq R => FencesAre(d, f, R)
<1> DEFINE c == Stream!Fence(f)
           q == Ahead
           t == <<c>>
           n == run.fences
<1>1. d = q \o t /\ t = <<c>>
  BY DEF Stream!Submitted, Ahead
<1>2. n \in Nat /\ f = n + 1
  BY DEF RunInv
<1>3. c \in Commands /\ c.do = "fence" /\ c.id = f
  BY <1>2 DEF Commands, Fencing, Stream!Fence
<1>4. q \in Seq(Commands)
  BY QueueIs, Zenon
<1>5. t \in Seq(Commands) /\ DOMAIN t = {1} /\ t[1] = c /\ Len(t) = 1
  BY <1>3
<1>6. FencesAre(q, n, Stream!InFlight) /\ \A k \in DOMAIN q : q[k].do = "fence" => q[k].id \in Nat
  BY FencesAhead
<1>7. \A i \in DOMAIN device : i \in DOMAIN q /\ q[i] = device[i]
  BY QueueIs
<1> HIDE DEF c, q, t, n
<1>8. d \in Seq(Commands) /\ Len(d) = Len(q) + 1 /\ Len(q) \in Nat /\ DOMAIN d = 1 .. Len(q) + 1
      /\ DOMAIN q = 1 .. Len(q)
      /\ \A i \in 1 .. Len(q) : d[i] = q[i]
      /\ d[Len(q) + 1] = t[1]
  <2>1. Added(Commands, q, c, d)
    BY <1>1, <1>3, <1>4, JoinAdds, Zenon
  <2> QED
    BY <2>1, <1>5 DEF Added
<1>9. ASSUME NEW R, Stream!InFlight \cup {f} \subseteq R PROVE FencesAre(d, f, R)
  <2>1. f \in Nat /\ n <= f /\ Stream!InFlight \subseteq R /\ f \in R /\ n + 1 <= f
    BY <1>2, <1>9
  <2>2. \A k \in DOMAIN t : t[k].do = "fence" => t[k].id = n + 1 /\ n + 1 <= f /\ n + 1 \in R
    BY <1>2, <1>3, <1>5, <2>1
  <2>3. \A k, l \in DOMAIN t : t[k].do = "fence" /\ t[l].do = "fence" => k = l
    BY <1>5
  <2> DEFINE S == Stream!InFlight
  <2>4. n \in Nat /\ FencesAre(q, n, S) /\ S \subseteq R
        /\ \A k \in DOMAIN q : q[k].do = "fence" => q[k].id \in Nat
    BY <1>2, <1>6, <2>1
  <2>5. t \in Seq(Commands)
    BY <1>5
  <2> HIDE DEF S
  <2>6. FencesAre(q \o t, f, R)
    BY <1>4, <2>1, <2>2, <2>3, <2>4, <2>5, FencesGrow
  <2> QED
    BY <1>1, <2>6
<1>10. d # <<>>
  BY <1>8
<1> QED
  BY <1>1, <1>2, <1>3, <1>5, <1>7, <1>8, <1>9, <1>10 DEF c, q, t

-----------------------------------------------------------------------------
(* Steps that leave the session alone.                                       *)
LEMMA QuietStep ==
  ASSUME StreamInv, model' = model, UNCHANGED <<pools, lut, arena, ring, tape, lost>>,
         run'.words = run.words,
         NEW t \in Seq(Commands), Quiet(t), Ahead' = Ahead \o t
  PROVE  QueueInv' /\ PoolInv' /\ Believed'
<1>1. RunInv /\ QueueInv /\ PoolInv /\ Believed
  BY DEF StreamInv
<1>2. QueueInv'
  BY <1>1, QuietQueue
<1>3. Believed'
  <2>1. lost \subseteq lost' /\ \A p \in Stream!Pools : pools'[p].resident = pools[p].resident
    OBVIOUS
  <2> QED
    BY <1>1, <2>1, QuietBelieved
<1>4. PoolInv'
  BY <1>1, SameModel DEF PoolInv
<1> QED
  BY <1>2, <1>3, <1>4

LEMMA QuietRing ==
  ASSUME RunInv, RingInv, NEW t \in Seq(Commands), Quiet(t), Ahead' = Ahead \o t,
         \A i \in DOMAIN device : i \in DOMAIN device' /\ device'[i] = device[i],
         run'.half = run.half, run'.pending = run.pending, run'.cursor = run.cursor,
         run.at # "rotate", run'.at # "rotate", ring' = ring
  PROVE  RingInv'
<1>1. \A k \in DOMAIN t : t[k].do # "copy"
  BY DEF Quiet
<1>2. /\ run'.cursor \in Nat /\ run.cursor <= run'.cursor
      /\ \A x \in {0, 1} \X (0 .. model.half - 1) :
           x[1] # run.half \/ x[2] < run.cursor => ring'[x] = ring[x]
  BY ModelIs, SMTT(20) DEF RunInv
<1>3. \A k \in DOMAIN t : t[k].do = "copy" =>
        /\ ring'[t[k].from] = t[k].blk
        /\ t[k].from[1] = run.half /\ t[k].from[2] < run'.cursor
  BY <1>1
<1> QED
  BY <1>2, <1>3, RingGrows, Zenon

LEMMA SplitStep ==
  ASSUME StreamInv, Stream!Split
  PROVE  StreamInv'
<1>1. /\ RunInv /\ QueueInv /\ RingInv /\ PoolInv /\ Believed
      /\ FenceInv /\ PlaceInv
  BY DEF StreamInv
<1> DEFINE f == run.fences + 1
           segs == Append(run.segments, f)
           to == IF Len(segs) > MaxInflight THEN "retire" ELSE "op"
           bar == Stream!Barrier
           fen == Stream!Fence(f)
           d == device'
<1>2. /\ run.at = "op" /\ d = Stream!Submitted(f)
      /\ run' = [run EXCEPT !.at = to, !.rec = <<bar>>, !.fences = f, !.segments = segs]
      /\ model' = model /\ UNCHANGED <<pools, lut, arena, ring, tape, lost>> /\ forwards' = forwards
  BY DEF Stream!Split, Stream!session
<1>3. DOMAIN run = RunFields
  BY <1>1 DEF RunInv
<1> HIDE DEF segs, to, bar, fen, f, d
<1>4. /\ DOMAIN run' = RunFields
      /\ run'.at = to /\ run'.rec = <<bar>> /\ run'.fences = f /\ run'.segments = segs
      /\ run'.op = run.op /\ run'.wide = run.wide /\ run'.half = run.half
      /\ run'.cursor = run.cursor /\ run'.pending = run.pending /\ run'.words = run.words
      /\ run'.role = run.role /\ run'.ids = run.ids /\ run'.todo = run.todo
      /\ run'.windows = run.windows
  BY <1>2, <1>3 DEF RunFields
<1>5. to \in {"op", "retire"} /\ (Len(segs) > MaxInflight => to = "retire")
  BY DEF to
<1>6. /\ d = Ahead \o <<fen>> /\ fen \in Commands /\ fen.do = "fence"
      /\ f \in Nat \ {0} /\ d \in Seq(Commands) /\ d # <<>> /\ d[Len(d)].do = "fence"
      /\ \A i \in DOMAIN device : i \in DOMAIN d /\ d[i] = device[i]
      /\ \A R : Stream!InFlight \cup {f} \subseteq R => FencesAre(d, f, R)
  <2>1. f = run.fences + 1 /\ fen = Stream!Fence(f) /\ fen.do = "fence"
    BY DEF f, fen, Stream!Fence
  <2> QED
    BY <1>1, <1>2, <2>1, SubmittedIs
<1>7. bar \in Commands /\ bar.do = "barrier"
  BY DEF bar, Commands, Stream!Barrier
<1>8. Ahead \in Seq(Commands)
  BY <1>1, QueueIs, Zenon
<1> DEFINE t == <<fen>> \o <<bar>>
<1>9. t \in Seq(Commands) /\ Quiet(t)
  <2>1. Two(Commands, fen, bar, t)
    BY <1>6, <1>7, TwoIs, Zenon
  <2> HIDE DEF t
  <2> QED
    BY <1>6, <1>7, <2>1 DEF Quiet, Two
<1>10. Ahead' = Ahead \o t
  <2>1. Ahead' = (Ahead \o <<fen>>) \o <<bar>>
    BY <1>4, <1>6 DEF Ahead, d
  <2>2. <<fen>> \in Seq(Commands) /\ <<bar>> \in Seq(Commands)
    BY <1>6, <1>7
  <2> QED
    BY <1>8, <2>1, <2>2, ConcatAssociative
<1> HIDE DEF t
<1>11. QueueInv' /\ PoolInv' /\ Believed'
  BY <1>2, <1>4, <1>9, <1>10, QuietStep
<1>12. RingInv'
  <2>1. /\ \A i \in DOMAIN device : i \in DOMAIN device' /\ device'[i] = device[i]
        /\ run'.at # "rotate" /\ run.at # "rotate"
    BY <1>2, <1>4, <1>5, <1>6 DEF d
  <2>2. ring' = ring /\ RunInv /\ RingInv
    BY <1>1, <1>2
  <2> QED
    BY <1>4, <1>9, <1>10, <2>1, <2>2, QuietRing, Zenon
<1>13. segs \in Seq(Nat) /\ Len(segs) = Len(run.segments) + 1 /\ Len(run.segments) \in Nat
       /\ ToSet(segs) = ToSet(run.segments) \cup {f}
  <2>1. run.segments \in Seq(Nat) /\ f \in Nat /\ segs = Append(run.segments, f)
    BY <1>1, <1>6 DEF RunInv, segs
  <2>2. Added(Nat, run.segments, f, segs) /\ ToSet(segs) = ToSet(run.segments) \cup {f}
    BY <2>1, AppendAdds, ZenonT(40)
  <2> QED
    BY <2>2 DEF Added
<1>14. Stream!InFlight \cup {f} \subseteq Stream!InFlight'
  BY <1>4, <1>13, StreamOperators DEF Stream!InFlight
<1>15. RunInv'
  <2>1. Stream!Pools' = Stream!Pools /\ Commands' = Commands
    BY <1>2, SameModel
  <2>2. device' \in Seq(Commands) /\ <<bar>> \in Seq(Commands) /\ f \in Nat
    BY <1>6, <1>7 DEF d
  <2>3. to \in RunPlaces
    BY <1>5 DEF RunPlaces
  <2> QED
    BY <1>1, <1>2, <1>4, <1>13, <2>1, <2>2, <2>3 DEF RunInv
<1>16. FenceInv'
  <2>1. FencesAre(device', run'.fences, Stream!InFlight')
    BY <1>4, <1>6, <1>14 DEF d
  <2>2. DOMAIN <<bar>> = {1} /\ <<bar>>[1] = bar
    OBVIOUS
  <2>3. \A i \in DOMAIN run'.rec : run'.rec[i].do # "fence"
    BY <1>4, <1>7, <2>2
  <2>4. Len(run'.segments) <= MaxInflight + (IF run'.at = "retire" THEN 1 ELSE 0)
    <3>1. Len(run.segments) <= MaxInflight /\ MaxInflight \in Nat
      BY <1>1, <1>2, DrivesAreBounded DEF FenceInv
    <3> DEFINE x == Len(run.segments)
               y == Len(segs)
    <3>2. x \in Nat /\ y = x + 1 /\ x <= MaxInflight /\ MaxInflight \in Nat
      BY <1>13, <3>1
    <3>3. y > MaxInflight => to = "retire"
      BY <1>5
    <3> HIDE DEF x, y
    <3>4. y <= MaxInflight + (IF to = "retire" THEN 1 ELSE 0)
      BY <3>2, <3>3
    <3> QED
      BY <1>4, <3>4 DEF y
  <2>7. run'.segments # <<>>
    BY <1>4, <1>13
  <2>5. run'.pending[run'.half] = 0
    BY <1>1, <1>2, <1>4 DEF FenceInv
  <2>6. device' # <<>> /\ device'[Len(device')].do = "fence"
    BY <1>6 DEF d
  <2> QED
    BY <1>4, <1>5, <2>1, <2>3, <2>4, <2>5, <2>6, <2>7 DEF FenceInv
<1>17. DenseInv' /\ MoeInv'
  BY <1>4, <1>5 DEF DenseInv, MoeInv, MoeStaging
<1>18. PlaceInv'
  BY <1>1, <1>2, <1>4, <1>5, SameModel DEF PlaceInv
<1> QED
  BY <1>11, <1>12, <1>15, <1>16, <1>17, <1>18 DEF StreamInv

(* What does not end a segment's recording is added to it.                   *)
LEMMA AddedLast ==
  ASSUME NEW T, NEW q, NEW c, NEW r, Added(T, q, c, r), c.do # "fence",
         \A i \in DOMAIN q : q[i].do # "fence"
  PROVE  /\ Len(r) \in DOMAIN r /\ r[Len(r)] = c /\ r # <<>>
         /\ \A i \in DOMAIN r : r[i].do # "fence"
<1> DEFINE n == Len(q)
<1>1. /\ n \in Nat /\ Len(r) = n + 1 /\ DOMAIN r = 1 .. n + 1 /\ DOMAIN q = 1 .. n
      /\ \A i \in 1 .. n : r[i] = q[i]
      /\ r[n + 1] = c
  BY DEF Added
<1> HIDE DEF n
<1>2. \A i \in 1 .. n + 1 : i \in 1 .. n \/ i = n + 1
  BY <1>1
<1> QED
  BY <1>1, <1>2

LEMMA JoinAppend ==
  ASSUME NEW T, NEW q \in Seq(T), NEW s \in Seq(T), NEW c \in T
  PROVE  q \o Append(s, c) = (q \o s) \o <<c>>
<1> DEFINE t == <<c>>
<1>1. t \in Seq(T)
  OBVIOUS
<1>2. Append(s, c) = s \o t
  BY AppendIsConcat, Zenon
<1> HIDE DEF t
<1>3. (q \o s) \o t = q \o (s \o t)
  BY <1>1, ConcatAssociative
<1> QED
  BY <1>2, <1>3 DEF t

(* The queue stands still.                                                   *)
LEMMA StillQuiet ==
  ASSUME RunInv, Ahead' = Ahead
  PROVE  Ahead' = Ahead \o <<>> /\ <<>> \in Seq(Commands) /\ Quiet(<<>>)
<1>1. Ahead \in Seq(Commands)
  BY QueueIs, Zenon
<1>2. Ahead \o <<>> = Ahead
  BY <1>1, ConcatEmptySeq
<1>3. <<>> \in Seq(Commands) /\ DOMAIN <<>> = {}
  OBVIOUS
<1> QED
  BY <1>2, <1>3 DEF Quiet

LEMMA RetireStep ==
  ASSUME StreamInv, Stream!Retire
  PROVE  StreamInv'
<1>1. /\ RunInv /\ QueueInv /\ RingInv /\ PoolInv /\ Believed
      /\ FenceInv /\ PlaceInv
  BY DEF StreamInv
<1> DEFINE segs == Tail(run.segments)
           f == Head(run.segments)
<1>2. /\ run.at = "retire" /\ Stream!Signalled(f)
      /\ run' = [run EXCEPT !.at = "op", !.segments = segs]
      /\ model' = model /\ UNCHANGED <<pools, lut, arena, ring, tape, lost>> /\ forwards' = forwards
      /\ device' = device
  BY DEF Stream!Retire, Stream!session
<1>3. DOMAIN run = RunFields
  BY <1>1 DEF RunInv
<1> HIDE DEF segs, f
<1>4. /\ DOMAIN run' = RunFields
      /\ run'.at = "op" /\ run'.segments = segs /\ run'.rec = run.rec /\ run'.fences = run.fences
      /\ run'.op = run.op /\ run'.wide = run.wide /\ run'.half = run.half
      /\ run'.cursor = run.cursor /\ run'.pending = run.pending /\ run'.words = run.words
      /\ run'.role = run.role /\ run'.ids = run.ids /\ run'.todo = run.todo
      /\ run'.windows = run.windows
  BY <1>2, <1>3 DEF RunFields
<1>5. Ahead' = Ahead \o <<>> /\ <<>> \in Seq(Commands) /\ Quiet(<<>>)
  <2>1. Ahead' = Ahead
    BY <1>2, <1>4 DEF Ahead
  <2> QED
    BY <1>1, <2>1, StillQuiet, Zenon
<1>6. QueueInv' /\ PoolInv' /\ Believed'
  BY <1>2, <1>4, <1>5, QuietStep
<1>7. RingInv'
  <2>1. /\ \A i \in DOMAIN device : i \in DOMAIN device' /\ device'[i] = device[i]
        /\ run'.at # "rotate" /\ run.at # "rotate" /\ ring' = ring
    BY <1>2, <1>4
  <2> QED
    BY <1>1, <1>4, <1>5, <2>1, QuietRing, Zenon
<1>8. /\ segs \in Seq(Nat) /\ Len(segs) <= MaxInflight
      /\ ToSet(run.segments) \subseteq ToSet(segs) \cup {f}
  <2> DEFINE s == run.segments
             n == Len(s)
  <2>1. s \in Seq(Nat) /\ n <= MaxInflight + 1 /\ MaxInflight \in Nat
    BY <1>1, <1>2, DrivesAreBounded DEF RunInv, FenceInv
  <2>2. segs = Tail(s) /\ f = Head(s)
    BY DEF segs, f
  <2> HIDE DEF s
  <2>4. s # <<>>
    BY <1>1, <1>2 DEF FenceInv, s
  <2>5. /\ segs \in Seq(Nat) /\ Len(segs) = n - 1 /\ n \in Nat
        /\ \A i \in 1 .. n - 1 : segs[i] = s[i + 1]
        /\ f = s[1]
    BY <2>1, <2>2, <2>4
  <2>6. DOMAIN segs = 1 .. n - 1 /\ DOMAIN s = 1 .. n
    BY <2>1, <2>5
  <2> HIDE DEF n
  <2>7. \A i \in 1 .. n : i = 1 \/ (i - 1 \in DOMAIN segs /\ segs[i - 1] = s[i])
    BY <2>5, <2>6
  <2>8. ToSet(s) \subseteq ToSet(segs) \cup {f}
    <3>1. \A i \in DOMAIN segs : segs[i] \in ToSet(segs)
      BY DEF ToSet
    <3>2. ASSUME NEW i \in DOMAIN s PROVE s[i] \in ToSet(segs) \cup {f}
      BY <2>5, <2>6, <2>7, <3>1
    <3> QED
      BY <3>2 DEF ToSet
  <2>9. Len(segs) <= MaxInflight
    BY <2>1, <2>5
  <2> QED
    BY <2>5, <2>8, <2>9 DEF s
<1>9. RunInv'
  <2>1. Stream!Pools' = Stream!Pools /\ Commands' = Commands
    BY <1>2, SameModel
  <2> QED
    BY <1>1, <1>2, <1>4, <1>8, <2>1 DEF RunInv, RunPlaces
<1>10. FenceInv'
  <2>1. FencesAre(device, run.fences, Stream!InFlight)
    BY <1>1 DEF FenceInv
  <2>2. Stream!InFlight \subseteq Stream!InFlight' \cup {f}
    BY <1>4, <1>8, StreamOperators DEF Stream!InFlight
  <2>3. \A i \in DOMAIN device : device[i].do = "fence" => device[i].id # f
    <3> SUFFICES ASSUME NEW i \in DOMAIN device, device[i].do = "fence", device[i].id = f PROVE FALSE
      OBVIOUS
    <3>1. device[i] \in Commands
      BY <1>1 DEF RunInv
    <3>2. device[i] = Stream!Fence(f)
      BY <1>1, <3>1, CommandIs DEF RunInv
    <3>3. Stream!Fence(f) \in ToSet(device)
      BY <3>2 DEF ToSet
    <3> QED
      BY <1>2, <3>3, StreamOperators DEF Stream!Signalled
  <2>4. FencesAre(device', run'.fences, Stream!InFlight')
    BY <1>2, <1>4, <2>1, <2>2, <2>3 DEF FencesAre
  <2> QED
    <3>1. Len(run'.segments) <= MaxInflight + (IF run'.at = "retire" THEN 1 ELSE 0)
      BY <1>4, <1>8, DrivesAreBounded
    <3> QED
      BY <1>1, <1>2, <1>4, <2>4, <3>1 DEF FenceInv
<1>11. DenseInv' /\ MoeInv'
  BY <1>4 DEF DenseInv, MoeInv, MoeStaging
<1>12. PlaceInv'
  BY <1>1, <1>2, <1>4, SameModel DEF PlaceInv
<1> QED
  BY <1>6, <1>7, <1>9, <1>10, <1>11, <1>12 DEF StreamInv

LEMMA OpIs ==
  ASSUME RunInv, Stream!InGraph
  PROVE  /\ Stream!Op \in Seq(Blocks) /\ Cardinality(Stream!Experts) <= NSlots
         /\ Stream!Experts \subseteq Blocks /\ IsFiniteSet(Stream!Experts)
         /\ Stream!Dense => Len(Stream!Op) = 1 /\ Stream!Op[1] \in Blocks
<1> DEFINE op == Stream!Op
           o == run.op
           ops == model.ops
<1>1. /\ ops \in Seq(Seq(Blocks)) /\ o \in Nat \ {0} /\ o <= Len(ops)
      /\ \A k \in DOMAIN ops : Cardinality(ToSet(ops[k])) <= NSlots
      /\ Stream!Dense => \A k \in DOMAIN ops : Len(ops[k]) = 1
  BY ModelIs DEF RunInv, Stream!InGraph
<1>2. op = ops[o]
  BY DEF Stream!Op
<1> HIDE DEF op, o, ops
<1>3. o \in DOMAIN ops
  BY <1>1
<1>4. /\ op \in Seq(Blocks) /\ Cardinality(ToSet(op)) <= NSlots
      /\ Stream!Dense => Len(op) = 1
  BY <1>1, <1>2, <1>3
<1>5. DOMAIN op = 1 .. Len(op) /\ Len(op) \in Nat /\ \A k \in DOMAIN op : op[k] \in Blocks
  BY <1>4
<1>6. ToSet(op) \subseteq Blocks
  BY <1>5 DEF ToSet
<1>7. IsFiniteSet(ToSet(op))
  <2>1. IsFiniteSet(1 .. Len(op))
    BY <1>5, FS_Interval
  <2> DEFINE S == 1 .. Len(op)
             R == ToSet(op)
  <2>2. op \in [S -> R] /\ \A x \in R : \E k \in S : op[k] = x
    BY <1>4, <1>5 DEF ToSet
  <2>3. op \in Surjection(S, R)
    BY <2>2 DEF Surjection
  <2> HIDE DEF S, R
  <2>4. IsFiniteSet(R)
    BY <2>1, <2>3, FS_Surjection DEF S
  <2> QED
    BY <2>4 DEF R
<1>8. Stream!Experts = ToSet(op)
  BY StreamOperators DEF Stream!Experts, op
<1>9. Stream!Dense => op[1] \in Blocks
  BY <1>4, <1>5
<1> QED
  BY <1>4, <1>6, <1>7, <1>8, <1>9 DEF op

LEMMA DenseOpStep ==
  ASSUME StreamInv, Stream!DenseOp
  PROVE  StreamInv'
<1>1. /\ RunInv /\ QueueInv /\ RingInv /\ PoolInv /\ Believed
      /\ FenceInv /\ PlaceInv
  BY DEF StreamInv
<1> DEFINE bar == Stream!Barrier
           rec == Append(run.rec, bar)
           op == Stream!Op
<1>2. /\ run.at = "op" /\ Stream!Dense /\ Stream!InGraph
      /\ run' = [run EXCEPT !.at = "stage", !.rec = rec, !.todo = op]
      /\ model' = model /\ UNCHANGED <<pools, lut, arena, ring, tape, lost>> /\ forwards' = forwards
      /\ device' = device
  BY DEF Stream!DenseOp, Stream!session
<1>3. DOMAIN run = RunFields
  BY <1>1 DEF RunInv
<1> HIDE DEF rec, op, bar
<1>4. /\ DOMAIN run' = RunFields
      /\ run'.at = "stage" /\ run'.segments = run.segments /\ run'.rec = rec
      /\ run'.fences = run.fences
      /\ run'.op = run.op /\ run'.wide = run.wide /\ run'.half = run.half
      /\ run'.cursor = run.cursor /\ run'.pending = run.pending /\ run'.words = run.words
      /\ run'.role = run.role /\ run'.ids = run.ids /\ run'.todo = op
      /\ run'.windows = run.windows
  BY <1>2, <1>3 DEF RunFields
<1>5. bar \in Commands /\ bar.do = "barrier"
  BY DEF bar, Commands, Stream!Barrier
<1>6. device \in Seq(Commands) /\ run.rec \in Seq(Commands)
  BY <1>1 DEF RunInv
<1>7. Added(Commands, run.rec, bar, rec)
  BY <1>5, <1>6, AppendAdds, Zenon DEF rec
<1>8. Ahead' = Ahead \o <<bar>>
  <2>1. Ahead' = device \o rec
    BY <1>2, <1>4 DEF Ahead
  <2>2. device \o Append(run.rec, bar) = (device \o run.rec) \o <<bar>>
    BY <1>5, <1>6, JoinAppend
  <2> QED
    BY <2>1, <2>2 DEF Ahead, rec
<1>9. <<bar>> \in Seq(Commands) /\ Quiet(<<bar>>)
  <2>1. One(Commands, bar, <<bar>>)
    BY <1>5, OneIs, Zenon
  <2> QED
    BY <1>5, <2>1 DEF One, Quiet
<1>10. QueueInv' /\ PoolInv' /\ Believed'
  BY <1>2, <1>4, <1>8, <1>9, QuietStep
<1>11. RingInv'
  <2>1. /\ \A i \in DOMAIN device : i \in DOMAIN device' /\ device'[i] = device[i]
        /\ run'.at # "rotate" /\ run.at # "rotate" /\ ring' = ring
    BY <1>2, <1>4
  <2> QED
    BY <1>1, <1>4, <1>8, <1>9, <2>1, QuietRing, Zenon
<1>12. op \in Seq(Blocks)
  BY <1>1, <1>2, OpIs DEF op
<1>13. RunInv'
  <2>1. Stream!Pools' = Stream!Pools /\ Commands' = Commands
    BY <1>2, SameModel
  <2>2. rec \in Seq(Commands)
    BY <1>7 DEF Added
  <2> QED
    BY <1>1, <1>2, <1>4, <1>12, <2>1, <2>2 DEF RunInv, RunPlaces
<1>14. rec # <<>> /\ rec[Len(rec)].do = "barrier" /\ \A i \in DOMAIN rec : rec[i].do # "fence"
  <2>1. \A i \in DOMAIN run.rec : run.rec[i].do # "fence"
    BY <1>1 DEF FenceInv
  <2> QED
    BY <1>5, <1>7, <2>1 DEF Added
<1>15. FenceInv'
  <2>1. Stream!InFlight' = Stream!InFlight
    BY <1>4 DEF Stream!InFlight
  <2> QED
    BY <1>1, <1>2, <1>4, <1>14, <2>1 DEF FenceInv
<1>16. DenseInv'
  <2>1. (Stream!InGraph' <=> Stream!InGraph) /\ Stream!Op' = op
    BY <1>2, <1>4 DEF Stream!InGraph, Stream!Op, op
  <2> QED
    BY <1>1, <1>2, <1>4, <1>14, <2>1 DEF DenseInv, PlaceInv
<1>17. MoeInv' /\ PlaceInv'
  BY <1>2, <1>4, SameModel DEF MoeInv, MoeStaging, PlaceInv
<1> QED
  BY <1>10, <1>11, <1>13, <1>15, <1>16, <1>17 DEF StreamInv

(* The segment is handed over and nothing more is recorded.                  *)
LEMMA HandOver ==
  ASSUME StreamInv, run.at = "op", model' = model, UNCHANGED <<pools, lut, arena, ring, tape, lost>>,
         forwards' = forwards, device' = device \o run.rec,
         NEW to \in {"sync", "finish"}, run' = [run EXCEPT !.at = to, !.rec = <<>>]
  PROVE  /\ RunInv' /\ QueueInv' /\ RingInv' /\ PoolInv' /\ Believed'
         /\ FenceInv' /\ DenseInv' /\ MoeInv'
<1>1. /\ RunInv /\ QueueInv /\ RingInv /\ PoolInv /\ Believed
      /\ FenceInv /\ PlaceInv
  BY DEF StreamInv
<1>3. DOMAIN run = RunFields
  BY <1>1 DEF RunInv
<1>4. /\ DOMAIN run' = RunFields
      /\ run'.at = to /\ run'.segments = run.segments /\ run'.rec = <<>>
      /\ run'.fences = run.fences
      /\ run'.op = run.op /\ run'.wide = run.wide /\ run'.half = run.half
      /\ run'.cursor = run.cursor /\ run'.pending = run.pending /\ run'.words = run.words
      /\ run'.role = run.role /\ run'.ids = run.ids /\ run'.todo = run.todo
      /\ run'.windows = run.windows
  BY <1>3 DEF RunFields
<1>5. device' = Ahead /\ Ahead \in Seq(Commands)
  <2>1. Ahead \in Seq(Commands)
    BY <1>1, QueueIs, Zenon
  <2> QED
    BY <2>1 DEF Ahead
<1>6. Ahead' = Ahead \o <<>> /\ <<>> \in Seq(Commands) /\ Quiet(<<>>)
  <2>1. Ahead' = Ahead \o <<>>
    BY <1>4, <1>5 DEF Ahead
  <2>2. Ahead \o <<>> = Ahead
    BY <1>5, ConcatEmptySeq
  <2>3. Ahead' = Ahead
    BY <2>1, <2>2
  <2> QED
    BY <1>1, <2>3, StillQuiet, Zenon
<1>7. QueueInv' /\ PoolInv' /\ Believed'
  BY <1>4, <1>6, QuietStep
<1>8. RingInv'
  <2>1. \A i \in DOMAIN device : i \in DOMAIN device' /\ device'[i] = device[i]
    BY <1>1, <1>5, QueueIs
  <2>2. run'.at # "rotate" /\ run.at # "rotate" /\ ring' = ring
    BY <1>4
  <2> QED
    BY <1>1, <1>4, <1>6, <2>1, <2>2, QuietRing, Zenon
<1>9. RunInv'
  <2>1. Stream!Pools' = Stream!Pools /\ Commands' = Commands
    BY SameModel
  <2>2. device' \in Seq(Commands)
    BY <1>5
  <2>3. to \in RunPlaces
    BY DEF RunPlaces
  <2> QED
    BY <1>1, <1>4, <2>1, <2>2, <2>3, SMTT(20) DEF RunInv
<1>10. FenceInv'
  <2>1. Stream!InFlight' = Stream!InFlight
    BY <1>4 DEF Stream!InFlight
  <2>2. FencesAre(device', run'.fences, Stream!InFlight')
    BY <1>1, <1>4, <1>5, <2>1, FencesAhead
  <2>3. \A i \in DOMAIN run'.rec : run'.rec[i].do # "fence"
    BY <1>4
  <2> QED
    BY <1>1, <1>4, <2>2, <2>3 DEF FenceInv
<1>11. DenseInv' /\ MoeInv'
  BY <1>4 DEF DenseInv, MoeInv, MoeStaging
<1> QED
  BY <1>7, <1>8, <1>9, <1>10, <1>11

LEMMA HandOverSteps ==
  ASSUME StreamInv, Stream!MoeSync \/ Stream!Finish
  PROVE  StreamInv'
<1>1. CASE Stream!MoeSync
  <2>1. /\ run.at = "op" /\ device' = device \o run.rec /\ ~Stream!Dense /\ Stream!InGraph
        /\ run' = [run EXCEPT !.at = "sync", !.rec = <<>>]
        /\ model' = model /\ UNCHANGED <<pools, lut, arena, ring, tape, lost>> /\ forwards' = forwards
    BY <1>1 DEF Stream!MoeSync, Stream!session
  <2>2. /\ RunInv' /\ QueueInv' /\ RingInv' /\ PoolInv' /\ Believed'
        /\ FenceInv' /\ DenseInv' /\ MoeInv'
    BY <2>1, HandOver
  <2>3. run'.at = "sync" /\ run'.op = run.op
    BY <2>1 DEF StreamInv, RunInv, RunFields
  <2>4. PlaceInv'
    BY <2>1, <2>3 DEF PlaceInv, Stream!InGraph, Stream!Dense
  <2> QED
    BY <2>2, <2>4 DEF StreamInv
<1>2. CASE Stream!Finish
  <2>1. /\ run.at = "op" /\ device' = device \o run.rec
        /\ run' = [run EXCEPT !.at = "finish", !.rec = <<>>]
        /\ model' = model /\ UNCHANGED <<pools, lut, arena, ring, tape, lost>> /\ forwards' = forwards
    BY <1>2 DEF Stream!Finish, Stream!session
  <2>2. /\ RunInv' /\ QueueInv' /\ RingInv' /\ PoolInv' /\ Believed'
        /\ FenceInv' /\ DenseInv' /\ MoeInv'
    BY <2>1, HandOver
  <2>3. run'.at = "finish"
    BY <2>1 DEF StreamInv, RunInv, RunFields
  <2>4. PlaceInv'
    BY <2>3 DEF PlaceInv
  <2> QED
    BY <2>2, <2>4 DEF StreamInv
<1> QED
  BY <1>1, <1>2

-----------------------------------------------------------------------------
(* A forward begins, or one is over, while the device has nothing to do.     *)
LEMMA FreshRun ==
  ASSUME StreamInv, device = <<>>, device' = <<>>, run.rec = <<>>, model' = model,
         UNCHANGED <<pools, lut, arena, ring, tape, lost>>, forwards' \in 0 .. MaxForwards,
         DOMAIN run' = RunFields, run'.at \in {"idle", "op"}, run'.wide \in BOOLEAN,
         run'.op = 1, run'.rec = <<>>, run'.fences = 0, run'.half = 0, run'.cursor = 0,
         run'.pending = [h \in {0, 1} |-> 0], run'.segments = <<>>, run'.words = 0,
         run'.role = 1, run'.ids = <<>>, run'.todo = <<>>, run'.windows = <<>>
  PROVE  StreamInv'
<1>1. RunInv /\ PoolInv /\ Believed
  BY DEF StreamInv
<1>2. Ahead = <<>> \o <<>> /\ Ahead' = <<>> \o <<>>
  BY DEF Ahead
<1>3. <<>> \o <<>> = <<>> /\ DOMAIN <<>> = {} /\ Len(<<>>) = 0
  <2>1. <<>> \in Seq(Commands)
    OBVIOUS
  <2> QED
    BY <2>1, ConcatEmptySeq
<1>4. Ahead = <<>> /\ Ahead' = <<>>
  BY <1>2, <1>3
<1>5. Ahead' = Ahead \o <<>> /\ <<>> \in Seq(Commands) /\ Quiet(<<>>)
  <2>1. Ahead' = Ahead
    BY <1>4
  <2> QED
    BY <1>1, <2>1, StillQuiet, Zenon
<1>6. Believed'
  <2>1. lost \subseteq lost' /\ \A p \in Stream!Pools : pools'[p].resident = pools[p].resident
    OBVIOUS
  <2> QED
    BY <1>1, <1>5, <2>1, QuietBelieved
<1>7. PoolInv'
  BY <1>1, SameModel DEF PoolInv
<1>8. RunInv'
  <2>1. Stream!Pools' = Stream!Pools /\ Commands' = Commands
    BY SameModel
  <2>2. run'.pending \in [{0, 1} -> Nat] /\ <<>> \in Seq(Nat) /\ <<>> \in Seq(Blocks)
    OBVIOUS
  <2>3. 0 \in 0 .. model.half /\ 0 \in 0 .. model.tape
    BY <1>1, ModelIs DEF RunInv
  <2> QED
    BY <1>1, <1>5, <2>1, <2>2, <2>3, SMTT(20) DEF RunInv, RunPlaces
<1>9. QueueInv'
  <2>1. Ahead' \in Seq(Commands)'
    BY <1>4, <1>5, SameModel
  <2> QED
    BY <1>3, <1>4, <2>1 DEF QueueInv, Apart, ReadsAreRight, WindowsAreOld
<1>10. RingInv'
  BY <1>3, <1>4 DEF RingInv
<1>11. FenceInv'
  <2>1. run'.pending[run'.half] = 0
    OBVIOUS
  <2> QED
    BY <1>3, <2>1, DrivesAreBounded DEF FenceInv, FencesAre
<1>12. DenseInv' /\ MoeInv' /\ PlaceInv'
  BY DEF DenseInv, MoeInv, MoeStaging, PlaceInv
<1> QED
  BY <1>6, <1>7, <1>8, <1>9, <1>10, <1>11, <1>12 DEF StreamInv

LEMMA FreshSteps ==
  ASSUME StreamInv, (\E wide \in BOOLEAN : Stream!Start(wide)) \/ Stream!Finished \/ Stream!Unwound
  PROVE  StreamInv'
<1>1. RunInv /\ FenceInv
  BY DEF StreamInv
<1>2. forwards \in 0 .. MaxForwards /\ MaxForwards \in Nat
  BY <1>1, DrivesAreBounded DEF RunInv
<1>3. CASE \E wide \in BOOLEAN : Stream!Start(wide)
  <2>1. PICK wide \in BOOLEAN : Stream!Start(wide)
    BY <1>3
  <2>2. /\ run.at = "idle" /\ model' = model /\ UNCHANGED <<pools, lut, arena, ring, tape, lost>>
        /\ device' = device /\ run' = [Stream!Idle EXCEPT !.at = "op", !.wide = wide]
        /\ forwards < MaxForwards /\ forwards' = forwards + 1
    BY <2>1 DEF Stream!Start, Stream!session
  <2>3. device = <<>> /\ run.rec = <<>>
    BY <1>1, <2>2 DEF FenceInv
  <2>4. forwards' \in 0 .. MaxForwards
    BY <1>2, <2>2
  <2>5. /\ DOMAIN run' = RunFields /\ run'.at = "op" /\ run'.wide = wide
        /\ run'.op = 1 /\ run'.rec = <<>> /\ run'.fences = 0 /\ run'.half = 0 /\ run'.cursor = 0
        /\ run'.pending = [h \in {0, 1} |-> 0] /\ run'.segments = <<>> /\ run'.words = 0
        /\ run'.role = 1 /\ run'.ids = <<>> /\ run'.todo = <<>> /\ run'.windows = <<>>
    BY <2>2 DEF Stream!Idle, Stream!Halves, RunFields
  <2> QED
    BY <2>2, <2>3, <2>4, <2>5, FreshRun
<1>4. CASE Stream!Finished \/ Stream!Unwound
  <2>1. /\ run.at \in {"finish", "unwind"} /\ model' = model
        /\ UNCHANGED <<pools, lut, arena, ring, tape, lost>>
        /\ device' = device /\ run' = Stream!Idle /\ forwards' = forwards
    BY <1>4 DEF Stream!Finished, Stream!Unwound, Stream!session
  <2>2. run.rec = <<>>
    BY <1>1, <2>1 DEF FenceInv
  <2>3. device = <<>>
    <3>1. CASE Stream!Finished
      BY <3>1 DEF Stream!Finished
    <3>2. CASE Stream!Unwound
      <4> SUFFICES ASSUME device # <<>> PROVE FALSE
        OBVIOUS
      <4>1. run.at = "unwind" /\ \A f \in Stream!InFlight : Stream!Signalled(f)
        BY <3>2 DEF Stream!Unwound
      <4> DEFINE n == Len(device)
      <4>2. n \in DOMAIN device /\ device[n] \in Commands /\ device[n].do = "fence"
        <5>1. device \in Seq(Commands)
          BY <1>1 DEF RunInv
        <5>2. device[n].do = "fence"
          BY <1>1, <4>1 DEF FenceInv
        <5> QED
          BY <5>1, <5>2
      <4> HIDE DEF n
      <4>3. device[n].id \in Stream!InFlight
        BY <1>1, <4>2 DEF FenceInv, FencesAre
      <4>4. device[n] = Stream!Fence(device[n].id)
        BY <1>1, <4>2, CommandIs DEF RunInv
      <4>5. device[n] \in ToSet(device)
        BY <4>2 DEF ToSet
      <4> QED
        BY <4>1, <4>3, <4>4, <4>5, StreamOperators DEF Stream!Signalled
    <3> QED
      BY <1>4, <3>1, <3>2
  <2>4. /\ DOMAIN run' = RunFields /\ run'.at = "idle" /\ run'.wide = FALSE
        /\ run'.op = 1 /\ run'.rec = <<>> /\ run'.fences = 0 /\ run'.half = 0 /\ run'.cursor = 0
        /\ run'.pending = [h \in {0, 1} |-> 0] /\ run'.segments = <<>> /\ run'.words = 0
        /\ run'.role = 1 /\ run'.ids = <<>> /\ run'.todo = <<>> /\ run'.windows = <<>>
    BY <2>1 DEF Stream!Idle, Stream!Halves, RunFields
  <2>5. forwards' \in 0 .. MaxForwards
    BY <1>2, <2>1
  <2> QED
    BY <2>1, <2>2, <2>3, <2>4, <2>5, FreshRun
<1> QED
  BY <1>3, <1>4

-----------------------------------------------------------------------------
LEMMA RotateStep ==
  ASSUME StreamInv, Stream!Rotate
  PROVE  StreamInv'
<1>1. /\ RunInv /\ QueueInv /\ RingInv /\ PoolInv /\ Believed
      /\ FenceInv /\ PlaceInv /\ DenseInv /\ MoeInv
  BY DEF StreamInv
<1> DEFINE f == run.fences + 1
           fen == Stream!Fence(f)
           d == device'
           h == run.half
<1>2. /\ run.at = "stage" /\ d = Stream!Submitted(f)
      /\ run' = [run EXCEPT !.at = "rotate", !.rec = <<>>, !.fences = f,
                            !.pending[h] = f, !.half = 1 - h, !.cursor = 0]
      /\ model' = model /\ UNCHANGED <<pools, lut, arena, ring, tape, lost>> /\ forwards' = forwards
  BY DEF Stream!Rotate, Stream!session
<1>3. DOMAIN run = RunFields /\ h \in {0, 1} /\ run.pending \in [{0, 1} -> Nat]
  BY <1>1 DEF RunInv
<1> HIDE DEF f, fen, d, h
<1>4. /\ DOMAIN run' = RunFields
      /\ run'.at = "rotate" /\ run'.rec = <<>> /\ run'.fences = f /\ run'.segments = run.segments
      /\ run'.op = run.op /\ run'.wide = run.wide /\ run'.half = 1 - h
      /\ run'.cursor = 0 /\ run'.pending = [run.pending EXCEPT ![h] = f] /\ run'.words = run.words
      /\ run'.role = run.role /\ run'.ids = run.ids /\ run'.todo = run.todo
      /\ run'.windows = run.windows
  BY <1>2, <1>3 DEF RunFields
<1>5. /\ d = Ahead \o <<fen>> /\ fen \in Commands /\ fen.do = "fence"
      /\ f \in Nat \ {0} /\ d \in Seq(Commands) /\ d # <<>> /\ Len(d) \in DOMAIN d /\ d[Len(d)] = fen
      /\ \A i \in DOMAIN device : i \in DOMAIN d /\ d[i] = device[i]
      /\ \A i \in DOMAIN Ahead : i \in DOMAIN d /\ d[i] = Ahead[i] /\ i < Len(d)
      /\ \A R : Stream!InFlight \cup {f} \subseteq R => FencesAre(d, f, R)
  <2>1. f = run.fences + 1 /\ fen = Stream!Fence(f) /\ fen.do = "fence"
    BY DEF f, fen, Stream!Fence
  <2> QED
    BY <1>1, <1>2, <2>1, SubmittedIs
<1>6. Ahead \in Seq(Commands)
  BY <1>1, QueueIs, Zenon
<1>7. Ahead' = Ahead \o <<fen>>
  <2>1. Ahead' = d \o <<>>
    BY <1>4 DEF Ahead, d
  <2> QED
    BY <1>5, <2>1, ConcatEmptySeq
<1>8. <<fen>> \in Seq(Commands) /\ Quiet(<<fen>>)
  <2>1. One(Commands, fen, <<fen>>)
    BY <1>5, OneIs, Zenon
  <2> QED
    BY <1>5, <2>1 DEF One, Quiet
<1>9. QueueInv' /\ PoolInv' /\ Believed'
  BY <1>2, <1>4, <1>7, <1>8, QuietStep
<1>10. h \in {0, 1} /\ 1 - h \in {0, 1} /\ 1 - h # h /\ run'.pending[h] = f
       /\ run'.pending[1 - h] = run.pending[1 - h] /\ run.pending[h] = 0
       /\ run'.pending \in [{0, 1} -> Nat]
  <2>1. run.pending[h] = 0
    BY <1>1, <1>2 DEF FenceInv, h
  <2> QED
    BY <1>3, <1>4, <1>5, <2>1
<1>11. d = Ahead'
  BY <1>5, <1>7
<1>12. RingInv'
  <2> SUFFICES ASSUME NEW i \in DOMAIN d, d[i].do = "copy"
               PROVE  /\ ring[d[i].from] = d[i].blk
                      /\ \E j \in DOMAIN d : j > i /\ d[j] = Stream!Fence(run'.pending[d[i].from[1]])
    BY <1>2, <1>4, <1>11 DEF RingInv, Stream!Fence, d
  <2>1. DOMAIN d = 1 .. Len(d) /\ Len(d) \in Nat
    BY <1>5
  <2>2. i \in DOMAIN Ahead /\ d[i] = Ahead[i] /\ i < Len(d)
    <3>1. Added(Commands, Ahead, fen, d)
      BY <1>5, <1>6, JoinAdds
    <3>2. i # Len(d)
      BY <1>5
    <3>3. i \in DOMAIN Ahead
      BY <3>1, <3>2, <2>1 DEF Added
    <3> QED
      BY <1>5, <3>3
  <2> DEFINE x == d[i].from
  <2>3. ring[x] = d[i].blk
    BY <1>1, <2>2 DEF RingInv
  <2>4. x[1] \in {0, 1}
    <3>1. Ahead[i] \in Commands
      BY <1>1, <2>2, QueueIs
    <3>2. Ahead[i] \in Copying
      BY <1>1, <2>2, <3>1, CommandIs DEF RunInv
    <3> QED
      BY <2>2, <3>2, CopyIs
  <2>5. x[1] # h => \E j \in DOMAIN device : j > i /\ device[j] = Stream!Fence(run.pending[x[1]])
    BY <1>1, <2>2 DEF RingInv, h
  <2> HIDE DEF x
  <2>6. CASE x[1] = h
    <3>1. Len(d) \in DOMAIN d /\ Len(d) > i /\ d[Len(d)] = Stream!Fence(run'.pending[x[1]])
      BY <1>5, <1>10, <2>1, <2>2, <2>6 DEF fen
    <3> QED
      BY <2>3, <3>1 DEF x
  <2>7. CASE x[1] # h
    <3>1. x[1] = 1 - h
      BY <1>10, <2>4, <2>7
    <3>2. PICK j \in DOMAIN device : j > i /\ device[j] = Stream!Fence(run.pending[x[1]])
      BY <2>5, <2>7
    <3>3. j \in DOMAIN d /\ d[j] = Stream!Fence(run'.pending[x[1]])
      BY <1>5, <1>10, <3>1, <3>2
    <3> QED
      BY <2>3, <3>2, <3>3 DEF x
  <2> QED
    BY <2>6, <2>7
<1>13. RunInv'
  <2>1. Stream!Pools' = Stream!Pools /\ Commands' = Commands
    BY <1>2, SameModel
  <2>2. device' \in Seq(Commands) /\ <<>> \in Seq(Commands) /\ f \in Nat
    BY <1>5 DEF d
  <2>3. 0 \in 0 .. model.half
    BY <1>1, ModelIs DEF RunInv
  <2> QED
    BY <1>1, <1>2, <1>4, <1>10, <2>1, <2>2, <2>3 DEF RunInv, RunPlaces
<1>14. FenceInv'
  <2>1. Stream!InFlight \cup {f} \subseteq Stream!InFlight' \cup {0}
    <3>1. \A g \in {0, 1} : g = h \/ g = 1 - h
      BY <1>10
    <3> QED
      BY <1>4, <1>10, <3>1, StreamOperators DEF Stream!InFlight
  <2>2. FencesAre(d, f, Stream!InFlight' \cup {0})
    BY <1>5, <2>1
  <2>3. \A i \in DOMAIN d : d[i].do = "fence" => d[i].id # 0
    <3> SUFFICES ASSUME NEW i \in DOMAIN d, d[i].do = "fence" PROVE d[i].id # 0
      OBVIOUS
    <3>1. d[i] \in Commands
      BY <1>5
    <3>2. d[i] \in Fencing
      BY <1>1, <3>1, CommandIs DEF RunInv
    <3> QED
      BY <3>2 DEF Fencing
  <2>4. FencesAre(device', run'.fences, Stream!InFlight')
    BY <1>4, <2>2, <2>3 DEF FencesAre, d
  <2>5. DOMAIN run'.rec = {}
    BY <1>4
  <2>6. device'[Len(device')].do = "fence"
    BY <1>5 DEF d
  <2> QED
    BY <1>1, <1>2, <1>4, <2>4, <2>5, <2>6 DEF FenceInv
<1>15. (Stream!InGraph' <=> Stream!InGraph) /\ Stream!Op' = Stream!Op /\ Stream!Pools' = Stream!Pools
       /\ Stream!Experts' = Stream!Experts /\ (Stream!Dense' <=> Stream!Dense)
  BY <1>2, <1>4, SameModel DEF Stream!InGraph, Stream!Op, Stream!Experts
<1>16. DenseInv'
  BY <1>1, <1>2, <1>4, <1>15 DEF DenseInv
<1>17. MoeInv'
  BY <1>1, <1>2, <1>4, <1>15 DEF MoeInv, MoeStaging, InBatchOf
<1>18. PlaceInv'
  BY <1>4 DEF PlaceInv
<1> QED
  BY <1>9, <1>12, <1>13, <1>14, <1>16, <1>17, <1>18 DEF StreamInv

LEMMA RotatedStep ==
  ASSUME StreamInv, Stream!Rotated
  PROVE  StreamInv'
<1>1. /\ RunInv /\ QueueInv /\ RingInv /\ PoolInv /\ Believed
      /\ FenceInv /\ PlaceInv /\ DenseInv /\ MoeInv
  BY DEF StreamInv
<1> DEFINE bar == Stream!Barrier
           h == run.half
           f == run.pending[h]
<1>2. /\ run.at = "rotate" /\ Stream!Signalled(f) /\ device' = device
      /\ run' = [run EXCEPT !.at = "stage", !.pending[h] = 0, !.rec = <<bar>>]
      /\ model' = model /\ UNCHANGED <<pools, lut, arena, ring, tape, lost>> /\ forwards' = forwards
  BY DEF Stream!Rotated, Stream!session
<1>3. DOMAIN run = RunFields /\ h \in {0, 1} /\ run.pending \in [{0, 1} -> Nat] /\ run.rec = <<>>
      /\ device \in Seq(Commands) /\ f = run.pending[h]
  BY <1>1, <1>2 DEF RunInv, FenceInv
<1> HIDE DEF f, bar, h
<1>4. /\ DOMAIN run' = RunFields
      /\ run'.at = "stage" /\ run'.rec = <<bar>> /\ run'.fences = run.fences
      /\ run'.segments = run.segments
      /\ run'.op = run.op /\ run'.wide = run.wide /\ run'.half = h
      /\ run'.cursor = run.cursor /\ run'.pending = [run.pending EXCEPT ![h] = 0]
      /\ run'.words = run.words
      /\ run'.role = run.role /\ run'.ids = run.ids /\ run'.todo = run.todo
      /\ run'.windows = run.windows
  BY <1>2, <1>3 DEF RunFields, h
<1>5. bar \in Commands /\ bar.do = "barrier"
  BY DEF bar, Commands, Stream!Barrier
<1>6. One(Commands, bar, <<bar>>)
  BY <1>5, OneIs, Zenon
<1> DEFINE t == <<bar>>
<1> HIDE DEF t
<1>7. t \in Seq(Commands) /\ DOMAIN t = {1} /\ t[1] = bar /\ Len(t) = 1 /\ t # <<>>
  BY <1>6 DEF One, t
<1>8. Quiet(t)
  BY <1>5, <1>7 DEF Quiet
<1>9. Ahead = device /\ Ahead' = device \o t
  <2>1. Ahead = device \o <<>> /\ Ahead' = device \o t
    BY <1>2, <1>3, <1>4 DEF Ahead, t
  <2> QED
    BY <1>3, <2>1, ConcatEmptySeq
<1>10. QueueInv' /\ PoolInv' /\ Believed'
  BY <1>2, <1>4, <1>7, <1>8, <1>9, QuietStep
<1>11. \A i \in DOMAIN device : device[i] # Stream!Fence(f)
  BY <1>2, StreamOperators DEF Stream!Signalled, ToSet
<1>12. h \in {0, 1} /\ run'.pending[h] = 0 /\ run'.pending \in [{0, 1} -> Nat]
       /\ \A g \in {0, 1} : g # h => run'.pending[g] = run.pending[g]
  BY <1>3, <1>4
<1>13. RingInv'
  <2> DEFINE m == Len(device)
             r == Ahead'
  <2>1. /\ m \in Nat /\ DOMAIN device = 1 .. m /\ DOMAIN r = 1 .. m + 1
        /\ \A i \in 1 .. m : r[i] = device[i]
        /\ r[m + 1] = bar
    <3>1. Added(Commands, device, bar, device \o <<bar>>)
      BY <1>3, <1>5, JoinAdds, Zenon
    <3>2. Added(Commands, device, bar, r)
      BY <1>9, <3>1 DEF t
    <3> HIDE DEF r
    <3> QED
      BY <3>2 DEF Added
  <2> SUFFICES ASSUME NEW i \in DOMAIN r, r[i].do = "copy"
               PROVE  /\ ring[r[i].from] = r[i].blk
                      /\ r[i].from[1] # h
                      /\ \E j \in DOMAIN device :
                           j > i /\ device[j] = Stream!Fence(run'.pending[r[i].from[1]])
    BY <1>2, <1>4 DEF RingInv, Stream!Fence
  <2> HIDE DEF m, r
  <2>2. i \in DOMAIN Ahead /\ r[i] = Ahead[i]
    BY <1>5, <1>9, <2>1
  <2> DEFINE x == Ahead[i].from
  <2>3. /\ ring[x] = Ahead[i].blk
        /\ \E j \in DOMAIN device : j > i /\ device[j] = Stream!Fence(run.pending[x[1]])
    BY <1>1, <1>2, <2>2 DEF RingInv
  <2>4. x[1] \in {0, 1}
    <3>1. Ahead[i] \in Commands
      BY <1>1, <2>2, QueueIs
    <3>2. Ahead[i] \in Copying
      BY <1>1, <2>2, <3>1, CommandIs DEF RunInv
    <3> QED
      BY <3>2, CopyIs
  <2> HIDE DEF x
  <2>5. x[1] # h
    BY <1>3, <1>11, <2>3
  <2>6. run'.pending[x[1]] = run.pending[x[1]]
    BY <1>12, <2>4, <2>5
  <2> QED
    BY <2>2, <2>3, <2>5, <2>6 DEF x
<1>14. RunInv'
  <2>1. Stream!Pools' = Stream!Pools /\ Commands' = Commands
    BY <1>2, SameModel
  <2>2. run'.rec \in Seq(Commands)
    BY <1>4, <1>7 DEF t
  <2>3. run'.half = run.half
    BY <1>4 DEF h
  <2> QED
    BY <1>1, <1>2, <1>4, <1>12, <2>1, <2>2, <2>3 DEF RunInv, RunPlaces
<1>15. FenceInv'
  <2>1. Stream!InFlight \subseteq Stream!InFlight' \cup {f}
    <3>1. run.pending[h] = f
      BY DEF f
    <3> QED
      BY <1>4, <1>12, <3>1, StreamOperators DEF Stream!InFlight
  <2>2. \A i \in DOMAIN device : device[i].do = "fence" => device[i].id # f
    <3> SUFFICES ASSUME NEW i \in DOMAIN device, device[i].do = "fence" PROVE device[i].id # f
      OBVIOUS
    <3>1. device[i] \in Commands
      BY <1>3
    <3>2. device[i] = Stream!Fence(device[i].id)
      BY <1>1, <3>1, CommandIs DEF RunInv
    <3> QED
      BY <1>11, <3>2
  <2>3. FencesAre(device', run'.fences, Stream!InFlight')
    BY <1>1, <1>2, <1>4, <2>1, <2>2 DEF FenceInv, FencesAre
  <2>4. \A i \in DOMAIN run'.rec : run'.rec[i].do # "fence"
    BY <1>4, <1>5, <1>7 DEF t
  <2>5. run'.pending[run'.half] = 0
    BY <1>4, <1>12
  <2> QED
    BY <1>1, <1>2, <1>4, <2>3, <2>4, <2>5 DEF FenceInv
<1>16. (Stream!InGraph' <=> Stream!InGraph) /\ Stream!Op' = Stream!Op /\ Stream!Pools' = Stream!Pools
       /\ Stream!Experts' = Stream!Experts /\ (Stream!Dense' <=> Stream!Dense)
  BY <1>2, <1>4, SameModel DEF Stream!InGraph, Stream!Op, Stream!Experts
<1>17. DenseInv'
  <2>1. run'.rec # <<>> /\ run'.rec[Len(run'.rec)].do = "barrier"
    BY <1>4, <1>5, <1>7 DEF t
  <2> QED
    BY <1>1, <1>2, <1>4, <1>16, <2>1 DEF DenseInv
<1>18. MoeInv'
  <2>1. MoeStaging'
    BY <1>1, <1>2, <1>4, <1>16 DEF MoeInv, MoeStaging, InBatchOf
  <2>2. \E m \in DOMAIN run'.rec : StagedSince(run.rec, m)'
    <3>1. 1 \in DOMAIN t /\ t[1].do = "barrier" /\ \A k \in 1 + 1 .. Len(t) : FALSE
      BY <1>5, <1>7
    <3>2. run'.rec = t
      BY <1>4 DEF t
    <3> QED
      BY <3>1, <3>2 DEF StagedSince
  <2> QED
    BY <2>1, <2>2 DEF MoeInv
<1>19. PlaceInv'
  BY <1>4 DEF PlaceInv
<1> QED
  BY <1>10, <1>13, <1>14, <1>15, <1>17, <1>18, <1>19 DEF StreamInv

-----------------------------------------------------------------------------
(* A batch is opened in pool i.                                              *)
Opened(P, ps, i, qs) ==
  /\ DOMAIN qs = P /\ \A p \in P : Sound(qs[p]) /\ EpochsBelow(qs[p])
  /\ \A p \in P : qs[p].resident = ps[p].resident
  /\ \A p \in P : p # i => qs[p] = ps[p]
  /\ qs[i].cur > 0 /\ \A b \in Blocks : qs[i].epoch[b] # qs[i].cur

LEMMA OpenPool ==
  ASSUME NEW P, NEW ps, DOMAIN ps = P, \A p \in P : Sound(ps[p]) /\ EpochsBelow(ps[p]), NEW i \in P
  PROVE  Opened(P, ps, i, [ps EXCEPT ![i] = BeginBatch(ps[i])])
<1> DEFINE q == BeginBatch(ps[i])
<1>1. /\ Sound(q) /\ EpochsBelow(q) /\ q.resident = ps[i].resident
      /\ q.cur > 0 /\ \A b \in Blocks : q.epoch[b] # q.cur
  BY OpenDoes
<1> HIDE DEF q
<1> DEFINE qs == [ps EXCEPT ![i] = BeginBatch(ps[i])]
<1>2. qs = [ps EXCEPT ![i] = q]
  BY DEF q
<1> HIDE DEF qs
<1>3. DOMAIN qs = P /\ qs[i] = q /\ \A p \in P : p # i => qs[p] = ps[p]
  BY <1>2
<1>4. \A p \in P : p = i \/ p # i
  OBVIOUS
<1>5. Opened(P, ps, i, qs)
  BY <1>1, <1>3, <1>4 DEF Opened
<1> QED
  BY <1>5 DEF qs

(* An op enters the staging of its first role.                               *)
LEMMA EnterStep ==
  ASSUME StreamInv, ~Stream!Dense, Stream!InGraph, model' = model,
         UNCHANGED <<lut, arena, ring, tape, lost>>,
         NEW ps, DOMAIN ps = Stream!Pools,
         \A p \in Stream!Pools :
           Sound(ps[p]) /\ EpochsBelow(ps[p]) /\ ps[p].resident = pools[p].resident,
         pools' = [ps EXCEPT ![1] = BeginBatch(ps[1])],
         NEW xs, ToSet(xs) \subseteq Stream!Experts,
         xs = <<>> => \A p \in Stream!Pools, b \in Stream!Experts : IsResident(pools[p], b),
         Ahead' = Ahead \o <<Stream!Barrier>>,
         run'.at = "stage", run'.op = run.op, run'.role = 1, run'.ids = xs, run'.todo = xs,
         run'.windows = <<>>,
         NEW m, m \in DOMAIN run'.rec, m = Len(run'.rec), run'.rec[m].do = "barrier"
  PROVE  PoolInv' /\ Believed' /\ DenseInv' /\ MoeInv' /\ PlaceInv'
<1>1. RunInv /\ PoolInv /\ Believed
  BY DEF StreamInv
<1>2. 1 \in Stream!Pools
  BY <1>1, ModelIs DEF RunInv
<1>3. /\ Stream!Pools' = Stream!Pools /\ (Stream!Dense' <=> Stream!Dense)
      /\ (Stream!InGraph' <=> Stream!InGraph) /\ Stream!Experts' = Stream!Experts
  BY SameModel DEF Stream!InGraph, Stream!Op, Stream!Experts
<1>4. /\ DOMAIN pools' = Stream!Pools
      /\ \A p \in Stream!Pools : Sound(pools'[p]) /\ EpochsBelow(pools'[p])
      /\ \A p \in Stream!Pools : pools'[p].resident = pools[p].resident
      /\ pools'[1].cur > 0 /\ \A b \in Blocks : pools'[1].epoch[b] # pools'[1].cur
  <2>1. Opened(Stream!Pools, ps, 1, pools')
    BY <1>2, OpenPool, Zenon
  <2> QED
    BY <2>1 DEF Opened
<1>5. PoolInv'
  BY <1>3, <1>4 DEF PoolInv
<1>6. Believed'
  <2> DEFINE t == <<Stream!Barrier>>
  <2>1. Stream!Barrier \in Commands /\ Stream!Barrier.do = "barrier"
    BY DEF Commands, Stream!Barrier
  <2>2. One(Commands, Stream!Barrier, t)
    BY <2>1, OneIs, Zenon
  <2>3. Ahead' = Ahead \o t
    OBVIOUS
  <2> HIDE DEF t
  <2>4. t \in Seq(Commands) /\ Quiet(t)
    BY <2>1, <2>2 DEF One, Quiet
  <2>5. lost \subseteq lost'
    OBVIOUS
  <2> QED
    BY <1>1, <1>4, <2>3, <2>4, <2>5, QuietBelieved
<1>7. DenseInv' /\ PlaceInv'
  BY <1>3 DEF DenseInv, PlaceInv
<1>8. MoeStaging'
  <2>1. \A p \in Stream!Pools, b \in Blocks : IsResident(pools'[p], b) <=> IsResident(pools[p], b)
    BY <1>4 DEF IsResident
  <2>2. Stream!Experts \subseteq Blocks
    BY <1>1, OpIs
  <2>3. \A b \in Blocks : ~InBatchOf(1, b)'
    BY <1>4 DEF InBatchOf
  <2>4. xs = <<>> => \A p \in Stream!Pools, b \in Stream!Experts : IsResident(pools'[p], b)
    BY <2>1, <2>2
  <2>5. Len(<<>>) = 1 - 1 /\ \A p \in 1 .. 1 - 1 : FALSE
    OBVIOUS
  <2> QED
    BY <1>2, <1>3, <1>4, <2>3, <2>4, <2>5 DEF MoeStaging
<1>9. StagedSince(run.rec, m)'
  <2>1. m \in Nat \/ \A k \in m + 1 .. m : FALSE
    OBVIOUS
  <2>2. \A k \in m + 1 .. m : FALSE
    OBVIOUS
  <2> QED
    BY <2>2 DEF StagedSince
<1> QED
  BY <1>5, <1>6, <1>7, <1>8, <1>9 DEF MoeInv

(* At the head of the op, behind what the segment holds already.             *)
LEMMA EnterHere ==
  ASSUME StreamInv, ~Stream!Dense, Stream!InGraph, run.at = "op",
         NEW ps, DOMAIN ps = Stream!Pools,
         \A p \in Stream!Pools :
           Sound(ps[p]) /\ EpochsBelow(ps[p]) /\ ps[p].resident = pools[p].resident,
         NEW xs \in Seq(Blocks), ToSet(xs) \subseteq Stream!Experts,
         xs = <<>> => \A p \in Stream!Pools, b \in Stream!Experts : IsResident(pools[p], b),
         Stream!Enter(ps, run.rec, xs)
  PROVE  StreamInv'
<1>1. /\ RunInv /\ QueueInv /\ RingInv /\ PoolInv /\ Believed
      /\ FenceInv /\ PlaceInv
  BY DEF StreamInv
<1> DEFINE bar == Stream!Barrier
           rec == Append(run.rec, bar)
<1>2. /\ run' = [run EXCEPT !.at = "stage", !.rec = rec, !.role = 1,
                            !.ids = xs, !.todo = xs, !.windows = <<>>]
      /\ model' = model /\ UNCHANGED <<lut, arena, ring, tape, lost>> /\ forwards' = forwards
      /\ device' = device /\ pools' = [ps EXCEPT ![1] = BeginBatch(ps[1])]
  BY StreamOperators DEF Stream!Enter
<1>3. DOMAIN run = RunFields
  BY <1>1 DEF RunInv
<1> HIDE DEF rec, bar
<1>4. /\ DOMAIN run' = RunFields
      /\ run'.at = "stage" /\ run'.segments = run.segments /\ run'.rec = rec
      /\ run'.fences = run.fences
      /\ run'.op = run.op /\ run'.wide = run.wide /\ run'.half = run.half
      /\ run'.cursor = run.cursor /\ run'.pending = run.pending /\ run'.words = run.words
      /\ run'.role = 1 /\ run'.ids = xs /\ run'.todo = xs /\ run'.windows = <<>>
  BY <1>2, <1>3 DEF RunFields
<1>5. bar \in Commands /\ bar.do = "barrier"
  BY DEF bar, Commands, Stream!Barrier
<1>6. device \in Seq(Commands) /\ run.rec \in Seq(Commands)
  BY <1>1 DEF RunInv
<1>7. Added(Commands, run.rec, bar, rec)
  BY <1>5, <1>6, AppendAdds, Zenon DEF rec
<1>8. Ahead' = Ahead \o <<bar>>
  <2>1. Ahead' = device \o rec
    BY <1>2, <1>4 DEF Ahead
  <2>2. device \o Append(run.rec, bar) = (device \o run.rec) \o <<bar>>
    BY <1>5, <1>6, JoinAppend
  <2> QED
    BY <2>1, <2>2 DEF Ahead, rec
<1>9. <<bar>> \in Seq(Commands) /\ Quiet(<<bar>>)
  <2>1. One(Commands, bar, <<bar>>)
    BY <1>5, OneIs, Zenon
  <2> QED
    BY <1>5, <2>1 DEF One, Quiet
<1>10. QueueInv'
  BY <1>1, <1>2, <1>4, <1>8, <1>9, QuietQueue
<1>11. RingInv'
  <2>1. /\ \A i \in DOMAIN device : i \in DOMAIN device' /\ device'[i] = device[i]
        /\ run'.at # "rotate" /\ run.at # "rotate" /\ ring' = ring
    BY <1>2, <1>4
  <2> QED
    BY <1>1, <1>4, <1>8, <1>9, <2>1, QuietRing, Zenon
<1>12. RunInv'
  <2>1. Stream!Pools' = Stream!Pools /\ Commands' = Commands
    BY <1>2, SameModel
  <2>2. rec \in Seq(Commands) /\ <<>> \in Seq(Nat)
    BY <1>7 DEF Added
  <2> QED
    BY <1>1, <1>2, <1>4, <2>1, <2>2, SMTT(20) DEF RunInv, RunPlaces
<1>13. Len(rec) \in DOMAIN rec /\ rec[Len(rec)].do = "barrier"
       /\ rec # <<>> /\ \A i \in DOMAIN rec : rec[i].do # "fence"
  <2>1. \A i \in DOMAIN run.rec : run.rec[i].do # "fence"
    BY <1>1 DEF FenceInv
  <2> QED
    BY <1>5, <1>7, <2>1, AddedLast
<1>14. FenceInv'
  <2>1. Stream!InFlight' = Stream!InFlight
    BY <1>4 DEF Stream!InFlight
  <2> QED
    BY <1>1, <1>2, <1>4, <1>13, <2>1 DEF FenceInv
<1>15. PoolInv' /\ Believed' /\ DenseInv' /\ MoeInv' /\ PlaceInv'
  <2> DEFINE m == Len(run'.rec)
  <2>1. m \in DOMAIN run'.rec /\ m = Len(run'.rec) /\ run'.rec[m].do = "barrier"
    BY <1>4, <1>13
  <2>2. Ahead' = Ahead \o <<Stream!Barrier>>
    BY <1>8 DEF bar
  <2> HIDE DEF m
  <2> QED
    BY <1>2, <1>4, <2>1, <2>2, EnterStep, ZenonT(40)
<1> QED
  BY <1>10, <1>11, <1>12, <1>14, <1>15 DEF StreamInv

LEMMA MoeWideStep ==
  ASSUME StreamInv, Stream!MoeWide
  PROVE  StreamInv'
<1>1. RunInv /\ PoolInv
  BY DEF StreamInv
<1>2. ~Stream!Dense /\ Stream!InGraph /\ run.at = "op" /\ Stream!Enter(pools, run.rec, Stream!Op)
  BY DEF Stream!MoeWide
<1> DEFINE xs == Stream!Op
           ps == pools
<1>3. xs \in Seq(Blocks)
  BY <1>1, <1>2, OpIs
<1>4. Stream!Experts = ToSet(xs)
  BY StreamOperators DEF Stream!Experts
<1>5. /\ DOMAIN ps = Stream!Pools
      /\ \A p \in Stream!Pools :
           Sound(ps[p]) /\ EpochsBelow(ps[p]) /\ ps[p].resident = pools[p].resident
  BY <1>1 DEF PoolInv
<1> HIDE DEF xs
<1>6. xs = <<>> => Stream!Experts = {}
  BY <1>4 DEF ToSet
<1>7. Stream!Enter(ps, run.rec, xs)
  BY <1>2 DEF xs
<1> HIDE DEF ps
<1> QED
  BY <1>2, <1>3, <1>4, <1>5, <1>6, <1>7, EnterHere

LEMMA MoeInlineStep ==
  ASSUME StreamInv, Stream!MoeInline
  PROVE  StreamInv'
<1>1. RunInv /\ PoolInv
  BY DEF StreamInv
<1> DEFINE xs == <<>>
           ps == [p \in Stream!Pools |-> Stream!TouchAll(pools[p])]
<1>2. /\ ~Stream!Dense /\ Stream!InGraph /\ run.at = "op"
      /\ Stream!AllResident /\ Stream!Enter(ps, run.rec, xs)
  BY DEF Stream!MoeInline
<1>3. Stream!Op \in Seq(Blocks) /\ Stream!Experts \subseteq Blocks
  BY <1>1, <1>2, OpIs
<1>4. \A p \in Stream!Pools, b \in Stream!Experts : IsResident(pools[p], b)
  BY <1>2, StreamOperators DEF Stream!AllResident, ResidentBlocks
<1>5. \A k \in DOMAIN Stream!Op : Stream!Op[k] \in Stream!Experts
  BY StreamOperators DEF Stream!Experts, ToSet
<1>6. ASSUME NEW p \in Stream!Pools
      PROVE  LET r == Stream!TouchAll(pools[p])
             IN  Sound(r) /\ EpochsBelow(r) /\ r.resident = pools[p].resident
  <2> DEFINE q == pools[p]
  <2>1. Sound(q) /\ EpochsBelow(q)
    BY <1>1 DEF PoolInv
  <2>2. \A k \in DOMAIN Stream!Op : IsResident(q, Stream!Op[k])
    BY <1>4, <1>5
  <2> HIDE DEF q
  <2>3. LET r == Stream!TouchAll(q)
        IN  /\ Sound(r) /\ EpochsBelow(r)
            /\ r.resident = q.resident /\ r.cur = q.cur + 1
    BY <1>3, <2>1, <2>2, TouchAllDoes
  <2> QED
    BY <2>3 DEF q
<1>7. /\ DOMAIN ps = Stream!Pools
      /\ \A p \in Stream!Pools :
           Sound(ps[p]) /\ EpochsBelow(ps[p]) /\ ps[p].resident = pools[p].resident
  BY <1>6
<1>8. xs \in Seq(Blocks) /\ ToSet(xs) \subseteq Stream!Experts
  BY DEF ToSet
<1> HIDE DEF ps, xs
<1> QED
  BY <1>2, <1>4, <1>7, <1>8, EnterHere

(* A queue of barriers.                                                      *)
LEMMA QuietWhole ==
  ASSUME Ahead' \in Seq(Commands)', Quiet(Ahead)'
  PROVE  QueueInv' /\ RingInv'
<1>1. \A i \in DOMAIN Ahead' : Ahead'[i].do \in {"barrier", "fence"}
  BY DEF Quiet
<1>2. Apart(Ahead)' /\ ReadsAreRight(Ahead, arena, tape)' /\ WindowsAreOld(Ahead, run.words)'
  BY <1>1 DEF Apart, Clash, ReadsAreRight, WindowsAreOld
<1> QED
  BY <1>1, <1>2 DEF QueueInv, RingInv

LEMMA MoeRoutedStep ==
  ASSUME StreamInv, Stream!MoeRouted
  PROVE  StreamInv'
<1>1. /\ RunInv /\ QueueInv /\ RingInv /\ PoolInv /\ Believed
      /\ FenceInv /\ PlaceInv
  BY DEF StreamInv
<1> DEFINE bar == Stream!Barrier
           zero == [h \in {0, 1} |-> 0]
           rec == <<bar>>
<1>2. PICK xs \in Stream!Routings :
        run' = [run EXCEPT !.at = "stage", !.rec = rec, !.role = 1,
                           !.pending = zero, !.cursor = 0, !.words = 0,
                           !.ids = xs, !.todo = xs, !.windows = <<>>]
  BY StreamOperators DEF Stream!MoeRouted
<1>3. /\ run.at = "sync" /\ device = <<>> /\ device' = <<>>
      /\ model' = model /\ UNCHANGED <<lut, arena, ring, tape, lost>> /\ forwards' = forwards
      /\ pools' = [pools EXCEPT ![1] = BeginBatch(pools[1])]
  BY StreamOperators DEF Stream!MoeRouted
<1>4. DOMAIN run = RunFields /\ run.rec = <<>>
  BY <1>1, <1>3 DEF RunInv, FenceInv
<1> HIDE DEF bar, zero, rec
<1>5. /\ DOMAIN run' = RunFields
      /\ run'.at = "stage" /\ run'.segments = run.segments /\ run'.rec = rec
      /\ run'.fences = run.fences
      /\ run'.op = run.op /\ run'.wide = run.wide /\ run'.half = run.half
      /\ run'.cursor = 0 /\ run'.pending = zero /\ run'.words = 0
      /\ run'.role = 1 /\ run'.ids = xs /\ run'.todo = xs /\ run'.windows = <<>>
  BY <1>2, <1>4 DEF RunFields
<1>6. bar \in Commands /\ bar.do = "barrier"
  BY DEF bar, Commands, Stream!Barrier
<1>7. One(Commands, bar, rec)
  BY <1>6, OneIs, Zenon DEF rec
<1>8. rec \in Seq(Commands) /\ DOMAIN rec = {1} /\ rec[1] = bar /\ Len(rec) = 1
  BY <1>7 DEF One
<1>9. Ahead = <<>> /\ Ahead' = rec /\ Ahead' = Ahead \o rec
  <2>1. Ahead = <<>> \o <<>> /\ Ahead' = <<>> \o rec
    BY <1>3, <1>4, <1>5 DEF Ahead
  <2>2. <<>> \in Seq(Commands)
    OBVIOUS
  <2>3. <<>> \o <<>> = <<>>
    BY <2>2, ConcatEmptySeq
  <2>4. <<>> \o rec = rec
    BY <1>8, ConcatEmptySeq
  <2> QED
    BY <2>1, <2>3, <2>4
<1>10. Stream!InGraph /\ ~Stream!Dense
  BY <1>1, <1>3 DEF PlaceInv
<1>11. QueueInv' /\ RingInv'
  <2>1. Commands' = Commands
    BY <1>3, SameModel
  <2>2. Quiet(Ahead)'
    BY <1>6, <1>8, <1>9 DEF Quiet
  <2> QED
    BY <1>8, <1>9, <2>1, <2>2, QuietWhole
<1>12. /\ xs \in Seq(Blocks) /\ ToSet(xs) \subseteq Stream!Experts /\ xs # <<>>
  <2> DEFINE n == model.routed
             E == Stream!Experts
  <2>1. n \in Nat /\ n > 0 /\ E \subseteq Blocks
    BY <1>1, <1>10, ModelIs, OpIs DEF RunInv
  <2>2. xs \in [1 .. n -> E]
    BY DEF Stream!Routings
  <2> HIDE DEF n, E
  <2>3. xs \in Seq(Blocks)
    BY <2>1, <2>2
  <2>4. DOMAIN xs = 1 .. n /\ \A k \in DOMAIN xs : xs[k] \in E
    BY <2>2
  <2>5. ToSet(xs) \subseteq E
    BY <2>4 DEF ToSet
  <2>6. 1 \in DOMAIN xs
    BY <2>1, <2>4
  <2> QED
    BY <2>3, <2>5, <2>6 DEF E
<1>13. RunInv'
  <2>1. Stream!Pools' = Stream!Pools /\ Commands' = Commands
    BY <1>3, SameModel
  <2>2. zero \in [{0, 1} -> Nat] /\ <<>> \in Seq(Nat) /\ <<>> \in Seq(Commands)
    BY DEF zero
  <2>3. 0 \in 0 .. model.half /\ 0 \in 0 .. model.tape
    BY <1>1, ModelIs DEF RunInv
  <2> QED
    <3>1. /\ run'.at \in RunPlaces /\ run'.rec \in Seq(Commands)
          /\ run'.cursor \in 0 .. model.half /\ run'.pending \in [{0, 1} -> Nat]
          /\ run'.words \in 0 .. model.tape /\ run'.role \in Nat
          /\ run'.ids \in Seq(Blocks) /\ run'.todo \in Seq(Blocks) /\ run'.windows \in Seq(Nat)
          /\ device' \in Seq(Commands)
      BY <1>3, <1>5, <1>8, <1>12, <2>2, <2>3 DEF RunPlaces
    <3>2. /\ run'.op \in Nat \ {0} /\ run'.wide \in BOOLEAN /\ run'.fences \in Nat
          /\ run'.half \in {0, 1} /\ run'.segments \in Seq(Nat)
      BY <1>1, <1>5 DEF RunInv
    <3> QED
      BY <1>1, <1>3, <1>5, <2>1, <3>1, <3>2 DEF RunInv
<1>14. FenceInv'
  <2>1. FencesAre(device', run'.fences, Stream!InFlight')
    BY <1>3 DEF FencesAre
  <2>2. run'.pending[run'.half] = 0
    BY <1>1, <1>5 DEF zero, RunInv
  <2>3. \A i \in DOMAIN run'.rec : run'.rec[i].do # "fence"
    BY <1>5, <1>6, <1>8
  <2> QED
    BY <1>1, <1>3, <1>5, <2>1, <2>2, <2>3 DEF FenceInv
<1>15. PoolInv' /\ Believed' /\ DenseInv' /\ MoeInv' /\ PlaceInv'
  <2> DEFINE m == 1
             ps == pools
  <2>1. m \in DOMAIN run'.rec /\ m = Len(run'.rec) /\ run'.rec[m].do = "barrier"
    BY <1>5, <1>6, <1>8
  <2>2. Ahead' = Ahead \o <<Stream!Barrier>>
    BY <1>9 DEF rec, bar
  <2>3. /\ DOMAIN ps = Stream!Pools
        /\ \A p \in Stream!Pools :
             Sound(ps[p]) /\ EpochsBelow(ps[p]) /\ ps[p].resident = pools[p].resident
        /\ pools' = [ps EXCEPT ![1] = BeginBatch(ps[1])]
    BY <1>1, <1>3 DEF PoolInv
  <2> HIDE DEF m, ps
  <2> QED
    BY <1>3, <1>5, <1>10, <1>12, <2>1, <2>2, <2>3, EnterStep, ZenonT(40)
<1> QED
  BY <1>11, <1>13, <1>14, <1>15 DEF StreamInv

-----------------------------------------------------------------------------
(* The block that is staged next, and the pager with its batch open.         *)
StagedNext(i, b, q) ==
  /\ i \in Stream!Pools /\ b \in Blocks /\ Sound(q) /\ EpochsBelow(q)
  /\ q.resident = pools[i].resident /\ q.cur > 0
  /\ ~IsResident(q, b) => ~TakeSlotPanics(Stamped(q, b))

LEMMA NextStaged ==
  ASSUME RunInv, PoolInv, DenseInv, MoeInv, run.at = "stage", run.todo # <<>>
  PROVE  LET q == IF Stream!Dense THEN BeginBatch(pools[run.role]) ELSE pools[run.role]
         IN  StagedNext(run.role, Head(run.todo), q)
<1> DEFINE i == run.role
           b == Head(run.todo)
           p == pools[i]
<1>1. CASE Stream!Dense
  <2>1. i = 1 /\ Stream!InGraph /\ run.todo = Stream!Op
    BY <1>1 DEF DenseInv
  <2>2. b \in Blocks
    BY <2>1, <1>1, OpIs
  <2>3. i \in Stream!Pools
    BY <2>1, ModelIs DEF RunInv
  <2>4. Sound(p) /\ EpochsBelow(p)
    BY <2>3 DEF PoolInv
  <2> HIDE DEF i, b, p
  <2>5. StagedNext(i, b, BeginBatch(p))
    <3> DEFINE q == BeginBatch(p)
    <3>1. /\ Sound(q) /\ EpochsBelow(q) /\ q.resident = p.resident /\ q.cur > 0
          /\ \A c \in Blocks : ~IsResident(q, c) => ~TakeSlotPanics(Stamped(q, c))
      BY <2>4, OpenDoes
    <3> HIDE DEF q
    <3>2. StagedNext(i, b, q)
      BY <2>2, <2>3, <3>1 DEF StagedNext, p
    <3> QED
      BY <3>2 DEF q
  <2> QED
    BY <1>1, <2>5 DEF i, b, p
<1>2. CASE ~Stream!Dense
  <2>1. /\ Stream!InGraph /\ i \in Stream!Pools /\ p.cur > 0
        /\ ToSet(run.todo) \subseteq Stream!Experts
        /\ \A c \in Blocks : InBatchOf(i, c) => c \in Stream!Experts
    BY <1>2 DEF MoeInv, MoeStaging
  <2>2. Stream!Experts \subseteq Blocks /\ IsFiniteSet(Stream!Experts)
        /\ Cardinality(Stream!Experts) <= NSlots
    BY <2>1, OpIs
  <2>3. b \in ToSet(run.todo)
    <3>1. run.todo \in Seq(Blocks)
      BY DEF RunInv
    <3>2. b = run.todo[1] /\ 1 \in DOMAIN run.todo
      BY <3>1
    <3> QED
      BY <3>2 DEF ToSet
  <2>4. Sound(p) /\ EpochsBelow(p)
    BY <2>1 DEF PoolInv
  <2>5. \A c \in Blocks : IsResident(p, c) /\ p.epoch[c] = p.cur => c \in Stream!Experts
    BY <2>1 DEF InBatchOf
  <2>6. b \in Stream!Experts /\ b \in Blocks
    BY <2>1, <2>2, <2>3
  <2> HIDE DEF i, b, p
  <2>7. ~IsResident(p, b) => ~TakeSlotPanics(Stamped(p, b))
    BY <2>2, <2>4, <2>5, <2>6, BatchFits
  <2>8. StagedNext(i, b, p)
    BY <2>1, <2>4, <2>6, <2>7 DEF StagedNext, p
  <2> QED
    BY <1>2, <2>8 DEF i, b, p
<1> QED
  BY <1>1, <1>2

-----------------------------------------------------------------------------
(* The recording is discarded.                                               *)
LEMMA UnsubmittedIs ==
  ASSUME RunInv
  PROVE  /\ Stream!Unsubmitted \subseteq Stream!Pools \X Blocks
         /\ \A k \in DOMAIN run.rec :
              run.rec[k].do = "copy" => <<run.rec[k].pool, run.rec[k].blk>> \in Stream!Unsubmitted
<1> DEFINE C == {c \in ToSet(run.rec) : c.do = "copy"}
<1>1. run.rec \in Seq(Commands) /\ Stream!Unsubmitted = {<<c.pool, c.blk>> : c \in C}
  BY StreamOperators DEF RunInv, Stream!Unsubmitted
<1>2. \A k \in DOMAIN run.rec : run.rec[k].do = "copy" => run.rec[k] \in C
  BY DEF ToSet
<1>3. ASSUME NEW c \in C PROVE <<c.pool, c.blk>> \in Stream!Pools \X Blocks
  <2>1. c \in Commands /\ c.do = "copy"
    BY <1>1 DEF ToSet
  <2>2. c \in Copying
    BY <2>1, CommandIs DEF RunInv
  <2> QED
    BY <2>2, CopyIs
<1> HIDE DEF C
<1> QED
  BY <1>1, <1>2, <1>3

LEMMA DiscardStep ==
  ASSUME StreamInv, run.at \in {"op", "stage"}, model' = model, device' = device,
         UNCHANGED <<lut, arena, tape>>, run' = [run EXCEPT !.at = "unwind", !.rec = <<>>],
         forwards' \in 0 .. MaxForwards, PoolInv',
         lost' \subseteq Stream!Pools \X Blocks, lost \subseteq lost', Stream!Unsubmitted \subseteq lost',
         \A p \in Stream!Pools, b \in Blocks :
           IsResident(pools'[p], b) /\ <<p, b>> \notin lost' =>
             IsResident(pools[p], b) /\ pools'[p].resident[b] = pools[p].resident[b],
         ring' \in [{0, 1} \X (0 .. model.half - 1) -> Blocks \cup {NoBlock}],
         \A x \in {0, 1} \X (0 .. model.half - 1) :
           x[1] # run.half \/ x[2] < run.cursor => ring'[x] = ring[x]
  PROVE  StreamInv'
<1>1. /\ RunInv /\ QueueInv /\ RingInv /\ PoolInv /\ Believed
      /\ FenceInv /\ PlaceInv
  BY DEF StreamInv
<1>2. DOMAIN run = RunFields
  BY <1>1 DEF RunInv
<1>3. /\ DOMAIN run' = RunFields
      /\ run'.at = "unwind" /\ run'.segments = run.segments /\ run'.rec = <<>>
      /\ run'.fences = run.fences
      /\ run'.op = run.op /\ run'.wide = run.wide /\ run'.half = run.half
      /\ run'.cursor = run.cursor /\ run'.pending = run.pending /\ run'.words = run.words
      /\ run'.role = run.role /\ run'.ids = run.ids /\ run'.todo = run.todo
      /\ run'.windows = run.windows
  BY <1>2 DEF RunFields
<1>4. device \in Seq(Commands) /\ run.rec \in Seq(Commands) /\ Ahead = device \o run.rec
  BY <1>1 DEF RunInv, Ahead
<1>5. Ahead' = device
  <2>1. Ahead' = device \o <<>>
    BY <1>3 DEF Ahead
  <2> QED
    BY <1>4, <2>1, ConcatEmptySeq
<1>6. QueueInv'
  <2>1. Commands' = Commands
    BY SameModel
  <2>2. Apart(device) /\ ReadsAreRight(device, arena, tape) /\ WindowsAreOld(device, run.words)
    BY <1>1, <1>4, PrefixKeeps DEF QueueInv
  <2> QED
    BY <1>3, <1>4, <1>5, <2>1, <2>2 DEF QueueInv
<1>7. Believed'
  <2> SUFFICES ASSUME NEW p \in Stream!Pools, NEW b \in Blocks,
                      IsResident(pools'[p], b), <<p, b>> \notin lost'
               PROVE  /\ lut[p][b] = pools'[p].resident[b]
                      /\ Holds(device, Len(device) + 1, arena, p, pools'[p].resident[b], b)
    BY <1>5, SameModel DEF Believed
  <2> DEFINE s == pools'[p].resident[b]
  <2>1. IsResident(pools[p], b) /\ s = pools[p].resident[b] /\ <<p, b>> \notin lost
    OBVIOUS
  <2>2. lut[p][b] = s /\ Holds(Ahead, Len(Ahead) + 1, arena, p, s, b)
    BY <1>1, <2>1 DEF Believed
  <2> HIDE DEF s
  <2>3. \A k \in DOMAIN run.rec : ~(CopyTo(run.rec, k, p, s) /\ run.rec[k].blk = b)
    <3> SUFFICES ASSUME NEW k \in DOMAIN run.rec, CopyTo(run.rec, k, p, s), run.rec[k].blk = b
                 PROVE  FALSE
      OBVIOUS
    <3>1. <<p, b>> \in Stream!Unsubmitted
      BY <1>1, UnsubmittedIs DEF CopyTo
    <3> QED
      BY <3>1
  <2>4. Holds(device \o run.rec, Len(device \o run.rec) + 1, arena, p, s, b)
    BY <1>4, <2>2
  <2>5. Holds(device, Len(device) + 1, arena, p, s, b)
    BY <1>4, <2>3, <2>4, DiscardHolds
  <2> QED
    BY <2>2, <2>5 DEF s
<1>8. RingInv'
  <2> SUFFICES ASSUME NEW i \in DOMAIN device, device[i].do = "copy"
               PROVE  /\ ring'[device[i].from] = device[i].blk
                      /\ IF device[i].from[1] = run.half
                         THEN device[i].from[2] < run.cursor
                         ELSE \E j \in DOMAIN device :
                                j > i /\ device[j] = Stream!Fence(run.pending[device[i].from[1]])
    BY <1>3, <1>5 DEF RingInv, Stream!Fence
  <2> DEFINE x == device[i].from
  <2>1. i \in DOMAIN Ahead /\ Ahead[i] = device[i]
    BY <1>1, QueueIs
  <2>2. /\ ring[x] = device[i].blk
        /\ IF x[1] = run.half THEN x[2] < run.cursor
           ELSE \E j \in DOMAIN device : j > i /\ device[j] = Stream!Fence(run.pending[x[1]])
    BY <1>1, <2>1 DEF RingInv
  <2>3. x \in {0, 1} \X (0 .. model.half - 1)
    <3>1. device[i] \in Commands
      BY <1>4
    <3>2. device[i] \in Copying
      BY <1>1, <3>1, CommandIs DEF RunInv
    <3> QED
      BY <3>2, CopyIs
  <2> HIDE DEF x
  <2>4. ring'[x] = ring[x]
    BY <2>2, <2>3
  <2> QED
    BY <2>2, <2>4 DEF x
<1>9. RunInv'
  <2>1. Stream!Pools' = Stream!Pools /\ Commands' = Commands
    BY SameModel
  <2>2. <<>> \in Seq(Commands)
    OBVIOUS
  <2> QED
    BY <1>1, <1>3, <1>4, <2>1, <2>2 DEF RunInv, RunPlaces
<1>10. FenceInv'
  <2>1. Stream!InFlight' = Stream!InFlight
    BY <1>3 DEF Stream!InFlight
  <2>2. DOMAIN run'.rec = {}
    BY <1>3
  <2> QED
    BY <1>1, <1>3, <2>1, <2>2 DEF FenceInv
<1>11. DenseInv' /\ MoeInv' /\ PlaceInv'
  BY <1>3 DEF DenseInv, MoeInv, MoeStaging, PlaceInv
<1> QED
  BY <1>6, <1>7, <1>8, <1>9, <1>10, <1>11 DEF StreamInv

LEMMA AbandonSteps ==
  ASSUME StreamInv, Stream!OpFails \/ Stream!Shutdown
  PROVE  StreamInv'
<1>1. RunInv /\ PoolInv
  BY DEF StreamInv
<1>2. /\ run.at \in {"op", "stage"} /\ model' = model /\ device' = device
      /\ UNCHANGED <<lut, arena, tape>> /\ run' = [run EXCEPT !.at = "unwind", !.rec = <<>>]
      /\ forwards' \in {forwards, MaxForwards} /\ pools' = pools /\ ring' = ring
      /\ lost' = lost \cup Stream!Unsubmitted
  BY DEF Stream!OpFails, Stream!Shutdown, Stream!TapeOverflows
<1>3. forwards' \in 0 .. MaxForwards
  BY <1>1, <1>2, DrivesAreBounded DEF RunInv
<1>4. PoolInv'
  BY <1>1, <1>2, SameModel DEF PoolInv
<1>5. /\ lost' \subseteq Stream!Pools \X Blocks /\ lost \subseteq lost'
      /\ Stream!Unsubmitted \subseteq lost'
  BY <1>1, <1>2, UnsubmittedIs DEF RunInv
<1>6. ring' \in [{0, 1} \X (0 .. model.half - 1) -> Blocks \cup {NoBlock}]
  BY <1>1, <1>2 DEF RunInv
<1> QED
  BY <1>2, <1>3, <1>4, <1>5, <1>6, DiscardStep

LEMMA FillFailsStep ==
  ASSUME StreamInv, Stream!FillFails
  PROVE  StreamInv'
<1>1. /\ RunInv /\ PoolInv /\ DenseInv /\ MoeInv
  BY DEF StreamInv
<1> DEFINE i == run.role
           b == Head(run.todo)
           q == IF Stream!Dense THEN BeginBatch(pools[i]) ELSE pools[i]
           t == Touch(q, b, Stream!Policy)
<1>2. /\ run.at = "stage" /\ run.todo # <<>> /\ ~IsResident(q, b) /\ ~Stream!Full(i, b)
      /\ model' = model /\ device' = device /\ UNCHANGED <<lut, arena, tape>> /\ forwards' = forwards
      /\ run' = [run EXCEPT !.at = "unwind", !.rec = <<>>]
      /\ pools' = [pools EXCEPT ![i] = t.pager]
      /\ ring' = [ring EXCEPT ![Stream!Here] = NoBlock]
      /\ lost' = lost \cup Stream!Unsubmitted \cup {<<i, b>>}
  BY StreamOperators DEF Stream!FillFails
<1>3. StagedNext(i, b, q)
  BY <1>1, <1>2, NextStaged
<1>4. /\ i \in Stream!Pools /\ b \in Blocks /\ Sound(q) /\ EpochsBelow(q)
      /\ q.resident = pools[i].resident /\ ~TakeSlotPanics(Stamped(q, b))
  BY <1>2, <1>3 DEF StagedNext
<1> HIDE DEF i, b, q
<1>5. /\ Sound(t.pager) /\ EpochsBelow(t.pager)
      /\ \A c \in Blocks \ {b} : IsResident(t.pager, c) =>
           IsResident(q, c) /\ t.pager.resident[c] = q.resident[c]
  BY <1>4, TouchDoes
<1> HIDE DEF t
<1>6. PoolInv'
  BY <1>1, <1>2, <1>4, <1>5, SameModel DEF PoolInv
<1>7. /\ lost' \subseteq Stream!Pools \X Blocks /\ lost \subseteq lost'
      /\ Stream!Unsubmitted \subseteq lost' /\ <<i, b>> \in lost'
  BY <1>1, <1>2, <1>4, UnsubmittedIs, SMTT(20) DEF RunInv
<1>8. ASSUME NEW p \in Stream!Pools, NEW c \in Blocks, IsResident(pools'[p], c), <<p, c>> \notin lost'
      PROVE  IsResident(pools[p], c) /\ pools'[p].resident[c] = pools[p].resident[c]
  <2>1. CASE p = i
    <3>1. c # b /\ pools'[p] = t.pager
      BY <1>1, <1>2, <1>4, <1>7, <1>8, <2>1 DEF PoolInv
    <3> QED
      BY <1>4, <1>5, <1>8, <2>1, <3>1 DEF IsResident
  <2>2. CASE p # i
    BY <1>1, <1>2, <1>8, <2>2 DEF PoolInv
  <2> QED
    BY <2>1, <2>2
<1>9. ring \in [{0, 1} \X (0 .. model.half - 1) -> Blocks \cup {NoBlock}]
  BY <1>1 DEF RunInv
<1>10. /\ ring' \in [{0, 1} \X (0 .. model.half - 1) -> Blocks \cup {NoBlock}]
       /\ \A x \in {0, 1} \X (0 .. model.half - 1) :
            x[1] # run.half \/ x[2] < run.cursor => ring'[x] = ring[x]
  <2>1. Stream!Here = <<run.half, run.cursor>> /\ run.cursor \in Nat
    BY <1>1, ModelIs DEF RunInv, Stream!Here
  <2> DEFINE y == Stream!Here
  <2>2. y[1] = run.half /\ y[2] = run.cursor
    BY <2>1
  <2> HIDE DEF y
  <2>3. \A x : x[1] # run.half \/ x[2] < run.cursor => x # y
    BY <2>1, <2>2
  <2>4. ring' = [ring EXCEPT ![y] = NoBlock]
    BY <1>2 DEF y
  <2> QED
    BY <1>9, <2>3, <2>4
<1>11. forwards' \in 0 .. MaxForwards
  BY <1>1, <1>2 DEF RunInv
<1> QED
  BY <1>2, <1>6, <1>7, <1>8, <1>10, <1>11, DiscardStep

-----------------------------------------------------------------------------
(* Staging: what the touch of a block did to its pool.                       *)
Touched(q, b, t) ==
  /\ Sound(t.pager) /\ EpochsBelow(t.pager) /\ t.pager.cur = q.cur
  /\ IsResident(t.pager, b) /\ t.pager.epoch[b] = q.cur
  /\ \A c \in Blocks \ {b} :
       /\ IsResident(t.pager, c) =>
            IsResident(q, c) /\ t.pager.resident[c] = q.resident[c] /\ t.pager.epoch[c] = q.epoch[c]
       /\ IsResident(q, c) /\ q.epoch[c] = q.cur => IsResident(t.pager, c)
  /\ IsResident(q, b) => t.pager.resident = q.resident
  /\ ~IsResident(q, b) =>
       /\ t.pager.resident[b] = t.slot /\ t.slot \in Slots
       /\ t.evicted # b /\ t.evicted \in Blocks \cup {NoBlock}
       /\ t.evicted \in Blocks => ~IsResident(t.pager, t.evicted)
       /\ \A c \in Blocks \ {b} : IsResident(t.pager, c) => t.pager.resident[c] # t.slot

StagingCopy(i, b, s) ==
  [do |-> "copy", pool |-> i, slot |-> s, from |-> Stream!Here, blk |-> b]

(* What the step does, for block b of pool i whose pager is q.               *)
Staged(i, b, q, t, cs) ==
  /\ StagedNext(i, b, q) /\ Touched(q, b, t)
  /\ pools' = [pools EXCEPT ![i] = t.pager]
  /\ UNCHANGED <<model, arena, tape, device, forwards>>
  /\ IsResident(q, b) => UNCHANGED <<lut, ring, lost>> /\ cs = <<>>
  /\ ~IsResident(q, b) =>
       /\ ring' = [ring EXCEPT ![Stream!Here] = b]
       /\ lut' = [lut EXCEPT ![i] = [c \in Blocks |-> IF c = b THEN t.slot
                                                     ELSE IF c = t.evicted THEN NoSlot
                                                     ELSE lut[i][c]]]
       /\ lost' = lost \ {<<i, b>>, <<i, t.evicted>>}
       /\ cs = <<StagingCopy(i, b, t.slot)>>

LEMMA StageIs ==
  ASSUME NEW i, NEW b, NEW q, StagedNext(i, b, q), Stream!Stage(i, q, b),
         UNCHANGED <<model, device, forwards>>
  PROVE  Staged(i, b, q, Touch(q, b, Stream!Policy), Stream!Copies(i, q, b))
<1> DEFINE t == Touch(q, b, Stream!Policy)
<1>1. Touched(q, b, t)
  <2>1. /\ Sound(q) /\ EpochsBelow(q) /\ b \in Blocks /\ q.cur > 0
        /\ IsResident(q, b) \/ ~TakeSlotPanics(Stamped(q, b))
    BY DEF StagedNext
  <2> QED
    BY <2>1, TouchDoes DEF Touched
<1>2. Stream!Touch(q, b, Stream!Policy) = t /\ (Stream!IsResident(q, b) <=> IsResident(q, b))
  BY StreamOperators
<1>3. /\ pools' = [pools EXCEPT ![i] = t.pager]
      /\ UNCHANGED <<arena, tape>>
      /\ IsResident(q, b) => UNCHANGED <<lut, ring, lost>>
      /\ ~IsResident(q, b) =>
           /\ ring' = [ring EXCEPT ![Stream!Here] = b]
           /\ lut' = [lut EXCEPT ![i] = [c \in Blocks |-> IF c = b THEN t.slot
                                                         ELSE IF c = t.evicted THEN NoSlot
                                                         ELSE lut[i][c]]]
           /\ lost' = lost \ {<<i, b>>, <<i, t.evicted>>}
  <2> HIDE DEF t
  <2>1. Stream!NoSlot = NoSlot
    BY StreamOperators
  <2> QED
    BY <1>2, <2>1 DEF Stream!Stage
<1>4. Stream!Copies(i, q, b) = IF IsResident(q, b) THEN <<>> ELSE <<StagingCopy(i, b, t.slot)>>
  <2> HIDE DEF t
  <2> QED
    BY <1>2 DEF Stream!Copies, StagingCopy
<1> HIDE DEF t
<1>5. Staged(i, b, q, t, Stream!Copies(i, q, b))
  BY <1>1, <1>3, <1>4 DEF Staged
<1> QED
  BY <1>5 DEF t

(* The copy.                                                                *)
LEMMA CopyOne ==
  ASSUME RunInv, NEW i, NEW b, NEW q, NEW t, NEW cs, Staged(i, b, q, t, cs),
         ~IsResident(q, b), run.cursor < model.half
  PROVE  /\ One(Commands, StagingCopy(i, b, t.slot), cs)
         /\ StagingCopy(i, b, t.slot) \in Copying /\ StagingCopy(i, b, t.slot) \in Commands
         /\ Stream!Here \in {0, 1} \X (0 .. model.half - 1)
         /\ Stream!Here[1] = run.half /\ Stream!Here[2] = run.cursor
<1>1. /\ i \in Stream!Pools /\ b \in Blocks /\ t.slot \in Slots
      /\ cs = <<StagingCopy(i, b, t.slot)>>
  BY DEF Staged, StagedNext, Touched
<1>2. /\ Stream!Here = <<run.half, run.cursor>> /\ run.cursor \in 0 .. model.half - 1
      /\ run.half \in {0, 1}
  BY ModelIs, SMTT(20) DEF RunInv, Stream!Here
<1>3. /\ Stream!Here \in {0, 1} \X (0 .. model.half - 1)
      /\ Stream!Here[1] = run.half /\ Stream!Here[2] = run.cursor
  BY <1>2
<1>4. StagingCopy(i, b, t.slot) \in Copying
  BY <1>1, <1>3 DEF StagingCopy, Copying
<1>5. StagingCopy(i, b, t.slot) \in Commands
  BY <1>4 DEF Commands
<1>6. One(Commands, StagingCopy(i, b, t.slot), cs)
  BY <1>1, <1>5, OneIs, Zenon
<1> QED
  BY <1>3, <1>4, <1>5, <1>6

LEMMA CopiesAre ==
  ASSUME RunInv, NEW i, NEW b, NEW q, NEW t, NEW cs, Staged(i, b, q, t, cs),
         ~IsResident(q, b) => run.cursor < model.half
  PROVE  /\ cs \in Seq(Commands)
         /\ \A k \in DOMAIN cs :
              /\ ~IsResident(q, b) /\ k = 1 /\ Len(cs) = 1
              /\ cs[k].do = "copy" /\ cs[k].pool = i /\ cs[k].slot = t.slot
              /\ cs[k].blk = b /\ cs[k].from = Stream!Here
         /\ IsResident(q, b) => Len(cs) = 0
         /\ ~IsResident(q, b) => Len(cs) = 1 /\ 1 \in DOMAIN cs
<1>1. CASE IsResident(q, b)
  <2>1. cs = <<>>
    BY <1>1 DEF Staged
  <2> QED
    BY <1>1, <2>1
<1>2. CASE ~IsResident(q, b)
  <2> DEFINE c == StagingCopy(i, b, t.slot)
  <2>1. One(Commands, c, cs)
    BY <1>2, CopyOne
  <2>2. /\ c.do = "copy" /\ c.pool = i /\ c.slot = t.slot
        /\ c.blk = b /\ c.from = Stream!Here
    BY DEF StagingCopy
  <2> HIDE DEF c
  <2> QED
    BY <1>2, <2>1, <2>2 DEF One
<1> QED
  BY <1>1, <1>2

(* The pools.                                                               *)
LEMMA StagePools ==
  ASSUME RunInv, PoolInv, NEW i, NEW b, NEW q, NEW t, NEW cs, Staged(i, b, q, t, cs)
  PROVE  /\ PoolInv' /\ i \in Stream!Pools /\ pools'[i] = t.pager
         /\ \A p \in Stream!Pools : p # i => pools'[p] = pools[p]
<1>1. /\ pools' = [pools EXCEPT ![i] = t.pager] /\ model' = model
      /\ i \in Stream!Pools /\ Sound(t.pager) /\ EpochsBelow(t.pager)
  BY DEF Staged, StagedNext, Touched
<1>2. /\ DOMAIN pools = Stream!Pools
      /\ \A p \in Stream!Pools : Sound(pools[p])
      /\ \A p \in Stream!Pools : EpochsBelow(pools[p])
  BY DEF PoolInv
<1>3. /\ DOMAIN pools' = Stream!Pools /\ pools'[i] = t.pager
      /\ \A p \in Stream!Pools : p # i => pools'[p] = pools[p]
  BY <1>1, <1>2
<1>4. \A p \in Stream!Pools : Sound(pools'[p]) /\ EpochsBelow(pools'[p])
  BY <1>1, <1>2, <1>3
<1> QED
  BY <1>1, <1>3, <1>4, SameModel DEF PoolInv

(* The ring, the mirror and the history.                                    *)
RingStaged(i, cs) ==
  /\ ring' \in [{0, 1} \X (0 .. model.half - 1) -> Blocks \cup {NoBlock}]
  /\ \A x \in {0, 1} \X (0 .. model.half - 1) :
       x[1] # run.half \/ x[2] < run.cursor => ring'[x] = ring[x]
  /\ \A k \in DOMAIN cs :
       ring'[cs[k].from] = cs[k].blk /\ cs[k].from[1] = run.half /\ cs[k].from[2] = run.cursor
  /\ lut' \in [Stream!Pools -> [Blocks -> Slots \cup {NoSlot}]]
  /\ lost' \subseteq Stream!Pools \X Blocks /\ lost' \subseteq lost
  /\ \A p \in Stream!Pools : p # i => lut'[p] = lut[p]

LEMMA StageRing ==
  ASSUME RunInv, NEW i, NEW b, NEW q, NEW t, NEW cs, Staged(i, b, q, t, cs),
         ~IsResident(q, b) => run.cursor < model.half
  PROVE  RingStaged(i, cs)
<1>1. /\ ring \in [{0, 1} \X (0 .. model.half - 1) -> Blocks \cup {NoBlock}]
      /\ lut \in [Stream!Pools -> [Blocks -> Slots \cup {NoSlot}]]
      /\ lost \subseteq Stream!Pools \X Blocks
  BY DEF RunInv
<1>2. CASE IsResident(q, b)
  <2>1. UNCHANGED <<lut, ring, lost>> /\ cs = <<>>
    BY <1>2 DEF Staged
  <2> QED
    BY <1>1, <2>1 DEF RingStaged
<1>3. CASE ~IsResident(q, b)
  <2> DEFINE y == Stream!Here
             new == [c \in Blocks |-> IF c = b THEN t.slot
                                      ELSE IF c = t.evicted THEN NoSlot ELSE lut[i][c]]
  <2>1. /\ y \in {0, 1} \X (0 .. model.half - 1) /\ y[1] = run.half /\ y[2] = run.cursor
    BY <1>3, CopyOne
  <2>2. /\ ring' = [ring EXCEPT ![y] = b] /\ lut' = [lut EXCEPT ![i] = new]
        /\ lost' = lost \ {<<i, b>>, <<i, t.evicted>>}
        /\ i \in Stream!Pools /\ b \in Blocks /\ t.slot \in Slots
    BY <1>3 DEF Staged, StagedNext, Touched
  <2>3. new \in [Blocks -> Slots \cup {NoSlot}]
    BY <1>1, <2>2
  <2>4. \A k \in DOMAIN cs : cs[k].from = y /\ cs[k].blk = b
    BY CopiesAre
  <2> HIDE DEF y, new
  <2>5. run.cursor \in Int
    BY ModelIs DEF RunInv
  <2>6. \A x : x[1] # run.half \/ x[2] < run.cursor => x # y
    BY <2>1, <2>5
  <2>7. /\ ring' \in [{0, 1} \X (0 .. model.half - 1) -> Blocks \cup {NoBlock}]
        /\ ring'[y] = b
        /\ \A x \in {0, 1} \X (0 .. model.half - 1) : x # y => ring'[x] = ring[x]
    BY <1>1, <2>1, <2>2
  <2>8. /\ lut' \in [Stream!Pools -> [Blocks -> Slots \cup {NoSlot}]]
        /\ \A p \in Stream!Pools : p # i => lut'[p] = lut[p]
    BY <1>1, <2>2, <2>3
  <2> QED
    BY <1>1, <2>1, <2>2, <2>4, <2>6, <2>7, <2>8 DEF RingStaged
<1> QED
  BY <1>2, <1>3

(* After the copy, every pool's blocks are again where the CPU believes.       *)
LEMMA StageBelieves ==
  ASSUME RunInv, PoolInv, Believed, NEW i, NEW b, NEW q, NEW t, NEW cs, Staged(i, b, q, t, cs),
         ~IsResident(q, b) => run.cursor < model.half
  PROVE  \A p \in Stream!Pools, c \in Blocks :
           IsResident(pools'[p], c) /\ <<p, c>> \notin lost' =>
             /\ lut'[p][c] = pools'[p].resident[c]
             /\ Holds(Ahead \o cs, Len(Ahead \o cs) + 1, arena, p, pools'[p].resident[c], c)
<1>1. /\ i \in Stream!Pools /\ pools'[i] = t.pager
      /\ \A p \in Stream!Pools : p # i => pools'[p] = pools[p]
  BY StagePools
<1>2. /\ b \in Blocks /\ q.resident = pools[i].resident
      /\ \A c \in Blocks \ {b} :
           IsResident(t.pager, c) => IsResident(q, c) /\ t.pager.resident[c] = q.resident[c]
      /\ IsResident(q, b) => t.pager.resident = q.resident
      /\ ~IsResident(q, b) =>
           /\ t.pager.resident[b] = t.slot /\ t.slot \in Slots
           /\ t.evicted # b
           /\ t.evicted \in Blocks => ~IsResident(t.pager, t.evicted)
           /\ \A c \in Blocks \ {b} : IsResident(t.pager, c) => t.pager.resident[c] # t.slot
  BY DEF Staged, StagedNext, Touched
<1>3. Ahead \in Seq(Commands)
  BY QueueIs, Zenon
<1>4. /\ cs \in Seq(Commands)
      /\ \A k \in DOMAIN cs :
           /\ ~IsResident(q, b) /\ k = 1 /\ Len(cs) = 1
           /\ cs[k].do = "copy" /\ cs[k].pool = i /\ cs[k].slot = t.slot
           /\ cs[k].blk = b /\ cs[k].from = Stream!Here
      /\ IsResident(q, b) => Len(cs) = 0
      /\ ~IsResident(q, b) => Len(cs) = 1 /\ 1 \in DOMAIN cs
  BY CopiesAre
<1> DEFINE n == Len(Ahead)
           z == Len(cs)
           r == Ahead \o cs
<1>5. Joined(Commands, Ahead, cs, r)
  BY <1>3, <1>4, JoinIsJoined, Zenon
<1>6. n \in Nat /\ z \in Nat /\ Len(r) = n + z
  BY <1>5 DEF Joined
<1> SUFFICES ASSUME NEW p \in Stream!Pools, NEW c \in Blocks,
                    IsResident(pools'[p], c), <<p, c>> \notin lost'
             PROVE  /\ lut'[p][c] = pools'[p].resident[c]
                    /\ Holds(r, Len(r) + 1, arena, p, pools'[p].resident[c], c)
  OBVIOUS
<1> DEFINE s == pools'[p].resident[c]
<1>7. ASSUME IsResident(pools[p], c), pools[p].resident[c] = s, <<p, c>> \notin lost,
             lut'[p][c] = lut[p][c], p # i \/ IsResident(q, b) \/ s # t.slot
      PROVE  lut'[p][c] = s /\ Holds(r, Len(r) + 1, arena, p, s, c)
  <2>1. lut[p][c] = s /\ Holds(Ahead, n + 1, arena, p, s, c)
    BY <1>7 DEF Believed
  <2>2. \A k \in DOMAIN cs : ~CopyTo(cs, k, p, s)
    BY <1>4, <1>7 DEF CopyTo
  <2>3. z \in 0 .. z
    BY <1>6
  <2>4. Holds(Ahead, n + 1, arena, p, s, c) <=> Holds(r, n + 1 + z, arena, p, s, c)
    BY <1>3, <1>4, <2>2, <2>3, GrowsHolding
  <2>5. n + 1 + z = Len(r) + 1
    <3> HIDE DEF n, z, r
    <3> QED
      BY <1>6
  <2> QED
    BY <1>7, <2>1, <2>4, <2>5
<1>8. CASE p # i
  <2>1. lut'[p] = lut[p] /\ pools'[p] = pools[p]
    BY <1>1, <1>8, StageRing DEF RingStaged
  <2>2. <<p, c>> \notin lost
    <3>1. CASE IsResident(q, b)
      BY <3>1 DEF Staged
    <3>2. CASE ~IsResident(q, b)
      BY <1>8, <3>2 DEF Staged
    <3> QED
      BY <3>1, <3>2
  <2> QED
    BY <1>7, <1>8, <2>1, <2>2
<1>9. CASE p = i /\ IsResident(q, b)
  <2>1. lut' = lut /\ lost' = lost /\ pools'[p].resident = pools[p].resident
    BY <1>1, <1>2, <1>9 DEF Staged
  <2> QED
    BY <1>7, <1>9, <2>1 DEF IsResident
<1>10. CASE p = i /\ ~IsResident(q, b)
  <2> DEFINE new == [d \in Blocks |-> IF d = b THEN t.slot
                                     ELSE IF d = t.evicted THEN NoSlot ELSE lut[i][d]]
  <2>1. /\ lut' = [lut EXCEPT ![i] = new] /\ lost' = lost \ {<<i, b>>, <<i, t.evicted>>}
    BY <1>10 DEF Staged
  <2>2. lut'[i] = new
    BY <1>1, <2>1 DEF RunInv
  <2>3. CASE c = b
    <3>1. s = t.slot /\ lut'[p][c] = s
      BY <1>1, <1>2, <1>10, <2>2, <2>3
    <3>2. r[n + 1] = cs[1]
      BY <1>4, <1>5, <1>10 DEF Joined
    <3>3. CopyTo(r, n + 1, p, s) /\ r[n + 1].blk = c
      BY <1>4, <1>10, <2>3, <3>1, <3>2 DEF CopyTo
    <3>4. Len(r) = n + 1 /\ n \in Nat
      BY <1>4, <1>6, <1>10
    <3> HIDE DEF r, s, n
    <3>5. n + 1 \in 1 .. (Len(r) + 1) - 1 /\ \A l \in (n + 1) + 1 .. (Len(r) + 1) - 1 : FALSE
      BY <3>4
    <3>6. Holds(r, Len(r) + 1, arena, p, s, c)
      BY <3>3, <3>5 DEF Holds
    <3> QED
      BY <3>1, <3>6 DEF s, r
  <2>4. CASE c # b
    <3>1. IsResident(t.pager, c) /\ s = t.pager.resident[c]
      BY <1>1, <1>10
    <3>2. IsResident(q, c) /\ s = q.resident[c] /\ s # t.slot /\ c # t.evicted
      BY <1>2, <1>10, <2>4, <3>1
    <3>3. IsResident(pools[p], c) /\ pools[p].resident[c] = s
      BY <1>2, <1>10, <3>2 DEF IsResident
    <3>4. lut'[p][c] = lut[p][c] /\ <<p, c>> \notin lost
      BY <1>10, <2>1, <2>2, <2>4, <3>2
    <3> QED
      BY <1>7, <3>2, <3>3, <3>4
  <2> QED
    BY <2>3, <2>4
<1> QED
  BY <1>8, <1>9, <1>10

(* The copy stands apart from what was there before, when the segment has      *)
(* held nothing but copies to other slots since its last barrier.             *)
ClearSince(m, i, s) ==
  /\ m \in DOMAIN run.rec /\ run.rec[m].do = "barrier"
  /\ \A k \in m + 1 .. Len(run.rec) :
       run.rec[k].do = "copy" /\ ~(run.rec[k].pool = i /\ run.rec[k].slot = s)

LEMMA StageQueue ==
  ASSUME RunInv, QueueInv, NEW i, NEW b, NEW q, NEW t, NEW cs, Staged(i, b, q, t, cs),
         ~IsResident(q, b) => run.cursor < model.half,
         NEW m, ~IsResident(q, b) => ClearSince(m, i, t.slot)
  PROVE  /\ Ahead \o cs \in Seq(Commands) /\ Apart(Ahead \o cs)
         /\ ReadsAreRight(Ahead \o cs, arena, tape) /\ WindowsAreOld(Ahead \o cs, run.words)
<1>1. Ahead \in Seq(Commands)
  BY QueueIs, Zenon
<1>2. Apart(Ahead) /\ ReadsAreRight(Ahead, arena, tape) /\ WindowsAreOld(Ahead, run.words)
  BY DEF QueueInv
<1>3. /\ cs \in Seq(Commands)
      /\ \A k \in DOMAIN cs :
           /\ ~IsResident(q, b) /\ k = 1 /\ Len(cs) = 1
           /\ cs[k].do = "copy" /\ cs[k].pool = i /\ cs[k].slot = t.slot
  BY CopiesAre
<1>4. Joined(Commands, Ahead, cs, Ahead \o cs)
  BY <1>1, <1>3, JoinIsJoined, Zenon
<1>5. Apart(cs)
  <2>1. DOMAIN cs \subseteq Nat
    BY <1>4 DEF Joined
  <2> QED
    BY <1>3, <2>1 DEF Apart
<1>6. ASSUME NEW j \in DOMAIN Ahead, NEW k \in DOMAIN cs, Clash(Ahead[j], cs[k])
      PROVE  \E x \in j + 1 .. Len(Ahead) : Ahead[x].do = "barrier"
  <2> DEFINE n == Len(device)
             z == Len(run.rec)
  <2>1. ClearSince(m, i, t.slot) /\ cs[k].do = "copy" /\ cs[k].pool = i /\ cs[k].slot = t.slot
    BY <1>3
  <2>2. /\ n \in Nat /\ z \in Nat /\ DOMAIN run.rec = 1 .. z
        /\ Len(Ahead) = n + z /\ DOMAIN Ahead = 1 .. Len(Ahead)
        /\ \A l \in DOMAIN run.rec : Ahead[n + l] = run.rec[l]
    BY QueueIs
  <2>3. m \in 1 .. z /\ run.rec[m].do = "barrier"
    BY <2>1, <2>2 DEF ClearSince
  <2>4. \A l \in m + 1 .. z :
          run.rec[l].do = "copy" /\ ~(run.rec[l].pool = i /\ run.rec[l].slot = t.slot)
    BY <2>1 DEF ClearSince
  <2> HIDE DEF n, z
  <2>5. CASE j < n + m
    <3>1. n + m \in j + 1 .. Len(Ahead) /\ Ahead[n + m] = run.rec[m]
      BY <2>2, <2>3, <2>5
    <3> QED
      BY <2>3, <3>1
  <2>6. CASE j = n + m
    <3>1. Ahead[j].do = "barrier"
      BY <2>2, <2>3, <2>6
    <3> QED
      BY <1>6, <3>1 DEF Clash
  <2>7. CASE j > n + m
    <3>1. j - n \in m + 1 .. z /\ j - n \in 1 .. z /\ n + (j - n) = j
      BY <2>2, <2>3, <2>7
    <3>2. Ahead[j] = run.rec[j - n]
      BY <2>2, <3>1
    <3> QED
      BY <1>6, <2>1, <2>4, <3>1, <3>2 DEF Clash
  <2> QED
    BY <2>2, <2>3, <2>5, <2>6, <2>7
<1>7. Apart(Ahead \o cs)
  BY <1>1, <1>2, <1>3, <1>5, <1>6, GrowsApart
<1>8. \A k \in DOMAIN cs : cs[k].do # "read"
  BY <1>3
<1>9. ReadsAreRight(Ahead \o cs, arena, tape)
  BY <1>1, <1>2, <1>3, <1>8, GrowsRight
<1>10. WindowsAreOld(Ahead \o cs, run.words)
  <2> DEFINE r == Ahead \o cs
  <2>1. \A j \in DOMAIN r : (j \in DOMAIN Ahead /\ r[j] = Ahead[j])
                            \/ (j - Len(Ahead) \in DOMAIN cs /\ r[j] = cs[j - Len(Ahead)])
    <3> HIDE DEF r
    <3>1. Joined(Commands, Ahead, cs, r)
      BY <1>4 DEF r
    <3> QED
      BY <3>1 DEF Joined
  <2> HIDE DEF r
  <2>2. WindowsAreOld(r, run.words)
    BY <1>2, <1>8, <2>1 DEF WindowsAreOld
  <2> QED
    BY <2>2 DEF r
<1>11. Ahead \o cs \in Seq(Commands)
  BY <1>4 DEF Joined
<1> QED
  BY <1>7, <1>9, <1>10, <1>11

LEMMA TailIs ==
  ASSUME NEW T, NEW s \in Seq(T), s # <<>>
  PROVE  /\ Head(s) \in T /\ Head(s) \in ToSet(s) /\ Tail(s) \in Seq(T)
         /\ ToSet(Tail(s)) \subseteq ToSet(s)
         /\ \A x \in ToSet(s) : x = Head(s) \/ x \in ToSet(Tail(s))
<1> DEFINE n == Len(s)
           u == Tail(s)
<1>1. /\ n \in Nat /\ DOMAIN s = 1 .. n /\ n > 0
      /\ Head(s) = s[1] /\ Head(s) \in T /\ u \in Seq(T) /\ Len(u) = n - 1
      /\ \A i \in 1 .. n - 1 : u[i] = s[i + 1]
  BY HeadTailProperties
<1>2. DOMAIN u = 1 .. n - 1
  BY <1>1
<1> HIDE DEF n, u
<1>3. Head(s) \in ToSet(s)
  BY <1>1 DEF ToSet
<1>4. ToSet(u) \subseteq ToSet(s)
  <2> SUFFICES ASSUME NEW x \in ToSet(u) PROVE x \in ToSet(s)
    OBVIOUS
  <2>1. PICK i \in 1 .. n - 1 : x = u[i]
    BY <1>2 DEF ToSet
  <2>2. i + 1 \in DOMAIN s /\ x = s[i + 1]
    BY <1>1, <2>1
  <2> QED
    BY <2>2 DEF ToSet
<1>5. ASSUME NEW x \in ToSet(s), x # Head(s) PROVE x \in ToSet(u)
  <2>1. PICK j \in 1 .. n : x = s[j]
    BY <1>1 DEF ToSet
  <2>2. j - 1 \in 1 .. n - 1 /\ (j - 1) + 1 = j
    BY <1>1, <1>5, <2>1
  <2>3. x = u[j - 1]
    BY <1>1, <2>1, <2>2
  <2> QED
    BY <1>2, <2>2, <2>3 DEF ToSet
<1> QED
  BY <1>1, <1>3, <1>4, <1>5 DEF u

(* The blocks of the open batch stay, and the staged one joins them.         *)
Kept(i, b, t) ==
  /\ i \in Stream!Pools /\ pools'[i].cur = pools[i].cur
  /\ \A p \in Stream!Pools : p # i => pools'[p] = pools[p]
  /\ IsResident(pools'[i], b) /\ pools'[i].epoch[b] = pools'[i].cur
  /\ \A c \in Blocks : InBatchOf(i, c) =>
       /\ IsResident(pools'[i], c) /\ pools'[i].epoch[c] = pools'[i].cur
       /\ pools'[i].resident[c] = pools[i].resident[c]
  /\ \A c \in Blocks : IsResident(pools'[i], c) /\ pools'[i].epoch[c] = pools'[i].cur =>
       c = b \/ InBatchOf(i, c)
  /\ ~IsResident(pools[i], b) =>
       /\ pools'[i].resident[b] = t.slot
       /\ \A c \in Blocks : InBatchOf(i, c) => pools[i].resident[c] # t.slot

LEMMA BatchKeeps ==
  ASSUME RunInv, PoolInv, NEW i, NEW b, NEW t, NEW cs, Staged(i, b, pools[i], t, cs)
  PROVE  Kept(i, b, t)
<1> DEFINE q == pools[i]
<1>1. /\ i \in Stream!Pools /\ pools'[i] = t.pager
      /\ \A p \in Stream!Pools : p # i => pools'[p] = pools[p]
  BY StagePools
<1>2. /\ t.pager.cur = q.cur
      /\ IsResident(t.pager, b) /\ t.pager.epoch[b] = q.cur
      /\ \A c \in Blocks \ {b} :
           /\ IsResident(t.pager, c) =>
                IsResident(q, c) /\ t.pager.resident[c] = q.resident[c] /\ t.pager.epoch[c] = q.epoch[c]
           /\ IsResident(q, c) /\ q.epoch[c] = q.cur => IsResident(t.pager, c)
      /\ IsResident(q, b) => t.pager.resident = q.resident
      /\ ~IsResident(q, b) =>
           /\ t.pager.resident[b] = t.slot
           /\ \A c \in Blocks \ {b} : IsResident(t.pager, c) => t.pager.resident[c] # t.slot
  BY DEF Staged, Touched
<1> HIDE DEF q
<1>3. \A c \in Blocks : InBatchOf(i, c) <=> IsResident(q, c) /\ q.epoch[c] = q.cur
  BY DEF InBatchOf, q
<1>4. ASSUME NEW c \in Blocks, InBatchOf(i, c)
      PROVE  /\ IsResident(t.pager, c) /\ t.pager.epoch[c] = t.pager.cur
             /\ t.pager.resident[c] = q.resident[c]
             /\ ~IsResident(q, b) => q.resident[c] # t.slot
  <2>1. CASE c = b
    BY <1>2, <1>3, <1>4, <2>1
  <2>2. CASE c # b
    BY <1>2, <1>3, <1>4, <2>2
  <2> QED
    BY <2>1, <2>2
<1>5. \A c \in Blocks : IsResident(t.pager, c) /\ t.pager.epoch[c] = t.pager.cur =>
        c = b \/ InBatchOf(i, c)
  BY <1>2, <1>3
<1> QED
  BY <1>1, <1>2, <1>4, <1>5 DEF q, Kept

(* An expert of the role is staged: the batch and the windows stay right.      *)
LEMMA StagedMoe ==
  ASSUME RunInv, PoolInv, MoeInv, ~Stream!Dense, run.at = "stage", run.todo # <<>>,
         NEW i, i = run.role, NEW b, b = Head(run.todo), NEW t, NEW cs,
         Staged(i, b, pools[i], t, cs), ~IsResident(pools[i], b) => run.cursor < model.half,
         run'.at = "stage", run'.role = run.role, run'.ids = run.ids, run'.op = run.op,
         run'.todo = Tail(run.todo), run'.windows = run.windows, run'.words = run.words,
         Joined(Commands, run.rec, cs, run'.rec)
  PROVE  MoeInv'
<1>1. /\ Stream!InGraph /\ i \in Stream!Pools
      /\ ToSet(run.ids) \subseteq Stream!Experts /\ ToSet(run.todo) \subseteq ToSet(run.ids)
      /\ pools[i].cur > 0
      /\ \A c \in Blocks : InBatchOf(i, c) => c \in Stream!Experts
      /\ \A c \in ToSet(run.ids) :
           /\ c \in ToSet(run.todo) \/ InBatchOf(i, c)
           /\ \A p \in 1 .. i - 1 : IsResident(pools[p], c)
      /\ Len(run.windows) = i - 1
      /\ \A p \in 1 .. i - 1 :
           /\ run.windows[p] \in 1 .. run.words
           /\ \A c \in Stream!Experts : tape[run.windows[p]][c] = lut[p][c]
  BY DEF MoeInv, MoeStaging
<1>0. Kept(i, b, t)
  BY BatchKeeps, Zenon
<1>2. /\ i \in Stream!Pools /\ pools'[i].cur = pools[i].cur
      /\ \A p \in Stream!Pools : p # i => pools'[p] = pools[p]
      /\ IsResident(pools'[i], b) /\ pools'[i].epoch[b] = pools'[i].cur
      /\ \A c \in Blocks : InBatchOf(i, c) =>
           /\ IsResident(pools'[i], c) /\ pools'[i].epoch[c] = pools'[i].cur
           /\ pools'[i].resident[c] = pools[i].resident[c]
      /\ \A c \in Blocks : IsResident(pools'[i], c) /\ pools'[i].epoch[c] = pools'[i].cur =>
           c = b \/ InBatchOf(i, c)
      /\ ~IsResident(pools[i], b) =>
           /\ pools'[i].resident[b] = t.slot
           /\ \A c \in Blocks : InBatchOf(i, c) => pools[i].resident[c] # t.slot
  BY <1>0 DEF Kept
<1>3. model' = model /\ tape' = tape /\ \A p \in Stream!Pools : p # i => lut'[p] = lut[p]
  <2> DEFINE q == pools[i]
  <2>0. Staged(i, b, q, t, cs) /\ (~IsResident(q, b) => run.cursor < model.half)
    OBVIOUS
  <2> HIDE DEF q
  <2>1. \A p \in Stream!Pools : p # i => lut'[p] = lut[p]
    BY <2>0, StageRing DEF RingStaged
  <2>2. model' = model /\ tape' = tape
    BY DEF Staged
  <2> QED
    BY <2>1, <2>2
<1>4. /\ Stream!Pools' = Stream!Pools /\ Stream!Experts' = Stream!Experts
      /\ (Stream!InGraph' <=> Stream!InGraph) /\ (Stream!Dense' <=> Stream!Dense)
  BY <1>3, SameModel DEF Stream!Experts, Stream!Op, Stream!InGraph, Stream!Dense
<1>5. run.ids \in Seq(Blocks) /\ run.todo \in Seq(Blocks) /\ Stream!Experts \subseteq Blocks
  BY <1>1, OpIs DEF RunInv
<1>6. /\ b \in Blocks /\ b \in ToSet(run.todo)
      /\ ToSet(Tail(run.todo)) \subseteq ToSet(run.todo)
      /\ \A x \in ToSet(run.todo) : x = b \/ x \in ToSet(Tail(run.todo))
  BY <1>5, TailIs
<1>7. run.ids # <<>>
  <2>1. b \in ToSet(run.ids)
    BY <1>1, <1>6
  <2>2. ToSet(<<>>) = {}
    BY DEF ToSet
  <2> QED
    BY <2>1, <2>2
<1>8. Stream!Pools = 1 .. model.pools /\ model.pools \in Nat
  BY ModelIs DEF RunInv
<1>9. \A p \in 1 .. i - 1 : p \in Stream!Pools /\ p # i
  BY <1>1, <1>8
<1>10. \A c \in Blocks : (InBatchOf(i, c))' <=> IsResident(pools'[i], c) /\ pools'[i].epoch[c] = pools'[i].cur
  BY DEF InBatchOf, IsResident
<1>11. MoeStaging'
  <2>1. \A c \in ToSet(run.ids) :
          /\ c \in ToSet(Tail(run.todo)) \/ (IsResident(pools'[i], c) /\ pools'[i].epoch[c] = pools'[i].cur)
          /\ \A p \in 1 .. i - 1 : IsResident(pools'[p], c)
    <3> SUFFICES ASSUME NEW c \in ToSet(run.ids)
                 PROVE  /\ c \in ToSet(Tail(run.todo))
                             \/ (IsResident(pools'[i], c) /\ pools'[i].epoch[c] = pools'[i].cur)
                        /\ \A p \in 1 .. i - 1 : IsResident(pools'[p], c)
      OBVIOUS
    <3>1. c \in Blocks
      BY <1>1, <1>5
    <3> QED
      BY <1>1, <1>2, <1>6, <1>9, <3>1
  <2>2. \A p \in 1 .. i - 1 :
          /\ run.windows[p] \in 1 .. run.words
          /\ \A c \in Stream!Experts : tape'[run.windows[p]][c] = lut'[p][c]
    BY <1>1, <1>3, <1>9
  <2>3. \A c \in Blocks : IsResident(pools'[i], c) /\ pools'[i].epoch[c] = pools'[i].cur =>
          c \in Stream!Experts
    BY <1>1, <1>2, <1>6
  <2>4. ToSet(Tail(run.todo)) \subseteq ToSet(run.ids)
    BY <1>1, <1>6
  <2>5. \A s : (ToSet(s))' = ToSet(s)'
    OBVIOUS
  <2> QED
    BY <1>1, <1>2, <1>4, <1>7, <2>1, <2>2, <2>3, <2>4, SMTT(20) DEF MoeStaging, InBatchOf, IsResident
<1>12. PICK m \in DOMAIN run.rec : StagedSince(run.rec, m)
  BY DEF MoeInv
<1> DEFINE n == Len(run.rec)
           z == Len(cs)
           r == run'.rec
<1>13. /\ n \in Nat /\ z \in Nat /\ DOMAIN run.rec = 1 .. n /\ DOMAIN r = 1 .. n + z /\ Len(r) = n + z
       /\ \A k \in 1 .. n : r[k] = run.rec[k]
       /\ \A k \in 1 .. n + z : k > n => k - n \in DOMAIN cs /\ r[k] = cs[k - n]
  <2>1. \A k \in 1 .. n + z : k > n => k - n \in DOMAIN cs
    <3>1. n \in Nat /\ z \in Nat /\ DOMAIN cs = 1 .. z
      BY DEF Joined
    <3> HIDE DEF n, z
    <3> QED
      BY <3>1
  <2> QED
    BY <2>1 DEF Joined
<1>14. /\ run.rec[m].do = "barrier"
       /\ \A k \in m + 1 .. n :
            /\ run.rec[k].do = "copy" /\ run.rec[k].pool <= i
            /\ run.rec[k].pool = i =>
                 InBatchOf(i, run.rec[k].blk) /\ pools[i].resident[run.rec[k].blk] = run.rec[k].slot
  BY <1>12 DEF StagedSince
<1>15. \A k \in DOMAIN run.rec : run.rec[k].do = "copy" => run.rec[k].blk \in Blocks
  <2> SUFFICES ASSUME NEW k \in DOMAIN run.rec, run.rec[k].do = "copy"
               PROVE  run.rec[k].blk \in Blocks
    OBVIOUS
  <2>1. run.rec[k] \in Commands
    BY QueueIs DEF RunInv
  <2>2. run.rec[k] \in Copying
    BY <2>1, CommandIs DEF RunInv
  <2> QED
    BY <2>2, CopyIs
<1>16. \A k \in DOMAIN cs :
         /\ ~IsResident(pools[i], b)
         /\ cs[k].do = "copy" /\ cs[k].pool = i /\ cs[k].slot = t.slot /\ cs[k].blk = b
  BY CopiesAre
<1>17. i \in Nat
  BY <1>1, <1>8
<1> HIDE DEF n, z, r
<1>18. ASSUME NEW k \in m + 1 .. n + z
       PROVE  /\ r[k].do = "copy" /\ r[k].pool <= i
              /\ r[k].pool = i =>
                   /\ IsResident(pools'[i], r[k].blk) /\ pools'[i].epoch[r[k].blk] = pools'[i].cur
                   /\ pools'[i].resident[r[k].blk] = r[k].slot
  <2>1. CASE k <= n
    <3>1. k \in m + 1 .. n /\ k \in 1 .. n /\ r[k] = run.rec[k]
      BY <1>12, <1>13, <2>1
    <3>2. r[k].do = "copy" /\ r[k].pool <= i /\ r[k].blk \in Blocks
      BY <1>13, <1>14, <1>15, <3>1
    <3>3. r[k].pool = i => InBatchOf(i, r[k].blk) /\ pools[i].resident[r[k].blk] = r[k].slot
      BY <1>14, <3>1
    <3> QED
      BY <1>2, <3>2, <3>3
  <2>2. CASE k > n
    <3>1. k - n \in DOMAIN cs /\ r[k] = cs[k - n]
      BY <1>12, <1>13, <2>2
    <3> QED
      BY <1>2, <1>16, <1>17, <3>1
  <2> QED
    BY <1>12, <1>13, <2>1, <2>2
<1>19. m \in DOMAIN r /\ r[m].do = "barrier"
  BY <1>12, <1>13, <1>14
<1>20. (\E l \in DOMAIN run.rec : StagedSince(run.rec, l))'
  <2>1. run'.role = i /\ Len(r) = n + z
    BY <1>13
  <2>2. StagedSince(run.rec, m)'
    BY <1>18, <1>19, <2>1, SMTT(20) DEF StagedSince, InBatchOf, IsResident, r
  <2> QED
    BY <1>19, <2>2 DEF r
<1> QED
  BY <1>11, <1>20 DEF MoeInv

Associate(q, s, t) == (q \o s) \o t = q \o (s \o t)

LEMMA JoinJoins ==
  ASSUME NEW T, NEW q \in Seq(T), NEW s \in Seq(T), NEW t \in Seq(T)
  PROVE  Associate(q, s, t)
BY ConcatAssociative DEF Associate

LEMMA StageExpertStep ==
  ASSUME StreamInv, Stream!StageExpert
  PROVE  StreamInv'
<1>1. /\ RunInv /\ QueueInv /\ RingInv /\ PoolInv /\ Believed
      /\ FenceInv /\ PlaceInv /\ DenseInv /\ MoeInv
  BY DEF StreamInv
<1> DEFINE i == run.role
           b == Head(run.todo)
           q == pools[i]
           t == Touch(q, b, Stream!Policy)
           cs == Stream!Copies(i, q, b)
           after == Stream!CursorAfter(q, b)
           rec == run.rec \o cs
           todo == Tail(run.todo)
<1>2. /\ run.at = "stage" /\ ~Stream!Dense /\ run.todo # <<>> /\ ~Stream!Full(i, b)
      /\ Stream!Stage(i, q, b) /\ UNCHANGED <<model, device, forwards>>
      /\ run' = [run EXCEPT !.todo = todo, !.cursor = after, !.rec = rec]
  BY DEF Stream!StageExpert
<1>3. StagedNext(i, b, q)
  BY <1>1, <1>2, NextStaged
<1>4. Staged(i, b, q, t, cs)
  BY <1>2, <1>3, StageIs
<1>5. /\ after \in 0 .. model.half /\ run.cursor <= after /\ run.cursor \in Nat /\ after \in Nat
      /\ ~IsResident(q, b) => run.cursor < model.half /\ after = run.cursor + 1
  <2>1. run.cursor \in 0 .. model.half /\ model.half \in Nat
    BY <1>1, ModelIs DEF RunInv
  <2>2. /\ IsResident(q, b) => after = run.cursor
        /\ ~IsResident(q, b) => run.cursor < model.half /\ after = run.cursor + 1
    <3>1. after = IF IsResident(q, b) THEN run.cursor ELSE run.cursor + 1
      BY StreamOperators DEF Stream!CursorAfter
    <3>2. IsResident(q, b) \/ ~(run.cursor >= model.half)
      BY <1>2, StreamOperators DEF Stream!Full
    <3> HIDE DEF after, q, b
    <3> QED
      BY <2>1, <3>1, <3>2
  <2> HIDE DEF after, q, b
  <2> QED
    BY <2>1, <2>2
<1>6. DOMAIN run = RunFields
  BY <1>1 DEF RunInv
<1>q. q = pools[i] /\ i = run.role /\ b = Head(run.todo) /\ todo = Tail(run.todo)
  OBVIOUS
<1> HIDE DEF i, b, q, t, cs, after, rec, todo
<1>7. /\ DOMAIN run' = RunFields
      /\ run'.at = "stage" /\ run'.segments = run.segments /\ run'.rec = rec
      /\ run'.fences = run.fences
      /\ run'.op = run.op /\ run'.wide = run.wide /\ run'.half = run.half
      /\ run'.cursor = after /\ run'.pending = run.pending /\ run'.words = run.words
      /\ run'.role = run.role /\ run'.ids = run.ids /\ run'.todo = todo
      /\ run'.windows = run.windows
  BY <1>2, <1>6 DEF RunFields
<1>8. device \in Seq(Commands) /\ run.rec \in Seq(Commands) /\ cs \in Seq(Commands)
  BY <1>1, <1>4, <1>5, CopiesAre DEF RunInv
<1>9. Joined(Commands, run.rec, cs, rec)
  BY <1>8, JoinIsJoined, Zenon DEF rec
<1>10. Ahead' = Ahead \o cs
  <2>1. Ahead' = device \o (run.rec \o cs)
    BY <1>2, <1>7 DEF Ahead, rec
  <2>2. Associate(device, run.rec, cs)
    BY <1>8, JoinJoins, Zenon
  <2> QED
    BY <2>1, <2>2 DEF Ahead, Associate
<1>11. PICK m \in DOMAIN run.rec : StagedSince(run.rec, m)
  BY <1>1, <1>2 DEF MoeInv
<1>12. ~IsResident(q, b) => ClearSince(m, i, t.slot)
  <2> SUFFICES ASSUME ~IsResident(q, b), NEW k \in m + 1 .. Len(run.rec),
                      run.rec[k].pool = i, run.rec[k].slot = t.slot
               PROVE  FALSE
    BY <1>11 DEF ClearSince, StagedSince
  <2>1. Kept(i, b, t)
    BY <1>1, <1>4, <1>q, BatchKeeps
  <2>2. \A c \in Blocks : InBatchOf(i, c) => q.resident[c] # t.slot
    BY <2>1, <1>q DEF Kept
  <2>3. /\ run.rec[k].do = "copy" /\ InBatchOf(i, run.rec[k].blk)
        /\ q.resident[run.rec[k].blk] = run.rec[k].slot
    BY <1>11, <1>q DEF StagedSince
  <2>4. run.rec[k] \in Commands
    <3>1. k \in DOMAIN run.rec
      BY <1>8, <1>11
    <3> QED
      BY <1>8, <3>1
  <2>5. run.rec[k].blk \in Blocks
    BY <1>1, <2>3, <2>4, CommandIs, CopyIs DEF RunInv
  <2> QED
    BY <2>2, <2>3, <2>5
<1>13. QueueInv'
  <2>1. /\ Ahead \o cs \in Seq(Commands) /\ Apart(Ahead \o cs)
        /\ ReadsAreRight(Ahead \o cs, arena, tape) /\ WindowsAreOld(Ahead \o cs, run.words)
    BY <1>1, <1>4, <1>5, <1>12, StageQueue
  <2>2. Commands' = Commands /\ arena' = arena /\ tape' = tape
    BY <1>2, <1>4, SameModel DEF Staged
  <2> QED
    BY <1>7, <1>10, <2>1, <2>2 DEF QueueInv
<1>14. PoolInv'
  BY <1>1, <1>4, StagePools
<1>15. Believed'
  <2>1. \A p \in Stream!Pools, c \in Blocks :
          IsResident(pools'[p], c) /\ <<p, c>> \notin lost' =>
            /\ lut'[p][c] = pools'[p].resident[c]
            /\ Holds(Ahead \o cs, Len(Ahead \o cs) + 1, arena, p, pools'[p].resident[c], c)
    BY <1>1, <1>4, <1>5, StageBelieves
  <2>2. Stream!Pools' = Stream!Pools /\ arena' = arena
    BY <1>2, <1>4, SameModel DEF Staged
  <2> QED
    BY <1>10, <2>1, <2>2 DEF Believed
<1>16. /\ ring' \in [{0, 1} \X (0 .. model.half - 1) -> Blocks \cup {NoBlock}]
       /\ \A x \in {0, 1} \X (0 .. model.half - 1) :
            x[1] # run.half \/ x[2] < run.cursor => ring'[x] = ring[x]
       /\ \A k \in DOMAIN cs :
            ring'[cs[k].from] = cs[k].blk /\ cs[k].from[1] = run.half /\ cs[k].from[2] = run.cursor
       /\ lut' \in [Stream!Pools -> [Blocks -> Slots \cup {NoSlot}]]
       /\ lost' \subseteq Stream!Pools \X Blocks /\ lost' \subseteq lost
       /\ \A p \in Stream!Pools : p # i => lut'[p] = lut[p]
  <2>1. RunInv /\ Staged(i, b, q, t, cs) /\ (~IsResident(q, b) => run.cursor < model.half)
    BY <1>1, <1>4, <1>5
  <2> QED
    <3>1. RingStaged(i, cs)
      BY <2>1, StageRing, Zenon
    <3> QED
      BY <3>1 DEF RingStaged
<1>17. RingInv'
  <2>1. \A k \in DOMAIN device : k \in DOMAIN device' /\ device'[k] = device[k]
    BY <1>2
  <2>2. \A k \in DOMAIN cs : ~IsResident(q, b)
    BY <1>1, <1>4, <1>5, CopiesAre
  <2>3. \A k \in DOMAIN cs : cs[k].do = "copy" =>
          /\ ring'[cs[k].from] = cs[k].blk
          /\ cs[k].from[1] = run.half /\ cs[k].from[2] < run'.cursor
    BY <1>5, <1>7, <1>16, <2>2
  <2>4. run'.half = run.half /\ run'.pending = run.pending /\ run.at # "rotate" /\ run'.at # "rotate"
        /\ run'.cursor \in Nat /\ run.cursor <= run'.cursor
    BY <1>2, <1>5, <1>7
  <2> QED
    BY <1>1, <1>8, <1>10, <1>16, <2>1, <2>3, <2>4, RingGrows
<1>18. RunInv'
  <2>1. Stream!Pools' = Stream!Pools /\ Commands' = Commands
    BY <1>2, SameModel
  <2>2. rec \in Seq(Commands) /\ todo \in Seq(Blocks)
    <3>1. todo \in Seq(Blocks)
      BY <1>1, <1>2, <1>q, TailIs DEF RunInv
    <3> QED
      BY <1>9, <3>1 DEF Joined
  <2>3. tape' = tape /\ arena' = arena
    BY <1>4 DEF Staged
  <2> QED
    BY <1>1, <1>2, <1>5, <1>7, <1>16, <2>1, <2>2, <2>3 DEF RunInv, RunPlaces
<1>19. FenceInv'
  <2>1. Stream!InFlight' = Stream!InFlight
    BY <1>7 DEF Stream!InFlight
  <2>2. \A k \in DOMAIN rec : rec[k].do # "fence"
    <3>1. /\ \A k \in DOMAIN run.rec : run.rec[k].do # "fence"
          /\ \A k \in DOMAIN cs : cs[k].do # "fence"
      BY <1>1, <1>4, <1>5, CopiesAre DEF FenceInv
    <3>2. \A k \in DOMAIN rec : (k \in DOMAIN run.rec /\ rec[k] = run.rec[k])
                                \/ (k - Len(run.rec) \in DOMAIN cs /\ rec[k] = cs[k - Len(run.rec)])
      BY <1>9, SMTT(20) DEF Joined
    <3> QED
      BY <3>1, <3>2
  <2> QED
    BY <1>1, <1>2, <1>7, <2>1, <2>2 DEF FenceInv
<1>20. MoeInv'
  <2>1. Joined(Commands, run.rec, cs, run'.rec)
    BY <1>7, <1>9
  <2>2. Staged(i, b, pools[i], t, cs) /\ (~IsResident(pools[i], b) => run.cursor < model.half)
    BY <1>4, <1>5, <1>q
  <2> QED
    BY <1>1, <1>2, <1>7, <1>q, <2>1, <2>2, StagedMoe
<1>21. DenseInv' /\ PlaceInv'
  BY <1>2, <1>7 DEF DenseInv, PlaceInv, Stream!Dense
<1> QED
  BY <1>13, <1>14, <1>15, <1>17, <1>18, <1>19, <1>20, <1>21 DEF StreamInv

(* The dispatch that follows the copy of a dense block.                      *)
DenseRead(s, b, c) ==
  /\ c \in Reading /\ c \in Commands /\ c.do = "read" /\ c.pool = 1 /\ c.window = 0
  /\ c.slot = s /\ c.sound \subseteq {b} /\ (b \in c.sound => <<1, b>> \notin lost')

LEMMA DenseReadIs ==
  ASSUME RunInv, NEW s \in Slots, NEW b \in Blocks
  PROVE  DenseRead(s, b, Stream!Read(1, 0, s, {b}, lost'))
<1> DEFINE c == Stream!Read(1, 0, s, {b}, lost')
<1>1. c = [do |-> "read", pool |-> 1, window |-> 0, slot |-> s, need |-> {b},
           sound |-> {x \in {b} : <<1, x>> \notin lost'}]
  BY DEF Stream!Read
<1>2. 1 \in Stream!Pools /\ 0 \in 0 .. model.tape
  BY ModelIs DEF RunInv
<1> DEFINE S == {x \in {b} : <<1, x>> \notin lost'}
<1>3. S \subseteq {b} /\ S \in SUBSET Blocks /\ (b \in S => <<1, b>> \notin lost') /\ {b} \in SUBSET Blocks
  OBVIOUS
<1> HIDE DEF c, S
<1>4. c = [do |-> "read", pool |-> 1, window |-> 0, slot |-> s, need |-> {b}, sound |-> S]
  BY <1>1 DEF S
<1>5. c \in Reading
  BY <1>2, <1>3, <1>4 DEF Reading
<1>6. /\ c.do = "read" /\ c.pool = 1 /\ c.window = 0 /\ c.slot = s /\ c.sound = S
  BY <1>4
<1>7. DenseRead(s, b, c)
  BY <1>3, <1>5, <1>6 DEF DenseRead, Commands
<1> QED
  BY <1>7 DEF c

(* A barrier and a dispatch whose block is where the CPU believes it to be.    *)
LEMMA DenseQueue ==
  ASSUME model \in Models, NEW q \in Seq(Commands), NEW bar \in Commands, bar.do = "barrier",
         NEW c, NEW s \in Slots, NEW b, DenseRead(s, b, c), NEW t, Two(Commands, bar, c, t),
         NEW held, NEW tp, NEW w \in Nat,
         Apart(q), ReadsAreRight(q, held, tp), WindowsAreOld(q, w),
         b \in c.sound => Holds(q, Len(q) + 1, held, 1, s, b)
  PROVE  /\ q \o t \in Seq(Commands) /\ Apart(q \o t)
         /\ ReadsAreRight(q \o t, held, tp) /\ WindowsAreOld(q \o t, w)
<1>1. /\ t \in Seq(Commands) /\ Len(t) = 2 /\ DOMAIN t = {1, 2} /\ t[1] = bar /\ t[2] = c
  BY DEF Two
<1>2. /\ c.do = "read" /\ c.pool = 1 /\ c.window = 0
      /\ c.slot = s /\ c.sound \subseteq {b}
  BY DEF DenseRead
<1>3. Joined(Commands, q, t, q \o t)
  BY <1>1, JoinIsJoined, Zenon
<1>4. Apart(t)
  BY <1>1, <1>2 DEF Apart, Clash
<1>5. Apart(q \o t)
  <2>1. ASSUME NEW i \in DOMAIN q, NEW k \in DOMAIN t, Clash(q[i], t[k])
        PROVE  \E x \in 1 .. k - 1 : t[x].do = "barrier"
    <3>1. k = 2
      BY <1>1, <2>1 DEF Clash
    <3> QED
      BY <1>1, <3>1
  <2> QED
    BY <1>1, <1>4, <2>1, GrowsApart
<1>6. \A k \in DOMAIN t : ~CopyTo(t, k, 1, s)
  BY <1>1, <1>2 DEF CopyTo
<1>7. ReadsAreRight(q \o t, held, tp)
  <2>1. ASSUME NEW k \in DOMAIN t, t[k].do = "read", NEW x \in t[k].sound
        PROVE  /\ SlotOf(t[k], tp, x) \in Slots
               /\ Holds(q \o t, Len(q) + k, held, t[k].pool, SlotOf(t[k], tp, x), x)
    <3>1. k = 2 /\ t[k] = c /\ x = b /\ b \in c.sound
      BY <1>1, <1>2, <2>1
    <3>2. SlotOf(c, tp, x) = s
      BY <1>2 DEF SlotOf
    <3>3. 1 \in 0 .. Len(t)
      BY <1>1
    <3>4. Holds(q \o t, Len(q) + 1 + 1, held, 1, s, b)
      BY <1>1, <1>6, <3>1, <3>3, GrowsHolding
    <3>5. Len(q) + 1 + 1 = Len(q) + k
      BY <1>3, <3>1 DEF Joined
    <3> QED
      BY <1>2, <3>1, <3>2, <3>4, <3>5
  <2> QED
    BY <1>1, <2>1, GrowsRight
<1>8. WindowsAreOld(q \o t, w)
  <2> DEFINE r == q \o t
  <2>1. \A j \in DOMAIN r : (j \in DOMAIN q /\ r[j] = q[j])
                            \/ (j - Len(q) \in DOMAIN t /\ r[j] = t[j - Len(q)])
    <3> HIDE DEF r
    <3>1. Joined(Commands, q, t, r)
      BY <1>3 DEF r
    <3> QED
      BY <3>1 DEF Joined
  <2> HIDE DEF r
  <2>2. \A k \in DOMAIN t : t[k].do = "read" => t[k].window <= w
    BY <1>1, <1>2
  <2>3. WindowsAreOld(r, w)
    BY <2>1, <2>2 DEF WindowsAreOld
  <2> QED
    BY <2>3 DEF r
<1>9. q \o t \in Seq(Commands)
  BY <1>3 DEF Joined
<1> QED
  BY <1>5, <1>7, <1>8, <1>9

Splits(q, t, r) ==
  \A k \in DOMAIN r : (k \in DOMAIN q /\ r[k] = q[k])
                       \/ (k - Len(q) \in DOMAIN t /\ r[k] = t[k - Len(q)])

LEMMA JoinSplits ==
  ASSUME NEW T, NEW q, NEW t, NEW r, Joined(T, q, t, r)
  PROVE  Splits(q, t, r)
BY DEF Joined, Splits

LEMMA SlotTold ==
  ASSUME RunInv, PoolInv, NEW i, NEW b, NEW q, NEW cs,
         Staged(i, b, q, Touch(q, b, Stream!Policy), cs)
  PROVE  LET s == Touch(q, b, Stream!Policy).slot
         IN  /\ s \in Slots /\ b \in Blocks /\ i \in Stream!Pools
             /\ IsResident(pools'[i], b) /\ pools'[i].resident[b] = s
<1> DEFINE t == Touch(q, b, Stream!Policy)
<1>1. /\ StagedNext(i, b, q) /\ Touched(q, b, t)
  BY DEF Staged
<1>2. i \in Stream!Pools /\ b \in Blocks /\ q.resident \in [Blocks -> Slots \cup {NoSlot}]
  BY <1>1, FieldsType DEF StagedNext, Sound
<1>3. pools'[i] = t.pager
  BY StagePools
<1>4. IsResident(q, b) => t.slot = q.resident[b] /\ t.slot \in Slots
  <2>1. IsResident(q, b) => t.slot = q.resident[b]
    BY DEF Touch
  <2> HIDE DEF t
  <2> QED
    BY <1>2, <2>1 DEF IsResident
<1> HIDE DEF t
<1>5. IsResident(t.pager, b) /\ t.pager.resident[b] = t.slot /\ t.slot \in Slots
  BY <1>1, <1>4 DEF Touched
<1> QED
  BY <1>2, <1>3, <1>5 DEF t

LEMMA StageDenseStep ==
  ASSUME StreamInv, Stream!StageDense
  PROVE  StreamInv'
<1>1. /\ RunInv /\ QueueInv /\ RingInv /\ PoolInv /\ Believed
      /\ FenceInv /\ PlaceInv /\ DenseInv /\ MoeInv
  BY DEF StreamInv
<1> DEFINE b == Head(run.todo)
           q == BeginBatch(pools[1])
           t == Touch(q, b, Stream!Policy)
           s == t.slot
           cs == Stream!Copies(1, q, b)
           after == Stream!CursorAfter(q, b)
           bar == Stream!Barrier
           rd == Stream!Read(1, 0, s, {b}, lost')
           t2 == <<bar, rd>>
           rec == (run.rec \o cs) \o t2
           z == run.op + 1
<1>2. run.at = "stage" /\ Stream!Dense
  BY DEF Stream!StageDense
<1>3. /\ Stream!InGraph /\ run.todo = Stream!Op /\ run.role = 1
      /\ run.rec # <<>> /\ run.rec[Len(run.rec)].do = "barrier"
  BY <1>1, <1>2 DEF DenseInv
<1>4. run.todo # <<>> /\ b = run.todo[1]
  <2>1. Len(run.todo) = 1
    BY <1>1, <1>2, <1>3, OpIs
  <2>2. run.todo \in Seq(Blocks)
    BY <1>1 DEF RunInv
  <2>3. \A u \in Seq(Blocks) : Len(u) = 1 => u # <<>> /\ Head(u) = u[1]
    OBVIOUS
  <2> QED
    BY <2>1, <2>2, <2>3
<1>5. /\ ~Stream!Full(1, b)
      /\ Stream!Stage(1, q, b) /\ UNCHANGED <<model, device, forwards>>
      /\ run' = [run EXCEPT !.at = "op", !.op = z, !.todo = <<>>, !.cursor = after, !.rec = rec]
  <2>1. Stream!BeginBatch(pools[1]) = q /\ Stream!Touch(q, b, Stream!Policy) = t
    BY StreamOperators
  <2>2. b = run.todo[1]
    BY <1>4
  <2> HIDE DEF q, b, t
  <2> QED
    BY <2>1, <2>2 DEF Stream!StageDense
<1>6. StagedNext(1, b, q)
  BY <1>1, <1>2, <1>3, <1>4, NextStaged
<1>7. Staged(1, b, q, t, cs)
  BY <1>5, <1>6, StageIs
<1>8. s \in Slots /\ b \in Blocks /\ 1 \in Stream!Pools
      /\ IsResident(pools'[1], b) /\ pools'[1].resident[b] = s
  BY <1>1, <1>7, SlotTold
<1>9. /\ after \in 0 .. model.half /\ run.cursor <= after /\ run.cursor \in Nat /\ after \in Nat
      /\ ~IsResident(q, b) => run.cursor < model.half /\ after = run.cursor + 1
  <2>1. run.cursor \in 0 .. model.half /\ model.half \in Nat
    BY <1>1, ModelIs DEF RunInv
  <2>2. /\ IsResident(q, b) => after = run.cursor
        /\ ~IsResident(q, b) => run.cursor < model.half /\ after = run.cursor + 1
    <3>1. after = IF IsResident(q, b) THEN run.cursor ELSE run.cursor + 1
      BY StreamOperators DEF Stream!CursorAfter
    <3>2. IsResident(pools[1], b) \/ ~(run.cursor >= model.half)
      BY <1>5, StreamOperators DEF Stream!Full
    <3>3. IsResident(pools[1], b) <=> IsResident(q, b)
      BY <1>6 DEF StagedNext, IsResident
    <3> HIDE DEF after, q, b
    <3> QED
      BY <2>1, <3>1, <3>2, <3>3
  <2> HIDE DEF after, q, b
  <2> QED
    BY <2>1, <2>2
<1>10. DenseRead(s, b, rd)
  BY <1>1, <1>8, DenseReadIs, Zenon
<1>11. bar \in Commands /\ bar.do = "barrier"
  BY DEF Commands, Stream!Barrier
<1>12. DOMAIN run = RunFields /\ run.op \in Nat
  BY <1>1 DEF RunInv
<1> HIDE DEF b, q, t, s, cs, after, bar, rd
<1>13. Two(Commands, bar, rd, t2)
  <2>1. rd \in Commands
    BY <1>10 DEF DenseRead
  <2> QED
    BY <1>11, <2>1 DEF Two
<1> HIDE DEF t2, rec, z
<1>14. /\ DOMAIN run' = RunFields
       /\ run'.at = "op" /\ run'.segments = run.segments /\ run'.rec = rec
       /\ run'.fences = run.fences
       /\ run'.op = z /\ run'.wide = run.wide /\ run'.half = run.half
       /\ run'.cursor = after /\ run'.pending = run.pending /\ run'.words = run.words
       /\ run'.role = run.role /\ run'.ids = run.ids /\ run'.todo = <<>>
       /\ run'.windows = run.windows
  BY <1>5, <1>12 DEF RunFields
<1>15. /\ device \in Seq(Commands) /\ run.rec \in Seq(Commands) /\ cs \in Seq(Commands)
       /\ t2 \in Seq(Commands) /\ Ahead \in Seq(Commands)
  <2>1. cs \in Seq(Commands)
    BY <1>1, <1>7, <1>9, CopiesAre
  <2>2. Ahead \in Seq(Commands)
    BY <1>1, QueueIs, Zenon
  <2>3. t2 \in Seq(Commands)
    BY <1>13 DEF Two
  <2> QED
    BY <1>1, <2>1, <2>2, <2>3 DEF RunInv
<1> DEFINE rc == run.rec \o cs
           a2 == Ahead \o cs
           ct == cs \o t2
<1>16. /\ Joined(Commands, run.rec, cs, rc) /\ Joined(Commands, rc, t2, rec)
       /\ Joined(Commands, cs, t2, ct)
  <2>1. Joined(Commands, run.rec, cs, rc)
    BY <1>15, JoinIsJoined, Zenon
  <2>2. rc \in Seq(Commands)
    BY <2>1 DEF Joined
  <2>3. Joined(Commands, cs, t2, ct)
    BY <1>15, JoinIsJoined, Zenon
  <2> HIDE DEF ct
  <2>4. rec = rc \o t2
    BY DEF rec
  <2> HIDE DEF rc
  <2>5. Joined(Commands, rc, t2, rc \o t2)
    BY <1>15, <2>2, JoinIsJoined, Zenon
  <2> QED
    BY <2>1, <2>3, <2>4, <2>5
<1>17. Ahead' = a2 \o t2 /\ Ahead' = Ahead \o ct
  <2>1. Ahead' = device \o rec
    BY <1>5, <1>14 DEF Ahead
  <2>2. rec = rc \o t2 /\ rc \in Seq(Commands)
    BY <1>16 DEF rec, Joined
  <2>3. Associate(device, run.rec, cs) /\ Associate(Ahead, cs, t2)
    BY <1>15, JoinJoins, Zenon
  <2> HIDE DEF rc, ct
  <2>4. Associate(device, rc, t2)
    BY <1>15, <2>2, JoinJoins, Zenon
  <2>5. (device \o rc) \o t2 = device \o rec
    BY <2>2, <2>4 DEF Associate
  <2>6. device \o rc = a2
    BY <2>3 DEF Associate, Ahead, rc
  <2>7. a2 \o t2 = Ahead \o ct
    BY <2>3 DEF Associate, ct
  <2> HIDE DEF a2
  <2> QED
    BY <2>1, <2>5, <2>6, <2>7
<1> DEFINE m == Len(run.rec)
<1>18. ClearSince(m, 1, s)
  <2>1. m \in DOMAIN run.rec /\ run.rec[m].do = "barrier"
    BY <1>1, <1>3 DEF RunInv
  <2>2. m \in Nat
    BY <1>15
  <2>3. \A k \in m + 1 .. m : FALSE
    BY <2>2
  <2> QED
    BY <2>1, <2>3 DEF ClearSince
<1> HIDE DEF m
<1>19. /\ a2 \in Seq(Commands) /\ Apart(a2)
       /\ ReadsAreRight(a2, arena, tape) /\ WindowsAreOld(a2, run.words)
  <2>1. ~IsResident(q, b) => ClearSince(m, 1, t.slot)
    BY <1>18 DEF s
  <2> QED
    BY <1>1, <1>7, <1>9, <2>1, StageQueue
<1>20. \A p \in Stream!Pools, c \in Blocks :
         IsResident(pools'[p], c) /\ <<p, c>> \notin lost' =>
           /\ lut'[p][c] = pools'[p].resident[c]
           /\ Holds(a2, Len(a2) + 1, arena, p, pools'[p].resident[c], c)
  BY <1>1, <1>7, <1>9, StageBelieves
<1> HIDE DEF a2
<1>21. arena' = arena /\ tape' = tape /\ Stream!Pools' = Stream!Pools /\ Commands' = Commands
  BY <1>5, <1>7, SameModel DEF Staged
<1>22. QueueInv'
  <2>1. b \in rd.sound => Holds(a2, Len(a2) + 1, arena, 1, s, b)
    BY <1>8, <1>10, <1>20 DEF DenseRead
  <2>2. model \in Models /\ run.words \in Nat
    BY <1>1, ModelIs DEF RunInv
  <2>3. /\ a2 \o t2 \in Seq(Commands) /\ Apart(a2 \o t2)
        /\ ReadsAreRight(a2 \o t2, arena, tape) /\ WindowsAreOld(a2 \o t2, run.words)
    BY <1>8, <1>10, <1>11, <1>13, <1>19, <2>1, <2>2, DenseQueue
  <2> QED
    BY <1>14, <1>17, <1>21, <2>3 DEF QueueInv
<1>23. PoolInv'
  BY <1>1, <1>7, StagePools
<1>24. /\ Len(t2) = 2 /\ DOMAIN t2 = {1, 2}
       /\ \A k \in DOMAIN t2 : t2[k].do \in {"barrier", "read"}
  BY <1>10, <1>11, <1>13 DEF Two, DenseRead
<1>25. Believed'
  <2> SUFFICES ASSUME NEW p \in Stream!Pools, NEW c \in Blocks,
                      IsResident(pools'[p], c), <<p, c>> \notin lost'
               PROVE  /\ lut'[p][c] = pools'[p].resident[c]
                      /\ Holds(Ahead', Len(Ahead') + 1, arena, p, pools'[p].resident[c], c)
    BY <1>21 DEF Believed
  <2> DEFINE u == pools'[p].resident[c]
  <2>1. lut'[p][c] = u /\ Holds(a2, Len(a2) + 1, arena, p, u, c)
    BY <1>20
  <2> HIDE DEF u
  <2>2. \A k \in DOMAIN t2 : ~CopyTo(t2, k, p, u)
    BY <1>24 DEF CopyTo
  <2>3. 2 \in 0 .. Len(t2)
    BY <1>24
  <2>4. Holds(a2 \o t2, Len(a2) + 1 + 2, arena, p, u, c)
    BY <1>15, <1>19, <2>1, <2>2, <2>3, GrowsHolding
  <2>5. Len(a2) + 1 + 2 = Len(a2 \o t2) + 1
    <3>1. Len(a2 \o t2) = Len(a2) + Len(t2) /\ Len(a2) \in Nat
      BY <1>15, <1>19, ConcatProperties
    <3> DEFINE v == Len(a2)
               w == Len(a2 \o t2)
    <3>2. w = v + 2 /\ v \in Nat
      BY <1>24, <3>1
    <3> HIDE DEF v, w
    <3>3. v + 1 + 2 = w + 1
      BY <3>2
    <3> QED
      BY <3>3 DEF v, w
  <2> QED
    BY <1>17, <2>1, <2>4, <2>5 DEF u
<1>26. RingStaged(1, cs)
  <2>1. RunInv /\ Staged(1, b, q, t, cs) /\ (~IsResident(q, b) => run.cursor < model.half)
    BY <1>1, <1>7, <1>9
  <2> QED
    BY <2>1, StageRing, Zenon
<1>27. RingInv'
  <2>1. \A k \in DOMAIN device : k \in DOMAIN device' /\ device'[k] = device[k]
    BY <1>5
  <2>2. \A k \in DOMAIN cs : ~IsResident(q, b)
    BY <1>1, <1>7, <1>9, CopiesAre
  <2>3. \A k \in DOMAIN cs :
          /\ ring'[cs[k].from] = cs[k].blk
          /\ cs[k].from[1] = run.half /\ cs[k].from[2] < run'.cursor
    BY <1>9, <1>14, <1>26, <2>2 DEF RingStaged
  <2>4. \A k \in DOMAIN ct : (k \in DOMAIN cs /\ ct[k] = cs[k])
                             \/ (k - Len(cs) \in DOMAIN t2 /\ ct[k] = t2[k - Len(cs)])
    <3> HIDE DEF ct
    <3> QED
      BY <1>16 DEF Joined
  <2>5. ct \in Seq(Commands)
    BY <1>16 DEF Joined
  <2> HIDE DEF ct
  <2>6. \A k \in DOMAIN ct : ct[k].do = "copy" =>
          /\ ring'[ct[k].from] = ct[k].blk
          /\ ct[k].from[1] = run.half /\ ct[k].from[2] < run'.cursor
    BY <1>24, <2>3, <2>4
  <2>7. /\ run'.half = run.half /\ run'.pending = run.pending /\ run.at # "rotate" /\ run'.at # "rotate"
        /\ run'.cursor \in Nat /\ run.cursor <= run'.cursor
    BY <1>2, <1>9, <1>14
  <2>8. \A x \in {0, 1} \X (0 .. model.half - 1) :
          x[1] # run.half \/ x[2] < run.cursor => ring'[x] = ring[x]
    BY <1>26 DEF RingStaged
  <2> QED
    BY <1>1, <1>17, <2>1, <2>5, <2>6, <2>7, <2>8, RingGrows
<1>28. RunInv'
  <2>1. rec \in Seq(Commands) /\ <<>> \in Seq(Blocks) /\ z \in Nat \ {0}
    BY <1>12, <1>16 DEF Joined, z
  <2> QED
    BY <1>1, <1>5, <1>9, <1>14, <1>21, <1>26, <2>1 DEF RunInv, RunPlaces, RingStaged
<1>29. FenceInv'
  <2>1. Stream!InFlight' = Stream!InFlight
    BY <1>14 DEF Stream!InFlight
  <2>2. \A k \in DOMAIN rec : rec[k].do # "fence"
    <3>1. /\ \A k \in DOMAIN run.rec : run.rec[k].do # "fence"
          /\ \A k \in DOMAIN cs : cs[k].do # "fence"
      BY <1>1, <1>7, <1>9, CopiesAre DEF FenceInv
    <3> HIDE DEF rc
    <3>2. \A k \in DOMAIN rc : (k \in DOMAIN run.rec /\ rc[k] = run.rec[k])
                               \/ (k - Len(run.rec) \in DOMAIN cs /\ rc[k] = cs[k - Len(run.rec)])
      <4>1. Joined(Commands, run.rec, cs, rc)
        BY <1>16
      <4>2. Splits(run.rec, cs, rc)
        BY <4>1, JoinSplits, Zenon
      <4> QED
        BY <4>2 DEF Splits
    <3>3. \A k \in DOMAIN rec : (k \in DOMAIN rc /\ rec[k] = rc[k])
                                \/ (k - Len(rc) \in DOMAIN t2 /\ rec[k] = t2[k - Len(rc)])
      <4>1. Joined(Commands, rc, t2, rec)
        BY <1>16
      <4>2. Splits(rc, t2, rec)
        BY <4>1, JoinSplits, Zenon
      <4> QED
        BY <4>2 DEF Splits
    <3> QED
      BY <1>24, <3>1, <3>2, <3>3
  <2> QED
    BY <1>1, <1>2, <1>5, <1>14, <2>1, <2>2 DEF FenceInv
<1>30. DenseInv' /\ MoeInv' /\ PlaceInv'
  BY <1>3, <1>14 DEF DenseInv, MoeInv, MoeStaging, PlaceInv
<1> QED
  BY <1>22, <1>23, <1>25, <1>27, <1>28, <1>29, <1>30 DEF StreamInv

-----------------------------------------------------------------------------
(* lut_window: w is the window that is written, ws the op's windows with it.    *)
Told(w, ws) ==
  /\ w = run.words + 1 /\ w \in 1 .. model.tape /\ run.words \in Nat
  /\ DOMAIN tape' = 1 .. model.tape
  /\ \A v \in 1 .. run.words : tape'[v] = tape[v]
  /\ ws \in Seq(Nat) /\ Len(ws) = run.role /\ run.role \in Stream!Pools
  /\ \A p \in 1 .. run.role :
       /\ ws[p] \in 1 .. w
       /\ \A b \in Stream!Experts : tape'[ws[p]][b] = lut[p][b]

LEMMA WindowTold ==
  ASSUME RunInv, MoeInv, run.at = "stage", ~Stream!Dense, run.words < model.tape,
         NEW w, w = run.words + 1, NEW new,
         new = [b \in Stream!Experts |-> lut[run.role][b]], tape' = [tape EXCEPT ![w] = new]
  PROVE  Told(w, Append(run.windows, w))
<1>1. /\ run.role \in Stream!Pools /\ Len(run.windows) = run.role - 1
      /\ \A p \in 1 .. run.role - 1 :
           /\ run.windows[p] \in 1 .. run.words
           /\ \A b \in Stream!Experts : tape[run.windows[p]][b] = lut[p][b]
  BY DEF MoeInv, MoeStaging
<1> DEFINE i == run.role
           n == run.words
           ws == Append(run.windows, w)
<1>2. i \in Nat /\ i > 0
  BY <1>1, ModelIs DEF RunInv
<1> DEFINE z == model.tape
<1>z. z \in Nat /\ n \in 0 .. z /\ n < z /\ w = n + 1
  <2>1. z \in Nat
    BY ModelIs DEF RunInv
  <2> QED
    BY <2>1 DEF RunInv
<1> HIDE DEF z, n
<1>3. n \in Nat /\ w = n + 1 /\ w \in 1 .. z
  BY <1>z
<1>4. w \in Nat /\ run.windows \in Seq(Nat)
  BY <1>3 DEF RunInv
<1>5. Added(Nat, run.windows, w, ws)
  BY <1>4, AppendAdds, Zenon
<1>6. DOMAIN tape = 1 .. z
  BY DEF RunInv, z
<1>7. /\ DOMAIN tape' = 1 .. z /\ tape'[w] = new
      /\ \A v \in 1 .. z : v # w => tape'[v] = tape[v]
  BY <1>3, <1>6
<1>8. \A v \in 1 .. n : v \in 1 .. z /\ v # w /\ v \in 1 .. w
  BY <1>z
<1>9. \A b \in Stream!Experts : tape'[w][b] = lut[i][b]
  BY <1>7
<1>10. w \in 1 .. w
  BY <1>3
<1> HIDE DEF i, ws
<1>11. /\ ws \in Seq(Nat) /\ Len(ws) = i /\ ws[i] = w
       /\ \A p \in 1 .. i - 1 : ws[p] = run.windows[p]
  BY <1>1, <1>2, <1>5 DEF Added, i
<1>12. \A p \in 1 .. i :
         /\ ws[p] \in 1 .. w
         /\ \A b \in Stream!Experts : tape'[ws[p]][b] = lut[p][b]
  <2> SUFFICES ASSUME NEW p \in 1 .. i
               PROVE  /\ ws[p] \in 1 .. w
                      /\ \A b \in Stream!Experts : tape'[ws[p]][b] = lut[p][b]
    OBVIOUS
  <2>1. CASE p = i
    BY <1>9, <1>10, <1>11, <2>1
  <2>2. CASE p # i
    <3>1. p \in 1 .. i - 1
      BY <1>2, <2>2
    <3>2. ws[p] = run.windows[p] /\ ws[p] \in 1 .. n
      BY <1>1, <1>11, <3>1 DEF i, n
    <3>3. tape'[ws[p]] = tape[ws[p]] /\ ws[p] \in 1 .. w
      BY <1>7, <1>8, <3>2
    <3> QED
      BY <1>1, <3>1, <3>2, <3>3 DEF i
  <2> QED
    BY <2>1, <2>2
<1>13. \A v \in 1 .. n : tape'[v] = tape[v]
  BY <1>7, <1>8
<1>14. Told(w, ws)
  BY <1>1, <1>3, <1>7, <1>11, <1>12, <1>13 DEF Told, i, n, z
<1> QED
  BY <1>14 DEF ws

(* What was recorded before reads its own windows, which are not touched.      *)
LEMMA OldReads ==
  ASSUME RunInv, QueueInv, NEW w, NEW ws, Told(w, ws)
  PROVE  ReadsAreRight(Ahead, arena, tape') /\ WindowsAreOld(Ahead, w)
<1>1. /\ w = run.words + 1 /\ run.words \in Nat
      /\ \A v \in 1 .. run.words : tape'[v] = tape[v]
  BY DEF Told
<1>2. ReadsAreRight(Ahead, arena, tape) /\ WindowsAreOld(Ahead, run.words)
  BY DEF QueueInv
<1>3. ASSUME NEW k \in DOMAIN Ahead, Ahead[k].do = "read"
      PROVE  /\ Ahead[k].window <= w
             /\ \A b : SlotOf(Ahead[k], tape', b) = SlotOf(Ahead[k], tape, b)
  <2> DEFINE c == Ahead[k]
  <2>1. c \in Reading
    <3>1. c \in Commands
      BY QueueIs
    <3> QED
      BY <1>3, <3>1, CommandIs DEF RunInv
  <2>2. c.window \in 0 .. model.tape /\ c.window <= run.words
    BY <1>2, <1>3, <2>1 DEF Reading, WindowsAreOld
  <2> HIDE DEF c
  <2>3. model.tape \in Nat
    BY ModelIs DEF RunInv
  <2>4. c.window <= w /\ (c.window = 0 \/ c.window \in 1 .. run.words)
    BY <1>1, <2>2, <2>3
  <2>5. \A b : SlotOf(c, tape', b) = SlotOf(c, tape, b)
    BY <1>1, <2>4 DEF SlotOf
  <2> QED
    BY <2>4, <2>5 DEF c
<1>4. ReadsAreRight(Ahead, arena, tape')
  BY <1>2, <1>3 DEF ReadsAreRight
<1>5. WindowsAreOld(Ahead, w)
  BY <1>3 DEF WindowsAreOld
<1> QED
  BY <1>4, <1>5

(* The next role opens its batch.                                            *)
LEMMA NextRoleStep ==
  ASSUME StreamInv, run.at = "stage", ~Stream!Dense, run.todo = <<>>, model' = model,
         UNCHANGED <<lut, arena, ring, device, lost>>, forwards' = forwards,
         NEW w, NEW ws, Told(w, ws), run.role < model.pools, NEW j, j = run.role + 1,
         pools' = [pools EXCEPT ![j] = BeginBatch(pools[j])],
         run' = [run EXCEPT !.words = w, !.windows = ws, !.role = j, !.todo = run.ids]
  PROVE  StreamInv'
<1>1. /\ RunInv /\ QueueInv /\ RingInv /\ PoolInv /\ Believed
      /\ FenceInv /\ PlaceInv /\ DenseInv /\ MoeInv
  BY DEF StreamInv
<1>2. DOMAIN run = RunFields
  BY <1>1 DEF RunInv
<1>3. /\ DOMAIN run' = RunFields
      /\ run'.at = "stage" /\ run'.segments = run.segments /\ run'.rec = run.rec
      /\ run'.fences = run.fences
      /\ run'.op = run.op /\ run'.wide = run.wide /\ run'.half = run.half
      /\ run'.cursor = run.cursor /\ run'.pending = run.pending /\ run'.words = w
      /\ run'.role = j /\ run'.ids = run.ids /\ run'.todo = run.ids
      /\ run'.windows = ws
  BY <1>2 DEF RunFields
<1>4. /\ Stream!Pools = 1 .. model.pools /\ model.pools \in Nat
      /\ j \in Stream!Pools /\ j \in Nat /\ run.role \in Nat /\ run.role \in Stream!Pools
  <2>1. Stream!Pools = 1 .. model.pools /\ model.pools \in Nat /\ run.role \in Stream!Pools
    BY <1>1, ModelIs DEF RunInv, Told
  <2> QED
    BY <2>1
<1>5. Opened(Stream!Pools, pools, j, pools')
  <2>1. DOMAIN pools = Stream!Pools /\ \A p \in Stream!Pools : Sound(pools[p]) /\ EpochsBelow(pools[p])
    BY <1>1 DEF PoolInv
  <2> QED
    BY <1>4, <2>1, OpenPool
<1>6. /\ PoolInv' /\ \A p \in Stream!Pools : pools'[p].resident = pools[p].resident
  BY <1>5, SameModel DEF Opened, PoolInv
<1>7. Ahead' = Ahead /\ Ahead \in Seq(Commands)
  <2>1. Ahead \in Seq(Commands)
    BY <1>1, QueueIs, Zenon
  <2> QED
    BY <1>3, <2>1 DEF Ahead
<1>8. Ahead' = Ahead \o <<>> /\ <<>> \in Seq(Commands) /\ Quiet(<<>>)
  BY <1>1, <1>7, StillQuiet, Zenon
<1>9. Believed'
  <2>1. lost \subseteq lost'
    OBVIOUS
  <2> QED
    BY <1>1, <1>6, <1>8, <2>1, QuietBelieved
<1>10. QueueInv'
  <2>1. ReadsAreRight(Ahead, arena, tape') /\ WindowsAreOld(Ahead, w)
    BY <1>1, OldReads
  <2>2. Commands' = Commands
    BY SameModel
  <2> QED
    BY <1>1, <1>3, <1>7, <2>1, <2>2 DEF QueueInv
<1>11. RingInv'
  <2>1. /\ \A k \in DOMAIN device : k \in DOMAIN device' /\ device'[k] = device[k]
        /\ run'.at # "rotate" /\ run.at # "rotate" /\ ring' = ring
    BY <1>3
  <2> QED
    BY <1>1, <1>3, <1>8, <2>1, QuietRing, Zenon
<1>12. RunInv'
  <2>1. Stream!Pools' = Stream!Pools /\ Commands' = Commands
    BY SameModel
  <2>2. w \in 0 .. model.tape /\ ws \in Seq(Nat) /\ DOMAIN tape' = 1 .. model.tape
    BY <1>1, ModelIs DEF Told, RunInv
  <2> QED
    BY <1>1, <1>3, <1>4, <2>1, <2>2 DEF RunInv
<1>13. FenceInv'
  <2>1. Stream!InFlight' = Stream!InFlight
    BY <1>3 DEF Stream!InFlight
  <2> QED
    BY <1>1, <1>3, <2>1 DEF FenceInv
<1>14. DenseInv' /\ PlaceInv'
  BY <1>3 DEF DenseInv, PlaceInv, Stream!Dense
<1>15. /\ Stream!Pools' = Stream!Pools /\ Stream!Experts' = Stream!Experts
       /\ (Stream!InGraph' <=> Stream!InGraph) /\ (Stream!Dense' <=> Stream!Dense)
  BY <1>3, SameModel DEF Stream!Experts, Stream!Op, Stream!InGraph, Stream!Dense
<1>16. /\ Stream!InGraph
       /\ ToSet(run.ids) \subseteq Stream!Experts
       /\ \A c \in ToSet(run.ids) :
            /\ c \in ToSet(run.todo) \/ InBatchOf(run.role, c)
            /\ \A p \in 1 .. run.role - 1 : IsResident(pools[p], c)
       /\ run.ids = <<>> => \A p \in Stream!Pools, b \in Stream!Experts : IsResident(pools[p], b)
  BY <1>1 DEF MoeInv, MoeStaging
<1>17. MoeStaging'
  <2>1. pools'[j].cur > 0 /\ \A b \in Blocks : ~(IsResident(pools'[j], b) /\ pools'[j].epoch[b] = pools'[j].cur)
    BY <1>5 DEF Opened
  <2>2. \A p \in Stream!Pools : \A c : IsResident(pools'[p], c) <=> IsResident(pools[p], c)
    BY <1>6 DEF IsResident
  <2>3. \A c \in ToSet(run.ids) : \A p \in 1 .. j - 1 : IsResident(pools'[p], c)
    <3> SUFFICES ASSUME NEW c \in ToSet(run.ids), NEW p \in 1 .. j - 1
                 PROVE  IsResident(pools[p], c)
      BY <1>4, <2>2
    <3>1. CASE p = run.role
      <4>1. ToSet(<<>>) = {}
        BY DEF ToSet
      <4> QED
        BY <1>16, <3>1, <4>1 DEF InBatchOf
    <3>2. CASE p # run.role
      <4>1. p \in 1 .. run.role - 1
        BY <1>4, <3>2
      <4> QED
        BY <1>16, <4>1
    <3> QED
      BY <3>1, <3>2
  <2>4. run.ids = <<>> => \A p \in Stream!Pools, b \in Stream!Experts : IsResident(pools'[p], b)
    BY <1>16, <2>2
  <2>5. /\ Len(ws) = j - 1
        /\ \A p \in 1 .. j - 1 :
             ws[p] \in 1 .. w /\ \A b \in Stream!Experts : tape'[ws[p]][b] = lut[p][b]
    <3>1. j - 1 = run.role
      BY <1>4
    <3> QED
      BY <3>1 DEF Told
  <2> QED
    BY <1>3, <1>4, <1>15, <1>16, <2>1, <2>3, <2>4, <2>5 DEF MoeStaging, InBatchOf, IsResident
<1>18. PICK m \in DOMAIN run.rec : StagedSince(run.rec, m)
  BY <1>1 DEF MoeInv
<1>19. (\E l \in DOMAIN run.rec : StagedSince(run.rec, l))'
  <2>1. run.rec[m].do = "barrier"
    BY <1>18 DEF StagedSince
  <2>2. \A k \in m + 1 .. Len(run.rec) :
          run.rec[k].do = "copy" /\ run.rec[k].pool <= j /\ run.rec[k].pool # j
    <3> SUFFICES ASSUME NEW k \in m + 1 .. Len(run.rec)
                 PROVE  run.rec[k].do = "copy" /\ run.rec[k].pool <= j /\ run.rec[k].pool # j
      OBVIOUS
    <3>1. run.rec[k].do = "copy" /\ run.rec[k].pool <= run.role
      BY <1>18 DEF StagedSince
    <3>2. run.rec[k].pool \in Nat
      <4>1. k \in DOMAIN run.rec /\ run.rec \in Seq(Commands)
        BY <1>1, <1>18 DEF RunInv
      <4>2. run.rec[k] \in Commands
        BY <4>1
      <4>3. run.rec[k].pool \in Stream!Pools
        BY <1>1, <3>1, <4>2, CommandIs, CopyIs DEF RunInv
      <4> QED
        BY <1>4, <4>3
    <3> QED
      BY <1>4, <3>1, <3>2
  <2>3. StagedSince(run.rec, m)'
    BY <1>3, <2>1, <2>2 DEF StagedSince
  <2> QED
    BY <1>3, <1>18, <2>3
<1>20. MoeInv'
  BY <1>17, <1>19 DEF MoeInv
<1> QED
  BY <1>6, <1>9, <1>10, <1>11, <1>12, <1>13, <1>14, <1>20 DEF StreamInv

-----------------------------------------------------------------------------
(* The dispatches of a MoeFfn: a barrier, then one for each role.             *)
RoleRead(p, ws, c) ==
  /\ c \in Reading /\ c.do = "read" /\ c.pool = p /\ c.window = ws[p]
  /\ c.sound \subseteq Stream!Needed /\ \A x \in c.sound : <<p, x>> \notin lost

LEMMA RoleReadIs ==
  ASSUME RunInv, Stream!Experts \subseteq Blocks, ToSet(run.ids) \subseteq Stream!Experts,
         NEW p \in Stream!Pools, NEW w, NEW ws, Told(w, ws), run.role = model.pools
  PROVE  RoleRead(p, ws, Stream!Read(p, ws[p], NoSlot, Stream!Needed, lost))
<1> DEFINE N == Stream!Needed
           S == {x \in N : <<p, x>> \notin lost}
           v == ws[p]
           c == Stream!Read(p, v, NoSlot, N, lost)
<1>1. c = [do |-> "read", pool |-> p, window |-> v, slot |-> NoSlot, need |-> N, sound |-> S]
  BY DEF Stream!Read
<1>2. N \in SUBSET Blocks
  BY StreamOperators DEF Stream!Needed
<1>3. v \in 0 .. model.tape
  <2>1. v \in 1 .. w /\ w \in 1 .. model.tape
    BY ModelIs DEF RunInv, Told
  <2>2. model.tape \in Nat
    BY ModelIs DEF RunInv
  <2> HIDE DEF v
  <2> QED
    BY <2>1, <2>2
<1> HIDE DEF c, N, v
<1>4. S \subseteq N /\ S \in SUBSET Blocks /\ \A x \in S : <<p, x>> \notin lost
  BY <1>2
<1> HIDE DEF S
<1>5. c \in Reading
  BY <1>1, <1>2, <1>3, <1>4 DEF Reading
<1>6. c.do = "read" /\ c.pool = p /\ c.window = v /\ c.sound = S
  BY <1>1
<1> QED
  BY <1>4, <1>5, <1>6 DEF RoleRead, c, N, v

Reads(ws) == [p \in Stream!Pools |-> Stream!Read(p, ws[p], NoSlot, Stream!Needed, lost)]

(* t: what is recorded.                                                      *)
Dispatches(ws, t) ==
  /\ t \in Seq(Commands) /\ Len(t) = model.pools + 1 /\ DOMAIN t = 1 .. model.pools + 1
  /\ t[1] = Stream!Barrier
  /\ \A k \in 2 .. model.pools + 1 : RoleRead(k - 1, ws, t[k])

LEMMA DispatchesAre ==
  ASSUME RunInv, Stream!Experts \subseteq Blocks, ToSet(run.ids) \subseteq Stream!Experts,
         NEW w, NEW ws, Told(w, ws), run.role = model.pools
  PROVE  Dispatches(ws, <<Stream!Barrier>> \o Reads(ws))
<1> DEFINE n == model.pools
           bar == Stream!Barrier
           rs == Reads(ws)
           one == <<bar>>
           t == one \o rs
<1>1. n \in Nat /\ Stream!Pools = 1 .. n
  BY ModelIs DEF RunInv
<1>2. \A p \in 1 .. n : RoleRead(p, ws, rs[p])
  BY <1>1, RoleReadIs DEF Reads
<1>3. DOMAIN rs = 1 .. n /\ rs = [p \in 1 .. n |-> rs[p]]
  BY <1>1 DEF Reads
<1>4. \A p \in 1 .. n : rs[p] \in Commands
  BY <1>2 DEF RoleRead, Commands
<1>5. bar \in Commands
  BY DEF Commands
<1> HIDE DEF n, bar, rs, one
<1>6. rs \in [1 .. n -> Commands]
  BY <1>3, <1>4
<1>7. rs \in Seq(Commands) /\ Len(rs) = n
  BY <1>1, <1>6
<1>8. One(Commands, bar, one)
  BY <1>5, OneIs, Zenon DEF one
<1>9. one \in Seq(Commands) /\ Len(one) = 1 /\ one[1] = bar
  BY <1>8 DEF One
<1>10. Joined(Commands, one, rs, t)
  BY <1>7, <1>9, JoinIsJoined, Zenon
<1> HIDE DEF t
<1>11. /\ t \in Seq(Commands) /\ Len(t) = n + 1 /\ DOMAIN t = 1 .. n + 1
       /\ t[1] = bar /\ \A k \in 2 .. n + 1 : t[k] = rs[k - 1] /\ k - 1 \in 1 .. n
  BY <1>1, <1>7, <1>9, <1>10 DEF Joined
<1>12. Dispatches(ws, t)
  BY <1>2, <1>11 DEF Dispatches, n, bar
<1> QED
  BY <1>12 DEF t, one, bar, rs

(* Every block that is needed is there, in every role.                        *)
LEMMA NeededAreThere ==
  ASSUME RunInv, MoeInv, run.at = "stage", ~Stream!Dense, run.todo = <<>>, run.role = model.pools
  PROVE  /\ Stream!Needed \subseteq Stream!Experts /\ Stream!Experts \subseteq Blocks
         /\ ToSet(run.ids) \subseteq Stream!Experts
         /\ \A p \in Stream!Pools, x \in Stream!Needed : IsResident(pools[p], x)
<1>1. /\ Stream!InGraph
      /\ ToSet(run.ids) \subseteq Stream!Experts
      /\ \A c \in ToSet(run.ids) :
           /\ c \in ToSet(run.todo) \/ InBatchOf(run.role, c)
           /\ \A p \in 1 .. run.role - 1 : IsResident(pools[p], c)
      /\ run.ids = <<>> => \A p \in Stream!Pools, b \in Stream!Experts : IsResident(pools[p], b)
  BY DEF MoeInv, MoeStaging
<1>2. Stream!Experts \subseteq Blocks
  BY <1>1, OpIs
<1>3. Stream!Needed = IF run.ids = <<>> THEN Stream!Experts ELSE ToSet(run.ids)
  BY StreamOperators DEF Stream!Needed
<1>4. Stream!Pools = 1 .. run.role /\ run.role \in Nat
  BY ModelIs DEF RunInv
<1>5. ASSUME NEW p \in Stream!Pools, NEW x \in Stream!Needed, run.ids # <<>>
      PROVE  IsResident(pools[p], x)
  <2>1. x \in ToSet(run.ids)
    BY <1>3, <1>5
  <2>2. ToSet(<<>>) = {}
    BY DEF ToSet
  <2>3. p \in 1 .. run.role - 1 \/ p = run.role
    BY <1>4
  <2> QED
    BY <1>1, <2>1, <2>2, <2>3 DEF InBatchOf
<1> QED
  BY <1>1, <1>2, <1>3, <1>5

(* The dispatches find what they are told, and disturb nothing.                *)
LEMMA DispatchQueue ==
  ASSUME RunInv, QueueInv, PoolInv, Believed, MoeInv, run.at = "stage", ~Stream!Dense,
         run.todo = <<>>, run.role = model.pools,
         NEW w, NEW ws, Told(w, ws), NEW t, Dispatches(ws, t)
  PROVE  /\ Ahead \o t \in Seq(Commands) /\ Apart(Ahead \o t)
         /\ ReadsAreRight(Ahead \o t, arena, tape') /\ WindowsAreOld(Ahead \o t, w)
<1> DEFINE n == model.pools
           r == Ahead \o t
<1>1. n \in Nat /\ Stream!Pools = 1 .. n
  BY ModelIs DEF RunInv
<1>2. /\ t \in Seq(Commands) /\ Len(t) = n + 1 /\ DOMAIN t = 1 .. n + 1
      /\ t[1] = Stream!Barrier /\ \A k \in 2 .. n + 1 : RoleRead(k - 1, ws, t[k])
  BY DEF Dispatches
<1>3. Ahead \in Seq(Commands)
  BY QueueIs, Zenon
<1>4. Joined(Commands, Ahead, t, r)
  BY <1>2, <1>3, JoinIsJoined, Zenon
<1> HIDE DEF n, r
<1>5. t[1].do = "barrier" /\ \A k \in DOMAIN t : k = 1 \/ (k \in 2 .. n + 1 /\ t[k].do = "read")
  <2>1. \A k \in 1 .. n + 1 : k = 1 \/ k \in 2 .. n + 1
    BY <1>1
  <2> QED
    BY <1>2, <2>1 DEF RoleRead, Stream!Barrier
<1>6. Apart(t)
  BY <1>5 DEF Apart, Clash
<1>7. Apart(r)
  <2>1. ASSUME NEW i \in DOMAIN Ahead, NEW k \in DOMAIN t, Clash(Ahead[i], t[k])
        PROVE  \E x \in 1 .. k - 1 : t[x].do = "barrier"
    <3>1. k \in 2 .. n + 1
      BY <1>5, <2>1 DEF Clash
    <3>2. 1 \in 1 .. k - 1
      BY <1>1, <3>1
    <3> QED
      BY <1>5, <3>2
  <2>2. Apart(Ahead)
    BY DEF QueueInv
  <2> QED
    BY <1>2, <1>3, <1>6, <2>1, <2>2, GrowsApart DEF r
<1>8. /\ Stream!Needed \subseteq Stream!Experts /\ Stream!Experts \subseteq Blocks
      /\ \A p \in Stream!Pools, x \in Stream!Needed : IsResident(pools[p], x)
  BY NeededAreThere
<1>9. ReadsAreRight(Ahead, arena, tape') /\ WindowsAreOld(Ahead, w)
  BY OldReads
<1>10. ASSUME NEW k \in DOMAIN t, t[k].do = "read", NEW x \in t[k].sound
       PROVE  /\ SlotOf(t[k], tape', x) \in Slots
              /\ Holds(Ahead \o t, Len(Ahead) + k, arena, t[k].pool, SlotOf(t[k], tape', x), x)
  <2> DEFINE p == k - 1
             c == t[k]
             s == pools[p].resident[x]
             m == Len(Ahead)
  <2>1. k \in 2 .. n + 1 /\ k \in Nat
    BY <1>1, <1>5, <1>10
  <2>2. p \in Stream!Pools /\ p \in 0 .. Len(t) /\ p \in Nat
    BY <1>1, <1>2, <2>1
  <2>3. /\ c.pool = p /\ c.window = ws[p] /\ x \in Stream!Needed /\ <<p, x>> \notin lost
    BY <1>2, <1>10, <2>1 DEF RoleRead
  <2> HIDE DEF c
  <2>4. IsResident(pools[p], x) /\ x \in Blocks /\ x \in Stream!Experts
    BY <1>8, <2>2, <2>3
  <2>5. s \in Slots
    <3>1. Sound(pools[p])
      BY <2>2 DEF PoolInv
    <3>2. pools[p].resident \in [Blocks -> Slots \cup {NoSlot}]
      BY <3>1, FieldsType DEF Sound
    <3> QED
      BY <2>4, <3>2 DEF IsResident
  <2>6. lut[p][x] = s /\ Holds(Ahead, m + 1, arena, p, s, x)
    BY <2>2, <2>3, <2>4 DEF Believed
  <2>7. SlotOf(c, tape', x) = s
    <3>1. ws[p] \in 1 .. w /\ tape'[ws[p]][x] = lut[p][x]
      BY <1>1, <2>2, <2>4 DEF Told, n
    <3>2. ws[p] # 0
      BY <3>1
    <3> QED
      BY <2>3, <2>6, <3>1, <3>2 DEF SlotOf
  <2>8. \A l \in DOMAIN t : ~CopyTo(t, l, p, s)
    BY <1>5 DEF CopyTo
  <2> HIDE DEF s, p
  <2>9. Holds(Ahead \o t, m + 1 + p, arena, p, s, x)
    BY <1>2, <1>3, <2>2, <2>6, <2>8, GrowsHolding
  <2>10. m + 1 + p = m + k
    <3>1. m \in Nat
      BY <1>4 DEF Joined
    <3> HIDE DEF m
    <3> QED
      BY <2>1, <3>1 DEF p
  <2> QED
    BY <2>3, <2>5, <2>7, <2>9, <2>10 DEF c
<1>11. ReadsAreRight(r, arena, tape')
  BY <1>2, <1>3, <1>9, <1>10, GrowsRight DEF r
<1>12. WindowsAreOld(r, w)
  <2>1. \A j \in DOMAIN r : (j \in DOMAIN Ahead /\ r[j] = Ahead[j])
                            \/ (j - Len(Ahead) \in DOMAIN t /\ r[j] = t[j - Len(Ahead)])
    <3>1. Splits(Ahead, t, r)
      BY <1>4, JoinSplits, Zenon
    <3> QED
      BY <3>1 DEF Splits
  <2>2. ASSUME NEW k \in DOMAIN t, t[k].do = "read" PROVE t[k].window <= w
    <3>1. k \in 2 .. n + 1 /\ t[k].window = ws[k - 1] /\ k - 1 \in 1 .. n
      <4>1. k \in 2 .. n + 1
        BY <1>5, <2>2
      <4> QED
        BY <1>1, <1>2, <4>1 DEF RoleRead
    <3>2. ws[k - 1] \in 1 .. w /\ w \in Nat
      BY <3>1 DEF Told, n
    <3> QED
      BY <3>1, <3>2
  <2> QED
    BY <1>9, <2>1, <2>2 DEF WindowsAreOld
<1>13. r \in Seq(Commands)
  BY <1>4 DEF Joined
<1> QED
  BY <1>7, <1>11, <1>12, <1>13 DEF r

LEMMA DispatchStep ==
  ASSUME StreamInv, run.at = "stage", ~Stream!Dense, run.todo = <<>>, model' = model,
         UNCHANGED <<pools, lut, arena, ring, device, lost>>, forwards' = forwards,
         NEW w, NEW ws, Told(w, ws), run.role = model.pools,
         NEW t, Dispatches(ws, t), NEW rec, rec = run.rec \o t, NEW z \in Nat, z = run.op + 1,
         run' = [run EXCEPT !.words = w, !.windows = ws, !.at = "op", !.op = z, !.rec = rec]
  PROVE  StreamInv'
<1>1. /\ RunInv /\ QueueInv /\ RingInv /\ PoolInv /\ Believed
      /\ FenceInv /\ PlaceInv /\ DenseInv /\ MoeInv
  BY DEF StreamInv
<1>2. DOMAIN run = RunFields /\ run.op \in Nat
  BY <1>1 DEF RunInv
<1>3. /\ DOMAIN run' = RunFields
      /\ run'.at = "op" /\ run'.segments = run.segments /\ run'.rec = rec
      /\ run'.fences = run.fences
      /\ run'.op = z /\ run'.wide = run.wide /\ run'.half = run.half
      /\ run'.cursor = run.cursor /\ run'.pending = run.pending /\ run'.words = w
      /\ run'.role = run.role /\ run'.ids = run.ids /\ run'.todo = run.todo
      /\ run'.windows = ws
  BY <1>2 DEF RunFields
<1>4. t \in Seq(Commands) /\ \A k \in DOMAIN t : t[k].do \in {"barrier", "read"}
  <2>1. /\ t \in Seq(Commands) /\ DOMAIN t = 1 .. model.pools + 1
        /\ t[1] = Stream!Barrier
        /\ \A k \in 2 .. model.pools + 1 : RoleRead(k - 1, ws, t[k])
    BY DEF Dispatches
  <2>2. \A k \in 1 .. model.pools + 1 : k = 1 \/ k \in 2 .. model.pools + 1
    BY <1>1, ModelIs DEF RunInv
  <2> QED
    BY <2>1, <2>2 DEF RoleRead, Stream!Barrier
<1>5. device \in Seq(Commands) /\ run.rec \in Seq(Commands) /\ Ahead \in Seq(Commands)
  <2>1. Ahead \in Seq(Commands)
    BY <1>1, QueueIs, Zenon
  <2> QED
    BY <1>1, <2>1 DEF RunInv
<1>6. Ahead' = Ahead \o t
  <2>1. Ahead' = device \o (run.rec \o t)
    BY <1>3 DEF Ahead
  <2>2. Associate(device, run.rec, t)
    BY <1>4, <1>5, JoinJoins, Zenon
  <2> QED
    BY <2>1, <2>2 DEF Ahead, Associate
<1>7. Joined(Commands, run.rec, t, rec)
  <2>1. Joined(Commands, run.rec, t, run.rec \o t)
    BY <1>4, <1>5, JoinIsJoined, Zenon
  <2> QED
    BY <2>1
<1>8. QueueInv'
  <2>1. /\ Ahead \o t \in Seq(Commands) /\ Apart(Ahead \o t)
        /\ ReadsAreRight(Ahead \o t, arena, tape') /\ WindowsAreOld(Ahead \o t, w)
    BY <1>1, DispatchQueue
  <2>2. Commands' = Commands
    BY SameModel
  <2> QED
    BY <1>3, <1>6, <2>1, <2>2 DEF QueueInv
<1>9. PoolInv'
  BY <1>1, SameModel DEF PoolInv
<1>10. Believed'
  <2> SUFFICES ASSUME NEW p \in Stream!Pools, NEW c \in Blocks,
                      IsResident(pools[p], c), <<p, c>> \notin lost
               PROVE  /\ lut[p][c] = pools[p].resident[c]
                      /\ Holds(Ahead \o t, Len(Ahead \o t) + 1, arena, p, pools[p].resident[c], c)
    BY <1>6, SameModel DEF Believed
  <2> DEFINE u == pools[p].resident[c]
             n == Len(Ahead)
             v == Len(t)
  <2>1. lut[p][c] = u /\ Holds(Ahead, n + 1, arena, p, u, c)
    BY <1>1 DEF Believed
  <2> HIDE DEF u
  <2>2. \A k \in DOMAIN t : ~CopyTo(t, k, p, u)
    BY <1>4 DEF CopyTo
  <2>3. v \in Nat /\ n \in Nat /\ Len(Ahead \o t) = n + v
    BY <1>4, <1>5, ConcatProperties
  <2>4. v \in 0 .. Len(t)
    BY <2>3
  <2>5. Holds(Ahead \o t, n + 1 + v, arena, p, u, c)
    BY <1>4, <1>5, <2>1, <2>2, <2>4, GrowsHolding
  <2>6. n + 1 + v = Len(Ahead \o t) + 1
    <3> DEFINE x == Len(Ahead \o t)
    <3>1. v \in Nat /\ n \in Nat /\ x = n + v
      BY <2>3
    <3> HIDE DEF n, v, x
    <3>2. n + 1 + v = x + 1
      BY <3>1
    <3> QED
      BY <3>2 DEF x
  <2> QED
    BY <2>1, <2>5, <2>6 DEF u
<1>11. RingInv'
  <2>1. \A k \in DOMAIN device : k \in DOMAIN device' /\ device'[k] = device[k]
    OBVIOUS
  <2>2. \A k \in DOMAIN t : t[k].do # "copy"
    BY <1>4
  <2>3. /\ run'.half = run.half /\ run'.pending = run.pending /\ run.at # "rotate" /\ run'.at # "rotate"
        /\ run'.cursor \in Nat /\ run.cursor <= run'.cursor
    BY <1>1, <1>3, ModelIs DEF RunInv
  <2> QED
    BY <1>1, <1>4, <1>6, <2>1, <2>2, <2>3, RingGrows
<1>12. RunInv'
  <2>1. Stream!Pools' = Stream!Pools /\ Commands' = Commands
    BY SameModel
  <2>2. w \in 0 .. model.tape /\ ws \in Seq(Nat) /\ DOMAIN tape' = 1 .. model.tape
    BY <1>1, ModelIs DEF Told, RunInv
  <2>3. rec \in Seq(Commands) /\ z \in Nat \ {0}
    BY <1>2, <1>7 DEF Joined
  <2> QED
    BY <1>1, <1>3, <2>1, <2>2, <2>3 DEF RunInv, RunPlaces
<1>13. FenceInv'
  <2>1. Stream!InFlight' = Stream!InFlight
    BY <1>3 DEF Stream!InFlight
  <2>2. \A k \in DOMAIN rec : rec[k].do # "fence"
    <3>1. \A k \in DOMAIN run.rec : run.rec[k].do # "fence"
      BY <1>1 DEF FenceInv
    <3>2. \A k \in DOMAIN rec : (k \in DOMAIN run.rec /\ rec[k] = run.rec[k])
                                \/ (k - Len(run.rec) \in DOMAIN t /\ rec[k] = t[k - Len(run.rec)])
      <4>1. Splits(run.rec, t, rec)
        BY <1>7, JoinSplits, Zenon
      <4> QED
        BY <4>1 DEF Splits
    <3> QED
      BY <1>4, <3>1, <3>2
  <2> QED
    BY <1>1, <1>3, <2>1, <2>2 DEF FenceInv
<1>14. DenseInv' /\ MoeInv' /\ PlaceInv'
  BY <1>3 DEF DenseInv, MoeInv, MoeStaging, PlaceInv, Stream!Dense
<1> QED
  BY <1>8, <1>9, <1>10, <1>11, <1>12, <1>13, <1>14 DEF StreamInv

LEMMA WindowStep ==
  ASSUME StreamInv, Stream!Window
  PROVE  StreamInv'
<1>1. RunInv /\ MoeInv
  BY DEF StreamInv
<1> DEFINE w == run.words + 1
           ws == Append(run.windows, w)
           new == [b \in Stream!Experts |-> lut[run.role][b]]
           next == [run EXCEPT !.words = w, !.windows = ws]
           j == run.role + 1
           z == run.op + 1
           t == <<Stream!Barrier>> \o Reads(ws)
           rec == run.rec \o t
<1>2. /\ ~Stream!Dense /\ run.at = "stage" /\ run.todo = <<>> /\ run.words < model.tape
      /\ tape' = [tape EXCEPT ![w] = new]
      /\ model' = model /\ UNCHANGED <<lut, arena, ring, device, lost>> /\ forwards' = forwards
  BY DEF Stream!Window
<1>3. Told(w, ws)
  BY <1>1, <1>2, WindowTold
<1>4. run.role \in 1 .. model.pools /\ model.pools \in Nat
  BY <1>1, <1>3, ModelIs DEF Told, RunInv
<1>5. CASE run.role < model.pools
  <2>1. /\ pools' = [pools EXCEPT ![j] = BeginBatch(pools[j])]
        /\ run' = [next EXCEPT !.role = j, !.todo = run.ids]
    BY <1>5, StreamOperators DEF Stream!Window
  <2> HIDE DEF w, ws, new, j
  <2>2. run' = [run EXCEPT !.words = w, !.windows = ws, !.role = j, !.todo = run.ids]
    BY <2>1
  <2>3. j = run.role + 1
    BY DEF j
  <2>4. run.at = "stage" /\ ~Stream!Dense /\ run.todo = <<>> /\ model' = model
        /\ UNCHANGED <<lut, arena, ring, device, lost>> /\ forwards' = forwards
    BY <1>2
  <2>5. pools' = [pools EXCEPT ![j] = BeginBatch(pools[j])]
    BY <2>1
  <2> QED
    BY <1>3, <1>5, <2>2, <2>3, <2>4, <2>5, NextRoleStep, Zenon
<1>6. CASE ~(run.role < model.pools)
  <2>1. run.role = model.pools
    BY <1>4, <1>6
  <2>2. /\ pools' = pools
        /\ run' = [next EXCEPT !.at = "op", !.op = z,
                               !.rec = (run.rec \o <<Stream!Barrier>>) \o Reads(ws)]
    <3>1. Stream!NoSlot = NoSlot
      BY StreamOperators
    <3>2. run.op + 1 = z /\ run.words + 1 = w /\ Append(run.windows, w) = ws
      OBVIOUS
    <3>3. next.op = run.op /\ next.rec = run.rec /\ next = [run EXCEPT !.words = w, !.windows = ws]
      <4>1. DOMAIN run = RunFields
        BY <1>1 DEF RunInv
      <4> HIDE DEF w, ws
      <4> QED
        BY <4>1 DEF RunFields
    <3> QED
      BY <1>6, <3>1, <3>3 DEF Stream!Window, Reads
  <2>3. Stream!Experts \subseteq Blocks /\ ToSet(run.ids) \subseteq Stream!Experts
    BY <1>1, <1>2, <2>1, NeededAreThere
  <2>4. Dispatches(ws, t)
    BY <1>1, <1>3, <2>1, <2>3, DispatchesAre
  <2>5. (run.rec \o <<Stream!Barrier>>) \o Reads(ws) = rec
    <3>1. Reads(ws) \in Seq(Commands)
      <4>1. Stream!Pools = 1 .. model.pools
        BY <1>1, ModelIs DEF RunInv
      <4>2. \A p \in Stream!Pools : RoleRead(p, ws, Stream!Read(p, ws[p], NoSlot, Stream!Needed, lost))
        BY <1>1, <1>3, <2>1, <2>3, RoleReadIs
      <4>3. \A p \in Stream!Pools : Stream!Read(p, ws[p], NoSlot, Stream!Needed, lost) \in Commands
        BY <4>2 DEF RoleRead, Commands
      <4> HIDE DEF ws
      <4>4. Reads(ws) \in [1 .. model.pools -> Commands]
        BY <4>1, <4>3 DEF Reads
      <4> QED
        BY <1>4, <4>4
    <3>2. run.rec \in Seq(Commands)
      BY <1>1 DEF RunInv
    <3>3. <<Stream!Barrier>> \in Seq(Commands)
      BY DEF Commands
    <3>4. Associate(run.rec, <<Stream!Barrier>>, Reads(ws))
      BY <3>1, <3>2, <3>3, JoinJoins, Zenon
    <3> QED
      BY <3>4 DEF Associate
  <2>6. z \in Nat
    BY <1>1 DEF RunInv
  <2> HIDE DEF w, ws, new, z, t, rec
  <2>7. run' = [run EXCEPT !.words = w, !.windows = ws, !.at = "op", !.op = z, !.rec = rec]
    BY <2>2, <2>5
  <2>8. rec = run.rec \o t /\ z = run.op + 1
    BY DEF rec, z
  <2>9. /\ run.at = "stage" /\ ~Stream!Dense /\ run.todo = <<>> /\ model' = model
        /\ UNCHANGED <<pools, lut, arena, ring, device, lost>> /\ forwards' = forwards
    BY <1>2, <2>2
  <2> QED
    BY <1>3, <2>1, <2>4, <2>6, <2>7, <2>8, <2>9, DispatchStep, Zenon
<1> QED
  BY <1>5, <1>6

LEMMA StreamInit == Stream!Init => StreamInv
<1> SUFFICES ASSUME Stream!Init PROVE StreamInv
  OBVIOUS
<1>1. /\ model \in Models
      /\ pools = [p \in Stream!Pools |-> NewPager]
      /\ lut = [p \in Stream!Pools |-> [b \in Blocks |-> NoSlot]]
      /\ arena = [p \in Stream!Pools |-> [s \in Slots |-> NoBlock]]
      /\ ring = [i \in {0, 1} \X (0 .. model.half - 1) |-> NoBlock]
      /\ tape = [w \in 1 .. model.tape |-> <<>>]
      /\ run = Stream!Idle /\ device = <<>> /\ forwards = 0 /\ lost = {}
  BY StreamOperators DEF Stream!Init
<1>2. /\ DOMAIN run = RunFields /\ run.at = "idle" /\ run.wide = FALSE
      /\ run.op = 1 /\ run.rec = <<>> /\ run.fences = 0 /\ run.half = 0 /\ run.cursor = 0
      /\ run.pending = [h \in {0, 1} |-> 0] /\ run.segments = <<>> /\ run.words = 0
      /\ run.role = 1 /\ run.ids = <<>> /\ run.todo = <<>> /\ run.windows = <<>>
  BY <1>1 DEF Stream!Idle, Stream!Halves, RunFields
<1>3. <<>> \o <<>> = <<>> /\ DOMAIN <<>> = {} /\ Len(<<>>) = 0 /\ <<>> \in Seq(Commands)
  <2>1. <<>> \in Seq(Commands)
    OBVIOUS
  <2> QED
    BY <2>1, ConcatEmptySeq
<1>4. Ahead = <<>>
  BY <1>1, <1>2, <1>3 DEF Ahead
<1>5. RunInv
  <2>1. run.pending \in [{0, 1} -> Nat]
    BY <1>2
  <2>2. 0 \in 0 .. model.half /\ 0 \in 0 .. model.tape /\ 0 \in 0 .. MaxForwards
    BY <1>1, ModelIs, DrivesAreBounded
  <2>3. <<>> \in Seq(Nat) /\ <<>> \in Seq(Blocks)
    OBVIOUS
  <2>4. /\ lut \in [Stream!Pools -> [Blocks -> Slots \cup {NoSlot}]]
        /\ arena \in [Stream!Pools -> [Slots -> Blocks \cup {NoBlock}]]
        /\ ring \in [{0, 1} \X (0 .. model.half - 1) -> Blocks \cup {NoBlock}]
        /\ DOMAIN tape = 1 .. model.tape
    BY <1>1
  <2>5. /\ run.at \in RunPlaces /\ run.op \in Nat \ {0}
        /\ run.fences \in Nat /\ run.half \in {0, 1} /\ run.role \in Nat
        /\ run.cursor \in 0 .. model.half /\ run.words \in 0 .. model.tape
    BY <1>2, <2>2 DEF RunPlaces
  <2>6. /\ run.rec \in Seq(Commands) /\ run.segments \in Seq(Nat) /\ run.ids \in Seq(Blocks)
        /\ run.todo \in Seq(Blocks) /\ run.windows \in Seq(Nat) /\ device \in Seq(Commands)
    BY <1>1, <1>2, <1>3, <2>3
  <2>7. forwards \in 0 .. MaxForwards /\ lost \subseteq Stream!Pools \X Blocks
    BY <1>1, <2>2
  <2>8. run.wide \in BOOLEAN
    BY <1>2, Zenon
  <2> QED
    BY <1>1, <1>2, <2>1, <2>4, <2>5, <2>6, <2>7, <2>8 DEF RunInv
<1>6. QueueInv
  BY <1>3, <1>4 DEF QueueInv, Apart, ReadsAreRight, WindowsAreOld
<1>7. RingInv
  BY <1>3, <1>4 DEF RingInv
<1>8. PoolInv
  <2>1. Sound(NewPager)
    BY NewPagerSound
  <2>2. EpochsBelow(NewPager)
    BY DEF EpochsBelow, NewPager, NoEpoch
  <2> HIDE DEF NewPager
  <2> QED
    BY <1>1, <2>1, <2>2 DEF PoolInv
<1>9. Believed
  <2>1. \A b \in Blocks : ~IsResident(NewPager, b)
    BY DEF NewPager, IsResident
  <2> QED
    BY <1>1, <2>1 DEF Believed
<1>10. FenceInv
  <2>1. run.pending[run.half] = 0
    BY <1>2
  <2> QED
    BY <1>1, <1>2, <1>3, <2>1, DrivesAreBounded DEF FenceInv, FencesAre
<1>11. DenseInv /\ MoeInv /\ PlaceInv
  BY <1>2 DEF DenseInv, MoeInv, MoeStaging, PlaceInv
<1> QED
  BY <1>5, <1>6, <1>7, <1>8, <1>9, <1>10, <1>11 DEF StreamInv

(* Steps that leave the streaming alone.                                     *)
LEMMA StreamStutter ==
  ASSUME StreamInv, UNCHANGED streamVars
  PROVE  StreamInv'
<1>1. /\ model' = model /\ pools' = pools /\ lut' = lut /\ arena' = arena /\ ring' = ring
      /\ tape' = tape /\ run' = run /\ device' = device /\ forwards' = forwards /\ lost' = lost
  BY DEF streamVars
<1>2. /\ RunInv /\ QueueInv /\ RingInv /\ PoolInv /\ Believed
      /\ FenceInv /\ PlaceInv /\ DenseInv /\ MoeInv
  BY DEF StreamInv
<1>3. Ahead' = Ahead /\ Stream!Pools' = Stream!Pools /\ Commands' = Commands
      /\ (Stream!Dense' <=> Stream!Dense)
  BY <1>1, SameModel DEF Ahead
<1>4. RunInv'
  BY <1>1, <1>2, <1>3 DEF RunInv
<1>5. QueueInv' /\ RingInv'
  BY <1>1, <1>2, <1>3 DEF QueueInv, RingInv
<1>6. PoolInv' /\ Believed'
  BY <1>1, <1>2, <1>3 DEF PoolInv, Believed
<1>7. FenceInv'
  BY <1>1, <1>2 DEF FenceInv, Stream!InFlight
<1>8. (Stream!InGraph' <=> Stream!InGraph) /\ Stream!Op' = Stream!Op
  BY <1>1 DEF Stream!InGraph, Stream!Op
<1>9. Stream!Experts' = Stream!Experts
  BY <1>8 DEF Stream!Experts
<1>10. DenseInv' /\ PlaceInv'
  BY <1>1, <1>2, <1>3, <1>8 DEF DenseInv, PlaceInv
<1>11. MoeStaging'
  BY <1>1, <1>2, <1>3, <1>8, <1>9 DEF MoeInv, MoeStaging, InBatchOf
<1>12. MoeInv'
  BY <1>1, <1>2, <1>3, <1>11 DEF MoeInv, StagedSince, InBatchOf
<1> QED
  BY <1>4, <1>5, <1>6, <1>7, <1>10, <1>12 DEF StreamInv

LEMMA StreamStep ==
  ASSUME StreamInv, Stream!Next
  PROVE  StreamInv'
<1>1. CASE \E i \in DOMAIN device : Stream!Execute(i)
  BY <1>1, ExecuteStep
<1>2. CASE (\E wide \in BOOLEAN : Stream!Start(wide)) \/ Stream!Finished \/ Stream!Unwound
  BY <1>2, FreshSteps
<1>3. CASE Stream!Split
  BY <1>3, SplitStep
<1>4. CASE Stream!Retire
  BY <1>4, RetireStep
<1>5. CASE Stream!DenseOp
  BY <1>5, DenseOpStep
<1>6. CASE Stream!StageDense
  BY <1>6, StageDenseStep
<1>7. CASE Stream!MoeWide
  BY <1>7, MoeWideStep
<1>8. CASE Stream!MoeInline
  BY <1>8, MoeInlineStep
<1>9. CASE Stream!MoeSync \/ Stream!Finish
  BY <1>9, HandOverSteps
<1>10. CASE Stream!MoeRouted
  BY <1>10, MoeRoutedStep
<1>11. CASE Stream!StageExpert
  BY <1>11, StageExpertStep
<1>12. CASE Stream!Window
  BY <1>12, WindowStep
<1>13. CASE Stream!Rotate
  BY <1>13, RotateStep
<1>14. CASE Stream!Rotated
  BY <1>14, RotatedStep
<1>15. CASE Stream!OpFails \/ Stream!Shutdown
  BY <1>15, AbandonSteps
<1>16. CASE Stream!FillFails
  BY <1>16, FillFailsStep
<1> QED
  BY <1>1, <1>2, <1>3, <1>4, <1>5, <1>6, <1>7, <1>8, <1>9, <1>10, <1>11, <1>12, <1>13,
     <1>14, <1>15, <1>16 DEF Stream!Next

LEMMA StreamInvHolds == MCSpec => []StreamInv
<1>1. MCInit => StreamInv
  BY StreamInit DEF MCInit
<1>2. StreamInv /\ [MCNext]_<<driven, vars, sweepVars, streamVars>> => StreamInv'
  <2> SUFFICES ASSUME StreamInv, [MCNext]_<<driven, vars, sweepVars, streamVars>>
               PROVE  StreamInv'
    OBVIOUS
  <2>1. Stream!Next \/ UNCHANGED streamVars
    BY DEF MCNext
  <2> QED
    BY <2>1, StreamStep, StreamStutter
<1> QED
  BY <1>1, <1>2, PTL DEF MCSpec

-----------------------------------------------------------------------------
(* What the invariant says of the whole states.                              *)
LEMMA ToSetIsSmall ==
  ASSUME NEW T, NEW s \in Seq(T)
  PROVE  /\ IsFiniteSet(ToSet(s)) /\ Cardinality(ToSet(s)) \in Nat
         /\ Cardinality(ToSet(s)) <= Len(s)
<1> DEFINE n == Len(s)
<1>1. n \in Nat /\ DOMAIN s = 1 .. n
  OBVIOUS
<1> HIDE DEF n
<1>2. IsFiniteSet(1 .. n) /\ Cardinality(1 .. n) = n
  BY <1>1, FS_Interval
<1>3. s \in Surjection(1 .. n, ToSet(s))
  <2>1. s \in [1 .. n -> ToSet(s)]
    BY <1>1 DEF ToSet
  <2> QED
    BY <1>1, <2>1 DEF Surjection, ToSet
<1>4. IsFiniteSet(ToSet(s)) /\ Cardinality(ToSet(s)) <= Cardinality(1 .. n)
  BY <1>2, <1>3, FS_Surjection
<1>5. Cardinality(ToSet(s)) \in Nat
  BY <1>4, FS_CardinalityType
<1> QED
  BY <1>2, <1>4, <1>5 DEF n

LEMMA FewFences ==
  ASSUME StreamInv
  PROVE  Cardinality({i \in DOMAIN device : device[i].do = "fence"}) <= MaxInflight + 3
<1> DEFINE F == {i \in DOMAIN device : device[i].do = "fence"}
           P == {run.pending[h] : h \in {0, 1}}
           G == ToSet(run.segments)
           id == [i \in F |-> device[i].id]
<1>1. RunInv /\ FenceInv
  BY DEF StreamInv
<1>2. IsFiniteSet(G) /\ Cardinality(G) \in Nat /\ Cardinality(G) <= MaxInflight + 1
  <2>1. run.segments \in Seq(Nat) /\ Len(run.segments) \in Nat
    BY <1>1 DEF RunInv
  <2>2. /\ IsFiniteSet(G) /\ Cardinality(G) \in Nat /\ Cardinality(G) <= Len(run.segments)
    BY <2>1, ToSetIsSmall
  <2>3. Len(run.segments) <= MaxInflight + 1
    BY <1>1, <2>1, DrivesAreBounded DEF FenceInv
  <2> QED
    BY <2>1, <2>2, <2>3, DrivesAreBounded
<1>3. IsFiniteSet(P) /\ Cardinality(P) \in Nat /\ Cardinality(P) <= 2
  <2>1. P = {run.pending[0]} \cup {run.pending[1]}
    OBVIOUS
  <2>2. /\ IsFiniteSet({run.pending[0]}) /\ Cardinality({run.pending[0]}) = 1
        /\ IsFiniteSet({run.pending[1]}) /\ Cardinality({run.pending[1]}) = 1
    BY FS_Singleton
  <2> DEFINE A == {run.pending[0]}
             B == {run.pending[1]}
  <2> HIDE DEF A, B, P
  <2>3. IsFiniteSet(A) /\ IsFiniteSet(B) /\ Cardinality(A) = 1 /\ Cardinality(B) = 1
    BY <2>2 DEF A, B
  <2>4. /\ IsFiniteSet(A \cup B)
        /\ Cardinality(A \cup B) = Cardinality(A) + Cardinality(B) - Cardinality(A \cap B)
    BY <2>3, FS_Union
  <2>5. IsFiniteSet(A \cap B)
    BY <2>3, FS_Intersection
  <2>6. Cardinality(A \cap B) \in Nat /\ Cardinality(A \cup B) \in Nat
    BY <2>4, <2>5, FS_CardinalityType
  <2> QED
    BY <2>1, <2>3, <2>4, <2>6 DEF A, B
<1>4. Stream!InFlight = G \cup P
  BY StreamOperators DEF Stream!InFlight, Stream!Halves
<1> HIDE DEF G, P
<1>5. IsFiniteSet(G \cup P) /\ Cardinality(G \cup P) \in Nat /\ Cardinality(G \cup P) <= MaxInflight + 3
  <2>1. /\ IsFiniteSet(G \cup P)
        /\ Cardinality(G \cup P) = Cardinality(G) + Cardinality(P) - Cardinality(G \cap P)
    BY <1>2, <1>3, FS_Union
  <2>2. IsFiniteSet(G \cap P)
    BY <1>2, <1>3, FS_Intersection
  <2>3. Cardinality(G \cap P) \in Nat /\ Cardinality(G \cup P) \in Nat
    BY <2>1, <2>2, FS_CardinalityType
  <2> QED
    BY <1>2, <1>3, <2>1, <2>3, DrivesAreBounded
<1>6. id \in Injection(F, G \cup P)
  <2>1. FencesAre(device, run.fences, G \cup P)
    BY <1>1, <1>4 DEF FenceInv
  <2>2. id \in [F -> G \cup P]
    BY <2>1 DEF FencesAre
  <2>3. \A i, j \in F : id[i] = id[j] => i = j
    BY <2>1 DEF FencesAre
  <2> HIDE DEF id
  <2>4. DOMAIN id = F
    BY <2>2
  <2>5. IsInjective(id)
    BY <2>3, <2>4 DEF IsInjective
  <2> QED
    BY <2>2, <2>5 DEF Injection
<1> HIDE DEF F, id
<1>7. IsFiniteSet(F) /\ Cardinality(F) <= Cardinality(G \cup P)
  BY <1>5, <1>6, FS_Injection
<1>8. Cardinality(F) \in Nat
  BY <1>7, FS_CardinalityType
<1>9. Cardinality(F) <= MaxInflight + 3
  BY <1>5, <1>7, <1>8, DrivesAreBounded
<1> QED
  BY <1>9 DEF F

(* The pools are one pager each, and nothing else.                           *)
PoolsAre == pools = [p \in Stream!Pools |-> pools[p]]

LEMMA PoolsStay ==
  ASSUME PoolsAre, Stream!Next
  PROVE  PoolsAre'
<1>1. Stream!Pools' = Stream!Pools
  <2>1. model' = model
    BY DEF Stream!Next, Stream!Execute, Stream!Start, Stream!Split, Stream!Retire,
           Stream!DenseOp, Stream!StageDense, Stream!MoeWide, Stream!MoeInline, Stream!Enter,
           Stream!MoeSync, Stream!MoeRouted, Stream!StageExpert, Stream!Window,
           Stream!Rotate, Stream!Rotated, Stream!Finish, Stream!Finished, Stream!OpFails,
           Stream!FillFails, Stream!Shutdown, Stream!Unwound
  <2> QED
    BY <2>1, SameModel
<1>2. \/ pools' = pools
      \/ \E p, q : pools' = [pools EXCEPT ![p] = q]
      \/ \E q : pools' = [[p \in Stream!Pools |-> Stream!TouchAll(pools[p])] EXCEPT ![1] = q]
  <2>1. CASE Stream!StageDense \/ Stream!StageExpert
    BY <2>1 DEF Stream!StageDense, Stream!StageExpert, Stream!Stage
  <2>2. CASE Stream!MoeWide \/ Stream!MoeInline
    BY <2>2 DEF Stream!MoeWide, Stream!MoeInline, Stream!Enter
  <2>3. CASE Stream!MoeRouted \/ Stream!FillFails
    BY <2>3 DEF Stream!MoeRouted, Stream!FillFails
  <2>4. CASE Stream!Window
    BY <2>4 DEF Stream!Window
  <2>5. CASE \/ (\E i \in DOMAIN device : Stream!Execute(i))
             \/ (\E wide \in BOOLEAN : Stream!Start(wide))
             \/ Stream!Split \/ Stream!Retire \/ Stream!DenseOp \/ Stream!MoeSync
             \/ Stream!Rotate \/ Stream!Rotated \/ Stream!Finish \/ Stream!Finished
             \/ Stream!OpFails \/ Stream!Shutdown \/ Stream!Unwound
    BY <2>5 DEF Stream!Execute, Stream!Start, Stream!Split, Stream!Retire, Stream!DenseOp,
                Stream!MoeSync, Stream!Rotate, Stream!Rotated, Stream!Finish, Stream!Finished,
                Stream!OpFails, Stream!Shutdown, Stream!Unwound, Stream!session
  <2> QED
    BY <2>1, <2>2, <2>3, <2>4, <2>5 DEF Stream!Next
<1>3. DOMAIN pools = Stream!Pools
  BY DEF PoolsAre
<1>4. pools' = [p \in Stream!Pools |-> pools'[p]]
  <2>1. CASE pools' = pools
    BY <2>1 DEF PoolsAre
  <2>2. CASE \E p, q : pools' = [pools EXCEPT ![p] = q]
    BY <1>3, <2>2
  <2>3. CASE \E q : pools' = [[p \in Stream!Pools |-> Stream!TouchAll(pools[p])] EXCEPT ![1] = q]
    BY <2>3
  <2> QED
    BY <1>2, <2>1, <2>2, <2>3
<1> QED
  BY <1>1, <1>4 DEF PoolsAre

LEMMA PoolsAreHolds == MCSpec => []PoolsAre
<1>1. MCInit => PoolsAre
  BY DEF MCInit, Stream!Init, PoolsAre
<1>2. PoolsAre /\ [MCNext]_<<driven, vars, sweepVars, streamVars>> => PoolsAre'
  <2> SUFFICES ASSUME PoolsAre, [MCNext]_<<driven, vars, sweepVars, streamVars>>
               PROVE  PoolsAre'
    OBVIOUS
  <2>1. Stream!Next \/ UNCHANGED streamVars
    BY DEF MCNext
  <2>2. CASE UNCHANGED streamVars
    <3>1. pools' = pools /\ model' = model
      BY <2>2 DEF streamVars
    <3>2. Stream!Pools' = Stream!Pools
      BY <3>1, SameModel
    <3> QED
      BY <3>1, <3>2 DEF PoolsAre
  <2> QED
    BY <2>1, <2>2, PoolsStay
<1> QED
  BY <1>1, <1>2, PTL DEF MCSpec

(* SegmentsAreRetired of MCPager: for every model, every number of slots and every bound  *)
(* on the segments, a forward of the VRAM tier returns only when the device is done with    *)
(* everything the forward submitted, and the splitter and the two ring halves together       *)
(* never have more than a bounded number of segments in flight (execute_static).  *)
THEOREM ForwardsReturnWhenDone == MCSpec => []SegmentsAreRetired
<1>1. StreamInv /\ PoolsAre => SegmentsAreRetired
  <2> SUFFICES ASSUME StreamInv, PoolsAre PROVE SegmentsAreRetired
    OBVIOUS
  <2>1. RunInv /\ FenceInv /\ PoolInv
    BY DEF StreamInv
  <2>2. Stream!TypeOK
    <3>1. pools \in [Stream!Pools -> Stream!PagerType]
      <4>1. \A p \in Stream!Pools : pools[p] \in PagerType
        BY <2>1 DEF PoolInv, Sound
      <4>2. Stream!PagerType = PagerType
        BY StreamOperators
      <4> HIDE DEF PagerType
      <4> QED
        BY <4>1, <4>2 DEF PoolsAre
    <3>2. \A i \in DOMAIN ring : ring[i] \in Blocks \cup {NoBlock}
      BY <2>1 DEF RunInv
    <3>3. Stream!NoSlot = NoSlot /\ Stream!Slots = Slots /\ Stream!Halves = {0, 1}
      BY StreamOperators
    <3> QED
      BY <2>1, <3>1, <3>2, <3>3 DEF Stream!TypeOK, RunInv
  <2>3. Stream!Cardinality({i \in DOMAIN device : device[i].do = "fence"}) <= MaxInflight + 3
    BY FewFences, StreamOperators
  <2>4. run.at = "idle" => device = <<>>
    BY <2>1 DEF FenceInv
  <2> QED
    BY <2>2, <2>3, <2>4, StreamOperators DEF SegmentsAreRetired, Stream!SegmentsAreRetired
<1> QED
  BY <1>1, StreamInvHolds, PoolsAreHolds, PTL

(* DeviceSeesWhatWasMeant of MCPager: for every model, every number of slots, every size    *)
(* of the ring and of the tape, and however far the device lags behind, a copy finds in its   *)
(* ring position the block it was recorded for, and a dispatch finds in the slots it was      *)
(* told the blocks it was recorded for, unless their copy was discarded (rotate_stream,     *)
(* stage_dense_linear, execute_paged_moe).                                   *)
THEOREM TheDeviceSeesWhatWasMeant == MCSpec => []DeviceSeesWhatWasMeant
<1>1. StreamInv => DeviceSeesWhatWasMeant
  <2> SUFFICES ASSUME StreamInv, NEW i \in Stream!Executable
               PROVE  IF device[i].do = "copy" THEN ring[device[i].from] = device[i].blk
                      ELSE Stream!Sees(device[i], device[i].sound)
    BY DEF DeviceSeesWhatWasMeant, Stream!DeviceSeesWhatWasMeant
  <2>1. RunInv /\ QueueInv /\ RingInv
    BY DEF StreamInv
  <2>2. /\ i \in DOMAIN device /\ device[i].do \in {"copy", "read"}
        /\ \A m \in 1 .. i - 1 : device[m].do # "barrier"
    BY DEF Stream!Executable
  <2>3. /\ DOMAIN device = 1 .. Len(device) /\ Len(device) \in Nat
        /\ \A k \in DOMAIN device : k \in DOMAIN Ahead /\ Ahead[k] = device[k]
    BY <2>1, QueueIs
  <2>4. CASE device[i].do = "copy"
    BY <2>1, <2>2, <2>3, <2>4 DEF RingInv
  <2>5. CASE device[i].do = "read"
    <3> SUFFICES ASSUME NEW b \in device[i].sound
                 PROVE  /\ SlotOf(device[i], tape, b) # NoSlot
                        /\ arena[device[i].pool][SlotOf(device[i], tape, b)] = b
      BY <2>5, StreamOperators DEF Stream!Sees, Stream!SlotRead, SlotOf
    <3> DEFINE p == device[i].pool
               s == SlotOf(device[i], tape, b)
    <3>1. s \in Slots /\ Holds(Ahead, i, arena, p, s, b)
      BY <2>1, <2>2, <2>3, <2>5 DEF QueueInv, ReadsAreRight
    <3>2. \A k \in 1 .. i - 1 : ~CopyTo(Ahead, k, p, s)
      <4> SUFFICES ASSUME NEW k \in 1 .. i - 1, CopyTo(Ahead, k, p, s)
                   PROVE  FALSE
        OBVIOUS
      <4>1. k \in DOMAIN Ahead /\ i \in DOMAIN Ahead /\ k < i
        BY <2>2, <2>3
      <4>2. Clash(Ahead[k], Ahead[i])
        BY <2>2, <2>3, <2>5 DEF Clash, CopyTo
      <4>3. PICK m \in k + 1 .. i - 1 : Ahead[m].do = "barrier"
        BY <2>1, <4>1, <4>2 DEF QueueInv, Apart
      <4>4. m \in DOMAIN device /\ m \in 1 .. i - 1
        BY <2>2, <2>3, <4>3
      <4> QED
        BY <2>2, <2>3, <4>3, <4>4
    <3> HIDE DEF p, s
    <3>3. arena[p][s] = b
      BY <3>1, <3>2 DEF Holds
    <3>4. s # NoSlot
      BY <3>1, NSlotsPositive DEF Slots, NoSlot
    <3> QED
      BY <3>3, <3>4 DEF p, s
  <2> QED
    BY <2>2, <2>4, <2>5
<1> QED
  BY <1>1, StreamInvHolds, PTL


-----------------------------------------------------------------------------
(* While nothing is discarded, a dispatch is recorded for all it needs.      *)
Whole(c) == c.do = "read" => c.sound = c.need
Issued == {c \in Commands : Whole(c)}
Grown(S) == Issued \cup {Stream!Barrier} \cup {Stream!Fence(f) : f \in Nat} \cup S

WholeInv == device \in Seq(Issued) /\ run.rec \in Seq(Issued)

NothingLost == lost = {}

LEMMA GrownIsWhole ==
  ASSUME NEW S, \A c \in S : Whole(c)
  PROVE  \A c \in Grown(S) : Whole(c)
BY DEF Grown, Issued, Whole, Stream!Barrier, Stream!Fence

LEMMA IssuedAgain ==
  ASSUME NEW S, \A c \in S : Whole(c), NEW q \in Seq(Commands), q \in Seq(Grown(S))
  PROVE  q \in Seq(Issued)
<1>1. \A c \in Grown(S) : Whole(c)
  BY GrownIsWhole
<1>2. \A i \in 1 .. Len(q) : q[i] \in Commands /\ q[i] \in Grown(S)
  OBVIOUS
<1>3. \A i \in 1 .. Len(q) : q[i] \in Issued
  BY <1>1, <1>2 DEF Issued
<1> HIDE DEF Commands, Grown, Issued
<1>4. Len(q) \in Nat /\ q = [i \in 1 .. Len(q) |-> q[i]]
  OBVIOUS
<1> QED
  BY <1>3, <1>4

(* Sequences over a set.                                                     *)
Over(T, q) == q \in Seq(T)

LEMMA OverLarger ==
  ASSUME NEW S, NEW T, S \subseteq T, NEW q, Over(S, q)
  PROVE  Over(T, q)
<1>1. Len(q) \in Nat /\ q = [i \in 1 .. Len(q) |-> q[i]] /\ \A i \in 1 .. Len(q) : q[i] \in T
  BY DEF Over
<1> QED
  BY <1>1 DEF Over

LEMMA OverNone ==
  ASSUME NEW T
  PROVE  Over(T, <<>>)
BY DEF Over

LEMMA OverOne ==
  ASSUME NEW T, NEW c \in T
  PROVE  Over(T, <<c>>)
BY DEF Over

LEMMA OverTwo ==
  ASSUME NEW T, NEW a \in T, NEW c \in T
  PROVE  Over(T, <<a, c>>)
BY DEF Over

LEMMA OverJoin ==
  ASSUME NEW T, NEW q, NEW t, Over(T, q), Over(T, t)
  PROVE  Over(T, q \o t)
BY JoinIs DEF Over

LEMMA OverAppend ==
  ASSUME NEW T, NEW q, Over(T, q), NEW c \in T
  PROVE  Over(T, Append(q, c))
BY DEF Over

(* What a step records is a sequence over what was issued before and some more    *)
(* commands, all whole.                                                     *)
Issues(S) ==
  (\A c \in S : Whole(c)) /\ Over(Grown(S), device') /\ Over(Grown(S), run'.rec)

LEMMA OldGrown ==
  ASSUME WholeInv, NEW S
  PROVE  /\ Over(Grown(S), device) /\ Over(Grown(S), run.rec)
         /\ Stream!Barrier \in Grown(S) /\ S \subseteq Grown(S)
<1>1. Over(Issued, device) /\ Over(Issued, run.rec)
  BY DEF WholeInv, Over
<1>2. Issued \subseteq Grown(S) /\ Stream!Barrier \in Grown(S) /\ S \subseteq Grown(S)
  BY DEF Grown
<1> QED
  BY <1>1, <1>2, OverLarger, Zenon

LEMMA OldIssues ==
  ASSUME StreamInv, WholeInv,
         \/ \E i \in DOMAIN device : Stream!Execute(i)
         \/ \E wide \in BOOLEAN : Stream!Start(wide)
         \/ Stream!Split \/ Stream!Retire \/ Stream!DenseOp
         \/ Stream!MoeWide \/ Stream!MoeInline \/ Stream!MoeSync \/ Stream!MoeRouted
         \/ Stream!Rotate \/ Stream!Rotated \/ Stream!Finish \/ Stream!Finished
         \/ Stream!OpFails \/ Stream!FillFails \/ Stream!Shutdown \/ Stream!Unwound
  PROVE  Issues({})
<1> DEFINE G == Grown({})
           f == run.fences + 1
<1>1. /\ Over(G, device) /\ Over(G, run.rec) /\ Stream!Barrier \in G
      /\ f \in Nat /\ Stream!Fence(f) \in G /\ DOMAIN run = RunFields /\ RunInv
  <2>0. RunInv
    BY Zenon DEF StreamInv
  <2>a. DOMAIN run = RunFields /\ run.fences \in Nat
    BY <2>0, Zenon DEF RunInv
  <2>1. f \in Nat /\ DOMAIN run = RunFields /\ RunInv
    BY <2>0, <2>a
  <2> HIDE DEF f
  <2>2. Stream!Barrier \in G /\ Stream!Fence(f) \in G
    BY <2>1 DEF Grown
  <2> QED
    BY <2>1, <2>2, OldGrown
<1>p. /\ Over(G, <<>>) /\ Over(G, <<Stream!Barrier>>) /\ Over(G, <<Stream!Fence(f)>>)
      /\ Over(G, device \o run.rec) /\ Over(G, Append(run.rec, Stream!Barrier))
  BY <1>1, OverNone, OverOne, OverJoin, OverAppend, Zenon
<1>q. Over(G, device \o run.rec \o <<Stream!Fence(f)>>)
  BY <1>p, OverJoin, Zenon
<1> SUFFICES Over(G, device') /\ Over(G, run'.rec)
  BY DEF Issues
<1>2. CASE \E i \in DOMAIN device : Stream!Execute(i)
  <2>1. PICK i \in DOMAIN device : Stream!Execute(i)
    BY <1>2
  <2>2. device' = RemoveAt(device, i) /\ run' = run
    BY <2>1, StreamOperators DEF Stream!Execute
  <2> HIDE DEF G
  <2> QED
    BY <1>1, <2>2, RemoveAtIs DEF Over
<1> HIDE DEF G, f
<1>3. CASE (\E wide \in BOOLEAN : Stream!Start(wide)) \/ Stream!Finished \/ Stream!Unwound
  <2>1. CASE \E wide \in BOOLEAN : Stream!Start(wide)
    <3>1. device' = device /\ run'.rec = <<>>
      BY <2>1 DEF Stream!Start, Stream!Idle
    <3> QED
      BY <1>1, <1>p, <3>1
  <2>2. CASE Stream!Finished \/ Stream!Unwound
    <3>1. device' = device /\ run' = Stream!Idle
      BY <2>2 DEF Stream!Finished, Stream!Unwound
    <3>2. run'.rec = <<>>
      BY <3>1 DEF Stream!Idle
    <3> QED
      BY <1>1, <1>p, <3>1, <3>2
  <2> QED
    BY <1>3, <2>1, <2>2
<1>4. CASE Stream!Split \/ Stream!Rotate
  <2>1. device' = device \o run.rec \o <<Stream!Fence(f)>>
    BY <1>4 DEF Stream!Split, Stream!Rotate, Stream!Submitted, f
  <2>2. run'.rec \in {<<>>, <<Stream!Barrier>>}
    BY <1>1, <1>4 DEF Stream!Split, Stream!Rotate, RunFields
  <2> QED
    BY <1>p, <1>q, <2>1, <2>2
<1>5. CASE Stream!Retire \/ Stream!Rotated
  <2>1. device' = device /\ run'.rec \in {run.rec, <<Stream!Barrier>>}
    BY <1>1, <1>5 DEF Stream!Retire, Stream!Rotated, RunFields
  <2> QED
    BY <1>1, <1>p, <2>1
<1>6. CASE Stream!DenseOp \/ Stream!MoeWide \/ Stream!MoeInline
  <2>1. device' = device /\ run'.rec = Append(run.rec, Stream!Barrier)
    BY <1>1, <1>6 DEF Stream!DenseOp, Stream!MoeWide, Stream!MoeInline, Stream!Enter, RunFields
  <2> QED
    BY <1>1, <1>p, <2>1
<1>7. CASE Stream!MoeSync \/ Stream!Finish
  <2>1. device' = device \o run.rec /\ run'.rec = <<>>
    BY <1>1, <1>7 DEF Stream!MoeSync, Stream!Finish, RunFields
  <2> QED
    BY <1>1, <1>p, <2>1
<1>8. CASE Stream!MoeRouted
  <2>1. PICK ids \in Stream!Routings :
          run' = [run EXCEPT !.at = "stage", !.rec = <<Stream!Barrier>>, !.role = 1,
                             !.pending = [h \in Stream!Halves |-> 0], !.cursor = 0, !.words = 0,
                             !.ids = ids, !.todo = ids, !.windows = <<>>]
    BY <1>8 DEF Stream!MoeRouted
  <2>2. run'.rec = <<Stream!Barrier>>
    BY <1>1, <2>1 DEF RunFields
  <2>3. device' = device
    BY <1>8 DEF Stream!MoeRouted
  <2> QED
    BY <1>1, <1>p, <2>2, <2>3
<1>9. CASE Stream!OpFails \/ Stream!FillFails \/ Stream!Shutdown
  <2>1. device' = device /\ run'.rec = <<>>
    BY <1>1, <1>9 DEF Stream!OpFails, Stream!FillFails, Stream!Shutdown, RunFields
  <2> QED
    BY <1>1, <1>p, <2>1
<1> QED
  BY <1>2, <1>3, <1>4, <1>5, <1>6, <1>7, <1>8, <1>9

LEMMA ReadIsWhole ==
  ASSUME NothingLost', NEW p, NEW w, NEW s, NEW B
  PROVE  /\ Whole(Stream!Read(p, w, s, B, lost'))
         /\ lost' = lost => Whole(Stream!Read(p, w, s, B, lost))
<1>1. {b \in B : <<p, b>> \notin {}} = B
  OBVIOUS
<1> QED
  BY <1>1 DEF NothingLost, Whole, Stream!Read

LEMMA NewIssues ==
  ASSUME StreamInv, WholeInv, NothingLost',
         Stream!StageDense \/ Stream!StageExpert \/ Stream!Window
  PROVE  \E S : Issues(S)
<1>1. DOMAIN run = RunFields /\ RunInv
  BY DEF StreamInv, RunInv
<1>2. ASSUME NEW p, NEW q, NEW b
      PROVE  \E c : Whole(c) /\ (Stream!Copies(p, q, b) = <<>> \/ Stream!Copies(p, q, b) = <<c>>)
  <2> DEFINE c == [do |-> "copy", pool |-> p, slot |-> Stream!Touch(q, b, Stream!Policy).slot,
                   from |-> Stream!Here, blk |-> b]
  <2>1. Whole(c)
    BY DEF Whole
  <2>2. Stream!Copies(p, q, b) = <<>> \/ Stream!Copies(p, q, b) = <<c>>
    BY DEF Stream!Copies
  <2> QED
    BY <2>1, <2>2
<1>3. CASE Stream!StageExpert
  <2> DEFINE cs == Stream!Copies(run.role, pools[run.role], Head(run.todo))
  <2>1. device' = device /\ run'.rec = run.rec \o cs
    BY <1>1, <1>3 DEF Stream!StageExpert, RunFields
  <2>2. PICK c : Whole(c) /\ (cs = <<>> \/ cs = <<c>>)
    BY <1>2
  <2> DEFINE G == Grown({c})
  <2>3. Over(G, device) /\ Over(G, run.rec) /\ c \in G
    BY OldGrown
  <2> HIDE DEF G, cs
  <2>6. Over(G, cs)
    BY <2>2, <2>3, OverNone, OverOne
  <2>7. Over(G, run.rec \o cs)
    BY <2>3, <2>6, OverJoin, Zenon
  <2>4. Over(G, device') /\ Over(G, run'.rec)
    BY <2>1, <2>3, <2>7
  <2>5. Issues({c})
    BY <2>2, <2>4 DEF Issues, G
  <2> QED
    BY <2>5
<1>4. CASE Stream!StageDense
  <2> DEFINE b == run.todo[1]
             q == Stream!BeginBatch(pools[1])
             cs == Stream!Copies(1, q, b)
             rd == Stream!Read(1, 0, Stream!Touch(q, b, Stream!Policy).slot, {b}, lost')
  <2>1. device' = device /\ run'.rec = run.rec \o cs \o <<Stream!Barrier, rd>>
    BY <1>1, <1>4 DEF Stream!StageDense, RunFields
  <2>2. PICK c : Whole(c) /\ (cs = <<>> \/ cs = <<c>>)
    BY <1>2
  <2>3. Whole(rd)
    BY ReadIsWhole
  <2> DEFINE G == Grown({c, rd})
  <2>4. /\ Over(G, device) /\ Over(G, run.rec) /\ c \in G /\ rd \in G
        /\ Stream!Barrier \in G
    BY OldGrown
  <2> HIDE DEF G, cs, rd
  <2>7. Over(G, cs) /\ Over(G, <<Stream!Barrier, rd>>)
    BY <2>2, <2>4, OverNone, OverOne, OverTwo
  <2>8. Over(G, run.rec \o cs)
    BY <2>4, <2>7, OverJoin, Zenon
  <2>9. Over(G, run.rec \o cs \o <<Stream!Barrier, rd>>)
    BY <2>7, <2>8, OverJoin, Zenon
  <2>5. Over(G, device') /\ Over(G, run'.rec)
    BY <2>1, <2>4, <2>9
  <2>6. Issues({c, rd})
    BY <2>2, <2>3, <2>5 DEF Issues, G
  <2> QED
    BY <2>6
<1>5. CASE Stream!Window
  <2> DEFINE ws == Append(run.windows, run.words + 1)
             rs == [p \in Stream!Pools |-> Stream!Read(p, ws[p], Stream!NoSlot, Stream!Needed, lost)]
             S == {Stream!Read(p, ws[p], Stream!NoSlot, Stream!Needed, lost) : p \in Stream!Pools}
             G == Grown(S)
  <2>1. device' = device /\ lost' = lost
        /\ (run'.rec = run.rec \/ run'.rec = run.rec \o <<Stream!Barrier>> \o rs)
    BY <1>1, <1>5 DEF Stream!Window, RunFields
  <2>2. \A c \in S : Whole(c)
    BY <2>1, ReadIsWhole
  <2>3. /\ Over(G, device) /\ Over(G, run.rec) /\ S \subseteq G
        /\ Stream!Barrier \in G
    BY OldGrown
  <2>4. Over(S, rs)
    <3>1. Stream!Pools = 1 .. model.pools /\ model.pools \in Nat
      BY <1>1, ModelIs DEF RunInv
    <3>2. rs \in [1 .. model.pools -> S]
      BY <3>1
    <3> HIDE DEF rs, S
    <3> QED
      BY <3>1, <3>2 DEF Over
  <2> HIDE DEF G, rs, S
  <2>5. Over(G, rs) /\ Over(G, <<Stream!Barrier>>)
    BY <2>3, <2>4, OverLarger, OverOne, Zenon
  <2>8. Over(G, run.rec \o <<Stream!Barrier>>)
    BY <2>3, <2>5, OverJoin, Zenon
  <2>9. Over(G, run.rec \o <<Stream!Barrier>> \o rs)
    BY <2>5, <2>8, OverJoin, Zenon
  <2>6. Over(G, device') /\ Over(G, run'.rec)
    BY <2>1, <2>3, <2>9
  <2>7. Issues(S)
    BY <2>2, <2>6 DEF Issues, G
  <2> QED
    BY <2>7
<1> QED
  BY <1>3, <1>4, <1>5

LEMMA WholeStep ==
  ASSUME StreamInv, WholeInv, NothingLost', Stream!Next
  PROVE  WholeInv'
<1>1. StreamInv'
  BY StreamStep
<1>2. \E S : Issues(S)
  BY OldIssues, NewIssues DEF Stream!Next
<1>3. PICK S : Issues(S)
  BY <1>2
<1>4. model' = model
  BY DEF Stream!Next, Stream!Execute, Stream!Start, Stream!Split, Stream!Retire,
         Stream!DenseOp, Stream!StageDense, Stream!MoeWide, Stream!MoeInline, Stream!Enter,
         Stream!MoeSync, Stream!MoeRouted, Stream!StageExpert, Stream!Window,
         Stream!Rotate, Stream!Rotated, Stream!Finish, Stream!Finished, Stream!OpFails,
         Stream!FillFails, Stream!Shutdown, Stream!Unwound
<1>5. Commands' = Commands /\ Issued' = Issued
  BY <1>4, SameModel DEF Issued
<1>6. device' \in Seq(Commands) /\ run'.rec \in Seq(Commands)
  BY <1>1, <1>5 DEF StreamInv, RunInv
<1>7. device' \in Seq(Issued) /\ run'.rec \in Seq(Issued)
  BY <1>3, <1>6, IssuedAgain DEF Issues, Over
<1> QED
  BY <1>5, <1>7 DEF WholeInv

(* ResidentAtExecution, which the run vram_abandoned shows violated: as long as no       *)
(* recording is discarded (abort_segment) and no fill fails, every dispatch finds every   *)
(* block it needs in its slot when it runs, for every model, ring, tape and number of     *)
(* slots. The discarded work is the only cause of what that run shows.                    *)
THEOREM OnlyAbortsLoseBlocks ==
  MCSpec /\ []NothingLost => []ResidentAtExecution
<1>1. MCInit => WholeInv
  <2> SUFFICES ASSUME MCInit PROVE WholeInv
    OBVIOUS
  <2>1. device = <<>> /\ run.rec = <<>>
    BY DEF MCInit, Stream!Init, Stream!Idle
  <2> QED
    BY <2>1 DEF WholeInv
<1>2. /\ StreamInv /\ WholeInv /\ NothingLost'
      /\ [MCNext]_<<driven, vars, sweepVars, streamVars>>
      => WholeInv'
  <2> SUFFICES ASSUME StreamInv, WholeInv, NothingLost',
                      [MCNext]_<<driven, vars, sweepVars, streamVars>>
               PROVE  WholeInv'
    OBVIOUS
  <2>1. Stream!Next \/ UNCHANGED streamVars
    BY DEF MCNext
  <2>2. CASE UNCHANGED streamVars
    <3>1. device' = device /\ run' = run /\ model' = model
      BY <2>2 DEF streamVars
    <3>2. Issued' = Issued
      BY <3>1, SameModel DEF Issued
    <3> QED
      BY <3>1, <3>2 DEF WholeInv
  <2> QED
    BY <2>1, <2>2, WholeStep
<1>3. StreamInv /\ WholeInv /\ DeviceSeesWhatWasMeant => ResidentAtExecution
  <2> SUFFICES ASSUME StreamInv, WholeInv, DeviceSeesWhatWasMeant,
                      NEW i \in Stream!Executable, device[i].do = "read"
               PROVE  Stream!Sees(device[i], device[i].need)
    BY DEF ResidentAtExecution, Stream!ResidentAtExecution
  <2>1. Stream!Sees(device[i], device[i].sound)
    BY DEF DeviceSeesWhatWasMeant, Stream!DeviceSeesWhatWasMeant
  <2>2. i \in DOMAIN device
    BY DEF Stream!Executable
  <2>3. device[i] \in Issued
    BY <2>2 DEF WholeInv
  <2> QED
    BY <2>1, <2>3 DEF Issued, Whole
<1> QED
  BY <1>1, <1>2, <1>3, StreamInvHolds, TheDeviceSeesWhatWasMeant, PTL DEF MCSpec
=============================================================================
