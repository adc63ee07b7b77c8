------------------------------ MODULE MtpProofs ------------------------------
(***************************************************************************)
(* Proofs about a conversation slot (KvSession) and the multi-token loop      *)
(* over it (Mtp), for any tokens, prompts, context and window: a forward       *)
(* reads what its own stream left, and every draft is judged in its context.  *)
(***************************************************************************)
EXTENDS Mtp, SequenceTheorems, WellFoundedInduction, TLAPS

-----------------------------------------------------------------------------
(* Numbers.                                                                 *)

LEMMA NatLeast ==
  ASSUME NEW S \in SUBSET Nat, S # {}
  PROVE  \E j \in S : \A k \in S : j <= k
<1> DEFINE R == {p \in Nat \X Nat : p[1] < p[2]}
<1>1. IsWellFoundedOn(R, Nat)
  BY NatLessThanWellFounded DEF OpToRel
<1>2. PICK j \in S : \A k \in S : ~(<<k, j>> \in R)
  <2> HIDE DEF R
  <2> QED BY <1>1, WFMin
<1>3. \A k \in S : k < j => <<k, j>> \in R
  OBVIOUS
<1> HIDE DEF R
<1>4. \A k \in S : ~(k < j)
  BY <1>2, <1>3, Zenon
<1> QED
  BY <1>4

LEMMA Quotient ==
  ASSUME NEW r \in Nat \ {0}, NEW p \in Nat
  PROVE  p = r * (p \div r) + (p % r) /\ p % r \in Int /\ p \div r \in Int
BY SMTT(30)

(* Positions less than r apart have different rows in a ring of r.             *)
LEMMA RingDistinct ==
  ASSUME NEW r \in Nat \ {0}, NEW p \in Nat, NEW q \in Nat, p < q, q - p < r
  PROVE  p % r # q % r
<1> DEFINE d == (q \div r) - (p \div r)
<1>1. /\ p = r * (p \div r) + (p % r) /\ q = r * (q \div r) + (q % r)
      /\ p % r \in Int /\ q % r \in Int /\ p \div r \in Int /\ q \div r \in Int
  BY Quotient
<1> SUFFICES ASSUME p % r = q % r PROVE FALSE
  OBVIOUS
<1>2. q - p = r * d /\ d \in Int
  BY <1>1, SMTT(10)
<1> HIDE DEF d
<1>3. CASE d <= 0
  <2>1. r * d <= 0
    BY <1>2, <1>3
  <2> QED
    BY <2>1, <1>2
<1>4. CASE d >= 1
  <2>1. r * d >= r
    BY <1>2, <1>4
  <2> QED
    BY <2>1, <1>2
<1> QED
  BY <1>2, <1>3, <1>4

LEMMA RowInRange ==
  ASSUME NEW r \in Nat \ {0}, NEW p \in Nat
  PROVE  p % r \in 0 .. r - 1 /\ (p < r => p % r = p)
BY SMTT(30)

-----------------------------------------------------------------------------
(* Streams and their prefixes.                                              *)

LEMMA UptoIs ==
  ASSUME NEW s \in Streams, NEW n \in 0 .. Len(s)
  PROVE  /\ Upto(s, n) \in Streams /\ Len(Upto(s, n)) = n
         /\ \A i \in 1 .. n : Upto(s, n)[i] = s[i]
BY SubSeqProperties, LenProperties DEF Upto, Streams

LEMMA UptoEqual ==
  ASSUME NEW s \in Streams, NEW t \in Streams, NEW n \in 0 .. Len(s), n <= Len(t)
  PROVE  Upto(s, n) = Upto(t, n) <=> \A i \in 1 .. n : s[i] = t[i]
<1>1. n \in 0 .. Len(t)
  BY LenProperties DEF Streams
<1>2. /\ Upto(s, n) \in Streams /\ Len(Upto(s, n)) = n
      /\ \A i \in 1 .. n : Upto(s, n)[i] = s[i]
  BY UptoIs
<1>3. /\ Upto(t, n) \in Streams /\ Len(Upto(t, n)) = n
      /\ \A i \in 1 .. n : Upto(t, n)[i] = t[i]
  BY <1>1, UptoIs
<1>4. ASSUME \A i \in 1 .. n : s[i] = t[i] PROVE Upto(s, n) = Upto(t, n)
  BY <1>2, <1>3, <1>4, SeqEqual DEF Streams
<1> QED
  BY <1>2, <1>3, <1>4

LEMMA UptoUpto ==
  ASSUME NEW s \in Streams, NEW n \in 0 .. Len(s), NEW m \in 0 .. n
  PROVE  Upto(Upto(s, n), m) = Upto(s, m)
<1>1. Len(s) \in Nat /\ m \in 0 .. Len(s)
  BY LenProperties DEF Streams
<1>2. /\ Upto(s, n) \in Streams /\ Len(Upto(s, n)) = n
      /\ \A i \in 1 .. n : Upto(s, n)[i] = s[i]
  BY UptoIs
<1>3. \A i \in 1 .. m : Upto(s, n)[i] = s[i]
  BY <1>2
<1> QED
  BY <1>1, <1>2, <1>3, UptoEqual

LEMMA UptoAll == ASSUME NEW s \in Streams PROVE Upto(s, Len(s)) = s
BY SubSeqFull DEF Upto, Streams

LEMMA UptoNone == ASSUME NEW s \in Streams PROVE Upto(s, 0) = <<>>
BY SubSeqEmpty DEF Upto

(* What is added after a stream leaves its prefixes.                          *)
LEMMA UptoConcat ==
  ASSUME NEW s \in Streams, NEW t \in Streams, NEW n \in 0 .. Len(s)
  PROVE  /\ s \o t \in Streams /\ Len(s \o t) = Len(s) + Len(t)
         /\ Upto(s \o t, n) = Upto(s, n)
<1>1. /\ s \o t \in Streams /\ Len(s \o t) = Len(s) + Len(t)
      /\ Len(s) \in Nat /\ Len(t) \in Nat
      /\ \A i \in 1 .. Len(s) + Len(t) : (s \o t)[i] = IF i <= Len(s) THEN s[i] ELSE t[i - Len(s)]
  BY ConcatProperties, LenProperties DEF Streams
<1>2. \A i \in 1 .. n : (s \o t)[i] = s[i]
  BY <1>1
<1>3. n \in 0 .. Len(s \o t) /\ n <= Len(s)
  BY <1>1
<1>4. Upto(s \o t, n) = Upto(s, n)
  BY <1>1, <1>2, <1>3, UptoEqual
<1> QED
  BY <1>1, <1>4

LEMMA ConcatIs ==
  ASSUME NEW s \in Streams, NEW t \in Streams
  PROVE  /\ s \o t \in Streams /\ Len(s \o t) = Len(s) + Len(t)
         /\ Len(s) \in Nat /\ Len(t) \in Nat
         /\ \A i \in 1 .. Len(s) + Len(t) :
              (s \o t)[i] = IF i <= Len(s) THEN s[i] ELSE t[i - Len(s)]
BY ConcatProperties, LenProperties DEF Streams

(* The longest common prefix of two streams: they agree on it, and where it ends   *)
(* one of them does or they differ.                                         *)
LEMMA CommonPrefix ==
  ASSUME NEW s \in Streams, NEW t \in Streams
  PROVE  LET LCP == LongestCommonPrefix({s, t})
             n == Len(LCP)
         IN  /\ n \in 0 .. Len(s) /\ n <= Len(t)
             /\ \A i \in 1 .. n : s[i] = t[i]
             /\ n < Len(s) /\ n < Len(t) => s[n + 1] # t[n + 1]
<1> DEFINE Common == CommonPrefixes({s, t})
           LCP == LongestCommonPrefix({s, t})
<1>1. Len(s) \in Nat /\ Len(t) \in Nat
  BY LenProperties DEF Streams
<1>2. ASSUME NEW p \in Common
      PROVE  /\ p \in Streams /\ Len(p) \in 0 .. Len(s) /\ Len(p) <= Len(t)
             /\ \A i \in 1 .. Len(p) : s[i] = t[i]
  <2>1. PICK u \in {s, t} : p \in Prefixes(u)
    BY <1>2 DEF CommonPrefixes
  <2>2. PICK l \in 0 .. Len(u) : p = Upto(u, l)
    BY <2>1 DEF Prefixes, Upto
  <2>3. p \in Streams /\ Len(p) = l
    BY <2>1, <2>2, UptoIs
  <2>4. Len(p) <= Len(s) /\ Len(p) <= Len(t) /\ Upto(p, Len(p)) = Upto(s, Len(p))
        /\ Upto(p, Len(p)) = Upto(t, Len(p))
    BY <1>2 DEF CommonPrefixes, IsPrefix, Upto
  <2>5. l \in 0 .. Len(s)
    BY <1>1, <2>2, <2>3, <2>4
  <2>6. l \in 0 .. Len(p) /\ l <= Len(s) /\ l <= Len(t)
        /\ Upto(p, l) = Upto(s, l) /\ Upto(p, l) = Upto(t, l)
    BY <2>3, <2>4, <2>5
  <2>7. \A i \in 1 .. l : p[i] = s[i]
    BY <2>3, <2>6, UptoEqual
  <2>8. \A i \in 1 .. l : p[i] = t[i]
    BY <2>3, <2>6, UptoEqual
  <2> QED
    BY <1>1, <2>3, <2>4, <2>5, <2>7, <2>8
<1>3. ASSUME NEW n \in 0 .. Len(s), n <= Len(t), \A i \in 1 .. n : s[i] = t[i]
      PROVE  Upto(s, n) \in Common
  <2>1. Upto(s, n) \in Prefixes(s)
    BY DEF Prefixes, Upto
  <2>2. Upto(s, n) = Upto(t, n) /\ Len(Upto(s, n)) = n /\ Upto(s, n) \in Streams
    BY <1>3, UptoEqual, UptoIs
  <2>3. Upto(Upto(s, n), n) = Upto(s, n)
    BY <1>1, UptoUpto
  <2>4. Upto(Upto(t, n), n) = Upto(t, n)
    BY <2>2, <2>3
  <2> DEFINE p == Upto(s, n)
  <2>5. IsPrefix(p, s) /\ IsPrefix(p, t)
    BY <1>1, <1>3, <2>2, <2>3, <2>4 DEF IsPrefix, Upto
  <2> HIDE DEF p
  <2>6. p \in UNION {Prefixes(u) : u \in {s, t}}
    BY <2>1 DEF p
  <2> QED
    BY <2>5, <2>6 DEF CommonPrefixes, p
<1> HIDE DEF Common
<1> DEFINE Left == {Len(s) - Len(p) : p \in Common}
<1>4. Left \in SUBSET Nat /\ Left # {}
  <2>1. Upto(s, 0) \in Common
    BY <1>1, <1>3
  <2> QED
    BY <1>1, <1>2, <2>1
<1>5. PICK d \in Left : \A e \in Left : d <= e
  <2> HIDE DEF Left
  <2> QED BY <1>4, NatLeast
<1>6. \E p \in Common : \A q \in Common : Len(q) <= Len(p)
  <2>1. PICK p \in Common : d = Len(s) - Len(p)
    OBVIOUS
  <2>2. \A q \in Common : Len(s) - Len(p) <= Len(s) - Len(q)
    BY <1>5, <2>1
  <2> QED
    BY <1>1, <1>2, <2>2
<1>7. LCP \in Common /\ \A q \in Common : Len(q) <= Len(LCP)
  BY <1>6 DEF LongestCommonPrefix, Common
<1> HIDE DEF LCP
<1> DEFINE n == Len(LCP)
<1>8. n \in 0 .. Len(s) /\ n <= Len(t) /\ \A i \in 1 .. n : s[i] = t[i]
  BY <1>2, <1>7
<1>9. ASSUME n < Len(s), n < Len(t), s[n + 1] = t[n + 1] PROVE FALSE
  <2>1. n + 1 \in 0 .. Len(s) /\ n + 1 <= Len(t) /\ \A i \in 1 .. n + 1 : s[i] = t[i]
    BY <1>1, <1>8, <1>9
  <2>2. Upto(s, n + 1) \in Common /\ Len(Upto(s, n + 1)) = n + 1
    BY <1>3, <2>1, UptoIs
  <2> QED
    BY <1>7, <1>8, <2>2
<1> QED
  BY <1>8, <1>9 DEF LCP

-----------------------------------------------------------------------------
(* The slot.  What it must keep is stated of the values of its variables, so   *)
(* that it reads the same before and after a step.                          *)

RowsIn(s) == IF s.ring THEN Lesser(s.ctx, s.window + s.ubatch) ELSE s.ctx

(* The rows a stream f needs for what comes after it are its own.               *)
Held(s, rws, f) ==
  \A p \in (IF s.ring THEN Greater(0, Len(f) - s.window) ELSE 0) .. Len(f) - 1 :
    rws[p % RowsIn(s)] = Upto(f, p + 1)

(* What the slot has been fed: by now, in a turn.                             *)
FedBy(t, c) == IF t = NoTurn THEN c ELSE Upto(t.cur, t.pos)

TurnRec ==
  [phase : {"prefill", "decode"}, cur : Streams, plen : Nat, pos : Nat, written : Nat,
   out : Nat, max : Nat]

InTurn(s, t, c) ==
  /\ t \in TurnRec
  /\ 0 < t.plen /\ t.plen + t.max < s.ctx
  /\ Len(t.cur) = t.plen + t.out /\ t.out <= t.max
  /\ t.pos < Len(t.cur) /\ t.written = t.pos
  /\ t.phase = "prefill" => t.pos < t.plen - 1
  /\ Len(c) <= t.pos /\ c = Upto(t.cur, Len(c))

(* Where the rows, the recurrent state and so the reads can be relied on.       *)
RowsTrusted(s) == s.ring => ~s.rewinds /\ s.faults = {}
StateTrusted(s) ==
  /\ s.recurrent /\ s.faults = {}
  /\ s.mtp.drafts = 0 => ~s.resets /\ s.chain < 2
Trusted(s) == RowsTrusted(s) /\ (s.recurrent => StateTrusted(s))

SlotOK(s, c, rws, a, t, x) ==
  /\ s \in Setups
  /\ c \in Streams /\ Len(c) <= s.ctx
  /\ rws \in [0 .. RowsIn(s) - 1 -> Streams]
  /\ a \in Streams /\ x \in BOOLEAN
  /\ t = NoTurn \/ InTurn(s, t, c)
  /\ RowsTrusted(s) => Held(s, rws, FedBy(t, c))
  /\ StateTrusted(s) => a = FedBy(t, c)
  /\ Trusted(s) => x

SlotInv == SlotOK(setup, cached, rows, absorbed, turn, exact)

LEMMA SetupIs ==
  ASSUME NEW s \in Setups
  PROVE  /\ s.ctx \in Nat \ {0} /\ s.window \in Nat \ {0} /\ s.ubatch \in Nat \ {0}
         /\ s.maxPrompt \in Nat \ {0} /\ s.maxNew \in Nat /\ s.chain \in Nat
         /\ s.window <= s.ctx /\ s.chain <= s.ubatch
         /\ s.ring \in BOOLEAN /\ s.recurrent \in BOOLEAN
         /\ RowsIn(s) \in Nat \ {0} /\ RowsIn(s) <= s.ctx
         /\ ~s.ring => RowsIn(s) = s.ctx
         /\ s.ring => RowsIn(s) = s.ctx \/ RowsIn(s) = s.window + s.ubatch
         /\ s.mtp.drafts \in Nat /\ s.mtp.maxM \in Nat
         /\ s.mtp.ckpt \in BOOLEAN /\ s.mtp.reprime \in BOOLEAN
         /\ s.mtp.drafts > 0 =>
              /\ ~s.ring /\ s.faults = {} /\ s.maxPrompt + s.maxNew <= s.ctx
              /\ s.mtp.drafts < s.mtp.maxM
<1>1. /\ s.ctx \in Nat \ {0} /\ s.window \in Nat \ {0} /\ s.ubatch \in Nat \ {0}
      /\ s.maxPrompt \in Nat \ {0} /\ s.maxNew \in Nat /\ s.chain \in Nat
      /\ s.window <= s.ctx /\ s.chain <= s.ubatch
      /\ s.ring \in BOOLEAN /\ s.recurrent \in BOOLEAN
  BY KnownSetups
<1>2. /\ s.mtp.drafts \in Nat /\ s.mtp.maxM \in Nat
      /\ s.mtp.ckpt \in BOOLEAN /\ s.mtp.reprime \in BOOLEAN
      /\ s.mtp.drafts > 0 =>
           /\ ~s.ring /\ s.faults = {} /\ s.maxPrompt + s.maxNew <= s.ctx
           /\ s.mtp.drafts < s.mtp.maxM
  BY KnownMtp
<1>3. /\ RowsIn(s) \in Nat \ {0} /\ RowsIn(s) <= s.ctx
      /\ ~s.ring => RowsIn(s) = s.ctx
      /\ s.ring => RowsIn(s) = s.ctx \/ RowsIn(s) = s.window + s.ubatch
  BY <1>1 DEF RowsIn, Lesser
<1> QED
  BY <1>1, <1>2, <1>3

LEMMA RowsAre == Rows = RowsIn(setup) /\ \A p : RowOf(p) = p % RowsIn(setup)
BY DEF Rows, RowsIn, RowOf, Ring, MaxCtx, Window, Ubatch

(* What one execute leaves in the rows: its own positions, and every row none of   *)
(* them falls on.                                                           *)
LEMMA WrittenIs ==
  ASSUME setup \in Setups, rows \in [0 .. RowsIn(setup) - 1 -> Streams],
         NEW stream \in Streams, NEW from \in Nat, NEW to \in from .. Len(stream),
         to - from <= RowsIn(setup)
  PROVE  LET rws == Written(stream, from, to)
         IN  /\ rws \in [0 .. RowsIn(setup) - 1 -> Streams]
             /\ \A p \in from .. to - 1 : rws[p % RowsIn(setup)] = Upto(stream, p + 1)
             /\ \A p \in 0 .. from - 1 : p > to - 1 - RowsIn(setup) =>
                  rws[p % RowsIn(setup)] = rows[p % RowsIn(setup)]
<1> DEFINE R == RowsIn(setup)
           here(r) == {p \in from .. to - 1 : p % R = r}
           rws == Written(stream, from, to)
<1>1. R \in Nat \ {0} /\ Len(stream) \in Nat
  BY SetupIs, LenProperties DEF Streams
<1> HIDE DEF R
<1>2. rws = [r \in 0 .. R - 1 |->
               IF here(r) = {} THEN rows[r]
               ELSE Upto(stream, 1 + CHOOSE p \in here(r) : \A q \in here(r) : q <= p)]
  BY DEF Written, R, RowOf, Rows, RowsIn, Ring, MaxCtx, Window, Ubatch
<1>3. ASSUME NEW p \in from .. to - 1, NEW q \in from .. to - 1, p % R = q % R PROVE p = q
  <2>1. p \in Nat /\ q \in Nat /\ p - q < R /\ q - p < R
    BY <1>1 DEF R
  <2>2. ~(p < q) /\ ~(q < p)
    BY <1>1, <1>3, <2>1, RingDistinct
  <2> QED
    BY <2>1, <2>2
<1>4. \A p \in Nat : p % R \in 0 .. R - 1
  BY <1>1, RowInRange
<1>5. ASSUME NEW p \in from .. to - 1 PROVE rws[p % R] = Upto(stream, p + 1)
  <2>1. here(p % R) = {p}
    BY <1>3
  <2>2. (CHOOSE k \in here(p % R) : \A q \in here(p % R) : q <= k) = p
    BY <2>1
  <2>3. p % R \in 0 .. R - 1
    BY <1>4, SMTT(20)
  <2> QED
    BY <1>2, <2>1, <2>2, <2>3
<1>6. ASSUME NEW p \in 0 .. from - 1, p > to - 1 - R PROVE rws[p % R] = rows[p % R]
  <2>1. ASSUME NEW q \in from .. to - 1 PROVE q % R # p % R
    <3>1. p \in Nat /\ q \in Nat /\ p < q /\ q - p < R
      BY <1>1, <1>6
    <3> QED
      BY <1>1, <3>1, RingDistinct
  <2>2. here(p % R) = {}
    BY <2>1
  <2>3. p % R \in 0 .. R - 1
    <3> HIDE <1>6
    <3> HIDE DEF here, rws
    <3>1. p \in Nat
      OBVIOUS
    <3> QED
      BY <1>4, <3>1
  <2>4. ASSUME NEW r \in 0 .. R - 1, here(r) = {} PROVE rws[r] = rows[r]
    BY <1>2, <2>4
  <2> QED
    BY <2>2, <2>3, <2>4
<1>7. ASSUME NEW r \in 0 .. R - 1 PROVE rws[r] \in Streams
  <2>1. CASE here(r) = {}
    BY <1>2, <2>1 DEF R
  <2>2. CASE here(r) # {}
    <3>1. PICK p \in from .. to - 1 : p % R = r
      BY <2>2
    <3>2. p + 1 \in 0 .. Len(stream)
      BY <1>1
    <3> QED
      BY <1>5, <3>1, <3>2, UptoIs
  <2> QED
    BY <2>1, <2>2
<1>8. rws \in [0 .. R - 1 -> Streams]
  BY <1>2, <1>7
<1> QED
  BY <1>5, <1>6, <1>8 DEF R

(* A full-length cache that holds a stream holds what the stream begins with.    *)
LEMMA HeldPrefix ==
  ASSUME NEW s \in Setups, ~s.ring, NEW rws, NEW f \in Streams, Held(s, rws, f),
         NEW n \in 0 .. Len(f)
  PROVE  Held(s, rws, Upto(f, n))
<1>1. Len(Upto(f, n)) = n /\ Len(f) \in Nat
  BY UptoIs, LenProperties DEF Streams
<1>2. ASSUME NEW p \in 0 .. n - 1 PROVE rws[p % RowsIn(s)] = Upto(Upto(f, n), p + 1)
  <2>1. p + 1 \in 0 .. n /\ p \in 0 .. Len(f) - 1
    BY <1>1
  <2>2. Upto(Upto(f, n), p + 1) = Upto(f, p + 1)
    BY <2>1, UptoUpto
  <2>3. rws[p % RowsIn(s)] = Upto(f, p + 1)
    BY <2>1 DEF Held
  <2> QED
    BY <2>2, <2>3
<1> QED
  BY <1>1, <1>2 DEF Held

(* A forward of a stream that begins with what the slot has been fed, f: the rows   *)
(* it leaves, however many of its positions are kept, and what it reads.      *)
LEMMA Advance ==
  ASSUME setup \in Setups, rows \in [0 .. RowsIn(setup) - 1 -> Streams], absorbed \in Streams,
         NEW f \in Streams, NEW stream \in Streams, NEW to \in Len(f) .. Len(stream),
         Upto(stream, Len(f)) = f, to <= setup.ctx,
         setup.ring => to - Len(f) <= setup.ubatch
  PROVE  LET rws == Written(stream, Len(f), to)
             state == Absorbed(stream, Len(f), to)
         IN  /\ rws \in [0 .. RowsIn(setup) - 1 -> Streams]
             /\ state \in Streams
             /\ Held(setup, rows, f) =>
                  \A k \in Len(f) .. to : Held(setup, rws, Upto(stream, k))
             /\ setup.recurrent /\ absorbed = f => state = Upto(stream, to)
             /\ Held(setup, rows, f) /\ (setup.recurrent => absorbed = f) =>
                  ReadsOwnStream(rws, stream, Len(f), to)
<1> DEFINE R == RowsIn(setup)
           from == Len(f)
           rws == Written(stream, from, to)
           state == Absorbed(stream, from, to)
<1>1. /\ from \in Nat /\ Len(stream) \in Nat /\ to \in Nat /\ from <= to /\ to <= Len(stream)
      /\ to \in from .. Len(stream)
  BY LenProperties DEF Streams
<1>2. /\ R \in Nat \ {0} /\ setup.window \in Nat \ {0} /\ setup.ubatch \in Nat \ {0}
      /\ setup.ctx \in Nat \ {0} /\ setup.window <= setup.ctx
      /\ ~setup.ring => R = setup.ctx
      /\ setup.ring => R = setup.ctx \/ R = setup.window + setup.ubatch
  BY SetupIs
<1>3. to - from <= R
  BY <1>1, <1>2
<1>4. /\ rws \in [0 .. R - 1 -> Streams]
      /\ \A p \in from .. to - 1 : rws[p % R] = Upto(stream, p + 1)
      /\ \A p \in 0 .. from - 1 : p > to - 1 - R => rws[p % R] = rows[p % R]
  BY <1>1, <1>3, WrittenIs
<1> HIDE DEF rws, R
<1>5. \A p \in 0 .. from - 1 : Upto(f, p + 1) = Upto(stream, p + 1)
  <2>1. ASSUME NEW p \in 0 .. from - 1 PROVE Upto(f, p + 1) = Upto(stream, p + 1)
    <3>1. from \in 0 .. Len(stream) /\ p + 1 \in 0 .. from
      BY <1>1
    <3>2. Upto(Upto(stream, from), p + 1) = Upto(stream, p + 1)
      BY <3>1, UptoUpto
    <3> QED
      BY <3>2
  <2> QED
    BY <2>1
(* The rows from lo on are the stream's, if lo is not too far back.           *)
<1>6. ASSUME Held(setup, rows, f), NEW lo \in Nat, setup.ring => lo >= from - setup.window,
             lo > to - 1 - R
      PROVE  \A p \in lo .. to - 1 : rws[p % R] = Upto(stream, p + 1)
  <2> SUFFICES ASSUME NEW p \in lo .. to - 1 PROVE rws[p % R] = Upto(stream, p + 1)
    OBVIOUS
  <2>1. CASE p >= from
    BY <1>1, <1>4, <2>1
  <2>2. CASE p < from
    <3>1. p \in 0 .. from - 1 /\ p > to - 1 - R
      BY <1>1, <1>2, <1>6, <2>2
    <3>2. p \in (IF setup.ring THEN Greater(0, from - setup.window) ELSE 0) .. from - 1
      BY <1>1, <1>2, <1>6, <2>2 DEF Greater
    <3>3. rows[p % R] = Upto(f, p + 1)
      BY <1>6, <3>2 DEF Held, R
    <3> QED
      BY <1>4, <1>5, <3>1, <3>3
  <2> QED
    BY <1>1, <2>1, <2>2
<1>7. ASSUME Held(setup, rows, f), NEW k \in from .. to PROVE Held(setup, rws, Upto(stream, k))
  <2>1. k \in 0 .. Len(stream) /\ Len(Upto(stream, k)) = k
    BY <1>1, UptoIs
  <2> SUFFICES ASSUME NEW p \in (IF setup.ring THEN Greater(0, k - setup.window) ELSE 0) .. k - 1
               PROVE  rws[p % R] = Upto(Upto(stream, k), p + 1)
    BY <2>1 DEF Held, R
  <2>2. p \in Nat /\ p + 1 \in 0 .. k
    BY <1>1, <1>2, <2>1 DEF Greater
  <2>3. Upto(Upto(stream, k), p + 1) = Upto(stream, p + 1)
    BY <2>1, <2>2, UptoUpto
  <2>4. (setup.ring => p >= from - setup.window) /\ p > to - 1 - R /\ p \in p .. to - 1
    BY <1>1, <1>2, <2>1, <2>2 DEF Greater
  <2>5. rws[p % R] = Upto(stream, p + 1)
    BY <1>6, <1>7, <2>2, <2>4
  <2> QED
    BY <2>3, <2>5
<1>8. state \in Streams
  <2>1. Upto(stream, to) \in Streams
    BY <1>1, UptoIs
  <2>2. Tainted \in Streams /\ <<>> \in Streams
    BY DEF Tainted, Streams
  <2> QED
    BY <2>1, <2>2 DEF Absorbed
<1>9. setup.recurrent /\ absorbed = f => state = Upto(stream, to)
  BY DEF Absorbed, Recurrent
<1>10. ASSUME Held(setup, rows, f), setup.recurrent => absorbed = f
       PROVE  ReadsOwnStream(rws, stream, from, to)
  <2>1. Recurrent => absorbed = Upto(stream, from)
    BY <1>10 DEF Recurrent
  <2>2. ASSUME NEW q \in from .. to - 1, NEW p \in Greater(0, q + 1 - setup.window) .. q
        PROVE  rws[p % R] = Upto(stream, p + 1)
    <3>1. p \in Nat /\ p \in p .. to - 1 /\ p >= from + 1 - setup.window /\ p > to - 1 - R
      BY <1>1, <1>2, <2>2, SMTT(20) DEF Greater
    <3>2. p \in Nat /\ (setup.ring => p >= from - setup.window)
      BY <1>1, <1>2, <3>1
    <3>3. \A k \in p .. to - 1 : rws[k % R] = Upto(stream, k + 1)
      BY <1>6, <1>10, <3>1, <3>2
    <3> QED
      BY <3>1, <3>3
  <2> QED
    BY <2>1, <2>2, RowsAre DEF ReadsOwnStream, Window, R
<1> QED
  BY <1>4, <1>7, <1>8, <1>9, <1>10 DEF rws, R

LEMMA SlotIs ==
  ASSUME SlotInv
  PROVE  LET f == FedBy(turn, cached)
         IN  /\ setup \in Setups /\ rows \in [0 .. RowsIn(setup) - 1 -> Streams]
             /\ cached \in Streams /\ Len(cached) \in Nat /\ Len(cached) <= setup.ctx
             /\ absorbed \in Streams /\ exact \in BOOLEAN
             /\ f \in Streams /\ Len(f) \in Nat
             /\ turn = NoTurn => f = cached
             /\ turn # NoTurn =>
                  /\ InTurn(setup, turn, cached)
                  /\ turn.cur \in Streams /\ Len(turn.cur) \in Nat
                  /\ {turn.pos, turn.plen, turn.written, turn.out, turn.max} \subseteq Nat
                  /\ turn.phase \in {"prefill", "decode"}
                  /\ f = Upto(turn.cur, turn.pos) /\ Len(f) = turn.pos
<1> DEFINE f == FedBy(turn, cached)
<1>1. /\ setup \in Setups /\ rows \in [0 .. RowsIn(setup) - 1 -> Streams]
      /\ cached \in Streams /\ Len(cached) <= setup.ctx
      /\ absorbed \in Streams /\ exact \in BOOLEAN
      /\ turn = NoTurn \/ InTurn(setup, turn, cached)
  BY DEF SlotInv, SlotOK
<1>2. turn # NoTurn =>
        /\ InTurn(setup, turn, cached)
        /\ turn.cur \in Streams /\ turn.phase \in {"prefill", "decode"}
        /\ {turn.pos, turn.plen, turn.written, turn.out, turn.max} \subseteq Nat
  BY <1>1 DEF InTurn, TurnRec
<1>3. turn # NoTurn => Len(turn.cur) \in Nat /\ turn.pos \in 0 .. Len(turn.cur)
  BY <1>2, LenProperties DEF InTurn, Streams
<1>4. turn # NoTurn => f = Upto(turn.cur, turn.pos) /\ Len(f) = turn.pos /\ f \in Streams
  BY <1>2, <1>3, UptoIs DEF FedBy
<1>5. turn = NoTurn => f = cached
  BY DEF FedBy
<1> HIDE DEF f
<1>6. f \in Streams /\ Len(f) \in Nat /\ Len(cached) \in Nat
  BY <1>1, <1>4, <1>5, LenProperties DEF Streams
<1> QED
  BY <1>1, <1>2, <1>3, <1>4, <1>5, <1>6 DEF f

(* An execute and what the slot makes of it: the part n of the stream it goes on    *)
(* from.  A ring must keep k of the positions, a recurrent state all of them.  *)
LEMMA Executed ==
  ASSUME SlotInv, UNCHANGED setup,
         NEW f, f = FedBy(turn, cached),
         NEW stream \in Streams, NEW to \in Len(f) .. Len(stream), NEW last \in Len(f) .. to,
         Upto(stream, Len(f)) = f, to <= setup.ctx,
         setup.ring => to - Len(f) <= setup.ubatch,
         rows' = Written(stream, Len(f), to),
         absorbed' = Absorbed(stream, Len(f), to),
         exact' = (exact /\ ReadsOwnStream(Written(stream, Len(f), last), stream, Len(f), last)),
         cached' \in Streams, Len(cached') <= setup.ctx,
         turn' = NoTurn \/ InTurn(setup, turn', cached'),
         NEW n \in 0 .. to, FedBy(turn', cached') = Upto(stream, n),
         RowsTrusted(setup) /\ setup.ring => n >= Len(f),
         StateTrusted(setup) => n = to
  PROVE  SlotInv'
<1>1. /\ setup \in Setups /\ rows \in [0 .. RowsIn(setup) - 1 -> Streams]
      /\ absorbed \in Streams /\ exact \in BOOLEAN /\ f \in Streams /\ Len(f) \in Nat
  BY SlotIs
<1>2. Len(stream) \in Nat /\ last \in Len(f) .. Len(stream) /\ last <= setup.ctx
      /\ (setup.ring => last - Len(f) <= setup.ubatch)
  BY <1>1, SetupIs, LenProperties, SMTT(20) DEF Streams
<1>3. /\ rows' \in [0 .. RowsIn(setup) - 1 -> Streams]
      /\ absorbed' \in Streams
      /\ Held(setup, rows, f) => \A k \in Len(f) .. to : Held(setup, rows', Upto(stream, k))
      /\ setup.recurrent /\ absorbed = f => absorbed' = Upto(stream, to)
  BY <1>1, Advance
<1>4. Held(setup, rows, f) /\ (setup.recurrent => absorbed = f) =>
        ReadsOwnStream(Written(stream, Len(f), last), stream, Len(f), last)
  BY <1>1, <1>2, Advance
<1>5. /\ RowsTrusted(setup) => Held(setup, rows, f)
      /\ StateTrusted(setup) => absorbed = f
      /\ Trusted(setup) => exact
  BY DEF SlotInv, SlotOK
<1>6. ASSUME RowsTrusted(setup) PROVE Held(setup, rows', Upto(stream, n))
  <2>1. CASE n >= Len(f)
    BY <1>1, <1>3, <1>5, <1>6, <2>1
  <2>2. CASE n < Len(f)
    <3>1. ~setup.ring /\ n \in 0 .. Len(f)
      BY <1>6, <2>2
    <3>2. Held(setup, rows', f)
      BY <1>1, <1>3, <1>5, <1>6
    <3>3. Upto(f, n) = Upto(stream, n)
      BY <1>1, <1>2, <3>1, UptoUpto
    <3> QED
      BY <1>1, <3>1, <3>2, <3>3, HeldPrefix
  <2> QED
    BY <1>1, <2>1, <2>2
<1>7. StateTrusted(setup) => absorbed' = FedBy(turn', cached')
  BY <1>3, <1>5 DEF StateTrusted
<1>8. Trusted(setup) => exact'
  BY <1>4, <1>5 DEF Trusted
<1>9. exact' \in BOOLEAN
  BY <1>1
<1> QED
  BY <1>1, <1>3, <1>6, <1>7, <1>8, <1>9 DEF SlotInv, SlotOK

(* Nothing is executed: the slot goes on from a part of what it was fed.        *)
LEMMA Kept ==
  ASSUME SlotInv, UNCHANGED <<setup, rows, exact>>,
         absorbed' \in Streams, cached' \in Streams, Len(cached') <= setup.ctx,
         turn' = NoTurn \/ InTurn(setup, turn', cached'),
         NEW n \in 0 .. Len(FedBy(turn, cached)),
         FedBy(turn', cached') = Upto(FedBy(turn, cached), n),
         RowsTrusted(setup) /\ setup.ring => n \in {0, Len(FedBy(turn, cached))},
         StateTrusted(setup) => absorbed' = FedBy(turn', cached')
  PROVE  SlotInv'
<1> DEFINE f == FedBy(turn, cached)
<1>1. setup \in Setups /\ f \in Streams /\ Len(f) \in Nat
      /\ rows \in [0 .. RowsIn(setup) - 1 -> Streams] /\ exact \in BOOLEAN
  BY SlotIs
<1>2. /\ RowsTrusted(setup) => Held(setup, rows, f)
      /\ Trusted(setup) => exact
  BY DEF SlotInv, SlotOK
<1> HIDE DEF f
<1>3. ASSUME RowsTrusted(setup) PROVE Held(setup, rows, Upto(f, n))
  <2>1. CASE n = Len(f)
    BY <1>1, <1>2, <1>3, <2>1, UptoAll
  <2>2. CASE n = 0
    <3>1. Len(Upto(f, n)) = 0
      BY <1>1, <2>2, UptoIs
    <3> QED
      BY <1>1, <3>1, SetupIs DEF Held, Greater
  <2>3. CASE ~setup.ring
    BY <1>1, <1>2, <1>3, <2>3, HeldPrefix DEF f
  <2> QED
    BY <1>3, <2>1, <2>2, <2>3 DEF f
<1> QED
  BY <1>1, <1>2, <1>3 DEF SlotInv, SlotOK, f

-----------------------------------------------------------------------------
(* The steps of a turn.                                                     *)

(* What a turn resumes is a prefix of its prompt, and all of what is cached where it  *)
(* must be.                                                                 *)
LEMMA ResumesIs ==
  ASSUME cached \in Streams, NEW prompt \in Streams, Resumes(prompt)
  PROVE  Len(cached) < Len(prompt) /\ Upto(prompt, Len(cached)) = cached
<1> DEFINE n == SharedPrefix(prompt)
<1>1. n \in 0 .. Len(cached) /\ n <= Len(prompt) /\ \A i \in 1 .. n : cached[i] = prompt[i]
  BY CommonPrefix DEF SharedPrefix
<1>2. n = Len(cached) /\ Len(cached) < Len(prompt)
  BY DEF Resumes
<1> HIDE DEF n
<1>3. Upto(cached, n) = Upto(prompt, n)
  BY <1>1, UptoEqual
<1> QED
  BY <1>2, <1>3, UptoAll

LEMMA DenseStartIs ==
  ASSUME setup \in Setups, cached \in Streams, NEW prompt \in Streams, Len(prompt) > 0
  PROVE  LET start == DenseStart(prompt)
         IN  /\ start \in 0 .. Len(cached) /\ start < Len(prompt)
             /\ Upto(cached, start) = Upto(prompt, start)
             /\ SharedPrefix(prompt) = 0 \/ Resumes(prompt) => start \in {0, Len(cached)}
             /\ ~setup.ring => start = Lesser(SharedPrefix(prompt), Len(prompt) - 1)
<1> DEFINE n == SharedPrefix(prompt)
           start == DenseStart(prompt)
<1>1. Len(cached) \in Nat /\ Len(prompt) \in Nat
  BY LenProperties DEF Streams
<1>2. n \in 0 .. Len(cached) /\ n <= Len(prompt) /\ \A i \in 1 .. n : cached[i] = prompt[i]
  BY CommonPrefix DEF SharedPrefix
<1>3. start = Lesser(n, Len(prompt) - 1) \/ start = 0
  BY DEF DenseStart
<1>4. Resumes(prompt) => n = Len(cached) /\ Len(cached) < Len(prompt)
  BY DEF Resumes
<1>5. ~setup.ring => start = Lesser(n, Len(prompt) - 1)
  BY DEF DenseStart, RingHolds, Ring
<1> HIDE DEF n, start
<1>6. start \in 0 .. n /\ start \in 0 .. Len(cached) /\ start < Len(prompt)
      /\ start <= Len(prompt)
  BY <1>1, <1>2, <1>3 DEF Lesser
<1>7. \A i \in 1 .. start : cached[i] = prompt[i]
  BY <1>2, <1>6
<1>8. Upto(cached, start) = Upto(prompt, start)
  BY <1>6, <1>7, UptoEqual
<1>9. n = 0 \/ Resumes(prompt) => start \in {0, Len(cached)}
  BY <1>1, <1>2, <1>3, <1>4 DEF Lesser
<1> QED
  BY <1>5, <1>6, <1>8, <1>9 DEF n, start

(* A turn that starts at a position the slot holds.                           *)
LEMMA Started ==
  ASSUME setup \in Setups, NEW prompt \in Streams, Len(prompt) > 0, NEW max \in Nat,
         Len(prompt) + max + 1 <= setup.ctx,
         NEW start \in Nat, start < Len(prompt), StartTurn(prompt, max, start),
         cached' = Upto(prompt, start)
  PROVE  /\ InTurn(setup, turn', cached') /\ turn' # NoTurn
         /\ cached' \in Streams /\ Len(cached') = start /\ start <= setup.ctx
         /\ FedBy(turn', cached') = Upto(prompt, start)
<1>1. Len(prompt) \in Nat /\ setup.ctx \in Nat /\ start \in 0 .. Len(prompt)
  BY SetupIs, LenProperties DEF Streams
<1>2. cached' \in Streams /\ Len(cached') = start
  BY <1>1, UptoIs
<1>3. /\ turn'.cur = prompt /\ turn'.plen = Len(prompt) /\ turn'.pos = start
      /\ turn'.written = start /\ turn'.out = 0 /\ turn'.max = max
      /\ turn'.phase = IF Len(prompt) - start > 2 THEN "prefill" ELSE "decode"
      /\ turn' \in TurnRec
  BY <1>1 DEF StartTurn, TurnRec
<1>4. turn' # NoTurn
  BY <1>3 DEF NoTurn
<1>5. InTurn(setup, turn', cached')
  BY <1>1, <1>2, <1>3 DEF InTurn
<1> QED
  BY <1>1, <1>2, <1>3, <1>4, <1>5 DEF FedBy

LEMMA BeginDenseSafe ==
  ASSUME SlotInv, UNCHANGED setup, NEW prompt \in Streams, Len(prompt) > 0, NEW max \in Nat,
         BeginDense(prompt, max)
  PROVE  SlotInv' /\ turn' # NoTurn
<1> DEFINE start == DenseStart(prompt)
<1>1. /\ setup \in Setups /\ cached \in Streams /\ Len(cached) \in Nat
      /\ FedBy(turn, cached) = cached /\ absorbed \in Streams
  BY SlotIs DEF BeginDense
<1>2. /\ ~setup.recurrent /\ cached' = Upto(cached, start) /\ StartTurn(prompt, max, start)
      /\ UNCHANGED <<rows, absorbed, exact>> /\ Len(prompt) + max + 1 <= setup.ctx
      /\ setup.rewinds \/ SharedPrefix(prompt) = 0 \/ Resumes(prompt)
  BY DEF BeginDense, Accepted, Recurrent, Rewinds, MaxCtx
<1>3. /\ start \in 0 .. Len(cached) /\ start < Len(prompt)
      /\ Upto(cached, start) = Upto(prompt, start)
      /\ SharedPrefix(prompt) = 0 \/ Resumes(prompt) => start \in {0, Len(cached)}
  BY <1>1, DenseStartIs
<1> HIDE DEF start
<1>4. /\ InTurn(setup, turn', cached') /\ turn' # NoTurn
      /\ cached' \in Streams /\ Len(cached') = start /\ start <= setup.ctx
      /\ FedBy(turn', cached') = Upto(prompt, start)
  BY <1>1, <1>2, <1>3, Started
<1>5. RowsTrusted(setup) /\ setup.ring => start \in {0, Len(cached)}
  BY <1>2, <1>3 DEF RowsTrusted
<1>6. ~StateTrusted(setup)
  BY <1>2 DEF StateTrusted
<1> QED
  BY <1>1, <1>2, <1>3, <1>4, <1>5, <1>6, Kept

LEMMA BeginRecurrentSafe ==
  ASSUME SlotInv, UNCHANGED setup, NEW prompt \in Streams, Len(prompt) > 0, NEW max \in Nat,
         BeginRecurrent(prompt, max)
  PROVE  SlotInv' /\ turn' # NoTurn
<1>1. /\ setup \in Setups /\ cached \in Streams /\ Len(cached) \in Nat
      /\ FedBy(turn, cached) = cached /\ absorbed \in Streams
  BY SlotIs DEF BeginRecurrent
<1>2. UNCHANGED <<rows, exact>> /\ Len(prompt) + max + 1 <= setup.ctx
  BY DEF BeginRecurrent, Accepted, MaxCtx
<1>3. StateTrusted(setup) => absorbed = cached
  BY <1>1 DEF SlotInv, SlotOK
<1>4. CASE Resumes(prompt)
  <2>1. StartTurn(prompt, max, Len(cached)) /\ UNCHANGED <<cached, absorbed>>
    BY <1>4 DEF BeginRecurrent
  <2>2. Len(cached) < Len(prompt) /\ Upto(prompt, Len(cached)) = cached
    BY <1>1, <1>4, ResumesIs
  <2>3. /\ InTurn(setup, turn', cached') /\ turn' # NoTurn /\ Len(cached) <= setup.ctx
        /\ FedBy(turn', cached') = cached
    BY <1>1, <1>2, <2>1, <2>2, Started
  <2>4. Upto(cached, Len(cached)) = cached /\ Len(cached) \in 0 .. Len(cached)
    BY <1>1, UptoAll
  <2> QED
    BY <1>1, <1>2, <1>3, <2>1, <2>3, <2>4, Kept
<1>5. CASE ~Resumes(prompt)
  <2>1. StartTurn(prompt, max, 0) /\ cached' = <<>> /\ absorbed' = <<>>
    BY <1>5 DEF BeginRecurrent
  <2>2. Upto(prompt, 0) = <<>> /\ Upto(cached, 0) = <<>> /\ <<>> \in Streams
    BY <1>1, UptoNone DEF Streams
  <2>3. /\ InTurn(setup, turn', cached') /\ turn' # NoTurn
        /\ Len(cached') = 0 /\ 0 <= setup.ctx
        /\ FedBy(turn', cached') = <<>>
    BY <1>1, <1>2, <2>1, <2>2, Started
  <2>4. 0 \in 0 .. Len(cached)
    BY <1>1
  <2> QED
    BY <1>1, <1>2, <2>1, <2>2, <2>3, <2>4, Kept
<1> QED
  BY <1>4, <1>5

(* A turn that is cut short leaves what its start kept.                        *)
LEMMA Cut ==
  ASSUME SlotInv, turn # NoTurn
  PROVE  /\ Len(cached) \in 0 .. turn.pos
         /\ cached = Upto(turn.cur, Len(cached))
         /\ cached = Upto(FedBy(turn, cached), Len(cached))
<1>1. /\ InTurn(setup, turn, cached) /\ turn.cur \in Streams /\ Len(turn.cur) \in Nat
      /\ turn.pos \in Nat /\ FedBy(turn, cached) = Upto(turn.cur, turn.pos)
      /\ Len(cached) \in Nat
  BY SlotIs
<1>2. Len(cached) \in 0 .. turn.pos /\ cached = Upto(turn.cur, Len(cached))
      /\ turn.pos \in 0 .. Len(turn.cur)
  BY <1>1 DEF InTurn
<1>3. Upto(FedBy(turn, cached), Len(cached)) = Upto(turn.cur, Len(cached))
  BY <1>1, <1>2, UptoUpto
<1> QED
  BY <1>2, <1>3

(* One execute of a turn, of a stream that begins with what the turn fed: it goes on,  *)
(* or ends with what it wrote, or is cut short.                               *)
LEMMA TurnExecuted ==
  ASSUME SlotInv, turn # NoTurn, UNCHANGED setup,
         NEW stream \in Streams, NEW to \in turn.pos .. Len(stream), NEW last \in turn.pos .. to,
         Upto(stream, turn.pos) = Upto(turn.cur, turn.pos), to <= setup.ctx,
         to - turn.pos <= setup.ubatch,
         rows' = Written(stream, turn.pos, to),
         absorbed' = Absorbed(stream, turn.pos, to),
         exact' = (exact /\ ReadsOwnStream(Written(stream, turn.pos, last), stream, turn.pos, last)),
         NEW cur \in Streams, NEW pos \in turn.pos .. to, pos <= Len(cur),
         Upto(cur, pos) = Upto(stream, pos),
         StateTrusted(setup) => pos = to,
         \/ turn' = NoTurn /\ cached' = Upto(cur, pos)
         \/ /\ InTurn(setup, turn', cached') /\ turn'.cur = cur /\ turn'.pos = pos
            /\ UNCHANGED cached
         \/ turn' = NoTurn /\ UNCHANGED cached /\ setup.faults # {}
  PROVE  SlotInv'
<1> DEFINE f == FedBy(turn, cached)
<1>1. /\ setup \in Setups /\ cached \in Streams /\ Len(cached) \in Nat /\ Len(cached) <= setup.ctx
      /\ turn.cur \in Streams /\ turn.pos \in Nat /\ f = Upto(turn.cur, turn.pos)
      /\ Len(f) = turn.pos /\ InTurn(setup, turn, cached)
  BY SlotIs
<1> HIDE DEF f
<1>2. Len(stream) \in Nat /\ Len(cur) \in Nat /\ to \in Nat /\ pos \in Nat /\ setup.ctx \in Nat
      /\ pos \in 0 .. Len(cur) /\ pos \in 0 .. to /\ turn.pos \in 0 .. Len(stream)
  BY <1>1, SetupIs, LenProperties DEF Streams
<1>3. /\ f = FedBy(turn, cached) /\ Upto(stream, Len(f)) = f
      /\ to \in Len(f) .. Len(stream) /\ last \in Len(f) .. to
      /\ setup.ring => to - Len(f) <= setup.ubatch
      /\ rows' = Written(stream, Len(f), to)
      /\ absorbed' = Absorbed(stream, Len(f), to)
      /\ exact' = (exact /\ ReadsOwnStream(Written(stream, Len(f), last), stream, Len(f), last))
      /\ pos \in 0 .. to /\ pos >= Len(f)
  BY <1>1, <1>2 DEF f
<1>4. CASE turn' = NoTurn /\ cached' = Upto(cur, pos)
  <2>1. cached' \in Streams /\ Len(cached') <= setup.ctx
    BY <1>2, <1>4, UptoIs
  <2>2. FedBy(turn', cached') = Upto(stream, pos)
    BY <1>4 DEF FedBy
  <2> QED
    BY <1>4, <1>3, <2>1, <2>2, Executed
<1>5. CASE /\ InTurn(setup, turn', cached') /\ turn'.cur = cur /\ turn'.pos = pos
           /\ UNCHANGED cached
  <2>1. turn' # NoTurn
    BY <1>5 DEF InTurn, TurnRec, NoTurn
  <2>2. FedBy(turn', cached') = Upto(stream, pos)
    BY <1>5, <2>1 DEF FedBy
  <2> QED
    BY <1>1, <1>5, <1>3, <2>2, Executed
<1>6. CASE turn' = NoTurn /\ UNCHANGED cached /\ setup.faults # {}
  <2>1. ~StateTrusted(setup) /\ (RowsTrusted(setup) => ~setup.ring)
    BY <1>6 DEF StateTrusted, RowsTrusted
  <2>2. Len(cached) \in 0 .. turn.pos /\ cached = Upto(f, Len(cached))
    BY Cut DEF f
  <2>3. Upto(stream, Len(cached)) = cached
    <3>1. Upto(Upto(stream, turn.pos), Len(cached)) = Upto(stream, Len(cached))
      BY <1>2, <2>2, UptoUpto
    <3> QED
      BY <1>1, <2>2, <3>1
  <2>4. FedBy(turn', cached') = Upto(stream, Len(cached)) /\ Len(cached) \in 0 .. to
    BY <1>2, <1>6, <2>2, <2>3 DEF FedBy
  <2> QED
    BY <1>1, <1>6, <1>3, <2>1, <2>4, Executed
<1> QED
  BY <1>4, <1>5, <1>6

(* A turn that ends without an execute.                                       *)
LEMMA TurnStopped ==
  ASSUME SlotInv, turn # NoTurn, UNCHANGED <<setup, rows, absorbed, exact>>, turn' = NoTurn,
         \/ cached' = Upto(turn.cur, turn.pos)
         \/ UNCHANGED cached /\ setup.faults # {}
  PROVE  SlotInv'
<1> DEFINE f == FedBy(turn, cached)
<1>1. /\ setup \in Setups /\ cached \in Streams /\ Len(cached) <= setup.ctx
      /\ turn.cur \in Streams /\ turn.pos \in Nat /\ f = Upto(turn.cur, turn.pos)
      /\ Len(f) = turn.pos /\ InTurn(setup, turn, cached) /\ f \in Streams
      /\ absorbed \in Streams
  BY SlotIs
<1>2. StateTrusted(setup) => absorbed = f
  BY DEF SlotInv, SlotOK
<1>3. turn.pos <= setup.ctx
  BY <1>1, SetupIs DEF InTurn, TurnRec
<1> HIDE DEF f
<1>4. CASE cached' = Upto(turn.cur, turn.pos)
  <2>1. FedBy(turn', cached') = f /\ Upto(f, Len(f)) = f /\ Len(f) \in 0 .. Len(f)
    BY <1>1, <1>4, UptoAll DEF FedBy
  <2> QED
    BY <1>1, <1>2, <1>3, <1>4, <2>1, Kept DEF f
<1>5. CASE UNCHANGED cached /\ setup.faults # {}
  <2>1. ~StateTrusted(setup) /\ (RowsTrusted(setup) => ~setup.ring)
    BY <1>5 DEF StateTrusted, RowsTrusted
  <2>2. Len(cached) \in 0 .. Len(f) /\ FedBy(turn', cached') = Upto(f, Len(cached))
    BY <1>1, <1>5, Cut DEF FedBy, f
  <2> QED
    BY <1>1, <1>5, <2>1, <2>2, Kept DEF f
<1> QED
  BY <1>4, <1>5

(* A turn that goes on.                                                     *)
LEMMA GoesOn ==
  ASSUME SlotInv, turn # NoTurn, UNCHANGED cached,
         NEW cur \in Streams, NEW out \in Nat, NEW pos \in Nat, NEW phase \in {"prefill", "decode"},
         turn' = [phase |-> phase, cur |-> cur, plen |-> turn.plen, pos |-> pos,
                  written |-> pos, out |-> out, max |-> turn.max],
         Len(cur) = turn.plen + out, out <= turn.max, turn.pos <= pos, pos < Len(cur),
         phase = "prefill" => pos < turn.plen - 1,
         Upto(cur, turn.pos) = Upto(turn.cur, turn.pos)
  PROVE  InTurn(setup, turn', cached') /\ turn'.cur = cur /\ turn'.pos = pos
<1>1. /\ InTurn(setup, turn, cached) /\ turn.cur \in Streams /\ turn.pos \in Nat
      /\ {turn.plen, turn.max} \subseteq Nat
  BY SlotIs
<1>2. Len(cached) \in 0 .. turn.pos /\ cached = Upto(FedBy(turn, cached), Len(cached))
      /\ FedBy(turn, cached) = Upto(cur, turn.pos)
  BY Cut, SlotIs
<1>3. Upto(Upto(cur, turn.pos), Len(cached)) = Upto(cur, Len(cached))
  <2>1. turn.pos \in 0 .. Len(cur)
    BY <1>1
  <2> QED
    BY <1>2, <2>1, UptoUpto
<1>4. Len(cached) <= pos /\ cached = Upto(cur, Len(cached))
  BY <1>1, <1>2, <1>3
<1>5. turn' \in TurnRec
  BY <1>1 DEF TurnRec
<1> QED
  BY <1>1, <1>4, <1>5 DEF InTurn

LEMMA TurnIs ==
  ASSUME SlotInv, turn # NoTurn
  PROVE  /\ turn = [phase |-> turn.phase, cur |-> turn.cur, plen |-> turn.plen, pos |-> turn.pos,
                    written |-> turn.written, out |-> turn.out, max |-> turn.max]
         /\ setup \in Setups /\ turn.phase \in {"prefill", "decode"}
         /\ turn.cur \in Streams /\ turn.plen \in Nat \ {0} /\ turn.pos \in Nat /\ turn.out \in Nat
         /\ turn.max \in Nat /\ turn.written = turn.pos /\ Len(turn.cur) = turn.plen + turn.out
         /\ turn.out <= turn.max /\ turn.plen + turn.max < setup.ctx /\ turn.pos < Len(turn.cur)
         /\ turn.phase = "prefill" => turn.pos < turn.plen - 1
         /\ setup.ubatch \in Nat \ {0} /\ setup.ctx \in Nat /\ setup.chain \in Nat
         /\ setup.chain <= setup.ubatch
<1>1. InTurn(setup, turn, cached) /\ setup \in Setups /\ turn \in TurnRec
  BY SlotIs DEF InTurn
<1>2. turn = [phase |-> turn.phase, cur |-> turn.cur, plen |-> turn.plen, pos |-> turn.pos,
              written |-> turn.written, out |-> turn.out, max |-> turn.max]
  BY <1>1 DEF TurnRec
<1>3. /\ turn.phase \in {"prefill", "decode"}
      /\ turn.cur \in Streams /\ turn.plen \in Nat /\ turn.pos \in Nat /\ turn.out \in Nat
      /\ turn.max \in Nat
  BY <1>1 DEF TurnRec
<1> QED
  BY <1>1, <1>2, <1>3, SetupIs DEF InTurn

LEMMA ChunkIs ==
  ASSUME SlotInv, turn # NoTurn, turn.phase = "prefill"
  PROVE  LET end == Lesser(turn.pos + setup.ubatch, turn.plen - 1)
         IN  /\ end \in turn.pos .. Len(turn.cur) /\ end <= setup.ctx
             /\ end - turn.pos <= setup.ubatch
             /\ end < Len(turn.cur) /\ end \in Nat /\ end <= turn.plen - 1
<1> DEFINE end == Lesser(turn.pos + setup.ubatch, turn.plen - 1)
<1>1. /\ turn.plen \in Nat /\ turn.pos \in Nat /\ turn.out \in Nat /\ turn.max \in Nat
      /\ Len(turn.cur) = turn.plen + turn.out /\ turn.plen + turn.max < setup.ctx
      /\ turn.pos < turn.plen - 1 /\ setup.ubatch \in Nat \ {0} /\ setup.ctx \in Nat
  BY TurnIs
<1>2. ASSUME NEW p \in Nat, NEW u \in Nat \ {0}, NEW m \in Nat, p < m - 1
      PROVE  LET last == Lesser(p + u, m - 1)
             IN  last \in Nat /\ p <= last /\ last <= m - 1 /\ last - p <= u
  BY <1>2 DEF Lesser
<1>3. end \in Nat /\ turn.pos <= end /\ end <= turn.plen - 1 /\ end - turn.pos <= setup.ubatch
  BY <1>1, <1>2
<1> HIDE DEF end
<1>4. /\ end \in turn.pos .. Len(turn.cur) /\ end <= setup.ctx
      /\ end < Len(turn.cur)
  BY <1>1, <1>3
<1> QED
  BY <1>3, <1>4 DEF end

LEMMA PrefillChunkSafe ==
  ASSUME SlotInv, UNCHANGED setup, PrefillChunk
  PROVE  SlotInv'
<1> DEFINE end == Lesser(turn.pos + setup.ubatch, turn.plen - 1)
<1>1. turn # NoTurn /\ turn.phase = "prefill"
  BY DEF PrefillChunk, NoTurn
<1>2. end \in turn.pos .. Len(turn.cur) /\ end <= setup.ctx /\ end - turn.pos <= setup.ubatch
      /\ end < Len(turn.cur) /\ end \in Nat /\ end <= turn.plen - 1
  BY <1>1, ChunkIs
<1>3. /\ Forward(turn.cur, turn.pos, end)
      /\ turn' = [turn EXCEPT !.pos = end, !.written = end,
                              !.phase = IF end = turn.plen - 1 THEN "decode" ELSE "prefill"]
      /\ UNCHANGED cached
  BY DEF PrefillChunk, Ubatch, PrefillEnd
<1> HIDE DEF end
<1> DEFINE phase == IF end = turn.plen - 1 THEN "decode" ELSE "prefill"
<1>4. turn' = [phase |-> phase, cur |-> turn.cur, plen |-> turn.plen, pos |-> end,
               written |-> end, out |-> turn.out, max |-> turn.max]
  BY <1>1, <1>3, TurnIs
<1>5. phase \in {"prefill", "decode"} /\ (phase = "prefill" => end < turn.plen - 1)
  <2>1. turn.plen \in Nat
    BY <1>1, TurnIs
  <2> QED
    BY <1>2, <2>1
<1> HIDE DEF phase
<1>6. /\ turn.cur \in Streams /\ turn.out \in Nat /\ Len(turn.cur) = turn.plen + turn.out
      /\ turn.out <= turn.max /\ turn.pos <= end /\ turn.pos \in Nat
  BY <1>1, <1>2, TurnIs
<1>7. InTurn(setup, turn', cached') /\ turn'.cur = turn.cur /\ turn'.pos = end
  BY <1>1, <1>2, <1>3, <1>4, <1>5, <1>6, GoesOn
<1>8. /\ rows' = Written(turn.cur, turn.pos, end)
      /\ absorbed' = Absorbed(turn.cur, turn.pos, end)
      /\ exact' = (exact /\ ReadsOwnStream(Written(turn.cur, turn.pos, end), turn.cur, turn.pos, end))
  BY <1>3 DEF Forward
<1>9. end \in turn.pos .. end /\ end <= Len(turn.cur)
  BY <1>2, <1>6
<1> QED
  BY <1>1, <1>2, <1>3, <1>6, <1>7, <1>8, <1>9, TurnExecuted

LEMMA PrefillFailsSafe ==
  ASSUME SlotInv, UNCHANGED setup, PrefillFails
  PROVE  SlotInv'
<1> DEFINE end == Lesser(turn.pos + setup.ubatch, turn.plen - 1)
<1>1. turn # NoTurn /\ turn.phase = "prefill" /\ setup.faults # {}
  BY DEF PrefillFails, NoTurn, Faults
<1>2. end \in turn.pos .. Len(turn.cur) /\ end <= setup.ctx /\ end - turn.pos <= setup.ubatch
  BY <1>1, ChunkIs
<1>3. turn' = NoTurn /\ UNCHANGED cached
  BY DEF PrefillFails, Fail
<1>4. CASE UNCHANGED <<rows, absorbed, exact>>
  BY <1>1, <1>3, <1>4, TurnStopped
<1>5. CASE Forward(turn.cur, turn.pos, end)
  <2> HIDE DEF end
  <2>1. /\ rows' = Written(turn.cur, turn.pos, end)
        /\ absorbed' = Absorbed(turn.cur, turn.pos, end)
        /\ exact' = (exact /\ ReadsOwnStream(Written(turn.cur, turn.pos, end), turn.cur, turn.pos, end))
    BY <1>5 DEF Forward
  <2>2. end \in turn.pos .. end /\ end <= Len(turn.cur)
    BY <1>2
  <2> QED
    BY <1>1, <1>2, <1>3, <2>1, <2>2, TurnIs, TurnExecuted
<1> QED
  BY <1>4, <1>5 DEF PrefillFails, Ubatch, PrefillEnd

LEMMA PrefillAbortedSafe ==
  ASSUME SlotInv, UNCHANGED setup, PrefillAborted
  PROVE  SlotInv'
<1>1. /\ turn # NoTurn /\ setup.faults # {} /\ turn' = NoTurn
      /\ UNCHANGED <<cached, rows, absorbed, exact>>
  BY DEF PrefillAborted, Fail, Faults, NoTurn
<1> QED
  BY <1>1, TurnStopped

LEMMA DecodeStopsSafe ==
  ASSUME SlotInv, UNCHANGED setup, DecodeStops
  PROVE  SlotInv'
<1>1. /\ turn # NoTurn /\ turn' = NoTurn /\ cached' = Upto(turn.cur, turn.written)
      /\ UNCHANGED <<rows, absorbed, exact>>
  BY DEF DecodeStops, Finish, NoTurn
<1>2. turn.written = turn.pos
  BY <1>1, TurnIs
<1> QED
  BY <1>1, <1>2, TurnStopped

(* The step at a turn's next position.                                        *)
LEMMA NextRow ==
  ASSUME SlotInv, turn # NoTurn
  PROVE  /\ turn.pos \in Nat /\ turn.cur \in Streams /\ Len(turn.cur) \in Nat
         /\ turn.pos + 1 \in turn.pos .. Len(turn.cur)
         /\ turn.pos + 1 \in turn.pos .. turn.pos + 1 /\ turn.pos + 1 <= Len(turn.cur)
         /\ turn.pos + 1 <= setup.ctx /\ (turn.pos + 1) - turn.pos <= setup.ubatch
         /\ turn.pos \in 0 .. Len(turn.cur) /\ turn.pos + 1 \in 0 .. Len(turn.cur)
<1>1. /\ turn.plen \in Nat /\ turn.pos \in Nat /\ turn.out \in Nat /\ turn.max \in Nat
      /\ Len(turn.cur) = turn.plen + turn.out /\ turn.plen + turn.max < setup.ctx
      /\ turn.out <= turn.max /\ turn.pos < Len(turn.cur) /\ setup.ubatch \in Nat \ {0}
      /\ setup.ctx \in Nat /\ turn.cur \in Streams
  BY TurnIs
<1>2. ASSUME NEW p \in Nat, NEW l \in Nat, p < l, NEW u \in Nat \ {0}
      PROVE  /\ p + 1 \in p .. l /\ p + 1 \in p .. p + 1 /\ p + 1 <= l /\ (p + 1) - p <= u
             /\ p \in 0 .. l /\ p + 1 \in 0 .. l
  BY <1>2
<1>3. turn.pos + 1 <= setup.ctx /\ Len(turn.cur) \in Nat
  BY <1>1
<1> QED
  BY <1>1, <1>2, <1>3

(* One row of the turn's own stream, after which it has another to come, ends or is cut  *)
(* short.                                                                   *)
LEMMA RowExecuted ==
  ASSUME SlotInv, turn # NoTurn, UNCHANGED setup,
         Forward(turn.cur, turn.pos, turn.pos + 1),
         NEW cur \in Streams, turn.pos + 1 <= Len(cur),
         Upto(cur, turn.pos + 1) = Upto(turn.cur, turn.pos + 1),
         \/ turn' = NoTurn /\ cached' = Upto(cur, turn.pos + 1)
         \/ /\ InTurn(setup, turn', cached') /\ turn'.cur = cur /\ turn'.pos = turn.pos + 1
            /\ UNCHANGED cached
         \/ turn' = NoTurn /\ UNCHANGED cached /\ setup.faults # {}
  PROVE  SlotInv'
<1> DEFINE to == turn.pos + 1
<1>1. /\ turn.cur \in Streams /\ to \in turn.pos .. Len(turn.cur) /\ to \in turn.pos .. to
      /\ to <= Len(cur) /\ to <= setup.ctx /\ to - turn.pos <= setup.ubatch
  BY NextRow
<1>2. /\ rows' = Written(turn.cur, turn.pos, to)
      /\ absorbed' = Absorbed(turn.cur, turn.pos, to)
      /\ exact' = (exact /\ ReadsOwnStream(Written(turn.cur, turn.pos, to), turn.cur, turn.pos, to))
  BY DEF Forward
<1>3. Upto(cur, to) = Upto(turn.cur, to)
  OBVIOUS
<1>4. \/ turn' = NoTurn /\ cached' = Upto(cur, to)
      \/ /\ InTurn(setup, turn', cached') /\ turn'.cur = cur /\ turn'.pos = to
         /\ UNCHANGED cached
      \/ turn' = NoTurn /\ UNCHANGED cached /\ setup.faults # {}
  OBVIOUS
<1> HIDE DEF to
<1> QED
  BY <1>1, <1>2, <1>3, <1>4, TurnExecuted

LEMMA FeedStepSafe ==
  ASSUME SlotInv, UNCHANGED setup, FeedStep
  PROVE  SlotInv'
<1>1. /\ turn # NoTurn /\ turn.phase = "decode" /\ UNCHANGED cached
      /\ turn' = [turn EXCEPT !.pos = @ + 1, !.written = turn.pos + 1]
      /\ Forward(turn.cur, turn.pos, turn.pos + 1)
  BY DEF FeedStep, Running, NoTurn
<1>2. turn.pos + 1 < Len(turn.cur)
  <2>1. /\ turn.plen \in Nat /\ turn.pos \in Nat /\ turn.out \in Nat /\ turn.max \in Nat
        /\ Len(turn.cur) = turn.plen + turn.out /\ turn.out <= turn.max
        /\ turn.pos < Len(turn.cur)
    BY <1>1, TurnIs
  <2> QED
    BY <2>1 DEF FeedStep, Running, AtFrontier
<1>3. turn' = [phase |-> "decode", cur |-> turn.cur, plen |-> turn.plen, pos |-> turn.pos + 1,
               written |-> turn.pos + 1, out |-> turn.out, max |-> turn.max]
  BY <1>1, TurnIs
<1>4. /\ turn.cur \in Streams /\ turn.out \in Nat /\ Len(turn.cur) = turn.plen + turn.out
      /\ turn.out <= turn.max /\ turn.pos <= turn.pos + 1 /\ turn.pos + 1 \in Nat
  BY <1>1, TurnIs
<1>5. InTurn(setup, turn', cached') /\ turn'.cur = turn.cur /\ turn'.pos = turn.pos + 1
  BY <1>1, <1>2, <1>3, <1>4, GoesOn
<1> QED
  BY <1>1, <1>4, <1>5, NextRow, RowExecuted

LEMMA Frontier ==
  ASSUME SlotInv, Running, AtFrontier
  PROVE  /\ turn # NoTurn /\ turn.phase = "decode" /\ turn.cur \in Streams
         /\ turn.plen \in Nat /\ turn.pos \in Nat /\ turn.out \in Nat /\ turn.max \in Nat
         /\ Len(turn.cur) = turn.pos + 1 /\ Len(turn.cur) = turn.plen + turn.out
         /\ turn.out < turn.max /\ turn.plen + turn.max < setup.ctx /\ setup.ctx \in Nat
<1>1. turn # NoTurn /\ turn.phase = "decode"
  BY DEF Running, NoTurn
<1>2. /\ turn.cur \in Streams /\ turn.plen \in Nat /\ turn.pos \in Nat /\ turn.out \in Nat
      /\ turn.max \in Nat /\ Len(turn.cur) = turn.plen + turn.out
      /\ turn.plen + turn.max < setup.ctx /\ setup.ctx \in Nat
  BY <1>1, TurnIs
<1>3. Len(turn.cur) = turn.pos + 1 /\ turn.pos + 1 >= turn.plen /\ ~(turn.out >= turn.max)
  BY DEF Running, AtFrontier
<1> QED
  BY <1>1, <1>2, <1>3

(* Sampled tokens are added to the turn's stream, whose newest one has been fed.  *)
LEMMA Sampled ==
  ASSUME SlotInv, UNCHANGED setup, Running, AtFrontier,
         Forward(turn.cur, turn.pos, turn.pos + 1),
         NEW ids \in Streams, Len(ids) > 0,
         LET cur == turn.cur \o ids
         IN  \/ turn' = NoTurn /\ cached' = Upto(cur, turn.pos + 1)
             \/ turn' = NoTurn /\ cached' = Upto(turn.cur, turn.pos + 1)
             \/ /\ UNCHANGED cached /\ turn.out + Len(ids) <= turn.max
                /\ turn' = [phase |-> "decode", cur |-> cur, plen |-> turn.plen,
                            pos |-> turn.pos + 1, written |-> turn.pos + 1,
                            out |-> turn.out + Len(ids), max |-> turn.max]
  PROVE  SlotInv'
<1> DEFINE cur == turn.cur \o ids
           pos == turn.pos + 1
           out == turn.out + Len(ids)
<1>1. /\ turn # NoTurn /\ turn.phase = "decode" /\ turn.cur \in Streams
      /\ turn.plen \in Nat /\ turn.pos \in Nat /\ turn.out \in Nat /\ turn.max \in Nat
      /\ Len(turn.cur) = pos /\ Len(turn.cur) = turn.plen + turn.out
  BY Frontier
<1>2. Len(ids) \in Nat \ {0}
  BY LenProperties DEF Streams
<1>3. /\ cur \in Streams /\ Len(cur) = Len(turn.cur) + Len(ids)
      /\ \A k \in 0 .. Len(turn.cur) : Upto(cur, k) = Upto(turn.cur, k)
  BY <1>1, UptoConcat
<1> HIDE DEF cur
<1>4. /\ pos \in 0 .. Len(turn.cur) /\ turn.pos \in 0 .. Len(turn.cur) /\ pos < Len(cur)
      /\ pos <= Len(cur) /\ turn.pos <= pos /\ pos \in Nat /\ pos <= Len(turn.cur)
      /\ out \in Nat /\ Len(cur) = turn.plen + out
  <2> DEFINE p == turn.pos
             k == Len(ids)
             l == Len(turn.cur)
             m == Len(cur)
  <2>1. p \in Nat /\ k \in Nat \ {0} /\ l = p + 1 /\ m = l + k
    BY <1>1, <1>2, <1>3
  <2>2. out \in Nat /\ Len(cur) = turn.plen + out
    <3> DEFINE o == turn.out
               q == turn.plen
    <3>1. o \in Nat /\ q \in Nat /\ k \in Nat /\ l = q + o /\ m = l + k
      BY <1>1, <1>2, <1>3
    <3> HIDE DEF k, l, m, o, q
    <3>2. o + k \in Nat /\ m = q + (o + k)
      BY <3>1
    <3> QED
      BY <3>2 DEF k, m, o, q
  <2> HIDE DEF p, k, l, m
  <2>3. /\ p + 1 \in 0 .. l /\ p \in 0 .. l /\ p + 1 < m /\ p + 1 <= m
        /\ p <= p + 1 /\ p + 1 \in Nat /\ p + 1 <= l
    BY <2>1
  <2> QED
    BY <2>2, <2>3 DEF p, k, l, m
<1>5. Upto(cur, pos) = Upto(turn.cur, pos) /\ Upto(cur, turn.pos) = Upto(turn.cur, turn.pos)
  BY <1>3, <1>4
<1>6. CASE turn' = NoTurn /\ cached' = Upto(cur, pos)
  BY <1>1, <1>3, <1>4, <1>5, <1>6, RowExecuted
<1>7. CASE turn' = NoTurn /\ cached' = Upto(turn.cur, pos)
  BY <1>1, <1>4, <1>7, RowExecuted
<1>8. CASE /\ UNCHANGED cached /\ out <= turn.max
           /\ turn' = [phase |-> "decode", cur |-> cur, plen |-> turn.plen, pos |-> pos,
                       written |-> pos, out |-> out, max |-> turn.max]
  <2> HIDE DEF pos, out
  <2>1. InTurn(setup, turn', cached') /\ turn'.cur = cur /\ turn'.pos = pos
    BY <1>1, <1>3, <1>4, <1>5, <1>8, GoesOn
  <2> QED
    BY <1>1, <1>3, <1>4, <1>5, <1>8, <2>1, RowExecuted DEF pos
<1> QED
  BY <1>6, <1>7, <1>8 DEF cur

LEMMA SampleStepSafe ==
  ASSUME SlotInv, UNCHANGED setup, NEW next \in Vocabulary, NEW stopped \in BOOLEAN,
         SampleStep(next, stopped)
  PROVE  SlotInv'
<1> DEFINE ids == <<next>>
<1>1. ids \in Streams /\ Len(ids) = 1
  BY DEF Vocabulary, Streams
<1>2. turn.cur \in Streams /\ turn.out \in Nat /\ turn.max \in Nat /\ turn.out < turn.max
      /\ turn # NoTurn
  BY Frontier DEF SampleStep
<1>3. Append(turn.cur, next) = turn.cur \o ids
  BY <1>2, AppendIsConcat DEF Streams, Vocabulary
<1>4. Running /\ AtFrontier /\ Forward(turn.cur, turn.pos, turn.pos + 1)
  BY DEF SampleStep
<1>5. CASE turn' = NoTurn /\ cached' = Upto(turn.cur, turn.pos + 1)
  <2>1. Len(ids) > 0
    BY <1>1
  <2> HIDE DEF ids
  <2> QED
    BY <1>1, <1>4, <1>5, <2>1, Sampled
<1>6. CASE ~(turn' = NoTurn /\ cached' = Upto(turn.cur, turn.pos + 1))
  <2>1. /\ UNCHANGED cached /\ turn.out + 1 <= turn.max
        /\ turn' = [turn EXCEPT !.cur = Append(@, next), !.out = @ + 1,
                                !.pos = @ + 1, !.written = turn.pos + 1]
    BY <1>2, <1>6 DEF SampleStep, Finish
  <2>2. turn' = [phase |-> "decode", cur |-> turn.cur \o ids, plen |-> turn.plen,
                 pos |-> turn.pos + 1, written |-> turn.pos + 1,
                 out |-> turn.out + Len(ids), max |-> turn.max]
    BY <1>1, <1>2, <1>3, <2>1, TurnIs DEF SampleStep, Running
  <2>3. turn.out + Len(ids) <= turn.max /\ Len(ids) > 0
    BY <1>1, <2>1
  <2> HIDE DEF ids
  <2> QED
    BY <1>1, <1>4, <2>1, <2>2, <2>3, Sampled
<1> QED
  BY <1>5, <1>6

LEMMA ForcedStepSafe ==
  ASSUME SlotInv, UNCHANGED setup, NEW a \in Tokens, NEW b \in Tokens, NEW stopped \in BOOLEAN,
         ForcedStep(a, b, stopped)
  PROVE  SlotInv'
<1> DEFINE ids == <<a, b>>
<1>1. ids \in Streams /\ Len(ids) = 2
  BY DEF Streams
<1>2. /\ Running /\ AtFrontier /\ Forward(turn.cur, turn.pos, turn.pos + 1)
      /\ turn.out + 2 <= turn.max
      /\ \/ turn' = NoTurn /\ cached' = Upto(turn.cur \o ids, turn.pos + 1)
         \/ /\ UNCHANGED cached
            /\ turn' = [phase |-> "decode", cur |-> turn.cur \o ids, plen |-> turn.plen,
                        pos |-> turn.pos + 1, written |-> turn.pos + 1,
                        out |-> turn.out + 2, max |-> turn.max]
  <2>1. /\ Running /\ AtFrontier /\ Forward(turn.cur, turn.pos, turn.pos + 1)
        /\ turn.out + 2 <= turn.max
        /\ \/ turn' = NoTurn /\ cached' = Upto(turn.cur \o ids, turn.pos + 1)
           \/ /\ UNCHANGED cached
              /\ turn' = [turn EXCEPT !.cur = turn.cur \o ids, !.out = @ + 2,
                                      !.pos = @ + 1, !.written = turn.pos + 1]
    BY DEF ForcedStep, Finish
  <2>2. turn # NoTurn /\ turn.phase = "decode"
    BY <2>1, Frontier
  <2> HIDE DEF ids
  <2> QED
    BY <2>1, <2>2, TurnIs
<1> HIDE DEF ids
<1>3. /\ turn.out + Len(ids) <= turn.max /\ Len(ids) > 0
      /\ \/ turn' = NoTurn /\ cached' = Upto(turn.cur \o ids, turn.pos + 1)
         \/ /\ UNCHANGED cached
            /\ turn' = [phase |-> "decode", cur |-> turn.cur \o ids, plen |-> turn.plen,
                        pos |-> turn.pos + 1, written |-> turn.pos + 1,
                        out |-> turn.out + Len(ids), max |-> turn.max]
  BY <1>1, <1>2
<1> QED
  BY <1>1, <1>2, <1>3, Sampled

(* The chain of a step: how many of its tokens the host keeps and how many of them    *)
(* the device has fed.                                                      *)
LEMMA ChainIs ==
  ASSUME SlotInv, Running, AtFrontier, ChainLength >= 2, NEW ids \in Chains
  PROVE  LET stream == turn.cur \o ids
             n == ChainLength
         IN  /\ n \in Nat /\ n <= setup.chain /\ turn.out + n <= turn.max
             /\ ids \in Streams /\ Len(ids) = n
             /\ stream \in Streams /\ Len(stream) = turn.pos + 1 + n
             /\ Upto(stream, turn.pos) = Upto(turn.cur, turn.pos)
             /\ turn.pos + n \in turn.pos .. Len(stream)
             /\ turn.pos + n <= setup.ctx /\ (turn.pos + n) - turn.pos <= setup.ubatch
             /\ turn.pos + 1 \in turn.pos .. turn.pos + n
<1> DEFINE n == ChainLength
           stream == turn.cur \o ids
<1>1. /\ turn # NoTurn /\ turn.cur \in Streams
      /\ turn.plen \in Nat /\ turn.pos \in Nat /\ turn.out \in Nat /\ turn.max \in Nat
      /\ Len(turn.cur) = turn.pos + 1 /\ Len(turn.cur) = turn.plen + turn.out
      /\ turn.out < turn.max /\ turn.plen + turn.max < setup.ctx /\ setup.ctx \in Nat
  BY Frontier
<1>2. /\ setup.chain \in Nat /\ setup.ubatch \in Nat /\ setup.chain <= setup.ubatch
  BY <1>1, TurnIs
<1>3. n \in Nat /\ n <= setup.chain /\ turn.out + n <= turn.max
  <2> DEFINE o == turn.out
             m == turn.max
             c == setup.chain
  <2>1. o \in Nat /\ m \in Nat /\ c \in Nat /\ o < m
    BY <1>1, <1>2
  <2>2. n = IF c <= m - o THEN c ELSE m - o
    BY DEF ChainLength, Lesser, Chain
  <2> HIDE DEF n, o, m, c
  <2>3. n \in Nat /\ n <= c /\ o + n <= m
    BY <2>1, <2>2
  <2> QED
    BY <2>3 DEF o, m, c
<1>4. ids \in [1 .. n -> Tokens \cup {Eos}]
  BY DEF Chains
<1> HIDE DEF n
<1>5. ids \in Streams /\ Len(ids) = n
  BY <1>3, <1>4, LenProperties, IsASeq DEF Streams
<1>6. /\ stream \in Streams /\ Len(stream) = turn.pos + 1 + n
      /\ Upto(stream, turn.pos) = Upto(turn.cur, turn.pos)
  <2>1. turn.pos \in 0 .. Len(turn.cur)
    BY <1>1
  <2> QED
    BY <1>1, <1>5, <2>1, UptoConcat
<1> HIDE DEF stream
<1>7. /\ turn.pos + n \in turn.pos .. Len(stream)
      /\ turn.pos + n <= setup.ctx /\ (turn.pos + n) - turn.pos <= setup.ubatch
      /\ turn.pos + 1 \in turn.pos .. turn.pos + n
  <2>1. n >= 2
    BY DEF n
  <2>2. ASSUME NEW p \in Nat, NEW k \in Nat, k >= 2
        PROVE  p + k \in p .. p + 1 + k /\ (p + k) - p = k /\ p + 1 \in p .. p + k
    BY <2>2
  <2>3. turn.pos + n <= setup.ctx
    <3> DEFINE p == turn.pos
               q == turn.plen
               o == turn.out
               m == turn.max
               x == setup.ctx
    <3>1. /\ p \in Nat /\ q \in Nat /\ o \in Nat /\ m \in Nat /\ x \in Nat /\ n \in Nat
          /\ p + 1 = q + o /\ q + m < x /\ o + n <= m
      BY <1>1, <1>3
    <3> HIDE DEF p, q, o, m, x
    <3>2. p + n <= x
      BY <3>1
    <3> QED
      BY <3>2 DEF p, x
  <2>4. n <= setup.ubatch
    <3> DEFINE c == setup.chain
               u == setup.ubatch
    <3>1. c \in Nat /\ u \in Nat /\ n \in Nat /\ c <= u /\ n <= c
      BY <1>2, <1>3
    <3> HIDE DEF c, u
    <3>2. n <= u
      BY <3>1
    <3> QED
      BY <3>2 DEF u
  <2>5. /\ turn.pos + n \in turn.pos .. turn.pos + 1 + n /\ (turn.pos + n) - turn.pos = n
        /\ turn.pos + 1 \in turn.pos .. turn.pos + n
    BY <1>1, <1>3, <2>1, <2>2
  <2> QED
    BY <1>6, <2>3, <2>4, <2>5
<1> QED
  BY <1>3, <1>5, <1>6, <1>7 DEF n, stream

(* What a turn leaves cached when it ends: all it has fed, of its own stream.       *)
RowsKept ==
  \E cur \in Streams : \E pos \in turn.pos .. Len(cur) :
    cached' = Upto(cur, pos) /\ Upto(cur, turn.pos) = Upto(turn.cur, turn.pos)

LEMMA ChainStepSafe ==
  ASSUME SlotInv, UNCHANGED setup, StateTrusted(setup) => ChainLength < 2,
         NEW ids \in Chains, NEW stopAt \in Nat, ChainStep(ids, stopAt)
  PROVE  SlotInv' /\ (turn' = NoTurn => RowsKept)
<1> DEFINE n == ChainLength
           stream == turn.cur \o ids
           enders == {i \in 1 .. n : ids[i] = Eos \/ turn.out + i >= turn.max \/ i = stopAt}
           fed == IF enders = {} THEN n ELSE CHOOSE i \in enders : \A j \in enders : i <= j
           some == IF ids[fed] = Eos THEN fed - 1 ELSE fed
           kept == turn.cur \o SubSeq(ids, 1, some)
           pos == turn.pos + fed
<1>1. /\ Running /\ AtFrontier /\ n >= 2 /\ ForwardChain(stream, turn.pos, n)
      /\ IF enders # {}
         THEN Finish(kept, turn.pos + fed)
         ELSE /\ turn' = [turn EXCEPT !.cur = kept, !.out = @ + fed, !.pos = @ + fed,
                                      !.written = turn.pos + fed]
              /\ UNCHANGED cached
  BY DEF ChainStep
<1>2. /\ turn # NoTurn /\ turn.cur \in Streams /\ turn.phase = "decode"
      /\ turn.plen \in Nat /\ turn.pos \in Nat /\ turn.out \in Nat /\ turn.max \in Nat
      /\ Len(turn.cur) = turn.pos + 1 /\ Len(turn.cur) = turn.plen + turn.out
  BY <1>1, Frontier
<1>3. /\ n \in Nat /\ n >= 2 /\ turn.out + n <= turn.max
      /\ ids \in Streams /\ Len(ids) = n
      /\ stream \in Streams /\ Len(stream) = turn.pos + 1 + n
      /\ Upto(stream, turn.pos) = Upto(turn.cur, turn.pos)
      /\ turn.pos + n \in turn.pos .. Len(stream)
      /\ turn.pos + n <= setup.ctx /\ (turn.pos + n) - turn.pos <= setup.ubatch
      /\ turn.pos + 1 \in turn.pos .. turn.pos + n
  BY <1>1, ChainIs
<1>4. ~StateTrusted(setup)
  BY <1>1, <1>3
<1> HIDE DEF n, stream
<1>5. enders # {} => \E i \in enders : \A j \in enders : i <= j
  <2>1. enders \in SUBSET Nat
    BY <1>3
  <2> HIDE DEF enders
  <2> QED
    BY <2>1, NatLeast
<1>6. fed \in 1 .. n /\ (enders = {} => fed = n)
  <2> HIDE DEF fed
  <2>1. CASE enders = {}
    BY <1>3, <2>1 DEF fed
  <2>2. CASE enders # {}
    <3>1. fed \in enders
      BY <1>5, <2>2 DEF fed
    <3> QED
      BY <2>2, <3>1
  <2> QED
    BY <2>1, <2>2
<1>7. enders = {} => ids[n] # Eos /\ ~(turn.out + n >= turn.max)
  BY <1>3
<1> HIDE DEF enders, fed
<1>8. some \in 0 .. n /\ some >= fed - 1 /\ (enders = {} => some = n)
  BY <1>3, <1>6, <1>7
<1> HIDE DEF some
<1>9. SubSeq(ids, 1, some) \in Streams /\ Len(SubSeq(ids, 1, some)) = some
      /\ \A i \in 1 .. some : SubSeq(ids, 1, some)[i] = ids[i]
  BY <1>3, <1>8, UptoIs DEF Upto
<1>10. /\ kept \in Streams /\ Len(kept) = turn.pos + 1 + some
       /\ \A i \in 1 .. Len(kept) : kept[i] = stream[i]
  <2> DEFINE part == SubSeq(ids, 1, some)
  <2>1. part \in Streams /\ Len(part) = some /\ (\A i \in 1 .. some : part[i] = ids[i])
    BY <1>9
  <2> HIDE DEF part
  <2>2. kept = turn.cur \o part
    BY DEF part
  <2> HIDE DEF kept
  <2>3. Len(turn.cur) \in Nat
    BY <1>2
  <2>4. /\ kept \in Streams /\ Len(kept) = Len(turn.cur) + some
        /\ \A i \in 1 .. Len(turn.cur) + some :
             kept[i] = IF i <= Len(turn.cur) THEN turn.cur[i] ELSE part[i - Len(turn.cur)]
    BY <1>2, <2>1, <2>2, ConcatIs
  <2>5. \A i \in 1 .. Len(turn.cur) + n :
           stream[i] = IF i <= Len(turn.cur) THEN turn.cur[i] ELSE ids[i - Len(turn.cur)]
    BY <1>2, <1>3, ConcatIs DEF stream
  <2>6. ASSUME NEW l \in Nat, NEW m \in 0 .. n, NEW i \in 1 .. l + m
        PROVE  i \in 1 .. l + n /\ (i > l => i - l \in 1 .. m)
    BY <1>3, <2>6
  <2>7. ASSUME NEW i \in 1 .. Len(turn.cur) + some PROVE kept[i] = stream[i]
    <3>1. Len(turn.cur) \in Nat
      BY <1>2, <2>3
    <3>2. i \in 1 .. Len(turn.cur) + n /\ (i > Len(turn.cur) => i - Len(turn.cur) \in 1 .. some)
      BY <1>8, <2>6, <3>1
    <3>3. CASE i <= Len(turn.cur)
      BY <2>4, <2>5, <3>2, <3>3
    <3>4. CASE i > Len(turn.cur)
      BY <2>1, <2>4, <2>5, <3>1, <3>2, <3>4
    <3> QED
      BY <3>1, <3>3, <3>4
  <2> QED
    BY <1>2, <2>4, <2>7
<1> HIDE DEF kept
<1>11. /\ pos \in 0 .. Len(kept) /\ pos <= Len(stream) /\ pos \in turn.pos .. turn.pos + n
       /\ pos <= Len(kept) /\ turn.pos <= pos /\ pos \in Nat
  <2>1. ASSUME NEW p \in Nat, NEW k \in Nat, NEW f \in 1 .. k, NEW m \in 0 .. k, m >= f - 1
        PROVE  /\ p + f \in 0 .. p + 1 + m /\ p + f <= p + 1 + k /\ p + f \in p .. p + k
               /\ p + f <= p + 1 + m /\ p <= p + f /\ p + f \in Nat
    BY <2>1
  <2> QED
    BY <1>2, <1>3, <1>6, <1>8, <1>10, <2>1, ZenonT(30)
<1>12. Upto(kept, pos) = Upto(stream, pos) /\ Upto(kept, turn.pos) = Upto(turn.cur, turn.pos)
  <2>1. \A i \in 1 .. pos : kept[i] = stream[i]
    BY <1>10, <1>11
  <2>2. Upto(kept, pos) = Upto(stream, pos)
    BY <1>3, <1>10, <1>11, <2>1, UptoEqual
  <2>3. turn.pos \in 0 .. Len(kept) /\ turn.pos <= Len(stream)
    <3>1. ASSUME NEW p \in Nat, NEW k \in Nat PROVE p \in 0 .. p + 1 + k /\ p <= p + 1 + k
      OBVIOUS
    <3>2. some \in Nat
      BY <1>3, <1>8
    <3> QED
      BY <1>2, <1>3, <1>10, <3>1, <3>2
  <2>4. \A i \in 1 .. turn.pos : kept[i] = stream[i]
    BY <1>10, <2>3
  <2>5. Upto(kept, turn.pos) = Upto(stream, turn.pos)
    BY <1>3, <1>10, <2>3, <2>4, UptoEqual
  <2> QED
    BY <1>3, <2>2, <2>5
<1>13. /\ rows' = Written(stream, turn.pos, turn.pos + n)
       /\ absorbed' = Absorbed(stream, turn.pos, turn.pos + n)
       /\ exact' = (exact /\ ReadsOwnStream(Written(stream, turn.pos, turn.pos + 1),
                                            stream, turn.pos, turn.pos + 1))
  BY <1>1 DEF ForwardChain
<1>14. \/ turn' = NoTurn /\ cached' = Upto(kept, pos)
       \/ /\ InTurn(setup, turn', cached') /\ turn'.cur = kept /\ turn'.pos = pos
          /\ UNCHANGED cached
  <2>1. CASE enders # {}
    BY <1>1, <2>1 DEF Finish
  <2>2. CASE enders = {}
    <3> DEFINE out == turn.out + fed
    <3>1. /\ out \in Nat /\ Len(kept) = turn.plen + out /\ out <= turn.max
          /\ turn.pos <= pos /\ pos < Len(kept)
      <4> DEFINE p == turn.pos
                 o == turn.out
                 l == turn.plen
                 m == turn.max
      <4>1. /\ p \in Nat /\ o \in Nat /\ l \in Nat /\ m \in Nat /\ p + 1 = l + o /\ o + n <= m
            /\ fed = n /\ some = n /\ n \in Nat /\ Len(kept) = p + 1 + n
        BY <1>2, <1>3, <1>6, <1>8, <1>10, <2>2
      <4>2. out = o + n /\ pos = p + n
        BY <4>1
      <4> HIDE DEF p, o, l, m, pos, out
      <4>3. out \in Nat /\ Len(kept) = l + out /\ out <= m /\ p <= pos /\ pos < Len(kept)
        BY <4>1, <4>2
      <4> QED
        BY <4>3 DEF p, l, m
    <3>2. /\ UNCHANGED cached
          /\ turn' = [phase |-> "decode", cur |-> kept, plen |-> turn.plen, pos |-> pos,
                      written |-> pos, out |-> out, max |-> turn.max]
      BY <1>1, <1>2, <2>2, TurnIs
    <3>3. Upto(kept, turn.pos) = Upto(turn.cur, turn.pos)
      BY <1>12
    <3> HIDE DEF pos, out
    <3> QED
      BY <1>2, <1>10, <1>11, <3>1, <3>2, <3>3, GoesOn
  <2> QED
    BY <2>1, <2>2
<1> DEFINE to == turn.pos + n
           last == turn.pos + 1
<1>15. /\ to \in turn.pos .. Len(stream) /\ last \in turn.pos .. to /\ to <= setup.ctx
       /\ to - turn.pos <= setup.ubatch /\ pos \in turn.pos .. to
       /\ rows' = Written(stream, turn.pos, to)
       /\ absorbed' = Absorbed(stream, turn.pos, to)
       /\ exact' = (exact /\ ReadsOwnStream(Written(stream, turn.pos, last), stream, turn.pos, last))
  BY <1>3, <1>11, <1>13
<1> HIDE DEF pos, to, last
<1>16. SlotInv'
  BY <1>2, <1>3, <1>4, <1>10, <1>11, <1>12, <1>14, <1>15, TurnExecuted
<1>17. turn' = NoTurn => RowsKept
  <2>1. ~InTurn(setup, NoTurn, cached')
    BY DEF InTurn, TurnRec, NoTurn
  <2>2. pos \in turn.pos .. Len(kept)
    BY <1>2, <1>11
  <2> QED
    BY <1>10, <1>12, <1>14, <2>1, <2>2 DEF RowsKept
<1> QED
  BY <1>16, <1>17

LEMMA DecodeFailsSafe ==
  ASSUME SlotInv, UNCHANGED setup, DecodeFails
  PROVE  SlotInv'
<1>1. /\ turn # NoTurn /\ setup.faults # {} /\ turn' = NoTurn /\ UNCHANGED cached /\ Running
      /\ \/ Forward(turn.cur, turn.pos, turn.pos + 1)
         \/ \E ids \in Chains :
              /\ AtFrontier /\ ChainLength >= 2
              /\ ForwardChain(turn.cur \o ids, turn.pos, ChainLength)
         \/ UNCHANGED <<rows, absorbed, exact>>
  BY DEF DecodeFails, Fail, Running, Faults, NoTurn
<1>2. ~StateTrusted(setup)
  BY <1>1 DEF StateTrusted
<1>3. CASE UNCHANGED <<rows, absorbed, exact>>
  BY <1>1, <1>3, TurnStopped
<1>4. CASE Forward(turn.cur, turn.pos, turn.pos + 1)
  BY <1>1, <1>4, NextRow, RowExecuted
<1>5. ASSUME NEW ids \in Chains, AtFrontier, ChainLength >= 2,
             ForwardChain(turn.cur \o ids, turn.pos, ChainLength)
      PROVE  SlotInv'
  <2> DEFINE n == ChainLength
             stream == turn.cur \o ids
             to == turn.pos + n
             last == turn.pos + 1
  <2>1. /\ stream \in Streams /\ Upto(stream, turn.pos) = Upto(turn.cur, turn.pos)
        /\ to \in turn.pos .. Len(stream) /\ to <= setup.ctx /\ to - turn.pos <= setup.ubatch
        /\ last \in turn.pos .. to
    BY <1>1, <1>5, ChainIs
  <2>2. /\ rows' = Written(stream, turn.pos, to)
        /\ absorbed' = Absorbed(stream, turn.pos, to)
        /\ exact' = (exact /\ ReadsOwnStream(Written(stream, turn.pos, last), stream, turn.pos, last))
    BY <1>5 DEF ForwardChain
  <2>3. turn.pos \in Nat /\ turn.cur \in Streams /\ turn.pos <= Len(turn.cur)
    BY <1>1, NextRow
  <2> DEFINE p == turn.pos
  <2>4. p \in Nat /\ to \in p .. Len(stream)
    BY <2>1, <2>3
  <2> HIDE DEF n, stream, to, last, p
  <2>5. p \in p .. to
    BY <2>4
  <2>6. turn.pos \in turn.pos .. to
    BY <2>5 DEF p
  <2> QED
    BY <1>1, <1>2, <2>1, <2>2, <2>3, <2>6, TurnExecuted
<1> QED
  BY <1>1, <1>3, <1>4, <1>5

LEMMA ResetSafe ==
  ASSUME SlotInv, UNCHANGED setup, setup.mtp.drafts = 0, Reset
  PROVE  SlotInv'
<1>1. /\ setup.resets /\ turn = NoTurn /\ turn' = NoTurn /\ cached' = <<>>
      /\ UNCHANGED <<rows, absorbed, exact>>
  BY DEF Reset, Resets
<1>2. /\ setup \in Setups /\ cached \in Streams /\ FedBy(turn, cached) = cached
      /\ absorbed \in Streams /\ Len(cached) \in Nat /\ setup.ctx \in Nat
  BY <1>1, SlotIs, SetupIs
<1>3. Upto(cached, 0) = <<>> /\ <<>> \in Streams /\ Len(<<>>) = 0 /\ 0 \in 0 .. Len(cached)
      /\ 0 <= setup.ctx
  BY <1>2, UptoNone DEF Streams
<1>4. FedBy(turn', cached') = Upto(FedBy(turn, cached), 0)
  BY <1>1, <1>2, <1>3 DEF FedBy
<1>5. ~StateTrusted(setup)
  BY <1>1 DEF StateTrusted
<1> QED
  BY <1>1, <1>2, <1>3, <1>4, <1>5, Kept

LEMMA ZeroingFailsSafe ==
  ASSUME SlotInv, UNCHANGED setup, NEW prompt, NEW max, ZeroingFails(prompt, max)
  PROVE  SlotInv'
<1>1. /\ setup.faults # {} /\ turn = NoTurn /\ turn' = NoTurn /\ absorbed' = <<>>
      /\ UNCHANGED <<cached, rows, exact>>
  BY DEF ZeroingFails, Faults
<1>2. /\ setup \in Setups /\ cached \in Streams /\ FedBy(turn, cached) = cached
      /\ Len(cached) \in Nat /\ Len(cached) <= setup.ctx
  BY <1>1, SlotIs
<1>3. Upto(cached, Len(cached)) = cached /\ <<>> \in Streams /\ Len(cached) \in 0 .. Len(cached)
  BY <1>2, UptoAll DEF Streams
<1>4. FedBy(turn', cached') = Upto(FedBy(turn, cached), Len(cached))
  BY <1>1, <1>2, <1>3 DEF FedBy
<1>5. ~StateTrusted(setup)
  BY <1>1 DEF StateTrusted
<1> QED
  BY <1>1, <1>2, <1>3, <1>4, <1>5, Kept

(* The work of a turn that is neither begun nor cut short.                     *)
LEMMA ProceedSafe ==
  ASSUME SlotInv, UNCHANGED setup, StateTrusted(setup) => ChainLength < 2, Proceed
  PROVE  SlotInv'
<1>1. CASE PrefillChunk
  BY <1>1, PrefillChunkSafe
<1>2. CASE FeedStep
  BY <1>2, FeedStepSafe
<1>3. CASE DecodeStops
  BY <1>3, DecodeStopsSafe
<1>4. ASSUME NEW next \in Tokens \cup {Eos}, NEW stopped \in BOOLEAN, SampleStep(next, stopped)
      PROVE  SlotInv'
  BY <1>4, SampleStepSafe DEF Vocabulary
<1>5. ASSUME NEW a \in Tokens, NEW b \in Tokens, NEW stopped \in BOOLEAN,
             ForcedStep(a, b, stopped)
      PROVE  SlotInv'
  BY <1>5, ForcedStepSafe
<1>6. ASSUME NEW ids \in Chains, NEW stopAt \in 0 .. Chain, ChainStep(ids, stopAt)
      PROVE  SlotInv'
  <2>1. stopAt \in Nat
    OBVIOUS
  <2> QED
    BY <1>6, <2>1, ChainStepSafe
<1> QED
  BY <1>1, <1>2, <1>3, <1>4, <1>5, <1>6 DEF Proceed

LEMMA PromptIs ==
  ASSUME setup \in Setups, NEW prompt \in Prompts
  PROVE  /\ prompt \in Streams /\ Len(prompt) \in Nat \ {0} /\ Len(prompt) <= setup.maxPrompt
         /\ Len(prompt) > 0
<1>1. PICK n \in 1 .. MaxPrompt : prompt \in [1 .. n -> Tokens]
  BY DEF Prompts
<1>2. setup.maxPrompt \in Nat /\ n \in Nat
  BY <1>1, SetupIs DEF MaxPrompt
<1>3. prompt \in Seq(Tokens \cup {Eos})
  <2>1. prompt \in [1 .. n -> Tokens \cup {Eos}]
    BY <1>1
  <2> QED
    BY <1>2, <2>1, IsASeq
<1>4. Len(prompt) = n
  BY <1>1, <1>2, <1>3, LenProperties
<1> QED
  BY <1>1, <1>2, <1>3, <1>4 DEF Streams, MaxPrompt

(* A recurrent slot that can be relied on never feeds a chain.                    *)
LEMMA ChainTrusted ==
  ASSUME SlotInv, setup.mtp.drafts = 0, StateTrusted(setup)
  PROVE  ChainLength < 2
<1>1. setup \in Setups
  BY SlotIs
<1>2. setup.chain < 2 /\ setup.chain \in Nat
  BY <1>1, SetupIs DEF StateTrusted
<1>3. turn.max \in Nat /\ turn.out \in Nat
  <2>1. CASE turn = NoTurn
    BY <2>1 DEF NoTurn
  <2>2. CASE turn # NoTurn
    BY <2>2, TurnIs
  <2> QED
    BY <2>1, <2>2
<1> DEFINE d == turn.max - turn.out
           a == setup.chain
<1>4. d \in Int /\ a \in Nat /\ a < 2
  BY <1>2, <1>3
<1>5. ChainLength = Lesser(a, d)
  BY DEF ChainLength, Chain
<1> HIDE DEF a, d
<1> QED
  BY <1>4, <1>5 DEF Lesser

LEMMA SlotStepSafe ==
  ASSUME SlotInv, UNCHANGED setup, setup.mtp.drafts = 0, Step
  PROVE  SlotInv'
<1>1. setup \in Setups
  BY SlotIs
<1>2. ASSUME NEW prompt \in Prompts, NEW max \in 0 .. MaxNew,
             BeginDense(prompt, max) \/ BeginRecurrent(prompt, max) \/ ZeroingFails(prompt, max)
      PROVE  SlotInv'
  <2>1. prompt \in Streams /\ Len(prompt) > 0
    BY <1>1, PromptIs
  <2>2. max \in Nat
    BY <1>1, SetupIs DEF MaxNew
  <2> QED
    BY <1>2, <2>1, <2>2, BeginDenseSafe, BeginRecurrentSafe, ZeroingFailsSafe
<1>3. CASE Reset
  BY <1>3, ResetSafe
<1>4. CASE Proceed
  BY <1>4, ChainTrusted, ProceedSafe
<1>5. CASE PrefillAborted
  BY <1>5, PrefillAbortedSafe
<1>6. CASE PrefillFails
  BY <1>6, PrefillFailsSafe
<1>7. CASE DecodeFails
  BY <1>7, DecodeFailsSafe
<1> QED
  BY <1>2, <1>3, <1>4, <1>5, <1>6, <1>7 DEF Step

-----------------------------------------------------------------------------
(* The loop.  What it must keep is stated in the same way.                        *)
Feeding(g) == g.committed \o g.cand
Past(g) == Len(g.committed)

GenShape(g) ==
  DOMAIN g = {"at", "max", "out", "committed", "cand", "returned", "leading", "pending", "head",
              "boundary", "ckpt"}

Judging == {"resume", "verify", "judge"}
Cycling == {"draft", "reprime", "repriming"} \cup Judging

Bounds(s, g) ==
  /\ g.committed \in Streams /\ Past(g) > 0
  /\ g.max \in Nat /\ g.out \in Nat /\ g.out <= g.max
  /\ Past(g) + (g.max - g.out) <= s.ctx
  /\ g.cand \in Streams /\ Len(g.cand) <= g.max - g.out /\ Len(g.cand) <= s.mtp.drafts
  /\ g.cand # <<>> <=> g.at \in Judging
  /\ g.leading \in {<<>>, g.committed}

HeadOK(g) ==
  /\ Len(g.head) \in Nat /\ Past(g) <= Len(g.head)
  /\ \A i \in 1 .. Past(g) : g.head[i] = <<g.committed[i], Upto(g.committed, i - 1)>>

Checkpoints(s) == s.recurrent /\ s.mtp.ckpt
Reprimes(s) == s.mtp.ckpt /\ s.mtp.reprime

CkptOK(s, g) ==
  Checkpoints(s) =>
    /\ g.ckpt.len \in 1 .. Past(g) /\ g.ckpt.state = Upto(g.committed, g.ckpt.len)
    /\ g.boundary = g.ckpt.len

(* Before the slot is resumed from: it holds the committed stream if that one's row is  *)
(* carried over, and otherwise nothing that reaches the newest token.         *)
BehindOK(s, c, g) ==
  IF g.leading # <<>> THEN c = g.committed
  ELSE IF Checkpoints(s)
    THEN /\ c = Upto(g.committed, g.ckpt.len) /\ g.ckpt.len < Past(g)
         /\ Reprimes(s) => Past(g) - g.ckpt.len + s.mtp.drafts <= s.mtp.maxM
    ELSE /\ Past(g) - 1 <= Len(c)
         /\ \A i \in 1 .. Past(g) - 1 : c[i] = g.committed[i]
         /\ Len(c) = Past(g) - 1 \/ c[Past(g)] # g.committed[Past(g)]

(* Before the verify, which feeds all that is not cached.                        *)
ResumedOK(s, c, g) ==
  /\ c = Upto(Feeding(g), Len(c))
  /\ IF g.leading # <<>> THEN Len(c) = Past(g) ELSE Len(c) < Past(g)
  /\ Reprimes(s) => Len(Feeding(g)) - Len(c) <= s.mtp.maxM

(* After it: the rows it returned.                                            *)
ReturnedOK(s, c, g) ==
  LET feed == Feeding(g)
      m == Len(g.returned)
  IN  /\ c = feed
      /\ m \in 0 .. Len(feed)
      /\ g.returned = [j \in 1 .. m |-> Upto(feed, Len(feed) - m + j)]
      /\ IF g.leading # <<>> THEN m = Len(g.cand) ELSE m > Len(g.cand)
      /\ Reprimes(s) => m <= s.mtp.maxM

LoopOK(s, c, t, g) ==
  /\ GenShape(g) /\ g.at \in Cycling \cup {"new", "done"}
  /\ g.at # "repriming" => t = NoTurn
  /\ g.at = "new" => g = Idle /\ c = <<>>
  /\ g.at \in Cycling => Bounds(s, g) /\ HeadOK(g) /\ CkptOK(s, g)
  /\ g.at \in {"draft", "resume"} => BehindOK(s, c, g)
  /\ g.at = "verify" => ResumedOK(s, c, g)
  /\ g.at = "judge" => ReturnedOK(s, c, g)
  /\ g.at = "repriming" =>
       IF t = NoTurn THEN c = g.committed
       ELSE t.cur = g.committed /\ t.max = 1 /\ t.out = 0

LoopInv == IF setup.mtp.drafts = 0 THEN gen = Idle ELSE LoopOK(setup, cached, turn, gen)

MtpInv == SlotInv /\ LoopInv

LEMMA LoopSetup ==
  ASSUME setup \in Setups, setup.mtp.drafts # 0
  PROVE  /\ setup.mtp.drafts \in Nat \ {0} /\ setup.mtp.maxM \in Nat
         /\ setup.mtp.drafts < setup.mtp.maxM
         /\ ~setup.ring /\ setup.faults = {}
         /\ RowsTrusted(setup) /\ Trusted(setup) /\ (setup.recurrent <=> StateTrusted(setup))
         /\ setup.maxPrompt \in Nat /\ setup.maxNew \in Nat /\ setup.ctx \in Nat
         /\ setup.maxPrompt + setup.maxNew <= setup.ctx
         /\ setup.recurrent \in BOOLEAN /\ setup.mtp.ckpt \in BOOLEAN
<1>1. /\ setup.mtp.drafts \in Nat /\ setup.mtp.maxM \in Nat
      /\ setup.maxPrompt \in Nat /\ setup.maxNew \in Nat /\ setup.ctx \in Nat
      /\ setup.recurrent \in BOOLEAN /\ setup.mtp.ckpt \in BOOLEAN
  BY SetupIs
<1>2. setup.mtp.drafts > 0
  BY <1>1
<1>3. /\ ~setup.ring /\ setup.faults = {} /\ setup.mtp.drafts < setup.mtp.maxM
      /\ setup.maxPrompt + setup.maxNew <= setup.ctx
  BY <1>2, SetupIs
<1> QED
  BY <1>1, <1>2, <1>3 DEF RowsTrusted, StateTrusted, Trusted

(* The slot executes all of a stream that it does not hold yet.                *)
LEMMA WholeStream ==
  ASSUME SlotInv, UNCHANGED <<setup, turn>>, turn = NoTurn, ~setup.ring,
         NEW stream \in Streams, Len(stream) <= setup.ctx,
         Len(cached) <= Len(stream), Upto(stream, Len(cached)) = cached,
         Forward(stream, Len(cached), Len(stream)), cached' = stream
  PROVE  SlotInv'
<1> DEFINE to == Len(stream)
           f == cached
<1>1. f \in Streams /\ Len(f) \in Nat /\ f = FedBy(turn, cached) /\ to \in Nat
  BY SlotIs, LenProperties DEF Streams
<1>2. /\ to \in Len(f) .. Len(stream) /\ to \in Len(f) .. to /\ to \in 0 .. to
      /\ Upto(stream, to) = stream /\ Upto(stream, Len(f)) = f /\ to <= setup.ctx
  BY <1>1, UptoAll
<1>3. /\ rows' = Written(stream, Len(f), to)
      /\ absorbed' = Absorbed(stream, Len(f), to)
      /\ exact' = (exact /\ ReadsOwnStream(Written(stream, Len(f), to), stream, Len(f), to))
  BY DEF Forward
<1>4. FedBy(turn', cached') = Upto(stream, to) /\ cached' \in Streams /\ Len(cached') <= setup.ctx
      /\ turn' = NoTurn
  BY <1>2 DEF FedBy
<1>5. /\ setup.ring => to - Len(f) <= setup.ubatch
      /\ RowsTrusted(setup) /\ setup.ring => to >= Len(f)
  OBVIOUS
<1> HIDE DEF to, f
<1> QED
  BY <1>1, <1>2, <1>3, <1>4, <1>5, Executed

(* The slot forgets the end of what it holds.                                 *)
LEMMA Rewound ==
  ASSUME SlotInv, UNCHANGED <<setup, rows, exact, turn>>, turn = NoTurn, ~setup.ring,
         NEW n \in 0 .. Len(cached), cached' = Upto(cached, n), absorbed' \in Streams,
         StateTrusted(setup) => absorbed' = cached'
  PROVE  SlotInv'
<1>1. /\ setup \in Setups /\ cached \in Streams /\ Len(cached) \in Nat /\ Len(cached) <= setup.ctx
      /\ FedBy(turn, cached) = cached /\ setup.ctx \in Nat
  BY SlotIs, SetupIs
<1>2. cached' \in Streams /\ Len(cached') = n /\ n <= setup.ctx
  BY <1>1, UptoIs
<1>3. FedBy(turn', cached') = cached'
  BY DEF FedBy
<1> QED
  BY <1>1, <1>2, <1>3, Kept

(* The loop's streams.                                                      *)
LEMMA LoopIs ==
  ASSUME NEW g, Bounds(setup, g), setup \in Setups, setup.mtp.drafts # 0
  PROVE  /\ g.committed \in Streams /\ g.cand \in Streams /\ Feeding(g) \in Streams
         /\ Past(g) \in Nat \ {0} /\ Len(g.cand) \in Nat /\ Len(Feeding(g)) = Past(g) + Len(g.cand)
         /\ Past(g) = Len(g.committed) /\ Past(g) <= setup.ctx
         /\ Len(Feeding(g)) <= setup.ctx /\ Len(Feeding(g)) \in Nat
         /\ Upto(Feeding(g), Past(g)) = g.committed
         /\ \A k \in 0 .. Past(g) : Upto(Feeding(g), k) = Upto(g.committed, k)
         /\ \A i \in 1 .. Past(g) : Feeding(g)[i] = g.committed[i]
         /\ \A i \in 1 .. Len(g.cand) : Feeding(g)[Past(g) + i] = g.cand[i]
<1> DEFINE p == Past(g)
           c == Len(g.cand)
           feed == Feeding(g)
           left == g.max - g.out
<1>1. /\ g.committed \in Streams /\ g.cand \in Streams /\ p \in Nat \ {0} /\ c \in Nat
      /\ p = Len(g.committed) /\ setup.ctx \in Nat /\ left \in Nat
      /\ p + left <= setup.ctx /\ c <= left
  BY LenProperties, SetupIs DEF Bounds, Past, Streams
<1>2. feed \in Streams /\ Len(feed) = p + c
      /\ \A i \in 1 .. p + c : feed[i] = IF i <= p THEN g.committed[i] ELSE g.cand[i - p]
  <2> DEFINE s == g.committed
             t == g.cand
  <2>1. s \in Streams /\ t \in Streams /\ p = Len(s) /\ c = Len(t) /\ feed = s \o t
    BY <1>1 DEF Feeding
  <2> HIDE DEF s, t, p, c, feed
  <2>2. feed \in Streams /\ Len(feed) = p + c
        /\ \A i \in 1 .. p + c : feed[i] = IF i <= p THEN s[i] ELSE t[i - p]
    BY <2>1, ConcatIs
  <2> QED
    BY <2>2 DEF s, t
<1>3. \A k \in 0 .. p : Upto(feed, k) = Upto(g.committed, k)
  BY <1>1, UptoConcat DEF Feeding
<1> DEFINE x == setup.ctx
<1> HIDE DEF p, c, feed, left, x
<1>4. Len(feed) <= x /\ Len(feed) \in Nat /\ p <= x
  BY <1>1, <1>2 DEF x
<1>5. \A i \in 1 .. p : feed[i] = g.committed[i]
  BY <1>1, <1>2
<1>6. \A i \in 1 .. c : feed[p + i] = g.cand[i]
  BY <1>1, <1>2
<1>7. Upto(feed, p) = g.committed
  <2>1. p \in 0 .. p
    BY <1>1
  <2> QED
    BY <1>1, <1>3, <2>1, UptoAll
<1> QED
  BY <1>1, <1>2, <1>3, <1>4, <1>5, <1>6, <1>7 DEF p, c, feed, x

(* The head's rows.                                                         *)
LEMMA OverwriteIs ==
  ASSUME NEW head, Len(head) \in Nat, NEW n \in Nat, NEW new, Len(new) \in Nat
  PROVE  LET h == Overwrite(head, n, new)
         IN  /\ Len(h) \in Nat /\ Len(h) >= Len(head) /\ Len(h) >= n + Len(new)
             /\ \A i \in 1 .. n : i <= Len(head) => h[i] = head[i]
             /\ \A i \in 1 .. Len(new) : h[n + i] = new[i]
<1> DEFINE k == Greater(Len(head), n + Len(new))
           h == Overwrite(head, n, new)
           l == Len(head)
           m == Len(new)
<1>1. k \in Nat /\ k >= l /\ k >= n + m /\ l \in Nat /\ m \in Nat
  BY DEF Greater
<1>2. h = [i \in 1 .. k |-> IF i \in n + 1 .. n + m THEN new[i - n] ELSE head[i]]
  BY DEF Overwrite
<1> HIDE DEF k, h, l, m
<1>3. Len(h) = k
  BY <1>1, <1>2
<1>4. ASSUME NEW i \in 1 .. n, i <= l PROVE h[i] = head[i]
  <2>1. i \in 1 .. k /\ ~(i \in n + 1 .. n + m)
    BY <1>1, <1>4
  <2> QED
    BY <1>2, <2>1
<1>5. ASSUME NEW i \in 1 .. m PROVE h[n + i] = new[i]
  <2>1. n + i \in 1 .. k /\ n + i \in n + 1 .. n + m /\ (n + i) - n = i
    BY <1>1, <1>5
  <2> QED
    BY <1>2, <2>1
<1> QED
  BY <1>1, <1>3, <1>4, <1>5 DEF h, l, m

LEMMA CatchUpIs ==
  ASSUME NEW head, Len(head) \in Nat, NEW n \in 0 .. Len(head),
         NEW tokens, Len(tokens) \in Nat, NEW hidden
  PROVE  LET h == CatchUp(head, n, tokens, hidden)
         IN  /\ Len(h) \in Nat /\ Len(h) >= n + Len(tokens)
             /\ \A i \in 1 .. n : h[i] = head[i]
             /\ \A i \in 1 .. Len(tokens) : h[n + i] = <<tokens[i], hidden[i]>>
<1> DEFINE new == [i \in 1 .. Len(tokens) |-> <<tokens[i], hidden[i]>>]
           h == CatchUp(head, n, tokens, hidden)
<1>1. Len(new) = Len(tokens) /\ h = Overwrite(head, n, new)
  BY DEF CatchUp
<1>2. \A i \in 1 .. Len(tokens) : new[i] = <<tokens[i], hidden[i]>>
  OBVIOUS
<1> HIDE DEF new
<1>3. n \in Nat /\ \A i \in 1 .. n : i <= Len(head)
  OBVIOUS
<1>4. /\ Len(h) \in Nat /\ Len(h) >= Len(head) /\ Len(h) >= n + Len(new)
      /\ \A i \in 1 .. n : i <= Len(head) => h[i] = head[i]
      /\ \A i \in 1 .. Len(new) : h[n + i] = new[i]
  BY <1>1, <1>3, OverwriteIs
<1> QED
  BY <1>1, <1>2, <1>3, <1>4

(* What a stream shares with a cached part of it.                              *)
LEMMA SharedIs ==
  ASSUME cached \in Streams, NEW feed \in Streams, Len(cached) <= Len(feed),
         cached = Upto(feed, Len(cached))
  PROVE  SharedPrefix(feed) = Len(cached)
<1> DEFINE n == SharedPrefix(feed)
           l == Len(cached)
<1>1. l \in Nat /\ Len(feed) \in Nat /\ l <= Len(feed)
  BY LenProperties DEF Streams
<1>2. /\ n \in 0 .. l /\ n <= Len(feed)
      /\ n < l /\ n < Len(feed) => cached[n + 1] # feed[n + 1]
  BY CommonPrefix DEF SharedPrefix
<1> HIDE DEF n
<1>3. \A i \in 1 .. l : cached[i] = feed[i]
  <2>1. l \in 0 .. Len(feed)
    BY <1>1
  <2> QED
    BY <2>1, UptoIs
<1> HIDE DEF l
<1>4. CASE n < l
  <2>1. n + 1 \in 1 .. l /\ n < Len(feed)
    BY <1>1, <1>2, <1>4
  <2> QED
    BY <1>2, <1>3, <1>4, <2>1
<1> QED
  BY <1>1, <1>2, <1>4 DEF n, l

(* The rows the candidates are judged by.                                      *)
LEMMA JudgedIs ==
  ASSUME setup \in Setups, setup.mtp.drafts # 0, Bounds(setup, gen), gen.cand # <<>>,
         ReturnedOK(setup, cached, gen)
  PROVE  /\ ~Underflows
         /\ Judged = [j \in 1 .. Len(gen.cand) + 1 |-> Upto(Feed, NPast - 1 + j)]
<1> DEFINE feed == Feeding(gen)
           p == Past(gen)
           c == Len(gen.cand)
           m == Len(gen.returned)
           l == Len(feed)
           ret == gen.returned
<1>1. Feed = feed /\ NPast = p
  BY DEF Feed, NPast, Feeding, Past
<1>2. /\ feed \in Streams /\ p \in Nat \ {0} /\ c \in Nat /\ l = p + c
      /\ Upto(feed, p) = gen.committed /\ gen.committed # <<>>
  <2>1. Len(gen.committed) # 0
    BY LoopIs
  <2> QED
    BY <2>1, LoopIs
<1>3. /\ m \in 0 .. l
      /\ ret = [j \in 1 .. m |-> Upto(feed, l - m + j)]
      /\ IF gen.leading # <<>> THEN m = c ELSE m > c
  BY DEF ReturnedOK
<1>4. gen.leading \in {<<>>, gen.committed}
  BY DEF Bounds
<1>5. ~Underflows
  BY <1>2, <1>3 DEF Underflows
<1>6. CASE gen.leading # <<>>
  <2>1. Judged = <<gen.committed>> \o ret
    BY <1>4, <1>6 DEF Judged
  <2> DEFINE S == {Upto(feed, k) : k \in 0 .. l}
             first == <<gen.committed>>
             all == first \o ret
  <2> HIDE DEF feed, p, c, m, l, ret
  <2>2. /\ gen.committed \in S
        /\ \A j \in 1 .. m : l - m + j \in 0 .. l
    BY <1>2, <1>3
  <2>3. ret \in [1 .. m -> S]
    BY <1>3, <2>2
  <2> HIDE DEF S
  <2>4. ret \in Seq(S) /\ Len(ret) = m /\ first \in Seq(S) /\ Len(first) = 1
    BY <1>3, <2>2, <2>3
  <2>5. /\ all \in Seq(S) /\ Len(all) = 1 + m
        /\ \A j \in 1 .. 1 + m : all[j] = IF j <= 1 THEN first[j] ELSE ret[j - 1]
    BY <2>4, ConcatProperties
  <2> HIDE DEF all
  <2>6. ASSUME NEW j \in 1 .. c + 1 PROVE all[j] = Upto(feed, p - 1 + j)
    <3>1. CASE j = 1
      <4>1. all[j] = gen.committed /\ p - 1 + j = p
        BY <1>2, <1>3, <1>6, <2>5, <3>1
      <4> QED
        BY <1>2, <4>1
    <3>2. CASE j > 1
      <4>1. all[j] = ret[j - 1] /\ j - 1 \in 1 .. m
        BY <1>2, <1>3, <1>6, <2>5, <3>2
      <4>2. l - m + (j - 1) = p - 1 + j
        BY <1>2, <1>3, <1>6
      <4>3. ASSUME NEW k \in 1 .. m PROVE ret[k] = Upto(feed, l - m + k)
        BY <1>3
      <4>4. ret[j - 1] = Upto(feed, l - m + (j - 1))
        BY <4>1, <4>3
      <4> QED
        BY <4>1, <4>2, <4>4
    <3> QED
      BY <1>2, <3>1, <3>2
  <2>7. DOMAIN all = 1 .. c + 1 /\ 1 + m = c + 1
    BY <1>2, <1>3, <1>6, <2>5
  <2>8. all = [j \in 1 .. c + 1 |-> Upto(feed, p - 1 + j)]
    BY <2>5, <2>6, <2>7
  <2> QED
    BY <1>1, <1>5, <2>1, <2>8 DEF feed, p, c, ret, all, first
<1>7. CASE gen.leading = <<>>
  <2> DEFINE base == m - (c + 1)
  <2>1. Judged = SubSeq(ret, base + 1, m)
    BY <1>7 DEF Judged
  <2> HIDE DEF feed, p, c, m, l, ret
  <2>2. base \in Nat /\ base + (c + 1) = m
    BY <1>2, <1>3, <1>7
  <2> HIDE DEF base
  <2>3. SubSeq(ret, base + 1, m) = [j \in 1 .. c + 1 |-> ret[base + j]]
    <3> DEFINE b == base + 1
               S == {ret[i] : i \in b .. m}
               part == SubSeq(ret, b, m)
    <3>1. b \in Int /\ m \in Int /\ b <= m /\ m - b + 1 = c + 1
          /\ \A j \in 1 .. c + 1 : b + j - 1 = base + j
      BY <1>2, <1>3, <2>2
    <3>2. \A i \in b .. m : ret[i] \in S
      OBVIOUS
    <3> HIDE DEF b, S
    <3>3. /\ part \in Seq(S) /\ Len(part) = c + 1
          /\ \A j \in 1 .. m - b + 1 : part[j] = ret[b + j - 1]
      BY <3>1, <3>2, SubSeqProperties
    <3> HIDE DEF part
    <3>4. \A j \in 1 .. c + 1 : part[j] = ret[base + j]
      BY <3>1, <3>3
    <3>5. DOMAIN part = 1 .. c + 1 /\ c + 1 \in Nat
      BY <1>2, <3>3
    <3>6. part = [j \in 1 .. c + 1 |-> part[j]]
      BY <3>3, <3>5
    <3> QED
      BY <3>4, <3>6 DEF b, part
  <2>4. ASSUME NEW j \in 1 .. c + 1 PROVE ret[base + j] = Upto(feed, p - 1 + j)
    <3>1. base + j \in 1 .. m /\ l - m + (base + j) = p - 1 + j
      BY <1>2, <1>3, <2>2
    <3> QED
      BY <1>3, <3>1
  <2>5. SubSeq(ret, base + 1, m) = [j \in 1 .. c + 1 |-> Upto(feed, p - 1 + j)]
    BY <2>3, <2>4
  <2> QED
    BY <1>1, <1>5, <2>1, <2>5 DEF feed, p, c
<1> QED
  BY <1>6, <1>7

LEMMA SlotHolds ==
  ASSUME MtpInv, setup.mtp.drafts # 0, turn = NoTurn
  PROVE  /\ setup \in Setups /\ cached \in Streams /\ absorbed \in Streams /\ Len(cached) \in Nat
         /\ setup.recurrent => absorbed = cached
<1>1. SlotInv
  BY DEF MtpInv
<1>2. setup \in Setups /\ cached \in Streams /\ absorbed \in Streams /\ Len(cached) \in Nat
      /\ FedBy(turn, cached) = cached
  BY <1>1, SlotIs
<1>3. setup.recurrent => StateTrusted(setup)
  BY <1>2, LoopSetup
<1> QED
  BY <1>1, <1>2, <1>3 DEF SlotInv, SlotOK

-----------------------------------------------------------------------------
(* The steps of the loop.                                                    *)

LEMMA PrimeSafe ==
  ASSUME MtpInv, UNCHANGED setup, setup.mtp.drafts # 0,
         NEW prompt \in Prompts, NEW max \in 1 .. MaxNew, Prime(prompt, max)
  PROVE  MtpInv'
<1>1. /\ SlotInv /\ LoopOK(setup, cached, turn, gen) /\ setup \in Setups
  BY SlotIs DEF MtpInv, LoopInv
<1>2. /\ gen.at = "new" /\ Forward(prompt, 0, Len(prompt)) /\ cached' = prompt /\ UNCHANGED turn
      /\ gen' = [Idle EXCEPT !.at = "draft", !.max = max, !.committed = prompt,
                         !.leading = prompt, !.pending = prompt,
                         !.head = CatchUp(<<>>, 0, prompt,
                                          [i \in DOMAIN prompt |-> Upto(prompt, i - 1)]),
                         !.boundary = Len(prompt),
                         !.ckpt = IF MtpCkpt THEN Snapshot(absorbed', Len(prompt)) ELSE @]
  BY DEF Prime
<1>3. turn = NoTurn /\ cached = <<>>
  BY <1>1, <1>2 DEF LoopOK
<1>4. /\ prompt \in Streams /\ Len(prompt) \in Nat \ {0} /\ Len(prompt) <= setup.maxPrompt
      /\ Len(prompt) > 0 /\ prompt # <<>>
  BY <1>1, PromptIs
<1>5. /\ setup.maxPrompt \in Nat /\ setup.maxNew \in Nat /\ setup.ctx \in Nat
      /\ setup.maxPrompt + setup.maxNew <= setup.ctx /\ setup.mtp.drafts \in Nat \ {0}
      /\ ~setup.ring /\ max \in Nat /\ max <= setup.maxNew
  BY <1>1, LoopSetup DEF MaxNew
<1>6. Len(prompt) + max <= setup.ctx /\ Len(prompt) <= setup.ctx
  BY <1>4, <1>5
<1>7. SlotInv'
  <2>1. Len(cached) = 0 /\ Upto(prompt, Len(cached)) = cached /\ Len(cached) <= Len(prompt)
    BY <1>3, <1>4, UptoNone
  <2> QED
    BY <1>1, <1>2, <1>3, <1>4, <1>5, <1>6, <2>1, WholeStream
<1>8. setup.recurrent => absorbed' = prompt
  <2>1. StateTrusted(setup) => absorbed' = cached'
    BY <1>2, <1>3, <1>7 DEF SlotInv, SlotOK, FedBy
  <2> QED
    BY <1>1, <1>2, <2>1, LoopSetup
<1> DEFINE head == CatchUp(<<>>, 0, prompt, [i \in DOMAIN prompt |-> Upto(prompt, i - 1)])
           ckpt == IF MtpCkpt THEN Snapshot(absorbed', Len(prompt)) ELSE Idle.ckpt
<1>9. /\ gen'.at = "draft" /\ gen'.max = max /\ gen'.out = 0 /\ gen'.committed = prompt
      /\ gen'.cand = <<>> /\ gen'.leading = prompt /\ gen'.head = head
      /\ gen'.boundary = Len(prompt) /\ gen'.ckpt = ckpt /\ GenShape(gen')
  <2> HIDE DEF head
  <2>1. gen' = [Idle EXCEPT !.at = "draft", !.max = max, !.committed = prompt,
                            !.leading = prompt, !.pending = prompt, !.head = head,
                            !.boundary = Len(prompt), !.ckpt = ckpt]
    BY <1>2 DEF head, Idle
  <2> HIDE DEF ckpt
  <2> QED
    BY <2>1 DEF Idle, GenShape
<1>10. Bounds(setup, gen')
  BY <1>4, <1>5, <1>6, <1>9 DEF Bounds, Past, Judging, Streams
<1>11. HeadOK(gen')
  <2> DEFINE hidden == [i \in DOMAIN prompt |-> Upto(prompt, i - 1)]
             none == <<>>
  <2>1. Len(none) \in Nat /\ 0 \in 0 .. Len(none) /\ head = CatchUp(none, 0, prompt, hidden)
    OBVIOUS
  <2> HIDE DEF none, head
  <2>2. /\ Len(head) \in Nat /\ Len(head) >= 0 + Len(prompt)
        /\ \A i \in 1 .. Len(prompt) : head[0 + i] = <<prompt[i], hidden[i]>>
    <3> HIDE DEF hidden
    <3> QED
      BY <1>4, <2>1, CatchUpIs
  <2>3. \A i \in 1 .. Len(prompt) : head[i] = <<prompt[i], Upto(prompt, i - 1)>>
    <3>1. \A i \in 1 .. Len(prompt) : 0 + i = i /\ hidden[i] = Upto(prompt, i - 1)
      BY <1>4, LenProperties DEF Streams
    <3> HIDE DEF hidden
    <3> QED
      BY <2>2, <3>1
  <2> QED
    BY <1>4, <1>9, <2>2, <2>3 DEF HeadOK, Past
<1>12. CkptOK(setup, gen')
  <2>1. Checkpoints(setup) => gen'.ckpt = [len |-> Len(prompt), state |-> prompt]
    BY <1>8, <1>9 DEF Checkpoints, MtpCkpt, Snapshot, Recurrent
  <2>2. Upto(prompt, Len(prompt)) = prompt /\ Len(prompt) \in 1 .. Len(prompt)
    BY <1>4, UptoAll
  <2> QED
    BY <1>9, <2>1, <2>2 DEF CkptOK, Past
<1>13. BehindOK(setup, cached', gen')
  BY <1>2, <1>4, <1>9 DEF BehindOK
<1>14. LoopOK(setup, cached', turn', gen')
  BY <1>2, <1>3, <1>9, <1>10, <1>11, <1>12, <1>13 DEF LoopOK, Cycling, Judging
<1> QED
  BY <1>7, <1>14 DEF MtpInv, LoopInv

LEMMA DraftSafe ==
  ASSUME MtpInv, UNCHANGED setup, setup.mtp.drafts # 0,
         NEW cand \in [1 .. NMaxRound -> Vocabulary], Draft(cand)
  PROVE  MtpInv'
<1> DEFINE fed == <<<<Last(gen.committed), gen.pending>>>>
                  \o [i \in 1 .. Len(cand) - 1 |-> <<cand[i], Own>>]
           head == Overwrite(gen.head, NPast, fed)
           n == NMaxRound
<1>1. /\ SlotInv /\ LoopOK(setup, cached, turn, gen) /\ setup \in Setups
  BY SlotIs DEF MtpInv, LoopInv
<1>2. /\ gen.at = "draft" /\ gen.out < gen.max
      /\ gen' = [gen EXCEPT !.at = "resume", !.cand = cand, !.head = head]
      /\ UNCHANGED <<cached, rows, absorbed, turn, exact>>
  BY DEF Draft
<1>3. /\ GenShape(gen) /\ turn = NoTurn /\ Bounds(setup, gen) /\ HeadOK(gen) /\ CkptOK(setup, gen)
      /\ BehindOK(setup, cached, gen)
  BY <1>1, <1>2 DEF LoopOK, Cycling
<1> HIDE DEF fed, n
<1>4. n \in Nat \ {0} /\ n <= gen.max - gen.out /\ n <= setup.mtp.drafts
  <2> DEFINE left == gen.max - gen.out
             d == setup.mtp.drafts
  <2>1. left \in Nat \ {0} /\ d \in Nat \ {0}
    BY <1>1, <1>2, <1>3, LoopSetup DEF Bounds
  <2>2. n = Lesser(d, left)
    BY DEF n, NMaxRound, Drafts
  <2> HIDE DEF left, d
  <2>3. n \in Nat \ {0} /\ n <= left /\ n <= d
    BY <2>1, <2>2 DEF Lesser
  <2> QED
    BY <2>3 DEF left, d
<1>5. cand \in Streams /\ Len(cand) = n /\ cand # <<>>
  <2>1. cand \in [1 .. n -> Tokens \cup {Eos}]
    BY DEF n, Vocabulary
  <2> QED
    BY <1>4, <2>1, IsASeq, LenProperties DEF Streams
<1>6. /\ gen'.at = "resume" /\ gen'.cand = cand /\ gen'.head = head /\ GenShape(gen')
      /\ gen'.committed = gen.committed /\ gen'.max = gen.max /\ gen'.out = gen.out
      /\ gen'.leading = gen.leading /\ gen'.boundary = gen.boundary /\ gen'.ckpt = gen.ckpt
  <2> HIDE DEF head
  <2> QED
    BY <1>2, <1>3 DEF GenShape
<1>7. Bounds(setup, gen')
  BY <1>3, <1>4, <1>5, <1>6 DEF Bounds, Past, Judging
<1>8. Len(fed) \in Nat
  <2> DEFINE k == Len(cand) - 1
             first == <<<<Last(gen.committed), gen.pending>>>>
             next == [i \in 1 .. k |-> <<cand[i], Own>>]
             S == {<<Last(gen.committed), gen.pending>>} \cup {<<cand[i], Own>> : i \in 1 .. k}
  <2>1. k \in Nat
    BY <1>4, <1>5
  <2> HIDE DEF k
  <2>2. first \in Seq(S) /\ next \in [1 .. k -> S]
    OBVIOUS
  <2>3. next \in Seq(S)
    <3> HIDE DEF next, S
    <3> QED
      BY <2>1, <2>2
  <2>4. fed = first \o next
    BY DEF fed, k
  <2> HIDE DEF first, next, S
  <2>5. fed \in Seq(S)
    BY <2>2, <2>3, <2>4, ConcatProperties
  <2> QED
    BY <2>5, LenProperties
<1>9. HeadOK(gen')
  <2> DEFINE p == Past(gen)
             old == gen.head
  <2>1. p \in Nat /\ Len(old) \in Nat /\ p <= Len(old) /\ NPast = p
    BY <1>3, LenProperties DEF HeadOK, Bounds, Past, NPast, Streams
  <2>2. /\ Len(head) \in Nat /\ Len(head) >= Len(old)
        /\ \A i \in 1 .. p : i <= Len(old) => head[i] = old[i]
    <3> HIDE DEF p, old
    <3> QED
      BY <1>8, <2>1, OverwriteIs DEF old
  <2> HIDE DEF head
  <2>3. p <= Len(head) /\ \A i \in 1 .. p : head[i] = old[i]
    <3> HIDE DEF p, old
    <3> QED
      BY <2>1, <2>2
  <2>4. Past(gen') = p
    BY <1>6 DEF Past
  <2> QED
    BY <1>3, <1>6, <2>2, <2>3, <2>4 DEF HeadOK
<1>10. CkptOK(setup, gen') /\ BehindOK(setup, cached', gen')
  BY <1>2, <1>3, <1>6 DEF CkptOK, BehindOK, Past
<1>11. SlotInv'
  BY <1>1, <1>2 DEF SlotInv
<1>12. LoopOK(setup, cached', turn', gen')
  BY <1>2, <1>3, <1>6, <1>7, <1>9, <1>10 DEF LoopOK, Cycling, Judging
<1> QED
  BY <1>11, <1>12 DEF MtpInv, LoopInv

(* What the trunk shares with the next feed: the committed stream, or the part of it     *)
(* that was rolled back to, or all but its newest token.                        *)
LEMMA BehindIs ==
  ASSUME setup \in Setups, setup.mtp.drafts # 0, cached \in Streams, gen.cand # <<>>,
         Bounds(setup, gen), CkptOK(setup, gen), BehindOK(setup, cached, gen)
  PROVE  LET n == SharedPrefix(Feeding(gen))
         IN  /\ n \in 0 .. Len(cached) /\ n < Len(Feeding(gen))
             /\ Upto(cached, n) = Upto(Feeding(gen), n)
             /\ IF gen.leading # <<>> THEN n = Past(gen) /\ Len(cached) = n
                ELSE n < Past(gen) /\ (IF Checkpoints(setup) THEN n = gen.ckpt.len /\ Len(cached) = n
                                       ELSE n = Past(gen) - 1)
<1> DEFINE feed == Feeding(gen)
           n == SharedPrefix(feed)
           p == Past(gen)
           l == Len(cached)
           c == Len(gen.cand)
           com == gen.committed
<1>1. /\ com \in Streams /\ p = Len(com) /\ p \in Nat \ {0} /\ feed \in Streams
      /\ Len(feed) = p + c /\ c \in Nat \ {0} /\ l \in Nat
      /\ Upto(feed, p) = com
      /\ \A k \in 0 .. p : Upto(feed, k) = Upto(com, k)
      /\ \A i \in 1 .. p : feed[i] = com[i]
  <2>1. c # 0
    BY LoopIs
  <2> QED
    BY <2>1, LoopIs, LenProperties DEF Streams
<1>2. /\ n \in 0 .. l /\ n <= Len(feed)
      /\ \A i \in 1 .. n : cached[i] = feed[i]
      /\ n < l /\ n < Len(feed) => cached[n + 1] # feed[n + 1]
  BY <1>1, CommonPrefix DEF SharedPrefix
<1> HIDE DEF feed, n, p, l, c, com
<1>3. Upto(cached, n) = Upto(feed, n)
  BY <1>1, <1>2, UptoEqual DEF l
<1>4. ASSUME l \in 0 .. p, cached = Upto(com, l)
      PROVE  n = l
  <2>1. cached = Upto(feed, l) /\ l <= Len(feed)
    BY <1>1, <1>4
  <2> QED
    BY <1>1, <2>1, SharedIs DEF n, l
<1>5. CASE gen.leading # <<>>
  <2>1. cached = com
    BY <1>5 DEF BehindOK, com
  <2>2. l = p /\ cached = Upto(com, l)
    BY <1>1, <2>1, UptoAll DEF l
  <2>3. n = l
    BY <1>1, <1>4, <2>2
  <2> QED
    BY <1>1, <1>2, <1>3, <1>5, <2>2, <2>3 DEF n, l, p, feed
<1>6. CASE gen.leading = <<>> /\ Checkpoints(setup)
  <2> DEFINE k == gen.ckpt.len
  <2>1. cached = Upto(com, k) /\ k \in 1 .. p /\ k < p
    BY <1>6 DEF BehindOK, CkptOK, com, p
  <2> HIDE DEF k
  <2>2. l = k
    BY <1>1, <2>1, UptoIs DEF l
  <2>3. n = l
    BY <1>1, <1>4, <2>1, <2>2
  <2>4. n = k /\ l = n /\ n < p /\ n < Len(feed)
    BY <1>1, <2>1, <2>2, <2>3
  <2> QED
    BY <1>2, <1>3, <1>6, <2>4 DEF n, l, p, feed, k
<1>7. CASE gen.leading = <<>> /\ ~Checkpoints(setup)
  <2>1. /\ p - 1 <= l /\ \A i \in 1 .. p - 1 : cached[i] = com[i]
        /\ l = p - 1 \/ cached[p] # com[p]
    BY <1>7 DEF BehindOK, com, p, l
  <2>2. ~(n < p - 1)
    <3>1. SUFFICES ASSUME n < p - 1 PROVE FALSE
      OBVIOUS
    <3>2. n + 1 \in 1 .. p - 1 /\ n < l /\ n < Len(feed) /\ n + 1 \in 1 .. p
      BY <1>1, <1>2, <2>1, <3>1
    <3> QED
      BY <1>1, <1>2, <2>1, <3>2
  <2>3. ~(n >= p)
    <3>1. SUFFICES ASSUME n >= p PROVE FALSE
      OBVIOUS
    <3>2. p \in 1 .. n /\ p \in 1 .. p /\ l # p - 1
      BY <1>1, <1>2, <3>1
    <3> QED
      BY <1>1, <1>2, <2>1, <3>2
  <2>4. n = p - 1 /\ n < p /\ n < Len(feed)
    BY <1>1, <1>2, <2>2, <2>3
  <2> QED
    BY <1>2, <1>3, <1>7, <2>4 DEF n, l, p, feed
<1> QED
  BY <1>5, <1>6, <1>7

LEMMA ResumeFeedSafe ==
  ASSUME MtpInv, UNCHANGED setup, setup.mtp.drafts # 0, ResumeFeed
  PROVE  MtpInv'
<1> DEFINE feed == Feeding(gen)
           n == SharedPrefix(feed)
           p == Past(gen)
           c == Len(gen.cand)
<1>1. /\ SlotInv /\ LoopOK(setup, cached, turn, gen) /\ setup \in Setups
  BY SlotIs DEF MtpInv, LoopInv
<1>2. /\ gen.at = "resume" /\ Resume(feed) /\ gen' = [gen EXCEPT !.at = "verify"]
      /\ UNCHANGED <<rows, turn, exact>>
  BY DEF ResumeFeed, Feed, Feeding
<1>3. /\ GenShape(gen) /\ turn = NoTurn /\ Bounds(setup, gen) /\ HeadOK(gen) /\ CkptOK(setup, gen)
      /\ BehindOK(setup, cached, gen) /\ gen.cand # <<>>
  BY <1>1, <1>2 DEF LoopOK, Cycling, Judging, Bounds
<1>4. /\ cached \in Streams /\ absorbed \in Streams /\ Len(cached) \in Nat
      /\ setup.recurrent => absorbed = cached
  BY <1>3, SlotHolds
<1>5. /\ feed \in Streams /\ p \in Nat \ {0} /\ c \in Nat \ {0} /\ Len(feed) = p + c
      /\ c <= setup.mtp.drafts
  <2>1. c # 0
    BY <1>1, <1>3, LoopIs
  <2> QED
    BY <1>1, <1>3, <2>1, LoopIs DEF Bounds
<1>6. /\ n \in 0 .. Len(cached) /\ n < Len(feed) /\ Upto(cached, n) = Upto(feed, n)
      /\ IF gen.leading # <<>> THEN n = p /\ Len(cached) = n
         ELSE n < p /\ (IF Checkpoints(setup) THEN n = gen.ckpt.len /\ Len(cached) = n
                        ELSE n = p - 1)
  BY <1>1, <1>3, <1>4, BehindIs
<1>7. gen'.at = "verify" /\ GenShape(gen')
      /\ \A f \in {"max", "out", "committed", "cand", "returned", "leading", "pending", "head",
                   "boundary", "ckpt"} : gen'[f] = gen[f]
  BY <1>2, <1>3 DEF GenShape
<1>8. /\ gen'.max = gen.max /\ gen'.out = gen.out /\ gen'.committed = gen.committed
      /\ gen'.cand = gen.cand /\ gen'.leading = gen.leading /\ gen'.head = gen.head
      /\ gen'.boundary = gen.boundary /\ gen'.ckpt = gen.ckpt
  BY <1>7
<1>9. /\ setup.mtp.drafts \in Nat /\ setup.mtp.maxM \in Nat /\ setup.mtp.drafts < setup.mtp.maxM
      /\ ~setup.ring /\ setup.recurrent \in BOOLEAN /\ setup.mtp.ckpt \in BOOLEAN
      /\ setup.recurrent <=> StateTrusted(setup)
  BY <1>1, LoopSetup
<1> HIDE DEF feed, n, p, c
(* What is left of the slot: all of the shared prefix, or nothing of it.              *)
<1>10. PICK k \in {0, n} :
         /\ cached' = Upto(cached, k) /\ absorbed' \in Streams
         /\ setup.recurrent => absorbed' = cached'
         /\ gen.leading # <<>> \/ Checkpoints(setup) \/ ~setup.recurrent => k = n
  <2>1. CASE setup.recurrent /\ Resumes(feed)
    <3>1. cached' = cached /\ absorbed' = absorbed /\ n = Len(cached)
      BY <1>2, <2>1 DEF Resume, Recurrent, Resumes, n
    <3>2. Upto(cached, n) = cached
      BY <1>4, <3>1, UptoAll
    <3> QED
      BY <1>4, <3>1, <3>2
  <2>2. CASE setup.recurrent /\ ~Resumes(feed)
    <3>1. cached' = <<>> /\ absorbed' = <<>>
      BY <1>2, <2>2 DEF Resume, Recurrent
    <3>2. Upto(cached, 0) = <<>> /\ <<>> \in Streams
      BY <1>4, UptoNone DEF Streams
    <3>3. n # Len(cached)
      BY <1>4, <1>5, <1>6, <2>2 DEF Resumes, n
    <3>4. gen.leading = <<>> /\ ~Checkpoints(setup)
      BY <1>6, <3>3
    <3> QED
      BY <2>2, <3>1, <3>2, <3>4
  <2>3. CASE ~setup.recurrent
    <3>1. cached' = Upto(cached, DenseStart(feed)) /\ absorbed' = absorbed
      BY <1>2, <2>3 DEF Resume, Recurrent
    <3>2. DenseStart(feed) = Lesser(n, Len(feed) - 1)
      <4>1. Len(feed) > 0
        BY <1>5
      <4> QED
        BY <1>1, <1>4, <1>5, <1>9, <4>1, DenseStartIs DEF n
    <3>3. DenseStart(feed) = n
      BY <1>4, <1>5, <1>6, <3>2 DEF Lesser
    <3> QED
      BY <1>4, <2>3, <3>1, <3>3
  <2> QED
    BY <1>9, <2>1, <2>2, <2>3
<1>11. k \in 0 .. Len(cached) /\ k \in 0 .. n /\ n \in 0 .. Len(feed)
  BY <1>4, <1>5, <1>6
<1>12. SlotInv'
  BY <1>1, <1>2, <1>3, <1>9, <1>10, <1>11, Rewound
<1>13. Len(cached') = k /\ cached' = Upto(feed, k)
  <2>1. Len(cached') = k
    BY <1>4, <1>10, <1>11, UptoIs
  <2>2. Upto(Upto(cached, n), k) = Upto(cached, k) /\ Upto(Upto(feed, n), k) = Upto(feed, k)
    BY <1>4, <1>5, <1>6, <1>11, UptoUpto
  <2> QED
    BY <1>6, <1>10, <2>1, <2>2
<1>14. ResumedOK(setup, cached', gen')
  <2>1. Feeding(gen') = feed /\ Past(gen') = p
    BY <1>8 DEF Feeding, Past, feed, p
  <2>2. IF gen.leading # <<>> THEN k = p ELSE k < p
    BY <1>4, <1>5, <1>6, <1>10
  <2> DEFINE d == setup.mtp.drafts
             x == setup.mtp.maxM
  <2>3. d \in Nat /\ x \in Nat /\ d < x /\ c <= d
    BY <1>5, <1>9
  <2>4. ASSUME Reprimes(setup) PROVE Len(feed) - k <= x
    <3>1. CASE gen.leading # <<>>
      <4> HIDE DEF d, x
      <4> QED
        BY <1>5, <2>2, <2>3, <3>1
    <3>2. CASE gen.leading = <<>> /\ Checkpoints(setup)
      <4>1. k = gen.ckpt.len /\ p - gen.ckpt.len + d <= x
        BY <1>3, <1>6, <1>10, <2>4, <3>2 DEF BehindOK, p
      <4>2. p - k + d <= x
        BY <4>1
      <4>3. k \in Nat
        BY <1>11
      <4> HIDE DEF d, x
      <4> QED
        BY <1>5, <2>3, <4>2, <4>3
    <3>3. CASE gen.leading = <<>> /\ ~Checkpoints(setup)
      <4>1. ~setup.recurrent
        BY <1>9, <2>4, <3>3 DEF Reprimes, Checkpoints
      <4>2. k = p - 1
        BY <1>6, <1>10, <3>3, <4>1
      <4> HIDE DEF d, x
      <4> QED
        BY <1>5, <2>3, <4>2
    <3> QED
      BY <3>1, <3>2, <3>3
  <2> QED
    BY <1>8, <1>13, <2>1, <2>2, <2>4 DEF ResumedOK
<1>15. Bounds(setup, gen') /\ HeadOK(gen') /\ CkptOK(setup, gen')
  BY <1>2, <1>3, <1>7, <1>8 DEF Bounds, HeadOK, CkptOK, Past, Judging
<1>16. LoopOK(setup, cached', turn', gen')
  BY <1>2, <1>3, <1>7, <1>14, <1>15 DEF LoopOK, Cycling, Judging
<1> QED
  BY <1>12, <1>16 DEF MtpInv, LoopInv

LEMMA VerifySafe ==
  ASSUME MtpInv, UNCHANGED setup, setup.mtp.drafts # 0, Verify
  PROVE  MtpInv'
<1> DEFINE feed == Feeding(gen)
           ret == RowsOf(feed)
           p == Past(gen)
           c == Len(gen.cand)
           l == Len(cached)
           m == Len(feed) - l
<1>1. /\ SlotInv /\ LoopOK(setup, cached, turn, gen) /\ setup \in Setups
  BY SlotIs DEF MtpInv, LoopInv
<1>2. /\ gen.at = "verify" /\ Forward(feed, l, Len(feed)) /\ cached' = feed
      /\ gen' = [gen EXCEPT !.at = "judge", !.returned = ret] /\ UNCHANGED turn
  BY DEF Verify, RunVerify, Feed, Feeding
<1>3. /\ GenShape(gen) /\ turn = NoTurn /\ Bounds(setup, gen) /\ HeadOK(gen) /\ CkptOK(setup, gen)
      /\ ResumedOK(setup, cached, gen) /\ gen.cand # <<>>
  BY <1>1, <1>2 DEF LoopOK, Cycling, Judging, Bounds
<1>4. cached \in Streams /\ l \in Nat
  BY <1>3, SlotHolds
<1>5. /\ feed \in Streams /\ p \in Nat \ {0} /\ c \in Nat \ {0} /\ Len(feed) = p + c
      /\ Len(feed) <= setup.ctx
  <2>1. c # 0
    BY <1>1, <1>3, LoopIs
  <2> QED
    BY <1>1, <1>3, <2>1, LoopIs
<1>6. /\ cached = Upto(feed, l) /\ (IF gen.leading # <<>> THEN l = p ELSE l < p)
      /\ Reprimes(setup) => m <= setup.mtp.maxM
  BY <1>3 DEF ResumedOK
<1>7. l <= Len(feed) /\ m \in 0 .. Len(feed)
      /\ IF gen.leading # <<>> THEN m = c ELSE m > c
  <2> HIDE DEF feed, p, c, l
  <2> QED
    BY <1>4, <1>5, <1>6
<1>8. SlotInv'
  <2>1. ~setup.ring /\ UNCHANGED <<setup, turn>>
    BY <1>1, <1>2, LoopSetup
  <2>2. Upto(feed, Len(cached)) = cached /\ Len(cached) <= Len(feed)
    BY <1>6, <1>7
  <2> HIDE DEF feed
  <2> QED
    BY <1>1, <1>2, <1>3, <1>5, <2>1, <2>2, WholeStream
<1>9. gen'.at = "judge" /\ gen'.returned = ret /\ GenShape(gen')
      /\ gen'.max = gen.max /\ gen'.out = gen.out /\ gen'.committed = gen.committed
      /\ gen'.cand = gen.cand /\ gen'.leading = gen.leading /\ gen'.head = gen.head
      /\ gen'.boundary = gen.boundary /\ gen'.ckpt = gen.ckpt
  <2> HIDE DEF ret
  <2> QED
    BY <1>2, <1>3 DEF GenShape
<1>10. ret = [j \in 1 .. m |-> Upto(feed, Len(feed) - m + j)] /\ Len(ret) = m
  <2>1. ret = [j \in 1 .. m |-> Upto(feed, l + j)]
    BY DEF RowsOf
  <2> HIDE DEF feed, l, ret
  <2>2. Len(feed) \in Nat
    BY <1>5
  <2>3. m \in Nat /\ \A j \in 1 .. m : Len(feed) - m + j = l + j
    BY <1>4, <1>7, <2>2
  <2> HIDE DEF m
  <2> QED
    BY <2>1, <2>3 DEF ret
<1>11. ReturnedOK(setup, cached', gen')
  <2>1. Feeding(gen') = feed /\ Past(gen') = p
    BY <1>9 DEF Feeding, Past
  <2> HIDE DEF feed, m, ret
  <2> QED
    BY <1>2, <1>6, <1>7, <1>9, <1>10, <2>1 DEF ReturnedOK
<1>12. Bounds(setup, gen') /\ HeadOK(gen') /\ CkptOK(setup, gen')
  BY <1>2, <1>3, <1>9 DEF Bounds, HeadOK, CkptOK, Past, Judging
<1>13. LoopOK(setup, cached', turn', gen')
  BY <1>2, <1>3, <1>9, <1>11, <1>12 DEF LoopOK, Cycling, Judging
<1> QED
  BY <1>8, <1>13 DEF MtpInv, LoopInv

(* What a verify accepts, and the stream that is committed.                     *)
LEMMA TokensIs ==
  ASSUME NEW cand \in Streams, NEW n \in 0 .. Len(cand), NEW next \in Vocabulary
  PROVE  LET tokens == SubSeq(cand, 1, n) \o <<next>>
         IN  /\ tokens \in Streams /\ Len(tokens) = n + 1
             /\ \A i \in 1 .. n : tokens[i] = cand[i]
             /\ tokens[n + 1] = next
<1> DEFINE s == Upto(cand, n)
           t == <<next>>
           tokens == s \o t
<1>1. s \in Streams /\ Len(s) = n /\ \A i \in 1 .. n : s[i] = cand[i]
  BY UptoIs
<1>2. t \in Streams /\ Len(t) = 1 /\ t[1] = next
  BY DEF Vocabulary, Streams
<1>3. n \in Nat
  BY LenProperties DEF Streams
<1> HIDE DEF s, t
<1>4. tokens \in Streams /\ Len(tokens) = n + 1
      /\ \A i \in 1 .. n + 1 : tokens[i] = IF i <= n THEN s[i] ELSE t[i - n]
  <2>1. /\ tokens \in Streams /\ Len(tokens) = Len(s) + Len(t)
        /\ \A i \in 1 .. Len(s) + Len(t) : tokens[i] = IF i <= Len(s) THEN s[i] ELSE t[i - Len(s)]
    BY <1>1, <1>2, ConcatIs
  <2> HIDE DEF tokens
  <2> QED
    BY <1>1, <1>2, <2>1
<1> HIDE DEF tokens
<1>5. \A i \in 1 .. n : tokens[i] = cand[i]
  BY <1>1, <1>3, <1>4
<1>6. tokens[n + 1] = next
  BY <1>2, <1>3, <1>4
<1> QED
  BY <1>4, <1>5, <1>6 DEF tokens, s, t, Upto

LEMMA CommittedIs ==
  ASSUME NEW tokens \in Streams, Len(tokens) > 0, ~Stops(tokens), gen.max \in Nat, gen.out \in Nat
  PROVE  Committed(tokens) = tokens /\ Len(tokens) < gen.max - gen.out
<1> DEFINE room == gen.max - gen.out
<1>1. room \in Int /\ Len(tokens) \in Nat /\ DOMAIN tokens = 1 .. Len(tokens)
  BY LenProperties DEF Streams
<1>2. \A i \in DOMAIN tokens : tokens[i] # Eos /\ ~(i >= room)
  BY DEF Stops
<1>3. Committed(tokens) = tokens
  BY <1>2 DEF Committed
<1> HIDE DEF room
<1>4. Len(tokens) < room
  <2>1. Len(tokens) \in DOMAIN tokens
    BY <1>1
  <2> QED
    BY <1>1, <1>2, <2>1
<1> QED
  BY <1>3, <1>4 DEF room

LEMMA CommitIs ==
  ASSUME setup \in Setups, setup.mtp.drafts # 0, Bounds(setup, gen),
         NEW n \in 0 .. Len(gen.cand), NEW tokens \in Streams, Len(tokens) = n + 1,
         \A i \in 1 .. n : tokens[i] = gen.cand[i]
  PROVE  LET all == gen.committed \o tokens
         IN  /\ all \in Streams /\ Len(all) = Past(gen) + (n + 1)
             /\ \A i \in 1 .. Past(gen) + n : all[i] = Feeding(gen)[i]
             /\ \A i \in 1 .. n + 1 : all[Past(gen) + i] = tokens[i]
             /\ \A k \in 0 .. Past(gen) + n : Upto(all, k) = Upto(Feeding(gen), k)
<1> DEFINE com == gen.committed
           p == Past(gen)
           c == Len(gen.cand)
           feed == Feeding(gen)
           all == com \o tokens
<1>1. /\ com \in Streams /\ p = Len(com) /\ p \in Nat \ {0} /\ feed \in Streams
      /\ Len(feed) = p + c /\ c \in Nat
      /\ \A i \in 1 .. p : feed[i] = com[i]
      /\ \A i \in 1 .. c : feed[p + i] = gen.cand[i]
  BY LoopIs
<1> HIDE DEF com, p, c, feed
<1>2. /\ all \in Streams /\ Len(all) = p + (n + 1)
      /\ \A i \in 1 .. p + (n + 1) : all[i] = IF i <= p THEN com[i] ELSE tokens[i - p]
  <2>1. /\ all \in Streams /\ Len(all) = Len(com) + Len(tokens)
        /\ \A i \in 1 .. Len(com) + Len(tokens) :
             all[i] = IF i <= Len(com) THEN com[i] ELSE tokens[i - Len(com)]
    BY <1>1, ConcatIs
  <2> HIDE DEF all
  <2> QED
    BY <1>1, <2>1
<1> HIDE DEF all
<1>3. n \in Nat /\ n <= c
  BY <1>1 DEF c
<1>4. ASSUME NEW i \in 1 .. p + n PROVE all[i] = feed[i]
  <2>1. CASE i <= p
    BY <1>1, <1>2, <1>3, <2>1
  <2>2. CASE i > p
    <3>1. i - p \in 1 .. n /\ i - p \in 1 .. c /\ p + (i - p) = i /\ i \in 1 .. p + (n + 1)
      BY <1>1, <1>3, <2>2
    <3>2. all[i] = tokens[i - p] /\ tokens[i - p] = gen.cand[i - p]
      BY <1>1, <1>2, <2>2, <3>1
    <3>3. feed[p + (i - p)] = gen.cand[i - p]
      BY <1>1, <3>1
    <3> QED
      BY <3>1, <3>2, <3>3
  <2> QED
    BY <1>1, <2>1, <2>2
<1>5. ASSUME NEW i \in 1 .. n + 1 PROVE all[p + i] = tokens[i]
  <2>1. p + i \in 1 .. p + (n + 1) /\ ~(p + i <= p) /\ (p + i) - p = i
    BY <1>1, <1>3
  <2> QED
    BY <1>2, <2>1
<1>6. ASSUME NEW k \in 0 .. p + n PROVE Upto(all, k) = Upto(feed, k)
  <2>1. k \in 0 .. Len(all) /\ k <= Len(feed) /\ \A i \in 1 .. k : i \in 1 .. p + n
    BY <1>1, <1>2, <1>3
  <2> QED
    BY <1>1, <1>2, <1>4, <2>1, UptoEqual
<1> QED
  BY <1>2, <1>4, <1>5, <1>6 DEF com, p, feed, all

(* The head's rows follow the committed stream.                                *)
LEMMA CaughtUp ==
  ASSUME setup \in Setups, setup.mtp.drafts # 0, Bounds(setup, gen), gen.cand # <<>>,
         HeadOK(gen), ReturnedOK(setup, cached, gen),
         NEW n \in 0 .. Len(gen.cand), NEW tokens \in Streams, Len(tokens) = n + 1,
         \A i \in 1 .. n : tokens[i] = gen.cand[i]
  PROVE  LET all == gen.committed \o tokens
             head == CatchUp(gen.head, NPast, tokens, SubSeq(Judged, 1, n + 1))
         IN  /\ Len(head) \in Nat /\ Len(all) <= Len(head)
             /\ \A i \in 1 .. Len(all) : head[i] = <<all[i], Upto(all, i - 1)>>
<1> DEFINE com == gen.committed
           p == Past(gen)
           c == Len(gen.cand)
           feed == Feeding(gen)
           all == com \o tokens
           old == gen.head
           hidden == SubSeq(Judged, 1, n + 1)
           head == CatchUp(old, NPast, tokens, hidden)
<1>1. /\ com \in Streams /\ p = Len(com) /\ p \in Nat \ {0} /\ feed \in Streams
      /\ Len(feed) = p + c /\ c \in Nat /\ NPast = p
      /\ \A i \in 1 .. p : feed[i] = com[i]
      /\ \A k \in 0 .. p : Upto(feed, k) = Upto(com, k)
  BY LoopIs DEF NPast, Past
<1>2. /\ all \in Streams /\ Len(all) = p + (n + 1)
      /\ \A i \in 1 .. p + n : all[i] = feed[i]
      /\ \A i \in 1 .. n + 1 : all[p + i] = tokens[i]
      /\ \A k \in 0 .. p + n : Upto(all, k) = Upto(feed, k)
  BY CommitIs
<1>3. Judged = [j \in 1 .. c + 1 |-> Upto(feed, p - 1 + j)]
  BY <1>1, JudgedIs DEF Feed, Feeding
<1>4. Len(old) \in Nat /\ p <= Len(old) /\ \A i \in 1 .. p : old[i] = <<com[i], Upto(com, i - 1)>>
  BY DEF HeadOK
<1>5. n \in Nat /\ n <= c /\ p \in Nat \ {0} /\ c \in Nat
  BY <1>1
<1> HIDE DEF com, p, c, feed, all, old
<1>6. ASSUME NEW i \in 1 .. n + 1 PROVE hidden[i] = Upto(feed, p - 1 + i)
  <2> DEFINE S == {Judged[j] : j \in 1 .. n + 1}
             ja == Judged
  <2>1. \A j \in 1 .. n + 1 : ja[j] \in S
    OBVIOUS
  <2>2. 1 \in Int /\ n + 1 \in Int /\ 1 <= n + 1 /\ (n + 1) - 1 + 1 = n + 1
        /\ 1 + i - 1 = i /\ i \in 1 .. c + 1
    BY <1>1, <1>5
  <2> HIDE DEF S, ja
  <2>3. \A j \in 1 .. (n + 1) - 1 + 1 : SubSeq(ja, 1, n + 1)[j] = ja[1 + j - 1]
    BY <2>1, <2>2, SubSeqProperties
  <2>4. hidden[i] = ja[i]
    BY <2>2, <2>3 DEF ja
  <2> QED
    BY <1>3, <2>2, <2>4 DEF ja
<1> HIDE DEF hidden
<1>7. /\ Len(head) \in Nat /\ Len(head) >= p + (n + 1)
      /\ \A i \in 1 .. p : head[i] = old[i]
      /\ \A i \in 1 .. n + 1 : head[p + i] = <<tokens[i], hidden[i]>>
  <2>1. NPast \in 0 .. Len(old) /\ Len(tokens) \in Nat /\ Len(old) \in Nat
    BY <1>1, <1>4, <1>5
  <2>2. /\ Len(head) \in Nat /\ Len(head) >= NPast + Len(tokens)
        /\ \A i \in 1 .. NPast : head[i] = old[i]
        /\ \A i \in 1 .. Len(tokens) : head[NPast + i] = <<tokens[i], hidden[i]>>
    BY <2>1, CatchUpIs
  <2> HIDE DEF head
  <2>3. NPast = p
    BY <1>1
  <2> QED
    BY <2>2, <2>3
<1> HIDE DEF head
<1>8. ASSUME NEW i \in 1 .. p + (n + 1) PROVE head[i] = <<all[i], Upto(all, i - 1)>>
  <2>1. CASE i <= p
    <3>1. i \in 1 .. p /\ i \in 1 .. p + n /\ i - 1 \in 0 .. p /\ i - 1 \in 0 .. p + n
      BY <1>5, <2>1
    <3>2. head[i] = <<com[i], Upto(com, i - 1)>>
      BY <1>4, <1>7, <3>1
    <3>3. all[i] = feed[i] /\ feed[i] = com[i]
      BY <1>1, <1>2, <3>1
    <3>4. Upto(all, i - 1) = Upto(feed, i - 1) /\ Upto(feed, i - 1) = Upto(com, i - 1)
      BY <1>1, <1>2, <3>1
    <3> QED
      BY <3>2, <3>3, <3>4
  <2>2. CASE i > p
    <3>1. /\ i - p \in 1 .. n + 1 /\ p + (i - p) = i /\ p - 1 + (i - p) = i - 1
          /\ i - 1 \in 0 .. p + n
      BY <1>5, <2>2
    <3>2. head[p + (i - p)] = <<tokens[i - p], hidden[i - p]>>
      BY <1>7, <3>1
    <3>3. all[p + (i - p)] = tokens[i - p] /\ Upto(all, i - 1) = Upto(feed, i - 1)
      BY <1>2, <3>1
    <3>4. hidden[i - p] = Upto(feed, i - 1)
      BY <1>6, <3>1
    <3> QED
      BY <3>1, <3>2, <3>3, <3>4
  <2> QED
    BY <1>1, <2>1, <2>2
<1>9. Len(all) <= Len(head) /\ \A i \in 1 .. Len(all) : head[i] = <<all[i], Upto(all, i - 1)>>
  BY <1>1, <1>2, <1>5, <1>7, <1>8
<1> QED
  BY <1>7, <1>9 DEF all, com, head, old, hidden

(* A rejected draft takes a recurrent slot back to its checkpoint.               *)
LEMMA RolledBack ==
  ASSUME MtpInv, UNCHANGED <<setup, rows, turn, exact>>, setup.mtp.drafts # 0, turn = NoTurn,
         Bounds(setup, gen), CkptOK(setup, gen), cached = Feeding(gen),
         NEW full \in BOOLEAN, Rollback(full)
  PROVE  /\ SlotInv'
         /\ IF Checkpoints(setup) /\ ~full
              THEN cached' = Upto(gen.committed, gen.ckpt.len)
              ELSE cached' = Feeding(gen) /\ UNCHANGED absorbed
<1> DEFINE feed == Feeding(gen)
           k == gen.ckpt.len
           p == Past(gen)
<1>1. /\ SlotInv /\ setup \in Setups /\ cached \in Streams /\ absorbed \in Streams
      /\ setup.recurrent => absorbed = cached
  BY SlotHolds DEF MtpInv
<1>2. /\ p \in Nat /\ feed \in Streams /\ Len(feed) \in Nat /\ p <= Len(feed)
      /\ \A i \in 0 .. p : Upto(feed, i) = Upto(gen.committed, i)
  <2>1. p \in Nat /\ feed \in Streams /\ Len(feed) = p + Len(gen.cand) /\ Len(gen.cand) \in Nat
        /\ \A i \in 0 .. p : Upto(feed, i) = Upto(gen.committed, i)
    BY <1>1, LoopIs
  <2> HIDE DEF p, feed
  <2> QED
    BY <2>1
<1>3. ~setup.ring /\ (setup.recurrent <=> StateTrusted(setup))
  BY <1>1, LoopSetup
<1>4. CASE Checkpoints(setup) /\ ~full
  <2>1. absorbed' = gen.ckpt.state /\ cached' = Upto(cached, k)
    BY <1>4 DEF Rollback, Checkpoints, MtpCkpt, Recurrent
  <2>2. k \in 1 .. p /\ gen.ckpt.state = Upto(gen.committed, k)
    BY <1>4 DEF CkptOK
  <2> HIDE DEF feed, k, p
  <2>3. k \in 0 .. p /\ k \in 0 .. Len(cached)
    BY <1>2, <2>2 DEF feed
  <2>4. cached' = Upto(gen.committed, k) /\ absorbed' = cached' /\ cached' \in Streams
    BY <1>1, <1>2, <2>1, <2>2, <2>3, UptoIs DEF feed
  <2>5. SlotInv'
    BY <1>1, <1>3, <2>1, <2>3, <2>4, Rewound
  <2> QED
    BY <1>4, <2>4, <2>5 DEF k
<1>5. CASE ~(Checkpoints(setup) /\ ~full)
  <2>1. UNCHANGED <<absorbed, cached>>
    BY <1>5 DEF Rollback, Checkpoints, MtpCkpt, Recurrent
  <2>2. SlotInv'
    BY <1>1, <2>1 DEF SlotInv
  <2> QED
    BY <1>5, <2>1, <2>2
<1> QED
  BY <1>4, <1>5

LEMMA JudgeSafe ==
  ASSUME MtpInv, UNCHANGED setup, setup.mtp.drafts # 0,
         NEW n \in 0 .. Drafts, NEW next \in Vocabulary, Judge(n, next)
  PROVE  MtpInv'
<1> DEFINE feed == Feeding(gen)
           p == Past(gen)
           c == Len(gen.cand)
           cand == gen.cand
           full == n = c
           tokens == SubSeq(cand, 1, n) \o <<next>>
           committed == gen.committed \o Committed(tokens)
           restored == MtpCkpt /\ ~full
           boundary == IF MtpCkpt /\ full THEN Len(Feed) ELSE gen.boundary
           head == CatchUp(gen.head, NPast, tokens, SubSeq(Judged, 1, n + 1))
           ckpt == IF MtpCkpt /\ full THEN Snapshot(absorbed, Len(cached)) ELSE gen.ckpt
           at == IF Stops(tokens) THEN "done"
                 ELSE IF NeedsReprime(restored, committed, boundary) THEN "reprime" ELSE "draft"
           out == gen.out + Len(Committed(tokens))
<1>1. /\ SlotInv /\ LoopOK(setup, cached, turn, gen) /\ setup \in Setups
  BY SlotIs DEF MtpInv, LoopInv
<1>2. /\ gen.at = "judge" /\ n <= c /\ (~full => next # cand[n + 1]) /\ Rollback(full)
      /\ gen' = [gen EXCEPT !.at = at, !.committed = committed, !.out = out, !.cand = <<>>,
                            !.returned = <<>>, !.leading = <<>>, !.head = head,
                            !.pending = Judged[n + 1], !.boundary = boundary, !.ckpt = ckpt]
      /\ UNCHANGED <<rows, turn, exact>>
  BY DEF Judge
<1>3. /\ GenShape(gen) /\ turn = NoTurn /\ Bounds(setup, gen) /\ HeadOK(gen) /\ CkptOK(setup, gen)
      /\ ReturnedOK(setup, cached, gen) /\ cand # <<>> /\ cached = feed
  BY <1>1, <1>2 DEF LoopOK, Cycling, Judging, Bounds, ReturnedOK
<1> HIDE DEF feed, p, c, cand, tokens, full
<1>4. /\ cand \in Streams /\ p \in Nat \ {0} /\ c \in Nat /\ c = Len(cand) /\ n \in Nat
      /\ n \in 0 .. Len(cand) /\ feed \in Streams /\ Len(feed) = p + c /\ Len(Feed) = p + c
      /\ gen.max \in Nat /\ gen.out \in Nat /\ gen.out <= gen.max
      /\ \A i \in 1 .. c : feed[p + i] = cand[i]
      /\ \A i \in 0 .. p : Upto(feed, i) = Upto(gen.committed, i)
  <2>1. /\ cand \in Streams /\ p \in Nat \ {0} /\ c \in Nat /\ c = Len(cand)
        /\ feed \in Streams /\ Len(feed) = p + c
        /\ \A i \in 1 .. c : feed[p + i] = cand[i]
        /\ \A i \in 0 .. p : Upto(feed, i) = Upto(gen.committed, i)
    BY <1>1, <1>3, LoopIs DEF p, c, cand, feed
  <2>2. n \in Nat /\ n <= c
    BY <1>1, <1>2, LoopSetup DEF Drafts
  <2>3. n \in 0 .. Len(cand)
    BY <2>1, <2>2
  <2>4. gen.max \in Nat /\ gen.out \in Nat /\ gen.out <= gen.max
    BY <1>3 DEF Bounds
  <2>5. Feed = feed
    BY DEF Feed, Feeding, feed
  <2> QED
    BY <2>1, <2>2, <2>3, <2>4, <2>5
<1>5. /\ tokens \in Streams /\ Len(tokens) = n + 1 /\ Len(tokens) > 0
      /\ \A i \in 1 .. n : tokens[i] = cand[i]
      /\ tokens[n + 1] = next
  <2>1. /\ tokens \in Streams /\ Len(tokens) = n + 1
        /\ \A i \in 1 .. n : tokens[i] = cand[i]
        /\ tokens[n + 1] = next
    BY <1>4, TokensIs DEF tokens
  <2> QED
    BY <1>4, <2>1
<1>6. /\ SlotInv'
      /\ IF Checkpoints(setup) /\ ~full THEN cached' = Upto(gen.committed, gen.ckpt.len)
         ELSE cached' = feed /\ UNCHANGED absorbed
  <2>1. full \in BOOLEAN
    BY DEF full
  <2> QED
    BY <1>2, <1>3, <2>1, RolledBack DEF feed
<1> HIDE DEF committed, restored, boundary, head, ckpt, at, out
<1>7. /\ gen'.at = at /\ GenShape(gen') /\ gen'.max = gen.max /\ gen'.out = out
      /\ gen'.committed = committed /\ gen'.cand = <<>> /\ gen'.leading = <<>> /\ gen'.head = head
      /\ gen'.boundary = boundary /\ gen'.ckpt = ckpt
  <2> DEFINE hidden == Judged[n + 1]
             none == <<>>
  <2>1. gen' = [gen EXCEPT !.at = at, !.committed = committed, !.out = out, !.cand = none,
                           !.returned = none, !.leading = none, !.head = head,
                           !.pending = hidden, !.boundary = boundary, !.ckpt = ckpt]
    BY <1>2
  <2> DEFINE half == [gen EXCEPT !.at = at, !.committed = committed, !.out = out, !.cand = none,
                                 !.returned = none]
  <2> HIDE DEF hidden, none
  <2>2. /\ half.at = at /\ GenShape(half) /\ half.max = gen.max /\ half.out = out
        /\ half.committed = committed /\ half.cand = none
    BY <1>3 DEF GenShape
  <2>3. gen' = [half EXCEPT !.leading = none, !.head = head, !.pending = hidden,
                            !.boundary = boundary, !.ckpt = ckpt]
    BY <2>1
  <2> HIDE DEF half
  <2>4. /\ gen'.at = at /\ GenShape(gen') /\ gen'.max = gen.max /\ gen'.out = out
        /\ gen'.committed = committed /\ gen'.cand = none /\ gen'.leading = none
        /\ gen'.head = head /\ gen'.boundary = boundary /\ gen'.ckpt = ckpt
    BY <2>2, <2>3 DEF GenShape
  <2> QED
    BY <2>4 DEF none
<1>8. CASE Stops(tokens)
  <2>1. at = "done"
    BY <1>8 DEF at
  <2>2. LoopOK(setup, cached', turn', gen')
    BY <1>2, <1>3, <1>7, <2>1 DEF LoopOK, Cycling, Judging
  <2> QED
    BY <1>6, <2>2 DEF MtpInv, LoopInv
<1>9. CASE ~Stops(tokens)
  <2>1. Committed(tokens) = tokens /\ Len(tokens) < gen.max - gen.out
    BY <1>4, <1>5, <1>9, CommittedIs
  <2>2. committed = gen.committed \o tokens /\ out = gen.out + (n + 1) /\ n + 1 < gen.max - gen.out
        /\ at \in {"reprime", "draft"}
    BY <1>5, <1>9, <2>1 DEF committed, out, at
  <2>3. /\ committed \in Streams /\ Len(committed) = p + (n + 1)
        /\ \A i \in 1 .. p + n : committed[i] = feed[i]
        /\ \A i \in 1 .. n + 1 : committed[p + i] = tokens[i]
        /\ \A k \in 0 .. p + n : Upto(committed, k) = Upto(feed, k)
    <3> HIDE DEF committed
    <3> QED
      BY <1>1, <1>3, <1>4, <1>5, <2>2, CommitIs DEF p, feed, cand
  <2>4. Past(gen') = p + (n + 1) /\ Past(gen') \in Nat \ {0}
    BY <1>4, <1>7, <2>3 DEF Past
  <2>5. Bounds(setup, gen')
    <3> DEFINE x == setup.ctx
               m == gen.max
               o == gen.out
    <3>1. p + (m - o) <= x /\ x \in Nat /\ setup.mtp.drafts \in Nat /\ m \in Nat /\ o \in Nat
          /\ n + 1 < m - o /\ out = o + (n + 1)
      BY <1>1, <1>3, <1>4, <2>2, LoopSetup DEF Bounds, p
    <3> HIDE DEF x, m, o
    <3>2. out \in Nat /\ out <= m /\ p + (n + 1) + (m - out) <= x /\ 0 <= m - out
      BY <1>4, <3>1
    <3>3. gen'.max = m /\ gen'.max - gen'.out = m - out /\ p + (n + 1) > 0
      BY <1>4, <1>7 DEF m
    <3>4. gen'.cand \in Streams /\ Len(gen'.cand) = 0 /\ gen'.cand = <<>>
      BY <1>7 DEF Streams
    <3>5. /\ gen'.max \in Nat /\ gen'.out \in Nat /\ gen'.out <= gen'.max
          /\ Past(gen') + (gen'.max - gen'.out) <= setup.ctx /\ Past(gen') > 0
      BY <1>7, <2>4, <3>1, <3>2, <3>3 DEF x
    <3>6. Len(gen'.cand) <= gen'.max - gen'.out /\ Len(gen'.cand) <= setup.mtp.drafts
      BY <3>1, <3>2, <3>3, <3>4
    <3>7. gen'.committed \in Streams /\ gen'.leading = <<>> /\ ~(gen'.at \in Judging)
      BY <1>7, <2>2, <2>3 DEF Judging
    <3> QED
      BY <3>4, <3>5, <3>6, <3>7 DEF Bounds
  <2>6. HeadOK(gen')
    <3>1. /\ Len(head) \in Nat /\ Len(committed) <= Len(head)
          /\ \A i \in 1 .. Len(committed) : head[i] = <<committed[i], Upto(committed, i - 1)>>
      BY <1>1, <1>3, <1>4, <1>5, <2>2, CaughtUp DEF cand, head
    <3> QED
      BY <1>7, <3>1 DEF HeadOK, Past
  <2>7. Checkpoints(setup) /\ full =>
          /\ ckpt = [len |-> p + c, state |-> feed] /\ boundary = p + c
          /\ p + c \in 1 .. p + (n + 1) /\ p + c < p + (n + 1) /\ feed = Upto(committed, p + c)
    <3>1. SUFFICES ASSUME Checkpoints(setup), full
                   PROVE  /\ ckpt = [len |-> p + c, state |-> feed] /\ boundary = p + c
                          /\ p + c \in 1 .. p + (n + 1) /\ p + c < p + (n + 1)
                          /\ feed = Upto(committed, p + c)
      OBVIOUS
    <3>2. absorbed = feed /\ Len(cached) = p + c /\ MtpCkpt /\ Recurrent
      BY <1>3, <1>4, <3>1, SlotHolds DEF Checkpoints, MtpCkpt, Recurrent
    <3>3. ckpt = [len |-> p + c, state |-> feed] /\ boundary = p + c
      BY <1>4, <3>1, <3>2 DEF ckpt, boundary, Snapshot
    <3>4. n = c
      BY <3>1 DEF full
    <3>5. p + c \in 1 .. p + (n + 1) /\ p + c < p + (n + 1) /\ p + c \in 0 .. p + n
      BY <1>4, <3>4
    <3>6. feed = Upto(feed, p + c)
      BY <1>4, UptoAll
    <3> QED
      BY <2>3, <3>3, <3>5, <3>6
  <2>8. Checkpoints(setup) /\ ~full =>
          /\ ckpt = gen.ckpt /\ boundary = gen.boundary /\ boundary = ckpt.len
          /\ ckpt.len \in 1 .. p + (n + 1) /\ ckpt.len < p + (n + 1)
          /\ ckpt.state = Upto(committed, ckpt.len)
          /\ Upto(gen.committed, gen.ckpt.len) = Upto(committed, ckpt.len)
    <3>1. SUFFICES ASSUME Checkpoints(setup), ~full
                   PROVE  /\ ckpt = gen.ckpt /\ boundary = gen.boundary /\ boundary = ckpt.len
                          /\ ckpt.len \in 1 .. p + (n + 1) /\ ckpt.len < p + (n + 1)
                          /\ ckpt.state = Upto(committed, ckpt.len)
                          /\ Upto(gen.committed, gen.ckpt.len) = Upto(committed, ckpt.len)
      OBVIOUS
    <3>2. ckpt = gen.ckpt /\ boundary = gen.boundary
      BY <3>1 DEF ckpt, boundary
    <3>3. /\ gen.ckpt.len \in 1 .. p /\ gen.ckpt.state = Upto(gen.committed, gen.ckpt.len)
          /\ gen.boundary = gen.ckpt.len
      BY <1>3, <3>1 DEF CkptOK, p
    <3> DEFINE k == gen.ckpt.len
    <3>4. k \in 1 .. p
      BY <3>3
    <3> HIDE DEF k
    <3>5. k \in 1 .. p + (n + 1) /\ k < p + (n + 1) /\ k \in 0 .. p + n /\ k \in 0 .. p
      BY <1>4, <3>4
    <3>6. Upto(gen.committed, k) = Upto(committed, k)
      BY <1>4, <2>3, <3>5
    <3> QED
      BY <3>2, <3>3, <3>5, <3>6 DEF k
  <2>9. CkptOK(setup, gen')
    <3>1. SUFFICES ASSUME Checkpoints(setup)
                   PROVE  /\ ckpt.len \in 1 .. p + (n + 1)
                          /\ ckpt.state = Upto(committed, ckpt.len) /\ boundary = ckpt.len
      BY <1>7, <2>4 DEF CkptOK
    <3>2. CASE full
      BY <2>7, <3>1, <3>2
    <3>3. CASE ~full
      BY <2>8, <3>1, <3>3
    <3> QED
      BY <3>2, <3>3
  <2>10. at = "draft" => BehindOK(setup, cached', gen')
    <3>1. SUFFICES ASSUME at = "draft" PROVE BehindOK(setup, cached', gen')
      OBVIOUS
    <3>2. ~NeedsReprime(restored, committed, boundary)
      BY <1>9, <3>1 DEF at
    <3> DEFINE d == setup.mtp.drafts
               x == setup.mtp.maxM
               k == ckpt.len
    <3>3. d \in Nat /\ x \in Nat /\ d < x
      BY <1>1, LoopSetup
    <3>4. CASE Checkpoints(setup)
      <4>1. cached' = Upto(committed, k) /\ k < p + (n + 1)
        <5>1. CASE full
          BY <1>6, <2>7, <3>4, <5>1
        <5>2. CASE ~full
          BY <1>6, <2>8, <3>4, <5>2
        <5> QED
          BY <5>1, <5>2
      <4>2. ASSUME Reprimes(setup) PROVE (p + (n + 1)) - k + d <= x
        <5>1. CASE full
          <6>1. k = p + c /\ n = c
            BY <2>7, <3>4, <5>1 DEF full
          <6> HIDE DEF d, x, k
          <6> QED
            BY <1>4, <3>3, <6>1
        <5>2. CASE ~full
          <6>1. restored /\ MtpReprime /\ boundary = k /\ Len(committed) = p + (n + 1)
            BY <2>3, <2>8, <3>4, <4>2, <5>2 DEF restored, Checkpoints, Reprimes, MtpCkpt, MtpReprime
          <6>2. ~(Len(committed) - boundary + d > x)
            BY <3>2, <6>1 DEF NeedsReprime, Drafts, MaxM
          <6>3. k \in Nat
            BY <1>4, <2>8, <3>4, <5>2
          <6> HIDE DEF d, x, k
          <6> QED
            BY <1>4, <3>3, <6>1, <6>2, <6>3
        <5> QED
          BY <5>1, <5>2
      <4>3. /\ gen'.leading = <<>> /\ gen'.ckpt.len = k /\ Past(gen') = p + (n + 1)
            /\ cached' = Upto(gen'.committed, k)
        BY <1>7, <2>4, <4>1
      <4> HIDE DEF d, x, k
      <4>4. Reprimes(setup) => Past(gen') - k + d <= x
        BY <4>2, <4>3
      <4>5. cached' = Upto(gen'.committed, gen'.ckpt.len) /\ gen'.ckpt.len < Past(gen')
        BY <4>1, <4>3
      <4>6. Reprimes(setup) => Past(gen') - gen'.ckpt.len + setup.mtp.drafts <= setup.mtp.maxM
        BY <4>3, <4>4 DEF d, x
      <4> QED
        BY <3>4, <4>3, <4>5, <4>6 DEF BehindOK
    <3>5. CASE ~Checkpoints(setup)
      <4>1. cached' = feed
        BY <1>6, <3>5
      <4>2. p + (n + 1) - 1 = p + n /\ p + n <= p + c /\ n + 1 \in 1 .. n + 1
        BY <1>4
      <4>3. Len(feed) = p + n \/ feed[p + (n + 1)] # committed[p + (n + 1)]
        <5>1. CASE full
          BY <1>4, <5>1 DEF full
        <5>2. CASE ~full
          <6>1. n + 1 \in 1 .. c
            BY <1>4, <5>2 DEF full
          <6>2. feed[p + (n + 1)] = cand[n + 1] /\ committed[p + (n + 1)] = next
            BY <1>4, <1>5, <2>3, <4>2, <6>1
          <6> QED
            BY <1>2, <5>2, <6>2
        <5> QED
          BY <5>1, <5>2
      <4>4. /\ gen'.leading = <<>> /\ gen'.committed = committed /\ Past(gen') = p + (n + 1)
            /\ Past(gen') - 1 = p + n
        BY <1>4, <1>7, <2>4, <4>2
      <4>5. p + n <= Len(feed) /\ \A i \in 1 .. p + n : feed[i] = committed[i]
        BY <1>4, <2>3, <4>2
      <4> QED
        BY <3>5, <4>1, <4>3, <4>4, <4>5 DEF BehindOK
    <3> QED
      BY <3>4, <3>5
  <2>11. LoopOK(setup, cached', turn', gen')
    BY <1>2, <1>3, <1>7, <2>2, <2>5, <2>6, <2>9, <2>10 DEF LoopOK, Cycling, Judging
  <2> QED
    BY <1>6, <2>11 DEF MtpInv, LoopInv
<1> QED
  BY <1>8, <1>9

LEMMA BeginReprimeSafe ==
  ASSUME MtpInv, UNCHANGED setup, setup.mtp.drafts # 0, BeginReprime
  PROVE  MtpInv'
<1>1. /\ SlotInv /\ LoopOK(setup, cached, turn, gen) /\ setup \in Setups
  BY SlotIs DEF MtpInv, LoopInv
<1>2. /\ gen.at = "reprime" /\ gen' = [gen EXCEPT !.at = "repriming"]
      /\ BeginDense(gen.committed, 1) \/ BeginRecurrent(gen.committed, 1)
  BY DEF BeginReprime
<1>3. GenShape(gen) /\ Bounds(setup, gen) /\ HeadOK(gen) /\ CkptOK(setup, gen)
  BY <1>1, <1>2 DEF LoopOK, Cycling
<1>4. gen.committed \in Streams /\ Len(gen.committed) > 0 /\ 1 \in Nat
  BY <1>3 DEF Bounds, Past
<1>5. SlotInv' /\ turn' # NoTurn
  BY <1>1, <1>2, <1>4, BeginDenseSafe, BeginRecurrentSafe
<1>6. turn'.cur = gen.committed /\ turn'.max = 1 /\ turn'.out = 0
  BY <1>2 DEF BeginDense, BeginRecurrent, StartTurn
<1>7. /\ gen'.at = "repriming" /\ GenShape(gen')
      /\ gen'.max = gen.max /\ gen'.out = gen.out /\ gen'.committed = gen.committed
      /\ gen'.cand = gen.cand /\ gen'.leading = gen.leading /\ gen'.head = gen.head
      /\ gen'.boundary = gen.boundary /\ gen'.ckpt = gen.ckpt
  BY <1>2, <1>3 DEF GenShape
<1>8. Bounds(setup, gen') /\ HeadOK(gen') /\ CkptOK(setup, gen')
  BY <1>2, <1>3, <1>7 DEF Bounds, HeadOK, CkptOK, Past, Judging
<1>9. LoopOK(setup, cached', turn', gen')
  BY <1>5, <1>6, <1>7, <1>8 DEF LoopOK, Cycling, Judging
<1> QED
  BY <1>5, <1>9 DEF MtpInv, LoopInv

(* A re-prime is a turn for one token: it ends by having fed all of its prompt.     *)
LEMMA ReprimeStepSafe ==
  ASSUME MtpInv, UNCHANGED setup, setup.mtp.drafts # 0, ReprimeStep
  PROVE  MtpInv' /\ (turn' = NoTurn => cached' = turn.cur)
<1>1. /\ SlotInv /\ LoopOK(setup, cached, turn, gen) /\ setup \in Setups
  BY SlotIs DEF MtpInv, LoopInv
<1>2. gen.at = "repriming" /\ turn # NoTurn /\ Proceed /\ UNCHANGED gen
  BY DEF ReprimeStep
<1>3. turn.cur = gen.committed /\ turn.max = 1 /\ turn.out = 0
  BY <1>1, <1>2 DEF LoopOK
<1>4. /\ turn = [phase |-> turn.phase, cur |-> turn.cur, plen |-> turn.plen, pos |-> turn.pos,
                 written |-> turn.written, out |-> turn.out, max |-> turn.max]
      /\ turn.cur \in Streams
  BY <1>1, <1>2, TurnIs
<1>5. ChainLength < 2
  <2> DEFINE a == setup.chain
  <2>1. a \in Nat
    BY <1>1, SetupIs
  <2>2. ChainLength = Lesser(a, 1)
    BY <1>3 DEF ChainLength, Chain
  <2> HIDE DEF a
  <2> QED
    BY <2>1, <2>2 DEF Lesser
<1>6. SlotInv'
  BY <1>1, <1>2, <1>5, ProceedSafe
<1>7. \/ turn' # NoTurn /\ turn'.cur = turn.cur /\ turn'.max = turn.max /\ turn'.out = turn.out
      \/ turn' = NoTurn /\ cached' = turn.cur
  <2>1. CASE PrefillChunk \/ FeedStep
    <3>1. PICK pos, phase :
            turn' = [phase |-> phase, cur |-> turn.cur, plen |-> turn.plen, pos |-> pos,
                     written |-> pos, out |-> turn.out, max |-> turn.max]
      <4>1. CASE PrefillChunk
        <5> DEFINE end == Lesser(turn.pos + Ubatch, PrefillEnd)
                   phase == IF end = PrefillEnd THEN "decode" ELSE "prefill"
        <5>1. turn' = [turn EXCEPT !.pos = end, !.written = end, !.phase = phase]
          BY <4>1 DEF PrefillChunk
        <5> HIDE DEF end, phase
        <5>2. turn' = [phase |-> phase, cur |-> turn.cur, plen |-> turn.plen, pos |-> end,
                       written |-> end, out |-> turn.out, max |-> turn.max]
          BY <1>4, <5>1
        <5> QED
          BY <5>2
      <4>2. CASE FeedStep
        <5> DEFINE pos == turn.pos + 1
        <5>1. turn' = [turn EXCEPT !.pos = pos, !.written = pos]
          BY <4>2 DEF FeedStep
        <5> HIDE DEF pos
        <5>2. turn' = [phase |-> turn.phase, cur |-> turn.cur, plen |-> turn.plen, pos |-> pos,
                       written |-> pos, out |-> turn.out, max |-> turn.max]
          BY <1>4, <5>1
        <5> QED
          BY <5>2
      <4> QED
        BY <2>1, <4>1, <4>2
    <3>2. turn'.cur = turn.cur /\ turn'.max = turn.max /\ turn'.out = turn.out
      BY <3>1
    <3>3. NoTurn.max = 0
      BY DEF NoTurn
    <3> QED
      BY <1>3, <3>2, <3>3
  <2>2. CASE DecodeStops
    <3>1. setup.faults = {}
      BY <1>1, LoopSetup
    <3> QED
      BY <1>3, <2>2, <3>1 DEF DecodeStops, Faults
  <2>3. ASSUME NEW next \in Tokens \cup {Eos}, NEW stopped \in BOOLEAN, SampleStep(next, stopped)
        PROVE  turn' = NoTurn /\ cached' = turn.cur
    <3>1. turn.pos + 1 = Len(turn.cur) /\ Finish(turn.cur, turn.pos + 1)
      BY <1>3, <2>3 DEF SampleStep, AtFrontier
    <3>2. turn' = NoTurn /\ cached' = Upto(turn.cur, Len(turn.cur))
      BY <3>1 DEF Finish
    <3> QED
      BY <1>4, <3>2, UptoAll
  <2>4. ASSUME NEW a \in Tokens, NEW b \in Tokens, NEW stopped \in BOOLEAN, ForcedStep(a, b, stopped)
        PROVE  FALSE
    BY <1>3, <2>4 DEF ForcedStep
  <2>5. ASSUME NEW ids \in Chains, NEW stopAt \in 0 .. Chain, ChainStep(ids, stopAt)
        PROVE  FALSE
    <3>1. ChainLength >= 2 /\ ChainLength \in Int
      <4>1. ChainLength = Lesser(setup.chain, 1) /\ setup.chain \in Nat
        BY <1>1, <1>3, SetupIs DEF ChainLength, Chain
      <4> QED
        BY <2>5, <4>1 DEF ChainStep, Lesser
    <3> QED
      BY <1>5, <3>1
  <2> QED
    BY <1>2, <2>1, <2>2, <2>3, <2>4, <2>5 DEF Proceed
<1>8. LoopOK(setup, cached', turn', gen)
  <2>1. GenShape(gen) /\ Bounds(setup, gen) /\ HeadOK(gen) /\ CkptOK(setup, gen)
    BY <1>1, <1>2 DEF LoopOK, Cycling
  <2> QED
    BY <1>2, <1>3, <1>7, <2>1 DEF LoopOK, Cycling, Judging
<1>9. turn' = NoTurn => cached' = turn.cur
  BY <1>7
<1> QED
  BY <1>2, <1>6, <1>8, <1>9 DEF MtpInv, LoopInv

LEMMA ReprimedSafe ==
  ASSUME MtpInv, UNCHANGED setup, setup.mtp.drafts # 0, Reprimed
  PROVE  MtpInv'
<1> DEFINE ckpt == Snapshot(absorbed, Len(cached))
<1>1. /\ SlotInv /\ LoopOK(setup, cached, turn, gen) /\ setup \in Setups
  BY SlotIs DEF MtpInv, LoopInv
<1>2. /\ gen.at = "repriming" /\ turn = NoTurn
      /\ gen' = [gen EXCEPT !.at = "draft", !.pending = gen.committed, !.leading = gen.committed,
                            !.ckpt = ckpt, !.boundary = NPast]
      /\ UNCHANGED <<cached, rows, absorbed, turn, exact>>
  BY DEF Reprimed
<1>3. /\ GenShape(gen) /\ Bounds(setup, gen) /\ HeadOK(gen) /\ cached = gen.committed
  BY <1>1, <1>2 DEF LoopOK, Cycling
<1>4. SlotInv'
  BY <1>1, <1>2 DEF SlotInv
<1>5. setup.recurrent => ckpt = [len |-> Past(gen), state |-> gen.committed]
  BY <1>2, <1>3, SlotHolds DEF Snapshot, Recurrent, Past
<1> HIDE DEF ckpt
<1>6. /\ gen'.at = "draft" /\ GenShape(gen')
      /\ gen'.max = gen.max /\ gen'.out = gen.out /\ gen'.committed = gen.committed
      /\ gen'.cand = gen.cand /\ gen'.leading = gen.committed /\ gen'.head = gen.head
      /\ gen'.boundary = Past(gen) /\ gen'.ckpt = ckpt
  BY <1>2, <1>3 DEF GenShape, NPast, Past
<1>7. gen.committed \in Streams /\ Past(gen) \in Nat /\ Past(gen) > 0 /\ gen.committed # <<>>
  BY <1>3, LenProperties DEF Bounds, Past, Streams
<1>8. Bounds(setup, gen') /\ HeadOK(gen')
  BY <1>2, <1>3, <1>6 DEF Bounds, HeadOK, Past, Judging
<1>9. CkptOK(setup, gen')
  <2>1. Upto(gen.committed, Past(gen)) = gen.committed /\ Past(gen) \in 1 .. Past(gen)
    BY <1>7, UptoAll DEF Past
  <2>2. Past(gen') = Past(gen)
    BY <1>6 DEF Past
  <2> QED
    BY <1>5, <1>6, <2>1, <2>2 DEF CkptOK, Checkpoints
<1>10. BehindOK(setup, cached', gen')
  BY <1>2, <1>3, <1>6, <1>7 DEF BehindOK
<1>11. LoopOK(setup, cached', turn', gen')
  BY <1>2, <1>6, <1>8, <1>9, <1>10 DEF LoopOK, Cycling, Judging
<1> QED
  BY <1>4, <1>11 DEF MtpInv, LoopInv

LEMMA IdleOK == GenShape(Idle) /\ Idle.at = "new"
BY DEF GenShape, Idle

LEMMA NextCallSafe ==
  ASSUME MtpInv, UNCHANGED setup, setup.mtp.drafts # 0, NextCall
  PROVE  MtpInv'
<1>1. /\ SlotInv /\ LoopOK(setup, cached, turn, gen) /\ setup \in Setups
      /\ rows \in [0 .. RowsIn(setup) - 1 -> Streams] /\ setup.ctx \in Nat
  BY SlotIs, SetupIs DEF MtpInv, LoopInv
<1>2. /\ gen.at = "done" /\ gen' = Idle /\ cached' = <<>> /\ absorbed' = <<>>
      /\ rows' = [r \in DOMAIN rows |-> <<>>] /\ UNCHANGED <<turn, exact>>
  BY DEF NextCall
<1>3. turn = NoTurn
  BY <1>1, <1>2 DEF LoopOK
<1>4. <<>> \in Streams /\ Len(<<>>) = 0
  BY DEF Streams
<1>5. rows' \in [0 .. RowsIn(setup) - 1 -> Streams]
  BY <1>1, <1>2, <1>4
<1>6. FedBy(turn', cached') = cached' /\ turn' = NoTurn
  BY <1>2, <1>3 DEF FedBy
<1>7. ~setup.ring
  BY <1>1, LoopSetup
<1>8. Held(setup, rows', cached')
  BY <1>2, <1>4, <1>7 DEF Held
<1>9. SlotInv'
  BY <1>1, <1>2, <1>4, <1>5, <1>6, <1>8 DEF SlotInv, SlotOK
<1>10. LoopOK(setup, cached', turn', gen')
  BY <1>2, <1>6, IdleOK DEF LoopOK, Cycling, Judging
<1> QED
  BY <1>9, <1>10 DEF MtpInv, LoopInv

-----------------------------------------------------------------------------
(* A turn that ends has kept what it fed.                                     *)
LEMMA Fed ==
  ASSUME SlotInv, turn # NoTurn, RowsKept
  PROVE  Len(cached') >= turn.written /\ Upto(cached', turn.written) = Upto(turn.cur, turn.written)
<1>1. turn.pos \in Nat /\ turn.written = turn.pos
  BY TurnIs
<1>2. PICK cur \in Streams : \E pos \in turn.pos .. Len(cur) :
        cached' = Upto(cur, pos) /\ Upto(cur, turn.pos) = Upto(turn.cur, turn.pos)
  BY DEF RowsKept
<1>3. PICK pos \in turn.pos .. Len(cur) :
        cached' = Upto(cur, pos) /\ Upto(cur, turn.pos) = Upto(turn.cur, turn.pos)
  BY <1>2
<1> DEFINE w == turn.pos
<1>4. w \in Nat /\ pos \in w .. Len(cur) /\ Len(cur) \in Nat
  BY <1>1, LenProperties DEF Streams
<1> HIDE DEF w
<1>5. pos \in 0 .. Len(cur) /\ w \in 0 .. pos /\ w <= pos
  BY <1>4
<1>6. Len(cached') = pos /\ Upto(cached', w) = Upto(cur, w)
  BY <1>3, <1>5, UptoIs, UptoUpto
<1> QED
  BY <1>1, <1>3, <1>5, <1>6 DEF w

LEMMA SampleEnds ==
  ASSUME SlotInv, Running, AtFrontier, NEW ids \in Streams,
         \/ cached' = Upto(turn.cur \o ids, turn.pos + 1)
         \/ cached' = Upto(turn.cur, turn.pos + 1)
  PROVE  RowsKept
<1> DEFINE cur == turn.cur \o ids
           w == turn.pos
<1>1. turn.cur \in Streams /\ w \in Nat /\ Len(turn.cur) = w + 1
  BY Frontier
<1>2. cur \in Streams /\ Len(cur) = Len(turn.cur) + Len(ids) /\ Len(ids) \in Nat
  BY <1>1, ConcatIs
<1> HIDE DEF w
<1>3. w \in 0 .. Len(turn.cur) /\ w + 1 \in w .. Len(turn.cur) /\ w + 1 \in w .. Len(cur)
  BY <1>1, <1>2
<1>4. Upto(cur, w) = Upto(turn.cur, w)
  BY <1>1, <1>3, UptoConcat
<1> HIDE DEF cur
<1> QED
  BY <1>1, <1>2, <1>3, <1>4 DEF RowsKept, w, cur

(* The ends of a turn that are its own: not an abort in the prefill, not an error.    *)
LEMMA ProceedKeeps ==
  ASSUME SlotInv, UNCHANGED setup, StateTrusted(setup) => ChainLength < 2, Proceed,
         turn.phase = "decode", turn'.phase = "idle"
  PROVE  RowsKept
<1>1. turn # NoTurn
  BY DEF NoTurn
<1>2. /\ turn = [phase |-> turn.phase, cur |-> turn.cur, plen |-> turn.plen, pos |-> turn.pos,
                 written |-> turn.written, out |-> turn.out, max |-> turn.max]
      /\ turn.cur \in Streams /\ turn.pos \in Nat /\ turn.written = turn.pos
      /\ turn.pos < Len(turn.cur) /\ Len(turn.cur) \in Nat
  BY <1>1, TurnIs, LenProperties DEF Streams
<1>3. turn'.phase # turn.phase
  OBVIOUS
<1>4. ~PrefillChunk
  BY DEF PrefillChunk
<1>5. ~FeedStep
  <2>1. SUFFICES ASSUME FeedStep PROVE FALSE
    OBVIOUS
  <2> DEFINE pos == turn.pos + 1
  <2>2. turn' = [turn EXCEPT !.pos = pos, !.written = pos]
    BY <2>1 DEF FeedStep
  <2> HIDE DEF pos
  <2> QED
    BY <1>2, <2>2
<1>6. CASE DecodeStops
  <2>1. cached' = Upto(turn.cur, turn.pos)
    BY <1>2, <1>6 DEF DecodeStops, Finish
  <2>2. turn.pos \in turn.pos .. Len(turn.cur)
    BY <1>2
  <2> QED
    BY <1>2, <2>1, <2>2 DEF RowsKept
<1>7. ASSUME NEW next \in Tokens \cup {Eos}, NEW stopped \in BOOLEAN, SampleStep(next, stopped)
      PROVE  RowsKept
  <2> DEFINE cur == Append(turn.cur, next)
             out == turn.out + 1
             pos == turn.pos + 1
             none == <<>>
  <2>1. /\ Running /\ AtFrontier
        /\ \/ cached' = Upto(turn.cur, turn.pos + 1)
           \/ turn' = [turn EXCEPT !.cur = cur, !.out = out, !.pos = pos, !.written = pos]
    BY <1>7 DEF SampleStep, Finish
  <2> HIDE DEF cur, out, pos
  <2>2. CASE cached' = Upto(turn.cur, turn.pos + 1)
    <3>1. none \in Streams
      BY DEF Streams
    <3> HIDE DEF none
    <3> QED
      BY <2>1, <2>2, <3>1, SampleEnds
  <2>3. CASE turn' = [turn EXCEPT !.cur = cur, !.out = out, !.pos = pos, !.written = pos]
    BY <1>2, <1>3, <2>3
  <2> QED
    BY <2>1, <2>2, <2>3
<1>8. ASSUME NEW a \in Tokens, NEW b \in Tokens, NEW stopped \in BOOLEAN, ForcedStep(a, b, stopped)
      PROVE  RowsKept
  <2> DEFINE ids == <<a, b>>
             cur == turn.cur \o ids
             out == turn.out + 2
             pos == turn.pos + 1
  <2>1. /\ Running /\ AtFrontier /\ ids \in Streams
        /\ \/ cached' = Upto(cur, turn.pos + 1)
           \/ turn' = [turn EXCEPT !.cur = cur, !.out = out, !.pos = pos, !.written = pos]
    <3>1. ids \in Streams
      BY DEF Streams
    <3>2. /\ Running /\ AtFrontier
          /\ IF turn.out + 2 = turn.max \/ stopped
             THEN Finish(cur, turn.pos + 1)
             ELSE /\ turn' = [turn EXCEPT !.cur = cur, !.out = @ + 2,
                                          !.pos = @ + 1, !.written = turn.pos + 1]
                  /\ UNCHANGED cached
      BY <1>8 DEF ForcedStep
    <3> HIDE DEF cur
    <3> QED
      BY <3>1, <3>2 DEF Finish
  <2> HIDE DEF ids, out, pos
  <2>2. CASE cached' = Upto(cur, turn.pos + 1)
    BY <2>1, <2>2, SampleEnds
  <2>3. CASE turn' = [turn EXCEPT !.cur = cur, !.out = out, !.pos = pos, !.written = pos]
    BY <1>2, <1>3, <2>3
  <2> QED
    BY <2>1, <2>2, <2>3
<1>9. ASSUME NEW ids \in Chains, NEW stopAt \in 0 .. Chain, ChainStep(ids, stopAt)
      PROVE  RowsKept
  <2> DEFINE n == ChainLength
             enders == {i \in 1 .. n : ids[i] = Eos \/ turn.out + i >= turn.max \/ i = stopAt}
             fed == IF enders = {} THEN n ELSE CHOOSE i \in enders : \A j \in enders : i <= j
             kept == turn.cur \o SubSeq(ids, 1, IF ids[fed] = Eos THEN fed - 1 ELSE fed)
             out == turn.out + fed
             pos == turn.pos + fed
  <2>1. \/ turn' = NoTurn
        \/ turn' = [turn EXCEPT !.cur = kept, !.out = out, !.pos = pos, !.written = pos]
    <3>1. IF enders # {}
          THEN Finish(kept, turn.pos + fed)
          ELSE /\ turn' = [turn EXCEPT !.cur = kept, !.out = @ + fed, !.pos = @ + fed,
                                       !.written = turn.pos + fed]
               /\ UNCHANGED cached
      BY <1>9 DEF ChainStep
    <3> HIDE DEF enders, fed, kept
    <3> QED
      BY <3>1 DEF Finish
  <2> HIDE DEF kept, out, pos
  <2>2. CASE turn' = NoTurn
    <3>1. stopAt \in Nat
      BY SetupIs, SlotIs DEF Chain
    <3> QED
      BY <1>9, <2>2, <3>1, ChainStepSafe
  <2>3. CASE turn' = [turn EXCEPT !.cur = kept, !.out = out, !.pos = pos, !.written = pos]
    BY <1>2, <1>3, <2>3
  <2> QED
    BY <2>1, <2>2, <2>3
<1> QED
  BY <1>4, <1>5, <1>6, <1>7, <1>8, <1>9 DEF Proceed

(* The invariant that carries the proofs holds at the start and through every step.  *)
LEMMA InitialSlot == ASSUME MtpInit PROVE MtpInv
<1>1. /\ setup \in Setups /\ cached = <<>> /\ rows = [r \in 0 .. Rows - 1 |-> <<>>]
      /\ absorbed = <<>> /\ turn = NoTurn /\ exact = TRUE /\ gen = Idle
  BY DEF MtpInit, Init
<1>2. <<>> \in Streams /\ Len(<<>>) = 0
  BY DEF Streams
<1>3. rows \in [0 .. RowsIn(setup) - 1 -> Streams] /\ setup.ctx \in Nat /\ setup.window \in Nat
  BY <1>1, <1>2, RowsAre, SetupIs
<1>4. Held(setup, rows, FedBy(turn, cached))
  BY <1>1, <1>2, <1>3 DEF Held, FedBy, Greater
<1>5. SlotInv
  BY <1>1, <1>2, <1>3, <1>4 DEF SlotInv, SlotOK, FedBy
<1>6. LoopInv
  BY <1>1, IdleOK DEF LoopInv, LoopOK, Cycling, Judging
<1> QED
  BY <1>5, <1>6 DEF MtpInv

LEMMA MtpStepSafe == ASSUME MtpInv, [SlotStep]_mtpVars PROVE MtpInv'
<1>1. CASE UNCHANGED mtpVars
  BY <1>1 DEF mtpVars, vars, MtpInv, SlotInv, LoopInv
<1>2. ASSUME UNCHANGED setup, Drafts = 0, Step, UNCHANGED gen
      PROVE  MtpInv'
  <2>1. SlotInv'
    BY <1>2, SlotStepSafe DEF MtpInv, Drafts
  <2>2. LoopInv'
    BY <1>2 DEF MtpInv, LoopInv, Drafts
  <2> QED
    BY <2>1, <2>2 DEF MtpInv
<1>3. ASSUME UNCHANGED setup, Drafts > 0, MtpStep
      PROVE  MtpInv'
  <2>1. setup.mtp.drafts # 0
    <3>1. setup.mtp.drafts \in Nat
      BY SlotIs, SetupIs DEF MtpInv
    <3> QED
      BY <1>3, <3>1 DEF Drafts
  <2>2. CASE NextCall
    BY <1>3, <2>1, <2>2, NextCallSafe
  <2>3. ASSUME NEW prompt \in Prompts, NEW max \in 1 .. MaxNew, Prime(prompt, max)
        PROVE  MtpInv'
    BY <1>3, <2>1, <2>3, PrimeSafe
  <2>4. ASSUME NEW cand \in [1 .. NMaxRound -> Vocabulary], Draft(cand)
        PROVE  MtpInv'
    BY <1>3, <2>1, <2>4, DraftSafe
  <2>5. CASE ResumeFeed
    BY <1>3, <2>1, <2>5, ResumeFeedSafe
  <2>6. CASE Verify
    BY <1>3, <2>1, <2>6, VerifySafe
  <2>7. ASSUME NEW n \in 0 .. Drafts, NEW next \in Vocabulary, Judge(n, next)
        PROVE  MtpInv'
    BY <1>3, <2>1, <2>7, JudgeSafe
  <2>8. CASE BeginReprime
    BY <1>3, <2>1, <2>8, BeginReprimeSafe
  <2>9. CASE ReprimeStep
    BY <1>3, <2>1, <2>9, ReprimeStepSafe
  <2>10. CASE Reprimed
    BY <1>3, <2>1, <2>10, ReprimedSafe
  <2> QED
    BY <1>3, <2>2, <2>3, <2>4, <2>5, <2>6, <2>7, <2>8, <2>9, <2>10 DEF MtpStep
<1> QED
  BY <1>1, <1>2, <1>3 DEF SlotStep

LEMMA SlotStaysSound == MtpSpec => []MtpInv
<1>1. MtpInit => MtpInv
  BY InitialSlot
<1>2. MtpInv /\ [SlotStep]_mtpVars => MtpInv'
  BY MtpStepSafe
<1> QED
  BY <1>1, <1>2, PTL DEF MtpSpec

-----------------------------------------------------------------------------
(* Wherever a slot can be relied on, no forward attends a row or continues a     *)
(* recurrent state that another stream left behind, whatever the prompts, the      *)
(* context, the window, the chunk and the chain (runner.rs, the prefix rule and      *)
(* the ring's rewind): its replies are those of a full re-prefill.              *)
THEOREM ReadsAreOwn == MtpSpec => []NoStaleReadsWhereDependable
<1>1. MtpInv => NoStaleReadsWhereDependable
  <2>1. SUFFICES ASSUME MtpInv, Dependable PROVE exact
    BY DEF NoStaleReadsWhereDependable, NoStaleReads
  <2>2. SlotInv /\ setup \in Setups
    BY <2>1, SlotIs DEF MtpInv
  <2>3. RowsTrusted(setup)
    BY <2>1 DEF Dependable, Ring, Rewinds, Faults, RowsTrusted
  <2>4. setup.recurrent => StateTrusted(setup)
    BY <2>1 DEF Dependable, Recurrent, Resets, Chain, Faults, StateTrusted
  <2> QED
    BY <2>2, <2>3, <2>4 DEF SlotInv, SlotOK, Trusted
<1> QED
  BY <1>1, SlotStaysSound, PTL

(* Every token `cached` claims has its row, at every moment of every turn, with      *)
(* whatever aborts, errors and MTP cycles before (runner.rs, resident_after_gen).      *)
THEOREM ClaimsAreBacked == MtpSpec => []CachedIsResident
<1>1. MtpInv => CachedIsResident
  <2>1. SUFFICES ASSUME MtpInv PROVE CachedIsResident
    OBVIOUS
  <2> DEFINE f == FedBy(turn, cached)
             l == Len(cached)
             x == setup.ctx
  <2>2. SlotInv
    BY <2>1 DEF MtpInv
  <2>3. /\ setup \in Setups /\ cached \in Streams /\ l \in Nat /\ l <= x
        /\ rows \in [0 .. RowsIn(setup) - 1 -> Streams] /\ absorbed \in Streams
        /\ exact \in BOOLEAN /\ f \in Streams /\ Len(f) \in Nat
    BY <2>2, SlotIs DEF SlotInv, SlotOK
  <2>4. x \in Nat \ {0} /\ (~setup.ring => RowsIn(setup) = x)
    BY <2>3, SetupIs
  <2>5. TypeOK
    <3>1. /\ turn.phase \in {"idle", "prefill", "decode"} /\ turn.cur \in Streams
          /\ {turn.plen, turn.pos, turn.written, turn.out, turn.max} \subseteq 0 .. x
          /\ turn.plen + turn.max < x
      <4>1. CASE turn = NoTurn
        BY <2>4, <4>1 DEF NoTurn, Streams
      <4>2. CASE turn # NoTurn
        <5> DEFINE pl == turn.plen
                   po == turn.pos
                   ou == turn.out
                   mx == turn.max
        <5>1. /\ turn.phase \in {"prefill", "decode"} /\ turn.cur \in Streams
              /\ pl \in Nat /\ po \in Nat /\ ou \in Nat /\ mx \in Nat
              /\ turn.written = po /\ Len(turn.cur) = pl + ou /\ ou <= mx
              /\ pl + mx < x /\ po < Len(turn.cur)
          BY <2>2, <4>2, TurnIs
        <5> HIDE DEF pl, po, ou, mx, x
        <5>2. pl \in 0 .. x /\ po \in 0 .. x /\ ou \in 0 .. x /\ mx \in 0 .. x
          BY <2>4, <5>1
        <5> QED
          BY <5>1, <5>2 DEF pl, po, ou, mx
      <4> QED
        BY <4>1, <4>2
    <3> QED
      BY <2>3, <3>1, RowsAre DEF TypeOK, MaxCtx
  <2>6. ASSUME ~setup.ring, NEW p \in 0 .. l - 1
        PROVE  rows[p] = Upto(cached, p + 1)
    <3>1. l \in 0 .. Len(f) /\ cached = Upto(f, l)
      <4>1. CASE turn = NoTurn
        BY <2>3, <4>1, UptoAll DEF FedBy
      <4>2. CASE turn # NoTurn
        <5>1. cached = Upto(f, l) /\ l \in 0 .. turn.pos
          BY <2>2, <4>2, Cut
        <5>2. f = Upto(turn.cur, turn.pos) /\ turn.pos \in 0 .. Len(turn.cur) /\ turn.cur \in Streams
          <6>1. turn.cur \in Streams /\ turn.pos \in Nat /\ turn.pos < Len(turn.cur)
            BY <2>2, <4>2, TurnIs
          <6>2. Len(turn.cur) \in Nat
            BY <6>1, LenProperties DEF Streams
          <6> QED
            BY <4>2, <6>1, <6>2 DEF FedBy
        <5>3. Len(f) = turn.pos
          BY <5>2, UptoIs
        <5> QED
          BY <5>1, <5>3
      <4> QED
        BY <4>1, <4>2
    <3>2. Held(setup, rows, f)
      BY <2>2, <2>6 DEF SlotInv, SlotOK, RowsTrusted
    <3> HIDE DEF f, l, x
    <3>3. p \in Nat /\ p < x /\ p \in 0 .. Len(f) - 1 /\ p + 1 \in 0 .. l
      BY <2>3, <2>4, <3>1
    <3>4. rows[p % x] = Upto(f, p + 1)
      BY <2>4, <2>6, <3>2, <3>3 DEF Held
    <3>5. p % x = p
      BY <2>4, <3>3, RowInRange
    <3>6. Upto(cached, p + 1) = Upto(f, p + 1)
      BY <2>3, <3>1, <3>3, UptoUpto
    <3> QED
      BY <3>4, <3>5, <3>6
  <2> QED
    BY <2>5, <2>6 DEF CachedIsResident, Ring
<1> QED
  BY <1>1, SlotStaysSound, PTL

(* A turn that ends well leaves every position it fed reusable, with or without       *)
(* chains and forced tokens, and so does the turn that re-primes a generation.        *)
THEOREM NothingFedIsForgotten == MtpSpec => FedRowsAreKept
<1> DEFINE Keeps == (turn.phase = "decode" /\ turn'.phase = "idle" /\ cached' # cached)
                      => /\ Len(cached') >= turn.written
                         /\ Upto(cached', turn.written) = Upto(turn.cur, turn.written)
<1>1. ASSUME MtpInv, [SlotStep]_mtpVars PROVE [Keeps]_vars
  <2>1. SUFFICES ASSUME turn.phase = "decode", turn'.phase = "idle", cached' # cached
                 PROVE  /\ Len(cached') >= turn.written
                        /\ Upto(cached', turn.written) = Upto(turn.cur, turn.written)
    BY DEF vars
  <2>2. SlotInv /\ turn # NoTurn /\ SlotStep /\ UNCHANGED setup /\ setup \in Setups
    BY <1>1, <2>1, SlotIs DEF MtpInv, NoTurn, SlotStep, mtpVars, vars
  <2>3. CASE Drafts = 0 /\ Step
    <3>1. Proceed
      BY <2>1, <2>2, <2>3 DEF Step, BeginDense, BeginRecurrent, ZeroingFails, Reset,
                              PrefillAborted, PrefillFails, DecodeFails, Fail
    <3>2. StateTrusted(setup) => ChainLength < 2
      BY <2>2, <2>3, ChainTrusted DEF Drafts
    <3> QED
      BY <2>1, <2>2, <3>1, <3>2, ProceedKeeps, Fed
  <2>4. CASE Drafts > 0 /\ MtpStep
    <3>1. setup.mtp.drafts # 0 /\ LoopOK(setup, cached, turn, gen)
      <4>1. setup.mtp.drafts \in Nat
        BY <2>2, SetupIs
      <4> QED
        BY <1>1, <2>4, <4>1 DEF Drafts, MtpInv, LoopInv
    <3>2. gen.at = "repriming"
      BY <2>2, <3>1 DEF LoopOK
    <3>3. ReprimeStep
      BY <2>2, <2>4, <3>2 DEF MtpStep, NextCall, Prime, Draft, ResumeFeed, Verify, Judge,
                              BeginReprime, Reprimed
    <3>4. MtpInv' /\ (turn' = NoTurn => cached' = turn.cur)
      BY <1>1, <2>2, <3>1, <3>3, ReprimeStepSafe
    <3>5. turn' = NoTurn
      <4>1. SlotOK(setup, cached', rows', absorbed', turn', exact')
        BY <2>2, <3>4 DEF MtpInv, SlotInv
      <4> QED
        BY <2>1, <4>1 DEF SlotOK, InTurn, TurnRec
    <3>6. turn.cur \in Streams /\ turn.written = turn.pos /\ turn.pos \in Nat
          /\ turn.pos < Len(turn.cur) /\ Len(turn.cur) \in Nat
      BY <2>2, TurnIs, LenProperties DEF Streams
    <3> QED
      BY <3>4, <3>5, <3>6
  <2> QED
    BY <2>2, <2>3, <2>4 DEF SlotStep
<1> QED
  BY <1>1, SlotStaysSound, PTL DEF MtpSpec, FedRowsAreKept

(* Every draft, and the token after the last, is judged by the row that saw exactly    *)
(* the committed stream and the drafts before it, for any number of drafts, with        *)
(* and without checkpoints, recurrent or not (backends.rs: the committed stream is        *)
(* the target's own), and the verify stays in the small tile.                     *)
THEOREM DraftsAreJudgedInContext == MtpSpec => []JudgedInContext
<1>1. MtpInv => JudgedInContext
  <2>1. SUFFICES ASSUME MtpInv, gen.at = "judge"
                 PROVE  /\ ~Underflows /\ exact
                        /\ Judged = [j \in 1 .. Len(gen.cand) + 1 |-> Upto(Feed, NPast - 1 + j)]
                        /\ MtpReprime => Len(gen.returned) <= MaxM
    BY DEF JudgedInContext
  <2>2. SlotInv /\ setup \in Setups
    BY <2>1, SlotIs DEF MtpInv
  <2>3. setup.mtp.drafts # 0 /\ LoopOK(setup, cached, turn, gen)
    BY <2>1, IdleOK DEF MtpInv, LoopInv
  <2>4. Bounds(setup, gen) /\ ReturnedOK(setup, cached, gen) /\ gen.cand # <<>>
    BY <2>1, <2>3 DEF LoopOK, Cycling, Judging, Bounds
  <2>5. ~Underflows /\ Judged = [j \in 1 .. Len(gen.cand) + 1 |-> Upto(Feed, NPast - 1 + j)]
    BY <2>2, <2>3, <2>4, JudgedIs
  <2>6. exact
    BY <2>2, <2>3, LoopSetup DEF SlotInv, SlotOK
  <2>7. MtpReprime => Len(gen.returned) <= MaxM
    BY <2>4 DEF ReturnedOK, Reprimes, MtpReprime, MaxM
  <2> QED
    BY <2>5, <2>6, <2>7
<1> QED
  BY <1>1, SlotStaysSound, PTL

(* Between cycles the head's rows are the committed tokens, each with the trunk's      *)
(* hidden state of the token before it: what it drafted on its own is overwritten       *)
(* before it is read again (mod.rs, AUDIT #1).                                 *)
THEOREM HeadStaysWithTrunk == MtpSpec => []HeadFollowsTrunk
<1>1. MtpInv => HeadFollowsTrunk
  <2>1. SUFFICES ASSUME MtpInv, gen.at \in {"draft", "reprime", "repriming"}
                 PROVE  \A i \in 1 .. NPast :
                          gen.head[i] = <<gen.committed[i], Upto(gen.committed, i - 1)>>
    BY DEF HeadFollowsTrunk
  <2>2. LoopOK(setup, cached, turn, gen)
    BY <2>1, IdleOK DEF MtpInv, LoopInv
  <2>3. HeadOK(gen)
    BY <2>1, <2>2 DEF LoopOK, Cycling
  <2> QED
    BY <2>3 DEF HeadOK, NPast, Past
<1> QED
  BY <1>1, SlotStaysSound, PTL
=============================================================================
