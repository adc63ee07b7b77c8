---------------------------- MODULE HandshakesProofs ----------------------------
(***************************************************************************)
(* Proofs about the places where a thread waits its turn.                   *)
(*   The GPU baton, for any number of sequences: mutual exclusion, service in *)
(* ticket order, no lost wake-up, and the bound on how many sequences go      *)
(* before one that waits.                                                   *)
(*   The CPU fork-join pool, for any callers, any number of worker threads    *)
(* and any jobs: the borrowed closure outlives its use, and run keeps its     *)
(* promise (ForkJoin).                                                      *)
(*   The server, for any requests, permits, deadlines and drains: every         *)
(* generation ends in one honest reply, and no request is billed for another.  *)
(***************************************************************************)
EXTENDS MCHandshakes, FiniteSetTheorems, SequenceTheorems, TLAPS

-----------------------------------------------------------------------------
(* The GPU baton.                                                           *)

(* The sequences that have taken a ticket and not yet served it.            *)
InQueue == {s \in Seqs : at[s] \in Gate!Queued}

(* Their tickets lie between the two counters, ...                          *)
TicketsInRange ==
  /\ serving <= next
  /\ \A s \in InQueue : serving <= ticket[s] /\ ticket[s] < next

(* ... no two of them have the same one, ...                                *)
TicketsDistinct == \A s, u \in InQueue : ticket[s] = ticket[u] => s = u

(* ... and whoever is inside has the one being served.                      *)
InsideIsServed == \A s \in Seqs : at[s] = "in" => ticket[s] = serving

(* The inductive invariant.  OneBaton alone is not inductive: it says        *)
(* nothing of which waiter a Recheck may let in.                            *)
GateInv == Gate!TypeOK /\ TicketsInRange /\ TicketsDistinct /\ InsideIsServed

(* Every ticket between the counters is somebody's: none is lost.           *)
TicketsCounted == next - serving = Cardinality(InQueue)

-----------------------------------------------------------------------------
(* Type correctness: the counters stay natural numbers and every sequence    *)
(* is in one of its places.                                                 *)
THEOREM GateTypeCorrect == Gate!Spec => []Gate!TypeOK
<1>1. Gate!Init => Gate!TypeOK
  BY DEF Gate!Init, Gate!TypeOK, Gate!Places
<1>2. Gate!TypeOK /\ [Gate!Next]_(Gate!vars) => Gate!TypeOK'
  <2> SUFFICES ASSUME Gate!TypeOK, [Gate!Next]_(Gate!vars) PROVE Gate!TypeOK'
    OBVIOUS
  <2> USE DEF Gate!TypeOK, Gate!Places
  <2>1. ASSUME NEW s \in Seqs, Gate!Enter(s) PROVE Gate!TypeOK'
    BY <2>1 DEF Gate!Enter
  <2>2. ASSUME NEW s \in Seqs, Gate!SpuriousWake(s) PROVE Gate!TypeOK'
    BY <2>2 DEF Gate!SpuriousWake
  <2>3. ASSUME NEW s \in Seqs, Gate!Recheck(s) PROVE Gate!TypeOK'
    BY <2>3 DEF Gate!Recheck
  <2>4. ASSUME NEW s \in Seqs, Gate!Release(s) PROVE Gate!TypeOK'
    BY <2>4 DEF Gate!Release
  <2>5. ASSUME NEW s \in Seqs, Gate!NotifyAll(s) PROVE Gate!TypeOK'
    BY <2>5 DEF Gate!NotifyAll
  <2>6. CASE UNCHANGED Gate!vars
    BY <2>6 DEF Gate!vars
  <2> QED
    BY <2>1, <2>2, <2>3, <2>4, <2>5, <2>6 DEF Gate!Next, Gate!Proceed
<1> QED
  BY <1>1, <1>2, PTL DEF Gate!Spec

(* The step of the inductive invariant: handing out a ticket, letting a      *)
(* waiter in and serving the next ticket keep the tickets distinct.          *)
LEMMA GateStep ==
  ASSUME GateInv, Gate!TypeOK', [Gate!Next]_(Gate!vars)
  PROVE  GateInv'
<1> USE DEF GateInv, Gate!TypeOK, Gate!Places, Gate!Queued, InQueue
<1>1. ASSUME NEW s \in Seqs, Gate!Enter(s) PROVE GateInv'
  <2>1. /\ next' = next + 1 /\ serving' = serving
        /\ ticket' = [ticket EXCEPT ![s] = next]
        /\ InQueue' = InQueue \cup {s}
    BY <1>1 DEF Gate!Enter
  <2>2. TicketsInRange'
    BY <1>1, <2>1 DEF TicketsInRange
  <2>3. TicketsDistinct'
    BY <1>1, <2>1 DEF TicketsDistinct, TicketsInRange
  <2>4. InsideIsServed'
    BY <1>1 DEF InsideIsServed, Gate!Enter
  <2> QED
    BY <2>2, <2>3, <2>4
<1>2. ASSUME NEW s \in Seqs, Gate!SpuriousWake(s) PROVE GateInv'
  <2>1. InQueue' = InQueue
    BY <1>2 DEF Gate!SpuriousWake
  <2> QED
    BY <1>2, <2>1 DEF Gate!SpuriousWake, TicketsInRange, TicketsDistinct, InsideIsServed
<1>3. ASSUME NEW s \in Seqs, Gate!Recheck(s) PROVE GateInv'
  <2>1. InQueue' = InQueue
    BY <1>3 DEF Gate!Recheck
  <2> QED
    BY <1>3, <2>1 DEF Gate!Recheck, TicketsInRange, TicketsDistinct, InsideIsServed
<1>4. ASSUME NEW s \in Seqs, Gate!Release(s) PROVE GateInv'
  <2>1. /\ next' = next /\ serving' = serving + 1 /\ ticket' = ticket
        /\ InQueue' = InQueue \ {s} /\ s \in InQueue /\ ticket[s] = serving
    BY <1>4 DEF Gate!Release, InsideIsServed
  <2>2. \A u \in InQueue \ {s} : ticket[u] # serving
    BY <2>1 DEF TicketsDistinct
  <2>3. TicketsInRange'
    BY <2>1, <2>2 DEF TicketsInRange
  <2>4. TicketsDistinct'
    BY <2>1 DEF TicketsDistinct
  <2>5. \A u \in Seqs : at'[u] # "in"
    <3> SUFFICES ASSUME NEW u \in Seqs, at'[u] = "in" PROVE FALSE
      OBVIOUS
    <3>1. u # s /\ at[u] = "in"
      BY <1>4 DEF Gate!Release
    <3> QED
      BY <2>1, <2>2, <3>1 DEF InsideIsServed
  <2> QED
    BY <2>3, <2>4, <2>5 DEF InsideIsServed
<1>5. ASSUME NEW s \in Seqs, Gate!NotifyAll(s) PROVE GateInv'
  <2>1. InQueue' = InQueue /\ \A u \in Seqs : at'[u] = "in" => at[u] = "in"
    BY <1>5 DEF Gate!NotifyAll
  <2> QED
    BY <1>5, <2>1 DEF Gate!NotifyAll, TicketsInRange, TicketsDistinct, InsideIsServed
<1>6. CASE UNCHANGED Gate!vars
  BY <1>6 DEF Gate!vars, TicketsInRange, TicketsDistinct, InsideIsServed
<1> QED
  BY <1>1, <1>2, <1>3, <1>4, <1>5, <1>6 DEF Gate!Next, Gate!Proceed

(* The tickets of the queued sequences are distinct and between the two      *)
(* counters, and the one inside has the one being served.                    *)
THEOREM TicketsKept == Gate!Spec => []GateInv
<1>1. Gate!Init => GateInv
  BY DEF Gate!Init, GateInv, Gate!TypeOK, Gate!Places, Gate!Queued, InQueue, TicketsInRange, TicketsDistinct,
         InsideIsServed
<1>2. GateInv /\ Gate!TypeOK' /\ [Gate!Next]_(Gate!vars) => GateInv'
  BY GateStep
<1> QED
  BY <1>1, <1>2, GateTypeCorrect, PTL DEF Gate!Spec

(* At most one sequence records GPU work at a time.                         *)
THEOREM OneAtATime == Gate!Spec => []OneBaton
<1>1. GateInv => OneBaton
  BY DEF GateInv, TicketsDistinct, InsideIsServed, OneBaton, Gate!OneBaton, InQueue, Gate!Queued
<1> QED
  BY <1>1, TicketsKept, PTL

(* The baton is handed on in ticket order, whoever wakes first.             *)
THEOREM TicketOrder == Gate!Spec => Gate!FirstComeFirstServed
<1> DEFINE Ordered ==
      \A s \in Seqs : at[s] # "in" /\ at'[s] = "in" =>
        \A u \in Seqs \ {s} : at[u] \in Gate!Queued => ticket'[s] < ticket[u]
<1>1. GateInv /\ [Gate!Next]_(Gate!vars) => [Ordered]_(Gate!vars)
  <2> SUFFICES ASSUME GateInv, Gate!Next,
                      NEW s \in Seqs, at[s] # "in", at'[s] = "in",
                      NEW u \in Seqs \ {s}, at[u] \in Gate!Queued
               PROVE  ticket'[s] < ticket[u]
    OBVIOUS
  <2> USE DEF GateInv, Gate!TypeOK, Gate!Places, Gate!Queued, InQueue
  <2>1. u \in InQueue /\ serving <= ticket[u] /\ ticket[u] < next
    BY DEF TicketsInRange
  <2>2. Gate!Enter(s) \/ Gate!Recheck(s)
    BY DEF Gate!Next, Gate!Proceed, Gate!Enter, Gate!SpuriousWake, Gate!Recheck, Gate!Release, Gate!NotifyAll
  <2>3. CASE Gate!Enter(s)
    BY <2>1, <2>3 DEF Gate!Enter
  <2>4. CASE Gate!Recheck(s)
    <3>1. ticket'[s] = serving /\ ticket[s] = serving /\ s \in InQueue
      BY <2>4 DEF Gate!Recheck
    <3>2. ticket[u] # serving
      BY <2>1, <3>1 DEF TicketsDistinct
    <3> QED
      BY <2>1, <3>1, <3>2
  <2> QED
    BY <2>2, <2>3, <2>4
<1> QED
  BY <1>1, TicketsKept, PTL DEF Gate!Spec, Gate!FirstComeFirstServed

(* No lost wake-up: the sequence whose turn it is sleeps only while a         *)
(* notify_all is still to come.                                             *)
THEOREM NoLostWakeup == Gate!Spec => []NobodyForgotten
<1>1. Gate!Init => NobodyForgotten
  BY DEF Gate!Init, NobodyForgotten, Gate!NobodyForgotten
<1>2. GateInv /\ NobodyForgotten /\ [Gate!Next]_(Gate!vars) => NobodyForgotten'
  <2> SUFFICES ASSUME GateInv, NobodyForgotten, [Gate!Next]_(Gate!vars),
                      NEW v \in Seqs, at'[v] = "asleep", ticket'[v] = serving'
               PROVE  \E u \in Seqs : at'[u] = "notify"
    BY DEF NobodyForgotten, Gate!NobodyForgotten
  <2> USE DEF GateInv, Gate!TypeOK, Gate!Places, NobodyForgotten, Gate!NobodyForgotten
  <2>1. ASSUME NEW s \in Seqs, Gate!Enter(s) PROVE \E u \in Seqs : at'[u] = "notify"
    <3>1. at[v] = "asleep" /\ ticket[v] = serving
      BY <2>1 DEF Gate!Enter
    <3> QED
      BY <2>1, <3>1 DEF Gate!Enter
  <2>2. ASSUME NEW s \in Seqs, Gate!SpuriousWake(s) PROVE \E u \in Seqs : at'[u] = "notify"
    BY <2>2 DEF Gate!SpuriousWake
  <2>3. ASSUME NEW s \in Seqs, Gate!Recheck(s) PROVE \E u \in Seqs : at'[u] = "notify"
    BY <2>3 DEF Gate!Recheck
  <2>4. ASSUME NEW s \in Seqs, Gate!Release(s) PROVE \E u \in Seqs : at'[u] = "notify"
    BY <2>4 DEF Gate!Release
  <2>5. ASSUME NEW s \in Seqs, Gate!NotifyAll(s) PROVE FALSE
    BY <2>5 DEF Gate!NotifyAll
  <2>6. CASE UNCHANGED Gate!vars
    BY <2>6 DEF Gate!vars
  <2> QED
    BY <2>1, <2>2, <2>3, <2>4, <2>5, <2>6 DEF Gate!Next, Gate!Proceed
<1> QED
  BY <1>1, <1>2, TicketsKept, PTL DEF Gate!Spec

-----------------------------------------------------------------------------
(* Every ticket between the two counters belongs to a queued sequence, so    *)
(* none is ever skipped: the queue cannot jam on a ticket nobody holds.      *)
THEOREM NoTicketLost == Gate!Spec => []TicketsCounted
<1> USE SeqsFinite
<1>1. Gate!Init => TicketsCounted
  <2> SUFFICES ASSUME Gate!Init PROVE TicketsCounted
    OBVIOUS
  <2>1. InQueue = {}
    BY DEF Gate!Init, InQueue, Gate!Queued
  <2> QED
    BY <2>1, FS_EmptySet DEF Gate!Init, TicketsCounted
<1>2. GateInv /\ TicketsCounted /\ [Gate!Next]_(Gate!vars) => TicketsCounted'
  <2> SUFFICES ASSUME GateInv, TicketsCounted, [Gate!Next]_(Gate!vars) PROVE TicketsCounted'
    OBVIOUS
  <2> USE DEF GateInv, Gate!TypeOK, Gate!Places, TicketsCounted
  <2>0. IsFiniteSet(InQueue) /\ Cardinality(InQueue) \in Nat
    BY FS_Subset, FS_CardinalityType DEF InQueue
  <2>1. ASSUME NEW s \in Seqs, Gate!Enter(s) PROVE TicketsCounted'
    <3>1. InQueue' = InQueue \cup {s} /\ s \notin InQueue
      BY <2>1 DEF Gate!Enter, InQueue, Gate!Queued
    <3>2. Cardinality(InQueue') = Cardinality(InQueue) + 1
      BY <2>0, <3>1, FS_AddElement
    <3> QED
      BY <2>0, <2>1, <3>2 DEF Gate!Enter
  <2>2. ASSUME NEW s \in Seqs, Gate!SpuriousWake(s) PROVE TicketsCounted'
    <3>1. InQueue' = InQueue
      BY <2>2 DEF Gate!SpuriousWake, InQueue, Gate!Queued
    <3> QED
      BY <2>2, <3>1 DEF Gate!SpuriousWake
  <2>3. ASSUME NEW s \in Seqs, Gate!Recheck(s) PROVE TicketsCounted'
    <3>1. InQueue' = InQueue
      BY <2>3 DEF Gate!Recheck, InQueue, Gate!Queued
    <3> QED
      BY <2>3, <3>1 DEF Gate!Recheck
  <2>4. ASSUME NEW s \in Seqs, Gate!Release(s) PROVE TicketsCounted'
    <3>1. InQueue' = InQueue \ {s} /\ s \in InQueue
      BY <2>4 DEF Gate!Release, InQueue, Gate!Queued
    <3>2. Cardinality(InQueue') = Cardinality(InQueue) - 1
      BY <2>0, <3>1, FS_RemoveElement
    <3> QED
      BY <2>0, <2>4, <3>2 DEF Gate!Release
  <2>5. ASSUME NEW s \in Seqs, Gate!NotifyAll(s) PROVE TicketsCounted'
    <3>1. InQueue' = InQueue
      BY <2>5 DEF Gate!NotifyAll, InQueue, Gate!Queued
    <3> QED
      BY <2>5, <3>1 DEF Gate!NotifyAll
  <2>6. CASE UNCHANGED Gate!vars
    <3>1. InQueue' = InQueue
      BY <2>6 DEF Gate!vars, InQueue
    <3> QED
      BY <2>6, <3>1 DEF Gate!vars
  <2> QED
    BY <2>1, <2>2, <2>3, <2>4, <2>5, <2>6 DEF Gate!Next, Gate!Proceed
<1> QED
  BY <1>1, <1>2, TicketsKept, PTL DEF Gate!Spec

(* A sequence that waits is passed at most once by each of the others.       *)
THEOREM FairTurns == Gate!Spec => []RoundRobin
<1>1. GateInv /\ TicketsCounted => RoundRobin
  <2> SUFFICES ASSUME GateInv, TicketsCounted, NEW s \in Seqs, at[s] \in Gate!Queued
               PROVE  ticket[s] - serving < Cardinality(Seqs)
    <3>1. Gate!Cardinality(Seqs) = Cardinality(Seqs)
      BY DEF Gate!Cardinality, Cardinality
    <3> QED
      BY <3>1 DEF RoundRobin, Gate!RoundRobin
  <2>1. s \in InQueue /\ ticket[s] < next /\ {next, serving, ticket[s]} \subseteq Nat
    BY DEF GateInv, Gate!TypeOK, TicketsInRange, InQueue
  <2>2. /\ Cardinality(InQueue) <= Cardinality(Seqs)
        /\ Cardinality(InQueue) \in Nat /\ Cardinality(Seqs) \in Nat
    BY SeqsFinite, FS_Subset, FS_CardinalityType DEF InQueue
  <2> QED
    BY <2>1, <2>2 DEF TicketsCounted
<1> QED
  BY <1>1, TicketsKept, NoTicketLost, PTL

-----------------------------------------------------------------------------
(* The CPU fork-join pool.                                                  *)

(* A pool has some number of workers, a job is of some size, and the empty     *)
(* slot is nobody's job.                                                     *)
Sized ==
  /\ \A k \in Crews : k.workers \in Nat
  /\ MaxTasks \in Nat
  /\ NoJob \notin Callers

Jobs == Callers \cup {NoJob}
Idle == {"look", "spun", "recheck", "park", "awake"}
Working == {"claim", "task", "checkin"}
Busy == Working \cup {"begin"}
ActiveAt == {"wake", "claim", "task", "wait"}
OnPoolAt == ActiveAt \cup {"publish", "bump", "clear", "free"}
CallerAt == OnPoolAt \cup {"idle", "returned", "panicked", "inline", "rayon"}

WorkerRec ==
  [at : Idle \cup Busy \cup {"exited", "died"}, seen : Nat, job : Jobs, n : 0 .. MaxTasks,
   task : Nat]
CallerRec ==
  [at : CallerAt, n : 0 .. MaxTasks, task : Nat, wake : SUBSET Workers, raise : BOOLEAN,
   calls : Nat]
PoolRec ==
  [job : Jobs, seq : Nat, cursor : Nat, n : 0 .. MaxTasks, done : Nat, panicked : BOOLEAN,
   shutdown : BOOLEAN, busy : BOOLEAN]

TypeOK ==
  /\ crew \in Crews
  /\ pool \in PoolRec
  /\ worker \in [Workers -> WorkerRec]
  /\ caller \in [Callers -> CallerRec]
  /\ closing \in [at : {"live", "shut", "wake", "join", "gone"}, wake : SUBSET Workers]
  /\ ran \in [Callers -> [Tasks -> Nat]]
  /\ fell \in [Callers -> BOOLEAN]

Active(c) == caller[c].at \in ActiveAt
OnPool(c) == caller[c].at \in OnPoolAt

(* in_run lets one caller at a time use the pool.                            *)
OneOnPool ==
  /\ \A c, d \in Callers : OnPool(c) /\ OnPool(d) => c = d
  /\ \A c \in Callers : OnPool(c) => pool.busy

(* Drop has the pool to itself.                                             *)
DropIsAlone ==
  /\ pool.shutdown <=> closing.at # "live"
  /\ closing.at # "live" => \A c \in Callers : ~InCall(c)

(* What is published is the job of the caller that is at work on it.           *)
SlotIsMine ==
  \A c \in Callers : Active(c) \/ caller[c].at = "bump" =>
    /\ pool.job = c /\ pool.n = caller[c].n
    /\ caller[c].at = "bump" => pool.done = 0 /\ pool.cursor = 0

(* The workers between jobs: they have seen them all and are at none.          *)
NobodyAtWork == \A w \in Workers : worker[w].seen = pool.seq /\ worker[w].at \notin Busy

QuietBetweenJobs ==
  closing.at \in {"live", "shut"} /\ (\A c \in Callers : ~Active(c)) => NobodyAtWork

(* The workers during a job: those that began it work for it, and done counts   *)
(* those that are through.                                                  *)
CheckedIn == {w \in Workers : worker[w].seen = pool.seq /\ worker[w].at \notin Busy}

WorkIsCounted ==
  \A c \in Callers : Active(c) =>
    /\ \A w \in Workers :
         /\ worker[w].at \in Busy => worker[w].seen = pool.seq
         /\ worker[w].at \in Working => worker[w].job = c /\ worker[w].n = caller[c].n
    /\ pool.done = Cardinality(CheckedIn)

(* A pool that is being dropped starts no job, and nobody ever dies.           *)
DropEndsWork ==
  /\ closing.at \in {"wake", "join", "gone"} =>
       \A w \in Workers : worker[w].at \notin Working
  /\ closing.at = "gone" => \A w \in Workers : worker[w].at = "exited"
  /\ \A w \in Workers : worker[w].at # "died"

PoolInv ==
  /\ TypeOK
  /\ OneOnPool /\ DropIsAlone /\ SlotIsMine /\ QuietBetweenJobs /\ WorkIsCounted /\ DropEndsWork

-----------------------------------------------------------------------------
LEMMA PoolInvIsEnough == ASSUME PoolInv PROVE ClosureOutlivesItsUse
<1>1. ASSUME NEW w \in Workers, worker[w].at \in Working
      PROVE  \E c \in Callers : Active(c)
  <2>1. closing.at \in {"live", "shut"}
    BY <1>1 DEF PoolInv, DropEndsWork, TypeOK
  <2> QED
    BY <1>1, <2>1 DEF PoolInv, QuietBetweenJobs, NobodyAtWork, Busy
<1>2. ASSUME NEW w \in Workers, worker[w].at \in Working
      PROVE  /\ pool.busy
             /\ caller[worker[w].job].at \in {"wake", "claim", "task", "wait"}
             /\ worker[w].seen = pool.seq
             /\ worker[w].n = caller[worker[w].job].n
  <2>1. PICK c \in Callers : Active(c)
    BY <1>1, <1>2
  <2>2. worker[w].job = c /\ worker[w].n = caller[c].n /\ worker[w].seen = pool.seq
    BY <1>2, <2>1 DEF PoolInv, WorkIsCounted, Busy
  <2> QED
    BY <2>1, <2>2 DEF PoolInv, OneOnPool, OnPool, OnPoolAt, Active, ActiveAt
<1> QED
  BY <1>2 DEF PoolInv, DropEndsWork, ClosureOutlivesItsUse, Working

LEMMA InitialPool == ASSUME Sized, Init PROVE PoolInv
<1>1. TypeOK
  BY DEF Sized, Init, TypeOK, PoolRec, WorkerRec, CallerRec, AtRest, Jobs, Idle, Busy, Working,
         CallerAt, Tasks
<1>2. \A c \in Callers : caller[c].at = "idle"
  BY DEF Init
<1>3. \A w \in Workers : worker[w].at = "look" /\ worker[w].seen = pool.seq
  BY DEF Init, AtRest
<1>4. closing.at = "live" /\ pool.shutdown = FALSE
  BY DEF Init
<1> QED
  BY <1>1, <1>2, <1>3, <1>4
     DEF PoolInv, OneOnPool, OnPool, OnPoolAt, Active, ActiveAt, DropIsAlone, SlotIsMine,
         QuietBetweenJobs, NobodyAtWork, WorkIsCounted, DropEndsWork, Busy, Working

-----------------------------------------------------------------------------
(* What the steps of a worker do.                                            *)
SamePool ==
  /\ pool'.seq = pool.seq /\ pool'.job = pool.job /\ pool'.n = pool.n
  /\ pool'.shutdown = pool.shutdown /\ pool'.busy = pool.busy

(* A worker goes on as before, until there is a job for it...                  *)
Waits(w) ==
  /\ worker[w].at \in Idle /\ worker'[w].at \in Idle \cup {"exited"}
  /\ worker'[w].at = "exited" => pool.shutdown
  /\ worker'[w].seen = worker[w].seen
  /\ pool' = pool

Notices(w) ==
  /\ worker[w].at \in Idle /\ worker[w].seen # pool.seq
  /\ worker'[w].at = "begin" /\ worker'[w].seen = pool.seq
  /\ pool' = pool

Begins(w) ==
  /\ worker[w].at = "begin" /\ worker'[w].seen = worker[w].seen
  /\ worker'[w].at = IF pool.shutdown THEN "exited"
                     ELSE IF pool.job = NoJob THEN "died" ELSE "claim"
  /\ worker'[w].job = pool.job /\ worker'[w].n = pool.n
  /\ pool' = pool

(* ... which it goes through, and checks in.                                  *)
Works(w) ==
  /\ worker[w].at \in {"claim", "task"} /\ worker'[w].at \in Working
  /\ worker'[w].seen = worker[w].seen /\ worker'[w].job = worker[w].job
  /\ worker'[w].n = worker[w].n
  /\ pool'.done = pool.done

EndsWork(w) ==
  /\ worker[w].at = "checkin" /\ worker'[w].at = "look" /\ worker'[w].seen = worker[w].seen
  /\ pool'.done = pool.done + 1

(* One more run of a task.                                                   *)
LEMMA RanType ==
  ASSUME ran \in [Callers -> [Tasks -> Nat]], NEW c, NEW t,
         ran' = [ran EXCEPT ![c][t] = @ + 1]
  PROVE  ran' \in [Callers -> [Tasks -> Nat]]
<1>1. CASE c \in Callers
  <2> DEFINE r == [ran[c] EXCEPT ![t] = ran[c][t] + 1]
  <2>1. ran[c] \in [Tasks -> Nat]
    BY <1>1
  <2>2. r \in [Tasks -> Nat]
    <3>1. t \in Tasks => ran[c][t] + 1 \in Nat
      BY <2>1
    <3>2. \A u \in Tasks : r[u] \in Nat
      BY <2>1, <3>1
    <3> QED
      BY <2>1, <3>2
  <2>3. ran' = [ran EXCEPT ![c] = r]
    OBVIOUS
  <2> QED
    BY <2>2, <2>3
<1>2. CASE c \notin Callers
  BY <1>2
<1> QED
  BY <1>1, <1>2

LEMMA WorkerFacts ==
  ASSUME Sized, TypeOK, crew' = crew, NEW w \in Workers, WorkerStep(w) \/ SpuriousWake(w)
  PROVE  /\ TypeOK'
         /\ caller' = caller /\ closing' = closing
         /\ \A v \in Workers : v # w => worker'[v] = worker[v]
         /\ SamePool
         /\ Waits(w) \/ Notices(w) \/ Begins(w) \/ Works(w) \/ EndsWork(w)
<1>0. worker \in [Workers -> WorkerRec] /\ worker[w] \in WorkerRec /\ pool \in PoolRec
  BY DEF TypeOK
<1>1. Workers' = Workers /\ CallerRec' = CallerRec
  BY DEF Workers, CallerRec
<1> DEFINE Becomes(r) == worker' = [worker EXCEPT ![w] = r] /\ r \in WorkerRec
<1>2. ASSUME NEW r, Becomes(r)
      PROVE  /\ worker' \in [Workers -> WorkerRec] /\ worker'[w] = r
             /\ \A v \in Workers : v # w => worker'[v] = worker[v]
  BY <1>0, <1>2
<1>3. ASSUME NEW from \in Idle, NEW to \in Idle, Goes(w, from, to), pool' = pool,
             caller' = caller, closing' = closing, ran' = ran, fell' = fell
      PROVE  TypeOK' /\ Waits(w) /\ SamePool /\ \A v \in Workers : v # w => worker'[v] = worker[v]
  <2>1. Becomes([worker[w] EXCEPT !.at = to])
    BY <1>0, <1>3 DEF Goes, WorkerRec
  <2>2. /\ worker' \in [Workers -> WorkerRec] /\ worker'[w] = [worker[w] EXCEPT !.at = to]
        /\ \A v \in Workers : v # w => worker'[v] = worker[v]
    BY <1>2, <2>1
  <2>3. Waits(w)
    BY <1>0, <1>3, <2>2 DEF Waits, WorkerRec, Goes, Idle
  <2> QED
    BY <1>1, <1>3, <2>2, <2>3 DEF TypeOK, SamePool
<1>4. CASE PublishSleep(w) \/ Recheck(w) \/ Park(w) \/ SpuriousWake(w) \/ ClearFlag(w)
  BY <1>3, <1>4 DEF PublishSleep, Recheck, Park, SpuriousWake, ClearFlag, UserVars, Idle
<1>5. CASE Look(w)
  <2>1. CASE pool.seq # worker[w].seen
    <3>1. Becomes([worker[w] EXCEPT !.seen = pool.seq, !.at = "begin"])
      BY <1>0, <1>5, <2>1 DEF Look, WorkerRec, PoolRec, Busy
    <3>2. /\ worker' \in [Workers -> WorkerRec]
          /\ worker'[w] = [worker[w] EXCEPT !.seen = pool.seq, !.at = "begin"]
          /\ \A v \in Workers : v # w => worker'[v] = worker[v]
      BY <1>2, <3>1
    <3>3. Notices(w)
      BY <1>0, <1>5, <2>1, <3>2 DEF Look, Notices, Idle, WorkerRec
    <3> QED
      BY <1>1, <1>5, <3>2, <3>3 DEF Look, UserVars, TypeOK, SamePool
  <2>2. CASE pool.seq = worker[w].seen
    <3> DEFINE to == IF pool.shutdown THEN "exited" ELSE "spun"
    <3>1. Becomes([worker[w] EXCEPT !.at = to])
      BY <1>0, <1>5, <2>2 DEF Look, WorkerRec, Idle
    <3>2. /\ worker' \in [Workers -> WorkerRec] /\ worker'[w] = [worker[w] EXCEPT !.at = to]
          /\ \A v \in Workers : v # w => worker'[v] = worker[v]
      BY <1>2, <3>1
    <3>3. Waits(w)
      BY <1>0, <1>5, <3>2 DEF Look, Waits, Idle, WorkerRec
    <3> QED
      BY <1>1, <1>5, <3>2, <3>3 DEF Look, UserVars, TypeOK, SamePool
  <2> QED
    BY <2>1, <2>2
<1>6. CASE Begin(w)
  <2> DEFINE to == IF pool.shutdown THEN "exited"
                   ELSE IF pool.job = NoJob THEN "died" ELSE "claim"
             r == [worker[w] EXCEPT !.at = to, !.job = pool.job, !.n = pool.n]
  <2>1. Becomes(r)
    BY <1>0, <1>6 DEF Begin, WorkerRec, PoolRec, Busy, Working
  <2>2. /\ worker' \in [Workers -> WorkerRec] /\ worker'[w] = r
        /\ \A v \in Workers : v # w => worker'[v] = worker[v]
    BY <1>2, <2>1
  <2>3. Begins(w)
    BY <1>0, <1>6, <2>2 DEF Begin, Begins, WorkerRec
  <2> QED
    BY <1>1, <1>6, <2>2, <2>3 DEF Begin, UserVars, TypeOK, SamePool
<1>7. CASE Claim(w)
  <2> DEFINE to == IF pool.cursor < worker[w].n THEN "task" ELSE "checkin"
             r == [worker[w] EXCEPT !.at = to, !.task = pool.cursor]
  <2>1. Becomes(r)
    BY <1>0, <1>7 DEF Claim, WorkerRec, PoolRec, Busy, Working
  <2>2. /\ worker' \in [Workers -> WorkerRec] /\ worker'[w] = r
        /\ \A v \in Workers : v # w => worker'[v] = worker[v]
    BY <1>2, <2>1
  <2>3. pool' = [pool EXCEPT !.cursor = pool.cursor + 1] /\ pool' \in PoolRec
    BY <1>0, <1>7 DEF Claim, PoolRec
  <2>4. Works(w) /\ SamePool
    BY <1>0, <1>7, <2>2, <2>3 DEF Claim, Works, SamePool, Working, WorkerRec, PoolRec
  <2> QED
    BY <1>1, <1>7, <2>2, <2>3, <2>4 DEF Claim, UserVars, TypeOK
<1>8. CASE WorkerTask(w)
  <2> DEFINE r == [worker[w] EXCEPT !.at = "claim"]
             c == worker[w].job
             t == worker[w].task
  <2>1. Becomes(r)
    BY <1>0, <1>8 DEF WorkerTask, Goes, WorkerRec, Busy, Working
  <2>2. /\ worker' \in [Workers -> WorkerRec] /\ worker'[w] = r
        /\ \A v \in Workers : v # w => worker'[v] = worker[v]
    BY <1>2, <2>1
  <2>3. /\ pool' \in PoolRec /\ SamePool /\ pool'.done = pool.done
        /\ fell' \in [Callers -> BOOLEAN]
    <3>1. PICK panics \in BOOLEAN :
            /\ fell' = [fell EXCEPT ![c] = @ \/ panics]
            /\ pool' = [pool EXCEPT !.panicked = @ \/ panics]
      BY <1>8 DEF WorkerTask, Runs
    <3> QED
      BY <1>0, <3>1 DEF TypeOK, PoolRec, SamePool
  <2>4. ran' \in [Callers -> [Tasks -> Nat]]
    BY <1>8, RanType DEF WorkerTask, Runs, TypeOK
  <2>5. Works(w)
    BY <1>0, <1>8, <2>2, <2>3 DEF WorkerTask, Goes, Works, Working, WorkerRec
  <2> QED
    BY <1>1, <1>8, <2>2, <2>3, <2>4, <2>5 DEF WorkerTask, TypeOK
<1>9. CASE CheckIn(w)
  <2> DEFINE r == [AtRest EXCEPT !.seen = worker[w].seen]
  <2>1. Becomes(r)
    BY <1>0, <1>9 DEF CheckIn, WorkerRec, AtRest, Idle, Jobs, Sized
  <2>2. /\ worker' \in [Workers -> WorkerRec] /\ worker'[w] = r
        /\ \A v \in Workers : v # w => worker'[v] = worker[v]
    BY <1>2, <2>1
  <2>3. pool' = [pool EXCEPT !.done = pool.done + 1] /\ pool' \in PoolRec
    BY <1>0, <1>9 DEF CheckIn, PoolRec
  <2>4. EndsWork(w) /\ SamePool
    BY <1>0, <1>9, <2>2, <2>3 DEF CheckIn, EndsWork, SamePool, AtRest, PoolRec
  <2> QED
    BY <1>1, <1>9, <2>2, <2>3, <2>4 DEF CheckIn, UserVars, TypeOK
<1> QED
  BY <1>4, <1>5, <1>6, <1>7, <1>8, <1>9 DEF WorkerStep

(* What the steps of a caller do.                                            *)
Calls(c) ==
  /\ closing.at = "live" /\ ~InCall(c)
  /\ caller'[c].at \in {"inline", "rayon", "publish"}
  /\ caller'[c].at = "publish" => ~pool.busy /\ pool'.busy
  /\ SamePool \/ pool'.busy
  /\ pool'.seq = pool.seq /\ pool'.job = pool.job /\ pool'.n = pool.n
  /\ pool'.done = pool.done /\ pool'.shutdown = pool.shutdown
  /\ pool'.cursor = pool.cursor /\ pool'.panicked = pool.panicked

StaysOff(c) ==
  /\ caller[c].at \in {"inline", "rayon"}
  /\ caller'[c].at \in {"inline", "rayon", "returned", "panicked"}
  /\ pool' = pool

Publishes(c) ==
  /\ caller[c].at = "publish" /\ caller'[c].at = "bump" /\ caller'[c].n = caller[c].n
  /\ pool' = [pool EXCEPT !.job = c, !.cursor = 0, !.n = caller[c].n, !.done = 0]

Bumps(c) ==
  /\ caller[c].at = "bump" /\ caller'[c].at = "wake" /\ caller'[c].n = caller[c].n
  /\ pool' = [pool EXCEPT !.seq = pool.seq + 1]

WorksOn(c) ==
  /\ Active(c) /\ caller'[c].at \in ActiveAt /\ caller'[c].n = caller[c].n
  /\ SamePool /\ pool'.done = pool.done

Leaves(c) ==
  /\ caller[c].at = "wait" /\ caller'[c].at = "clear"
  /\ pool.done >= Cardinality(Workers) /\ pool' = pool

Clears(c) ==
  /\ caller[c].at = "clear" /\ caller'[c].at = "free"
  /\ pool' = [pool EXCEPT !.job = NoJob, !.panicked = FALSE]

Releases(c) ==
  /\ caller[c].at = "free" /\ caller'[c].at \in {"returned", "panicked"}
  /\ pool' = [pool EXCEPT !.busy = FALSE]

LEMMA CallerFacts ==
  ASSUME Sized, TypeOK, crew' = crew, NEW c \in Callers, Call(c) \/ RunStep(c)
  PROVE  /\ TypeOK'
         /\ worker' = worker /\ closing' = closing
         /\ \A d \in Callers : d # c => caller'[d] = caller[d]
         /\ \/ Calls(c) \/ StaysOff(c) \/ Publishes(c) \/ Bumps(c) \/ WorksOn(c)
            \/ Leaves(c) \/ Clears(c) \/ Releases(c)
<1>0. /\ caller \in [Callers -> CallerRec] /\ caller[c] \in CallerRec /\ pool \in PoolRec
      /\ ran \in [Callers -> [Tasks -> Nat]] /\ fell \in [Callers -> BOOLEAN]
  BY DEF TypeOK
<1>1. Workers' = Workers /\ CallerRec' = CallerRec
  BY DEF Workers, CallerRec
<1> DEFINE Becomes(r) ==
             caller' = [caller EXCEPT ![c] = r] /\ r \in CallerRec
           Typed ==
             /\ pool' \in PoolRec /\ worker' = worker /\ closing' = closing
             /\ ran' \in [Callers -> [Tasks -> Nat]] /\ fell' \in [Callers -> BOOLEAN]
<1>2. ASSUME NEW r, Becomes(r)
      PROVE  /\ caller' \in [Callers -> CallerRec] /\ caller'[c] = r
             /\ \A d \in Callers : d # c => caller'[d] = caller[d]
  BY <1>0, <1>2
<1>3. ASSUME NEW r, Becomes(r), Typed
      PROVE  /\ TypeOK' /\ worker' = worker /\ closing' = closing /\ caller'[c] = r
             /\ \A d \in Callers : d # c => caller'[d] = caller[d]
  BY <1>1, <1>2, <1>3 DEF TypeOK
<1>4. CASE Call(c)
  <2>1. PICK n \in 0 .. MaxTasks :
          LET inline == n <= 1 \/ Workers = {}
          IN  /\ caller' = [caller EXCEPT ![c] =
                   [at |-> IF inline THEN "inline" ELSE IF pool.busy THEN "rayon" ELSE "publish",
                    n |-> n, task |-> 0, wake |-> {}, raise |-> FALSE, calls |-> @.calls + 1]]
              /\ pool' = [pool EXCEPT !.busy = @ \/ ~inline]
    BY <1>4 DEF Call
  <2> DEFINE inline == n <= 1 \/ Workers = {}
             to == IF inline THEN "inline" ELSE IF pool.busy THEN "rayon" ELSE "publish"
             r == [at |-> to, n |-> n, task |-> 0, wake |-> {}, raise |-> FALSE,
                   calls |-> caller[c].calls + 1]
  <2>2. Becomes(r)
    BY <1>0, <2>1 DEF CallerRec, CallerAt, OnPoolAt
  <2>3. pool' = [pool EXCEPT !.busy = pool.busy \/ ~inline] /\ pool' \in PoolRec
    BY <1>0, <2>1 DEF PoolRec
  <2>4. [ran EXCEPT ![c] = [t \in Tasks |-> 0]] \in [Callers -> [Tasks -> Nat]]
    BY <1>0
  <2>5. Typed
    BY <1>0, <1>4, <2>3, <2>4 DEF Call
  <2>6. Calls(c)
    <3>0. caller'[c] = r
      <4> HIDE DEF r
      <4> QED
        BY <1>2, <2>2
    <3>1. caller'[c].at = to
      BY <3>0
    <3>2. pool'.busy = (pool.busy \/ ~inline)
      BY <1>0, <2>3 DEF PoolRec
    <3>3. to = "publish" => ~pool.busy /\ ~inline
      OBVIOUS
    <3>4. closing.at = "live" /\ ~InCall(c)
      BY <1>4 DEF Call, InCall
    <3>5. /\ pool'.seq = pool.seq /\ pool'.job = pool.job /\ pool'.n = pool.n
          /\ pool'.done = pool.done /\ pool'.shutdown = pool.shutdown
          /\ pool'.cursor = pool.cursor /\ pool'.panicked = pool.panicked
      BY <1>0, <2>3 DEF PoolRec
    <3>6. to \in {"inline", "rayon", "publish"}
      OBVIOUS
    <3>7. pool.busy \in BOOLEAN /\ pool'.busy \in BOOLEAN
      BY <1>0, <2>3 DEF PoolRec
    <3> HIDE DEF inline, to
    <3> QED
      BY <3>1, <3>2, <3>3, <3>4, <3>5, <3>6, <3>7 DEF Calls, SamePool
  <2> HIDE DEF r, Typed
  <2> QED
    BY <1>3, <2>2, <2>5, <2>6
<1>5. CASE InlineTask(c)
  <2>1. Becomes([caller[c] EXCEPT !.task = caller[c].task + 1])
    <3>1. [caller[c] EXCEPT !.task = caller[c].task + 1] \in CallerRec
      <4>1. caller[c].task + 1 \in Nat
        BY <1>0 DEF CallerRec
      <4>2. \A k \in Nat : [caller[c] EXCEPT !.task = k] \in CallerRec
        BY <1>0 DEF CallerRec
      <4> QED
        BY <4>1, <4>2
    <3> QED
      BY <1>5, <3>1 DEF InlineTask
  <2>2. Typed
    BY <1>0, <1>5, RanType DEF InlineTask, RunsHere, PoolVars
  <2>3. StaysOff(c)
    BY <1>0, <1>2, <1>5, <2>1 DEF InlineTask, StaysOff, PoolVars, CallerRec
  <2> QED
    BY <1>3, <2>1, <2>2, <2>3
<1>6. CASE RayonTask(c)
  <2>1. Typed /\ caller' = caller
    BY <1>0, <1>6, RanType DEF RayonTask, RunsHere, PoolVars
  <2>2. StaysOff(c)
    BY <1>6 DEF RayonTask, StaysOff, PoolVars
  <2> QED
    BY <1>0, <1>1, <2>1, <2>2 DEF TypeOK
<1>7. CASE OffPoolEnds(c)
  <2> DEFINE to == IF fell[c] THEN "panicked" ELSE "returned"
  <2>1. Becomes([caller[c] EXCEPT !.at = to])
    BY <1>0, <1>7 DEF OffPoolEnds, CallerRec, CallerAt
  <2>2. Typed
    BY <1>0, <1>7 DEF OffPoolEnds, PoolVars
  <2>3. StaysOff(c)
    BY <1>0, <1>2, <1>7, <2>1 DEF OffPoolEnds, StaysOff, PoolVars, CallerRec
  <2> QED
    BY <1>3, <2>1, <2>2, <2>3
<1>8. CASE Publish(c)
  <2>1. Becomes([caller[c] EXCEPT !.at = "bump"])
    BY <1>0, <1>8 DEF Publish, Moves, CallerRec, CallerAt, OnPoolAt
  <2>2. Typed
    BY <1>0, <1>8 DEF Publish, PoolRec, CallerRec, Jobs
  <2>3. Publishes(c)
    BY <1>0, <1>2, <1>8, <2>1 DEF Publish, Publishes, Moves, CallerRec
  <2> QED
    BY <1>3, <2>1, <2>2, <2>3
<1>9. CASE Bump(c)
  <2>1. Becomes([caller[c] EXCEPT !.at = "wake", !.wake = Workers])
    BY <1>0, <1>9 DEF Bump, CallerRec, CallerAt, OnPoolAt, ActiveAt
  <2>2. Typed
    BY <1>0, <1>9 DEF Bump, PoolRec
  <2>3. Bumps(c)
    BY <1>0, <1>2, <1>9, <2>1 DEF Bump, Bumps, CallerRec
  <2> QED
    BY <1>3, <2>1, <2>2, <2>3
<1>10. CASE WakeNext(c)
  <2> DEFINE w == First(caller[c].wake)
             to == IF caller[c].wake = {w} THEN "claim" ELSE "wake"
             r == [caller[c] EXCEPT !.wake = caller[c].wake \ {w}, !.at = to]
  <2>1. caller' = [caller EXCEPT ![c].wake = @ \ {w},
                                 ![c].at = IF caller[c].wake = {w} THEN "claim" ELSE @]
        /\ caller[c].at = "wake"
    BY <1>10 DEF WakeNext
  <2>2. Becomes(r)
    <3> HIDE DEF w
    <3> QED
      BY <1>0, <2>1 DEF CallerRec, CallerAt, OnPoolAt, ActiveAt
  <2>3. Typed
    BY <1>0, <1>10 DEF WakeNext
  <2>4. WorksOn(c)
    <3>1. caller'[c].at = to /\ caller'[c].n = caller[c].n
      BY <1>0, <1>2, <2>2 DEF CallerRec
    <3>2. pool' = pool
      BY <1>10 DEF WakeNext
    <3> QED
      BY <2>1, <3>1, <3>2 DEF WorksOn, Active, ActiveAt, SamePool
  <2> QED
    BY <1>3, <2>2, <2>3, <2>4
<1>11. CASE CallerClaim(c)
  <2> DEFINE to == IF pool.cursor < caller[c].n THEN "task" ELSE "wait"
  <2>1. Becomes([caller[c] EXCEPT !.at = to, !.task = pool.cursor])
    BY <1>0, <1>11 DEF CallerClaim, CallerRec, CallerAt, OnPoolAt, ActiveAt, PoolRec
  <2>2. Typed
    BY <1>0, <1>11, SMTT(20) DEF CallerClaim, PoolRec
  <2>3. WorksOn(c)
    BY <1>0, <1>2, <1>11, <2>1
       DEF CallerClaim, WorksOn, Active, ActiveAt, SamePool, CallerRec, PoolRec
  <2> QED
    BY <1>3, <2>1, <2>2, <2>3
<1>12. CASE CallerTask(c)
  <2>1. Becomes([caller[c] EXCEPT !.at = "claim"])
    BY <1>0, <1>12 DEF CallerTask, Moves, CallerRec, CallerAt, OnPoolAt, ActiveAt
  <2>2. PICK panics \in BOOLEAN :
          /\ fell' = [fell EXCEPT ![c] = @ \/ panics]
          /\ pool' = [pool EXCEPT !.panicked = @ \/ panics]
    BY <1>12 DEF CallerTask, Runs
  <2>3. pool' \in PoolRec /\ SamePool /\ pool'.done = pool.done
    BY <1>0, <2>2 DEF PoolRec, SamePool
  <2>4. ran' \in [Callers -> [Tasks -> Nat]]
    BY <1>0, <1>12, RanType DEF CallerTask, Runs
  <2>5. Typed
    BY <1>0, <1>12, <2>2, <2>3, <2>4 DEF CallerTask
  <2>6. WorksOn(c)
    BY <1>0, <1>2, <1>12, <2>1, <2>3 DEF CallerTask, Moves, WorksOn, Active, ActiveAt, CallerRec
  <2> HIDE DEF Typed
  <2> QED
    BY <1>3, <2>1, <2>5, <2>6
<1>13. CASE AwaitCheckIns(c)
  <2>1. Becomes([caller[c] EXCEPT !.at = "clear"])
    BY <1>0, <1>13 DEF AwaitCheckIns, Moves, CallerRec, CallerAt, OnPoolAt
  <2>2. Typed
    BY <1>0, <1>13 DEF AwaitCheckIns, PoolVars
  <2>3. Leaves(c)
    BY <1>0, <1>2, <1>13, <2>1 DEF AwaitCheckIns, Moves, PoolVars, Leaves, CallerRec
  <2> QED
    BY <1>3, <2>1, <2>2, <2>3
<1>14. CASE TakePanic(c)
  <2>1. Becomes([caller[c] EXCEPT !.at = "free", !.task = 0, !.raise = pool.panicked])
    BY <1>0, <1>14 DEF TakePanic, CallerRec, CallerAt, OnPoolAt, PoolRec
  <2>2. Typed
    BY <1>0, <1>14 DEF TakePanic, PoolRec, Jobs
  <2>3. Clears(c)
    BY <1>0, <1>2, <1>14, <2>1 DEF TakePanic, Clears, CallerRec
  <2> QED
    BY <1>3, <2>1, <2>2, <2>3
<1>15. CASE Release(c)
  <2> DEFINE to == IF caller[c].raise THEN "panicked" ELSE "returned"
  <2>1. Becomes([caller[c] EXCEPT !.at = to])
    BY <1>0, <1>15 DEF Release, Moves, CallerRec, CallerAt
  <2>2. Typed
    BY <1>0, <1>15 DEF Release, PoolRec
  <2>3. Releases(c)
    BY <1>0, <1>2, <1>15, <2>1 DEF Release, Moves, Releases, CallerRec
  <2> QED
    BY <1>3, <2>1, <2>2, <2>3
<1> QED
  BY <1>4, <1>5, <1>6, <1>7, <1>8, <1>9, <1>10, <1>11, <1>12, <1>13, <1>14, <1>15 DEF RunStep

(* What the steps of Drop do.                                                *)
LEMMA DropFacts ==
  ASSUME TypeOK, crew' = crew, Shutdown \/ DropStep
  PROVE  /\ TypeOK' /\ worker' = worker /\ caller' = caller
         /\ ran' = ran /\ fell' = fell
         /\ pool'.job = pool.job /\ pool'.n = pool.n /\ pool'.done = pool.done
         /\ pool'.busy = pool.busy /\ pool'.panicked = pool.panicked
         /\ pool'.cursor = pool.cursor
         /\ \/ /\ closing.at = "live" /\ closing'.at = "shut" /\ \A c \in Callers : ~InCall(c)
               /\ pool'.shutdown = TRUE /\ pool'.seq = pool.seq
            \/ /\ closing.at = "shut" /\ closing'.at \in {"wake", "join"}
               /\ pool'.shutdown = pool.shutdown /\ pool'.seq = pool.seq + 1
            \/ /\ closing.at = "wake" /\ closing'.at \in {"wake", "join"} /\ pool' = pool
            \/ /\ closing.at = "join" /\ closing'.at = "gone" /\ pool' = pool
               /\ \A w \in Workers : worker[w].at \in {"exited", "died"}
<1>0. pool \in PoolRec /\ Workers' = Workers /\ CallerRec' = CallerRec
  BY DEF TypeOK, Workers, CallerRec
<1>1. CASE Shutdown
  BY <1>0, <1>1 DEF Shutdown, TypeOK, PoolRec
<1>2. CASE BumpToStop
  BY <1>0, <1>2 DEF BumpToStop, TypeOK, PoolRec
<1>3. CASE UnparkNext
  BY <1>0, <1>3 DEF UnparkNext, TypeOK
<1>4. CASE Join
  BY <1>0, <1>4 DEF Join, TypeOK
<1> QED
  BY <1>1, <1>2, <1>3, <1>4 DEF DropStep

-----------------------------------------------------------------------------
LEMMA WorkersAreFinite ==
  ASSUME Sized, TypeOK
  PROVE  IsFiniteSet(Workers)
<1>1. crew.workers \in Int /\ 1 \in Int
  BY DEF Sized, TypeOK
<1> QED
  BY <1>1, FS_Interval DEF Workers

(* When as many have checked in as there are workers, all of them have.         *)
LEMMA EveryoneCheckedIn ==
  ASSUME Sized, TypeOK, Cardinality(CheckedIn) >= Cardinality(Workers)
  PROVE  CheckedIn = Workers
<1>1. IsFiniteSet(Workers) /\ CheckedIn \subseteq Workers
  BY WorkersAreFinite DEF CheckedIn
<1>2. Cardinality(CheckedIn) <= Cardinality(Workers) /\ Cardinality(CheckedIn) \in Nat
      /\ Cardinality(Workers) \in Nat
  BY <1>1, FS_Subset, FS_CardinalityType
<1> QED
  BY <1>1, <1>2, FS_Subset

-----------------------------------------------------------------------------
(* One caller on the pool.                                                   *)
LEMMA CallerKeepsOneOnPool ==
  ASSUME Sized, TypeOK, OneOnPool, DropIsAlone, crew' = crew,
         NEW c \in Callers, Call(c) \/ RunStep(c)
  PROVE  OneOnPool' /\ DropIsAlone'
<1>0. /\ \A d \in Callers : d # c => caller'[d] = caller[d]
      /\ closing' = closing
      /\ \/ Calls(c) \/ StaysOff(c) \/ Publishes(c) \/ Bumps(c) \/ WorksOn(c)
         \/ Leaves(c) \/ Clears(c) \/ Releases(c)
  BY CallerFacts
<1>1. OneOnPool'
  <2>0. pool \in PoolRec
    BY DEF TypeOK
  <2>1. CASE Calls(c)
    BY <1>0, <2>1 DEF Calls, OneOnPool, OnPool, OnPoolAt, ActiveAt, InCall, SamePool
  <2>2. CASE StaysOff(c)
    BY <1>0, <2>2 DEF StaysOff, OneOnPool, OnPool, OnPoolAt, ActiveAt
  <2>3. CASE Publishes(c) \/ Bumps(c) \/ WorksOn(c) \/ Leaves(c) \/ Clears(c)
    <3>1. OnPool(c) /\ pool'.busy = pool.busy
      BY <2>0, <2>3 DEF Publishes, Bumps, WorksOn, Leaves, Clears, SamePool, PoolRec,
                        OnPool, OnPoolAt, Active, ActiveAt
    <3> QED
      BY <1>0, <3>1 DEF OneOnPool, OnPool
  <2>4. CASE Releases(c)
    <3>1. OnPool(c) /\ ~OnPool(c)'
      BY <2>4 DEF Releases, OnPool, OnPoolAt, ActiveAt
    <3>2. \A d \in Callers : ~OnPool(d)'
      BY <1>0, <3>1 DEF OneOnPool, OnPool
    <3> QED
      BY <3>2 DEF OneOnPool
  <2> QED
    BY <1>0, <2>1, <2>2, <2>3, <2>4
<1>2. DropIsAlone'
  <2>1. pool'.shutdown = pool.shutdown
    BY <1>0 DEF Calls, StaysOff, Publishes, Bumps, WorksOn, Leaves, Clears, Releases, SamePool,
                TypeOK, PoolRec
  <2>2. closing.at = "live"
    BY <1>0 DEF Calls, StaysOff, Publishes, Bumps, WorksOn, Leaves, Clears, Releases,
                DropIsAlone, InCall, Active, ActiveAt
  <2> QED
    BY <1>0, <2>1, <2>2 DEF DropIsAlone
<1> QED
  BY <1>1, <1>2

(* The job in the slot is left alone by everyone else.                         *)
LEMMA CallerKeepsSlot ==
  ASSUME Sized, TypeOK, OneOnPool, SlotIsMine, crew' = crew,
         NEW c \in Callers, Call(c) \/ RunStep(c)
  PROVE  SlotIsMine'
<1>0. /\ \A d \in Callers : d # c => caller'[d] = caller[d]
      /\ pool \in PoolRec
      /\ \/ Calls(c) \/ StaysOff(c) \/ Publishes(c) \/ Bumps(c) \/ WorksOn(c)
         \/ Leaves(c) \/ Clears(c) \/ Releases(c)
  BY CallerFacts DEF TypeOK
<1>1. CASE StaysOff(c)
  BY <1>0, <1>1 DEF StaysOff, SlotIsMine, Active, ActiveAt
<1>2. CASE Calls(c)
  BY <1>0, <1>2 DEF Calls, SlotIsMine, Active, ActiveAt
<1>3. ASSUME OnPool(c), NEW d \in Callers, d # c, Active(d)' \/ caller'[d].at = "bump"
      PROVE  FALSE
  BY <1>0, <1>3 DEF OneOnPool, OnPool, OnPoolAt, Active
<1>4. CASE Publishes(c)
  <2>1. OnPool(c)
    BY <1>4 DEF Publishes, OnPool, OnPoolAt
  <2>2. /\ pool'.job = c /\ pool'.n = caller[c].n /\ pool'.done = 0 /\ pool'.cursor = 0
        /\ caller'[c].n = caller[c].n
    BY <1>0, <1>4 DEF Publishes, PoolRec
  <2> QED
    BY <1>3, <2>1, <2>2 DEF SlotIsMine
<1>5. CASE Bumps(c) \/ WorksOn(c)
  <2>1. OnPool(c) /\ (Active(c) \/ caller[c].at = "bump") /\ caller'[c].at \in ActiveAt
    BY <1>5 DEF Bumps, WorksOn, OnPool, OnPoolAt, Active, ActiveAt
  <2>2. pool'.job = pool.job /\ pool'.n = pool.n /\ caller'[c].n = caller[c].n
    BY <1>0, <1>5 DEF Bumps, WorksOn, SamePool, PoolRec
  <2>3. \A d \in Callers : Active(d)' \/ caller'[d].at = "bump" => d = c
    BY <1>3, <2>1
  <2> QED
    BY <2>1, <2>2, <2>3 DEF SlotIsMine, ActiveAt
<1>6. CASE Leaves(c) \/ Clears(c) \/ Releases(c)
  <2>1. OnPool(c) /\ ~Active(c)' /\ caller'[c].at # "bump"
    BY <1>6 DEF Leaves, Clears, Releases, OnPool, OnPoolAt, Active, ActiveAt
  <2> QED
    BY <1>3, <2>1 DEF SlotIsMine
<1> QED
  BY <1>0, <1>1, <1>2, <1>4, <1>5, <1>6

LEMMA CallerKeepsWork ==
  ASSUME Sized, PoolInv, crew' = crew, NEW c \in Callers, Call(c) \/ RunStep(c)
  PROVE  QuietBetweenJobs' /\ WorkIsCounted' /\ DropEndsWork'
<1>0. /\ TypeOK /\ worker' = worker /\ closing' = closing
      /\ \A d \in Callers : d # c => caller'[d] = caller[d]
      /\ pool \in PoolRec /\ Workers' = Workers
      /\ \/ Calls(c) \/ StaysOff(c) \/ Publishes(c) \/ Bumps(c) \/ WorksOn(c)
         \/ Leaves(c) \/ Clears(c) \/ Releases(c)
  BY CallerFacts DEF PoolInv, TypeOK, Workers
<1>1. DropEndsWork'
  BY <1>0 DEF PoolInv, DropEndsWork
<1>2. ASSUME NEW d \in Callers, d # c, OnPool(c) PROVE ~Active(d) /\ ~Active(d)'
  BY <1>0, <1>2 DEF PoolInv, OneOnPool, OnPool, OnPoolAt, Active
<1>3. Publishes(c) \/ Bumps(c) \/ WorksOn(c) \/ Leaves(c) \/ Clears(c) \/ Releases(c) => OnPool(c)
  BY DEF Publishes, Bumps, WorksOn, Leaves, Clears, Releases, OnPool, OnPoolAt, Active, ActiveAt
<1>4. CASE Calls(c) \/ StaysOff(c)
  <2>1. ~Active(c) /\ ~Active(c)'
    BY <1>4 DEF Calls, StaysOff, InCall, Active, ActiveAt
  <2>2. \A d \in Callers : Active(d)' <=> Active(d)
    BY <1>0, <2>1 DEF Active
  <2>3. pool'.seq = pool.seq /\ pool'.done = pool.done
    BY <1>4 DEF Calls, StaysOff
  <2>4. CheckedIn' = CheckedIn
    BY <1>0, <2>3 DEF CheckedIn
  <2>5. QuietBetweenJobs'
    BY <1>0, <2>2, <2>3 DEF PoolInv, QuietBetweenJobs, NobodyAtWork
  <2>6. WorkIsCounted'
    BY <1>0, <2>1, <2>2, <2>3, <2>4 DEF PoolInv, WorkIsCounted, Active
  <2> QED
    BY <1>1, <2>5, <2>6
<1>5. CASE Publishes(c) \/ Clears(c) \/ Releases(c)
  <2>1. \A d \in Callers : ~Active(d) /\ ~Active(d)'
    BY <1>2, <1>3, <1>5 DEF Publishes, Clears, Releases, Active, ActiveAt
  <2>2. pool'.seq = pool.seq
    BY <1>0, <1>5 DEF Publishes, Clears, Releases, PoolRec
  <2> QED
    BY <1>0, <1>1, <2>1, <2>2
       DEF PoolInv, QuietBetweenJobs, NobodyAtWork, WorkIsCounted
<1>6. CASE Bumps(c)
  <2>1. \A d \in Callers : ~Active(d) /\ (Active(d)' <=> d = c)
    BY <1>2, <1>3, <1>6 DEF Bumps, Active, ActiveAt
  <2>2. closing.at = "live"
    BY <1>6 DEF PoolInv, DropIsAlone, InCall, Bumps
  <2>3. NobodyAtWork
    BY <2>1, <2>2 DEF PoolInv, QuietBetweenJobs
  <2>4. pool'.seq = pool.seq + 1 /\ pool'.done = pool.done /\ pool.seq \in Nat
    BY <1>0, <1>6 DEF Bumps, PoolRec
  <2>5. pool.done = 0
    BY <1>6 DEF PoolInv, SlotIsMine, Bumps
  <2>6. CheckedIn' = {}
    BY <1>0, <2>3, <2>4 DEF CheckedIn, NobodyAtWork
  <2>7. Cardinality(CheckedIn') = pool'.done
    BY <2>4, <2>5, <2>6, FS_EmptySet
  <2>8. WorkIsCounted'
    BY <1>0, <2>3, <2>7 DEF WorkIsCounted, NobodyAtWork, Busy
  <2> QED
    BY <1>1, <2>1, <2>8 DEF QuietBetweenJobs
<1>7. CASE WorksOn(c)
  <2>1. Active(c) /\ Active(c)' /\ caller'[c].n = caller[c].n
        /\ pool'.seq = pool.seq /\ pool'.done = pool.done
    BY <1>7 DEF WorksOn, Active, SamePool
  <2>2. CheckedIn' = CheckedIn
    BY <1>0, <2>1 DEF CheckedIn
  <2>3. WorkIsCounted'
    BY <1>0, <1>2, <1>3, <1>7, <2>1, <2>2 DEF PoolInv, WorkIsCounted
  <2> QED
    BY <1>1, <2>1, <2>3 DEF QuietBetweenJobs
<1>8. CASE Leaves(c)
  <2>1. Active(c) /\ pool' = pool /\ pool.done >= Cardinality(Workers)
    BY <1>8 DEF Leaves, Active, ActiveAt
  <2>2. CheckedIn = Workers
    BY <1>0, <2>1, EveryoneCheckedIn DEF PoolInv, WorkIsCounted
  <2>3. NobodyAtWork'
    BY <1>0, <2>1, <2>2 DEF CheckedIn, NobodyAtWork
  <2>4. \A d \in Callers : ~Active(d)'
    BY <1>2, <1>3, <1>8 DEF Leaves, Active, ActiveAt
  <2> QED
    BY <1>1, <2>3, <2>4 DEF QuietBetweenJobs, WorkIsCounted
<1> QED
  BY <1>0, <1>4, <1>5, <1>6, <1>7, <1>8

-----------------------------------------------------------------------------
(* A worker takes the job that is in the slot, and counts once.                *)
LEMMA WorkerKeepsPool ==
  ASSUME Sized, PoolInv, crew' = crew, NEW w \in Workers, WorkerStep(w) \/ SpuriousWake(w)
  PROVE  PoolInv'
<1>0. /\ TypeOK /\ TypeOK' /\ caller' = caller /\ closing' = closing
      /\ \A v \in Workers : v # w => worker'[v] = worker[v]
      /\ pool \in PoolRec /\ Workers' = Workers /\ worker[w] \in WorkerRec
      /\ SamePool
      /\ Waits(w) \/ Notices(w) \/ Begins(w) \/ Works(w) \/ EndsWork(w)
  BY WorkerFacts DEF PoolInv, TypeOK, Workers
<1>1. OneOnPool' /\ DropIsAlone'
  BY <1>0 DEF PoolInv, OneOnPool, OnPool, DropIsAlone, InCall, SamePool
<1>2. SlotIsMine'
  <2>1. ASSUME NEW c \in Callers, caller[c].at = "bump"
        PROVE  pool'.done = pool.done /\ pool'.cursor = pool.cursor
    <3>1. NobodyAtWork
      <4>1. \A d \in Callers : ~Active(d)
        BY <2>1 DEF PoolInv, OneOnPool, OnPool, OnPoolAt, Active, ActiveAt
      <4>2. closing.at = "live"
        BY <2>1 DEF PoolInv, DropIsAlone, InCall
      <4> QED
        BY <4>1, <4>2 DEF PoolInv, QuietBetweenJobs
    <3>2. pool' = pool
      BY <1>0, <3>1 DEF NobodyAtWork, Waits, Notices, Begins, Works, EndsWork, Busy, Working
    <3> QED
      BY <3>2
  <2> QED
    BY <1>0, <2>1 DEF PoolInv, SlotIsMine, Active, SamePool
<1>3. ASSUME worker[w].at \in Busy PROVE pool.shutdown \/ \E c \in Callers : Active(c)
  <2>1. closing.at = "live" => \E c \in Callers : Active(c)
    BY <1>3 DEF PoolInv, QuietBetweenJobs, NobodyAtWork
  <2> QED
    BY <2>1 DEF PoolInv, DropIsAlone
<1>4. QuietBetweenJobs'
  <2> SUFFICES ASSUME closing.at \in {"live", "shut"}, \A c \in Callers : ~Active(c)
               PROVE  NobodyAtWork'
    BY <1>0 DEF QuietBetweenJobs, Active
  <2>1. NobodyAtWork
    BY DEF PoolInv, QuietBetweenJobs
  <2>2. Waits(w)
    BY <1>0, <2>1 DEF NobodyAtWork, Notices, Begins, Works, EndsWork, Busy, Working
  <2> QED
    BY <1>0, <2>1, <2>2 DEF NobodyAtWork, Waits, Idle, Busy, Working
<1>5. WorkIsCounted'
  <2> SUFFICES ASSUME NEW c \in Callers, Active(c)
               PROVE  (/\ \A v \in Workers :
                            /\ worker[v].at \in Busy => worker[v].seen = pool.seq
                            /\ worker[v].at \in Working => /\ worker[v].job = c
                                                           /\ worker[v].n = caller[c].n
                       /\ pool.done = Cardinality(CheckedIn))'
    BY <1>0 DEF WorkIsCounted, Active
  <2>1. /\ \A v \in Workers :
             /\ worker[v].at \in Busy => worker[v].seen = pool.seq
             /\ worker[v].at \in Working => worker[v].job = c /\ worker[v].n = caller[c].n
        /\ pool.done = Cardinality(CheckedIn)
    BY DEF PoolInv, WorkIsCounted
  <2>2. pool.job = c /\ pool.n = caller[c].n /\ ~pool.shutdown
    BY <1>0 DEF PoolInv, SlotIsMine, DropIsAlone, InCall, Active, ActiveAt
  <2>3. /\ worker'[w].at \in Busy => worker'[w].seen = pool.seq
        /\ worker'[w].at \in Working => worker'[w].job = c /\ worker'[w].n = caller[c].n
    <3>1. CASE Waits(w) \/ Notices(w) \/ EndsWork(w)
      BY <3>1 DEF Waits, Notices, EndsWork, Idle, Busy, Working
    <3>2. CASE Begins(w)
      BY <2>1, <2>2, <3>2 DEF Begins, Busy, Working
    <3>3. CASE Works(w)
      BY <2>1, <3>3 DEF Works, Busy, Working
    <3> QED
      BY <1>0, <3>1, <3>2, <3>3
  <2>4. pool'.done = Cardinality(CheckedIn')
    <3>1. CASE EndsWork(w)
      <4>1. w \notin CheckedIn
        BY <3>1 DEF CheckedIn, EndsWork, Busy, Working
      <4>2. worker'[w].seen = pool.seq /\ worker'[w].at \notin Busy
        BY <2>1, <3>1 DEF EndsWork, Busy, Working
      <4>3. CheckedIn' = CheckedIn \cup {w}
        BY <1>0, <4>2 DEF CheckedIn, SamePool
      <4>4. IsFiniteSet(CheckedIn)
        BY <1>0, WorkersAreFinite, FS_Subset DEF CheckedIn
      <4>5. Cardinality(CheckedIn \cup {w}) = Cardinality(CheckedIn) + 1
        BY <4>1, <4>4, FS_AddElement
      <4> QED
        BY <2>1, <3>1, <4>3, <4>5 DEF EndsWork
    <3>2. CASE ~EndsWork(w)
      <4>1. pool'.done = pool.done
        BY <1>0, <3>2 DEF Waits, Notices, Begins, Works
      <4>2. worker'[w].seen = pool.seq /\ worker'[w].at \notin Busy
              <=> worker[w].seen = pool.seq /\ worker[w].at \notin Busy
        BY <1>0, <2>2, <3>2 DEF Sized, Waits, Notices, Begins, Works, Idle, Busy, Working
      <4>3. CheckedIn' = CheckedIn
        BY <1>0, <4>2 DEF CheckedIn, SamePool
      <4> QED
        BY <2>1, <4>1, <4>3
    <3> QED
      BY <3>1, <3>2
  <2> QED
    BY <1>0, <2>1, <2>3, <2>4 DEF SamePool
<1>6. DropEndsWork'
  <2>1. worker[w].at # "exited"
    BY <1>0 DEF Waits, Notices, Begins, Works, EndsWork, Idle
  <2>2. closing.at # "gone"
    BY <2>1 DEF PoolInv, DropEndsWork
  <2>3. worker'[w].at # "died"
    <3>1. CASE Begins(w)
      <4>1. pool.shutdown \/ pool.job # NoJob
        BY <1>3, <3>1 DEF Begins, Busy, PoolInv, SlotIsMine, Sized
      <4> QED
        BY <3>1, <4>1 DEF Begins
    <3> QED
      BY <1>0, <3>1 DEF Waits, Notices, Works, EndsWork, Idle, Working
  <2>4. closing.at \in {"wake", "join"} => worker'[w].at \notin Working
    BY <1>0 DEF PoolInv, DropEndsWork, DropIsAlone, Waits, Notices, Begins, Works, EndsWork,
                Idle, Working
  <2> QED
    BY <1>0, <2>2, <2>3, <2>4 DEF PoolInv, DropEndsWork
<1> QED
  BY <1>0, <1>1, <1>2, <1>4, <1>5, <1>6 DEF PoolInv

-----------------------------------------------------------------------------
LEMMA DropKeepsPool ==
  ASSUME Sized, PoolInv, crew' = crew, Shutdown \/ DropStep
  PROVE  PoolInv'
<1>0. /\ TypeOK /\ TypeOK' /\ worker' = worker /\ caller' = caller /\ Workers' = Workers
      /\ pool \in PoolRec
      /\ pool'.job = pool.job /\ pool'.n = pool.n /\ pool'.done = pool.done
      /\ pool'.busy = pool.busy /\ pool'.cursor = pool.cursor
      /\ \/ /\ closing.at = "live" /\ closing'.at = "shut" /\ \A c \in Callers : ~InCall(c)
            /\ pool'.shutdown = TRUE /\ pool'.seq = pool.seq
         \/ /\ closing.at = "shut" /\ closing'.at \in {"wake", "join"}
            /\ pool'.shutdown = pool.shutdown /\ pool'.seq = pool.seq + 1
         \/ /\ closing.at = "wake" /\ closing'.at \in {"wake", "join"} /\ pool' = pool
         \/ /\ closing.at = "join" /\ closing'.at = "gone" /\ pool' = pool
            /\ \A w \in Workers : worker[w].at \in {"exited", "died"}
  BY DropFacts DEF PoolInv, TypeOK, Workers
<1>1. \A c \in Callers : ~InCall(c)
  BY <1>0 DEF PoolInv, DropIsAlone
<1>2. \A c \in Callers : ~Active(c) /\ ~Active(c)' /\ ~OnPool(c)' /\ caller'[c].at # "bump"
                        /\ ~InCall(c)'
  BY <1>0, <1>1 DEF InCall, Active, ActiveAt, OnPool, OnPoolAt
<1>3. OneOnPool' /\ SlotIsMine' /\ WorkIsCounted'
  BY <1>2 DEF OneOnPool, SlotIsMine, WorkIsCounted
<1>4. DropIsAlone'
  BY <1>0, <1>2 DEF PoolInv, DropIsAlone
<1>5. QuietBetweenJobs'
  <2> SUFFICES ASSUME closing'.at \in {"live", "shut"} PROVE NobodyAtWork'
    BY DEF QuietBetweenJobs
  <2>1. closing.at = "live" /\ pool'.seq = pool.seq
    BY <1>0
  <2>2. NobodyAtWork
    BY <1>2, <2>1 DEF PoolInv, QuietBetweenJobs
  <2> QED
    BY <1>0, <2>1, <2>2 DEF NobodyAtWork
<1>6. DropEndsWork'
  <2>1. closing'.at \in {"wake", "join", "gone"} => \A w \in Workers : worker[w].at \notin Working
    <3>1. closing.at = "shut" => NobodyAtWork
      BY <1>2 DEF PoolInv, QuietBetweenJobs
    <3> QED
      BY <1>0, <3>1 DEF PoolInv, DropEndsWork, NobodyAtWork, Busy
  <2>2. closing'.at = "gone" => \A w \in Workers : worker[w].at = "exited"
    BY <1>0 DEF PoolInv, DropEndsWork
  <2> QED
    BY <1>0, <2>1, <2>2 DEF PoolInv, DropEndsWork
<1> QED
  BY <1>0, <1>3, <1>4, <1>5, <1>6 DEF PoolInv

LEMMA StepKeepsPool == ASSUME Sized, PoolInv, [Next]_vars PROVE PoolInv'
<1>1. CASE UNCHANGED vars
  <2>1. /\ Workers' = Workers /\ CallerRec' = CallerRec /\ CheckedIn' = CheckedIn
        /\ NobodyAtWork' = NobodyAtWork
    BY <1>1 DEF vars, Workers, CallerRec, CheckedIn, NobodyAtWork
  <2>2. TypeOK'
    BY <1>1, <2>1 DEF vars, PoolInv, TypeOK
  <2>3. OneOnPool' /\ DropIsAlone' /\ SlotIsMine'
    BY <1>1 DEF vars, PoolInv, OneOnPool, OnPool, DropIsAlone, InCall, SlotIsMine, Active
  <2>4. QuietBetweenJobs' /\ WorkIsCounted' /\ DropEndsWork'
    BY <1>1, <2>1 DEF vars, PoolInv, QuietBetweenJobs, WorkIsCounted, DropEndsWork, Active
  <2> QED
    BY <2>2, <2>3, <2>4 DEF PoolInv
<1>2. ASSUME crew' = crew, NEW w \in Workers, WorkerStep(w) \/ SpuriousWake(w) PROVE PoolInv'
  BY <1>2, WorkerKeepsPool
<1>3. ASSUME crew' = crew, NEW c \in Callers, Call(c) \/ RunStep(c) PROVE PoolInv'
  BY <1>3, CallerFacts, CallerKeepsOneOnPool, CallerKeepsSlot, CallerKeepsWork DEF PoolInv
<1>4. ASSUME crew' = crew, Shutdown \/ DropStep PROVE PoolInv'
  BY <1>4, DropKeepsPool
<1> QED
  BY <1>1, <1>2, <1>3, <1>4 DEF Next

LEMMA PoolIsSound == ASSUME Sized PROVE Spec => []PoolInv
<1>1. Init => PoolInv
  BY InitialPool
<1>2. PoolInv /\ [Next]_vars => PoolInv'
  BY StepKeepsPool
<1> QED
  BY <1>1, <1>2, PTL DEF Spec

(* However many callers come, whatever the workers are doing, the closure a      *)
(* worker holds is that of a caller still inside run, no worker finds the slot   *)
(* empty, and a drop leaves no thread behind (the safety argument of Shared::job, *)
(* pool.rs:26).                                                              *)
THEOREM NoClosureIsDangling == ASSUME Sized PROVE Spec => []ClosureOutlivesItsUse
<1>1. PoolInv => ClosureOutlivesItsUse
  BY PoolInvIsEnough
<1> QED
  BY <1>1, PoolIsSound, PTL

-----------------------------------------------------------------------------
(* What the tasks of a job rest on.  Inline, they run in order; before a job is  *)
(* published none has run; and the panic flag is that of the job at hand.       *)
InlineInOrder ==
  \A c \in Callers : caller[c].at = "inline" =>
    \A t \in Tasks : ran[c][t] = IF t < caller[c].task THEN 1 ELSE 0

RayonOnce ==
  \A c \in Callers : caller[c].at = "rayon" => \A t \in Tasks : ran[c][t] \in {0, 1}

FreshJob ==
  \A c \in Callers : caller[c].at \in {"publish", "bump"} =>
    ~fell[c] /\ \A t \in Tasks : ran[c][t] = 0

Judged(c) == Active(c) \/ caller[c].at = "clear"

PanicIsOurs ==
  /\ \A c \in Callers : Judged(c) => pool.panicked = fell[c]
  /\ (\A c \in Callers : ~Judged(c)) => ~pool.panicked
  /\ \A c \in Callers : caller[c].at = "free" => caller[c].raise = fell[c]

(* On the pool, every task below the cursor is in one thread's hands or has run.  *)
WorkerHolds(w, t) == worker[w].at = "task" /\ worker[w].task = t
CallerHolds(c, t) == caller[c].at = "task" /\ caller[c].task = t
InHand(c, t) == CallerHolds(c, t) \/ \E w \in Workers : WorkerHolds(w, t)

HandedOnce(c, t) ==
  /\ InHand(c, t) => t < pool.cursor /\ t < caller[c].n
  /\ \A w, v \in Workers : WorkerHolds(w, t) /\ WorkerHolds(v, t) => w = v
  /\ CallerHolds(c, t) => \A w \in Workers : ~WorkerHolds(w, t)
  /\ t < caller[c].n => ran[c][t] = IF t < pool.cursor /\ ~InHand(c, t) THEN 1 ELSE 0

EachHandedOnce == \A c \in Callers : Active(c) => \A t \in Nat : HandedOnce(c, t)

(* Who is through has seen the cursor past the last task.                      *)
Through(w) == worker[w].at = "checkin" \/ w \in CheckedIn

CursorIsDrained ==
  \A c \in Callers : Active(c) /\ (caller[c].at = "wait" \/ \E w \in Workers : Through(w))
    => pool.cursor >= caller[c].n

AllRan ==
  \A c \in Callers : caller[c].at \in {"clear", "free"} =>
    \A t \in 0 .. caller[c].n - 1 : ran[c][t] = 1

TaskInv ==
  /\ InlineInOrder /\ RayonOnce /\ FreshJob /\ PanicIsOurs
  /\ EachHandedOnce /\ CursorIsDrained /\ AllRan

LEMMA InitialTasks == ASSUME Init PROVE TaskInv
<1>1. /\ \A c \in Callers : caller[c].at = "idle"
      /\ pool.panicked = FALSE
  BY DEF Init
<1> QED
  BY <1>1 DEF TaskInv, InlineInOrder, RayonOnce, FreshJob, PanicIsOurs, Judged, EachHandedOnce,
              CursorIsDrained, AllRan, Active, ActiveAt

-----------------------------------------------------------------------------
(* A worker at work has its caller, and that caller's job.                     *)
LEMMA WorkersServe ==
  ASSUME PoolInv, NEW w \in Workers, worker[w].at \in Working
  PROVE  /\ worker[w].job \in Callers /\ Active(worker[w].job)
         /\ worker[w].n = caller[worker[w].job].n
<1>1. closing.at \in {"live", "shut"}
  BY DEF PoolInv, DropEndsWork, TypeOK
<1>2. PICK c \in Callers : Active(c)
  BY <1>1 DEF PoolInv, QuietBetweenJobs, NobodyAtWork, Busy
<1> QED
  BY <1>2 DEF PoolInv, WorkIsCounted

LEMMA OneActive ==
  ASSUME PoolInv, NEW c \in Callers, OnPool(c), NEW d \in Callers, d # c
  PROVE  /\ ~Active(d) /\ ~Judged(d) /\ ~OnPool(d)
         /\ caller[d].at \notin {"publish", "bump", "clear", "free"}
BY DEF PoolInv, OneOnPool, OnPool, OnPoolAt, Active, Judged

LEMMA WorkerTaskKeepsTasks ==
  ASSUME Sized, PoolInv, TaskInv, crew' = crew, NEW w \in Workers, WorkerTask(w)
  PROVE  TaskInv'
<1>0. /\ Workers' = Workers /\ caller' = caller
      /\ \A v \in Workers : v # w => worker'[v] = worker[v]
      /\ worker[w].at = "task" /\ worker'[w] = [worker[w] EXCEPT !.at = "claim"]
      /\ worker[w] \in WorkerRec /\ pool \in PoolRec
  BY DEF WorkerTask, Goes, Workers, PoolInv, TypeOK
<1>1. PICK c \in Callers, t \in Nat :
        c = worker[w].job /\ t = worker[w].task /\ Active(c) /\ OnPool(c)
  BY <1>0, WorkersServe DEF Working, OnPool, OnPoolAt, Active, WorkerRec
<1>2. \A d \in Callers : d # c => ~Active(d) /\ ~Judged(d) /\ ~OnPool(d)
  BY <1>1, OneActive
<1>3. InHand(c, t) /\ t \in Nat /\ t < pool.cursor /\ t < caller[c].n /\ t \in Tasks
      /\ ran[c][t] = 0
  <2>1. InHand(c, t) /\ t \in Nat
    BY <1>0, <1>1 DEF InHand, WorkerHolds
  <2>2. t < pool.cursor /\ t < caller[c].n
    BY <1>1, <2>1 DEF TaskInv, EachHandedOnce, HandedOnce
  <2>3. ran[c][t] = 0
    BY <1>1, <2>1, <2>2 DEF TaskInv, EachHandedOnce, HandedOnce
  <2>4. caller[c].n \in 0 .. MaxTasks
    BY <1>1 DEF PoolInv, TypeOK, CallerRec
  <2> QED
    BY <2>1, <2>2, <2>3, <2>4 DEF Tasks, Sized
<1>4. ran' = [ran EXCEPT ![c] = [ran[c] EXCEPT ![t] = 1]]
  BY <1>0, <1>1, <1>3 DEF WorkerTask, Runs
<1>5. PICK panics \in BOOLEAN :
        /\ fell' = [fell EXCEPT ![c] = fell[c] \/ panics]
        /\ pool' = [pool EXCEPT !.panicked = pool.panicked \/ panics]
  BY <1>1 DEF WorkerTask, Runs
<1>6. /\ \A d \in Callers : d # c => ran'[d] = ran[d] /\ fell'[d] = fell[d]
      /\ \A u \in Tasks : ran'[c][u] = IF u = t THEN 1 ELSE ran[c][u]
      /\ pool'.cursor = pool.cursor /\ pool'.seq = pool.seq
      /\ pool'.panicked = (pool.panicked \/ panics) /\ fell'[c] = (fell[c] \/ panics)
  <2>1. ran \in [Callers -> [Tasks -> Nat]] /\ fell \in [Callers -> BOOLEAN]
    BY DEF PoolInv, TypeOK
  <2> QED
    BY <1>0, <1>1, <1>3, <1>4, <1>5, <2>1 DEF PoolRec
<1>7. InlineInOrder' /\ RayonOnce' /\ FreshJob' /\ AllRan'
  BY <1>0, <1>1, <1>6 DEF TaskInv, InlineInOrder, RayonOnce, FreshJob, AllRan, Active, ActiveAt
<1>8. PanicIsOurs'
  <2>1. pool.panicked = fell[c]
    BY <1>1 DEF TaskInv, PanicIsOurs, Judged
  <2>2. pool'.panicked = fell'[c]
    BY <1>6, <2>1
  <2>3. \A d \in Callers : (Judged(d)' <=> Judged(d)) /\ caller'[d] = caller[d]
    BY <1>0 DEF Judged, Active
  <2>4. Judged(c) /\ caller[c].at # "free"
    BY <1>1 DEF Judged, Active, ActiveAt
  <2> QED
    BY <1>1, <1>2, <1>6, <2>2, <2>3, <2>4 DEF TaskInv, PanicIsOurs
<1>9. EachHandedOnce'
  <2> SUFFICES ASSUME NEW u \in Nat PROVE HandedOnce(c, u)'
    BY <1>0, <1>2 DEF EachHandedOnce, Active
  <2>1. HandedOnce(c, u)
    BY <1>1 DEF TaskInv, EachHandedOnce
  <2>2. ~WorkerHolds(w, u)'
    BY <1>0 DEF WorkerHolds, WorkerRec
  <2>3. WorkerHolds(w, u) <=> u = t
    BY <1>0, <1>1 DEF WorkerHolds
  <2>4. /\ \A v \in Workers : v # w => (WorkerHolds(v, u)' <=> WorkerHolds(v, u))
        /\ CallerHolds(c, u)' <=> CallerHolds(c, u)
    BY <1>0 DEF WorkerHolds, CallerHolds
  <2>5. InHand(c, u)' <=> InHand(c, u) /\ u # t
    BY <1>0, <2>1, <2>2, <2>3, <2>4 DEF HandedOnce, InHand
  <2>6. u < caller[c].n => u \in Tasks
    BY <1>1 DEF PoolInv, TypeOK, CallerRec, Tasks, Sized
  <2> QED
    BY <1>0, <1>3, <1>6, <2>1, <2>2, <2>3, <2>4, <2>5, <2>6 DEF HandedOnce
<1>10. CursorIsDrained'
  <2>1. \A v \in Workers : Through(v)' => Through(v)
    BY <1>0, <1>6 DEF Through, CheckedIn, Busy, Working, WorkerRec
  <2> QED
    BY <1>0, <1>6, <2>1 DEF TaskInv, CursorIsDrained, Active
<1> QED
  BY <1>7, <1>8, <1>9, <1>10 DEF TaskInv

(* The cursor hands a worker the next task, or tells it that there is none.    *)
LEMMA ClaimKeepsTasks ==
  ASSUME Sized, PoolInv, TaskInv, crew' = crew, NEW w \in Workers, Claim(w)
  PROVE  TaskInv'
<1>0. /\ Workers' = Workers /\ caller' = caller /\ ran' = ran /\ fell' = fell
      /\ \A v \in Workers : v # w => worker'[v] = worker[v]
      /\ worker[w].at = "claim" /\ worker'[w].task = pool.cursor
      /\ worker'[w].at = IF pool.cursor < worker[w].n THEN "task" ELSE "checkin"
      /\ pool.cursor \in Nat
  BY DEF Claim, UserVars, Workers, PoolInv, TypeOK, WorkerRec, PoolRec
<1>1. PICK c \in Callers : Active(c) /\ OnPool(c) /\ worker[w].n = caller[c].n
  BY <1>0, WorkersServe DEF Working, OnPool, OnPoolAt, Active
<1>2. \A d \in Callers : d # c => ~Active(d)
  BY <1>1, OneActive
<1>3. /\ pool'.cursor = pool.cursor + 1 /\ pool'.seq = pool.seq
      /\ pool'.panicked = pool.panicked
  BY DEF Claim, PoolInv, TypeOK, PoolRec
<1>4. InlineInOrder' /\ RayonOnce' /\ FreshJob' /\ AllRan' /\ PanicIsOurs'
  BY <1>0, <1>3
     DEF TaskInv, InlineInOrder, RayonOnce, FreshJob, AllRan, PanicIsOurs, Judged, Active
<1>5. caller[c].n \in Nat
  BY <1>1 DEF PoolInv, TypeOK, CallerRec, Sized
<1>6. EachHandedOnce'
  <2> SUFFICES ASSUME NEW u \in Nat PROVE HandedOnce(c, u)'
    BY <1>0, <1>2 DEF EachHandedOnce, Active
  <2>1. HandedOnce(c, u)
    BY <1>1 DEF TaskInv, EachHandedOnce
  <2>2. ~WorkerHolds(w, u)
    BY <1>0 DEF WorkerHolds
  <2>3. WorkerHolds(w, u)' <=> u = pool.cursor /\ u < caller[c].n
    BY <1>0, <1>1 DEF WorkerHolds
  <2>4. /\ \A v \in Workers : v # w => (WorkerHolds(v, u)' <=> WorkerHolds(v, u))
        /\ CallerHolds(c, u)' <=> CallerHolds(c, u)
    BY <1>0 DEF WorkerHolds, CallerHolds
  <2>5. InHand(c, u)' <=> InHand(c, u) \/ (u = pool.cursor /\ u < caller[c].n)
    BY <1>0, <2>2, <2>3, <2>4 DEF InHand
  <2>6. InHand(c, u) => u < pool.cursor
    BY <2>1 DEF HandedOnce
  <2>7. CASE u = pool.cursor
    <3>1. ~InHand(c, u)
      BY <2>6, <2>7, <1>0
    <3>2. /\ \A v \in Workers : ~WorkerHolds(v, u)
          /\ ~CallerHolds(c, u)
      BY <3>1 DEF InHand
    <3> QED
      BY <1>0, <1>3, <1>5, <2>1, <2>3, <2>4, <2>5, <2>7, <3>1, <3>2 DEF HandedOnce
  <2>8. CASE u # pool.cursor
    <3>1. (u < pool'.cursor <=> u < pool.cursor) /\ (InHand(c, u)' <=> InHand(c, u))
      BY <1>0, <1>3, <2>5, <2>8
    <3> QED
      BY <1>0, <2>1, <2>3, <2>4, <2>8, <3>1 DEF HandedOnce
  <2> QED
    BY <2>7, <2>8
<1>7. CursorIsDrained'
  <2> SUFFICES ASSUME caller[c].at = "wait" \/ \E v \in Workers : Through(v)'
               PROVE  pool.cursor + 1 >= caller[c].n
    BY <1>0, <1>2, <1>3 DEF CursorIsDrained, Active
  <2>1. \A v \in Workers : v # w => (Through(v)' <=> Through(v))
    BY <1>0, <1>3 DEF Through, CheckedIn
  <2>2. Through(w)' => pool.cursor >= caller[c].n
    BY <1>0, <1>1, <1>5 DEF Through, CheckedIn, Busy, Working
  <2>3. caller[c].at = "wait" \/ (\E v \in Workers : Through(v)) => pool.cursor >= caller[c].n
    BY <1>1 DEF TaskInv, CursorIsDrained
  <2> QED
    BY <1>0, <1>5, <2>1, <2>2, <2>3
<1> QED
  BY <1>4, <1>6, <1>7 DEF TaskInv

(* The other steps of a worker touch no task.                                 *)
LEMMA WorkerKeepsTasks ==
  ASSUME Sized, PoolInv, TaskInv, crew' = crew, NEW w \in Workers,
         WorkerStep(w) \/ SpuriousWake(w)
  PROVE  TaskInv'
<1>1. CASE WorkerTask(w)
  BY <1>1, WorkerTaskKeepsTasks
<1>2. CASE Claim(w)
  BY <1>2, ClaimKeepsTasks
<1>3. CASE ~WorkerTask(w) /\ ~Claim(w)
  <2>0. /\ Workers' = Workers /\ caller' = caller
        /\ \A v \in Workers : v # w => worker'[v] = worker[v]
        /\ Waits(w) \/ Notices(w) \/ Begins(w) \/ Works(w) \/ EndsWork(w)
        /\ SamePool
    BY WorkerFacts DEF PoolInv, Workers
  <2>1. /\ ran' = ran /\ fell' = fell
        /\ worker[w].at \notin {"claim", "task"}
        /\ pool'.cursor = pool.cursor /\ pool'.panicked = pool.panicked
    BY <1>3 DEF WorkerStep, Look, PublishSleep, Recheck, Park, SpuriousWake, ClearFlag, Begin,
                CheckIn, Goes, UserVars, PoolInv, TypeOK, PoolRec
  <2>2. worker'[w].at # "task" /\ worker[w].at # "task"
    BY <2>0, <2>1 DEF Waits, Notices, Begins, Works, EndsWork, Idle
  <2>3. \A u \in Nat : \A v \in Workers : WorkerHolds(v, u)' <=> WorkerHolds(v, u)
    BY <2>0, <2>2 DEF WorkerHolds
  <2>4. InlineInOrder' /\ RayonOnce' /\ FreshJob' /\ AllRan' /\ PanicIsOurs'
    BY <2>0, <2>1
       DEF TaskInv, InlineInOrder, RayonOnce, FreshJob, AllRan, PanicIsOurs, Judged, Active
  <2>5. EachHandedOnce'
    <3> SUFFICES ASSUME NEW c \in Callers, Active(c), NEW u \in Nat PROVE HandedOnce(c, u)'
      BY <2>0 DEF EachHandedOnce, Active
    <3>1. HandedOnce(c, u)
      BY DEF TaskInv, EachHandedOnce
    <3>2. (CallerHolds(c, u)' <=> CallerHolds(c, u)) /\ (InHand(c, u)' <=> InHand(c, u))
      BY <2>0, <2>3 DEF CallerHolds, InHand
    <3> QED
      BY <2>0, <2>1, <2>3, <3>1, <3>2 DEF HandedOnce
  <2>6. CursorIsDrained'
    <3> SUFFICES ASSUME NEW c \in Callers, Active(c),
                        caller[c].at = "wait" \/ \E v \in Workers : Through(v)'
                 PROVE  pool.cursor >= caller[c].n
      BY <2>0, <2>1 DEF CursorIsDrained, Active
    <3>1. pool.job = c /\ ~pool.shutdown
      BY DEF PoolInv, SlotIsMine, DropIsAlone, InCall, Active, ActiveAt
    <3>2. Through(w)' => Through(w)
      BY <2>0, <2>1, <3>1
         DEF Through, CheckedIn, Waits, Notices, Begins, Works, EndsWork, Idle, Busy, Working,
             SamePool, Sized
    <3>3. \A v \in Workers : Through(v)' => Through(v)
      BY <2>0, <3>2 DEF Through, CheckedIn, SamePool
    <3> QED
      BY <3>3 DEF TaskInv, CursorIsDrained
  <2> QED
    BY <2>4, <2>5, <2>6 DEF TaskInv
<1> QED
  BY <1>1, <1>2, <1>3

-----------------------------------------------------------------------------
(* Off the pool a caller works on its own counts.                             *)
LEMMA OffPoolKeepsTasks ==
  ASSUME Sized, PoolInv, TaskInv, crew' = crew, NEW c \in Callers,
         Call(c) \/ InlineTask(c) \/ RayonTask(c) \/ OffPoolEnds(c)
  PROVE  TaskInv'
<1>0. /\ Workers' = Workers /\ worker' = worker
      /\ \A d \in Callers : d # c => caller'[d] = caller[d]
  BY CallerFacts DEF PoolInv, Workers, RunStep
<1>1. /\ caller[c].at \in {"idle", "returned", "panicked", "inline", "rayon"}
      /\ caller'[c].at \in {"returned", "panicked", "inline", "rayon", "publish"}
      /\ pool'.cursor = pool.cursor /\ pool'.panicked = pool.panicked /\ pool'.seq = pool.seq
  <2>1. Calls(c) \/ StaysOff(c)
    BY CallerFacts
       DEF PoolInv, RunStep, Call, InlineTask, RayonTask, OffPoolEnds,
           Publishes, Bumps, WorksOn, Active, ActiveAt, Leaves, Clears, Releases
  <2>2. caller[c].at \in CallerAt
    BY DEF PoolInv, TypeOK, CallerRec
  <2> QED
    BY <2>1, <2>2 DEF Calls, StaysOff, InCall, CallerAt
<1>2. \A d \in Callers : d # c => ran'[d] = ran[d] /\ fell'[d] = fell[d]
  BY DEF Call, InlineTask, RayonTask, RunsHere, OffPoolEnds, PoolInv, TypeOK
<1>3. \A d \in Callers : (Active(d)' <=> Active(d)) /\ (Judged(d)' <=> Judged(d))
  BY <1>0, <1>1 DEF Active, ActiveAt, Judged
<1>4. ~Active(c) /\ ~Judged(c) /\ caller'[c].at \notin {"bump", "clear", "free"}
  BY <1>1 DEF Active, ActiveAt, Judged
<1>5. PanicIsOurs' /\ AllRan'
  BY <1>0, <1>1, <1>2, <1>3, <1>4 DEF TaskInv, PanicIsOurs, AllRan
<1>6. EachHandedOnce' /\ CursorIsDrained'
  <2>1. \A d \in Callers : Active(d)' => d # c /\ Active(d)
    BY <1>3, <1>4
  <2> QED
    BY <1>0, <1>1, <1>2, <2>1
       DEF TaskInv, EachHandedOnce, HandedOnce, InHand, WorkerHolds, CallerHolds,
           CursorIsDrained, Through, CheckedIn
<1>7. CASE Call(c)
  <2>1. ~fell'[c] /\ (\A t \in Tasks : ran'[c][t] = 0) /\ caller'[c].task = 0
    BY <1>7 DEF Call, PoolInv, TypeOK
  <2> QED
    BY <1>0, <1>2, <1>4, <1>5, <1>6, <2>1
       DEF TaskInv, InlineInOrder, RayonOnce, FreshJob, Tasks, Sized
<1>8. CASE InlineTask(c)
  <2>1. PICK t \in Nat : t = caller[c].task
    BY DEF PoolInv, TypeOK, CallerRec
  <2>2. caller[c].at = "inline" /\ caller'[c].at = "inline" /\ caller'[c].task = t + 1
    BY <1>8, <2>1 DEF InlineTask, PoolInv, TypeOK, CallerRec
  <2>3. \A u \in Tasks : ran[c][u] = IF u < t THEN 1 ELSE 0
    BY <2>1, <2>2 DEF TaskInv, InlineInOrder
  <2>4. ran' = [ran EXCEPT ![c] = [ran[c] EXCEPT ![t] = ran[c][t] + 1]]
    BY <1>8, <2>1 DEF InlineTask, RunsHere
  <2>5. \A u \in Tasks : ran'[c][u] = IF u < t + 1 THEN 1 ELSE 0
    <3>1. ran \in [Callers -> [Tasks -> Nat]] /\ ran[c] \in [Tasks -> Nat]
      BY DEF PoolInv, TypeOK
    <3>2. \A u \in Tasks : ran'[c][u] = IF u = t THEN ran[c][t] + 1 ELSE ran[c][u]
      BY <2>4, <3>1
    <3>3. Tasks \subseteq Nat
      BY DEF Tasks, Sized
    <3> QED
      BY <2>3, <3>2, <3>3
  <2>6. InlineInOrder'
    BY <1>0, <1>2, <2>2, <2>5 DEF TaskInv, InlineInOrder, Tasks
  <2> QED
    BY <1>0, <1>2, <1>5, <1>6, <2>2, <2>6 DEF TaskInv, RayonOnce, FreshJob
<1>9. CASE RayonTask(c)
  <2>1. PICK t \in 0 .. caller[c].n - 1 :
          ran[c][t] = 0 /\ ran' = [ran EXCEPT ![c][t] = @ + 1]
    BY <1>9 DEF RayonTask, RunsHere
  <2>2. caller' = caller /\ caller[c].at = "rayon"
    BY <1>9 DEF RayonTask
  <2>3. \A u \in Tasks : ran'[c][u] \in {0, 1}
    <3>1. ran \in [Callers -> [Tasks -> Nat]] /\ ran[c] \in [Tasks -> Nat]
      BY DEF PoolInv, TypeOK
    <3>2. ran' = [ran EXCEPT ![c] = [ran[c] EXCEPT ![t] = 1]]
      BY <2>1
    <3>3. \A u \in Tasks : ran'[c][u] = IF u = t THEN 1 ELSE ran[c][u]
      BY <3>1, <3>2
    <3> QED
      BY <2>2, <3>3 DEF TaskInv, RayonOnce
  <2>4. InlineInOrder' /\ RayonOnce' /\ FreshJob'
    BY <1>2, <2>2, <2>3 DEF TaskInv, InlineInOrder, RayonOnce, FreshJob
  <2> QED
    BY <1>5, <1>6, <2>4 DEF TaskInv
<1>10. CASE OffPoolEnds(c)
  <2>1. caller'[c].at \in {"returned", "panicked"} /\ ran' = ran /\ fell' = fell
    BY <1>10 DEF OffPoolEnds, PoolInv, TypeOK, CallerRec
  <2> QED
    BY <1>0, <1>5, <1>6, <2>1 DEF TaskInv, InlineInOrder, RayonOnce, FreshJob
<1> QED
  BY <1>7, <1>8, <1>9, <1>10

(* On the pool a caller is alone, and only its own job is at stake.           *)
OnPoolStep(c) ==
  \/ Publish(c) \/ Bump(c) \/ WakeNext(c) \/ CallerClaim(c) \/ CallerTask(c)
  \/ AwaitCheckIns(c) \/ TakePanic(c) \/ Release(c)

LEMMA OnPoolFacts ==
  ASSUME Sized, PoolInv, crew' = crew, NEW c \in Callers, OnPoolStep(c)
  PROVE  /\ Workers' = Workers /\ worker' = worker
         /\ \A d \in Callers : d # c => caller'[d] = caller[d]
         /\ OnPool(c)
         /\ \A d \in Callers : d # c =>
              /\ ~Active(d) /\ ~Active(d)' /\ ~Judged(d) /\ ~Judged(d)'
              /\ caller[d].at \notin {"publish", "bump", "clear", "free"}
         /\ caller'[c].n = caller[c].n
         /\ \A t : \A w \in Workers : WorkerHolds(w, t)' <=> WorkerHolds(w, t)
<1>1. /\ Workers' = Workers /\ worker' = worker
      /\ \A d \in Callers : d # c => caller'[d] = caller[d]
  BY CallerFacts DEF PoolInv, Workers, RunStep, OnPoolStep
<1>2. OnPool(c)
  BY DEF OnPoolStep, Publish, Bump, WakeNext, CallerClaim, CallerTask, AwaitCheckIns, TakePanic,
         Release, Moves, OnPool, OnPoolAt, ActiveAt
<1>3. \A d \in Callers : d # c =>
        /\ ~Active(d) /\ ~Active(d)' /\ ~Judged(d) /\ ~Judged(d)'
        /\ caller[d].at \notin {"publish", "bump", "clear", "free"}
  BY <1>1, <1>2, OneActive DEF Active, Judged
<1>4. caller'[c].n = caller[c].n
  <2>0. caller \in [Callers -> CallerRec] /\ caller[c] \in CallerRec
    BY DEF PoolInv, TypeOK
  <2>1. CASE Publish(c) \/ CallerTask(c) \/ AwaitCheckIns(c) \/ Release(c)
    BY <2>0, <2>1 DEF Publish, CallerTask, AwaitCheckIns, Release, Moves, CallerRec
  <2>2. CASE Bump(c) \/ CallerClaim(c) \/ TakePanic(c)
    BY <2>0, <2>2 DEF Bump, CallerClaim, TakePanic, CallerRec
  <2>3. CASE WakeNext(c)
    BY <2>0, <2>3 DEF WakeNext, CallerRec
  <2> QED
    BY <2>1, <2>2, <2>3 DEF OnPoolStep
<1>5. \A t : \A w \in Workers : WorkerHolds(w, t)' <=> WorkerHolds(w, t)
  BY <1>1 DEF WorkerHolds
<1> QED
  BY <1>1, <1>2, <1>3, <1>4, <1>5

LEMMA OnPoolKeepsTasks ==
  ASSUME Sized, PoolInv, TaskInv, crew' = crew, NEW c \in Callers, OnPoolStep(c)
  PROVE  TaskInv'
<1>0. /\ Workers' = Workers /\ worker' = worker
      /\ \A d \in Callers : d # c => caller'[d] = caller[d]
      /\ OnPool(c)
      /\ \A d \in Callers : d # c =>
           /\ ~Active(d) /\ ~Active(d)' /\ ~Judged(d) /\ ~Judged(d)'
           /\ caller[d].at \notin {"publish", "bump", "clear", "free"}
      /\ caller'[c].n = caller[c].n
      /\ \A t : \A w \in Workers : WorkerHolds(w, t)' <=> WorkerHolds(w, t)
  BY OnPoolFacts
<1>1. /\ pool \in PoolRec /\ caller \in [Callers -> CallerRec] /\ caller[c] \in CallerRec
      /\ ran \in [Callers -> [Tasks -> Nat]] /\ fell \in [Callers -> BOOLEAN]
      /\ caller[c].n \in Nat /\ pool.cursor \in Nat
      /\ \A t \in Nat : t < caller[c].n => t \in Tasks
  BY DEF PoolInv, TypeOK, CallerRec, PoolRec, Tasks, Sized
<1>2. ASSUME caller'[c].at \notin {"inline", "rayon"},
             \A d \in Callers : d # c => ran'[d] = ran[d] /\ fell'[d] = fell[d]
      PROVE  InlineInOrder' /\ RayonOnce'
  BY <1>0, <1>2 DEF TaskInv, InlineInOrder, RayonOnce, Tasks
<1>3. CASE Publish(c)
  <2>1. /\ caller[c].at = "publish" /\ caller'[c].at = "bump" /\ ran' = ran /\ fell' = fell
        /\ pool'.panicked = pool.panicked
    BY <1>1, <1>3 DEF Publish, Moves, CallerRec, PoolRec
  <2>2. \A d \in Callers : ~Active(d)' /\ ~Judged(d) /\ ~Judged(d)'
    BY <1>0, <2>1 DEF Active, ActiveAt, Judged
  <2>3. EachHandedOnce' /\ CursorIsDrained'
    BY <2>2 DEF EachHandedOnce, CursorIsDrained
  <2>4. FreshJob' /\ PanicIsOurs' /\ AllRan'
    BY <1>0, <2>1, <2>2 DEF TaskInv, FreshJob, PanicIsOurs, AllRan
  <2> QED
    BY <1>2, <2>1, <2>3, <2>4 DEF TaskInv
<1>4. CASE Bump(c)
  <2>1. /\ caller[c].at = "bump" /\ caller'[c].at = "wake" /\ ran' = ran /\ fell' = fell
        /\ pool'.panicked = pool.panicked /\ pool'.seq = pool.seq + 1 /\ pool.seq \in Nat
        /\ pool'.cursor = pool.cursor /\ pool.cursor = 0
    BY <1>1, <1>4 DEF Bump, CallerRec, PoolRec, PoolInv, SlotIsMine
  <2>2. NobodyAtWork
    <3>1. closing.at = "live"
      BY <2>1 DEF PoolInv, DropIsAlone, InCall
    <3> QED
      BY <1>0, <2>1, <3>1 DEF PoolInv, QuietBetweenJobs, Active, ActiveAt
  <2>3. ~fell[c] /\ \A t \in Tasks : ran[c][t] = 0
    BY <2>1 DEF TaskInv, FreshJob
  <2>4. EachHandedOnce'
    <3> SUFFICES ASSUME NEW u \in Nat PROVE HandedOnce(c, u)'
      BY <1>0 DEF EachHandedOnce
    <3>1. \A w \in Workers : ~WorkerHolds(w, u)'
      BY <1>0, <2>2 DEF WorkerHolds, NobodyAtWork, Busy, Working
    <3>2. ~CallerHolds(c, u)' /\ ~InHand(c, u)'
      BY <1>0, <2>1, <3>1 DEF CallerHolds, InHand
    <3>3. ~(u < pool'.cursor) /\ (u < caller'[c].n => ran'[c][u] = 0)
      BY <1>0, <1>1, <2>1, <2>3
    <3> QED
      BY <1>0, <3>1, <3>2, <3>3 DEF HandedOnce
  <2>5. CursorIsDrained'
    <3>1. \A w \in Workers : ~Through(w)'
      BY <1>0, <2>1, <2>2 DEF Through, CheckedIn, NobodyAtWork, Busy, Working
    <3> QED
      BY <1>0, <2>1, <3>1 DEF CursorIsDrained
  <2>6. PanicIsOurs'
    <3>1. ~pool.panicked
      BY <1>0, <2>1 DEF TaskInv, PanicIsOurs, Judged, Active, ActiveAt
    <3>2. Judged(c)'
      BY <2>1 DEF Judged, Active, ActiveAt
    <3>3. pool'.panicked = fell'[c]
      BY <1>1, <2>1, <2>3, <3>1 DEF PoolRec
    <3> QED
      BY <1>0, <2>1, <3>2, <3>3 DEF PanicIsOurs
  <2>7. FreshJob' /\ AllRan'
    BY <1>0, <2>1 DEF FreshJob, AllRan
  <2> QED
    BY <1>2, <2>1, <2>4, <2>5, <2>6, <2>7 DEF TaskInv
<1>5. ASSUME Active(c), Active(c)', ran' = ran, fell' = fell,
             pool'.panicked = pool.panicked, EachHandedOnce', CursorIsDrained'
      PROVE  TaskInv'
  <2>1. caller'[c].at \notin {"inline", "rayon", "publish", "bump", "clear", "free"}
    BY <1>5 DEF Active, ActiveAt
  <2>2. Judged(c) /\ Judged(c)'
    BY <1>5 DEF Judged
  <2>3. FreshJob' /\ AllRan' /\ PanicIsOurs'
    BY <1>0, <1>5, <2>1, <2>2 DEF TaskInv, FreshJob, AllRan, PanicIsOurs
  <2> QED
    BY <1>2, <1>5, <2>1, <2>3 DEF TaskInv
<1>6. CASE WakeNext(c)
  <2>1. /\ caller[c].at = "wake" /\ caller'[c].at \in {"wake", "claim"}
        /\ pool' = pool /\ ran' = ran /\ fell' = fell
    BY <1>1, <1>6 DEF WakeNext, CallerRec
  <2>2. Active(c) /\ Active(c)'
    BY <2>1 DEF Active, ActiveAt
  <2>3. EachHandedOnce'
    <3> SUFFICES ASSUME NEW u \in Nat PROVE HandedOnce(c, u)'
      BY <1>0 DEF EachHandedOnce
    <3>1. HandedOnce(c, u)
      BY <2>2 DEF TaskInv, EachHandedOnce
    <3>2. ~CallerHolds(c, u) /\ ~CallerHolds(c, u)'
      BY <2>1 DEF CallerHolds
    <3>3. InHand(c, u)' <=> InHand(c, u)
      BY <1>0, <3>2 DEF InHand
    <3> QED
      BY <1>0, <2>1, <3>1, <3>2, <3>3 DEF HandedOnce
  <2>4. CursorIsDrained'
    BY <1>0, <2>1, <2>2 DEF TaskInv, CursorIsDrained, Through, CheckedIn
  <2> QED
    BY <1>5, <2>1, <2>2, <2>3, <2>4
<1>7. CASE CallerClaim(c)
  <2>1. /\ caller[c].at = "claim" /\ caller'[c].task = pool.cursor
        /\ caller'[c].at = IF pool.cursor < caller[c].n THEN "task" ELSE "wait"
        /\ pool'.cursor = pool.cursor + 1 /\ pool'.panicked = pool.panicked
        /\ pool'.seq = pool.seq /\ ran' = ran /\ fell' = fell
    BY <1>1, <1>7 DEF CallerClaim, CallerRec, PoolRec
  <2>2. Active(c) /\ Active(c)'
    BY <2>1 DEF Active, ActiveAt
  <2>3. EachHandedOnce'
    <3> SUFFICES ASSUME NEW u \in Nat PROVE HandedOnce(c, u)'
      BY <1>0 DEF EachHandedOnce
    <3>1. HandedOnce(c, u)
      BY <2>2 DEF TaskInv, EachHandedOnce
    <3>2. ~CallerHolds(c, u) /\ (CallerHolds(c, u)' <=> u = pool.cursor /\ u < caller[c].n)
      BY <2>1 DEF CallerHolds
    <3>3. InHand(c, u)' <=> InHand(c, u) \/ (u = pool.cursor /\ u < caller[c].n)
      BY <1>0, <3>2 DEF InHand
    <3>4. InHand(c, u) => u < pool.cursor
      BY <3>1 DEF HandedOnce
    <3>5. CASE u = pool.cursor
      <4>1. ~InHand(c, u) /\ \A w \in Workers : ~WorkerHolds(w, u)
        BY <1>1, <3>4, <3>5 DEF InHand
      <4> QED
        BY <1>0, <1>1, <2>1, <3>1, <3>2, <3>3, <3>5, <4>1 DEF HandedOnce
    <3>6. CASE u # pool.cursor
      <4>0. pool'.cursor = pool.cursor + 1 /\ pool.cursor \in Nat
        BY <1>1, <2>1
      <4>1. u < pool'.cursor <=> u < pool.cursor
        BY <3>6, <4>0
      <4>2. (InHand(c, u)' <=> InHand(c, u)) /\ ~CallerHolds(c, u)'
        BY <3>2, <3>3, <3>6
      <4> QED
        BY <1>0, <2>1, <3>1, <4>1, <4>2 DEF HandedOnce
    <3> QED
      BY <3>5, <3>6
  <2>4. CursorIsDrained'
    <3>1. \A w \in Workers : Through(w)' <=> Through(w)
      BY <1>0, <2>1 DEF Through, CheckedIn
    <3>2. caller'[c].at = "wait" \/ (\E w \in Workers : Through(w)') => pool.cursor >= caller[c].n
      BY <1>1, <2>1, <2>2, <3>1 DEF TaskInv, CursorIsDrained
    <3>3. pool.cursor >= caller[c].n => pool'.cursor >= caller'[c].n
      BY <1>0, <1>1, <2>1
    <3> QED
      BY <1>0, <3>2, <3>3 DEF CursorIsDrained
  <2> QED
    BY <1>5, <2>1, <2>2, <2>3, <2>4
<1>8. CASE CallerTask(c)
  <2>1. PICK t \in Nat : t = caller[c].task
    BY <1>1 DEF CallerRec
  <2>2. PICK panics \in BOOLEAN :
          /\ fell' = [fell EXCEPT ![c] = fell[c] \/ panics]
          /\ pool' = [pool EXCEPT !.panicked = pool.panicked \/ panics]
    BY <1>8 DEF CallerTask, Runs
  <2>3. /\ caller[c].at = "task" /\ caller'[c].at = "claim"
        /\ ran' = [ran EXCEPT ![c][t] = @ + 1]
    BY <1>1, <1>8, <2>1 DEF CallerTask, Moves, Runs, CallerRec
  <2>4. Active(c) /\ Active(c)'
    BY <2>3 DEF Active, ActiveAt
  <2>5. CallerHolds(c, t) /\ InHand(c, t) /\ HandedOnce(c, t)
    BY <2>1, <2>3, <2>4 DEF CallerHolds, InHand, TaskInv, EachHandedOnce
  <2>6. t < pool.cursor /\ t < caller[c].n /\ ran[c][t] = 0 /\ t \in Tasks
        /\ \A w \in Workers : ~WorkerHolds(w, t)
    BY <1>1, <2>5 DEF HandedOnce
  <2>7. /\ \A d \in Callers : d # c => ran'[d] = ran[d] /\ fell'[d] = fell[d]
        /\ \A u \in Tasks : ran'[c][u] = IF u = t THEN 1 ELSE ran[c][u]
        /\ pool'.cursor = pool.cursor /\ pool'.seq = pool.seq
        /\ pool'.panicked = (pool.panicked \/ panics) /\ fell'[c] = (fell[c] \/ panics)
    <3>1. ran' = [ran EXCEPT ![c] = [ran[c] EXCEPT ![t] = 1]]
      BY <2>3, <2>6
    <3> QED
      BY <1>1, <2>2, <2>6, <3>1 DEF PoolRec
  <2>8. EachHandedOnce'
    <3> SUFFICES ASSUME NEW u \in Nat PROVE HandedOnce(c, u)'
      BY <1>0 DEF EachHandedOnce
    <3>1. HandedOnce(c, u)
      BY <2>4 DEF TaskInv, EachHandedOnce
    <3>2. ~CallerHolds(c, u)' /\ (CallerHolds(c, u) <=> u = t)
      BY <2>1, <2>3 DEF CallerHolds
    <3>3. InHand(c, u)' <=> InHand(c, u) /\ u # t
      BY <1>0, <2>6, <3>2 DEF InHand
    <3> QED
      BY <1>0, <1>1, <2>6, <2>7, <3>1, <3>2, <3>3 DEF HandedOnce
  <2>9. CursorIsDrained'
    BY <1>0, <2>3, <2>4, <2>7 DEF TaskInv, CursorIsDrained, Through, CheckedIn
  <2>10. PanicIsOurs'
    <3>1. Judged(c) /\ Judged(c)' /\ caller'[c].at # "free"
      BY <2>3, <2>4 DEF Judged
    <3>2. pool'.panicked = fell'[c]
      BY <2>7, <3>1 DEF TaskInv, PanicIsOurs
    <3> QED
      BY <1>0, <2>7, <3>1, <3>2 DEF PanicIsOurs
  <2>11. FreshJob' /\ AllRan'
    BY <1>0, <2>3 DEF FreshJob, AllRan
  <2> QED
    BY <1>2, <2>3, <2>7, <2>8, <2>9, <2>10, <2>11 DEF TaskInv
<1>9. CASE AwaitCheckIns(c)
  <2>1. /\ caller[c].at = "wait" /\ caller'[c].at = "clear"
        /\ pool' = pool /\ ran' = ran /\ fell' = fell
        /\ pool.done >= Cardinality(Workers)
    BY <1>1, <1>9 DEF AwaitCheckIns, Moves, PoolVars, CallerRec
  <2>2. Active(c)
    BY <2>1 DEF Active, ActiveAt
  <2>3. CheckedIn = Workers
    BY <2>1, <2>2, EveryoneCheckedIn DEF PoolInv, WorkIsCounted
  <2>4. \A u \in 0 .. caller[c].n - 1 : ran'[c][u] = 1
    <3> SUFFICES ASSUME NEW u \in Nat, u < caller[c].n PROVE ran[c][u] = 1
      BY <1>1, <2>1
    <3>1. HandedOnce(c, u)
      BY <2>2 DEF TaskInv, EachHandedOnce
    <3>2. ~InHand(c, u)
      BY <2>1, <2>3 DEF InHand, CallerHolds, WorkerHolds, CheckedIn, Busy, Working
    <3>3. u < pool.cursor
      BY <1>1, <2>1, <2>2 DEF TaskInv, CursorIsDrained
    <3> QED
      BY <3>1, <3>2, <3>3 DEF HandedOnce
  <2>5. \A d \in Callers : ~Active(d)' /\ (Judged(d)' <=> Judged(d))
    BY <1>0, <2>1, <2>2 DEF Active, ActiveAt, Judged
  <2>6. EachHandedOnce' /\ CursorIsDrained'
    BY <2>5 DEF EachHandedOnce, CursorIsDrained
  <2>7. FreshJob' /\ PanicIsOurs' /\ AllRan'
    BY <1>0, <2>1, <2>4, <2>5 DEF TaskInv, FreshJob, PanicIsOurs, AllRan
  <2> QED
    BY <1>2, <2>1, <2>6, <2>7 DEF TaskInv
<1>10. CASE TakePanic(c)
  <2>1. /\ caller[c].at = "clear" /\ caller'[c].at = "free"
        /\ caller'[c].raise = pool.panicked /\ pool'.panicked = FALSE
        /\ ran' = ran /\ fell' = fell
    BY <1>1, <1>10 DEF TakePanic, CallerRec, PoolRec
  <2>2. \A d \in Callers : ~Active(d)' /\ ~Judged(d)'
    BY <1>0, <2>1 DEF Active, ActiveAt, Judged
  <2>3. EachHandedOnce' /\ CursorIsDrained'
    BY <2>2 DEF EachHandedOnce, CursorIsDrained
  <2>4. Judged(c)
    BY <2>1 DEF Judged
  <2>5. FreshJob' /\ PanicIsOurs' /\ AllRan'
    BY <1>0, <2>1, <2>2, <2>4 DEF TaskInv, FreshJob, PanicIsOurs, AllRan
  <2> QED
    BY <1>2, <2>1, <2>3, <2>5 DEF TaskInv
<1>11. CASE Release(c)
  <2>1. /\ caller[c].at = "free" /\ caller'[c].at \in {"returned", "panicked"}
        /\ pool'.panicked = pool.panicked /\ ran' = ran /\ fell' = fell
    BY <1>1, <1>11 DEF Release, Moves, CallerRec, PoolRec
  <2>2. \A d \in Callers : ~Active(d)' /\ ~Judged(d) /\ ~Judged(d)'
    BY <1>0, <2>1 DEF Active, ActiveAt, Judged
  <2>3. EachHandedOnce' /\ CursorIsDrained'
    BY <2>2 DEF EachHandedOnce, CursorIsDrained
  <2>4. FreshJob' /\ PanicIsOurs' /\ AllRan'
    BY <1>0, <2>1, <2>2 DEF TaskInv, FreshJob, PanicIsOurs, AllRan
  <2> QED
    BY <1>2, <2>1, <2>3, <2>4 DEF TaskInv
<1> QED
  BY <1>3, <1>4, <1>6, <1>7, <1>8, <1>9, <1>10, <1>11 DEF OnPoolStep

LEMMA DropKeepsTasks ==
  ASSUME Sized, PoolInv, TaskInv, crew' = crew, Shutdown \/ DropStep
  PROVE  TaskInv'
<1>1. /\ worker' = worker /\ caller' = caller /\ ran' = ran /\ fell' = fell
      /\ pool'.panicked = pool.panicked
      /\ \A c \in Callers : ~InCall(c)
  BY DropFacts DEF PoolInv, DropIsAlone
<1>2. \A c \in Callers : ~Active(c)'
  BY <1>1 DEF InCall, Active, ActiveAt
<1> QED
  BY <1>1, <1>2 DEF TaskInv, InlineInOrder, RayonOnce, FreshJob, PanicIsOurs, Judged, Active,
                    EachHandedOnce, CursorIsDrained, AllRan

LEMMA StepKeepsTasks == ASSUME Sized, PoolInv, TaskInv, [Next]_vars PROVE TaskInv'
<1>1. CASE UNCHANGED vars
  <2>1. Workers' = Workers /\ CheckedIn' = CheckedIn
    BY <1>1 DEF vars, Workers, CheckedIn
  <2>2. InlineInOrder' /\ RayonOnce' /\ FreshJob' /\ PanicIsOurs' /\ AllRan'
    BY <1>1 DEF vars, TaskInv, InlineInOrder, RayonOnce, FreshJob, PanicIsOurs, Judged, Active,
                AllRan
  <2>3. EachHandedOnce' /\ CursorIsDrained'
    BY <1>1, <2>1 DEF vars, TaskInv, EachHandedOnce, HandedOnce, InHand, CallerHolds,
                      WorkerHolds, CursorIsDrained, Through, Active
  <2> QED
    BY <2>2, <2>3 DEF TaskInv
<1>2. ASSUME crew' = crew, NEW w \in Workers, WorkerStep(w) \/ SpuriousWake(w) PROVE TaskInv'
  BY <1>2, WorkerKeepsTasks
<1>3. ASSUME crew' = crew, NEW c \in Callers, Call(c) \/ RunStep(c) PROVE TaskInv'
  BY <1>3, OffPoolKeepsTasks, OnPoolKeepsTasks DEF RunStep, OnPoolStep
<1>4. ASSUME crew' = crew, Shutdown \/ DropStep PROVE TaskInv'
  BY <1>4, DropKeepsTasks
<1> QED
  BY <1>1, <1>2, <1>3, <1>4 DEF Next

-----------------------------------------------------------------------------
(* What a caller of run sees of a step: nothing, unless it is about a call's     *)
(* beginning, one of its tasks, or its end.                                  *)
LEMMA Unseen ==
  ASSUME ran' = ran, fell' = fell,
         \A c \in Callers : State(c)' = State(c) /\ caller'[c].n = caller[c].n
  PROVE  [Promise!Next]_Promise!vars
BY DEF Promise!vars

LEMMA BeginningIsSeen ==
  ASSUME PoolInv, NEW c \in Callers, Call(c)
  PROVE  Promise!Call(c)
<1>1. PICK n \in 0 .. MaxTasks :
        caller' = [caller EXCEPT ![c] =
                [at |-> IF n <= 1 \/ Workers = {} THEN "inline"
                        ELSE IF pool.busy THEN "rayon" ELSE "publish",
                 n |-> n, task |-> 0, wake |-> {}, raise |-> FALSE, calls |-> @.calls + 1]]
  BY DEF Call
<1>2. caller \in [Callers -> CallerRec]
  BY DEF PoolInv, TypeOK
<1>3. /\ \A d \in Callers : d # c => caller'[d] = caller[d]
      /\ caller'[c].at \in {"inline", "rayon", "publish"} /\ caller'[c].n = n
  BY <1>1, <1>2
<1>4. State(c) # "running" /\ State(c)' = "running"
  BY <1>3 DEF State, InCall, Call
<1>5. \A d \in Callers : d # c => State(d)' = State(d)
  BY <1>3 DEF State, InCall
<1>6. [d \in Callers |-> State(d)]' = [[d \in Callers |-> State(d)] EXCEPT ![c] = "running"]
  BY <1>4, <1>5
<1>7. [d \in Callers |-> caller[d].n]' = [[d \in Callers |-> caller[d].n] EXCEPT ![c] = n]
  BY <1>3
<1>8. ran' = [ran EXCEPT ![c] = [t \in Tasks |-> 0]] /\ fell' = [fell EXCEPT ![c] = FALSE]
  BY DEF Call
<1> QED
  BY <1>4, <1>6, <1>7, <1>8 DEF Promise!Call, Promise!Tasks, Tasks

LEMMA TaskIsSeen ==
  ASSUME NEW c \in Callers, NEW t \in 0 .. caller[c].n - 1, State(c) = "running",
         \A d \in Callers : State(d)' = State(d) /\ caller'[d].n = caller[d].n,
         ran[c][t] = 0, ran' = [ran EXCEPT ![c][t] = @ + 1],
         NEW panics \in BOOLEAN, fell' = [fell EXCEPT ![c] = @ \/ panics]
  PROVE  Promise!RunTask(c)
<1>1. /\ [d \in Callers |-> State(d)]' = [d \in Callers |-> State(d)]
      /\ [d \in Callers |-> caller[d].n]' = [d \in Callers |-> caller[d].n]
  OBVIOUS
<1>2. ran' = [ran EXCEPT ![c][t] = 1]
  OBVIOUS
<1> QED
  BY <1>1, <1>2 DEF Promise!RunTask

LEMMA EndIsSeen ==
  ASSUME NEW c \in Callers, State(c) = "running",
         \A d \in Callers : caller'[d].n = caller[d].n,
         \A d \in Callers : d # c => State(d)' = State(d),
         State(c)' = IF fell[c] THEN "panicked" ELSE "returned",
         fell[c] \/ \A t \in 0 .. caller[c].n - 1 : ran[c][t] = 1,
         fell[c] \in BOOLEAN, ran' = ran, fell' = fell
  PROVE  Promise!Return(c) \/ Promise!Panic(c)
<1>1. [d \in Callers |-> caller[d].n]' = [d \in Callers |-> caller[d].n]
  OBVIOUS
<1>2. [d \in Callers |-> State(d)]' = [[d \in Callers |-> State(d)] EXCEPT ![c] = State(c)']
  OBVIOUS
<1>3. CASE fell[c]
  BY <1>1, <1>2, <1>3 DEF Promise!Panic
<1>4. CASE ~fell[c]
  BY <1>1, <1>2, <1>4 DEF Promise!Return
<1> QED
  BY <1>3, <1>4

LEMMA StepKeepsPromise ==
  ASSUME Sized, PoolInv, TaskInv, [Next]_vars
  PROVE  [Promise!Next]_Promise!vars
<1>0. /\ caller \in [Callers -> CallerRec] /\ worker \in [Workers -> WorkerRec]
      /\ fell \in [Callers -> BOOLEAN]
  BY DEF PoolInv, TypeOK
<1>1. CASE UNCHANGED vars
  BY <1>1, Unseen DEF vars, State, InCall
<1>2. ASSUME crew' = crew, NEW w \in Workers, WorkerStep(w) \/ SpuriousWake(w)
      PROVE  [Promise!Next]_Promise!vars
  <2>1. caller' = caller
    BY <1>2, WorkerFacts DEF PoolInv
  <2>2. CASE WorkerTask(w)
    <3>1. worker[w].at = "task" /\ worker[w] \in WorkerRec
      BY <1>0, <2>2 DEF WorkerTask, Goes
    <3>2. PICK c \in Callers, t \in Nat :
            c = worker[w].job /\ t = worker[w].task /\ Active(c)
      BY <3>1, WorkersServe DEF Working, WorkerRec
    <3>3. InHand(c, t) /\ HandedOnce(c, t)
      BY <3>1, <3>2 DEF InHand, WorkerHolds, TaskInv, EachHandedOnce
    <3>4. t < caller[c].n /\ ran[c][t] = 0
      BY <3>3 DEF HandedOnce
    <3>5. t \in 0 .. caller[c].n - 1
      BY <1>0, <3>4 DEF CallerRec, Sized
    <3>6. State(c) = "running"
      BY <3>2 DEF State, InCall, Active, ActiveAt
    <3>7. PICK panics \in BOOLEAN : fell' = [fell EXCEPT ![c] = @ \/ panics]
      BY <2>2, <3>2 DEF WorkerTask, Runs
    <3>8. ran' = [ran EXCEPT ![c][t] = @ + 1]
      BY <2>2, <3>2 DEF WorkerTask, Runs
    <3>9. Promise!RunTask(c)
      BY <2>1, <3>4, <3>5, <3>6, <3>7, <3>8, TaskIsSeen DEF State, InCall
    <3> QED
      BY <3>9 DEF Promise!Next
  <2>3. CASE ~WorkerTask(w)
    <3>1. ran' = ran /\ fell' = fell
      BY <1>2, <2>3 DEF WorkerStep, Look, PublishSleep, Recheck, Park, SpuriousWake, ClearFlag,
                        Begin, Claim, CheckIn, UserVars
    <3> QED
      BY <2>1, <3>1, Unseen DEF State, InCall
  <2> QED
    BY <2>2, <2>3
<1>3. ASSUME crew' = crew, NEW c \in Callers, Call(c) PROVE [Promise!Next]_Promise!vars
  BY <1>3, BeginningIsSeen DEF Promise!Next
<1>4. ASSUME crew' = crew, NEW c \in Callers, InlineTask(c) \/ RayonTask(c)
      PROVE  [Promise!Next]_Promise!vars
  <2>1. PICK t \in Nat :
          /\ t < caller[c].n /\ ran[c][t] = 0 /\ ran' = [ran EXCEPT ![c][t] = @ + 1]
          /\ caller[c].at \in {"inline", "rayon"}
          /\ InlineTask(c) \/ caller' = caller
    <3>1. CASE InlineTask(c)
      <4>1. PICK t \in Nat : t = caller[c].task
        BY <1>0 DEF CallerRec
      <4>2. t < caller[c].n /\ t \in Tasks
        BY <1>0, <3>1, <4>1 DEF InlineTask, CallerRec, Tasks, Sized
      <4>3. caller[c].at = "inline" /\ ran' = [ran EXCEPT ![c][t] = @ + 1]
        BY <3>1, <4>1 DEF InlineTask, RunsHere
      <4>4. ran[c][t] = 0
        BY <4>1, <4>2, <4>3 DEF TaskInv, InlineInOrder
      <4> QED
        BY <3>1, <4>2, <4>3, <4>4
    <3>2. CASE RayonTask(c)
      <4>1. PICK t \in 0 .. caller[c].n - 1 :
              ran[c][t] = 0 /\ ran' = [ran EXCEPT ![c][t] = @ + 1]
        BY <3>2 DEF RayonTask, RunsHere
      <4>2. t \in Nat /\ t < caller[c].n
        BY <1>0 DEF CallerRec, Sized
      <4> QED
        BY <3>2, <4>1, <4>2 DEF RayonTask
    <3> QED
      BY <1>4, <3>1, <3>2
  <2>2. PICK panics \in BOOLEAN : fell' = [fell EXCEPT ![c] = @ \/ panics]
    BY <1>4 DEF InlineTask, RayonTask, RunsHere
  <2>3. \A d \in Callers : caller'[d].at = caller[d].at /\ caller'[d].n = caller[d].n
    <3>1. InlineTask(c) => caller' = [caller EXCEPT ![c] = [caller[c] EXCEPT !.task = @ + 1]]
      BY DEF InlineTask
    <3> QED
      BY <1>0, <2>1, <3>1 DEF CallerRec
  <2>4. \A d \in Callers : State(d)' = State(d)
    BY <2>3 DEF State, InCall
  <2>5. t \in 0 .. caller[c].n - 1
    BY <1>0, <2>1 DEF CallerRec, Sized
  <2>6. State(c) = "running"
    BY <2>1 DEF State, InCall
  <2>7. Promise!RunTask(c)
    BY <2>1, <2>2, <2>3, <2>4, <2>5, <2>6, TaskIsSeen
  <2> QED
    BY <2>7 DEF Promise!Next
<1>5. ASSUME crew' = crew, NEW c \in Callers, CallerTask(c) PROVE [Promise!Next]_Promise!vars
  <2>1. PICK t \in Nat : t = caller[c].task
    BY <1>0 DEF CallerRec
  <2>2. /\ caller[c].at = "task" /\ ran' = [ran EXCEPT ![c][t] = @ + 1]
        /\ caller' = [caller EXCEPT ![c] = [caller[c] EXCEPT !.at = "claim"]]
    BY <1>5, <2>1 DEF CallerTask, Moves, Runs
  <2>3. PICK panics \in BOOLEAN : fell' = [fell EXCEPT ![c] = @ \/ panics]
    BY <1>5 DEF CallerTask, Runs
  <2>4. InHand(c, t) /\ HandedOnce(c, t)
    BY <2>1, <2>2 DEF InHand, CallerHolds, TaskInv, EachHandedOnce, Active, ActiveAt
  <2>5. t < caller[c].n /\ ran[c][t] = 0
    BY <2>4 DEF HandedOnce
  <2>6. t \in 0 .. caller[c].n - 1
    BY <1>0, <2>5 DEF CallerRec, Sized
  <2>7. /\ \A d \in Callers : d # c => caller'[d] = caller[d]
        /\ caller'[c].at = "claim" /\ caller'[c].n = caller[c].n
    BY <1>0, <2>2 DEF CallerRec
  <2>8. State(c) = "running" /\ State(c)' = "running"
    BY <2>2, <2>7 DEF State, InCall
  <2>9. \A d \in Callers : State(d)' = State(d) /\ caller'[d].n = caller[d].n
    BY <2>7, <2>8 DEF State, InCall
  <2>10. Promise!RunTask(c)
    BY <2>2, <2>3, <2>5, <2>6, <2>8, <2>9, TaskIsSeen
  <2> QED
    BY <2>10 DEF Promise!Next
<1>6. ASSUME crew' = crew, NEW c \in Callers, OffPoolEnds(c) \/ Release(c)
      PROVE  [Promise!Next]_Promise!vars
  <2>1. /\ \A d \in Callers : d # c => caller'[d] = caller[d]
        /\ caller'[c].at = IF fell[c] THEN "panicked" ELSE "returned"
        /\ caller'[c].n = caller[c].n
        /\ caller[c].at \in {"inline", "rayon", "free"}
        /\ ran' = ran /\ fell' = fell
    <3>1. CASE OffPoolEnds(c)
      BY <1>0, <3>1 DEF OffPoolEnds, CallerRec
    <3>2. CASE Release(c)
      <4>1. caller[c].raise = fell[c]
        BY <3>2 DEF TaskInv, PanicIsOurs, Release, Moves
      <4> QED
        BY <1>0, <3>2, <4>1 DEF Release, Moves, CallerRec
    <3> QED
      BY <1>6, <3>1, <3>2
  <2>2. fell[c] \/ \A t \in 0 .. caller[c].n - 1 : ran[c][t] = 1
    <3>1. CASE OffPoolEnds(c)
      BY <3>1 DEF OffPoolEnds
    <3>2. CASE Release(c)
      BY <3>2 DEF TaskInv, AllRan, Release, Moves
    <3> QED
      BY <1>6, <3>1, <3>2
  <2>3. State(c) = "running" /\ State(c)' = IF fell[c] THEN "panicked" ELSE "returned"
    BY <2>1 DEF State, InCall
  <2>4. /\ \A d \in Callers : d # c => State(d)' = State(d)
        /\ \A d \in Callers : caller'[d].n = caller[d].n
    BY <2>1 DEF State, InCall
  <2>5. Promise!Return(c) \/ Promise!Panic(c)
    <3>1. fell[c] \in BOOLEAN
      BY <1>0
    <3> QED
      BY <2>1, <2>2, <2>3, <2>4, <3>1, EndIsSeen
  <2> QED
    BY <2>5 DEF Promise!Next
<1>7. ASSUME crew' = crew, NEW c \in Callers, OnPoolStep(c), ~CallerTask(c), ~Release(c)
      PROVE  [Promise!Next]_Promise!vars
  <2>1. /\ \A d \in Callers : d # c => caller'[d] = caller[d]
        /\ caller'[c].n = caller[c].n /\ OnPool(c)
    BY <1>7, OnPoolFacts
  <2>2. ran' = ran /\ fell' = fell
    BY <1>7 DEF OnPoolStep, Publish, Bump, WakeNext, CallerClaim, AwaitCheckIns, TakePanic
  <2>3. Publishes(c) \/ Bumps(c) \/ WorksOn(c) \/ Leaves(c) \/ Clears(c) \/ Releases(c)
        \/ Calls(c) \/ StaysOff(c)
    BY <1>7, CallerFacts DEF PoolInv, RunStep, OnPoolStep
  <2>4. InCall(c) /\ InCall(c)'
    <3>1. caller[c].at # "free"
      BY <1>7 DEF OnPoolStep, Publish, Bump, WakeNext, CallerClaim,
          AwaitCheckIns, TakePanic, Moves
    <3> QED
      BY <2>1, <2>3, <3>1
         DEF Publishes, Bumps, WorksOn, Leaves, Clears, Releases, Calls, StaysOff, Active,
             ActiveAt, OnPool, OnPoolAt, InCall
  <2>5. \A d \in Callers : State(d)' = State(d) /\ caller'[d].n = caller[d].n
    BY <2>1, <2>4 DEF State, InCall
  <2> QED
    BY <2>2, <2>5, Unseen
<1>8. ASSUME crew' = crew, Shutdown \/ DropStep PROVE [Promise!Next]_Promise!vars
  <2>1. caller' = caller /\ ran' = ran /\ fell' = fell
    BY <1>8, DropFacts DEF PoolInv
  <2> QED
    BY <2>1, Unseen DEF State, InCall
<1> QED
  BY <1>1, <1>2, <1>3, <1>4, <1>5, <1>6, <1>7, <1>8 DEF Next, RunStep, OnPoolStep

(* Whatever the workers and the other callers do, run calls each of its tasks    *)
(* exactly once before it returns, and panics exactly when one of its own tasks   *)
(* did: the pool implements ForkJoin (SpinPool::run; pool.rs:303).             *)
THEOREM EachTaskRunsOnce == ASSUME Sized PROVE Spec => KeepsItsPromise
<1>1. Init => Promise!Init
  <2> SUFFICES ASSUME Init PROVE Promise!Init
    OBVIOUS
  <2>1. [c \in Callers |-> State(c)] = [c \in Callers |-> "idle"]
    BY DEF Init, State, InCall
  <2>2. [c \in Callers |-> caller[c].n] = [c \in Callers |-> 0]
    BY DEF Init
  <2> QED
    BY <2>1, <2>2 DEF Init, Promise!Init, Promise!Tasks, Tasks
<1>2. Init => TaskInv
  BY InitialTasks
<1>3. PoolInv /\ TaskInv /\ [Next]_vars => TaskInv'
  BY StepKeepsTasks
<1>4. PoolInv /\ TaskInv /\ [Next]_vars => [Promise!Next]_Promise!vars
  BY StepKeepsPromise
<1> QED
  BY <1>1, <1>2, <1>3, <1>4, PoolIsSound, PTL DEF Spec, KeepsItsPromise, Promise!Spec

-----------------------------------------------------------------------------
(* The HTTP server.                                                         *)

(* A handler that goes away leaves the queue, which keeps its order; it waited *)
(* there once.                                                              *)
LEMMA QueueWithout ==
  ASSUME NEW S, NEW s \in Seq(S), NEW e,
         \A i, j \in 1 .. Len(s) : s[i] = s[j] => i = j
  PROVE  /\ Server!RemoveFirst(s, e) \in Seq(S)
         /\ \A i \in 1 .. Len(Server!RemoveFirst(s, e)) :
              Server!RemoveFirst(s, e)[i] # e /\ \E j \in 1 .. Len(s) : Server!RemoveFirst(s, e)[i] = s[j]
         /\ \A i, j \in 1 .. Len(Server!RemoveFirst(s, e)) :
              Server!RemoveFirst(s, e)[i] = Server!RemoveFirst(s, e)[j] => i = j
<1> DEFINE Left(t) ==
       /\ t \in Seq(S)
       /\ \A i \in 1 .. Len(t) : t[i] # e /\ \E j \in 1 .. Len(s) : t[i] = s[j]
       /\ \A i, j \in 1 .. Len(t) : t[i] = t[j] => i = j
<1> SUFFICES Left(Server!RemoveFirst(s, e))
  OBVIOUS
<1>1. CASE ~\E i \in 1 .. Len(s) : s[i] = e
  BY <1>1 DEF Server!RemoveFirst
<1>2. ASSUME NEW k \in 1 .. Len(s), s[k] = e 
      PROVE  Left(Server!RemoveFirst(s, e))
  <2>1. {i \in 1 .. Len(s) : s[i] = e} = {k}
    BY <1>2
  <2>2. Server!Min({k}) = k
    BY DEF Server!Min
  <2>3. Server!RemoveFirst(s, e) = Server!RemoveAt(s, k)
    BY <1>2, <2>1, <2>2 DEF Server!RemoveFirst, Server!SelectInSeq
  <2> DEFINE t == Server!RemoveAt(s, k)
  <2>4. /\ t \in Seq(S) /\ Len(t) = Len(s) - 1
        /\ \A i \in 1 .. Len(t) : t[i] = IF i < k THEN s[i] ELSE s[i + 1]
    <3> DEFINE a == SubSeq(s, 1, k - 1)
    <3> DEFINE b == SubSeq(s, k + 1, Len(s))
    <3>1. a \in Seq(S) /\ Len(a) = k - 1 /\ \A i \in 1 .. k - 1 : a[i] = s[i]
      OBVIOUS
    <3>2. b \in Seq(S) /\ Len(b) = Len(s) - k /\ \A i \in 1 .. Len(s) - k : b[i] = s[k + i]
      OBVIOUS
    <3>3. t = a \o b
      BY DEF Server!RemoveAt
    <3> HIDE DEF a, b, t
    <3>4. t \in Seq(S) /\ Len(t) = Len(s) - 1
      <4>1. t \in Seq(S) /\ Len(t) = Len(a) + Len(b)
        BY <3>1, <3>2, <3>3, ConcatProperties, ZenonT(30)
      <4>2. Len(s) \in Nat
        OBVIOUS
      <4>3. (k - 1) + (Len(s) - k) = Len(s) - 1
        BY <4>2
      <4> QED
        BY <3>1, <3>2, <4>1, <4>3
    <3>5. ASSUME NEW i \in 1 .. Len(t) PROVE t[i] = IF i < k THEN s[i] ELSE s[i + 1]
      <4>1. CASE i < k
        BY <3>1, <3>2, <3>3, <3>4, <4>1
      <4>2. CASE i >= k
        <5>1. i - (k - 1) \in 1 .. Len(s) - k
          BY <3>4, <4>2
        <5>2. t[i] = b[i - (k - 1)]
          BY <3>1, <3>2, <3>3, <3>4, <4>2
        <5>3. k + (i - (k - 1)) = i + 1
          BY <3>4
        <5> QED
          BY <3>2, <4>2, <5>1, <5>2, <5>3
      <4> QED
        BY <3>4, <4>1, <4>2
    <3> QED
      BY <3>4, <3>5
  <2> HIDE DEF t
  <2>5. \A i \in 1 .. Len(t) : t[i] # e /\ \E j \in 1 .. Len(s) : t[i] = s[j]
    BY <1>2, <2>4
  <2>6. \A i, j \in 1 .. Len(t) : t[i] = t[j] => i = j
    BY <1>2, <2>4
  <2> QED
    BY <2>3, <2>4, <2>5, <2>6 DEF t
<1> QED
  BY <1>1, <1>2

-----------------------------------------------------------------------------
ReqShape(q) ==
  DOMAIN q = {"handler", "task", "gone", "cancel", "hit", "by", "stopped", "result", "called",
              "deltas", "window", "inWindow", "correction", "terminal", "done", "counted"}

(* The queue holds requests that wait for a permit, each of them once.        *)
QueueInv ==
  /\ DOMAIN slots = {"free", "queue"}
  /\ slots.queue \in Seq(Requests)
  /\ \A i \in 1 .. Len(slots.queue) : req[slots.queue[i]].handler = "queued"
  /\ \A i, j \in 1 .. Len(slots.queue) : slots.queue[i] = slots.queue[j] => i = j

(* How a request ends, for a stream (s) and for a buffered reply: what is told *)
(* and counted at each point of its task, and who can still be waiting.        *)
Early == {"decode", "bump", "ended"}
Closing == {"check", "correct"}

NothingTold(q) == q.terminal = <<>> /\ q.counted = 0 /\ q.done = 0 /\ q.handler # "answered"

Told(q) ==
  /\ Len(q.terminal) = 1
  /\ q.terminal = <<"error">> <=> q.result # "stop"
  /\ q.terminal = <<"tool_calls">> <=> q.called
  /\ q.stopped /\ q.by = "deadline" => q.terminal # <<"stop">>

Latches(q) ==
  /\ q.cancel \in BOOLEAN /\ q.hit \in BOOLEAN /\ q.stopped \in BOOLEAN
  /\ q.cancel <=> q.by # "nobody"
  /\ q.by = "deadline" => q.hit
  /\ q.stopped => q.cancel /\ q.task \notin {"off", "decode", "bump"}

(* A call is sent by a generation that ended well; a forced one (f) returns    *)
(* without an error only with its call.                                     *)
CallsSent(q, f) ==
  /\ q.called \in BOOLEAN
  /\ q.called => q.result = "stop" /\ q.task \notin {"off", "decode", "bump"}
  /\ f /\ q.result = "stop" /\ q.task \in Closing \cup {"close", "closed"} => q.called

Ending(q, s) ==
  /\ q.task \in Early \cup Closing \cup {"off", "guard", "reply", "close", "closed"}
  /\ q.handler \in {"new", "queued", "awaiting", "streaming", "answered", "dropped"}
  /\ q.handler \in {"new", "queued"} => q.task = "off"
  /\ q.task = "off" => q.handler \in {"new", "queued", "dropped"}
  /\ q.handler = "streaming" => s
  /\ q.handler = "awaiting" => ~s
  /\ s /\ q.task # "off" => q.handler \in {"streaming", "answered"}
  /\ q.task \in Early \cup {"off", "guard", "reply"} => NothingTold(q)
  /\ q.task \in {"guard", "reply"} => q.result # "stop"
  /\ q.task = "guard" => s
  /\ q.task = "reply" => q.handler = "awaiting"
  /\ q.task \in Closing =>
       /\ q.result = "stop" /\ q.counted = 0 /\ q.done = 0
       /\ s => q.handler = "streaming" /\ Told(q)
       /\ ~s => q.handler = "awaiting" /\ q.terminal = <<>>
  /\ q.task = "close" =>
       s /\ q.handler = "streaming" /\ q.counted = 1 /\ q.done = 0 /\ Told(q)
  /\ q.task = "closed" =>
       /\ q.handler = "answered" => Told(q) /\ q.counted = 1 /\ (s => q.done = 1)
       /\ q.handler # "answered" => q.handler = "dropped" /\ q.counted = 0 /\ q.terminal = <<>>

EndingInv ==
  /\ DOMAIN req = Requests
  /\ QueueInv
  /\ \A r \in Requests :
       /\ ReqShape(req[r]) /\ Latches(req[r])
       /\ CallsSent(req[r], Server!Forced(r)) /\ Ending(req[r], Server!Streams(r))

(* What a request has put into the open interval, unless a drain fell inside   *)
(* one of its updates: as much as it believes, as long as the window it       *)
(* believes in is the open one; and a retraction never takes more.            *)
Billed(q, st, sh, across) ==
  /\ q.deltas \in Nat /\ q.window \in Nat /\ q.inWindow \in Nat /\ q.correction \in Int
  /\ sh \in Int
  /\ q.window <= st.window
  /\ ~across =>
       /\ sh >= 0
       /\ q.task = "correct" => sh + q.correction >= 0
       /\ st.draining => q.window < st.window
       /\ ~st.draining /\ q.window = st.window =>
            /\ q.task \in {"off", "decode", "ended", "check"} => sh >= q.inWindow
            /\ q.task = "bump" => sh + 1 >= q.inWindow

BillInv ==
  /\ DOMAIN req = Requests /\ \A r \in Requests : ReqShape(req[r])
  /\ DOMAIN stats = {"window", "gen", "draining"}
  /\ stats.window \in Nat /\ stats.draining \in BOOLEAN
  /\ share \in [Requests -> Int] /\ straddled \in [Requests -> BOOLEAN]
  /\ \A r \in Requests : Billed(req[r], stats, share[r], straddled[r])

(* A request as the invariant has it, and what it may become.                  *)
Sound(r, q) ==
  ReqShape(q) /\ Latches(q) /\ CallsSent(q, Server!Forced(r)) /\ Ending(q, Server!Streams(r))

LEMMA OneRequest ==
  ASSUME DOMAIN req = Requests, NEW r \in Requests, NEW q, Server!Sets(r, q)
  PROVE  DOMAIN req' = Requests /\ req'[r] = q /\ \A u \in Requests \ {r} : req'[u] = req[u]
BY DEF Server!Sets

LEMMA OneIsSound ==
  ASSUME EndingInv, setup' = setup, NEW r \in Requests, NEW q, Server!Sets(r, q), Sound(r, q), QueueInv'
  PROVE  EndingInv'
<1>1. DOMAIN req' = Requests /\ req'[r] = q /\ \A u \in Requests \ {r} : req'[u] = req[u]
  BY OneRequest DEF EndingInv
<1>2. \A u \in Requests : (Server!Streams(u)' <=> Server!Streams(u))
                          /\ (Server!Forced(u)' <=> Server!Forced(u))
  BY DEF Server!Streams, Server!Forced
<1>3. \A u \in Requests : Sound(u, req'[u])
  BY <1>1 DEF EndingInv, Sound
<1>4. ASSUME NEW u \in Requests
      PROVE  (/\ ReqShape(req[u]) /\ Latches(req[u])
              /\ CallsSent(req[u], Server!Forced(u)) /\ Ending(req[u], Server!Streams(u)))'
  BY <1>2, <1>3 DEF Sound, ReqShape, Latches, CallsSent, Ending, NothingTold, Told
<1> QED
  BY <1>1, <1>4 DEF EndingInv

(* Whoever is not waiting in the queue leaves it alone.                       *)
LEMMA QueueKept ==
  ASSUME EndingInv, NEW r \in Requests, NEW q, Server!Sets(r, q),
         DOMAIN slots' = DOMAIN slots, slots'.queue = slots.queue,
         req[r].handler = "queued" => q.handler = "queued"
  PROVE  QueueInv'
<1>1. req'[r] = q /\ \A u \in Requests \ {r} : req'[u] = req[u]
  BY OneRequest DEF EndingInv
<1>2. QueueInv
  BY DEF EndingInv
<1>3. \A i \in 1 .. Len(slots.queue) : slots.queue[i] \in Requests
  BY <1>2 DEF QueueInv
<1>4. \A i \in 1 .. Len(slots.queue) : req'[slots.queue[i]].handler = "queued"
  BY <1>1, <1>2, <1>3 DEF QueueInv
<1> QED
  BY <1>2, <1>4 DEF QueueInv

(* Getting a permit, in the order of the queue, and losing the place in it.    *)
LEMMA QueuesSoundly ==
  ASSUME EndingInv, setup' = setup, NEW r \in Requests, Server!Arrive(r) \/ Server!Admit(r) \/ Server!HangUp(r)
  PROVE  EndingInv'
<1> DEFINE p == req[r]
<1> DEFINE d == slots.queue
<1>0. /\ DOMAIN req = Requests /\ ReqShape(p) /\ Latches(p)
      /\ CallsSent(p, Server!Forced(r)) /\ Ending(p, Server!Streams(r))
      /\ DOMAIN slots = {"free", "queue"} /\ d \in Seq(Requests)
      /\ (\A i \in 1 .. Len(d) : req[d[i]].handler = "queued")
      /\ (\A i, j \in 1 .. Len(d) : d[i] = d[j] => i = j)
  BY DEF EndingInv, QueueInv
<1>1. CASE Server!Arrive(r)
  <2> DEFINE q == [p EXCEPT !.handler = "queued"]
  <2>1. p.handler = "new" /\ Server!Sets(r, q) /\ slots' = [slots EXCEPT !.queue = Append(d, r)]
    BY <1>1 DEF Server!Arrive
  <2>2. ReqShape(q) /\ q.handler = "queued"
    BY <1>0 DEF ReqShape
  <2>3. Sound(r, q)
    BY <1>0, <2>1, <2>2 DEF Sound, ReqShape, Latches, CallsSent, Ending, NothingTold, Told, Early, Closing
  <2> HIDE DEF q
  <2>4. req'[r] = q /\ \A u \in Requests \ {r} : req'[u] = req[u]
    BY <1>0, <2>1, OneRequest
  <2> DEFINE d2 == Append(d, r)
  <2>5. DOMAIN slots' = {"free", "queue"} /\ slots'.queue = d2
    BY <1>0, <2>1
  <2>6. /\ d2 \in Seq(Requests) /\ Len(d2) = Len(d) + 1 /\ d2[Len(d) + 1] = r
        /\ \A i \in 1 .. Len(d) : d2[i] = d[i]
    BY <1>0
  <2>7. \A i \in 1 .. Len(d) : d[i] \in Requests \ {r}
    BY <1>0, <2>1
  <2> HIDE DEF d2
  <2>8. \A i \in 1 .. Len(d2) : req'[d2[i]].handler = "queued"
    BY <1>0, <2>2, <2>4, <2>6, <2>7
  <2>9. \A i, j \in 1 .. Len(d2) : d2[i] = d2[j] => i = j
    BY <1>0, <2>6, <2>7
  <2>10. QueueInv'
    BY <2>5, <2>6, <2>8, <2>9 DEF QueueInv
  <2> QED
    BY <2>1, <2>3, <2>10, OneIsSound
<1>2. CASE Server!Admit(r)
  <2> DEFINE q == [p EXCEPT !.handler = IF Server!Streams(r) THEN "streaming" ELSE "awaiting",
                            !.task = "decode"]
  <2>1. d # <<>> /\ r = Head(d) /\ Server!Sets(r, q)
        /\ slots' = [free |-> slots.free - 1, queue |-> Tail(d)]
    BY <1>2 DEF Server!Admit
  <2>2. Len(d) >= 1 /\ d[1] = r /\ Tail(d) \in Seq(Requests) /\ Len(Tail(d)) = Len(d) - 1
        /\ \A i \in 1 .. Len(d) - 1 : Tail(d)[i] = d[i + 1]
    BY <1>0, <2>1
  <2>3. p.handler = "queued"
    BY <1>0, <2>2
  <2>4. ReqShape(q) /\ q.task = "decode"
        /\ q.handler = (IF Server!Streams(r) THEN "streaming" ELSE "awaiting")
    BY <1>0 DEF ReqShape
  <2>5. Sound(r, q)
    BY <1>0, <2>3, <2>4 DEF Sound, ReqShape, Latches, CallsSent, Ending, NothingTold, Told, Early, Closing
  <2> HIDE DEF q
  <2>6. \A u \in Requests \ {r} : req'[u] = req[u]
    BY <1>0, <2>1, OneRequest
  <2> DEFINE d2 == Tail(d)
  <2>7. DOMAIN slots' = {"free", "queue"} /\ slots'.queue = d2
    BY <1>0, <2>1
  <2>8. /\ d2 \in Seq(Requests) /\ Len(d2) = Len(d) - 1
        /\ \A i \in 1 .. Len(d2) : d2[i] = d[i + 1]
    BY <2>2
  <2> HIDE DEF d2
  <2>a. Len(d) \in Nat
    BY <1>0
  <2>9. \A i \in 1 .. Len(d2) : i + 1 \in 1 .. Len(d) /\ d[i + 1] \in Requests \ {r}
    <3> SUFFICES ASSUME NEW i \in 1 .. Len(d2)
                 PROVE  i + 1 \in 1 .. Len(d) /\ d[i + 1] \in Requests \ {r}
      OBVIOUS
    <3>1. i + 1 \in 1 .. Len(d) /\ i + 1 # 1 /\ 1 \in 1 .. Len(d)
      BY <2>2, <2>8, <2>a
    <3> QED
      BY <1>0, <2>2, <3>1
  <2>10. \A i \in 1 .. Len(d2) : req'[d2[i]].handler = "queued"
    BY <1>0, <2>6, <2>8, <2>9
  <2>11. \A i, j \in 1 .. Len(d2) : d2[i] = d2[j] => i = j
    <3> SUFFICES ASSUME NEW i \in 1 .. Len(d2), NEW j \in 1 .. Len(d2), d2[i] = d2[j]
                 PROVE  i = j
      OBVIOUS
    <3>1. i + 1 = j + 1
      BY <1>0, <2>8, <2>9
    <3> QED
      BY <2>8, <2>a, <3>1
  <2>12. QueueInv'
    BY <2>7, <2>8, <2>10, <2>11 DEF QueueInv
  <2> QED
    BY <2>1, <2>5, <2>12, OneIsSound
<1>3. CASE Server!HangUp(r)
  <2> DEFINE q == [p EXCEPT !.gone = TRUE,
                            !.handler = IF @ = "streaming" THEN @ ELSE "dropped"]
  <2>1. (p.handler \in {"queued", "streaming"} \/ Server!Waits(r)) /\ Server!Sets(r, q)
        /\ slots' = [slots EXCEPT !.queue = Server!RemoveFirst(d, r)]
    BY <1>3 DEF Server!HangUp
  <2>2. ReqShape(q) /\ q.handler = IF p.handler = "streaming" THEN "streaming" ELSE "dropped"
    BY <1>0 DEF ReqShape
  <2>3. Sound(r, q)
    BY <1>0, <2>1, <2>2
       DEF Server!Waits, Sound, ReqShape, Latches, CallsSent, Ending, NothingTold, Told, Early, Closing
  <2> HIDE DEF q
  <2>4. \A u \in Requests \ {r} : req'[u] = req[u]
    BY <1>0, <2>1, OneRequest
  <2> DEFINE d2 == Server!RemoveFirst(d, r)
  <2>5. DOMAIN slots' = {"free", "queue"} /\ slots'.queue = d2
    BY <1>0, <2>1
  <2>6. /\ d2 \in Seq(Requests)
        /\ \A i \in 1 .. Len(d2) : d2[i] # r /\ \E j \in 1 .. Len(d) : d2[i] = d[j]
        /\ \A i, j \in 1 .. Len(d2) : d2[i] = d2[j] => i = j
    BY <1>0, QueueWithout
  <2> HIDE DEF d2
  <2>7. \A i \in 1 .. Len(d2) : req'[d2[i]].handler = "queued"
    BY <1>0, <2>4, <2>6
  <2>8. QueueInv'
    BY <2>5, <2>6, <2>7 DEF QueueInv
  <2> QED
    BY <2>1, <2>3, <2>8, OneIsSound
<1> QED
  BY <1>1, <1>2, <1>3

(* Decoding, the deadline and the watchdog: nothing is told yet, or it was.     *)
LEMMA DecodesSoundly ==
  ASSUME EndingInv, setup' = setup, NEW r \in Requests,
         \/ Server!LoadWindow(r) \/ Server!BumpAndSend(r) \/ Server!Stops(r) \/ Server!Ends(r)
         \/ Server!ToolCall(r) \/ Server!Timer(r)
  PROVE  EndingInv'
<1> DEFINE p == req[r]
<1> DEFINE s == Server!Streams(r)
<1>0. DOMAIN req = Requests /\ ReqShape(p) /\ Latches(p) /\ CallsSent(p, Server!Forced(r)) /\ Ending(p, s)
  BY DEF EndingInv
<1>q. ASSUME NEW q, Server!Sets(r, q), slots' = slots, Sound(r, q),
             p.handler = "queued" => q.handler = "queued"
      PROVE  EndingInv'
  BY <1>q, QueueKept, OneIsSound
<1> USE DEF Sound, ReqShape, Latches, CallsSent, Ending, NothingTold, Told, Early, Closing
<1>1. CASE Server!LoadWindow(r)
  <2> DEFINE q == [p EXCEPT !.task = "bump", !.deltas = @ + 1, !.window = stats.window,
                            !.inWindow = IF stats.window = p.window THEN @ + 1 ELSE 1]
  <2>1. p.task = "decode" /\ ~p.cancel /\ Server!Sets(r, q) /\ slots' = slots
    BY <1>1 DEF Server!LoadWindow
  <2>2. Sound(r, q) /\ q.handler = p.handler
    BY <1>0, <2>1
  <2> HIDE DEF q
  <2> QED
    BY <1>q, <2>1, <2>2
<1>2. CASE Server!BumpAndSend(r)
  <2> DEFINE q == [p EXCEPT !.cancel = @ \/ (s /\ p.gone),
                            !.by = IF @ = "nobody" /\ s /\ p.gone THEN "client" ELSE @,
                            !.task = "decode"]
  <2>1. p.task = "bump" /\ Server!Sets(r, q) /\ slots' = slots
    BY <1>0, <1>2 DEF Server!BumpAndSend, Server!Sent
  <2>2. Sound(r, q) /\ q.handler = p.handler
    BY <1>0, <2>1
  <2> HIDE DEF q
  <2> QED
    BY <1>q, <2>1, <2>2
<1>3. CASE Server!Stops(r)
  <2>0. PICK how \in {"stop", "error"} :
          Server!Sets(r, [req[r] EXCEPT !.task = "ended", !.result = how, !.stopped = TRUE])
    BY <1>3 DEF Server!Stops
  <2> DEFINE q == [p EXCEPT !.task = "ended", !.result = how, !.stopped = TRUE]
  <2>1. p.task = "decode" /\ p.cancel /\ Server!Sets(r, q) /\ slots' = slots
    BY <1>3, <2>0 DEF Server!Stops
  <2>2. Sound(r, q) /\ q.handler = p.handler
    BY <1>0, <2>1
  <2> HIDE DEF q
  <2> QED
    BY <1>q, <2>1, <2>2
<1>4. CASE Server!Ends(r)
  <2>0. PICK how \in {"stop", "error", "panic"} :
          Server!Sets(r, [req[r] EXCEPT !.task = "ended", !.result = how])
    BY <1>4 DEF Server!Ends
  <2> DEFINE q == [p EXCEPT !.task = "ended", !.result = how]
  <2>1. p.task = "decode" /\ Server!Sets(r, q) /\ slots' = slots
    BY <1>4, <2>0 DEF Server!Ends
  <2>2. Sound(r, q) /\ q.handler = p.handler
    BY <1>0, <2>1
  <2> HIDE DEF q
  <2> QED
    BY <1>q, <2>1, <2>2
<1>5. CASE Server!Deadline(r)
  <2> DEFINE q == [p EXCEPT !.hit = TRUE, !.cancel = TRUE, !.by = "deadline"]
  <2>1. p.task \in Early /\ ~p.cancel /\ Server!Sets(r, q) /\ slots' = slots
    BY <1>5 DEF Server!Deadline, Server!Waits
  <2>2. Sound(r, q) /\ q.handler = p.handler
    BY <1>0, <2>1
  <2> HIDE DEF q
  <2> QED
    BY <1>q, <2>1, <2>2
<1>6. CASE Server!WatchdogLabels(r)
  <2> DEFINE q == [p EXCEPT !.hit = TRUE]
  <2>1. Server!Sets(r, q) /\ slots' = slots
    BY <1>6 DEF Server!WatchdogLabels
  <2>2. Sound(r, q) /\ q.handler = p.handler
    BY <1>0, <2>1
  <2> HIDE DEF q
  <2> QED
    BY <1>q, <2>1, <2>2
<1>7. CASE Server!WatchdogAborts(r)
  <2> DEFINE q == [p EXCEPT !.cancel = TRUE, !.by = IF @ = "nobody" THEN "deadline" ELSE @]
  <2>1. p.hit /\ p.task # "off" /\ Server!Sets(r, q) /\ slots' = slots
    BY <1>7 DEF Server!WatchdogAborts, Server!Armed
  <2>3. /\ ReqShape(q) /\ q.cancel = TRUE
        /\ q.by = (IF p.by = "nobody" THEN "deadline" ELSE p.by)
        /\ q.handler = p.handler /\ q.task = p.task /\ q.hit = p.hit /\ q.stopped = p.stopped
        /\ q.result = p.result /\ q.called = p.called /\ q.terminal = p.terminal
        /\ q.done = p.done /\ q.counted = p.counted
    BY <1>0
  <2> HIDE DEF q
  <2>2. Latches(q) /\ CallsSent(q, Server!Forced(r))
    BY <1>0, <2>1, <2>3
  <2>5. q.by = "deadline" /\ q.stopped => p.by = "deadline"
    BY <1>0, <2>3
  <2>4. Ending(q, s)
    BY <1>0, <2>1, <2>3, <2>5
  <2> QED
    BY <1>q, <2>1, <2>2, <2>3, <2>4
<1>8. CASE Server!ToolCall(r)
  <2> DEFINE q == [p EXCEPT !.cancel = @ \/ (s /\ p.gone),
                            !.by = IF @ = "nobody" /\ s /\ p.gone THEN "client" ELSE @,
                            !.called = TRUE]
  <2>1. p.task = "ended" /\ p.result = "stop" /\ Server!Sets(r, q) /\ slots' = slots
    BY <1>0, <1>8 DEF Server!ToolCall, Server!Sent
  <2>2. Sound(r, q) /\ q.handler = p.handler
    BY <1>0, <2>1
  <2> HIDE DEF q
  <2> QED
    BY <1>q, <2>1, <2>2
<1> QED
  BY <1>1, <1>2, <1>3, <1>4, <1>5, <1>6, <1>7, <1>8 DEF Server!Timer

(* The end of a generation: one terminal frame, one [DONE], counted once.      *)
LEMMA EndsSoundly ==
  ASSUME EndingInv, setup' = setup, NEW r \in Requests,
         \/ Server!StreamEnds(r) \/ Server!Guard(r) \/ Server!Close(r) \/ Server!TaskEnds(r)
         \/ Server!Check(r) \/ Server!Correct(r) \/ Server!Reply500(r)
  PROVE  EndingInv'
<1> DEFINE p == req[r]
<1> DEFINE s == Server!Streams(r)
<1>0. /\ DOMAIN req = Requests /\ ReqShape(p) /\ Latches(p) /\ CallsSent(p, Server!Forced(r)) /\ Ending(p, s)
      /\ DOMAIN slots = {"free", "queue"}
  BY DEF EndingInv, QueueInv
<1>q. ASSUME NEW q, Server!Sets(r, q), DOMAIN slots' = DOMAIN slots, slots'.queue = slots.queue,
             Sound(r, q), p.handler = "queued" => q.handler = "queued"
      PROVE  EndingInv'
  BY <1>q, QueueKept, OneIsSound
<1> USE DEF Sound, ReqShape, Latches, CallsSent, Ending, NothingTold, Told, Early, Closing
<1>1. CASE Server!StreamEnds(r)
  <2>0. p.task = "ended" /\ s /\ slots' = slots
        /\ (Server!Forced(r) /\ p.result = "stop" => p.called)
    BY <1>1 DEF Server!StreamEnds, Server!Returned
  <2>1. CASE p.result = "stop"
    <3> DEFINE q == [p EXCEPT !.task = "check", !.terminal = Append(@, Server!Label(r))]
    <3>1. Server!Sets(r, q) /\ p.terminal = <<>>
      BY <1>0, <1>1, <2>0, <2>1 DEF Server!StreamEnds
    <3>2. /\ q.terminal = <<Server!Label(r)>>
          /\ Server!Label(r) = IF p.called THEN "tool_calls" ELSE IF p.hit THEN "length" ELSE "stop"
      BY <1>0, <2>1, <3>1 DEF Server!Label
    <3>3. Sound(r, q) /\ q.handler = p.handler
      BY <1>0, <2>0, <2>1, <3>2
    <3> HIDE DEF q
    <3> QED
      BY <1>q, <2>0, <3>1, <3>3
  <2>2. CASE p.result # "stop"
    <3> DEFINE q == [p EXCEPT !.task = "guard"]
    <3>1. Server!Sets(r, q)
      BY <1>1, <2>2 DEF Server!StreamEnds
    <3>2. Sound(r, q) /\ q.handler = p.handler
      BY <1>0, <2>0, <2>2
    <3> HIDE DEF q
    <3> QED
      BY <1>q, <2>0, <3>1, <3>2
  <2> QED
    BY <2>1, <2>2
<1>2. CASE Server!Guard(r)
  <2> DEFINE q == [p EXCEPT !.task = "close", !.counted = @ + 1,
                            !.terminal = Append(@, "error")]
  <2>1. p.task = "guard" /\ Server!Sets(r, q) /\ slots' = slots /\ p.terminal = <<>>
    BY <1>0, <1>2 DEF Server!Guard
  <2>2. q.terminal = <<"error">> /\ q.counted = 1
    BY <1>0, <2>1
  <2>3. Sound(r, q) /\ q.handler = p.handler
    BY <1>0, <2>1, <2>2
  <2> HIDE DEF q
  <2> QED
    BY <1>q, <2>1, <2>3
<1>3. CASE Server!Close(r)
  <2> DEFINE q == [p EXCEPT !.task = "closed", !.done = @ + 1, !.handler = "answered"]
  <2>1. p.task = "close" /\ s /\ Server!Sets(r, q) /\ slots' = [slots EXCEPT !.free = @ + 1]
    BY <1>3 DEF Server!Close
  <2>2. DOMAIN slots' = DOMAIN slots /\ slots'.queue = slots.queue
    BY <1>0, <2>1
  <2>3. Sound(r, q) /\ p.handler = "streaming"
    BY <1>0, <2>1
  <2> HIDE DEF q
  <2> QED
    BY <1>q, <2>1, <2>2, <2>3
<1>4. CASE Server!TaskEnds(r)
  <2> DEFINE q == [p EXCEPT !.task =
                     IF p.handler # "awaiting" THEN "closed"
                     ELSE IF p.result = "stop" THEN "check" ELSE "reply"]
  <2>1. p.task = "ended" /\ ~s /\ Server!Sets(r, q) /\ slots' = [slots EXCEPT !.free = @ + 1]
        /\ (Server!Forced(r) /\ p.result = "stop" => p.called)
    BY <1>4 DEF Server!TaskEnds, Server!Returned
  <2>2. DOMAIN slots' = DOMAIN slots /\ slots'.queue = slots.queue
    BY <1>0, <2>1
  <2>3. Sound(r, q) /\ q.handler = p.handler
    BY <1>0, <2>1
  <2> HIDE DEF q
  <2> QED
    BY <1>q, <2>1, <2>2, <2>3
<1>5. CASE Server!Check(r)
  <2>0. PICK x : Server!Sets(r, [p EXCEPT !.task = "correct", !.correction = x])
    BY <1>5 DEF Server!Check
  <2> DEFINE q == [p EXCEPT !.task = "correct", !.correction = x]
  <2>1. p.task = "check" /\ Server!Sets(r, q) /\ slots' = slots
    BY <1>5, <2>0 DEF Server!Check
  <2>2. Sound(r, q) /\ q.handler = p.handler
    BY <1>0, <2>1
  <2> HIDE DEF q
  <2> QED
    BY <1>q, <2>1, <2>2
<1>6. CASE Server!Correct(r)
  <2>0. p.task = "correct" /\ slots' = slots
    BY <1>6 DEF Server!Correct
  <2>1. CASE s
    <3> DEFINE q == [p EXCEPT !.task = "close", !.counted = @ + 1]
    <3>1. Server!Sets(r, q)
      BY <1>6, <2>1 DEF Server!Correct
    <3>2. Sound(r, q) /\ q.handler = p.handler
      BY <1>0, <2>0, <2>1
    <3> HIDE DEF q
    <3> QED
      BY <1>q, <2>0, <3>1, <3>2
  <2>2. CASE ~s
    <3> DEFINE q == [p EXCEPT !.task = "closed", !.counted = @ + 1, !.handler = "answered",
                              !.terminal = Append(@, Server!Label(r))]
    <3>1. Server!Sets(r, q) /\ p.terminal = <<>>
      BY <1>0, <1>6, <2>0, <2>2 DEF Server!Correct
    <3>2. /\ q.terminal = <<Server!Label(r)>> /\ q.counted = 1
          /\ Server!Label(r) = IF p.called THEN "tool_calls" ELSE IF p.hit THEN "length" ELSE "stop"
      BY <1>0, <2>0, <3>1 DEF Server!Label
    <3>3. Sound(r, q) /\ p.handler = "awaiting"
      BY <1>0, <2>0, <2>2, <3>2
    <3> HIDE DEF q
    <3> QED
      BY <1>q, <2>0, <3>1, <3>3
  <2> QED
    BY <2>1, <2>2
<1>7. CASE Server!Reply500(r)
  <2> DEFINE q == [p EXCEPT !.task = "closed", !.counted = @ + 1, !.handler = "answered",
                            !.terminal = Append(@, "error")]
  <2>1. p.task = "reply" /\ Server!Sets(r, q) /\ slots' = slots /\ p.terminal = <<>>
    BY <1>0, <1>7 DEF Server!Reply500
  <2>2. q.terminal = <<"error">> /\ q.counted = 1
    BY <1>0, <2>1
  <2>3. Sound(r, q) /\ p.handler = "awaiting"
    BY <1>0, <2>1, <2>2
  <2> HIDE DEF q
  <2> QED
    BY <1>q, <2>1, <2>3
<1> QED
  BY <1>1, <1>2, <1>3, <1>4, <1>5, <1>6, <1>7

LEMMA EndingKept == ASSUME EndingInv, [Server!Next]_(Server!vars) PROVE EndingInv'
<1>1. CASE UNCHANGED <<setup, slots, req>>
  BY <1>1 DEF EndingInv, QueueInv, Server!Streams, Server!Forced
<1>2. ASSUME setup' = setup, NEW r \in Requests,
             Server!Arrive(r) \/ Server!Admit(r) \/ Server!HangUp(r) \/ Server!LoadWindow(r) \/ Server!Ends(r) \/ Server!TaskStep(r)
             \/ Server!Timer(r)
      PROVE  EndingInv'
  BY <1>2, QueuesSoundly, DecodesSoundly, EndsSoundly DEF Server!TaskStep
<1> QED
  BY <1>1, <1>2 DEF Server!Next, Server!vars, Server!CloseWindow, Server!Swap

LEMMA EndingInitially == ASSUME Server!Init PROVE EndingInv
<1>1. QueueInv
  BY DEF Server!Init, QueueInv
<1>2. \A r \in Requests : req[r] = Server!NewRequest
  BY DEF Server!Init
<1>3. ReqShape(Server!NewRequest) /\ Latches(Server!NewRequest)
  BY DEF Server!NewRequest, ReqShape, Latches
<1>5. ASSUME NEW r \in Requests PROVE CallsSent(Server!NewRequest, Server!Forced(r))
  BY DEF Server!NewRequest, CallsSent, Closing
<1>4. ASSUME NEW r \in Requests PROVE Ending(Server!NewRequest, Server!Streams(r))
  BY DEF Server!NewRequest, Ending, NothingTold, Early, Closing
<1> QED
  BY <1>1, <1>2, <1>3, <1>4, <1>5 DEF EndingInv, Server!Init

(* However a generation ends, a reply that goes out ends in one terminal frame, *)
(* a stream also in one [DONE], and it is counted once.  It says error when the   *)
(* generation failed and tool_calls when a call was sent, not otherwise; it never *)
(* says stop when the deadline cut it, and a forced choice gets its call or an    *)
(* error.                                                                   *)
THEOREM RepliesAreHonest == Server!Spec => []EveryReplyIsHonest
<1>1. Server!Init => EndingInv
  BY EndingInitially
<1>2. EndingInv /\ [Server!Next]_(Server!vars) => EndingInv'
  BY EndingKept
<1>3. EndingInv => EveryReplyIsHonest
  <2> SUFFICES ASSUME EndingInv, NEW r \in Requests
               PROVE  /\ req[r].handler = "answered" =>
                           /\ Len(req[r].terminal) = 1 /\ req[r].counted = 1
                           /\ Server!Streams(r) => req[r].done = 1
                           /\ req[r].terminal = <<"error">> <=> req[r].result # "stop"
                           /\ req[r].terminal = <<"tool_calls">> <=> req[r].called
                           /\ req[r].stopped /\ req[r].by = "deadline" =>
                                req[r].terminal # <<"stop">>
                           /\ Server!Forced(r) =>
                                req[r].terminal \in {<<"tool_calls">>, <<"error">>}
                      /\ req[r].counted <= 1
                      /\ req[r].handler = "dropped" => req[r].terminal = <<>>
    BY DEF EveryReplyIsHonest, Server!EveryReplyIsHonest
  <2>1. Ending(req[r], Server!Streams(r)) /\ CallsSent(req[r], Server!Forced(r))
    BY DEF EndingInv
  <2> QED
    BY <2>1 DEF Ending, CallsSent, NothingTold, Told, Early, Closing
<1> QED
  BY <1>1, <1>2, <1>3, PTL DEF Server!Spec

-----------------------------------------------------------------------------
(* Only one request has been at work, and the window stays as it is.           *)
LEMMA OneIsBilled ==
  ASSUME BillInv, NEW r \in Requests, NEW q, Server!Sets(r, q), ReqShape(q),
         DOMAIN stats' = DOMAIN stats,
         stats'.window = stats.window, stats'.draining = stats.draining,
         share' \in [Requests -> Int], straddled' \in [Requests -> BOOLEAN],
         \A u \in Requests \ {r} : share'[u] = share[u] /\ straddled'[u] = straddled[u],
         Billed(q, stats, share'[r], straddled'[r])
  PROVE  BillInv'
<1>1. DOMAIN req' = Requests /\ req'[r] = q /\ \A u \in Requests \ {r} : req'[u] = req[u]
  BY OneRequest DEF BillInv
<1>2. \A u \in Requests : ReqShape(req'[u]) /\ Billed(req'[u], stats, share'[u], straddled'[u])
  BY <1>1 DEF BillInv
<1>3. ASSUME NEW u \in Requests
      PROVE  ReqShape(req'[u]) /\ Billed(req'[u], stats', share'[u], straddled'[u])
  BY <1>2 DEF Billed
<1> QED
  BY <1>1, <1>3 DEF BillInv, ReqShape, Billed

(* The tasks that have nothing under way.                                     *)
Quiet == {"off", "decode", "ended", "check"}

LEMMA NothingBilled ==
  ASSUME BillInv, NEW r \in Requests, NEW q, Server!Sets(r, q), ReqShape(q),
         UNCHANGED <<stats, share, straddled>>,
         q.deltas = req[r].deltas, q.window = req[r].window, q.inWindow = req[r].inWindow,
         q.correction = req[r].correction,
         \/ q.task = req[r].task
         \/ q.task \notin {"correct", "bump"} /\ (q.task \in Quiet => req[r].task \in Quiet)
  PROVE  BillInv'
<1>1. Billed(req[r], stats, share[r], straddled[r])
  BY DEF BillInv
<1>2. Billed(q, stats, share[r], straddled[r])
  BY <1>1 DEF Billed, Quiet
<1> QED
  BY <1>2, OneIsBilled DEF BillInv

LEMMA OthersBillNothing ==
  ASSUME EndingInv, BillInv, NEW r \in Requests,
         \/ Server!Arrive(r) \/ Server!Admit(r) \/ Server!HangUp(r) \/ Server!Stops(r) \/ Server!Ends(r) \/ Server!Timer(r)
         \/ Server!ToolCall(r) \/ Server!StreamEnds(r) \/ Server!Guard(r) \/ Server!Close(r) \/ Server!TaskEnds(r) \/ Server!Reply500(r)
  PROVE  BillInv'
<1> DEFINE p == req[r]
<1>0. ReqShape(p)
  BY DEF BillInv
<1>q. ASSUME UNCHANGED <<stats, Server!Ghosts>>, NEW q, Server!Sets(r, q), ReqShape(q),
             q.deltas = p.deltas, q.window = p.window, q.inWindow = p.inWindow,
             q.correction = p.correction,
             \/ q.task = p.task
             \/ q.task \notin {"correct", "bump"} /\ (q.task \in Quiet => p.task \in Quiet)
      PROVE  BillInv'
  BY <1>q, NothingBilled DEF Server!Ghosts
<1>1. CASE Server!Arrive(r)
  <2> DEFINE q == [p EXCEPT !.handler = "queued"]
  <2>1. Server!Sets(r, q) /\ UNCHANGED <<stats, Server!Ghosts>>
    BY <1>1 DEF Server!Arrive
  <2>2. ReqShape(q) /\ q.deltas = p.deltas /\ q.window = p.window /\ q.inWindow = p.inWindow
        /\ q.correction = p.correction /\ q.task = p.task
    BY <1>0 DEF ReqShape
  <2> HIDE DEF q
  <2> QED
    BY <1>q, <2>1, <2>2
<1>2. CASE Server!Admit(r)
  <2> DEFINE q == [p EXCEPT !.handler = IF Server!Streams(r) THEN "streaming" ELSE "awaiting",
                            !.task = "decode"]
  <2>1. Server!Sets(r, q) /\ UNCHANGED <<stats, Server!Ghosts>>
    BY <1>2 DEF Server!Admit
  <2>2. ReqShape(q) /\ q.deltas = p.deltas /\ q.window = p.window /\ q.inWindow = p.inWindow
        /\ q.correction = p.correction /\ q.task = "decode"
    BY <1>0 DEF ReqShape
  <2>3. p.task = "off"
    <3>1. slots.queue \in Seq(Requests) /\ slots.queue # <<>> /\ r = slots.queue[1]
          /\ 1 \in 1 .. Len(slots.queue)
      BY <1>2 DEF Server!Admit, EndingInv, QueueInv
    <3>2. p.handler = "queued"
      BY <3>1 DEF EndingInv, QueueInv
    <3> QED
      BY <3>2 DEF EndingInv, Ending
  <2> HIDE DEF q
  <2> QED
    BY <1>q, <2>1, <2>2, <2>3 DEF Quiet
<1>3. CASE Server!HangUp(r)
  <2> DEFINE q == [p EXCEPT !.gone = TRUE,
                            !.handler = IF @ = "streaming" THEN @ ELSE "dropped"]
  <2>1. Server!Sets(r, q) /\ UNCHANGED <<stats, Server!Ghosts>>
    BY <1>3 DEF Server!HangUp
  <2>2. ReqShape(q) /\ q.deltas = p.deltas /\ q.window = p.window /\ q.inWindow = p.inWindow
        /\ q.correction = p.correction /\ q.task = p.task
    BY <1>0 DEF ReqShape
  <2> HIDE DEF q
  <2> QED
    BY <1>q, <2>1, <2>2
<1>4. CASE Server!Stops(r)
  <2>0. PICK how \in {"stop", "error"} :
          Server!Sets(r, [req[r] EXCEPT !.task = "ended", !.result = how, !.stopped = TRUE])
    BY <1>4 DEF Server!Stops
  <2> DEFINE q == [p EXCEPT !.task = "ended", !.result = how, !.stopped = TRUE]
  <2>1. p.task = "decode" /\ Server!Sets(r, q) /\ UNCHANGED <<stats, Server!Ghosts>>
    BY <1>4, <2>0 DEF Server!Stops
  <2>2. ReqShape(q) /\ q.deltas = p.deltas /\ q.window = p.window /\ q.inWindow = p.inWindow
        /\ q.correction = p.correction /\ q.task = "ended"
    BY <1>0 DEF ReqShape
  <2> HIDE DEF q
  <2> QED
    BY <1>q, <2>1, <2>2 DEF Quiet
<1>5. CASE Server!Ends(r)
  <2>0. PICK how \in {"stop", "error", "panic"} :
          Server!Sets(r, [req[r] EXCEPT !.task = "ended", !.result = how])
    BY <1>5 DEF Server!Ends
  <2> DEFINE q == [p EXCEPT !.task = "ended", !.result = how]
  <2>1. p.task = "decode" /\ Server!Sets(r, q) /\ UNCHANGED <<stats, Server!Ghosts>>
    BY <1>5, <2>0 DEF Server!Ends
  <2>2. ReqShape(q) /\ q.deltas = p.deltas /\ q.window = p.window /\ q.inWindow = p.inWindow
        /\ q.correction = p.correction /\ q.task = "ended"
    BY <1>0 DEF ReqShape
  <2> HIDE DEF q
  <2> QED
    BY <1>q, <2>1, <2>2 DEF Quiet
<1>6. CASE Server!Timer(r)
  <2>0. PICK q : /\ Server!Sets(r, q) /\ UNCHANGED <<stats, Server!Ghosts>>
                 /\ \/ q = [p EXCEPT !.hit = TRUE, !.cancel = TRUE, !.by = "deadline"]
                    \/ q = [p EXCEPT !.hit = TRUE]
                    \/ q = [p EXCEPT !.cancel = TRUE,
                                     !.by = IF @ = "nobody" THEN "deadline" ELSE @]
    BY <1>6 DEF Server!Timer, Server!Deadline, Server!WatchdogLabels, Server!WatchdogAborts
  <2>2. ReqShape(q) /\ q.deltas = p.deltas /\ q.window = p.window /\ q.inWindow = p.inWindow
        /\ q.correction = p.correction /\ q.task = p.task
    BY <1>0, <2>0 DEF ReqShape
  <2> QED
    BY <1>q, <2>0, <2>2
<1>7. CASE Server!StreamEnds(r)
  <2>0. PICK q : /\ Server!Sets(r, q)
                 /\ \/ q = [p EXCEPT !.task = "check", !.terminal = Append(@, Server!Label(r))]
                    \/ q = [p EXCEPT !.task = "guard"]
    BY <1>7 DEF Server!StreamEnds
  <2>1. p.task = "ended" /\ UNCHANGED <<stats, Server!Ghosts>>
    BY <1>7 DEF Server!StreamEnds, Server!Returned
  <2>2. ReqShape(q) /\ q.deltas = p.deltas /\ q.window = p.window /\ q.inWindow = p.inWindow
        /\ q.correction = p.correction /\ q.task \in {"check", "guard"}
    BY <1>0, <2>0 DEF ReqShape
  <2> QED
    BY <1>q, <2>0, <2>1, <2>2 DEF Quiet
<1>8. CASE Server!Guard(r)
  <2> DEFINE q == [p EXCEPT !.task = "close", !.counted = @ + 1,
                            !.terminal = Append(@, "error")]
  <2>1. Server!Sets(r, q) /\ UNCHANGED <<stats, Server!Ghosts>>
    BY <1>8 DEF Server!Guard
  <2>2. ReqShape(q) /\ q.deltas = p.deltas /\ q.window = p.window /\ q.inWindow = p.inWindow
        /\ q.correction = p.correction /\ q.task = "close"
    BY <1>0 DEF ReqShape
  <2> HIDE DEF q
  <2> QED
    BY <1>q, <2>1, <2>2 DEF Quiet
<1>9. CASE Server!Close(r)
  <2> DEFINE q == [p EXCEPT !.task = "closed", !.done = @ + 1, !.handler = "answered"]
  <2>1. Server!Sets(r, q) /\ UNCHANGED <<stats, Server!Ghosts>>
    BY <1>9 DEF Server!Close
  <2>2. ReqShape(q) /\ q.deltas = p.deltas /\ q.window = p.window /\ q.inWindow = p.inWindow
        /\ q.correction = p.correction /\ q.task = "closed"
    BY <1>0 DEF ReqShape
  <2> HIDE DEF q
  <2> QED
    BY <1>q, <2>1, <2>2 DEF Quiet
<1>10. CASE Server!TaskEnds(r)
  <2> DEFINE q == [p EXCEPT !.task =
                     IF p.handler # "awaiting" THEN "closed"
                     ELSE IF p.result = "stop" THEN "check" ELSE "reply"]
  <2>1. p.task = "ended" /\ Server!Sets(r, q) /\ UNCHANGED <<stats, Server!Ghosts>>
    BY <1>10 DEF Server!TaskEnds, Server!Returned
  <2>2. ReqShape(q) /\ q.deltas = p.deltas /\ q.window = p.window /\ q.inWindow = p.inWindow
        /\ q.correction = p.correction /\ q.task \in {"closed", "check", "reply"}
    BY <1>0 DEF ReqShape
  <2> HIDE DEF q
  <2> QED
    BY <1>q, <2>1, <2>2 DEF Quiet
<1>11. CASE Server!Reply500(r)
  <2> DEFINE q == [p EXCEPT !.task = "closed", !.counted = @ + 1, !.handler = "answered",
                            !.terminal = Append(@, "error")]
  <2>1. Server!Sets(r, q) /\ UNCHANGED <<stats, Server!Ghosts>>
    BY <1>11 DEF Server!Reply500
  <2>2. ReqShape(q) /\ q.deltas = p.deltas /\ q.window = p.window /\ q.inWindow = p.inWindow
        /\ q.correction = p.correction /\ q.task = "closed"
    BY <1>0 DEF ReqShape
  <2> HIDE DEF q
  <2> QED
    BY <1>q, <2>1, <2>2 DEF Quiet
<1>12. CASE Server!ToolCall(r)
  <2>0. PICK x, y : Server!Sets(r, [p EXCEPT !.cancel = x, !.by = y, !.called = TRUE])
    BY <1>0, <1>12 DEF Server!ToolCall, Server!Sent
  <2> DEFINE q == [p EXCEPT !.cancel = x, !.by = y, !.called = TRUE]
  <2>1. Server!Sets(r, q) /\ UNCHANGED <<stats, Server!Ghosts>>
    BY <1>12, <2>0 DEF Server!ToolCall
  <2>2. ReqShape(q) /\ q.deltas = p.deltas /\ q.window = p.window /\ q.inWindow = p.inWindow
        /\ q.correction = p.correction /\ q.task = p.task
    BY <1>0 DEF ReqShape
  <2> HIDE DEF q
  <2> QED
    BY <1>q, <2>1, <2>2
<1> QED
  BY <1>1, <1>2, <1>3, <1>4, <1>5, <1>6, <1>7, <1>8, <1>9, <1>10, <1>11, <1>12

(* A delta is counted in the window it saw; a retraction takes no more than    *)
(* what the open window still holds of the request.                          *)
LEMMA DeltasAreBilled ==
  ASSUME BillInv, NEW r \in Requests,
         Server!LoadWindow(r) \/ Server!BumpAndSend(r) \/ Server!Check(r) \/ Server!Correct(r)
  PROVE  BillInv'
<1> DEFINE p == req[r]
<1> DEFINE sh == share[r]
<1>0. /\ ReqShape(p) /\ Billed(p, stats, sh, straddled[r])
      /\ DOMAIN stats = {"window", "gen", "draining"}
      /\ stats.window \in Nat /\ stats.draining \in BOOLEAN
      /\ share \in [Requests -> Int] /\ straddled \in [Requests -> BOOLEAN]
  BY DEF BillInv
<1>1. CASE Server!LoadWindow(r)
  <2> DEFINE q == [p EXCEPT !.task = "bump", !.deltas = @ + 1, !.window = stats.window,
                            !.inWindow = IF stats.window = p.window THEN @ + 1 ELSE 1]
  <2>1. p.task = "decode" /\ Server!Sets(r, q) /\ UNCHANGED <<stats, share>>
        /\ straddled' = [straddled EXCEPT ![r] = @ \/ stats.draining]
    BY <1>1 DEF Server!LoadWindow
  <2>2. ReqShape(q) /\ q.task = "bump" /\ q.deltas = p.deltas + 1 /\ q.window = stats.window
        /\ q.inWindow = (IF stats.window = p.window THEN p.inWindow + 1 ELSE 1)
        /\ q.correction = p.correction
    BY <1>0 DEF ReqShape
  <2> HIDE DEF q
  <2>3. /\ straddled' \in [Requests -> BOOLEAN]
        /\ straddled'[r] <=> straddled[r] \/ stats.draining
        /\ \A u \in Requests \ {r} : straddled'[u] = straddled[u]
    BY <1>0, <2>1
  <2>4. Billed(q, stats, share'[r], straddled'[r])
    BY <1>0, <2>1, <2>2, <2>3 DEF Billed
  <2> QED
    BY <1>0, <2>1, <2>2, <2>3, <2>4, OneIsBilled
<1>b. ASSUME NEW n \in Int, Server!Bumps(r, n)
      PROVE  /\ DOMAIN stats' = DOMAIN stats
             /\ stats'.window = stats.window /\ stats'.draining = stats.draining
             /\ share' \in [Requests -> Int] /\ share'[r] = sh + n
             /\ \A u \in Requests \ {r} : share'[u] = share[u]
  BY <1>0, <1>b DEF Server!Bumps
<1>2. CASE Server!BumpAndSend(r)
  <2>0. PICK x, y : Server!Sets(r, [p EXCEPT !.cancel = x, !.by = y, !.task = "decode"])
    BY <1>0, <1>2 DEF Server!BumpAndSend, Server!Sent
  <2> DEFINE q == [p EXCEPT !.cancel = x, !.by = y, !.task = "decode"]
  <2>1. p.task = "bump" /\ Server!Sets(r, q) /\ Server!Bumps(r, 1) /\ straddled' = straddled
    BY <1>2, <2>0 DEF Server!BumpAndSend
  <2>2. ReqShape(q) /\ q.task = "decode" /\ q.deltas = p.deltas /\ q.window = p.window
        /\ q.inWindow = p.inWindow /\ q.correction = p.correction
    BY <1>0 DEF ReqShape
  <2> HIDE DEF q
  <2>3. /\ DOMAIN stats' = DOMAIN stats
        /\ stats'.window = stats.window /\ stats'.draining = stats.draining
        /\ share' \in [Requests -> Int] /\ share'[r] = sh + 1
        /\ \A u \in Requests \ {r} : share'[u] = share[u]
    BY <1>b, <2>1
  <2>4. Billed(q, stats, share'[r], straddled'[r])
    BY <1>0, <2>1, <2>2, <2>3 DEF Billed
  <2> QED
    BY <1>0, <2>1, <2>2, <2>3, <2>4, OneIsBilled
<1>3. CASE Server!Check(r)
  <2>0. PICK d \in -p.deltas .. 1 :
          Server!Sets(r, [p EXCEPT !.task = "correct",
                            !.correction = IF d < 0 THEN -Server!Min({-d, Server!Retractable(r)}) ELSE d])
    BY <1>3 DEF Server!Check
  <2> DEFINE x == IF d < 0 THEN -Server!Min({-d, Server!Retractable(r)}) ELSE d
  <2> DEFINE q == [p EXCEPT !.task = "correct", !.correction = x]
  <2>1. p.task = "check" /\ Server!Sets(r, q) /\ UNCHANGED <<stats, share, straddled>>
    BY <1>3, <2>0 DEF Server!Check, Server!Ghosts
  <2>2. ReqShape(q) /\ q.task = "correct" /\ q.deltas = p.deltas /\ q.window = p.window
        /\ q.inWindow = p.inWindow /\ q.correction = x
    BY <1>0 DEF ReqShape
  <2> HIDE DEF q
  <2>3. Server!Retractable(r) \in Nat /\ Server!Retractable(r) <= p.inWindow
        /\ (p.window # stats.window => Server!Retractable(r) = 0)
    BY <1>0 DEF Server!Retractable, Billed
  <2>4. x \in Int /\ -x <= Server!Retractable(r)
    <3>1. CASE d >= 0
      BY <1>0, <2>3, <3>1 DEF Billed
    <3>2. CASE d < 0
      <4> DEFINE m == Server!Min({-d, Server!Retractable(r)})
      <4>1. -d \in Int /\ Server!Retractable(r) \in Int
        BY <2>3
      <4>2. m \in Int /\ m <= Server!Retractable(r)
        <5>1. \A a, b \in Int : Server!Min({a, b}) = IF a <= b THEN a ELSE b
          BY DEF Server!Min
        <5> QED
          BY <4>1, <5>1
      <4> HIDE DEF m
      <4>3. x = -m
        BY <3>2 DEF m
      <4> QED
        BY <2>3, <4>2, <4>3
    <3> QED
      BY <3>1, <3>2
  <2> HIDE DEF x
  <2>5. Billed(q, stats, share'[r], straddled'[r])
    <3>1. ASSUME ~straddled[r] PROVE Server!Retractable(r) <= sh
      BY <1>0, <2>1, <2>3, <3>1 DEF Billed
    <3>2. sh \in Int /\ Server!Retractable(r) \in Nat /\ x \in Int
      BY <1>0, <2>3, <2>4
    <3>3. ASSUME ~straddled[r] PROVE sh + x >= 0
      BY <2>4, <3>1, <3>2, <3>3
    <3> QED
      BY <1>0, <2>1, <2>2, <2>4, <3>3 DEF Billed
  <2> QED
    BY <1>0, <2>1, <2>2, <2>5, OneIsBilled
<1>4. CASE Server!Correct(r)
  <2>0. PICK q : /\ Server!Sets(r, q)
                 /\ \/ q = [p EXCEPT !.task = "close", !.counted = @ + 1]
                    \/ q = [p EXCEPT !.task = "closed", !.counted = @ + 1,
                                     !.handler = "answered", !.terminal = Append(@, Server!Label(r))]
    BY <1>4 DEF Server!Correct
  <2>1. p.task = "correct" /\ Server!Bumps(r, p.correction) /\ straddled' = straddled
    BY <1>4 DEF Server!Correct
  <2>2. ReqShape(q) /\ q.task \in {"close", "closed"} /\ q.deltas = p.deltas
        /\ q.window = p.window /\ q.inWindow = p.inWindow /\ q.correction = p.correction
    BY <1>0, <2>0 DEF ReqShape
  <2>3. p.correction \in Int
    BY <1>0 DEF Billed
  <2>4. /\ DOMAIN stats' = DOMAIN stats
        /\ stats'.window = stats.window /\ stats'.draining = stats.draining
        /\ share' \in [Requests -> Int] /\ share'[r] = sh + p.correction
        /\ \A u \in Requests \ {r} : share'[u] = share[u]
    BY <1>b, <2>1, <2>3
  <2>5. Billed(q, stats, share'[r], straddled'[r])
    BY <1>0, <2>1, <2>2, <2>3, <2>4 DEF Billed
  <2> QED
    BY <1>0, <2>0, <2>1, <2>2, <2>4, <2>5, OneIsBilled
<1> QED
  BY <1>1, <1>2, <1>3, <1>4

(* The reporter's drain: whoever was inside an update is marked, and nobody     *)
(* else believes in the window that opens.                                  *)
LEMMA DrainsAreBilled ==
  ASSUME BillInv, Server!CloseWindow \/ Server!Swap
  PROVE  BillInv'
<1>0. /\ DOMAIN req = Requests
      /\ DOMAIN stats = {"window", "gen", "draining"}
      /\ stats.window \in Nat /\ stats.draining \in BOOLEAN
      /\ share \in [Requests -> Int] /\ straddled \in [Requests -> BOOLEAN]
      /\ \A r \in Requests : ReqShape(req[r]) /\ Billed(req[r], stats, share[r], straddled[r])
  BY DEF BillInv
<1>1. req' = req /\ straddled' \in [Requests -> BOOLEAN]
      /\ \A r \in Requests :
           straddled'[r] <=> straddled[r] \/ req[r].task \in {"bump", "correct"}
  BY <1>0 DEF Server!CloseWindow, Server!Swap, Server!Straddles
<1>2. CASE Server!CloseWindow
  <2>1. ~stats.draining /\ stats' = [stats EXCEPT !.window = @ + 1, !.draining = TRUE]
        /\ share' = share
    BY <1>2 DEF Server!CloseWindow
  <2>2. DOMAIN stats' = {"window", "gen", "draining"} /\ stats'.window = stats.window + 1
        /\ stats'.draining = TRUE
    BY <1>0, <2>1
  <2>3. \A r \in Requests : Billed(req[r], stats', share[r], straddled'[r])
    BY <1>0, <1>1, <2>1, <2>2 DEF Billed
  <2>4. \A r \in Requests : Billed(req[r], stats, share[r], straddled[r])'
    BY <1>1, <2>1, <2>3 DEF Billed
  <2> QED
    BY <1>0, <1>1, <2>1, <2>2, <2>4 DEF BillInv, ReqShape
<1>3. CASE Server!Swap
  <2>1. stats.draining /\ stats' = [stats EXCEPT !.gen = 0, !.draining = FALSE]
        /\ share' = [r \in Requests |-> 0]
    BY <1>3 DEF Server!Swap
  <2>2. DOMAIN stats' = {"window", "gen", "draining"} /\ stats'.window = stats.window
        /\ stats'.draining = FALSE /\ share' \in [Requests -> Int]
    BY <1>0, <2>1
  <2>3. \A r \in Requests : Billed(req[r], stats', 0, straddled'[r])
    BY <1>0, <1>1, <2>1, <2>2 DEF Billed
  <2>4. \A r \in Requests : Billed(req[r], stats, share[r], straddled[r])'
    BY <1>1, <2>1, <2>3 DEF Billed
  <2> QED
    BY <1>0, <1>1, <2>2, <2>4 DEF BillInv, ReqShape
<1> QED
  BY <1>2, <1>3

(* No request takes from the open interval tokens that another one generated,  *)
(* unless a drain of the reporter fell inside its own update.                 *)
THEOREM NobodyIsBilledForAnother == Server!Spec => []NobodyElseIsBilled
<1>1. Server!Init => EndingInv /\ BillInv
  <2> SUFFICES ASSUME Server!Init PROVE BillInv
    BY EndingInitially
  <2>1. \A r \in Requests : req[r] = Server!NewRequest
    BY DEF Server!Init
  <2>2. ReqShape(Server!NewRequest) /\ Server!NewRequest.deltas = 0 /\ Server!NewRequest.window = 0
        /\ Server!NewRequest.inWindow = 0 /\ Server!NewRequest.correction = 0 /\ Server!NewRequest.task = "off"
    BY DEF Server!NewRequest, ReqShape
  <2>3. /\ DOMAIN stats = {"window", "gen", "draining"} /\ stats.window = 0
        /\ stats.draining = FALSE /\ DOMAIN req = Requests
        /\ share = [r \in Requests |-> 0] /\ straddled = [r \in Requests |-> FALSE]
    BY DEF Server!Init
  <2>4. ASSUME NEW r \in Requests PROVE Billed(req[r], stats, share[r], straddled[r])
    <3>1. req[r] = Server!NewRequest /\ share[r] = 0 /\ straddled[r] = FALSE
      BY <2>1, <2>3
    <3> QED
      BY <2>2, <2>3, <3>1 DEF Billed
  <2>5. share \in [Requests -> Int] /\ straddled \in [Requests -> BOOLEAN]
        /\ stats.window \in Nat
    BY <2>3
  <2>7. stats.draining \in BOOLEAN
    BY DEF Server!Init
  <2>6. \A r \in Requests : ReqShape(req[r])
    BY <2>1, <2>2
  <2> QED
    BY <2>3, <2>4, <2>5, <2>6, <2>7 DEF BillInv
<1>2. EndingInv /\ BillInv /\ [Server!Next]_(Server!vars) => EndingInv' /\ BillInv'
  <2> SUFFICES ASSUME EndingInv, BillInv, [Server!Next]_(Server!vars) PROVE BillInv'
    BY EndingKept
  <2>1. CASE UNCHANGED Server!vars
    BY <2>1 DEF Server!vars, BillInv, Billed, ReqShape
  <2>2. ASSUME NEW r \in Requests,
               Server!Arrive(r) \/ Server!Admit(r) \/ Server!HangUp(r) \/ Server!LoadWindow(r) \/ Server!Ends(r) \/ Server!TaskStep(r)
               \/ Server!Timer(r)
        PROVE  BillInv'
    BY <2>2, OthersBillNothing, DeltasAreBilled DEF Server!TaskStep
  <2> QED
    BY <2>1, <2>2, DrainsAreBilled DEF Server!Next
<1>3. BillInv => NobodyElseIsBilled
  BY DEF BillInv, Billed, NobodyElseIsBilled, Server!NobodyElseIsBilled
<1> QED
  BY <1>1, <1>2, <1>3, PTL DEF Server!Spec
=============================================================================
