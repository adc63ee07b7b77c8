------------------------------ MODULE SpinPool ------------------------------
(***************************************************************************)
(* The CPU backend's persistent fork-join pool (infr-cpu/src/pool.rs).       *)
(* Workers wait for the generation counter seq to move, spinning and then    *)
(* parking; a caller publishes one job, bumps seq, unparks the sleepers,     *)
(* takes part, and waits until every worker has checked in.  A caller that   *)
(* finds the pool taken goes through rayon instead (external: it runs every  *)
(* task once, or panics).  Dropping the pool stops and joins the workers.    *)
(*                                                                         *)
(* How long a worker spins is the adaptive budget: here a worker that sees   *)
(* nothing new may look again or try to sleep.  The atomics are sequentially  *)
(* consistent, as the handshake's SeqCst accesses are.                       *)
(***************************************************************************)
EXTENDS Naturals, FiniteSets

CONSTANTS
  Callers,     \* threads that call run on this pool
  MaxTasks,    \* bound on the tasks of a job
  MayPanic,    \* the tasks whose code may panic
  Crews,       \* the pools tried: worker threads, who calls run, how often each
  NoJob

VARIABLES
  crew,      \* the pool being tried; never changes
  pool,      \* the job slot and the counters of Shared, and in_run
  sleeping,  \* Shared::sleeping
  token,     \* std's park token of each worker
  worker,    \* what each worker thread is doing
  caller,    \* what each calling thread is doing
  closing,   \* how far Drop has got
  ran,       \* how often each task of a caller's latest run was run
  fell       \* whether one of them panicked

vars == <<crew, pool, sleeping, token, worker, caller, closing, ran, fell>>

Tasks == 0 .. MaxTasks - 1
Threads == UNION {1 .. k.workers : k \in Crews}
Workers == 1 .. crew.workers    \* in the order they are unparked

AtRest == [at |-> "look", seen |-> 0, job |-> NoJob, n |-> 0, task |-> 0]

Init ==
  /\ crew \in Crews
  /\ pool = [job |-> NoJob, seq |-> 0, cursor |-> 0, n |-> 0, done |-> 0,
             panicked |-> FALSE, shutdown |-> FALSE, busy |-> FALSE]
  /\ sleeping = [w \in Workers |-> FALSE]
  /\ token = [w \in Workers |-> FALSE]
  /\ worker = [w \in Workers |-> AtRest]
  /\ caller = [c \in Callers |-> [at |-> "idle", n |-> 0, task |-> 0, wake |-> {},
                                 raise |-> FALSE, calls |-> 0]]
  /\ closing = [at |-> "live", wake |-> {}]
  /\ ran = [c \in Callers |-> [t \in Tasks |-> 0]]
  /\ fell = [c \in Callers |-> FALSE]

Goes(w, from, to) == worker[w].at = from /\ worker' = [worker EXCEPT ![w].at = to]
Moves(c, from, to) == caller[c].at = from /\ caller' = [caller EXCEPT ![c].at = to]
UserVars == <<caller, closing, ran, fell>>

-----------------------------------------------------------------------------
(* A worker waits for a new generation, which it reads again and again; as    *)
(* long as it sees none it may get ready to sleep, and publishes its flag.     *)
Look(w) ==
  /\ worker[w].at \in {"look", "spun"}
  /\ worker' = IF pool.seq # worker[w].seen
                THEN [worker EXCEPT ![w].seen = pool.seq, ![w].at = "begin"]
                ELSE [worker EXCEPT ![w].at = IF pool.shutdown THEN "exited" ELSE "spun"]
  /\ UNCHANGED <<pool, sleeping, token, UserVars>>

PublishSleep(w) ==
  /\ Goes(w, "spun", "recheck")
  /\ sleeping' = [sleeping EXCEPT ![w] = TRUE]
  /\ UNCHANGED <<pool, token, UserVars>>

(* Mutant of Recheck: parks without looking at seq again.                    *)
RecheckNothing(w) ==
  /\ Goes(w, "recheck", "park")
  /\ UNCHANGED <<pool, sleeping, token, UserVars>>

(* The re-check between the flag and the park.                               *)
Recheck(w) ==
  /\ Goes(w, "recheck",
          IF pool.seq # worker[w].seen \/ pool.shutdown THEN "awake" ELSE "park")
  /\ UNCHANGED <<pool, sleeping, token, UserVars>>

(* park() consumes a token, or blocks until there is one.                    *)
Park(w) ==
  /\ token[w]
  /\ Goes(w, "park", "awake")
  /\ token' = [token EXCEPT ![w] = FALSE]
  /\ UNCHANGED <<pool, sleeping, UserVars>>

SpuriousWake(w) ==
  /\ Goes(w, "park", "awake")
  /\ UNCHANGED <<pool, sleeping, token, UserVars>>

ClearFlag(w) ==
  /\ Goes(w, "awake", "look")
  /\ sleeping' = [sleeping EXCEPT ![w] = FALSE]
  /\ UNCHANGED <<pool, token, UserVars>>

(* The worker reads the slot; an empty one is the expect that kills it.      *)
Begin(w) ==
  /\ worker[w].at = "begin"
  /\ worker' = [worker EXCEPT ![w].at = IF pool.shutdown THEN "exited"
                                        ELSE IF pool.job = NoJob THEN "died" ELSE "claim",
                              ![w].job = pool.job,
                              ![w].n = pool.n]
  /\ UNCHANGED <<pool, sleeping, token, UserVars>>

Claim(w) ==
  /\ worker[w].at = "claim"
  /\ worker' = [worker EXCEPT ![w].at = IF pool.cursor < worker[w].n THEN "task" ELSE "checkin",
                              ![w].task = pool.cursor]
  /\ pool' = [pool EXCEPT !.cursor = @ + 1]
  /\ UNCHANGED <<sleeping, token, UserVars>>

(* Task t of caller c's job is run; a panic is caught and noted.             *)
Runs(c, t) ==
  /\ ran' = [ran EXCEPT ![c][t] = @ + 1]
  /\ \E panics \in {FALSE, (t \in MayPanic)} :
       /\ fell' = [fell EXCEPT ![c] = @ \/ panics]
       /\ pool' = [pool EXCEPT !.panicked = @ \/ panics]

WorkerTask(w) ==
  /\ Goes(w, "task", "claim")
  /\ Runs(worker[w].job, worker[w].task)
  /\ UNCHANGED <<sleeping, token, caller, closing>>

CheckIn(w) ==
  /\ worker[w].at = "checkin"
  /\ worker' = [worker EXCEPT ![w] = [AtRest EXCEPT !.seen = worker[w].seen]]
  /\ pool' = [pool EXCEPT !.done = @ + 1]
  /\ UNCHANGED <<sleeping, token, UserVars>>

-----------------------------------------------------------------------------
(* run(n, f).  A single task, or a pool without workers, is run inline;      *)
(* compare_exchange on in_run sends whoever finds the pool taken to rayon.    *)
Call(c) ==
  /\ caller[c].at \in {"idle", "returned", "panicked"}
  /\ closing.at = "live"
  /\ c \in crew.callers /\ caller[c].calls < crew.calls
  /\ \E n \in 0 .. MaxTasks :
       LET inline == n <= 1 \/ Workers = {}
       IN  /\ caller' = [caller EXCEPT ![c] =
                [at |-> IF inline THEN "inline" ELSE IF pool.busy THEN "rayon" ELSE "publish",
                 n |-> n, task |-> 0, wake |-> {}, raise |-> FALSE, calls |-> @.calls + 1]]
           /\ pool' = [pool EXCEPT !.busy = @ \/ ~inline]
  /\ ran' = [ran EXCEPT ![c] = [t \in Tasks |-> 0]]
  /\ fell' = [fell EXCEPT ![c] = FALSE]
  /\ UNCHANGED <<sleeping, token, worker, closing>>

PoolVars == <<pool, sleeping, token, worker, closing>>

(* Off the pool a task's panic unwinds through the caller.                   *)
RunsHere(c, t) ==
  /\ ran' = [ran EXCEPT ![c][t] = @ + 1]
  /\ \E panics \in {FALSE, (t \in MayPanic)} : fell' = [fell EXCEPT ![c] = @ \/ panics]

InlineTask(c) ==
  /\ caller[c].at = "inline"
  /\ caller[c].task < caller[c].n /\ ~fell[c]
  /\ RunsHere(c, caller[c].task)
  /\ caller' = [caller EXCEPT ![c].task = @ + 1]
  /\ UNCHANGED PoolVars

RayonTask(c) ==
  /\ caller[c].at = "rayon"
  /\ \E t \in 0 .. caller[c].n - 1 : ran[c][t] = 0 /\ RunsHere(c, t)
  /\ UNCHANGED <<caller, PoolVars>>

OffPoolEnds(c) ==
  /\ caller[c].at \in {"inline", "rayon"}
  /\ fell[c] \/ \A t \in 0 .. caller[c].n - 1 : ran[c][t] = 1
  /\ caller' = [caller EXCEPT ![c].at = IF fell[c] THEN "panicked" ELSE "returned"]
  /\ UNCHANGED <<PoolVars, ran, fell>>

(* The pool's own path: job, then the counters, then seq, then the sleepers. *)
Publish(c) ==
  /\ Moves(c, "publish", "bump")
  /\ pool' = [pool EXCEPT !.job = c, !.cursor = 0, !.n = caller[c].n, !.done = 0]
  /\ UNCHANGED <<sleeping, token, worker, closing, ran, fell>>

Bump(c) ==
  /\ caller[c].at = "bump"
  /\ caller' = [caller EXCEPT ![c].at = "wake", ![c].wake = Workers]
  /\ pool' = [pool EXCEPT !.seq = @ + 1]
  /\ UNCHANGED <<sleeping, token, worker, closing, ran, fell>>

First(ws) == CHOOSE w \in ws : \A v \in ws : w <= v

WakeNext(c) ==
  /\ caller[c].at = "wake"
  /\ LET w == First(caller[c].wake)
     IN  /\ token' = IF sleeping[w] THEN [token EXCEPT ![w] = TRUE] ELSE token
         /\ caller' = [caller EXCEPT ![c].wake = @ \ {w},
                                     ![c].at = IF caller[c].wake = {w} THEN "claim" ELSE @]
  /\ UNCHANGED <<pool, sleeping, worker, closing, ran, fell>>

CallerClaim(c) ==
  /\ caller[c].at = "claim"
  /\ caller' = [caller EXCEPT ![c].at = IF pool.cursor < caller[c].n THEN "task" ELSE "wait",
                              ![c].task = pool.cursor]
  /\ pool' = [pool EXCEPT !.cursor = @ + 1]
  /\ UNCHANGED <<sleeping, token, worker, closing, ran, fell>>

CallerTask(c) ==
  /\ Moves(c, "task", "claim")
  /\ Runs(c, caller[c].task)
  /\ UNCHANGED <<sleeping, token, worker, closing>>

(* Mutant of AwaitCheckIns: the caller leaves when the cursor is drained.     *)
AwaitDrained(c) ==
  /\ pool.cursor > pool.n
  /\ Moves(c, "wait", "clear")
  /\ UNCHANGED <<PoolVars, ran, fell>>

AwaitCheckIns(c) ==
  /\ pool.done >= Cardinality(Workers)
  /\ Moves(c, "wait", "clear")
  /\ UNCHANGED <<PoolVars, ran, fell>>

(* Mutant of TakePanic: the flag is read and not cleared.                    *)
ReadPanic(c) ==
  /\ caller[c].at = "clear"
  /\ caller' = [caller EXCEPT ![c].at = "free", ![c].task = 0, ![c].raise = pool.panicked]
  /\ pool' = [pool EXCEPT !.job = NoJob]
  /\ UNCHANGED <<sleeping, token, worker, closing, ran, fell>>

(* The slot is emptied and the panic flag consumed while in_run is held.      *)
TakePanic(c) ==
  /\ caller[c].at = "clear"
  /\ caller' = [caller EXCEPT ![c].at = "free", ![c].task = 0, ![c].raise = pool.panicked]
  /\ pool' = [pool EXCEPT !.job = NoJob, !.panicked = FALSE]
  /\ UNCHANGED <<sleeping, token, worker, closing, ran, fell>>

Release(c) ==
  /\ Moves(c, "free", IF caller[c].raise THEN "panicked" ELSE "returned")
  /\ pool' = [pool EXCEPT !.busy = FALSE]
  /\ UNCHANGED <<sleeping, token, worker, closing, ran, fell>>

-----------------------------------------------------------------------------
(* Drop has the pool to itself: shutdown, seq, an unpark for everyone, join. *)
InCall(c) == caller[c].at \notin {"idle", "returned", "panicked"}

Shutdown ==
  /\ closing.at = "live"
  /\ \A c \in Callers : ~InCall(c)
  /\ closing' = [closing EXCEPT !.at = "shut"]
  /\ pool' = [pool EXCEPT !.shutdown = TRUE]
  /\ UNCHANGED <<sleeping, token, worker, caller, ran, fell>>

BumpToStop ==
  /\ closing.at = "shut"
  /\ closing' = [at |-> IF Workers = {} THEN "join" ELSE "wake", wake |-> Workers]
  /\ pool' = [pool EXCEPT !.seq = @ + 1]
  /\ UNCHANGED <<sleeping, token, worker, caller, ran, fell>>

UnparkNext ==
  /\ closing.at = "wake"
  /\ LET w == First(closing.wake)
     IN  /\ token' = [token EXCEPT ![w] = TRUE]
         /\ closing' = [at |-> IF closing.wake = {w} THEN "join" ELSE "wake",
                        wake |-> closing.wake \ {w}]
  /\ UNCHANGED <<pool, sleeping, worker, caller, ran, fell>>

Join ==
  /\ closing.at = "join"
  /\ \A w \in Workers : worker[w].at \in {"exited", "died"}
  /\ closing' = [closing EXCEPT !.at = "gone"]
  /\ UNCHANGED <<pool, sleeping, token, worker, caller, ran, fell>>

WorkerStep(w) ==
  \/ Look(w) \/ PublishSleep(w) \/ Recheck(w) \/ Park(w) \/ ClearFlag(w)
  \/ Begin(w) \/ Claim(w) \/ WorkerTask(w) \/ CheckIn(w)

RunStep(c) ==
  \/ InlineTask(c) \/ RayonTask(c) \/ OffPoolEnds(c)
  \/ Publish(c) \/ Bump(c) \/ WakeNext(c)
  \/ CallerClaim(c) \/ CallerTask(c) \/ AwaitCheckIns(c)
  \/ TakePanic(c) \/ Release(c)

DropStep == BumpToStop \/ UnparkNext \/ Join

Next ==
  /\ UNCHANGED crew
  /\ \/ \E w \in Workers : WorkerStep(w) \/ SpuriousWake(w)
     \/ \E c \in Callers : Call(c) \/ RunStep(c)
     \/ Shutdown \/ DropStep

Spec == Init /\ [][Next]_vars

(* Every thread is scheduled; nobody has to call, or to drop the pool.       *)
Fairness ==
  /\ \A w \in Threads : WF_vars(w \in Workers /\ WorkerStep(w) /\ UNCHANGED crew)
  /\ \A c \in Callers : WF_vars(RunStep(c) /\ UNCHANGED crew)
  /\ WF_vars(DropStep /\ UNCHANGED crew)

-----------------------------------------------------------------------------
State(c) == IF InCall(c) THEN "running" ELSE caller[c].at

Promise == INSTANCE ForkJoin WITH
  state <- [c \in Callers |-> State(c)],
  size <- [c \in Callers |-> caller[c].n]

(* run calls every task exactly once before it returns, and panics exactly   *)
(* when a task of its own panicked, whoever else uses the pool ("we would    *)
(* panic for their failure", pool.rs:303).                                   *)
KeepsItsPromise == Promise!Spec

(* The borrowed closure is alive whenever a worker may call it, no thread     *)
(* ever finds the slot empty or is late for a job, and a drop never leaves a   *)
(* thread behind (the safety argument of Shared::job, pool.rs:26).            *)
ClosureOutlivesItsUse ==
  /\ \A w \in Workers : worker[w].at \in {"claim", "task", "checkin"} =>
       /\ pool.busy
       /\ caller[worker[w].job].at \in {"wake", "claim", "task", "wait"}
       /\ worker[w].seen = pool.seq
       /\ worker[w].n = caller[worker[w].job].n
  /\ \A w \in Workers : worker[w].at # "died"
  /\ closing.at = "gone" => \A w \in Workers : worker[w].at = "exited"

(* No wake-up is lost: again and again every call has come back, and a drop   *)
(* that was begun has come to its end.                                      *)
CallsComeBack ==
  []<>(/\ \A c \in Callers : ~InCall(c)
       /\ closing.at \in {"live", "gone"})
=============================================================================
