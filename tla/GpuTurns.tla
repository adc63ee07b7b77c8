------------------------------ MODULE GpuTurns ------------------------------
(***************************************************************************)
(* Generations sharing one GPU (generate_dense_backend in                   *)
(* infr-llama/src/seam/runner.rs, the drive section, over StepGate).  Every *)
(* generation is a thread that works in regions: the per-call IO buffers,   *)
(* one prefill chunk after another, the recording of the replay plan, one   *)
(* decode step (or chained chunk of steps) after another, and a last one    *)
(* that drops the plan.  A region is entered through the baton and left     *)
(* with it.  Two kinds of GPU work do not: zeroing the DeltaNet state of a   *)
(* turn that does not extend the cached one, and dropping the plan when an   *)
(* error returns from a decode step.                                        *)
(*                                                                         *)
(* Each sequence runs one generation, so that the tickets stay bounded.     *)
(***************************************************************************)
EXTENDS Integers, FiniteSets

CONSTANTS
  Seqs,
  MaxTickets,
  MaxChunks,     \* bound on the prefill chunks of a prompt
  MaxSteps,      \* bound on the decode steps of a generation
  Setups         \* the models and backends tried, below

ASSUME SeqsFinite == IsFiniteSet(Seqs)
ASSUME MaxChunksNat == MaxChunks \in Nat
ASSUME MaxStepsPositive == MaxSteps \in Nat \ {0}
ASSUME KnownSetups == Setups \subseteq [recurrent : BOOLEAN, fails : BOOLEAN]
ASSUME TicketsSuffice ==
  MaxTickets \in Nat /\ MaxTickets > Cardinality(Seqs) * (MaxChunks + MaxSteps + 3)

VARIABLES
  setup,     \* the model and the backend; never changes
  next, serving, at, ticket,   \* the baton
  doing,     \* the region each generation is in or about to enter
  left,      \* the chunks, or the steps, it has still to do
  plan,      \* whether it owns a recorded replay plan (`ro` is Some)
  aborted,   \* abort_requested: the stop hit, the cancel or the shutdown latch
  late       \* history: the chunks and steps it started after that

gate == <<next, serving, at, ticket>>
vars == <<setup, gate, doing, left, plan, aborted, late>>

Recurrent == setup.recurrent   \* the model has DeltaNet state (qwen35)
Fails == setup.fails           \* a region may return an error

Gate == INSTANCE StepGate

Regions == {"io", "chunk", "compile", "step", "teardown"}
Ungated == {"zero", "unwind"}

TypeOK ==
  /\ setup \in Setups
  /\ Gate!TypeOK
  /\ doing \in [Seqs -> Regions \cup Ungated \cup {"new", "ended"}]
  /\ left \in [Seqs -> 0 .. MaxChunks + MaxSteps]
  /\ plan \in [Seqs -> BOOLEAN]
  /\ aborted \in [Seqs -> BOOLEAN]
  /\ late \in [Seqs -> Nat]

Init ==
  /\ setup \in Setups
  /\ Gate!Init
  /\ doing = [s \in Seqs |-> "new"]
  /\ left = [s \in Seqs |-> 0]
  /\ plan = [s \in Seqs |-> FALSE]
  /\ aborted = [s \in Seqs |-> FALSE]
  /\ late = [s \in Seqs |-> 0]

Moves(s, from, to) == doing[s] = from /\ doing' = [doing EXCEPT ![s] = to]

(* An error returns out of the generation and drops what it owns: without a *)
(* plan that touches nothing shared.                                        *)
Unwinds(s) == IF plan[s] THEN "unwind" ELSE "ended"

-----------------------------------------------------------------------------
(* The validated turn starts; a turn of a recurrent model that does not      *)
(* extend the cached one uploads zeroes first.                              *)
Start(s) ==
  /\ \/ Moves(s, "new", "io")
     \/ Recurrent /\ Moves(s, "new", "zero")
  /\ UNCHANGED <<gate, left, plan, aborted, late>>

ZeroEnds(s) ==
  /\ \/ Moves(s, "zero", "io")
     \/ Fails /\ Moves(s, "zero", "ended")
  /\ UNCHANGED <<gate, left, plan, aborted, late>>

(* The callback, the deadline, a disconnect or a signal latches the abort.  *)
Abort(s) ==
  /\ doing[s] \notin {"new", "ended"}
  /\ aborted' = [aborted EXCEPT ![s] = TRUE]
  /\ UNCHANGED <<gate, doing, left, plan, late>>

(* The polls before a region: no chunk and no step is started after an       *)
(* abort.  An aborted prefill is an error; an aborted decode is a short      *)
(* answer.                                                                   *)
StopsBefore(s) ==
  /\ at[s] = "out"
  /\ aborted[s]
  /\ \/ Moves(s, "chunk", "ended")
     \/ Moves(s, "step", "teardown")
  /\ UNCHANGED <<gate, left, plan, aborted, late>>

(* Mutant of EnterRegion: no poll before the baton is asked for.             *)
EnterRegionUnpolled(s) ==
  /\ doing[s] \in Regions
  /\ Gate!Enter(s)
  /\ UNCHANGED <<doing, left, plan, aborted, late>>

EnterRegion(s) ==
  /\ doing[s] \in Regions
  /\ aborted[s] => doing[s] \notin {"chunk", "step"}
  /\ Gate!Enter(s)
  /\ UNCHANGED <<doing, left, plan, aborted, late>>

Waits(s) ==
  /\ Gate!Recheck(s) \/ Gate!SpuriousWake(s)
  /\ UNCHANGED <<doing, left, plan, aborted, late>>

(* The region's work is done and its pass drops.                            *)
LeavesRegion(s) ==
  /\ Gate!Release(s)
  /\ late' = IF aborted[s] /\ doing[s] \in {"chunk", "step"}
             THEN [late EXCEPT ![s] = @ + 1] ELSE late
  /\ UNCHANGED aborted

(* What the prompt still needs prefilled is known once the buffers are there. *)
IoDone(s) ==
  /\ LeavesRegion(s)
  /\ \E n \in 0 .. MaxChunks :
       /\ left' = [left EXCEPT ![s] = n]
       /\ Moves(s, "io", IF n = 0 THEN "compile" ELSE "chunk")
  /\ UNCHANGED plan

ChunkDone(s) ==
  /\ LeavesRegion(s)
  /\ left' = [left EXCEPT ![s] = @ - 1]
  /\ Moves(s, "chunk", IF left[s] = 1 THEN "compile" ELSE "chunk")
  /\ UNCHANGED plan

(* The plan is recorded: the decode loop replays it for every step.          *)
CompileDone(s) ==
  /\ LeavesRegion(s)
  /\ plan' = [plan EXCEPT ![s] = TRUE]
  /\ left' = [left EXCEPT ![s] = MaxSteps]
  /\ Moves(s, "compile", "step")

(* A step may sample the end of the answer.                                  *)
StepDone(s) ==
  /\ LeavesRegion(s)
  /\ left' = [left EXCEPT ![s] = @ - 1]
  /\ \/ left[s] > 1 /\ Moves(s, "step", "step")
     \/ Moves(s, "step", "teardown")
  /\ UNCHANGED plan

(* Mutant of TeardownDone: the plan is left to the end of the function.      *)
TeardownLeaks(s) ==
  /\ LeavesRegion(s)
  /\ Moves(s, "teardown", "unwind")
  /\ UNCHANGED <<left, plan>>

TeardownDone(s) ==
  /\ LeavesRegion(s)
  /\ plan' = [plan EXCEPT ![s] = FALSE]
  /\ Moves(s, "teardown", "ended")
  /\ UNCHANGED left

(* Mutant of RegionFails: the error returns past the release of the baton.   *)
RegionFailsHolding(s) ==
  /\ Fails
  /\ doing[s] # "teardown"
  /\ at[s] = "in"
  /\ doing' = [doing EXCEPT ![s] = Unwinds(s)]
  /\ UNCHANGED <<gate, left, plan, aborted, late>>

(* An error inside a region drops the pass first, the plan after it.          *)
RegionFails(s) ==
  /\ Fails
  /\ doing[s] # "teardown"
  /\ LeavesRegion(s)
  /\ doing' = [doing EXCEPT ![s] = Unwinds(s)]
  /\ UNCHANGED <<left, plan>>

UnwindEnds(s) ==
  /\ at[s] = "out"
  /\ Moves(s, "unwind", "ended")
  /\ plan' = [plan EXCEPT ![s] = FALSE]
  /\ UNCHANGED <<gate, left, aborted, late>>

Notifies(s) ==
  /\ Gate!NotifyAll(s)
  /\ UNCHANGED <<doing, left, plan, aborted, late>>

Proceed(s) ==
  \/ Start(s) \/ ZeroEnds(s) \/ StopsBefore(s) \/ EnterRegion(s)
  \/ Waits(s) /\ at[s] = "awake"
  \/ IoDone(s) \/ ChunkDone(s) \/ CompileDone(s) \/ StepDone(s)
  \/ TeardownDone(s) \/ RegionFails(s) \/ UnwindEnds(s) \/ Notifies(s)

Step(s) == Proceed(s) \/ Abort(s) \/ Waits(s)

Next == UNCHANGED setup /\ \E s \in Seqs : Step(s)

Spec == Init /\ [][Next]_vars

(* Every region ends and every runnable thread runs; nothing has to abort.   *)
FairSpec == Spec /\ \A s \in Seqs : WF_vars(Proceed(s) /\ UNCHANGED setup)

-----------------------------------------------------------------------------
(* A thread that records, submits or frees on the shared command pool.  An   *)
(* unwinding thread has dropped its pass and told the others first.          *)
OnGpu(s) ==
  \/ at[s] = "in"
  \/ at[s] = "out" /\ doing[s] \in Ungated

(* "Two threads recording concurrently is UB": the command pool and the      *)
(* queue are only ever used by one generation at a time (sampling.rs,        *)
(* StepGate, reason 1).                                                      *)
PoolSynchronised == \A s, u \in Seqs : OnGpu(s) /\ OnGpu(u) => s = u

(* That holds of a model without recurrent state as long as nothing fails,   *)
(* the only cases in which every piece of GPU work has a region.             *)
PoolSynchronisedInRegions == ~Recurrent /\ ~Fails => PoolSynchronised

(* An abort stops a generation at the next chunk or step: what was polled    *)
(* just before it, or waited for the baton when it came, is the only one     *)
(* that still runs.                                                          *)
AbortStopsSoon == TypeOK /\ \A s \in Seqs : late[s] <= 1

(* Every generation that started ends, whatever the others do, and whether   *)
(* or not it is aborted: the baton comes round.                              *)
GenerationEnds == \A s \in Seqs : doing[s] # "new" ~> doing[s] = "ended"
=============================================================================
