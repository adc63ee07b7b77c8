--------------------------- MODULE GpuTurnsProofs ---------------------------
(***************************************************************************)
(* Proofs about generations that share the GPU, for any number of them and   *)
(* any number of chunks and steps: they use the baton as StepGate allows;    *)
(* where no region fails and no recurrent state is zeroed, the command pool   *)
(* is externally synchronised; and an abort stops a generation at its next    *)
(* chunk or step.                                                           *)
(***************************************************************************)
EXTENDS GpuTurns, TLAPS

(* Whatever a generation does, the baton sees one of its own steps or none:  *)
(* enter, wait and drop come in the order of the ticket lock.               *)
THEOREM UsesTheBaton == Spec => Gate!Spec
<1>1. Init => Gate!Init
  BY DEF Init
<1>2. [Next]_vars => [Gate!Next]_(Gate!vars)
  <2> SUFFICES ASSUME [Next]_vars PROVE [Gate!Next]_(Gate!vars)
    OBVIOUS
  <2> USE DEF Gate!vars, gate
  <2>1. CASE UNCHANGED vars
    BY <2>1 DEF vars
  <2>2. ASSUME NEW s \in Seqs, UNCHANGED gate PROVE [Gate!Next]_(Gate!vars)
    BY <2>2
  <2>3. ASSUME NEW s \in Seqs, Gate!Enter(s) PROVE [Gate!Next]_(Gate!vars)
    BY <2>3 DEF Gate!Next
  <2>4. ASSUME NEW s \in Seqs, Gate!Recheck(s) \/ Gate!SpuriousWake(s)
        PROVE [Gate!Next]_(Gate!vars)
    BY <2>4 DEF Gate!Next, Gate!Proceed
  <2>5. ASSUME NEW s \in Seqs, Gate!Release(s) PROVE [Gate!Next]_(Gate!vars)
    BY <2>5 DEF Gate!Next, Gate!Proceed
  <2>6. ASSUME NEW s \in Seqs, Gate!NotifyAll(s) PROVE [Gate!Next]_(Gate!vars)
    BY <2>6 DEF Gate!Next, Gate!Proceed
  <2>7. ASSUME NEW s \in Seqs, Proceed(s) \/ Abort(s) \/ Waits(s)
        PROVE  [Gate!Next]_(Gate!vars)
    BY <2>2, <2>3, <2>4, <2>5, <2>6, <2>7
       DEF Proceed, Abort, Waits, Start, ZeroEnds, StopsBefore, EnterRegion, LeavesRegion,
           IoDone, ChunkDone, CompileDone, StepDone, TeardownDone, RegionFails, UnwindEnds,
           Notifies
  <2> QED
    BY <2>1, <2>7 DEF Next, Step
<1> QED
  BY <1>1, <1>2, PTL DEF Spec, Gate!Spec

(* What a baton keeps (HandshakesProofs proves it of the baton alone, for its  *)
(* own sake): the tickets of those that queue are distinct and lie between     *)
(* the counters, and whoever is inside has the one being served.              *)
BatonInv ==
  /\ Gate!TypeOK
  /\ serving <= next
  /\ \A s \in Seqs : at[s] \in Gate!Queued => serving <= ticket[s] /\ ticket[s] < next
  /\ \A s, u \in Seqs :
       at[s] \in Gate!Queued /\ at[u] \in Gate!Queued /\ ticket[s] = ticket[u] => s = u
  /\ \A s \in Seqs : at[s] = "in" => ticket[s] = serving

LEMMA BatonStep ==
  ASSUME BatonInv, [Gate!Next]_(Gate!vars)
  PROVE  BatonInv'
<1> USE DEF BatonInv, Gate!TypeOK, Gate!Places, Gate!Queued
<1>1. ASSUME NEW s \in Seqs, Gate!Enter(s) PROVE BatonInv'
  <2>1. /\ next' = next + 1 /\ serving' = serving
        /\ ticket' = [ticket EXCEPT ![s] = next]
        /\ \A u \in Seqs \ {s} : at'[u] = at[u]
        /\ at' \in [Seqs -> Gate!Places]
        /\ at'[s] = "in" => serving = next
    BY <1>1 DEF Gate!Enter
  <2> QED
    BY <2>1
<1>2. ASSUME NEW s \in Seqs, Gate!SpuriousWake(s) PROVE BatonInv'
  BY <1>2 DEF Gate!SpuriousWake
<1>3. ASSUME NEW s \in Seqs, Gate!Recheck(s) PROVE BatonInv'
  BY <1>3 DEF Gate!Recheck
<1>4. ASSUME NEW s \in Seqs, Gate!Release(s) PROVE BatonInv'
  <2>1. /\ next' = next /\ serving' = serving + 1 /\ ticket' = ticket
        /\ at' = [at EXCEPT ![s] = "notify"] /\ at[s] = "in" /\ ticket[s] = serving
    BY <1>4 DEF Gate!Release
  <2>2. \A u \in Seqs \ {s} : at[u] \in Gate!Queued => ticket[u] # serving /\ at[u] # "in"
    BY <2>1
  <2> QED
    BY <2>1, <2>2
<1>5. ASSUME NEW s \in Seqs, Gate!NotifyAll(s) PROVE BatonInv'
  BY <1>5 DEF Gate!NotifyAll
<1>6. CASE UNCHANGED Gate!vars
  BY <1>6 DEF Gate!vars
<1> QED
  BY <1>1, <1>2, <1>3, <1>4, <1>5, <1>6 DEF Gate!Next, Gate!Proceed

LEMMA BatonKept == Gate!Spec => []BatonInv
<1>1. Gate!Init => BatonInv
  BY DEF Gate!Init, BatonInv, Gate!TypeOK, Gate!Places, Gate!Queued
<1>2. BatonInv /\ [Gate!Next]_(Gate!vars) => BatonInv'
  BY BatonStep
<1> QED
  BY <1>1, <1>2, PTL DEF Gate!Spec

LEMMA BatonIsExclusive == Gate!Spec => []Gate!OneBaton
<1>1. BatonInv => Gate!OneBaton
  BY DEF BatonInv, Gate!OneBaton, Gate!Queued
<1> QED
  BY <1>1, BatonKept, PTL

(* Every generation stays in the regions it enters through the baton.        *)
Gated == \A s \in Seqs : doing[s] \notin Ungated

LEMMA GatedStep ==
  ASSUME ~Recurrent, ~Fails, doing \in [Seqs -> Regions \cup Ungated \cup {"new", "ended"}],
         Gated, [Next]_vars
  PROVE  Gated'
<1> USE DEF Gated, Ungated
<1>1. CASE UNCHANGED vars
  BY <1>1 DEF vars
<1>2. ASSUME NEW s \in Seqs, Proceed(s) \/ Abort(s) \/ Waits(s) PROVE Gated'
  <2>1. CASE UNCHANGED doing
    BY <2>1
  <2>2. ASSUME NEW from, NEW to, to \notin Ungated, Moves(s, from, to) PROVE Gated'
    BY <2>2 DEF Moves
  <2> QED
    BY <1>2, <2>1, <2>2
       DEF Proceed, Abort, Waits, Start, ZeroEnds, StopsBefore, EnterRegion, LeavesRegion,
           IoDone, ChunkDone, CompileDone, StepDone, TeardownDone, RegionFails, UnwindEnds,
           Notifies, Moves
<1> QED
  BY <1>1, <1>2 DEF Next, Step

(* In a setup without failures and without recurrent state all GPU work is    *)
(* done under the baton: the command pool is externally synchronised.        *)
THEOREM PoolIsSynchronised == Spec => []PoolSynchronisedInRegions
<1> DEFINE Plain == ~Recurrent /\ ~Fails
<1> DEFINE Typed == doing \in [Seqs -> Regions \cup Ungated \cup {"new", "ended"}]
<1>1. Init => Typed /\ (Plain => Gated)
  BY DEF Init, Gated, Regions, Ungated
<1>2. Typed /\ [Next]_vars => Typed'
  <2> SUFFICES ASSUME Typed, [Next]_vars PROVE Typed'
    OBVIOUS
  <2>1. CASE UNCHANGED doing
    BY <2>1
  <2>2. ASSUME NEW s \in Seqs, NEW from,
               NEW to \in Regions \cup Ungated \cup {"new", "ended"}, Moves(s, from, to)
        PROVE  Typed'
    BY <2>2 DEF Moves
  <2>3. ASSUME NEW s \in Seqs, Step(s) PROVE Typed'
    BY <2>1, <2>2, <2>3
       DEF Step, Proceed, Abort, Waits, Start, ZeroEnds, StopsBefore, EnterRegion, LeavesRegion,
           IoDone, ChunkDone, CompileDone, StepDone, TeardownDone, RegionFails, UnwindEnds,
           Notifies, Unwinds, Regions, Ungated, Moves
  <2> QED
    BY <2>1, <2>3 DEF Next, vars
<1>3. Typed /\ (Plain => Gated) /\ [Next]_vars => (Plain => Gated)'
  <2>1. [Next]_vars => (Plain' <=> Plain)
    BY DEF Next, vars, Recurrent, Fails
  <2> QED
    BY <2>1, GatedStep
<1>4. (Plain => Gated) /\ Gate!OneBaton => PoolSynchronisedInRegions
  BY DEF Gated, Gate!OneBaton, PoolSynchronisedInRegions, PoolSynchronised, OnGpu
<1> QED
  BY <1>1, <1>2, <1>3, <1>4, BatonIsExclusive, UsesTheBaton, PTL DEF Spec

-----------------------------------------------------------------------------
(* There is a chunk or a step left in a region that is about to do one.      *)
SomethingLeft == \A s \in Seqs : doing[s] \in {"chunk", "step"} => left[s] >= 1

(* AbortStopsSoon is not inductive: it does not say that a generation that    *)
(* waits for the baton, or has it, after an abort has not been late yet.  It   *)
(* was polled before it asked for the baton, and once it has been late every   *)
(* later poll sees the abort.                                               *)
NotLateYet ==
  /\ \A s \in Seqs : late[s] <= 1
  /\ \A s \in Seqs : late[s] > 0 => aborted[s]
  /\ \A s \in Seqs : at[s] \in Gate!Queued /\ doing[s] \in {"chunk", "step"} => late[s] = 0

AbortInv == TypeOK /\ SomethingLeft /\ NotLateYet

(* Leaving a region: the pass drops, and a chunk or a step of an aborted       *)
(* generation is counted as late.                                           *)
LEMMA LeavingIsCounted ==
  ASSUME AbortInv, NEW s \in Seqs, LeavesRegion(s), setup' = setup
  PROVE  /\ Gate!TypeOK'
         /\ late' \in [Seqs -> Nat] /\ aborted' = aborted
         /\ at[s] = "in" /\ at' = [at EXCEPT ![s] = "notify"]
         /\ late'[s] <= 1 /\ (late'[s] > 0 => aborted[s])
         /\ \A u \in Seqs \ {s} : late'[u] = late[u]
BY DEF AbortInv, TypeOK, Gate!TypeOK, Gate!Places, Gate!Queued, NotLateYet, LeavesRegion,
       Gate!Release

(* So leaving a region keeps generations from being late twice, whatever they  *)
(* do next.                                                                 *)
LEMMA LeavingKeepsNotLate ==
  ASSUME AbortInv, NEW s \in Seqs, LeavesRegion(s), setup' = setup,
         \A u \in Seqs \ {s} : doing'[u] = doing[u]
  PROVE  NotLateYet'
<1>1. /\ at' = [at EXCEPT ![s] = "notify"] /\ aborted' = aborted
      /\ late'[s] <= 1 /\ (late'[s] > 0 => aborted[s])
      /\ \A u \in Seqs \ {s} : late'[u] = late[u]
  BY LeavingIsCounted
<1>2. at \in [Seqs -> Gate!Places]
  BY DEF AbortInv, TypeOK, Gate!TypeOK
<1> QED
  BY <1>1, <1>2 DEF AbortInv, NotLateYet, Gate!Queued

LEMMA AbortStep ==
  ASSUME AbortInv, [Next]_vars
  PROVE  AbortInv'
<1> DEFINE Doings == Regions \cup Ungated \cup {"new", "ended"}
<1> DEFINE Lefts == 0 .. MaxChunks + MaxSteps
<1>0. /\ setup \in Setups /\ doing \in [Seqs -> Doings] /\ left \in [Seqs -> Lefts]
      /\ plan \in [Seqs -> BOOLEAN] /\ aborted \in [Seqs -> BOOLEAN] /\ late \in [Seqs -> Nat]
      /\ Gate!TypeOK /\ at \in [Seqs -> Gate!Places]
  BY DEF AbortInv, TypeOK, Gate!TypeOK
<1>a. MaxChunks \in Nat /\ MaxSteps \in Nat \ {0}
  BY MaxChunksNat, MaxStepsPositive
(* What stays when the baton, the polls and the counts are left alone.        *)
<1>b. ASSUME UNCHANGED <<setup, gate, left, aborted, late>>, plan' \in [Seqs -> BOOLEAN],
             NEW s \in Seqs, NEW from, NEW to \in Doings \ {"chunk", "step"},
             Moves(s, from, to)
      PROVE  AbortInv'
  <2>1. TypeOK'
    BY <1>0, <1>b DEF TypeOK, Gate!TypeOK, Moves, gate
  <2>2. SomethingLeft' /\ NotLateYet'
    BY <1>0, <1>b DEF AbortInv, SomethingLeft, NotLateYet, Moves, gate
  <2> QED
    BY <2>1, <2>2 DEF AbortInv
(* What stays when a region is left for another.                             *)
<1>c. ASSUME NEW s \in Seqs, LeavesRegion(s), setup' = setup,
             left' \in [Seqs -> Lefts], plan' \in [Seqs -> BOOLEAN],
             \A u \in Seqs \ {s} : left'[u] = left[u],
             NEW from, NEW to \in Doings, Moves(s, from, to),
             to \in {"chunk", "step"} => left'[s] >= 1
      PROVE  AbortInv'
  <2>1. doing' \in [Seqs -> Doings] /\ (\A u \in Seqs \ {s} : doing'[u] = doing[u])
        /\ doing'[s] = to
    BY <1>0, <1>c DEF Moves
  <2>2. TypeOK'
    BY <1>0, <1>c, <2>1, LeavingIsCounted DEF TypeOK
  <2>3. SomethingLeft'
    BY <1>c, <2>1 DEF AbortInv, SomethingLeft
  <2>4. NotLateYet'
    BY <1>c, <2>1, LeavingKeepsNotLate
  <2> QED
    BY <2>2, <2>3, <2>4 DEF AbortInv
<1>1. CASE UNCHANGED vars
  <2>1. TypeOK'
    BY <1>0, <1>1 DEF TypeOK, Gate!TypeOK, vars, gate
  <2> QED
    BY <1>1, <2>1 DEF AbortInv, SomethingLeft, NotLateYet, vars, gate
<1>2. ASSUME NEW s \in Seqs, Step(s), setup' = setup PROVE AbortInv'
  <2>1. CASE Start(s)
    BY <1>0, <1>2, <1>b, <2>1 DEF Start, Regions, Ungated
  <2>2. CASE ZeroEnds(s)
    BY <1>0, <1>2, <1>b, <2>2 DEF ZeroEnds, Regions, Ungated
  <2>3. CASE StopsBefore(s)
    BY <1>0, <1>2, <1>b, <2>3 DEF StopsBefore, Regions, Ungated
  <2>4. CASE UnwindEnds(s)
    BY <1>0, <1>2, <1>b, <2>4 DEF UnwindEnds, Regions, Ungated
  <2>5. CASE Abort(s)
    <3>1. UNCHANGED <<setup, gate, doing, left, plan, late>>
          /\ aborted' = [aborted EXCEPT ![s] = TRUE]
      BY <1>2, <2>5 DEF Abort
    <3>2. TypeOK'
      BY <1>0, <3>1 DEF TypeOK, Gate!TypeOK, gate
    <3> QED
      BY <1>0, <3>1, <3>2 DEF AbortInv, SomethingLeft, NotLateYet, gate
  <2>6. CASE EnterRegion(s)
    <3>1. /\ UNCHANGED <<setup, doing, left, plan, aborted, late>>
          /\ Gate!Enter(s) /\ (aborted[s] => doing[s] \notin {"chunk", "step"})
      BY <1>2, <2>6 DEF EnterRegion
    <3>2. Gate!TypeOK' /\ \A u \in Seqs \ {s} : at'[u] = at[u]
      BY <1>0, <3>1 DEF Gate!Enter, Gate!TypeOK, Gate!Places
    <3>3. TypeOK'
      BY <1>0, <3>1, <3>2 DEF TypeOK
    <3> QED
      BY <1>0, <3>1, <3>2, <3>3 DEF AbortInv, SomethingLeft, NotLateYet
  <2>7. ASSUME Waits(s) \/ Notifies(s) PROVE AbortInv'
    <3>1. UNCHANGED <<setup, doing, left, plan, aborted, late>>
      BY <1>2, <2>7 DEF Waits, Notifies
    <3>2. Gate!TypeOK' /\ \A u \in Seqs : at'[u] \in Gate!Queued => at[u] \in Gate!Queued
      BY <1>0, <2>7 DEF Waits, Notifies, Gate!Recheck, Gate!SpuriousWake, Gate!NotifyAll,
         Gate!TypeOK, Gate!Places, Gate!Queued
    <3>3. TypeOK'
      BY <1>0, <3>1, <3>2 DEF TypeOK
    <3> QED
      BY <1>0, <3>1, <3>2, <3>3 DEF AbortInv, SomethingLeft, NotLateYet
  <2>8. CASE IoDone(s)
    <3>1. PICK n \in 0 .. MaxChunks :
            left' = [left EXCEPT ![s] = n] /\ Moves(s, "io", IF n = 0 THEN "compile" ELSE "chunk")
      BY <2>8 DEF IoDone
    <3>2. LeavesRegion(s) /\ plan' = plan
      BY <2>8 DEF IoDone
    <3>3. left' \in [Seqs -> Lefts] /\ left'[s] = n /\ \A u \in Seqs \ {s} : left'[u] = left[u]
      BY <1>0, <1>a, <3>1
    <3>4. CASE n = 0
      BY <1>0, <1>2, <1>c, <3>1, <3>2, <3>3, <3>4 DEF Regions
    <3>5. CASE n # 0
      BY <1>0, <1>2, <1>c, <3>1, <3>2, <3>3, <3>5 DEF Regions
    <3> QED
      BY <3>4, <3>5
  <2>9. CASE ChunkDone(s) \/ StepDone(s)
    <3>1. LeavesRegion(s) /\ plan' = plan /\ left' = [left EXCEPT ![s] = @ - 1]
      BY <2>9 DEF ChunkDone, StepDone
    <3>2. doing[s] \in {"chunk", "step"} /\ left[s] >= 1
      BY <2>9 DEF ChunkDone, StepDone, Moves, AbortInv, SomethingLeft
    <3>3. left' \in [Seqs -> Lefts] /\ left'[s] = left[s] - 1
          /\ \A u \in Seqs \ {s} : left'[u] = left[u]
      BY <1>0, <1>a, <3>1, <3>2
    <3>4. left[s] = 1 \/ left'[s] >= 1
      BY <1>0, <1>a, <3>2, <3>3
    <3>5. PICK to \in {"compile", "chunk", "step", "teardown"} :
            /\ Moves(s, doing[s], to)
            /\ to \in {"chunk", "step"} => left[s] # 1
      BY <1>0, <1>a, <2>9, <3>2 DEF ChunkDone, StepDone, Moves
    <3> QED
      BY <1>0, <1>2, <1>c, <3>1, <3>3, <3>4, <3>5 DEF Regions
  <2>10. CASE CompileDone(s)
    <3>1. LeavesRegion(s) /\ plan' = [plan EXCEPT ![s] = TRUE]
          /\ left' = [left EXCEPT ![s] = MaxSteps] /\ Moves(s, "compile", "step")
      BY <2>10 DEF CompileDone
    <3>2. left' \in [Seqs -> Lefts] /\ left'[s] >= 1 /\ plan' \in [Seqs -> BOOLEAN]
          /\ \A u \in Seqs \ {s} : left'[u] = left[u]
      BY <1>0, <1>a, <3>1
    <3> QED
      BY <1>0, <1>2, <1>c, <3>1, <3>2 DEF Regions
  <2>11. CASE TeardownDone(s)
    <3>1. LeavesRegion(s) /\ plan' = [plan EXCEPT ![s] = FALSE] /\ left' = left
          /\ Moves(s, "teardown", "ended")
      BY <2>11 DEF TeardownDone
    <3> QED
      BY <1>0, <1>2, <1>c, <3>1
  <2>12. CASE RegionFails(s)
    <3>1. LeavesRegion(s) /\ plan' = plan /\ left' = left /\ Moves(s, doing[s], Unwinds(s))
      BY <2>12 DEF RegionFails, Moves
    <3>2. Unwinds(s) \in Doings \ {"chunk", "step"}
      BY DEF Unwinds, Ungated
    <3> QED
      BY <1>0, <1>2, <1>c, <3>1, <3>2
  <2> QED
    BY <1>2, <2>1, <2>2, <2>3, <2>4, <2>5, <2>6, <2>7, <2>8, <2>9, <2>10, <2>11, <2>12
       DEF Step, Proceed
<1> QED
  BY <1>1, <1>2 DEF Next

(* An abort stops a generation at the next chunk or step: whatever latches it  *)
(* and whenever, at most the one that was polled before it, or that waited    *)
(* for the baton when it came, still runs.                                   *)
THEOREM AbortsStopSoon == Spec => []AbortStopsSoon
<1>1. Init => AbortInv
  BY MaxChunksNat, MaxStepsPositive
     DEF Init, AbortInv, TypeOK, SomethingLeft, NotLateYet, Gate!Init, Gate!TypeOK, Gate!Places,
         Gate!Queued, Regions, Ungated
<1>2. AbortInv /\ [Next]_vars => AbortInv'
  BY AbortStep
<1>3. AbortInv => AbortStopsSoon
  BY DEF AbortInv, NotLateYet, AbortStopsSoon
<1> QED
  BY <1>1, <1>2, <1>3, PTL DEF Spec
=============================================================================
