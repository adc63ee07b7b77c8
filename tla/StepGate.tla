------------------------------ MODULE StepGate ------------------------------
(***************************************************************************)
(* The GPU baton (infr-llama/src/sampling.rs, StepGate): a ticket lock over *)
(* one mutex and one condition variable.  enter takes the next ticket and   *)
(* waits until it is served; dropping the GatePass, on success, error or    *)
(* panic alike, serves the next ticket and then wakes every waiter.         *)
(***************************************************************************)
EXTENDS Integers, FiniteSets

CONSTANTS
  Seqs,        \* the sequences in flight, one thread each
  MaxTickets   \* bound on the tickets handed out

VARIABLES
  next,      \* GateInner::next
  serving,   \* GateInner::serving
  at,        \* where each sequence is: see Places
  ticket     \* the ticket it took last

vars == <<next, serving, at, ticket>>

(* A waiter is asleep on the condition variable or awake to look again; a    *)
(* sequence that has dropped its pass has still to call notify_all.          *)
Places == {"out", "asleep", "awake", "in", "notify"}
Queued == {"asleep", "awake", "in"}

TypeOK ==
  /\ next \in Nat
  /\ serving \in Nat
  /\ at \in [Seqs -> Places]
  /\ ticket \in [Seqs -> Nat]

Init ==
  /\ next = 0
  /\ serving = 0
  /\ at = [s \in Seqs |-> "out"]
  /\ ticket = [s \in Seqs |-> 0]

(* Mutant of Enter: a newcomer takes a free-looking baton without a ticket.  *)
EnterBarging(s) ==
  /\ at[s] = "out"
  /\ next < MaxTickets
  /\ ticket' = [ticket EXCEPT ![s] = next]
  /\ next' = IF \E u \in Seqs : at[u] = "in" THEN next + 1 ELSE next
  /\ at' = [at EXCEPT ![s] = IF \E u \in Seqs : at[u] = "in" THEN "asleep" ELSE "in"]
  /\ UNCHANGED serving

Enter(s) ==
  /\ at[s] = "out"
  /\ next < MaxTickets
  /\ ticket' = [ticket EXCEPT ![s] = next]
  /\ next' = next + 1
  /\ at' = [at EXCEPT ![s] = IF serving = next THEN "in" ELSE "asleep"]
  /\ UNCHANGED serving

(* Mutant of Recheck: a waiter whose turn has not come takes a new ticket.   *)
RecheckRequeues(s) ==
  /\ at[s] = "awake"
  /\ IF serving = ticket[s]
     THEN at' = [at EXCEPT ![s] = "in"] /\ UNCHANGED <<next, ticket>>
     ELSE /\ at' = [at EXCEPT ![s] = "asleep"]
          /\ ticket' = [ticket EXCEPT ![s] = next]
          /\ next' = next + 1
  /\ UNCHANGED serving

(* Woken, the waiter takes the mutex and looks at `serving` again.           *)
Recheck(s) ==
  /\ at[s] = "awake"
  /\ at' = [at EXCEPT ![s] = IF serving = ticket[s] THEN "in" ELSE "asleep"]
  /\ UNCHANGED <<next, serving, ticket>>

SpuriousWake(s) ==
  /\ at[s] = "asleep"
  /\ at' = [at EXCEPT ![s] = "awake"]
  /\ UNCHANGED <<next, serving, ticket>>

(* The GatePass drops: the next ticket is served ...                        *)
Release(s) ==
  /\ at[s] = "in"
  /\ serving' = serving + 1
  /\ at' = [at EXCEPT ![s] = "notify"]
  /\ UNCHANGED <<next, ticket>>

(* Mutant of NotifyAll: only one waiter is woken.                            *)
NotifyOne(s) ==
  /\ at[s] = "notify"
  /\ IF \E u \in Seqs : at[u] = "asleep"
     THEN \E u \in {v \in Seqs : at[v] = "asleep"} :
            at' = [at EXCEPT ![s] = "out", ![u] = "awake"]
     ELSE at' = [at EXCEPT ![s] = "out"]
  /\ UNCHANGED <<next, serving, ticket>>

(* ... and, with the mutex released, every waiter is woken.                  *)
NotifyAll(s) ==
  /\ at[s] = "notify"
  /\ at' = [u \in Seqs |-> IF u = s THEN "out"
                           ELSE IF at[u] = "asleep" THEN "awake" ELSE at[u]]
  /\ UNCHANGED <<next, serving, ticket>>

(* What a sequence does without being asked: it is running.                 *)
Proceed(s) == Recheck(s) \/ Release(s) \/ NotifyAll(s)

Next == \E s \in Seqs : Enter(s) \/ SpuriousWake(s) \/ Proceed(s)

Spec == Init /\ [][Next]_vars

(* Every GPU step ends, and every runnable thread runs.                     *)
FairSpec == Spec /\ \A s \in Seqs : WF_vars(Proceed(s))

-----------------------------------------------------------------------------
(* "Two threads recording concurrently is UB. The baton is that external    *)
(* synchronisation": at most one sequence holds the baton.                  *)
OneBaton == \A s, u \in Seqs : at[s] = "in" /\ at[u] = "in" => s = u

(* A sequence asleep with the baton's own ticket would sleep for ever: then  *)
(* the notify_all that wakes it is still to come.                           *)
NobodyForgotten ==
  \A s \in Seqs : at[s] = "asleep" /\ ticket[s] = serving =>
    \E u \in Seqs : at[u] = "notify"

(* First come, first served: at most every other sequence goes before one    *)
(* that waits, and each of them once ("N clients round-robin").             *)
RoundRobin ==
  \A s \in Seqs : at[s] \in Queued => ticket[s] - serving < Cardinality(Seqs)

(* The baton is handed on in ticket order, whoever wakes first.              *)
FirstComeFirstServed ==
  [][\A s \in Seqs : at[s] # "in" /\ at'[s] = "in" =>
       \A u \in Seqs \ {s} : at[u] \in Queued => ticket'[s] < ticket[u]]_vars

(* Every sequence that asks for a step gets one.                            *)
EveryTurnComes == \A s \in Seqs : at[s] \in {"asleep", "awake"} ~> at[s] = "in"
=============================================================================
