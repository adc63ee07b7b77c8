------------------------------ MODULE ForkJoin ------------------------------
(***************************************************************************)
(* What SpinPool::run promises its callers (infr-cpu/src/pool.rs): run(n, f) *)
(* returns once f was called exactly once for each of 0 .. n-1, and panics   *)
(* instead exactly when one of its own tasks panicked.                       *)
(***************************************************************************)
EXTENDS Naturals

CONSTANTS Callers, MaxTasks

VARIABLES
  state,   \* "idle", "running", "returned" or "panicked"
  size,    \* n of the call
  ran,     \* how often each task of the call ran
  fell     \* whether one of them panicked

vars == <<state, size, ran, fell>>

Tasks == 0 .. MaxTasks - 1

Init ==
  /\ state = [c \in Callers |-> "idle"]
  /\ size = [c \in Callers |-> 0]
  /\ ran = [c \in Callers |-> [t \in Tasks |-> 0]]
  /\ fell = [c \in Callers |-> FALSE]

Call(c) ==
  /\ state[c] # "running"
  /\ state' = [state EXCEPT ![c] = "running"]
  /\ \E n \in 0 .. MaxTasks : size' = [size EXCEPT ![c] = n]
  /\ ran' = [ran EXCEPT ![c] = [t \in Tasks |-> 0]]
  /\ fell' = [fell EXCEPT ![c] = FALSE]

RunTask(c) ==
  /\ state[c] = "running"
  /\ \E t \in 0 .. size[c] - 1 : ran[c][t] = 0 /\ ran' = [ran EXCEPT ![c][t] = 1]
  /\ \E panics \in BOOLEAN : fell' = [fell EXCEPT ![c] = @ \/ panics]
  /\ UNCHANGED <<state, size>>

Return(c) ==
  /\ state[c] = "running"
  /\ ~fell[c]
  /\ \A t \in 0 .. size[c] - 1 : ran[c][t] = 1
  /\ state' = [state EXCEPT ![c] = "returned"]
  /\ UNCHANGED <<size, ran, fell>>

Panic(c) ==
  /\ state[c] = "running"
  /\ fell[c]
  /\ state' = [state EXCEPT ![c] = "panicked"]
  /\ UNCHANGED <<size, ran, fell>>

Next == \E c \in Callers : Call(c) \/ RunTask(c) \/ Return(c) \/ Panic(c)

Spec == Init /\ [][Next]_vars
=============================================================================
