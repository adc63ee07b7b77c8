---------------------------- MODULE MCHandshakes ----------------------------
(* The four places where a thread waits its turn, checked for lost wake-ups    *)
(* and turns that never come: the GPU baton (StepGate), the CPU fork-join pool  *)
(* (SpinPool), the slot permits of the server (Serve) and the blocks of the     *)
(* DRAM tier somebody else is loading (HostPager).  They share no state:         *)
(* `driven` says which of them a behaviour is about, and the others stay as     *)
(* they were built.                                                         *)
EXTENDS SpinPool

CONSTANTS
  Seqs, MaxTickets, c1, c2,
  r1, r2, Requests, Setups,
  t1, t2, t3, Borrowers, Blocks, NSlots, NoBlock, MaxPins, Tiers

ASSUME SeqsFinite == IsFiniteSet(Seqs)
ASSUME TicketBound == MaxTickets \in Nat

VARIABLES
  driven,
  next, serving, at, ticket,
  setup, slots, req, stats, share, straddled,
  tier, pg, state, descs, missed, arena, call, pins, exhausted

gateVars == <<next, serving, at, ticket>>
poolVars == vars
serveVars == <<setup, slots, req, stats, share, straddled>>
tierVars == <<tier, pg, state, descs, missed, arena, call, pins, exhausted>>
allVars == <<driven, gateVars, poolVars, serveVars, tierVars>>

Gate == INSTANCE StepGate
Server == INSTANCE Serve
HostTier == INSTANCE HostPager WITH Threads <- Borrowers

(* A pool without workers; one worker and two callers, so that one of them may *)
(* find the pool taken, or one caller that comes twice; two workers.           *)
MCCrews ==
  {[workers |-> 0, callers |-> {c1}, calls |-> 1],
   [workers |-> 1, callers |-> {c1, c2}, calls |-> 1],
   [workers |-> 1, callers |-> {c1}, calls |-> 2],
   [workers |-> 2, callers |-> {c1}, calls |-> 1]}

(* A stream and a buffered reply that share one slot, with a deadline, and one    *)
(* of each with a forced tool choice; one request whose deltas fall between, and   *)
(* into, the drains of the reporter.                                        *)
MCServers ==
  {[slots |-> 1, requests |-> {r1, r2}, streams |-> {r1}, forced |-> f, deadline |-> TRUE,
    drains |-> 0, deltas |-> 1] : f \in {{}, {r1, r2}}}
  \cup
  {[slots |-> 1, requests |-> {r1}, streams |-> s, forced |-> {}, deadline |-> FALSE,
    drains |-> 2, deltas |-> 2] : s \in {{}, {r1}}}

(* Callers that contend for the one slot: two that pin and fill, three that pin. *)
MCTiers ==
  {[threads |-> {t1, t2}, pins |-> 1, resident |-> 1, ops |-> {"pin", "fill"},
    inserts |-> {"Cold"}, large |-> {}],
   [threads |-> {t1, t2, t3}, pins |-> 1, resident |-> 1, ops |-> {"pin"},
    inserts |-> {"Cold"}, large |-> {}]}

AllInit ==
  /\ driven \in {"gate", "pool", "server", "tier"}
  /\ Init /\ Gate!Init /\ Server!Init /\ HostTier!Init
  /\ driven # "pool" => crew = CHOOSE k \in Crews : TRUE
  /\ driven # "server" => setup = CHOOSE k \in Setups : TRUE
  /\ driven # "tier" => tier = CHOOSE k \in Tiers : TRUE

DriveGate ==
  driven = "gate" /\ Gate!Next /\ UNCHANGED <<driven, poolVars, serveVars, tierVars>>
DrivePool ==
  driven = "pool" /\ Next /\ UNCHANGED <<driven, gateVars, serveVars, tierVars>>
DriveServer ==
  driven = "server" /\ Server!Next /\ UNCHANGED <<driven, gateVars, poolVars, tierVars>>
DriveTier ==
  driven = "tier" /\ HostTier!Next /\ UNCHANGED <<driven, gateVars, poolVars, serveVars>>
AllNext == DriveGate \/ DrivePool \/ DriveServer \/ DriveTier

(* The fairness of each component, while it is the one that is driven.        *)
AllSpec ==
  /\ AllInit /\ [][AllNext]_allVars
  /\ \A s \in Seqs : WF_gateVars(driven = "gate" /\ Gate!Proceed(s))
  /\ \A w \in Threads :
       WF_poolVars(driven = "pool" /\ w \in Workers /\ WorkerStep(w) /\ UNCHANGED crew)
  /\ \A c \in Callers : WF_poolVars(driven = "pool" /\ RunStep(c) /\ UNCHANGED crew)
  /\ WF_poolVars(driven = "pool" /\ DropStep /\ UNCHANGED crew)
  /\ \A r \in Requests :
       /\ WF_serveVars(driven = "server" /\ Server!Admit(r) /\ UNCHANGED setup)
       /\ WF_serveVars(driven = "server" /\ Server!TaskStep(r) /\ UNCHANGED setup)
       /\ WF_serveVars(driven = "server" /\ Server!Timer(r) /\ UNCHANGED setup)
  /\ \A t \in Borrowers : WF_tierVars(driven = "tier" /\ HostTier!Proceed(t) /\ UNCHANGED tier)

(* The properties of StepGate, of Serve and of HostPager.                     *)
OneBaton == Gate!OneBaton
NobodyForgotten == Gate!NobodyForgotten
RoundRobin == Gate!RoundRobin
EveryTurnComes == Gate!EveryTurnComes
NobodyElseIsBilled == Server!NobodyElseIsBilled
EveryReplyIsHonest == Server!EveryReplyIsHonest
SlotsComeBack == Server!SlotsComeBack
WaiterWakes == HostTier!WaiterWakes
=============================================================================
