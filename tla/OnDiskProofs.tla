---------------------------- MODULE OnDiskProofs ----------------------------
(***************************************************************************)
(* Proofs about what infr leaves on disk: the kernel cache, the model store    *)
(* and the model download, for any number of processes, backends, workers,     *)
(* connections, versions and commits, and a kill at any step.  The tripwire     *)
(* holds and a run that lost its device leaves no file of its own behind; a     *)
(* snapshot is of one commit and a pull takes no model away; a blob is one      *)
(* object, and what a download leaves can be continued.                        *)
(***************************************************************************)
EXTENDS MCOnDisk, TLAPS

-----------------------------------------------------------------------------
(* The kernel cache.                                                           *)
Instances == DOMAIN site.owner
Names == {Marker(i) : i \in Instances}
Places == {"new", "sweep", "read", "arm", "seed", "live", "disarm", "done"}

InstanceUpTo(n) ==
  [at : Places, todo : SUBSET Names, took : SUBSET Names, key : Nat, seed : 0 .. n,
   lost : BOOLEAN]

FileUpTo(n) == [id : 1 .. n, key : Nat, damaged : BOOLEAN]

TypeOK ==
  /\ file # NoCache => file \in FileUpTo(saves)
  /\ markers \in SUBSET Names
  /\ process \in [Processes -> {"none", "up", "exited", "killed"}]
  /\ inst \in [Instances -> InstanceUpTo(saves)]
  /\ driver \in Nat
  /\ saves \in Nat
  /\ author \in Seq(Instances) /\ Len(author) = saves

(* Nothing runs in a process that was not launched.                          *)
UnlaunchedIsNew == \A i \in Instances : process[Mine(i)] = "none" => inst[i].at = "new"

(* Nothing was seeded from before the file was read.                          *)
UnreadIsUnseeded ==
  \A i \in Instances : inst[i].at \in {"new", "sweep", "read"} => inst[i].seed = 0

(* Only files there are were accused, and by runs that were killed.            *)
AccusedIsSettled ==
  \A a \in accused :
    /\ a[1] \in 1 .. saves
    /\ \E i \in Instances : a[2] = Marker(i) /\ process[Mine(i)] = "killed"

(* The two halves of TripwireHolds.                                          *)
AccusedIsMarked ==
  \A a \in accused : file # NoCache /\ file.id = a[1] =>
    \/ a[2] \in markers
    \/ \E i \in Instances : inst[i].at = "sweep" /\ a[2] \in inst[i].took

LiveIsMarked == \A i \in Instances : Runs(i) /\ Seeded(i) => Marker(i) \in markers

CacheInv ==
  /\ TypeOK /\ UnlaunchedIsNew /\ UnreadIsUnseeded /\ AccusedIsSettled
  /\ AccusedIsMarked /\ LiveIsMarked

-----------------------------------------------------------------------------
LEMMA MarkersDiffer ==
  ASSUME NEW i \in Instances, NEW j \in Instances
  PROVE  /\ Marker(i) = Marker(j) => i = j
         /\ Marker(i)[1] = Mine(i)
         /\ Mine(i) \in Processes
         /\ Marker(i) \in Names
BY DEF Marker, Mine, Processes, Instances, Names

LEMMA InitialCache == Init => CacheInv /\ LostRunsLeaveNothing
<1> SUFFICES ASSUME Init PROVE CacheInv /\ LostRunsLeaveNothing
  OBVIOUS
<1>1. TypeOK
  BY DEF Init, TypeOK, InstanceUpTo, NewInstance, Instances, Places
<1>2. UnlaunchedIsNew /\ UnreadIsUnseeded
  BY MarkersDiffer DEF Init, UnlaunchedIsNew, UnreadIsUnseeded, NewInstance, Instances
<1>3. AccusedIsSettled /\ AccusedIsMarked /\ LiveIsMarked
  BY DEF Init, AccusedIsSettled, AccusedIsMarked, LiveIsMarked, Instances, Runs, Seeded,
         NewInstance
<1>4. LostRunsLeaveNothing
  BY DEF Init, LostRunsLeaveNothing
<1> QED
  BY <1>1, <1>2, <1>3, <1>4 DEF CacheInv

-----------------------------------------------------------------------------
(* An instance that takes a step runs, and what its step changes of it.       *)
LEMMA GoesFacts ==
  ASSUME TypeOK, NEW i \in Instances, NEW from \in Places, NEW to \in Places,
         Goes(i, from, to)
  PROVE  /\ inst[i].at = from
         /\ inst' = [inst EXCEPT ![i] = [inst[i] EXCEPT !.at = to]]
         /\ inst' \in [Instances -> InstanceUpTo(saves)]
         /\ inst'[i] = [inst[i] EXCEPT !.at = to]
         /\ \A j \in Instances : j # i => inst'[j] = inst[j]
<1>1. inst' = [inst EXCEPT ![i] = [inst[i] EXCEPT !.at = to]] /\ inst[i].at = from
  BY DEF Goes
<1>2. inst \in [Instances -> InstanceUpTo(saves)]
  BY DEF TypeOK
<1>3. [inst[i] EXCEPT !.at = to] \in InstanceUpTo(saves)
  BY <1>2 DEF InstanceUpTo
<1> QED
  BY <1>1, <1>2, <1>3

(* The state of an instance is one of its type.                              *)
LEMMA InstanceFacts ==
  ASSUME TypeOK, NEW i \in Instances
  PROVE  /\ inst[i] \in InstanceUpTo(saves) /\ inst[i].at \in Places
         /\ inst[i].todo \in SUBSET Names /\ inst[i].took \in SUBSET Names
         /\ inst[i].key \in Nat /\ inst[i].seed \in 0 .. saves /\ inst[i].lost \in BOOLEAN
BY DEF TypeOK, InstanceUpTo

LEMMA StoreFacts ==
  ASSUME TypeOK, site' = site, NEW i \in Instances, Stores(i)
  PROVE  /\ saves' = saves + 1 /\ saves' \in Nat
         /\ file' \in FileUpTo(saves') /\ file'.id = saves + 1
         /\ author' \in Seq(Instances) /\ Len(author') = saves'
         /\ author'[saves + 1] = i
         /\ \A f \in 1 .. saves : author'[f] = author[f]
BY InstanceFacts DEF TypeOK, Stores, FileUpTo

(* What no step of an instance does: it touches no process and no other        *)
(* instance, and accuses nobody.                                             *)
LEMMA StepFacts ==
  ASSUME TypeOK, NEW i \in Instances, Step(i)
  PROVE  /\ Runs(i) /\ process' = process /\ driver' = driver /\ accused' = accused
         /\ \A j \in Instances : j # i => inst'[j] = inst[j]
         /\ saves' = saves \/ saves' = saves + 1
         /\ saves' = saves => author' = author
<1>1. inst \in [Instances -> InstanceUpTo(saves)]
  BY DEF TypeOK
<1>2. CASE Open(i) \/ SweepMarker(i) \/ Read(i) \/ LoseDevice(i)
  BY <1>1, <1>2 DEF Open, SweepMarker, Read, LoseDevice, Ghosts
<1>3. CASE SweepFile(i) \/ Arm(i) \/ Seed(i) \/ Disarm(i)
  BY <1>1, <1>3 DEF SweepFile, Arm, Seed, Disarm, Goes, Ghosts
<1>4. CASE Save(i) \/ Finish(i)
  BY <1>1, <1>4 DEF Save, Finish, Stores, Goes, TypeOK
<1> QED
  BY <1>2, <1>3, <1>4 DEF Step

(* What a step does to the instance that takes it.                            *)
LEMMA OwnStepFacts ==
  ASSUME TypeOK, NEW i \in Instances
  PROVE  /\ Open(i) => inst[i].at = "new" /\ inst'[i].at = "sweep"
                       /\ inst'[i].seed = inst[i].seed /\ inst'[i].took = inst[i].took
         /\ SweepMarker(i) => inst[i].at = "sweep" /\ inst'[i].at = "sweep"
                              /\ inst'[i].seed = inst[i].seed
         /\ Read(i) => /\ inst[i].at = "read"
                       /\ \/ inst'[i].at = "arm"
                          \/ inst'[i].at = "live" /\ inst'[i].seed = inst[i].seed
         /\ LoseDevice(i) => inst[i].at = "live" /\ inst'[i].at = "live"
                             /\ inst'[i].seed = inst[i].seed
         /\ SweepFile(i) => inst[i].at = "sweep" /\ inst'[i].at = "read"
         /\ Arm(i) => inst[i].at = "arm" /\ inst'[i].at = "seed"
         /\ Seed(i) => inst[i].at = "seed" /\ inst'[i].at = "live"
         /\ Save(i) => inst[i].at = "live" /\ inst' = inst
         /\ Finish(i) => inst[i].at = "live" /\ inst'[i].at = "disarm"
         /\ Disarm(i) => inst[i].at = "disarm" /\ inst'[i].at = "done"
         /\ SweepFile(i) \/ Arm(i) \/ Seed(i) \/ Finish(i) \/ Disarm(i)
              => inst'[i].seed = inst[i].seed /\ inst'[i].lost = inst[i].lost
         /\ Open(i) \/ SweepMarker(i) \/ Read(i) => inst'[i].lost = inst[i].lost
<1>0. inst \in [Instances -> InstanceUpTo(saves)] /\ inst[i] \in InstanceUpTo(saves)
  BY DEF TypeOK
<1>1. ASSUME Open(i)
      PROVE  inst[i].at = "new" /\ inst'[i] = [inst[i] EXCEPT !.at = "sweep", !.key = driver,
                                                              !.todo = markers]
  BY <1>0, <1>1 DEF Open
<1>2. ASSUME SweepMarker(i)
      PROVE  /\ inst[i].at = "sweep" /\ inst'[i].at = "sweep"
             /\ inst'[i].seed = inst[i].seed /\ inst'[i].lost = inst[i].lost
  <2> HIDE DEF Corpse
  <2> QED
    BY <1>0, <1>2 DEF SweepMarker, InstanceUpTo
<1>3. ASSUME Read(i)
      PROVE  /\ inst[i].at = "read"
             /\ \/ inst'[i] = [inst[i] EXCEPT !.at = "arm", !.seed = file.id]
                \/ inst'[i] = [inst[i] EXCEPT !.at = "live"]
  BY <1>0, <1>3 DEF Read, Goes
<1>4. ASSUME LoseDevice(i)
      PROVE  inst[i].at = "live" /\ inst'[i] = [inst[i] EXCEPT !.lost = TRUE]
  BY <1>0, <1>4 DEF LoseDevice
<1>5. SweepFile(i) => inst[i].at = "sweep" /\ inst'[i] = [inst[i] EXCEPT !.at = "read"]
  BY GoesFacts DEF SweepFile, Places
<1>6. Arm(i) => inst[i].at = "arm" /\ inst'[i] = [inst[i] EXCEPT !.at = "seed"]
  BY GoesFacts DEF Arm, Places
<1>7. Seed(i) => inst[i].at = "seed" /\ inst'[i] = [inst[i] EXCEPT !.at = "live"]
  BY GoesFacts DEF Seed, Places
<1>8. Finish(i) => inst[i].at = "live" /\ inst'[i] = [inst[i] EXCEPT !.at = "disarm"]
  BY GoesFacts DEF Finish, Places
<1>9. Disarm(i) => inst[i].at = "disarm" /\ inst'[i] = [inst[i] EXCEPT !.at = "done"]
  BY GoesFacts DEF Disarm, Places
<1>10. Save(i) => inst[i].at = "live" /\ inst' = inst
  BY DEF Save
<1> HIDE DEF Save
<1> QED
  BY <1>0, <1>1, <1>2, <1>3, <1>4, <1>5, <1>6, <1>7, <1>8, <1>9, <1>10 DEF InstanceUpTo

LEMMA SameSite ==
  ASSUME site' = site
  PROVE  /\ Instances' = Instances /\ Names' = Names /\ Processes' = Processes
         /\ \A i : Mine(i)' = Mine(i) /\ Marker(i)' = Marker(i)
BY DEF Instances, Names, Processes, Marker, Mine

-----------------------------------------------------------------------------
(* The types.                                                               *)
LEMMA StepKeepsTypes ==
  ASSUME TypeOK, site' = site, NEW i \in Instances, Step(i)
  PROVE  TypeOK'
<1> DEFINE Typed(f) == f \in [Instances -> InstanceUpTo(saves)]
<1>0. /\ Instances' = Instances /\ Names' = Names /\ Processes' = Processes
      /\ Typed(inst) /\ Marker(i) \in Names
  BY SameSite, MarkersDiffer DEF TypeOK
<1>1. inst[i] \in InstanceUpTo(saves)
  BY <1>0
<1>2. CASE Open(i)
  <2>1. Typed(inst')
    <3>1. inst' = [inst EXCEPT ![i] = [inst[i] EXCEPT !.at = "sweep", !.key = driver,
                                                      !.todo = markers]]
      BY <1>2 DEF Open
    <3>2. [inst[i] EXCEPT !.at = "sweep", !.key = driver, !.todo = markers]
            \in InstanceUpTo(saves)
      BY <1>1 DEF InstanceUpTo, TypeOK, Places
    <3> QED
      BY <1>0, <3>1, <3>2
  <2> QED
    BY <1>0, <1>2, <2>1 DEF Open, Ghosts, TypeOK, InstanceUpTo
<1>3. CASE SweepMarker(i)
  <2>1. PICK m \in inst[i].todo :
          /\ markers' = IF Corpse(i, m) THEN markers \ {m} ELSE markers
          /\ inst' = [inst EXCEPT ![i].todo = @ \ {m},
                                  ![i].took = IF Corpse(i, m) THEN @ \cup {m} ELSE @]
    BY <1>3 DEF SweepMarker
  <2> HIDE DEF Corpse
  <2>2. inst' = [inst EXCEPT ![i] =
                   [inst[i] EXCEPT !.todo = @ \ {m},
                                   !.took = IF Corpse(i, m) THEN @ \cup {m} ELSE @]]
    BY <1>0, <2>1 DEF InstanceUpTo
  <2>3. [inst[i] EXCEPT !.todo = @ \ {m}, !.took = IF Corpse(i, m) THEN @ \cup {m} ELSE @]
          \in InstanceUpTo(saves)
    BY <1>1 DEF InstanceUpTo
  <2>4. Typed(inst')
    BY <1>0, <2>2, <2>3
  <2> QED
    BY <1>0, <1>3, <2>1, <2>4 DEF SweepMarker, Ghosts, TypeOK, InstanceUpTo
<1>4. CASE Read(i)
  <2>1. [inst[i] EXCEPT !.at = "live"] \in InstanceUpTo(saves)
    BY <1>1 DEF InstanceUpTo, Places
  <2>2. CASE Valid(i) /\ ~file.damaged
    <3>1. file.id \in 0 .. saves
      BY <2>2 DEF TypeOK, Valid, FileUpTo
    <3>2. [inst[i] EXCEPT !.at = "arm", !.seed = file.id] \in InstanceUpTo(saves)
      BY <1>1, <3>1 DEF InstanceUpTo, Places
    <3>3. inst' = [inst EXCEPT ![i] = [inst[i] EXCEPT !.at = "arm", !.seed = file.id]]
      BY <1>4, <2>2 DEF Read
    <3>4. Typed(inst')
      BY <1>0, <3>2, <3>3
    <3> QED
      BY <1>0, <1>4, <2>2, <3>4 DEF Read, Ghosts, TypeOK, InstanceUpTo
  <2>3. CASE ~(Valid(i) /\ ~file.damaged)
    <3>1. Typed(inst')
      BY <1>0, <1>4, <2>1, <2>3 DEF Read
    <3> QED
      BY <1>0, <1>4, <3>1 DEF Read, Ghosts, TypeOK, InstanceUpTo
  <2> QED
    BY <2>2, <2>3
<1>5. CASE LoseDevice(i)
  <2>1. [inst[i] EXCEPT !.lost = TRUE] \in InstanceUpTo(saves)
    BY <1>1 DEF InstanceUpTo
  <2>2. Typed(inst')
    BY <1>0, <1>5, <2>1 DEF LoseDevice
  <2> QED
    BY <1>0, <1>5, <2>2 DEF LoseDevice, Ghosts, TypeOK, InstanceUpTo
<1>6. CASE SweepFile(i) \/ Arm(i) \/ Seed(i) \/ Disarm(i)
  <2>1. Typed(inst')
    BY <1>6, GoesFacts DEF SweepFile, Arm, Seed, Disarm, Places
  <2> QED
    BY <1>0, <1>6, <2>1 DEF SweepFile, Arm, Seed, Disarm, Ghosts, TypeOK, InstanceUpTo
<1>7. CASE Save(i) \/ Finish(i)
  <2>1. Typed(inst') /\ markers' = markers
    BY <1>0, <1>7, GoesFacts DEF Save, Finish, Places
  <2>2. CASE Stores(i)
    <3>1. saves' \in Nat /\ saves' = saves + 1 /\ file' \in FileUpTo(saves')
          /\ author' \in Seq(Instances) /\ Len(author') = saves'
      BY <2>2, StoreFacts
    <3>2. saves \in Nat /\ InstanceUpTo(saves) \subseteq InstanceUpTo(saves')
      BY <3>1 DEF InstanceUpTo, TypeOK
    <3>3. inst' \in [Instances -> InstanceUpTo(saves')]
      BY <2>1, <3>2
    <3>4. process' = process /\ driver' = driver
      BY StepFacts
    <3> QED
      BY <1>0, <2>1, <3>1, <3>3, <3>4 DEF TypeOK, InstanceUpTo
  <2>3. CASE file' = NoCache /\ UNCHANGED <<saves, author>>
    BY <1>0, <2>1, <2>3, StepFacts DEF TypeOK, InstanceUpTo
  <2> QED
    BY <1>7, <2>2, <2>3 DEF Save, Finish
<1> QED
  BY <1>2, <1>3, <1>4, <1>5, <1>6, <1>7 DEF Step

LEMMA NextKeepsTypes ==
  ASSUME TypeOK, [Next]_vars
  PROVE  TypeOK'
<1>1. CASE UNCHANGED vars
  BY <1>1 DEF vars, TypeOK, InstanceUpTo, Instances, Names, Processes, Marker, Mine
<1>2. ASSUME site' = site, NEW i \in Instances, Step(i) PROVE TypeOK'
  BY <1>2, StepKeepsTypes
<1>3. ASSUME site' = site, NEW p \in Processes, Launch(p) \/ Exit(p) \/ Kill(p)
      PROVE TypeOK'
  BY <1>3, SameSite DEF Launch, Exit, Kill, Ghosts, TypeOK, InstanceUpTo
<1>4. ASSUME site' = site, Upgrade \/ Rot PROVE TypeOK'
  <2>1. Rot => file' \in FileUpTo(saves)
    BY DEF Rot, TypeOK, FileUpTo
  <2> QED
    BY <1>4, <2>1, SameSite DEF Upgrade, Rot, Ghosts, TypeOK, InstanceUpTo
<1> QED
  BY <1>1, <1>2, <1>3, <1>4 DEF Next, Instances

-----------------------------------------------------------------------------
(* The conjuncts that the tripwire rests on.                                 *)
LEMMA NextKeepsUnlaunched ==
  ASSUME TypeOK, UnlaunchedIsNew, [Next]_vars
  PROVE  UnlaunchedIsNew'
<1>1. CASE UNCHANGED vars
  BY <1>1 DEF vars, UnlaunchedIsNew, Instances, Mine
<1>2. ASSUME site' = site, NEW i \in Instances, Step(i) PROVE UnlaunchedIsNew'
  BY <1>2, SameSite, StepFacts DEF UnlaunchedIsNew, Runs
<1>3. ASSUME site' = site, NEW p \in Processes, Launch(p) \/ Exit(p) \/ Kill(p)
      PROVE UnlaunchedIsNew'
  BY <1>3, SameSite, MarkersDiffer DEF Launch, Exit, Kill, UnlaunchedIsNew, TypeOK
<1>4. ASSUME site' = site, Upgrade \/ Rot PROVE UnlaunchedIsNew'
  BY <1>4, SameSite DEF Upgrade, Rot, UnlaunchedIsNew
<1> QED
  BY <1>1, <1>2, <1>3, <1>4 DEF Next, Instances

LEMMA NextKeepsUnread ==
  ASSUME TypeOK, UnreadIsUnseeded, [Next]_vars
  PROVE  UnreadIsUnseeded'
<1>1. CASE UNCHANGED vars
  BY <1>1 DEF vars, UnreadIsUnseeded, Instances
<1>2. ASSUME site' = site, NEW i \in Instances, Step(i) PROVE UnreadIsUnseeded'
  <2>1. inst'[i].at \in {"new", "sweep", "read"} => inst'[i].seed = 0
    BY <1>2, OwnStepFacts DEF Step, UnreadIsUnseeded
  <2> QED
    BY <1>2, <2>1, SameSite, StepFacts DEF UnreadIsUnseeded
<1>3. ASSUME site' = site, inst' = inst PROVE UnreadIsUnseeded'
  BY <1>3, SameSite DEF UnreadIsUnseeded
<1> QED
  BY <1>1, <1>2, <1>3 DEF Next, Instances, Launch, Exit, Kill, Upgrade, Rot

LEMMA NextKeepsSettled ==
  ASSUME TypeOK, AccusedIsSettled, [Next]_vars
  PROVE  AccusedIsSettled'
<1>1. CASE UNCHANGED vars
  BY <1>1 DEF vars, AccusedIsSettled, Instances, Mine, Marker
<1>2. ASSUME site' = site, NEW i \in Instances, Step(i) PROVE AccusedIsSettled'
  <2>1. 1 .. saves \subseteq 1 .. saves'
    BY <1>2, StepFacts DEF TypeOK
  <2> QED
    BY <1>2, <2>1, SameSite, StepFacts DEF AccusedIsSettled
<1>3. ASSUME site' = site, NEW p \in Processes, Launch(p) \/ Exit(p)
      PROVE AccusedIsSettled'
  BY <1>3, SameSite, MarkersDiffer DEF Launch, Exit, Ghosts, AccusedIsSettled, TypeOK
<1>4. ASSUME site' = site, NEW p \in Processes, Kill(p) PROVE AccusedIsSettled'
  <2>1. process' = [process EXCEPT ![p] = "killed"] /\ saves' = saves
    BY <1>4 DEF Kill
  <2>2. \A i \in Instances : process[Mine(i)] = "killed" => process'[Mine(i)] = "killed"
    BY <2>1, MarkersDiffer DEF TypeOK
  <2>3. ASSUME NEW i \in Owned(p), Seeded(i), NEW f \in Touched(i)
        PROVE  f \in 1 .. saves /\ i \in Instances /\ process'[Mine(i)] = "killed"
    BY <2>1, <2>3, InstanceFacts DEF Owned, Seeded, Touched, Instances, TypeOK
  <2>4. ASSUME NEW a \in accused', a \notin accused
        PROVE  \E i \in Owned(p) : Seeded(i) /\ a[1] \in Touched(i) /\ a[2] = Marker(i)
    BY <1>4, <2>4 DEF Kill
  <2> QED
    BY <1>4, <2>1, <2>2, <2>3, <2>4, SameSite DEF AccusedIsSettled
<1>5. ASSUME site' = site, Upgrade \/ Rot PROVE AccusedIsSettled'
  BY <1>5, SameSite DEF Upgrade, Rot, Ghosts, AccusedIsSettled
<1> QED
  BY <1>1, <1>2, <1>3, <1>4, <1>5 DEF Next, Instances

-----------------------------------------------------------------------------
(* A run that is alive keeps its marker: a sweep takes only the markers of      *)
(* processes that are gone, and nobody else disarms it.                       *)
LEMMA NextKeepsLiveMarked ==
  ASSUME TypeOK, UnlaunchedIsNew, UnreadIsUnseeded, LiveIsMarked, [Next]_vars
  PROVE  LiveIsMarked'
<1>1. CASE UNCHANGED vars
  BY <1>1 DEF vars, LiveIsMarked, Runs, Seeded, Instances, Mine, Marker
<1>2. ASSUME site' = site, NEW i \in Instances, Step(i) PROVE LiveIsMarked'
  <2>0. SUFFICES ASSUME NEW j \in Instances, Runs(j), Seeded(j)' PROVE Marker(j) \in markers'
    BY <1>2, SameSite, StepFacts DEF LiveIsMarked, Runs
  <2>1. CASE Arm(i)
    <3>1. j # i => Seeded(j)
      BY <1>2, <2>0, StepFacts DEF Seeded
    <3> QED
      BY <2>0, <2>1, <3>1 DEF Arm, LiveIsMarked
  <2>2. CASE ~Arm(i)
    <3>1. Seeded(j)
      <4>1. CASE j # i
        BY <1>2, <2>0, <4>1, StepFacts DEF Seeded
      <4>2. CASE j = i
        <5>1. inst[i].at # "new" /\ inst[i].at # "sweep" /\ inst[i].at # "read"
          BY <1>2, <2>0, <4>2, OwnStepFacts DEF Step, Seeded, UnreadIsUnseeded
        <5> QED
          BY <1>2, <2>0, <2>2, <4>2, <5>1, OwnStepFacts DEF Step, Seeded
      <4> QED
        BY <4>1, <4>2
    <3>2. Marker(j) \in markers
      BY <2>0, <3>1 DEF LiveIsMarked
    <3>3. CASE SweepMarker(i)
      BY <2>0, <3>2, <3>3, MarkersDiffer DEF SweepMarker, Corpse, Runs
    <3>4. CASE Disarm(i)
      <4>1. j # i
        BY <2>0, <3>1, <3>4, OwnStepFacts DEF Seeded
      <4> QED
        BY <3>2, <3>4, <4>1, MarkersDiffer DEF Disarm
    <3>5. CASE ~SweepMarker(i) /\ ~Disarm(i)
      BY <1>2, <2>2, <3>2, <3>5
         DEF Step, Open, SweepFile, Read, Seed, Save, LoseDevice, Finish, Ghosts
    <3> QED
      BY <3>3, <3>4, <3>5
  <2> QED
    BY <2>1, <2>2
<1>3. ASSUME site' = site, NEW p \in Processes, Launch(p) \/ Exit(p) \/ Kill(p)
      PROVE LiveIsMarked'
  <2>1. ASSUME NEW i \in Instances, Runs(i)', Seeded(i) PROVE Runs(i)
    BY <1>3, <2>1, SameSite, MarkersDiffer
       DEF Launch, Exit, Kill, Runs, Seeded, UnlaunchedIsNew, TypeOK
  <2>2. inst' = inst /\ markers' = markers
    BY <1>3 DEF Launch, Exit, Kill
  <2> QED
    BY <1>3, <2>1, <2>2, SameSite DEF LiveIsMarked, Seeded
<1>4. ASSUME site' = site, Upgrade \/ Rot PROVE LiveIsMarked'
  BY <1>4, SameSite DEF Upgrade, Rot, Runs, Seeded, LiveIsMarked
<1> QED
  BY <1>1, <1>2, <1>3, <1>4 DEF Next, Instances

-----------------------------------------------------------------------------
(* The file of a run that died keeps its marker: what would take the marker is  *)
(* a sweep, which then owes the file its end, or that run itself, which is dead. *)
LEMMA StepKeepsAccusedMarked ==
  ASSUME TypeOK, AccusedIsSettled, AccusedIsMarked, site' = site,
         NEW i \in Instances, Step(i)
  PROVE  AccusedIsMarked'
<1> SUFFICES ASSUME NEW a \in accused, file' # NoCache, file'.id = a[1]
             PROVE  \/ a[2] \in markers'
                    \/ \E j \in Instances : inst'[j].at = "sweep" /\ a[2] \in inst'[j].took
  BY SameSite, StepFacts DEF AccusedIsMarked
<1>1. a[1] \in 1 .. saves
  BY DEF AccusedIsSettled
<1>2. PICK k \in Instances : a[2] = Marker(k) /\ process[Mine(k)] = "killed"
  BY DEF AccusedIsSettled
<1>3. k # i
  BY <1>2, StepFacts DEF Runs
<1>4. ~Stores(i)
  BY <1>1, StoreFacts DEF TypeOK
<1>5. file # NoCache /\ file.id = a[1]
  <2>1. CASE SweepFile(i) \/ Read(i) \/ Finish(i)
    BY <1>4, <2>1 DEF SweepFile, Read, Finish
  <2>2. CASE ~(SweepFile(i) \/ Read(i) \/ Finish(i))
    BY <1>4, <2>2 DEF Step, Open, SweepMarker, Arm, Seed, Save, LoseDevice, Disarm
  <2> QED
    BY <2>1, <2>2
<1>6. CASE SweepMarker(i)
  <2>1. PICK m \in inst[i].todo :
          /\ markers' = IF Corpse(i, m) THEN markers \ {m} ELSE markers
          /\ inst' = [inst EXCEPT ![i].todo = @ \ {m},
                                  ![i].took = IF Corpse(i, m) THEN @ \cup {m} ELSE @]
    BY <1>6 DEF SweepMarker
  <2> HIDE DEF Corpse
  <2>2. /\ inst'[i].took = IF Corpse(i, m) THEN inst[i].took \cup {m} ELSE inst[i].took
        /\ inst'[i].at = "sweep"
    BY <1>6, <2>1, OwnStepFacts DEF TypeOK, InstanceUpTo
  <2>3. CASE a[2] \in markers
    <3>1. CASE Corpse(i, m)
      <4>1. a[2] \in markers' \/ a[2] = m
        BY <2>1, <2>3
      <4>2. m \in inst'[i].took
        BY <2>2, <3>1
      <4> QED
        BY <2>2, <4>1, <4>2
    <3>2. CASE ~Corpse(i, m)
      BY <2>1, <2>3, <3>2
    <3> QED
      BY <3>1, <3>2
  <2>4. CASE a[2] \notin markers
    BY <1>5, <2>2, <2>4, StepFacts DEF AccusedIsMarked
  <2> QED
    BY <2>3, <2>4
<1>7. CASE SweepFile(i)
  <2>1. inst[i].took = {} /\ markers' = markers
    BY <1>7 DEF SweepFile
  <2> QED
    BY <1>5, <2>1, StepFacts DEF AccusedIsMarked
<1>8. CASE ~SweepMarker(i) /\ ~SweepFile(i)
  <2>1. a[2] \in markers => a[2] \in markers'
    BY <1>2, <1>3, <1>8, MarkersDiffer
       DEF Step, Open, Read, Arm, Seed, Save, LoseDevice, Finish, Disarm
  <2>2. inst[i].at # "sweep"
    BY <1>8, OwnStepFacts DEF Step
  <2> QED
    BY <1>5, <2>1, <2>2, StepFacts DEF AccusedIsMarked
<1> QED
  BY <1>6, <1>7, <1>8

LEMMA NextKeepsAccusedMarked ==
  ASSUME TypeOK, AccusedIsSettled, AccusedIsMarked, LiveIsMarked, [Next]_vars
  PROVE  AccusedIsMarked'
<1>1. CASE UNCHANGED vars
  BY <1>1 DEF vars, AccusedIsMarked, Instances
<1>2. ASSUME site' = site, NEW i \in Instances, Step(i) PROVE AccusedIsMarked'
  BY <1>2, StepKeepsAccusedMarked
<1>3. ASSUME site' = site, NEW p \in Processes, Launch(p) \/ Exit(p)
      PROVE AccusedIsMarked'
  BY <1>3, SameSite DEF Launch, Exit, Ghosts, AccusedIsMarked
<1>4. ASSUME site' = site, NEW p \in Processes, Kill(p) PROVE AccusedIsMarked'
  <2>1. ASSUME NEW a \in accused', a \notin accused PROVE a[2] \in markers
    BY <1>4, <2>1 DEF Kill, Owned, LiveIsMarked, Runs, Mine, Instances
  <2> QED
    BY <1>4, <2>1, SameSite DEF Kill, AccusedIsMarked
<1>5. ASSUME site' = site, Upgrade \/ Rot PROVE AccusedIsMarked'
  <2>1. file' # NoCache => file # NoCache /\ file'.id = file.id
    BY <1>5 DEF Upgrade, Rot, TypeOK, FileUpTo
  <2> QED
    BY <1>5, <2>1, SameSite DEF Upgrade, Rot, Ghosts, AccusedIsMarked
<1> QED
  BY <1>1, <1>2, <1>3, <1>4, <1>5 DEF Next, Instances

-----------------------------------------------------------------------------
(* A run that lost its device leaves no file of its own: whoever writes later   *)
(* is another run, and while it could still write it is not over.              *)
LEMMA NextKeepsNothing ==
  ASSUME TypeOK, LostRunsLeaveNothing, [Next]_vars
  PROVE  LostRunsLeaveNothing'
<1>1. CASE UNCHANGED vars
  BY <1>1 DEF vars, LostRunsLeaveNothing
<1>2. ASSUME site' = site, NEW i \in Instances, Step(i) PROVE LostRunsLeaveNothing'
  <2>0. SUFFICES ASSUME NEW j \in Instances, inst'[j].lost,
                        inst'[j].at \in {"disarm", "done"}, file' # NoCache
                 PROVE  author'[file'.id] # j
    BY <1>2, SameSite, StepFacts, NextKeepsTypes
       DEF LostRunsLeaveNothing, Next, Instances, TypeOK
  <2>1. CASE Stores(i)
    <3>1. author'[file'.id] = i
      BY <1>2, <2>1, StoreFacts
    <3>2. Save(i) \/ Finish(i)
      <4>1. saves' # saves
        BY <2>1 DEF TypeOK, Stores
      <4> QED
        BY <1>2, <4>1
           DEF Step, Open, SweepMarker, SweepFile, Read, Arm, Seed, LoseDevice, Disarm
    <3>3. i # j
      <4>1. inst'[i].at \in {"live", "disarm"} /\ (inst'[i].at = "live" \/ Finish(i))
        BY <3>2, OwnStepFacts
      <4>2. Finish(i) => ~inst[i].lost /\ ~inst'[i].lost
        BY <2>0, <2>1, <3>2, OwnStepFacts, StoreFacts DEF Finish, TypeOK
      <4> QED
        BY <2>0, <4>1, <4>2
    <3> QED
      BY <3>1, <3>3
  <2>2. CASE ~Stores(i)
    <3>1. author' = author /\ file # NoCache /\ file' = file
      BY <1>2, <2>0, <2>2
         DEF Step, Open, SweepMarker, SweepFile, Read, Arm, Seed, Save, LoseDevice, Finish,
             Disarm, Ghosts
    <3>2. inst[j].lost /\ inst[j].at \in {"disarm", "done"}
      <4>1. CASE j # i
        BY <1>2, <2>0, <4>1, StepFacts
      <4>2. CASE j = i
        <5>1. Disarm(i)
          BY <1>2, <2>0, <2>2, <3>1, <4>2, OwnStepFacts DEF Step, Save, Finish
        <5> QED
          BY <2>0, <4>2, <5>1, OwnStepFacts
      <4> QED
        BY <4>1, <4>2
    <3> QED
      BY <3>1, <3>2 DEF LostRunsLeaveNothing, Instances, TypeOK
  <2> QED
    BY <2>1, <2>2
<1>3. ASSUME site' = site, UNCHANGED <<inst, author>>,
             file' # NoCache => file # NoCache /\ file'.id = file.id
      PROVE LostRunsLeaveNothing'
  BY <1>3 DEF LostRunsLeaveNothing
<1>4. Rot => file # NoCache /\ file'.id = file.id
  BY DEF Rot, TypeOK, FileUpTo
<1> QED
  BY <1>1, <1>2, <1>3, <1>4 DEF Next, Instances, Launch, Exit, Kill, Upgrade, Rot, Ghosts

-----------------------------------------------------------------------------
(* The invariants that carry the proofs hold of every behaviour.              *)
LEMMA CacheIsSound == Spec => []CacheInv
<1>1. Init => CacheInv
  BY InitialCache
<1>2. CacheInv /\ [Next]_vars => CacheInv'
  BY NextKeepsTypes, NextKeepsUnlaunched, NextKeepsUnread, NextKeepsSettled,
     NextKeepsLiveMarked, NextKeepsAccusedMarked DEF CacheInv
<1> QED
  BY <1>1, <1>2, PTL DEF Spec

(* A file that a killed run was seeded from, or wrote after it was seeded, is   *)
(* marked or about to be deleted as long as it is on disk, and a live run has    *)
(* its marker, however many processes open, save, sweep, exit and are killed in  *)
(* whatever order (kernel_cache.rs, THE TRIPWIRE).                             *)
THEOREM TripwireAlwaysHolds == Spec => []TripwireHolds
<1>1. CacheInv => TripwireHolds
  <2>1. TypeOK => DOMAIN inst = Instances
    BY DEF TypeOK
  <2> QED
    BY <2>1 DEF CacheInv, AccusedIsMarked, LiveIsMarked, TripwireHolds
<1> QED
  BY <1>1, CacheIsSound, PTL

(* A run that lost its device leaves no file of its own on disk once it has      *)
(* finished, whatever it and others saved before or after (pcache.rs, finish).  *)
THEOREM PoisonIsNotPassedOn == Spec => []LostRunsLeaveNothing
<1>1. Init => LostRunsLeaveNothing
  BY InitialCache
<1>2. CacheInv /\ LostRunsLeaveNothing /\ [Next]_vars => LostRunsLeaveNothing'
  BY NextKeepsNothing DEF CacheInv
<1> QED
  BY <1>1, <1>2, CacheIsSound, PTL DEF Spec

-----------------------------------------------------------------------------
(* The model store: what a pull, its workers and the disk are made of.            *)
CallFields ==
  {"at", "sel", "latest", "commit", "files", "cursor", "stop", "signal", "failed", "quiet",
   "alone", "had"}
PullPlaces == {"idle", "info", "ref", "fetch", "companion", "extra", "ok", "err"}
JobPlaces == {"off", "claim", "head", "fetch", "unlink", "link"}
JobRecords ==
  [at : JobPlaces, file : Store!Files \cup {""}, want : Nat, got : Nat]

(* A process that fetches fetches the shards of one model into one commit.     *)
CallIsOfOneModel(r) ==
  /\ DOMAIN r = CallFields
  /\ r.at \in PullPlaces
  /\ r.commit \in Store!Commits \cup {0}
  /\ r.cursor \in Nat \ {0}
  /\ r.files \in Seq(Store!Files \ {"companion"})
  /\ r.at \in {"ref", "fetch", "companion", "extra"} => r.commit \in Store!Commits
  /\ r.at \in {"ref", "fetch"} =>
       \E m \in DOMAIN setup.models : r.files = setup.models[m]

(* A worker that holds a file is one of a process that is fetching, and the     *)
(* companion is fetched by one worker alone.                                 *)
IsAtWork(r, x, w) ==
  x.at # "off" =>
    /\ r.at \in {"fetch", "extra"}
    /\ r.at = "extra" => w = 1 /\ x.at # "claim" /\ x.file = "companion"
    /\ r.at = "fetch" /\ x.at # "claim" => \E i \in DOMAIN r.files : x.file = r.files[i]

PullTypes ==
  /\ setup \in Setups
  /\ main \in Store!Commits
  /\ link \in [Store!Commits -> [Store!Files -> Nat]]
  /\ stored \subseteq Nat \ {0}
  /\ proc = [p \in Procs |-> proc[p]] /\ \A p \in Procs : CallIsOfOneModel(proc[p])
  /\ job \in [Procs -> [Store!Jobs -> JobRecords]]
  /\ \A p \in Procs : \A w \in Store!Jobs : IsAtWork(proc[p], job[p][w], w)

-----------------------------------------------------------------------------
LEMMA SetupFacts ==
  ASSUME setup \in Setups
  PROVE  /\ Store!Commits = DOMAIN setup.tree /\ Store!Commits \subseteq Nat \ {0}
         /\ 1 \in Store!Commits /\ 1 \in Store!Jobs
         /\ setup.jobs \in Nat \ {0} /\ setup.procs \subseteq Procs
         /\ \A c \in Store!Commits : setup.tree[c] \in [Store!Files -> Nat]
         /\ \A m \in DOMAIN setup.models : setup.models[m] \in Seq(Store!Files \ {"companion"})
<1>1. /\ setup.tree \in Seq([DOMAIN setup.tree[1] -> Nat]) /\ 1 \in DOMAIN setup.tree
      /\ setup.jobs \in Nat \ {0} /\ setup.procs \subseteq Procs
      /\ \A m \in DOMAIN setup.models : setup.models[m] \in Seq(DOMAIN setup.tree[1] \ {"companion"})
  BY KnownSetups
<1>2. DOMAIN setup.tree = 1 .. Len(setup.tree) /\ Len(setup.tree) \in Nat
  BY <1>1
<1>3. \A c \in DOMAIN setup.tree : setup.tree[c] \in [DOMAIN setup.tree[1] -> Nat]
  BY <1>1
<1> QED
  BY <1>1, <1>2, <1>3 DEF Store!Commits, Store!Files, Store!Jobs

LEMMA PullInitTypes == Store!Init => PullTypes
<1> SUFFICES ASSUME Store!Init PROVE PullTypes
  OBVIOUS
<1>1. setup \in Setups /\ main = 1 /\ stored = {} /\ proc = [p \in Procs |-> Store!Idle]
      /\ job = [p \in Procs |-> [w \in Store!Jobs |-> Store!Off]]
      /\ link = [c \in Store!Commits |-> [f \in Store!Files |-> 0]]
  BY DEF Store!Init, Store!None
<1>2. Store!Off \in JobRecords /\ Store!Off.at = "off"
  BY DEF Store!Off, JobRecords, JobPlaces, Store!None
<1>3. CallIsOfOneModel(Store!Idle)
  <2>1. << >> \in Seq(Store!Files \ {"companion"})
    OBVIOUS
  <2> QED
    BY <2>1 DEF CallIsOfOneModel, Store!Idle, CallFields, PullPlaces, Store!None
<1> QED
  BY <1>1, <1>2, <1>3, SetupFacts DEF PullTypes, IsAtWork

LEMMA PullTypesKept ==
  ASSUME PullTypes, setup' = setup, main' \in Store!Commits, NEW p \in Procs, NEW r, NEW ws,
         proc' = [proc EXCEPT ![p] = r], CallIsOfOneModel(r),
         job' = [job EXCEPT ![p] = ws], ws \in [Store!Jobs -> JobRecords],
         \A w \in Store!Jobs : IsAtWork(r, ws[w], w),
         link' \in [Store!Commits -> [Store!Files -> Nat]], stored' \subseteq Nat \ {0}
  PROVE  PullTypes'
<1>1. Store!Commits' = Store!Commits /\ Store!Files' = Store!Files /\ Store!Jobs' = Store!Jobs
      /\ JobRecords' = JobRecords
  BY DEF Store!Commits, Store!Files, Store!Jobs, JobRecords
<1>2. proc' = [q \in Procs |-> proc'[q]] /\ proc'[p] = r /\ \A q \in Procs \ {p} : proc'[q] = proc[q]
  BY DEF PullTypes
<1>3. job' \in [Procs -> [Store!Jobs -> JobRecords]] /\ job'[p] = ws
      /\ \A q \in Procs \ {p} : job'[q] = job[q]
  BY DEF PullTypes
<1>4. ASSUME NEW q \in Procs PROVE CallIsOfOneModel(proc[q])' /\ CallIsOfOneModel(proc'[q])
  <2>1. CallIsOfOneModel(proc'[q])
    BY <1>2 DEF PullTypes
  <2> QED
    BY <1>1, <2>1 DEF CallIsOfOneModel
<1>5. ASSUME NEW q \in Procs, NEW w \in Store!Jobs PROVE IsAtWork(proc[q], job[q][w], w)'
  <2>1. IsAtWork(proc'[q], job'[q][w], w)
    BY <1>2, <1>3 DEF PullTypes
  <2> QED
    BY <2>1 DEF IsAtWork
<1> QED
  BY <1>1, <1>2, <1>3, <1>4, <1>5 DEF PullTypes

(* What a step of the process itself keeps.                                   *)
LEMMA PullTypesKeptByProc ==
  ASSUME PullTypes, setup' = setup, main' = main, NEW p \in Procs, NEW r,
         proc' = [proc EXCEPT ![p] = r], CallIsOfOneModel(r), job' = job,
         \A w \in Store!Jobs : IsAtWork(r, job[p][w], w), link' = link, stored' = stored
  PROVE  PullTypes'
<1>1. job' = [job EXCEPT ![p] = job[p]] /\ job[p] \in [Store!Jobs -> JobRecords]
  BY DEF PullTypes
<1> QED
  BY <1>1, PullTypesKept DEF PullTypes

(* What a step of a worker keeps.                                            *)
LEMMA PullTypesKeptByWorker ==
  ASSUME PullTypes, setup' = setup, main' = main, NEW p \in Procs, NEW r,
         NEW w \in Store!Jobs, NEW x \in JobRecords,
         proc' = [proc EXCEPT ![p] = r], CallIsOfOneModel(r),
         job' = [job EXCEPT ![p][w] = x], IsAtWork(r, x, w),
         \A v \in Store!Jobs \ {w} : IsAtWork(r, job[p][v], v),
         link' \in [Store!Commits -> [Store!Files -> Nat]], stored' \subseteq Nat \ {0}
  PROVE  PullTypes'
<1> DEFINE ws == [job[p] EXCEPT ![w] = x]
<1>1. job[p] \in [Store!Jobs -> JobRecords]
  BY DEF PullTypes
<1>2. ws \in [Store!Jobs -> JobRecords] /\ ws[w] = x /\ \A v \in Store!Jobs \ {w} : ws[v] = job[p][v]
  BY <1>1
<1>3. job' = [job EXCEPT ![p] = ws]
  OBVIOUS
<1>4. main' \in Store!Commits
  BY DEF PullTypes
<1>5. \A v \in Store!Jobs : IsAtWork(r, ws[v], v)
  BY <1>2
<1> HIDE DEF ws
<1> QED
  BY <1>2, <1>3, <1>4, <1>5, PullTypesKept

-----------------------------------------------------------------------------
LEMMA PicksAreModels ==
  ASSUME NEW names, NEW sel
  PROVE  Store!Picks(names, sel) \subseteq DOMAIN setup.models
BY DEF Store!Picks

LEMMA OffersArePicks ==
  ASSUME NEW sel
  PROVE  /\ Store!Offers(sel) \subseteq Store!Picks(Store!Listed(main), sel)
         /\ Store!Offers(sel) = {} => Store!Picks(Store!Listed(main), sel) = {}
BY DEF Store!Offers

AnswerOf(r, c, m) ==
  [r EXCEPT !.at = "ok", !.commit = c, !.files = setup.models[m]]

LEMMA CachedFacts ==
  ASSUME NEW p, NEW r, Store!Cached(p, r)
  PROVE  \E c \in Store!Commits, m \in DOMAIN setup.models :
           proc' = [proc EXCEPT ![p] = AnswerOf(r, c, m)]
<1>1. PICK c \in Store!Resolutions(r.sel) \ {Store!None} :
        \E m \in Store!Answers(c, r.sel) :
          Store!Becomes(p, [r EXCEPT !.at = "ok", !.commit = c, !.files = Store!Shards(m)])
  BY DEF Store!Cached
<1>2. PICK m \in Store!Answers(c, r.sel) :
        Store!Becomes(p, [r EXCEPT !.at = "ok", !.commit = c, !.files = Store!Shards(m)])
  BY <1>1
<1>3. c \in Store!Commits
  BY DEF Store!Resolutions, Store!Searched
<1>4. m \in DOMAIN setup.models
  BY PicksAreModels DEF Store!Answers
<1> QED
  BY <1>2, <1>3, <1>4 DEF Store!Becomes, Store!Shards, AnswerOf

(* A call that ends as an earlier one found it.                                *)
LEMMA CachedKeepsTypes ==
  ASSUME PullTypes, setup' = setup, main' = main, NEW p \in Procs, NEW r,
         DOMAIN r = CallFields, r.cursor \in Nat \ {0}, Store!Cached(p, r),
         link' = link, stored' = stored, job' = job,
         proc[p].at \in Store!Ended \cup {"info"}
  PROVE  PullTypes'
<1>1. PICK c \in Store!Commits, m \in DOMAIN setup.models :
        proc' = [proc EXCEPT ![p] = AnswerOf(r, c, m)]
  BY CachedFacts
<1> DEFINE q == AnswerOf(r, c, m)
<1>2. DOMAIN q = CallFields /\ q.at = "ok" /\ q.commit = c /\ q.files = setup.models[m]
      /\ q.cursor = r.cursor
  BY DEF CallFields, AnswerOf
<1>3. setup.models[m] \in Seq(Store!Files \ {"companion"})
  BY SetupFacts DEF PullTypes
<1>4. CallIsOfOneModel(q)
  BY <1>2, <1>3 DEF CallIsOfOneModel, PullPlaces
<1>5. \A w \in Store!Jobs : IsAtWork(q, job[p][w], w)
  BY DEF PullTypes, IsAtWork, Store!Ended
<1> QED
  BY <1>1, <1>4, <1>5, PullTypesKeptByProc

LEMMA CallKeepsTypes ==
  ASSUME PullTypes, setup' = setup, main' = main, NEW p \in Procs, Store!Call(p)
  PROVE  PullTypes'
<1>1. PICK sel \in setup.sels, latest \in BOOLEAN, quiet \in BOOLEAN :
        LET r == [Store!Idle EXCEPT !.sel = sel, !.latest = latest, !.quiet = quiet,
                             !.alone = Store!Busy = {}, !.had = Store!Resolvable]
        IN  \/ ~latest /\ Store!Cached(p, r)
            \/ /\ latest \/ Store!None \in Store!Resolutions(sel)
               /\ proc' = [q \in Procs |->
                   IF q = p THEN [r EXCEPT !.at = "info"]
                   ELSE IF q \in Store!Busy THEN [proc[q] EXCEPT !.alone = FALSE] ELSE proc[q]]
  BY DEF Store!Call
<1>2. proc[p].at \in Store!Ended /\ link' = link /\ stored' = stored /\ job' = job
  BY DEF Store!Call, Store!disk
<1> DEFINE r == [Store!Idle EXCEPT !.sel = sel, !.latest = latest, !.quiet = quiet,
                            !.alone = Store!Busy = {}, !.had = Store!Resolvable]
<1>3. DOMAIN r = CallFields /\ r.cursor = 1 /\ r.at = "idle" /\ r.commit = 0 /\ r.files = << >>
  BY DEF Store!Idle, CallFields, Store!None
<1>4. CASE ~latest /\ Store!Cached(p, r)
  <2> HIDE DEF r
  <2> QED
    BY <1>2, <1>3, <1>4, CachedKeepsTypes
<1>5. CASE proc' = [q \in Procs |->
                   IF q = p THEN [r EXCEPT !.at = "info"]
                   ELSE IF q \in Store!Busy THEN [proc[q] EXCEPT !.alone = FALSE] ELSE proc[q]]
  <2> HIDE DEF r
  <2>1. proc'[p] = [r EXCEPT !.at = "info"] /\ proc' = [q \in Procs |-> proc'[q]]
    BY <1>5
  <2>2. << >> \in Seq(Store!Files \ {"companion"})
    OBVIOUS
  <2>3. CallIsOfOneModel(proc'[p])
    <3>1. /\ DOMAIN proc'[p] = CallFields /\ proc'[p].at = "info" /\ proc'[p].cursor = 1
          /\ proc'[p].commit = 0 /\ proc'[p].files = << >>
      BY <1>3, <2>1 DEF CallFields
    <3> QED
      BY <2>2, <3>1 DEF CallIsOfOneModel, PullPlaces
  <2>4. ASSUME NEW q \in Procs \ {p} PROVE CallIsOfOneModel(proc'[q])
                                         /\ proc'[q].at = proc[q].at /\ proc'[q].files = proc[q].files
    <3>1. proc'[q] = [proc[q] EXCEPT !.alone = FALSE] \/ proc'[q] = proc[q]
      BY <1>5
    <3>2. CallIsOfOneModel(proc[q])
      BY DEF PullTypes
    <3> QED
      BY <3>1, <3>2 DEF CallIsOfOneModel, CallFields
  <2>5. \A w \in Store!Jobs : job[p][w].at = "off"
    BY <1>2 DEF PullTypes, IsAtWork, Store!Ended
  <2>6. Store!Commits' = Store!Commits /\ Store!Files' = Store!Files /\ Store!Jobs' = Store!Jobs
        /\ JobRecords' = JobRecords
    BY DEF Store!Commits, Store!Files, Store!Jobs, JobRecords
  <2>7. ASSUME NEW q \in Procs PROVE CallIsOfOneModel(proc[q])'
    <3>1. CallIsOfOneModel(proc'[q])
      BY <2>3, <2>4
    <3> QED
      BY <2>6, <3>1 DEF CallIsOfOneModel
  <2>8. ASSUME NEW q \in Procs, NEW w \in Store!Jobs PROVE IsAtWork(proc[q], job[q][w], w)'
    <3>1. CASE q = p
      BY <1>2, <2>5, <3>1 DEF IsAtWork
    <3>2. CASE q # p
      <4>1. IsAtWork(proc[q], job[q][w], w)
        BY DEF PullTypes
      <4>2. proc'[q].at = proc[q].at /\ proc'[q].files = proc[q].files
        BY <2>4, <3>2
      <4> QED
        BY <1>2, <4>1, <4>2 DEF IsAtWork
    <3> QED
      BY <3>1, <3>2
  <2> QED
    BY <1>2, <2>1, <2>6, <2>7, <2>8 DEF PullTypes
<1> QED
  BY <1>1, <1>4, <1>5

LEMMA ProcStepsKeepTypes ==
  ASSUME PullTypes, setup' = setup, main' = main, NEW p \in Procs,
         \/ Store!InfoFails(p) \/ Store!Info(p) \/ Store!WriteRef(p) \/ Store!Join(p)
         \/ Store!Companions(p) \/ Store!Signal(p) \/ Store!Killed(p)
  PROVE  PullTypes'
<1>1. CallIsOfOneModel(proc[p])
      /\ link \in [Store!Commits -> [Store!Files -> Nat]] /\ stored \subseteq Nat \ {0}
      /\ job[p] \in [Store!Jobs -> JobRecords]
      /\ \A w \in Store!Jobs : IsAtWork(proc[p], job[p][w], w)
  BY DEF PullTypes
<1>2. ASSUME NEW r, Store!Becomes(p, r), CallIsOfOneModel(r), job' = job, link' = link,
             stored' = stored, r.at = proc[p].at, r.files = proc[p].files
      PROVE  PullTypes'
  <2>1. \A w \in Store!Jobs : IsAtWork(r, job[p][w], w)
    BY <1>1, <1>2 DEF IsAtWork
  <2> QED
    BY <1>2, <2>1, PullTypesKeptByProc DEF Store!Becomes
<1>3. ASSUME NEW r, Store!Becomes(p, r), CallIsOfOneModel(r), job' = job, link' = link,
             stored' = stored, \A w \in Store!Jobs : job[p][w].at = "off"
      PROVE  PullTypes'
  <2>1. \A w \in Store!Jobs : IsAtWork(r, job[p][w], w)
    BY <1>3 DEF IsAtWork
  <2> QED
    BY <1>3, <2>1, PullTypesKeptByProc DEF Store!Becomes
<1>4. proc[p].at \notin {"fetch", "extra"} => \A w \in Store!Jobs : job[p][w].at = "off"
  BY <1>1 DEF IsAtWork
<1>5. ASSUME NEW at \in {"ok", "err"} PROVE CallIsOfOneModel([proc[p] EXCEPT !.at = at])
  BY <1>1 DEF CallIsOfOneModel, CallFields, PullPlaces
<1>6. ASSUME Store!InfoFails(p) PROVE PullTypes'
  <2>1. job' = job /\ link' = link /\ stored' = stored /\ proc[p].at = "info"
    BY <1>6 DEF Store!InfoFails, Store!disk
  <2>2. CASE Store!Becomes(p, [proc[p] EXCEPT !.at = "err"])
    BY <1>3, <1>4, <1>5, <2>1, <2>2
  <2>3. CASE Store!Cached(p, proc[p])
    <3>1. DOMAIN proc[p] = CallFields /\ proc[p].cursor \in Nat \ {0}
      BY <1>1 DEF CallIsOfOneModel
    <3> QED
      BY <2>1, <2>3, <3>1, CachedKeepsTypes
  <2> QED
    BY <1>6, <2>2, <2>3 DEF Store!InfoFails
<1>7. ASSUME Store!Info(p) PROVE PullTypes'
  <2>1. job' = job /\ link' = link /\ stored' = stored /\ proc[p].at = "info"
    BY <1>7 DEF Store!Info, Store!disk
  <2>2. CASE Store!Becomes(p, [proc[p] EXCEPT !.at = "err"])
    BY <1>3, <1>4, <1>5, <2>1, <2>2
  <2>3. ASSUME NEW m \in Store!Picks(Store!Listed(main), proc[p].sel), NEW at \in {"companion", "ref"},
               Store!Becomes(p, [proc[p] EXCEPT !.at = at, !.commit = main,
                                                !.files = Store!Shards(m)])
        PROVE  PullTypes'
    <3> DEFINE r == [proc[p] EXCEPT !.at = at, !.commit = main, !.files = Store!Shards(m)]
    <3>1. /\ DOMAIN r = CallFields /\ r.at = at /\ r.commit = main /\ r.files = setup.models[m]
          /\ r.cursor = proc[p].cursor
      BY <1>1 DEF CallFields, CallIsOfOneModel, Store!Shards
    <3>2. m \in DOMAIN setup.models /\ setup.models[m] \in Seq(Store!Files \ {"companion"})
      BY PicksAreModels, SetupFacts DEF PullTypes
    <3>3. CallIsOfOneModel(r)
      BY <1>1, <3>1, <3>2 DEF CallIsOfOneModel, PullPlaces, PullTypes
    <3> QED
      BY <1>3, <1>4, <2>1, <2>3, <3>3
  <2>4. \A m : (IF proc[p].latest /\ Store!Complete(main, m) THEN "companion" ELSE "ref")
                 \in {"companion", "ref"}
    OBVIOUS
  <2> QED
    BY <1>7, <2>2, <2>3, <2>4, OffersArePicks DEF Store!Info
<1>8. ASSUME Store!WriteRef(p) PROVE PullTypes'
  <2> DEFINE r == [proc[p] EXCEPT !.at = "fetch"]
  <2> DEFINE ws == [w \in Store!Jobs |-> IF w <= Len(proc[p].files)
                                         THEN [Store!Off EXCEPT !.at = "claim"] ELSE Store!Off]
  <2>1. /\ proc[p].at = "ref" /\ proc' = [proc EXCEPT ![p] = r] /\ job' = [job EXCEPT ![p] = ws]
        /\ link' = link /\ stored' = stored
    BY <1>8 DEF Store!WriteRef, Store!Goes, Store!Becomes
  <2>2. CallIsOfOneModel(r) /\ r.at = "fetch"
    BY <1>1, <2>1 DEF CallIsOfOneModel, CallFields, PullPlaces
  <2>3. \A w \in Store!Jobs : ws[w] \in JobRecords /\ ws[w].at \in {"claim", "off"}
    <3> DEFINE x == [Store!Off EXCEPT !.at = "claim"]
    <3>1. Store!Off \in JobRecords /\ Store!Off.at = "off"
      BY DEF Store!Off, JobRecords, JobPlaces, Store!None
    <3>2. x \in JobRecords /\ x.at = "claim"
      BY DEF Store!Off, JobRecords, JobPlaces, Store!None
    <3>3. \A w \in Store!Jobs : ws[w] = x \/ ws[w] = Store!Off
      OBVIOUS
    <3> HIDE DEF x, ws
    <3> QED
      BY <3>1, <3>2, <3>3
  <2>4. ws \in [Store!Jobs -> JobRecords] /\ \A w \in Store!Jobs : IsAtWork(r, ws[w], w)
    BY <2>2, <2>3 DEF IsAtWork
  <2>5. main' \in Store!Commits
    BY DEF PullTypes
  <2> HIDE DEF r, ws
  <2> QED
    BY <1>1, <2>1, <2>2, <2>4, <2>5, PullTypesKept
<1>9. ASSUME Store!Join(p) PROVE PullTypes'
  <2>1. job' = job /\ link' = link /\ stored' = stored /\ proc[p].at = "fetch"
        /\ \A w \in Store!Jobs : job[p][w].at = "off"
    <3>1. Store!Off.at = "off"
      BY DEF Store!Off
    <3> QED
      BY <1>9, <3>1 DEF Store!Join, Store!Joined, Store!disk
  <2>2. CASE Store!Becomes(p, [proc[p] EXCEPT !.at = "err"])
    BY <1>3, <1>5, <2>1, <2>2
  <2>3. CASE Store!Becomes(p, [proc[p] EXCEPT !.at = "companion"])
    <3>1. CallIsOfOneModel([proc[p] EXCEPT !.at = "companion"])
      BY <1>1, <2>1 DEF CallIsOfOneModel, CallFields, PullPlaces
    <3> QED
      BY <1>3, <2>1, <2>3, <3>1
  <2>4. CASE proc[p].failed \/ proc[p].signal
    BY <1>9, <2>2, <2>4 DEF Store!Join
  <2>5. CASE ~(proc[p].failed \/ proc[p].signal)
    BY <1>9, <2>3, <2>5 DEF Store!Join
  <2> QED
    BY <2>4, <2>5
<1>10. ASSUME Store!Companions(p) PROVE PullTypes'
  <2>1. link' = link /\ stored' = stored /\ proc[p].at = "companion"
    BY <1>10 DEF Store!Companions, Store!disk
  <2>2. CASE Store!Becomes(p, [proc[p] EXCEPT !.at = "ok"]) /\ job' = job
    BY <1>3, <1>4, <1>5, <2>1, <2>2
  <2>3. CASE /\ Store!Becomes(p, [proc[p] EXCEPT !.at = "extra"]) /\ "companion" \in Store!Files
             /\ Store!Stays(p, 1, [Store!Off EXCEPT !.at = "head", !.file = "companion"])
    <3> DEFINE r == [proc[p] EXCEPT !.at = "extra"]
    <3> DEFINE x == [Store!Off EXCEPT !.at = "head", !.file = "companion"]
    <3>1. proc' = [proc EXCEPT ![p] = r] /\ job' = [job EXCEPT ![p][1] = x]
      BY <2>3 DEF Store!Becomes, Store!Stays
    <3>2. CallIsOfOneModel(r) /\ r.at = "extra"
      BY <1>1, <2>1 DEF CallIsOfOneModel, CallFields, PullPlaces
    <3>3. x \in JobRecords /\ x.at = "head" /\ x.file = "companion"
      BY <2>3 DEF Store!Off, JobRecords, JobPlaces, Store!None
    <3>4. IsAtWork(r, x, 1) /\ \A v \in Store!Jobs \ {1} : IsAtWork(r, job[p][v], v)
      BY <1>4, <2>1, <3>2, <3>3 DEF IsAtWork
    <3>5. 1 \in Store!Jobs
      BY SetupFacts DEF PullTypes
    <3> HIDE DEF r, x
    <3> QED
      BY <1>1, <2>1, <3>1, <3>2, <3>3, <3>4, <3>5, PullTypesKeptByWorker
  <2> QED
    BY <1>10, <2>2, <2>3 DEF Store!Companions, Store!Companion
<1>11. ASSUME Store!Signal(p) PROVE PullTypes'
  <2>1. job' = job /\ link' = link /\ stored' = stored
    BY <1>11 DEF Store!Signal, Store!disk
  <2> DEFINE r == [proc[p] EXCEPT !.signal = TRUE]
  <2>2. CallIsOfOneModel(r) /\ r.at = proc[p].at /\ r.files = proc[p].files
    BY <1>1 DEF CallIsOfOneModel, CallFields, PullPlaces
  <2>3. Store!Becomes(p, r)
    BY <1>11 DEF Store!Signal
  <2> HIDE DEF r
  <2> QED
    BY <1>2, <2>1, <2>2, <2>3
<1>12. ASSUME Store!Killed(p) PROVE PullTypes'
  <2> DEFINE ws == [w \in Store!Jobs |-> Store!Off]
  <2>1. /\ proc' = [proc EXCEPT ![p] = Store!Idle] /\ job' = [job EXCEPT ![p] = ws]
        /\ link' = link /\ stored' = stored
    BY <1>12 DEF Store!Killed, Store!Becomes, Store!disk
  <2>2. << >> \in Seq(Store!Files \ {"companion"})
    OBVIOUS
  <2>3. CallIsOfOneModel(Store!Idle)
    BY <2>2 DEF CallIsOfOneModel, Store!Idle, CallFields, PullPlaces, Store!None
  <2>4. Store!Off \in JobRecords /\ Store!Off.at = "off"
    BY DEF Store!Off, JobRecords, JobPlaces, Store!None
  <2>5. ws \in [Store!Jobs -> JobRecords] /\ \A w \in Store!Jobs : IsAtWork(Store!Idle, ws[w], w)
    BY <2>4 DEF IsAtWork
  <2>6. main' \in Store!Commits
    BY DEF PullTypes
  <2> HIDE DEF ws
  <2> QED
    BY <1>1, <2>1, <2>3, <2>5, <2>6, PullTypesKept
<1> QED
  BY <1>6, <1>7, <1>8, <1>9, <1>10, <1>11, <1>12

LEMMA WorkerStepsKeepTypes ==
  ASSUME PullTypes, setup' = setup, main' = main, NEW p \in Procs, NEW w \in Store!Jobs,
         Store!WorkerStep(p, w)
  PROVE  PullTypes'
<1> DEFINE x == job[p][w]
<1>1. /\ CallIsOfOneModel(proc[p]) /\ x \in JobRecords /\ IsAtWork(proc[p], x, w)
      /\ \A v \in Store!Jobs : IsAtWork(proc[p], job[p][v], v)
      /\ link \in [Store!Commits -> [Store!Files -> Nat]] /\ stored \subseteq Nat \ {0}
      /\ main \in Store!Commits
  BY DEF PullTypes
<1>2. \A c \in Store!Commits : setup.tree[c] \in [Store!Files -> Nat]
  BY SetupFacts DEF PullTypes
<1>3. Store!Off \in JobRecords /\ Store!Off.at = "off"
  BY DEF Store!Off, JobRecords, JobPlaces, Store!None
<1>4. ASSUME NEW y \in JobRecords, Store!Stays(p, w, y), proc' = proc,
             IsAtWork(proc[p], y, w),
             link' \in [Store!Commits -> [Store!Files -> Nat]], stored' \subseteq Nat \ {0}
      PROVE  PullTypes'
  <2>1. proc' = [proc EXCEPT ![p] = proc[p]] /\ job' = [job EXCEPT ![p][w] = y]
    BY <1>4 DEF PullTypes, Store!Stays
  <2> QED
    BY <1>1, <1>4, <2>1, PullTypesKeptByWorker
<1>5. ASSUME NEW r, Store!Stays(p, w, Store!Off), Store!Becomes(p, r), CallIsOfOneModel(r),
             r.at = proc[p].at \/ proc[p].at = "extra", r.files = proc[p].files, x.at # "off",
             link' \in [Store!Commits -> [Store!Files -> Nat]], stored' \subseteq Nat \ {0}
      PROVE  PullTypes'
  <2>1. proc' = [proc EXCEPT ![p] = r] /\ job' = [job EXCEPT ![p][w] = Store!Off]
    BY <1>5 DEF Store!Becomes, Store!Stays
  <2>2. IsAtWork(r, Store!Off, w)
    BY <1>3 DEF IsAtWork
  <2>3. \A v \in Store!Jobs \ {w} : IsAtWork(r, job[p][v], v)
    BY <1>1, <1>5 DEF IsAtWork
  <2> HIDE DEF x
  <2> QED
    BY <1>3, <1>5, <2>1, <2>2, <2>3, PullTypesKeptByWorker
<1>6. CallIsOfOneModel([proc[p] EXCEPT !.at = "ok"])
      /\ CallIsOfOneModel([proc[p] EXCEPT !.stop = TRUE, !.failed = TRUE])
      /\ CallIsOfOneModel([proc[p] EXCEPT !.cursor = @ + 1])
  BY <1>1 DEF CallIsOfOneModel, CallFields, PullPlaces
<1>7. /\ [proc[p] EXCEPT !.at = "ok"].files = proc[p].files
      /\ [proc[p] EXCEPT !.stop = TRUE, !.failed = TRUE].files = proc[p].files
      /\ [proc[p] EXCEPT !.stop = TRUE, !.failed = TRUE].at = proc[p].at
      /\ [proc[p] EXCEPT !.cursor = @ + 1].files = proc[p].files
      /\ [proc[p] EXCEPT !.cursor = @ + 1].at = proc[p].at
  BY <1>1 DEF CallIsOfOneModel, CallFields
<1>8. x.at \notin {"off", "claim"} =>
        (x.file = "companion" <=> proc[p].at = "extra") /\ x.file \in Store!Files
  <2>1. \A i \in DOMAIN proc[p].files : proc[p].files[i] \in Store!Files \ {"companion"}
    BY <1>1 DEF CallIsOfOneModel
  <2> QED
    BY <1>1, <2>1 DEF IsAtWork, JobRecords
<1>9. ASSUME Store!Fails(p, w), x.at \notin {"off", "claim"},
             link' \in [Store!Commits -> [Store!Files -> Nat]], stored' \subseteq Nat \ {0}
      PROVE PullTypes'
  <2>1. Store!Stays(p, w, Store!Off)
    BY <1>9 DEF Store!Fails
  <2>2. CASE x.file = "companion"
    <3>1. Store!Becomes(p, [proc[p] EXCEPT !.at = "ok"])
      BY <1>9, <2>2 DEF Store!Fails, Store!Companion
    <3> QED
      BY <1>5, <1>6, <1>7, <1>8, <1>9, <2>1, <2>2, <3>1
  <2>3. CASE x.file # "companion"
    <3>1. Store!Becomes(p, [proc[p] EXCEPT !.stop = TRUE, !.failed = TRUE])
      BY <1>9, <2>3 DEF Store!Fails, Store!Companion
    <3> QED
      BY <1>5, <1>6, <1>7, <1>9, <2>1, <3>1
  <2> QED
    BY <2>2, <2>3
<1>10. ASSUME Store!Claim(p, w) PROVE PullTypes'
  <2>1. x.at = "claim" /\ link' = link /\ stored' = stored
    BY <1>10 DEF Store!Claim, Store!disk
  <2>2. CASE Store!Stays(p, w, Store!Off) /\ proc' = proc
    BY <1>1, <1>3, <1>4, <2>1, <2>2 DEF IsAtWork
  <2> DEFINE r == [proc[p] EXCEPT !.cursor = @ + 1]
  <2>3. CASE Store!Stays(p, w, Store!Off) /\ Store!Becomes(p, r)
    BY <1>1, <1>5, <1>6, <1>7, <2>1, <2>3
  <2> DEFINE y == [Store!Off EXCEPT !.at = "head", !.file = proc[p].files[proc[p].cursor]]
  <2>4. CASE /\ Store!Stays(p, w, y) /\ Store!Becomes(p, r)
             /\ ~(proc[p].cursor > Len(proc[p].files))
    <3>1. proc[p].cursor \in DOMAIN proc[p].files
      BY <1>1, <2>4 DEF CallIsOfOneModel
    <3>2. proc[p].files[proc[p].cursor] \in Store!Files
      BY <1>1, <3>1 DEF CallIsOfOneModel
    <3>3. y \in JobRecords /\ y.at = "head" /\ y.file = proc[p].files[proc[p].cursor]
      BY <3>2 DEF Store!Off, JobRecords, JobPlaces, Store!None
    <3>4. proc[p].at = "fetch"
      BY <1>1, <2>1 DEF IsAtWork
    <3>5. IsAtWork(r, y, w) /\ \A v \in Store!Jobs : IsAtWork(r, job[p][v], v)
      BY <1>1, <1>7, <3>1, <3>3, <3>4 DEF IsAtWork
    <3>6. proc' = [proc EXCEPT ![p] = r] /\ job' = [job EXCEPT ![p][w] = y]
      BY <2>4 DEF Store!Becomes, Store!Stays
    <3>7. CallIsOfOneModel(r)
      BY <1>6
    <3> HIDE DEF r, y, x
    <3> QED
      BY <1>1, <2>1, <3>3, <3>5, <3>6, <3>7, PullTypesKeptByWorker
  <2> HIDE DEF r, y
  <2>5. CASE proc[p].stop \/ proc[p].signal
    BY <1>10, <2>2, <2>5 DEF Store!Claim
  <2>6. CASE ~(proc[p].stop \/ proc[p].signal)
    <3>1. Store!Becomes(p, r) /\ Store!Stays(p, w, IF proc[p].cursor > Len(proc[p].files)
                                                  THEN Store!Off ELSE y)
      BY <1>10, <2>6 DEF Store!Claim, r, y
    <3> QED
      BY <2>3, <2>4, <3>1
  <2> QED
    BY <2>5, <2>6
<1>11. ASSUME Store!HeadSha(p, w) PROVE PullTypes'
  <2>1. PICK want \in {0, setup.tree[main][x.file]} :
          Store!Stays(p, w, [x EXCEPT !.at = "fetch", !.want = want])
    BY <1>11 DEF Store!HeadSha, Store!None
  <2>2. x.at = "head" /\ link' = link /\ stored' = stored /\ proc' = proc
    BY <1>11 DEF Store!HeadSha, Store!disk
  <2>3. want \in Nat
    BY <1>1, <1>2, <1>8, <2>2
  <2> DEFINE y == [x EXCEPT !.at = "fetch", !.want = want]
  <2>4. y \in JobRecords /\ y.at = "fetch" /\ y.file = x.file
    BY <1>1, <2>3 DEF JobRecords, JobPlaces
  <2>5. IsAtWork(proc[p], y, w)
    BY <1>1, <2>2, <2>4 DEF IsAtWork
  <2> HIDE DEF y
  <2> QED
    BY <1>1, <1>4, <2>1, <2>2, <2>4, <2>5 DEF y
<1>12. ASSUME Store!FetchFails(p, w) PROVE PullTypes'
  BY <1>1, <1>9, <1>12 DEF Store!FetchFails, Store!disk
<1>13. ASSUME Store!Fetch(p, w) PROVE PullTypes'
  <2> DEFINE got == IF x.want \in stored THEN x.want ELSE setup.tree[main][x.file]
  <2>1. x.at = "fetch" /\ link' = link /\ got # 0
    BY <1>13 DEF Store!Fetch, Store!None
  <2>2. got \in Nat
    <3>1. setup.tree[main][x.file] \in Nat
      BY <1>1, <1>2, <1>8, <2>1
    <3> QED
      BY <1>1, <3>1
  <2>3. CASE Store!Fails(p, w) /\ stored' = stored
    BY <1>1, <1>9, <2>1, <2>3
  <2> DEFINE y == [x EXCEPT !.at = "unlink", !.got = got]
  <2>4. CASE Store!Stays(p, w, y) /\ stored' = stored \cup {got} /\ proc' = proc
    <3>1. y \in JobRecords /\ y.at = "unlink" /\ y.file = x.file
      BY <1>1, <2>2 DEF JobRecords, JobPlaces
    <3>2. IsAtWork(proc[p], y, w)
      BY <1>1, <2>1, <3>1 DEF IsAtWork
    <3> HIDE DEF y, got
    <3> QED
      BY <1>1, <1>4, <2>1, <2>2, <2>4, <3>1, <3>2
  <2> QED
    BY <1>13, <2>3, <2>4 DEF Store!Fetch
<1>14. ASSUME Store!Unlink(p, w) PROVE PullTypes'
  <2>1. /\ x.at = "unlink" /\ proc' = proc /\ stored' = stored
        /\ link' = [link EXCEPT ![proc[p].commit][x.file] = 0]
        /\ Store!Stays(p, w, [x EXCEPT !.at = "link"])
    BY <1>14 DEF Store!Unlink, Store!None
  <2> DEFINE y == [x EXCEPT !.at = "link"]
  <2>2. y \in JobRecords /\ y.at = "link" /\ y.file = x.file
    BY <1>1 DEF JobRecords, JobPlaces
  <2>3. IsAtWork(proc[p], y, w)
    BY <1>1, <2>1, <2>2 DEF IsAtWork
  <2>4. link' \in [Store!Commits -> [Store!Files -> Nat]]
    BY <1>1, <2>1
  <2> HIDE DEF y
  <2> QED
    BY <1>1, <1>4, <2>1, <2>2, <2>3, <2>4 DEF y
<1>15. ASSUME Store!Link(p, w) PROVE PullTypes'
  <2>1. x.at = "link" /\ stored' = stored
    BY <1>15 DEF Store!Link
  <2>2. CASE link[proc[p].commit][x.file] # 0
    <3>1. Store!Fails(p, w) /\ link' = link
      BY <1>15, <2>2 DEF Store!Link, Store!None
    <3> QED
      BY <1>1, <1>9, <2>1, <3>1
  <2>3. CASE link[proc[p].commit][x.file] = 0
    <3>1. x.got \in Nat /\ link' = [link EXCEPT ![proc[p].commit][x.file] = x.got]
      BY <1>1, <1>15, <2>3 DEF JobRecords, Store!Link, Store!None
    <3>2. link' \in [Store!Commits -> [Store!Files -> Nat]]
      BY <1>1, <3>1
    <3>3. CASE x.file = "companion"
      <4>1. Store!Stays(p, w, Store!Off) /\ Store!Becomes(p, [proc[p] EXCEPT !.at = "ok"])
        BY <1>15, <2>3, <3>3 DEF Store!Link, Store!Companion, Store!None
      <4> QED
        BY <1>1, <1>5, <1>6, <1>7, <1>8, <2>1, <3>2, <3>3, <4>1
    <3>4. CASE x.file # "companion"
      <4> DEFINE y == [Store!Off EXCEPT !.at = "claim"]
      <4>1. Store!Stays(p, w, y) /\ proc' = proc
        BY <1>15, <2>3, <3>4 DEF Store!Link, Store!Companion, Store!None
      <4>2. y \in JobRecords /\ y.at = "claim"
        BY DEF Store!Off, JobRecords, JobPlaces, Store!None
      <4>3. IsAtWork(proc[p], y, w)
        BY <1>1, <1>8, <2>1, <3>4, <4>2 DEF IsAtWork
      <4> HIDE DEF y
      <4> QED
        BY <1>1, <1>4, <2>1, <3>2, <4>1, <4>2, <4>3
    <3> QED
      BY <3>3, <3>4
  <2> QED
    BY <2>2, <2>3
<1> QED
  BY <1>10, <1>11, <1>12, <1>13, <1>14, <1>15 DEF Store!WorkerStep

LEMMA MovesFacts ==
  ASSUME PullTypes, setup' = setup, Store!Moves
  PROVE  /\ main' = main + 1 /\ main' \in Store!Commits
         /\ link' = link /\ ref' = ref /\ stored' = stored /\ job' = job
         /\ mixed' = mixed \cup {proc[p].commit : p \in Store!Busy}
         /\ proc' = [p \in Procs |-> proc'[p]]
         /\ \A p \in Procs : proc'[p] \in {proc[p], [proc[p] EXCEPT !.quiet = FALSE]}
BY DEF Store!Moves, Store!disk

LEMMA MovesKeepsTypes ==
  ASSUME PullTypes, setup' = setup, Store!Moves
  PROVE  PullTypes'
<1>1. Store!Commits' = Store!Commits /\ Store!Files' = Store!Files /\ Store!Jobs' = Store!Jobs
      /\ JobRecords' = JobRecords
  BY DEF Store!Commits, Store!Files, Store!Jobs, JobRecords
<1>2. ASSUME NEW p \in Procs
      PROVE  /\ CallIsOfOneModel(proc'[p])
             /\ proc'[p].at = proc[p].at /\ proc'[p].files = proc[p].files
  <2>1. CallIsOfOneModel(proc[p]) /\ proc'[p] \in {proc[p], [proc[p] EXCEPT !.quiet = FALSE]}
    BY MovesFacts DEF PullTypes
  <2> QED
    BY <2>1 DEF CallIsOfOneModel, CallFields
<1>3. ASSUME NEW p \in Procs PROVE CallIsOfOneModel(proc[p])'
  <2>1. CallIsOfOneModel(proc'[p])
    BY <1>2
  <2> QED
    BY <1>1, <2>1 DEF CallIsOfOneModel
<1>4. ASSUME NEW p \in Procs, NEW w \in Store!Jobs PROVE IsAtWork(proc[p], job[p][w], w)'
  <2>1. IsAtWork(proc[p], job[p][w], w) /\ job' = job
    BY MovesFacts DEF PullTypes
  <2> QED
    BY <1>2, <2>1 DEF IsAtWork
<1> QED
  BY <1>1, <1>3, <1>4, MovesFacts DEF PullTypes

LEMMA NextKeepsPullTypes == PullTypes /\ [Store!Next]_Store!vars => PullTypes'
<1> SUFFICES ASSUME PullTypes, [Store!Next]_Store!vars PROVE PullTypes'
  OBVIOUS
<1>1. CASE UNCHANGED Store!vars
  <2>1. setup' = setup /\ main' = main /\ link' = link /\ stored' = stored /\ proc' = proc
        /\ job' = job
    BY <1>1 DEF Store!vars
  <2>2. Store!Commits' = Store!Commits /\ Store!Files' = Store!Files /\ Store!Jobs' = Store!Jobs
        /\ JobRecords' = JobRecords
    BY <2>1 DEF Store!Commits, Store!Files, Store!Jobs, JobRecords
  <2>3. \A p \in Procs : CallIsOfOneModel(proc[p])'
    <3>1. \A p \in Procs : CallIsOfOneModel(proc'[p])
      BY <2>1 DEF PullTypes
    <3> QED
      BY <2>1, <2>2, <3>1 DEF CallIsOfOneModel
  <2>4. \A p \in Procs : \A w \in Store!Jobs : IsAtWork(proc[p], job[p][w], w)'
    BY <2>1 DEF PullTypes, IsAtWork
  <2> QED
    BY <2>1, <2>2, <2>3, <2>4 DEF PullTypes
<1>2. CASE Store!Next
  <2>1. setup' = setup
    BY <1>2 DEF Store!Next
  <2>2. CASE Store!Moves
    BY <2>1, <2>2, MovesKeepsTypes
  <2>3. ASSUME NEW p \in setup.procs, main' = main, Store!Call(p) \/ Store!Step(p)
        PROVE  PullTypes'
    <3>1. p \in Procs
      BY SetupFacts DEF PullTypes
    <3> QED
      BY <2>1, <2>3, <3>1, CallKeepsTypes, ProcStepsKeepTypes, WorkerStepsKeepTypes
         DEF Store!Step
  <2> QED
    BY <1>2, <2>2, <2>3 DEF Store!Next
<1> QED
  BY <1>1, <1>2

LEMMA PullIsTyped == Store!Spec => []PullTypes
BY PullInitTypes, NextKeepsPullTypes, PTL DEF Store!Spec

-----------------------------------------------------------------------------
(* What a step leaves of the other processes, and of the call it belongs to.   *)
SameCall(r, q) ==
  /\ q.commit = r.commit /\ q.files = r.files /\ q.sel = r.sel /\ q.latest = r.latest
  /\ q.alone = r.alone /\ q.had = r.had

LEMMA WorkerEffects ==
  ASSUME PullTypes, NEW p \in Procs, NEW w \in Store!Jobs, Store!WorkerStep(p, w)
  PROVE  /\ ref' = ref
         /\ \A q \in Procs \ {p} : proc'[q] = proc[q]
         /\ SameCall(proc[p], proc'[p]) /\ proc'[p].at \in {proc[p].at, "ok"}
         /\ \A q \in Procs, v \in Store!Jobs : q # p \/ v # w => job'[q][v] = job[q][v]
         /\ job[p][w].at # "off"
<1>1. CallIsOfOneModel(proc[p]) /\ job \in [Procs -> [Store!Jobs -> JobRecords]]
      /\ proc = [q \in Procs |-> proc[q]]
  BY DEF PullTypes
<1>2. DOMAIN proc[p] = CallFields
  BY <1>1 DEF CallIsOfOneModel
<1>3. ASSUME NEW r, Store!Becomes(p, r)
      PROVE  proc'[p] = r /\ \A q \in Procs \ {p} : proc'[q] = proc[q]
  BY <1>1, <1>3 DEF Store!Becomes
<1>4. \E y : Store!Stays(p, w, y)
  BY DEF Store!WorkerStep, Store!Claim, Store!HeadSha, Store!FetchFails, Store!Fetch,
         Store!Unlink, Store!Link, Store!Fails
<1>5. \A q \in Procs, v \in Store!Jobs : q # p \/ v # w => job'[q][v] = job[q][v]
  BY <1>1, <1>4 DEF Store!Stays
<1>6. \/ proc' = proc \/ Store!Becomes(p, [proc[p] EXCEPT !.at = "ok"])
      \/ Store!Becomes(p, [proc[p] EXCEPT !.stop = TRUE, !.failed = TRUE])
      \/ Store!Becomes(p, [proc[p] EXCEPT !.cursor = @ + 1])
  BY DEF Store!WorkerStep, Store!Claim, Store!HeadSha, Store!FetchFails, Store!Fetch,
         Store!Unlink, Store!Link, Store!Fails
<1>7. /\ \A q \in Procs \ {p} : proc'[q] = proc[q]
      /\ SameCall(proc[p], proc'[p]) /\ proc'[p].at \in {proc[p].at, "ok"}
  <2>1. CASE proc' = proc
    BY <2>1 DEF SameCall
  <2>2. CASE Store!Becomes(p, [proc[p] EXCEPT !.at = "ok"])
    BY <1>2, <1>3, <2>2 DEF SameCall, CallFields
  <2>3. CASE Store!Becomes(p, [proc[p] EXCEPT !.stop = TRUE, !.failed = TRUE])
    <3> DEFINE r == [proc[p] EXCEPT !.stop = TRUE, !.failed = TRUE]
    <3>1. SameCall(proc[p], r) /\ r.at = proc[p].at
      BY <1>2 DEF SameCall, CallFields
    <3> HIDE DEF r
    <3>2. proc'[p] = r /\ \A q \in Procs \ {p} : proc'[q] = proc[q]
      BY <1>3, <2>3 DEF r
    <3> QED
      BY <3>1, <3>2
  <2>4. CASE Store!Becomes(p, [proc[p] EXCEPT !.cursor = @ + 1])
    BY <1>2, <1>3, <2>4 DEF SameCall, CallFields
  <2> QED
    BY <1>6, <2>1, <2>2, <2>3, <2>4
<1>8. ref' = ref /\ job[p][w].at # "off"
  BY DEF Store!WorkerStep, Store!Claim, Store!HeadSha, Store!FetchFails, Store!Fetch,
         Store!Unlink, Store!Link, Store!Fails, Store!disk
<1> QED
  BY <1>5, <1>7, <1>8

Pulling == {"ref", "fetch", "companion", "extra"}
Carrying == {"fetch", "unlink", "link"}

LEMMA MovesEffects ==
  ASSUME PullTypes, setup' = setup, Store!Moves, NEW p \in Procs
  PROVE  SameCall(proc[p], proc'[p]) /\ proc'[p].at = proc[p].at
<1>1. CallIsOfOneModel(proc[p]) /\ proc'[p] \in {proc[p], [proc[p] EXCEPT !.quiet = FALSE]}
  BY MovesFacts DEF PullTypes
<1>2. DOMAIN proc[p] = CallFields
  BY <1>1 DEF CallIsOfOneModel
<1>3. CASE proc'[p] = proc[p]
  BY <1>3 DEF SameCall
<1>4. CASE proc'[p] = [proc[p] EXCEPT !.quiet = FALSE]
  BY <1>2, <1>4 DEF SameCall, CallFields
<1> QED
  BY <1>1, <1>3, <1>4

LEMMA CallEffects ==
  ASSUME PullTypes, NEW p \in Procs, Store!Call(p)
  PROVE  /\ ref' = ref /\ link' = link /\ stored' = stored /\ job' = job
         /\ proc[p].at \in Store!Ended
         /\ \/ /\ proc'[p].at = "ok"
               /\ \A q \in Procs \ {p} : proc'[q] = proc[q]
            \/ /\ proc'[p].at = "info"
               /\ proc'[p].latest \/ 0 \in Store!Resolutions(proc'[p].sel)
               /\ proc'[p].alone <=> Store!Busy = {}
               /\ proc'[p].had = Store!Resolvable
               /\ \A q \in Procs \ {p} :
                    \/ proc[q].at \in Store!Ended /\ proc'[q] = proc[q]
                    \/ /\ proc'[q].at = proc[q].at /\ proc'[q].commit = proc[q].commit
                       /\ ~proc'[q].alone
<1>1. PICK sel \in setup.sels, latest \in BOOLEAN, quiet \in BOOLEAN :
        LET r == [Store!Idle EXCEPT !.sel = sel, !.latest = latest, !.quiet = quiet,
                             !.alone = Store!Busy = {}, !.had = Store!Resolvable]
        IN  \/ ~latest /\ Store!Cached(p, r)
            \/ /\ latest \/ Store!None \in Store!Resolutions(sel)
               /\ proc' = [q \in Procs |->
                   IF q = p THEN [r EXCEPT !.at = "info"]
                   ELSE IF q \in Store!Busy THEN [proc[q] EXCEPT !.alone = FALSE] ELSE proc[q]]
  BY DEF Store!Call
<1>2. /\ proc[p].at \in Store!Ended /\ ref' = ref /\ link' = link /\ stored' = stored
      /\ job' = job
  BY DEF Store!Call, Store!disk
<1>3. proc = [q \in Procs |-> proc[q]] /\ \A q \in Procs : CallIsOfOneModel(proc[q])
  BY DEF PullTypes
<1> DEFINE r == [Store!Idle EXCEPT !.sel = sel, !.latest = latest, !.quiet = quiet,
                            !.alone = Store!Busy = {}, !.had = Store!Resolvable]
<1>4. DOMAIN r = CallFields
  BY DEF Store!Idle, CallFields
<1>5. /\ r.sel = sel /\ r.latest = latest /\ r.had = Store!Resolvable
  BY DEF Store!Idle
<1>6. r.alone <=> Store!Busy = {}
  BY DEF Store!Idle
<1>7. CASE ~latest /\ Store!Cached(p, r)
  <2> HIDE DEF r
  <2>1. PICK c \in Store!Commits, m \in DOMAIN setup.models :
          proc' = [proc EXCEPT ![p] = AnswerOf(r, c, m)]
    BY <1>7, CachedFacts
  <2>2. AnswerOf(r, c, m).at = "ok"
    BY <1>4 DEF AnswerOf, CallFields
  <2> QED
    BY <1>2, <1>3, <2>1, <2>2
<1>8. CASE /\ latest \/ Store!None \in Store!Resolutions(sel)
           /\ proc' = [q \in Procs |->
                   IF q = p THEN [r EXCEPT !.at = "info"]
                   ELSE IF q \in Store!Busy THEN [proc[q] EXCEPT !.alone = FALSE] ELSE proc[q]]
  <2> DEFINE s == [r EXCEPT !.at = "info"]
  <2> HIDE DEF r
  <2>1. s.at = "info" /\ s.sel = r.sel /\ s.latest = r.latest /\ s.had = r.had
    BY <1>4 DEF CallFields
  <2>2. s.alone = r.alone
    BY <1>4 DEF CallFields
  <2>3. proc'[p] = s
    BY <1>8
  <2> HIDE DEF s
  <2>4. ASSUME NEW q \in Procs \ {p}
        PROVE \/ proc[q].at \in Store!Ended /\ proc'[q] = proc[q]
              \/ /\ proc'[q].at = proc[q].at /\ proc'[q].commit = proc[q].commit
                 /\ ~proc'[q].alone
    <3>1. CASE q \notin Store!Busy
      BY <1>8, <3>1 DEF Store!Busy
    <3>2. CASE q \in Store!Busy
      <4>1. proc'[q] = [proc[q] EXCEPT !.alone = FALSE] /\ DOMAIN proc[q] = CallFields
        BY <1>3, <1>8, <3>2 DEF CallIsOfOneModel
      <4> QED
        BY <4>1 DEF CallFields
    <3> QED
      BY <3>1, <3>2
  <2>5. proc'[p].latest \/ 0 \in Store!Resolutions(proc'[p].sel)
    BY <1>5, <1>8, <2>1, <2>3 DEF Store!None
  <2>6. proc'[p].alone <=> Store!Busy = {}
    BY <1>6, <2>2, <2>3
  <2> QED
    BY <1>2, <1>5, <2>1, <2>3, <2>4, <2>5, <2>6
<1> QED
  BY <1>1, <1>7, <1>8

LEMMA ProcEffects ==
  ASSUME PullTypes, NEW p \in Procs,
         \/ Store!InfoFails(p) \/ Store!Info(p) \/ Store!WriteRef(p) \/ Store!Join(p)
         \/ Store!Companions(p) \/ Store!Signal(p) \/ Store!Killed(p)
  PROVE  /\ link' = link /\ stored' = stored
         /\ \A q \in Procs \ {p} : proc'[q] = proc[q] /\ job'[q] = job[q]
         /\ \/ job'[p] = job[p]
            \/ \A v \in Store!Jobs : job'[p][v].at \in {"off", "claim", "head"}
         /\ \/ ref' = ref /\ proc'[p].at \in Store!Ended
            \/ ref' = ref /\ SameCall(proc[p], proc'[p]) /\ proc'[p].at = proc[p].at
            \/ /\ ref' = proc[p].commit /\ SameCall(proc[p], proc'[p])
               /\ proc[p].at = "ref" /\ proc'[p].at = "fetch"
            \/ /\ ref' = ref /\ SameCall(proc[p], proc'[p])
               /\ \/ proc[p].at = "fetch" /\ proc'[p].at = "companion"
                  \/ proc[p].at = "companion" /\ proc'[p].at = "extra"
            \/ /\ ref' = ref /\ proc[p].at = "info" /\ proc'[p].commit = main
               /\ proc'[p].alone = proc[p].alone /\ proc'[p].had = proc[p].had
               /\ proc'[p].sel = proc[p].sel /\ proc'[p].latest = proc[p].latest
               /\ \E m \in Store!Picks(Store!Listed(main), proc[p].sel) :
                    /\ proc'[p].files = setup.models[m]
                    /\ proc'[p].at = IF proc[p].latest /\ Store!Complete(main, m)
                                     THEN "companion" ELSE "ref"
<1>1. CallIsOfOneModel(proc[p]) /\ job \in [Procs -> [Store!Jobs -> JobRecords]]
      /\ proc = [q \in Procs |-> proc[q]]
  BY DEF PullTypes
<1>2. DOMAIN proc[p] = CallFields
  BY <1>1 DEF CallIsOfOneModel
<1>3. ASSUME NEW r, Store!Becomes(p, r)
      PROVE  proc'[p] = r /\ \A q \in Procs \ {p} : proc'[q] = proc[q]
  BY <1>1, <1>3 DEF Store!Becomes
<1>4. ASSUME NEW at, Store!Becomes(p, [proc[p] EXCEPT !.at = at])
      PROVE  /\ SameCall(proc[p], proc'[p]) /\ proc'[p].at = at
             /\ \A q \in Procs \ {p} : proc'[q] = proc[q]
  <2> DEFINE r == [proc[p] EXCEPT !.at = at]
  <2>1. SameCall(proc[p], r) /\ r.at = at
    BY <1>2 DEF SameCall, CallFields
  <2> HIDE DEF r
  <2>2. proc'[p] = r /\ \A q \in Procs \ {p} : proc'[q] = proc[q]
    BY <1>3, <1>4 DEF r
  <2> QED
    BY <2>1, <2>2
<1>5. ASSUME NEW r, Store!Cached(p, r), DOMAIN r = CallFields
      PROVE  proc'[p].at = "ok" /\ \A q \in Procs \ {p} : proc'[q] = proc[q]
  <2>1. PICK c \in Store!Commits, m \in DOMAIN setup.models :
          proc' = [proc EXCEPT ![p] = AnswerOf(r, c, m)]
    BY <1>5, CachedFacts
  <2>2. AnswerOf(r, c, m).at = "ok"
    BY <1>5 DEF AnswerOf, CallFields
  <2> QED
    BY <1>1, <2>1, <2>2
<1> DEFINE jobEffect == /\ \A q \in Procs \ {p} : job'[q] = job[q]
                       /\ \/ job'[p] = job[p]
                          \/ \A v \in Store!Jobs : job'[p][v].at \in {"off", "claim", "head"}
<1>6. job' = job => jobEffect
  OBVIOUS
<1>7. CASE Store!InfoFails(p)
  <2>1. job' = job /\ link' = link /\ stored' = stored /\ ref' = ref
    BY <1>7 DEF Store!InfoFails, Store!disk
  <2>2. proc'[p].at \in {"ok", "err"} /\ \A q \in Procs \ {p} : proc'[q] = proc[q]
    BY <1>2, <1>4, <1>5, <1>7 DEF Store!InfoFails
  <2> QED
    BY <2>1, <2>2 DEF Store!Ended
<1>8. CASE Store!Info(p)
  <2>1. job' = job /\ link' = link /\ stored' = stored /\ ref' = ref /\ proc[p].at = "info"
    BY <1>8 DEF Store!Info, Store!disk
  <2>2. CASE Store!Becomes(p, [proc[p] EXCEPT !.at = "err"])
    BY <1>4, <2>1, <2>2 DEF Store!Ended
  <2>3. ASSUME NEW m \in Store!Picks(Store!Listed(main), proc[p].sel),
               Store!Becomes(p, [proc[p] EXCEPT
                 !.at = IF proc[p].latest /\ Store!Complete(main, m) THEN "companion" ELSE "ref",
                 !.commit = main, !.files = Store!Shards(m)])
        PROVE  /\ proc'[p].commit = main /\ proc'[p].alone = proc[p].alone
               /\ proc'[p].had = proc[p].had /\ proc'[p].files = setup.models[m]
               /\ proc'[p].sel = proc[p].sel /\ proc'[p].latest = proc[p].latest
               /\ proc'[p].at = IF proc[p].latest /\ Store!Complete(main, m)
                                THEN "companion" ELSE "ref"
               /\ \A q \in Procs \ {p} : proc'[q] = proc[q]
    <3> DEFINE at == IF proc[p].latest /\ Store!Complete(main, m) THEN "companion" ELSE "ref"
    <3> HIDE DEF at
    <3> DEFINE r == [proc[p] EXCEPT !.at = at, !.commit = main, !.files = Store!Shards(m)]
    <3>1. /\ r.at = at /\ r.commit = main /\ r.files = setup.models[m]
          /\ r.alone = proc[p].alone /\ r.had = proc[p].had
          /\ r.sel = proc[p].sel /\ r.latest = proc[p].latest
      BY <1>2 DEF CallFields, Store!Shards
    <3>2. Store!Becomes(p, r)
      BY <2>3 DEF at
    <3> HIDE DEF r
    <3>3. proc'[p] = r /\ \A q \in Procs \ {p} : proc'[q] = proc[q]
      BY <1>3, <3>2
    <3> QED
      BY <3>1, <3>3 DEF at
  <2>4. CASE \E m \in Store!Picks(Store!Listed(main), proc[p].sel) :
              Store!Becomes(p, [proc[p] EXCEPT
                 !.at = IF proc[p].latest /\ Store!Complete(main, m) THEN "companion" ELSE "ref",
                 !.commit = main, !.files = Store!Shards(m)])
    BY <2>1, <2>3, <2>4
  <2> QED
    BY <1>8, <2>2, <2>4, OffersArePicks DEF Store!Info
<1>9. CASE Store!WriteRef(p)
  <2>1. /\ proc[p].at = "ref" /\ Store!Becomes(p, [proc[p] EXCEPT !.at = "fetch"])
        /\ ref' = proc[p].commit /\ link' = link /\ stored' = stored
    BY <1>9 DEF Store!WriteRef, Store!Goes
  <2>2. job' = [job EXCEPT ![p] =
          [w \in Store!Jobs |-> IF w <= Len(proc[p].files)
                                THEN [Store!Off EXCEPT !.at = "claim"] ELSE Store!Off]]
    BY <1>9 DEF Store!WriteRef
  <2>3. [Store!Off EXCEPT !.at = "claim"].at = "claim" /\ Store!Off.at = "off"
    BY DEF Store!Off
  <2>4. jobEffect
    BY <1>1, <2>2, <2>3
  <2> QED
    BY <1>4, <2>1, <2>4
<1>10. CASE Store!Join(p)
  <2>1. job' = job /\ link' = link /\ stored' = stored /\ ref' = ref /\ proc[p].at = "fetch"
    BY <1>10 DEF Store!Join, Store!Joined, Store!disk
  <2> DEFINE at == IF proc[p].failed \/ proc[p].signal THEN "err" ELSE "companion"
  <2>2. Store!Becomes(p, [proc[p] EXCEPT !.at = at]) /\ at \in {"err", "companion"}
    BY <1>10 DEF Store!Join
  <2> HIDE DEF at
  <2> QED
    BY <1>4, <2>1, <2>2 DEF Store!Ended
<1>11. CASE Store!Companions(p)
  <2>1. link' = link /\ stored' = stored /\ ref' = ref /\ proc[p].at = "companion"
    BY <1>11 DEF Store!Companions, Store!disk
  <2>2. CASE Store!Becomes(p, [proc[p] EXCEPT !.at = "ok"]) /\ job' = job
    BY <1>4, <2>1, <2>2 DEF Store!Ended
  <2>3. CASE /\ Store!Becomes(p, [proc[p] EXCEPT !.at = "extra"])
             /\ Store!Stays(p, 1, [Store!Off EXCEPT !.at = "head", !.file = "companion"])
    <3>1. [Store!Off EXCEPT !.at = "head", !.file = "companion"].at = "head"
      BY DEF Store!Off
    <3>2. \A v \in Store!Jobs : job[p][v].at = "off"
      BY <2>1 DEF PullTypes, IsAtWork
    <3>3. jobEffect
      BY <1>1, <2>3, <3>1, <3>2 DEF Store!Stays
    <3> QED
      BY <1>4, <2>1, <2>3, <3>3
  <2> QED
    BY <1>11, <2>2, <2>3 DEF Store!Companions, Store!Companion
<1>12. CASE Store!Signal(p)
  <2>1. job' = job /\ link' = link /\ stored' = stored /\ ref' = ref
    BY <1>12 DEF Store!Signal, Store!disk
  <2> DEFINE r == [proc[p] EXCEPT !.signal = TRUE]
  <2>2. Store!Becomes(p, r)
    BY <1>12 DEF Store!Signal
  <2>3. SameCall(proc[p], r) /\ r.at = proc[p].at
    BY <1>2 DEF SameCall, CallFields
  <2> HIDE DEF r
  <2> QED
    BY <1>3, <2>1, <2>2, <2>3
<1>13. CASE Store!Killed(p)
  <2>1. /\ Store!Becomes(p, Store!Idle) /\ link' = link /\ stored' = stored /\ ref' = ref
        /\ job' = [job EXCEPT ![p] = [w \in Store!Jobs |-> Store!Off]]
    BY <1>13 DEF Store!Killed, Store!disk
  <2>2. Store!Off.at = "off" /\ Store!Idle.at \in Store!Ended
    BY DEF Store!Off, Store!Idle, Store!Ended
  <2>3. jobEffect
    BY <1>1, <2>1, <2>2
  <2> QED
    BY <1>3, <2>1, <2>2, <2>3
<1> QED
  BY <1>7, <1>8, <1>9, <1>10, <1>11, <1>12, <1>13

-----------------------------------------------------------------------------
(* A process pulls the commit main names, or one main has left meanwhile; what   *)
(* its workers carry of a commit main has not left is of that commit.            *)
Settled ==
  \A p \in Procs : proc[p].at \in Pulling => proc[p].commit = main \/ proc[p].commit \in mixed

CarriesOwn(r, x) ==
  x.at \in Carrying /\ r.commit \notin mixed =>
    /\ x.want \in {0, setup.tree[r.commit][x.file]}
    /\ x.at # "fetch" => x.got = setup.tree[r.commit][x.file]

OneCommitInv ==
  /\ PullTypes /\ Settled
  /\ \A p \in Procs : \A w \in Store!Jobs : CarriesOwn(proc[p], job[p][w])
  /\ SnapshotIsOneCommit

LEMMA MovesKeepsOneCommit ==
  ASSUME OneCommitInv, PullTypes', setup' = setup, Store!Moves
  PROVE  OneCommitInv'
<1>1. /\ PullTypes
      /\ main' = main + 1 /\ link' = link /\ job' = job
      /\ mixed' = mixed \cup {proc[p].commit : p \in Store!Busy}
  BY MovesFacts DEF OneCommitInv
<1>2. Store!Commits' = Store!Commits /\ Store!Files' = Store!Files /\ Store!Jobs' = Store!Jobs
  BY DEF Store!Commits, Store!Files, Store!Jobs
<1>3. ASSUME NEW p \in Procs PROVE proc'[p].at = proc[p].at /\ proc'[p].commit = proc[p].commit
  BY <1>1, MovesEffects DEF SameCall
<1>4. ASSUME NEW p \in Procs, proc[p].at \in Pulling PROVE proc'[p].commit \in mixed'
  BY <1>1, <1>3, <1>4 DEF Store!Busy, Store!Ended, Pulling
<1>5. ASSUME NEW p \in Procs, NEW w \in Store!Jobs PROVE CarriesOwn(proc[p], job[p][w])'
  <2>1. job[p][w].at # "off" => proc[p].at \in Pulling
    BY <1>1 DEF PullTypes, IsAtWork, Pulling
  <2> QED
    BY <1>1, <1>3, <1>4, <2>1 DEF CarriesOwn, Carrying
<1>6. SnapshotIsOneCommit'
  BY <1>1, <1>2 DEF OneCommitInv, SnapshotIsOneCommit, Store!SnapshotIsOneCommit
<1>7. Settled'
  BY <1>3, <1>4 DEF Settled
<1> QED
  BY <1>2, <1>5, <1>6, <1>7 DEF OneCommitInv

LEMMA ProcKeepsOneCommit ==
  ASSUME OneCommitInv, PullTypes', setup' = setup, main' = main, mixed' = mixed,
         NEW p \in Procs,
         \/ Store!InfoFails(p) \/ Store!Info(p) \/ Store!WriteRef(p) \/ Store!Join(p)
         \/ Store!Companions(p) \/ Store!Signal(p) \/ Store!Killed(p)
  PROVE  OneCommitInv'
<1>1. /\ PullTypes /\ Settled
      /\ \A q \in Procs : \A w \in Store!Jobs : CarriesOwn(proc[q], job[q][w])
      /\ \A q \in Procs : \A w \in Store!Jobs : IsAtWork(proc[q], job[q][w], w)
  BY DEF OneCommitInv, PullTypes
<1>2. Store!Commits' = Store!Commits /\ Store!Files' = Store!Files /\ Store!Jobs' = Store!Jobs
  BY DEF Store!Commits, Store!Files, Store!Jobs
<1>3. SnapshotIsOneCommit'
  BY <1>1, <1>2, ProcEffects DEF OneCommitInv, SnapshotIsOneCommit, Store!SnapshotIsOneCommit
<1>4. Settled'
  <2>1. proc'[p].at \in Pulling => proc'[p].commit = main \/ proc'[p].commit \in mixed
    BY <1>1, ProcEffects DEF Settled, Pulling, SameCall, Store!Ended
  <2> QED
    BY <1>1, <2>1, ProcEffects DEF Settled
<1>5. ASSUME NEW q \in Procs, NEW w \in Store!Jobs PROVE CarriesOwn(proc[q], job[q][w])'
  <2>1. CASE q # p
    <3>1. CarriesOwn(proc'[q], job'[q][w])
      BY <1>1, <2>1, ProcEffects
    <3> QED
      BY <3>1 DEF CarriesOwn
  <2>2. CASE q = p /\ job'[p][w].at \notin Carrying
    BY <2>2 DEF CarriesOwn
  <2>3. CASE q = p /\ job'[p][w].at \in Carrying
    <3>1. job'[p] = job[p]
      BY <1>1, <2>3, ProcEffects DEF Carrying
    <3>2. IsAtWork(proc'[p], job'[p][w], w)
      <4>1. IsAtWork(proc[p], job[p][w], w)'
        BY <1>2 DEF PullTypes
      <4> QED
        BY <4>1 DEF IsAtWork
    <3>3. proc[p].at \in {"fetch", "extra"} /\ proc'[p].at \in {"fetch", "extra"}
      BY <1>1, <2>3, <3>1, <3>2 DEF IsAtWork, Carrying
    <3>4. proc'[p].commit = proc[p].commit
      BY <1>1, <3>3, ProcEffects DEF SameCall, Store!Ended
    <3> QED
      BY <1>1, <2>3, <3>1, <3>4 DEF CarriesOwn
  <2> QED
    BY <2>1, <2>2, <2>3
<1> QED
  BY <1>2, <1>3, <1>4, <1>5 DEF OneCommitInv

LEMMA WorkerKeepsOneCommit ==
  ASSUME OneCommitInv, PullTypes', setup' = setup, main' = main, mixed' = mixed,
         NEW p \in Procs, NEW w \in Store!Jobs, Store!WorkerStep(p, w)
  PROVE  OneCommitInv'
<1> DEFINE x == job[p][w]
<1> DEFINE c == proc[p].commit
<1>1. /\ PullTypes /\ Settled
      /\ \A q \in Procs : \A v \in Store!Jobs : CarriesOwn(proc[q], job[q][v])
      /\ \A q \in Procs : \A v \in Store!Jobs : IsAtWork(proc[q], job[q][v], v)
      /\ CallIsOfOneModel(proc[p]) /\ x \in JobRecords /\ stored \subseteq Nat \ {0}
      /\ link \in [Store!Commits -> [Store!Files -> Nat]]
      /\ job \in [Procs -> [Store!Jobs -> JobRecords]]
  BY DEF OneCommitInv, PullTypes
<1>2. Store!Commits' = Store!Commits /\ Store!Files' = Store!Files /\ Store!Jobs' = Store!Jobs
  BY DEF Store!Commits, Store!Files, Store!Jobs
<1>3. proc[p].at \in {"fetch", "extra"} /\ c \in Store!Commits /\ (c = main \/ c \in mixed)
  BY <1>1, WorkerEffects DEF IsAtWork, CallIsOfOneModel, Settled, Pulling
<1>4. Settled'
  BY <1>1, WorkerEffects DEF Settled, SameCall, Pulling
<1>5. ASSUME NEW y, Store!Stays(p, w, y), CarriesOwn(proc[p], y)
      PROVE  \A q \in Procs, v \in Store!Jobs : CarriesOwn(proc[q], job[q][v])'
  <2>1. job'[p][w] = y
    BY <1>1, <1>5 DEF Store!Stays
  <2> SUFFICES ASSUME NEW q \in Procs, NEW v \in Store!Jobs PROVE CarriesOwn(proc[q], job[q][v])'
    OBVIOUS
  <2>2. proc'[q].commit = proc[q].commit
    BY <1>1, WorkerEffects DEF SameCall
  <2>3. CASE q = p /\ v = w
    BY <1>5, <2>1, <2>2, <2>3 DEF CarriesOwn
  <2>4. CASE ~(q = p /\ v = w)
    <3>1. job'[q][v] = job[q][v]
      BY <1>1, <2>4, WorkerEffects
    <3>2. CarriesOwn(proc[q], job[q][v])
      BY <1>1 DEF OneCommitInv
    <3> QED
      BY <1>1, <2>2, <3>1, <3>2 DEF CarriesOwn
  <2> QED
    BY <2>3, <2>4
<1>6. link' = link => SnapshotIsOneCommit'
  BY <1>2 DEF OneCommitInv, SnapshotIsOneCommit, Store!SnapshotIsOneCommit
<1>7. ASSUME NEW f, NEW b, link' = [link EXCEPT ![c][f] = b],
             c \notin mixed => b \in {0, setup.tree[c][f]}
      PROVE  SnapshotIsOneCommit'
  <2>1. \A d \in Store!Commits, g \in Store!Files :
          link'[d][g] = IF d = c /\ g = f THEN b ELSE link[d][g]
    BY <1>1, <1>3, <1>7
  <2> QED
    BY <1>2, <1>7, <2>1 DEF OneCommitInv, SnapshotIsOneCommit, Store!SnapshotIsOneCommit,
       Store!None
<1>8. Store!Off.at = "off" /\ [Store!Off EXCEPT !.at = "claim"].at = "claim"
      /\ \A f : [Store!Off EXCEPT !.at = "head", !.file = f].at = "head"
  BY DEF Store!Off
<1>9. /\ CarriesOwn(proc[p], Store!Off)
      /\ CarriesOwn(proc[p], [Store!Off EXCEPT !.at = "claim"])
      /\ \A f : CarriesOwn(proc[p], [Store!Off EXCEPT !.at = "head", !.file = f])
  BY <1>8 DEF CarriesOwn, Carrying
<1>10. CASE Store!Claim(p, w)
  <2>1. link' = link
    BY <1>10 DEF Store!Claim, Store!disk
  <2>2. \/ Store!Stays(p, w, Store!Off)
        \/ \E f : Store!Stays(p, w, [Store!Off EXCEPT !.at = "head", !.file = f])
    BY <1>10 DEF Store!Claim
  <2> QED
    BY <1>2, <1>4, <1>5, <1>6, <1>9, <2>1, <2>2 DEF OneCommitInv
<1>11. CASE Store!HeadSha(p, w)
  <2>1. PICK want \in {0, setup.tree[main][x.file]} :
          Store!Stays(p, w, [x EXCEPT !.at = "fetch", !.want = want])
    BY <1>11 DEF Store!HeadSha, Store!None
  <2>2. link' = link
    BY <1>11 DEF Store!HeadSha, Store!disk
  <2> DEFINE y == [x EXCEPT !.at = "fetch", !.want = want]
  <2>3. y.at = "fetch" /\ y.want = want /\ y.file = x.file
    BY <1>1 DEF JobRecords
  <2>4. CarriesOwn(proc[p], y)
    BY <1>3, <2>3 DEF CarriesOwn
  <2> HIDE DEF y
  <2>5. Store!Stays(p, w, y)
    BY <2>1 DEF y
  <2> QED
    BY <1>2, <1>4, <1>5, <1>6, <2>2, <2>4, <2>5 DEF OneCommitInv
<1>12. CASE Store!FetchFails(p, w)
  <2>1. link' = link /\ Store!Stays(p, w, Store!Off)
    BY <1>12 DEF Store!FetchFails, Store!Fails, Store!disk
  <2> QED
    BY <1>2, <1>4, <1>5, <1>6, <1>9, <2>1 DEF OneCommitInv
<1>13. CASE Store!Fetch(p, w)
  <2> DEFINE got == IF x.want \in stored THEN x.want ELSE setup.tree[main][x.file]
  <2> DEFINE y == [x EXCEPT !.at = "unlink", !.got = got]
  <2>1. link' = link /\ x.at = "fetch" /\ (Store!Stays(p, w, Store!Off) \/ Store!Stays(p, w, y))
    BY <1>13 DEF Store!Fetch, Store!Fails
  <2>2. y.at = "unlink" /\ y.want = x.want /\ y.got = got /\ y.file = x.file
    BY <1>1 DEF JobRecords
  <2>3. CarriesOwn(proc[p], x)
    BY <1>1
  <2>4. c \notin mixed => got = setup.tree[c][x.file] /\ x.want \in {0, setup.tree[c][x.file]}
    BY <1>1, <1>3, <2>1, <2>3 DEF CarriesOwn, Carrying
  <2> HIDE DEF got
  <2>5. CarriesOwn(proc[p], y)
    BY <2>2, <2>4 DEF CarriesOwn
  <2> HIDE DEF y
  <2> QED
    BY <1>2, <1>4, <1>5, <1>6, <1>9, <2>1, <2>5 DEF OneCommitInv
<1>14. CASE Store!Unlink(p, w)
  <2> DEFINE y == [x EXCEPT !.at = "link"]
  <2>1. /\ x.at = "unlink" /\ Store!Stays(p, w, y) /\ link' = [link EXCEPT ![c][x.file] = 0]
    BY <1>14 DEF Store!Unlink, Store!None
  <2>2. y.at = "link" /\ y.want = x.want /\ y.got = x.got /\ y.file = x.file
    BY <1>1 DEF JobRecords
  <2>3. CarriesOwn(proc[p], x)
    BY <1>1
  <2>4. CarriesOwn(proc[p], y)
    BY <2>1, <2>2, <2>3 DEF CarriesOwn, Carrying
  <2> HIDE DEF y
  <2>5. SnapshotIsOneCommit'
    BY <1>7, <2>1
  <2> QED
    BY <1>2, <1>4, <1>5, <2>1, <2>4, <2>5 DEF OneCommitInv
<1>15. CASE Store!Link(p, w)
  <2>1. /\ x.at = "link"
        /\ \/ Store!Stays(p, w, Store!Off)
           \/ Store!Stays(p, w, [Store!Off EXCEPT !.at = "claim"])
        /\ link' = link \/ link' = [link EXCEPT ![c][x.file] = x.got]
    BY <1>15 DEF Store!Link, Store!Fails
  <2>2. CarriesOwn(proc[p], x)
    BY <1>1
  <2>3. c \notin mixed => x.got = setup.tree[c][x.file]
    BY <2>1, <2>2 DEF CarriesOwn, Carrying
  <2>4. SnapshotIsOneCommit'
    BY <1>6, <1>7, <2>1, <2>3
  <2> QED
    BY <1>2, <1>4, <1>5, <1>9, <2>1, <2>4 DEF OneCommitInv
<1> QED
  BY <1>10, <1>11, <1>12, <1>13, <1>14, <1>15 DEF Store!WorkerStep

LEMMA CallKeepsOneCommit ==
  ASSUME OneCommitInv, PullTypes', setup' = setup, main' = main, mixed' = mixed,
         NEW p \in Procs, Store!Call(p)
  PROVE  OneCommitInv'
<1>1. /\ PullTypes /\ Settled
      /\ \A q \in Procs : \A w \in Store!Jobs : CarriesOwn(proc[q], job[q][w])
      /\ \A q \in Procs : \A w \in Store!Jobs : IsAtWork(proc[q], job[q][w], w)
  BY DEF OneCommitInv, PullTypes
<1>2. Store!Commits' = Store!Commits /\ Store!Files' = Store!Files /\ Store!Jobs' = Store!Jobs
  BY DEF Store!Commits, Store!Files, Store!Jobs
<1>3. /\ link' = link /\ job' = job /\ proc[p].at \in Store!Ended
      /\ proc'[p].at \in {"ok", "info"}
      /\ \A q \in Procs \ {p} : proc'[q].at = proc[q].at /\ proc'[q].commit = proc[q].commit
  BY <1>1, CallEffects
<1>4. SnapshotIsOneCommit'
  BY <1>2, <1>3 DEF OneCommitInv, SnapshotIsOneCommit, Store!SnapshotIsOneCommit
<1>5. Settled'
  BY <1>1, <1>3 DEF Settled, Pulling
<1>6. ASSUME NEW q \in Procs, NEW w \in Store!Jobs PROVE CarriesOwn(proc[q], job[q][w])'
  <2>1. CASE q # p
    <3>1. CarriesOwn(proc[q], job[q][w])
      BY <1>1
    <3>2. proc'[q].commit = proc[q].commit /\ job' = job
      BY <1>3, <2>1
    <3> QED
      BY <3>1, <3>2 DEF CarriesOwn
  <2>2. CASE q = p
    <3>1. job[p][w].at = "off"
      BY <1>1, <1>3 DEF IsAtWork, Store!Ended
    <3> QED
      BY <1>3, <2>2, <3>1 DEF CarriesOwn, Carrying
  <2> QED
    BY <2>1, <2>2
<1> QED
  BY <1>2, <1>4, <1>5, <1>6 DEF OneCommitInv

LEMMA SnapshotsAreSound == Store!Spec => []OneCommitInv
<1>1. Store!Init => OneCommitInv
  <2> SUFFICES ASSUME Store!Init PROVE OneCommitInv
    OBVIOUS
  <2>1. PullTypes /\ proc = [p \in Procs |-> Store!Idle]
        /\ job = [p \in Procs |-> [w \in Store!Jobs |-> Store!Off]]
        /\ link = [c \in Store!Commits |-> [f \in Store!Files |-> 0]]
    BY PullInitTypes DEF Store!Init, Store!None
  <2>2. Store!Idle.at = "idle" /\ Store!Off.at = "off"
    BY DEF Store!Idle, Store!Off
  <2> QED
    BY <2>1, <2>2 DEF OneCommitInv, Settled, CarriesOwn, Pulling, Carrying,
       SnapshotIsOneCommit, Store!SnapshotIsOneCommit, Store!None
<1>2. OneCommitInv /\ [Store!Next]_Store!vars => OneCommitInv'
  <2> SUFFICES ASSUME OneCommitInv, [Store!Next]_Store!vars PROVE OneCommitInv'
    OBVIOUS
  <2>1. PullTypes /\ PullTypes'
    BY NextKeepsPullTypes DEF OneCommitInv
  <2>2. CASE UNCHANGED Store!vars
    <3>1. setup' = setup /\ main' = main /\ link' = link /\ proc' = proc /\ job' = job
          /\ mixed' = mixed
      BY <2>2 DEF Store!vars
    <3>2. Store!Commits' = Store!Commits /\ Store!Files' = Store!Files /\ Store!Jobs' = Store!Jobs
      BY <3>1 DEF Store!Commits, Store!Files, Store!Jobs
    <3> QED
      BY <2>1, <3>1, <3>2 DEF OneCommitInv, Settled, CarriesOwn, SnapshotIsOneCommit,
         Store!SnapshotIsOneCommit
  <2>3. CASE Store!Next
    <3>1. setup' = setup
      BY <2>3 DEF Store!Next
    <3>2. CASE Store!Moves
      BY <2>1, <3>1, <3>2, MovesKeepsOneCommit
    <3>3. ASSUME NEW p \in setup.procs, main' = main, mixed' = mixed, Store!Call(p)
          PROVE  OneCommitInv'
      <4>1. p \in Procs
        BY <2>1, SetupFacts DEF PullTypes
      <4> QED
        BY <2>1, <3>1, <3>3, <4>1, CallKeepsOneCommit
    <3>4. ASSUME NEW p \in setup.procs, main' = main, mixed' = mixed, Store!Step(p)
          PROVE  OneCommitInv'
      <4>1. p \in Procs
        BY <2>1, SetupFacts DEF PullTypes
      <4> QED
        BY <2>1, <3>1, <3>4, <4>1, ProcKeepsOneCommit, WorkerKeepsOneCommit DEF Store!Step
    <3> QED
      BY <2>3, <3>2, <3>3, <3>4 DEF Store!Next
  <2> QED
    BY <2>2, <2>3
<1> QED
  BY <1>1, <1>2, PTL DEF Store!Spec

(* A snapshot holds the files of its own commit, unless main left that commit    *)
(* while it was being pulled, however many processes pull, with however many      *)
(* workers, and wherever they fail or are killed (pull.rs:61, resolve_url).      *)
THEOREM SnapshotsAreOfOneCommit == Store!Spec => []SnapshotIsOneCommit
<1>1. OneCommitInv => SnapshotIsOneCommit
  BY DEF OneCommitInv
<1> QED
  BY <1>1, SnapshotsAreSound, PTL

-----------------------------------------------------------------------------
(* The snapshot of a commit holds a whole model.                               *)
Whole(c, m) ==
  FilesOf(setup, m) # {} /\ \A f \in FilesOf(setup, m) : link[c][f] # 0

LEMMA ModelFacts ==
  ASSUME setup \in Setups, NEW m \in DOMAIN setup.models
  PROVE  /\ m # "none"
         /\ Store!ShardFiles(m) = FilesOf(setup, m)
         /\ FilesOf(setup, m) \subseteq Store!Files \ {"companion"}
         /\ \A n \in DOMAIN setup.models : n # m => FilesOf(setup, m) \cap FilesOf(setup, n) = {}
<1>1. /\ "none" \notin DOMAIN setup.models
      /\ setup.models[m] \in Seq(DOMAIN setup.tree[1] \ {"companion"})
      /\ \A n \in DOMAIN setup.models \ {m} : FilesOf(setup, m) \cap FilesOf(setup, n) = {}
  BY KnownSetups
<1>2. FilesOf(setup, m) \subseteq DOMAIN setup.tree[1] \ {"companion"}
  BY <1>1 DEF FilesOf
<1> QED
  BY <1>1, <1>2 DEF Store!ShardFiles, Store!Shards, Store!Files, FilesOf

LEMMA WholeIsComplete ==
  ASSUME setup \in Setups, NEW c, NEW m \in DOMAIN setup.models
  PROVE  Whole(c, m) <=> FilesOf(setup, m) # {} /\ Store!Complete(c, m)
BY ModelFacts DEF Whole, Store!Complete, Store!Links, Store!None

(* A search for a model by its name.                                          *)
LEMMA NamedSearch ==
  ASSUME setup \in Setups, NEW c, NEW m \in DOMAIN setup.models
  PROVE  /\ \A names : Store!Picks(names, m) =
                         IF FilesOf(setup, m) \cap names # {} THEN {m} ELSE {}
         /\ Store!MayFail(c, m) <=> ~Whole(c, m)
<1>1. ASSUME NEW names
      PROVE  Store!Picks(names, m) = IF FilesOf(setup, m) \cap names # {} THEN {m} ELSE {}
  <2> DEFINE some == {n \in DOMAIN setup.models : Store!ShardFiles(n) \cap names # {}}
  <2>1. m # "none" /\ (m \in some <=> FilesOf(setup, m) \cap names # {})
    BY ModelFacts
  <2>2. Store!Picks(names, m) = some \cap {m}
    BY <2>1 DEF Store!Picks
  <2> HIDE DEF some
  <2> QED
    BY <2>1, <2>2
<1>2. CASE Whole(c, m)
  <2>1. FilesOf(setup, m) # {} /\ Store!Complete(c, m)
    BY <1>2, WholeIsComplete
  <2>2. FilesOf(setup, m) \cap Store!Links(c) # {}
    BY <2>1, ModelFacts DEF Store!Complete
  <2>3. Store!Picks(Store!Links(c), m) = {m} /\ Store!Answers(c, m) = {m}
    BY <1>1, <2>1, <2>2 DEF Store!Answers
  <2> QED
    BY <1>1, <1>2, <2>3 DEF Store!MayFail
<1>3. CASE ~Whole(c, m)
  <2>1. FilesOf(setup, m) = {} \/ ~Store!Complete(c, m)
    BY <1>3, WholeIsComplete
  <2>2. Store!Answers(c, m) = {}
    BY <1>1, <2>1 DEF Store!Answers
  <2> QED
    BY <1>1, <1>3, <2>2 DEF Store!MayFail
<1> QED
  BY <1>2, <1>3

LEMMA NoAnswerMeans ==
  ASSUME setup \in Setups, NEW sel
  PROVE  0 \in Store!Resolutions(sel) <=> \A c \in Store!Commits : Store!MayFail(c, sel)
<1>1. 0 \notin Store!Commits
  BY SetupFacts
<1>2. 0 \in Store!Resolutions(sel) <=> \A c \in Store!Searched(sel) : Store!MayFail(c, sel)
  BY <1>1 DEF Store!Resolutions, Store!Searched, Store!None
<1> QED
  BY <1>2 DEF Store!Searched

LEMMA ResolvableMeans ==
  ASSUME setup \in Setups
  PROVE  Store!Resolvable =
           {m \in DOMAIN setup.models : \E c \in Store!Commits : Whole(c, m)}
BY NamedSearch, NoAnswerMeans DEF Store!Resolvable, Store!None

(* What ensure pulls is not there already, unless it is a fallback.             *)
LEMMA PulledIsMissing ==
  ASSUME setup \in Setups, main \in Store!Commits, NEW sel, 0 \in Store!Resolutions(sel),
         NEW m \in Store!Picks(Store!Listed(main), sel), sel = "none" => m = setup.default
  PROVE  ~Store!Complete(main, m)
<1>1. m \in DOMAIN setup.models /\ Store!ShardFiles(m) \cap Store!Listed(main) # {}
  BY DEF Store!Picks
<1>2. FilesOf(setup, m) # {}
  BY <1>1, ModelFacts
<1>3. Store!MayFail(main, sel)
  BY NoAnswerMeans
<1>4. CASE sel \in DOMAIN setup.models
  <2>1. m = sel
    BY <1>4, NamedSearch
  <2> QED
    BY <1>1, <1>2, <1>3, <1>4, <2>1, NamedSearch, WholeIsComplete
<1>5. CASE sel = "none"
  <2> DEFINE some(names) == {n \in DOMAIN setup.models : Store!ShardFiles(n) \cap names # {}}
  <2>1. \A names : setup.default \in some(names) => Store!Picks(names, sel) = {setup.default}
    BY <1>5 DEF Store!Picks
  <2>4. m = setup.default
    BY <1>5
  <2> SUFFICES ASSUME Store!Complete(main, m) PROVE FALSE
    OBVIOUS
  <2>5. setup.default \in some(Store!Links(main))
    BY <1>1, <1>2, <2>4, ModelFacts DEF Store!Complete
  <2>6. Store!Picks(Store!Links(main), sel) = {m}
    BY <2>1, <2>4, <2>5
  <2>7. Store!Answers(main, sel) = {m}
    BY <2>6 DEF Store!Answers
  <2> QED
    BY <1>3, <2>6, <2>7 DEF Store!MayFail
<1>6. CASE sel \notin DOMAIN setup.models /\ sel # "none"
  BY <1>1, <1>6 DEF Store!Picks
<1> QED
  BY <1>4, <1>5, <1>6

-----------------------------------------------------------------------------
(* What a call found that it could answer it can still answer: what it removes   *)
(* is of the model it pulls, and that one was not whole in that commit.          *)
StillWhole(had) ==
  \A m \in had : m \in DOMAIN setup.models /\ \E c \in Store!Commits : Whole(c, m)

Lasting(r) == r.had \ Store!Fallback(r)

WholeApart(r) ==
  \A m \in Lasting(r) :
    /\ m \in DOMAIN setup.models
    /\ \E c \in Store!Commits :
         /\ Whole(c, m)
         /\ c = r.commit => \A i \in DOMAIN r.files : r.files[i] \notin FilesOf(setup, m)

NothingLost(r) ==
  /\ r.at = "info" => StillWhole(r.had) /\ (r.latest \/ 0 \in Store!Resolutions(r.sel))
  /\ r.at # "info" => StillWhole(Lasting(r))
  /\ r.at \in {"ref", "fetch"} => WholeApart(r)

CachedInv ==
  \A p \in Store!Busy : proc[p].alone => Store!Busy = {p} /\ NothingLost(proc[p])

LEMMA SameLinks ==
  ASSUME setup' = setup, link' = link
  PROVE  /\ Store!Commits' = Store!Commits
         /\ \A c, m : Whole(c, m)' <=> Whole(c, m)
         /\ ref' = ref => \A sel : Store!Resolutions(sel)' = Store!Resolutions(sel)
<1>1. Store!Commits' = Store!Commits /\ Store!Files' = Store!Files
  BY DEF Store!Commits, Store!Files
<1>2. \A c, m : Whole(c, m)' <=> Whole(c, m)
  BY DEF Whole, FilesOf
<1>3. \A c : Store!Links(c)' = Store!Links(c)
  BY <1>1 DEF Store!Links
<1>4. \A names, sel : Store!Picks(names, sel)' = Store!Picks(names, sel)
  BY DEF Store!Picks, Store!ShardFiles, Store!Shards
<1>5. \A c, m : Store!Complete(c, m)' <=> Store!Complete(c, m)
  BY <1>3 DEF Store!Complete, Store!ShardFiles, Store!Shards
<1>6. \A c, sel : Store!Answers(c, sel)' = Store!Answers(c, sel)
  BY <1>3, <1>4, <1>5 DEF Store!Answers
<1>7. \A c, sel : Store!MayFail(c, sel)' <=> Store!MayFail(c, sel)
  BY <1>3, <1>4, <1>6 DEF Store!MayFail
<1>8. ref' = ref => \A sel : Store!Searched(sel)' = Store!Searched(sel)
  BY <1>1, <1>7 DEF Store!Searched
<1>9. ref' = ref => \A sel : Store!Resolutions(sel)' = Store!Resolutions(sel)
  BY <1>6, <1>7, <1>8 DEF Store!Resolutions
<1> QED
  BY <1>1, <1>2, <1>9

LEMMA StillNothingLost ==
  ASSUME setup' = setup, link' = link, NEW p, NothingLost(proc'[p]),
         ref' = ref \/ proc'[p].at # "info"
  PROVE  NothingLost(proc[p])'
<1>1. /\ Store!Commits' = Store!Commits
      /\ \A c, m : Whole(c, m)' <=> Whole(c, m)
      /\ ref' = ref => \A sel : Store!Resolutions(sel)' = Store!Resolutions(sel)
  BY SameLinks
<1>5. Lasting(proc[p])' = Lasting(proc'[p])
  BY DEF Lasting, Store!Fallback, Store!Shards
<1>2. (proc[p].at # "info" => StillWhole(Lasting(proc[p])))'
  BY <1>1, <1>5 DEF NothingLost, StillWhole
<1>3. (proc[p].at = "info" =>
         StillWhole(proc[p].had) /\ (proc[p].latest \/ 0 \in Store!Resolutions(proc[p].sel)))'
  BY <1>1 DEF NothingLost, StillWhole
<1>4. (proc[p].at \in {"ref", "fetch"} => WholeApart(proc[p]))'
  BY <1>1, <1>5 DEF NothingLost, WholeApart, FilesOf
<1> QED
  BY <1>2, <1>3, <1>4 DEF NothingLost

LEMMA SameCallSameLasting ==
  ASSUME NEW r, NEW q, SameCall(r, q)
  PROVE  Lasting(q) = Lasting(r)
BY DEF SameCall, Lasting, Store!Fallback

LEMMA CallKeepsCached ==
  ASSUME PullTypes, CachedInv, setup' = setup, NEW p \in Procs, Store!Call(p)
  PROVE  CachedInv'
<1> SUFFICES ASSUME NEW q \in Procs, proc'[q].at \notin Store!Ended, proc'[q].alone
             PROVE  Store!Busy' = {q} /\ NothingLost(proc[q])'
  BY DEF CachedInv, Store!Busy, Store!Ended
<1>1. link' = link /\ ref' = ref /\ p \notin Store!Busy
  BY CallEffects DEF Store!Busy
<1>2. CASE proc'[p].at = "ok"
  <2>1. q # p /\ proc'[q] = proc[q] /\ Store!Busy' = Store!Busy /\ q \in Store!Busy
    BY <1>1, <1>2, CallEffects DEF Store!Busy, Store!Ended
  <2>2. Store!Busy = {q} /\ NothingLost(proc[q])
    BY <2>1 DEF CachedInv
  <2>3. NothingLost(proc'[q])
    BY <2>1, <2>2
  <2> QED
    BY <1>1, <2>1, <2>2, <2>3, StillNothingLost
<1>3. CASE proc'[p].at = "info"
  <2>1. q = p
    BY <1>3, CallEffects DEF Store!Ended
  <2>2. Store!Busy = {} /\ proc'[p].had = Store!Resolvable
        /\ (proc'[p].latest \/ 0 \in Store!Resolutions(proc'[p].sel))
    BY <1>3, <2>1, CallEffects DEF Store!Ended
  <2>3. Store!Busy' = {p}
    BY <1>3, <2>2, CallEffects DEF Store!Busy, Store!Ended
  <2>4. StillWhole(Store!Resolvable)
    BY ResolvableMeans DEF StillWhole, PullTypes
  <2>5. NothingLost(proc'[p])
    BY <1>3, <2>2, <2>4 DEF NothingLost
  <2> QED
    BY <1>1, <2>1, <2>3, <2>5, StillNothingLost
<1> QED
  BY <1>2, <1>3, CallEffects

LEMMA MovesKeepsCached ==
  ASSUME PullTypes, CachedInv, setup' = setup, Store!Moves
  PROVE  CachedInv'
<1> SUFFICES ASSUME NEW q \in Procs, proc'[q].at \notin Store!Ended, proc'[q].alone
             PROVE  Store!Busy' = {q} /\ NothingLost(proc[q])'
  BY DEF CachedInv, Store!Busy, Store!Ended
<1>1. link' = link /\ ref' = ref
  BY MovesFacts
<1>2. \A p \in Procs : SameCall(proc[p], proc'[p]) /\ proc'[p].at = proc[p].at
  BY MovesEffects
<1>3. Store!Busy' = Store!Busy /\ q \in Store!Busy /\ proc[q].alone
  BY <1>2 DEF Store!Busy, Store!Ended, SameCall
<1>4. Store!Busy = {q} /\ NothingLost(proc[q])
  BY <1>3 DEF CachedInv
<1>5. NothingLost(proc'[q])
  BY <1>2, <1>4, SameCallSameLasting DEF NothingLost, WholeApart, SameCall
<1> QED
  BY <1>1, <1>3, <1>4, <1>5, StillNothingLost

LEMMA ProcKeepsCached ==
  ASSUME PullTypes, CachedInv, setup' = setup, main' = main, NEW p \in Procs,
         \/ Store!InfoFails(p) \/ Store!Info(p) \/ Store!WriteRef(p) \/ Store!Join(p)
         \/ Store!Companions(p) \/ Store!Signal(p) \/ Store!Killed(p)
  PROVE  CachedInv'
<1>1. p \in Store!Busy
  BY DEF Store!InfoFails, Store!Info, Store!WriteRef, Store!Goes, Store!Join, Store!Joined,
         Store!Companions, Store!Signal, Store!Killed, Store!Busy, Store!Ended
<1> SUFFICES ASSUME NEW q \in Procs, proc'[q].at \notin Store!Ended, proc'[q].alone
             PROVE  Store!Busy' = {q} /\ NothingLost(proc[q])'
  BY DEF CachedInv, Store!Busy, Store!Ended
<1>2. q = p
  <2>1. CASE q # p
    <3>1. proc'[q] = proc[q] /\ q \in Store!Busy
      BY <2>1, ProcEffects DEF Store!Busy
    <3> QED
      BY <1>1, <2>1, <3>1 DEF CachedInv
  <2> QED
    BY <2>1
<1>3. proc[p].alone
  BY <1>2, ProcEffects DEF SameCall, Store!Ended
<1>4. Store!Busy = {p} /\ NothingLost(proc[p])
  BY <1>1, <1>3 DEF CachedInv
<1>5. Store!Busy' = {p}
  BY <1>2, <1>4, ProcEffects DEF Store!Busy
<1>6. link' = link
  BY ProcEffects
<1>7. CASE ref' = ref /\ SameCall(proc[p], proc'[p]) /\ proc'[p].at = proc[p].at
  <2>1. NothingLost(proc'[p])
    BY <1>4, <1>7, SameCallSameLasting DEF NothingLost, WholeApart, SameCall
  <2> QED
    BY <1>2, <1>5, <1>6, <1>7, <2>1, StillNothingLost
<1>8. CASE /\ ref' = proc[p].commit /\ SameCall(proc[p], proc'[p])
           /\ proc[p].at = "ref" /\ proc'[p].at = "fetch"
  <2>1. NothingLost(proc'[p]) /\ proc'[p].at # "info"
    BY <1>4, <1>8, SameCallSameLasting DEF NothingLost, WholeApart, SameCall
  <2> QED
    BY <1>2, <1>5, <1>6, <2>1, StillNothingLost
<1>9. CASE /\ ref' = ref /\ SameCall(proc[p], proc'[p])
           /\ \/ proc[p].at = "fetch" /\ proc'[p].at = "companion"
              \/ proc[p].at = "companion" /\ proc'[p].at = "extra"
  <2>1. NothingLost(proc'[p])
    BY <1>4, <1>9, SameCallSameLasting DEF NothingLost, WholeApart, SameCall
  <2> QED
    BY <1>2, <1>5, <1>6, <1>9, <2>1, StillNothingLost
<1>10. CASE /\ ref' = ref /\ proc[p].at = "info" /\ proc'[p].commit = main
            /\ proc'[p].alone = proc[p].alone /\ proc'[p].had = proc[p].had
            /\ proc'[p].sel = proc[p].sel /\ proc'[p].latest = proc[p].latest
            /\ \E m \in Store!Picks(Store!Listed(main), proc[p].sel) :
                 /\ proc'[p].files = setup.models[m]
                 /\ proc'[p].at = IF proc[p].latest /\ Store!Complete(main, m)
                                  THEN "companion" ELSE "ref"
  <2>1. PICK m \in Store!Picks(Store!Listed(main), proc[p].sel) :
          /\ proc'[p].files = setup.models[m]
          /\ proc'[p].at = IF proc[p].latest /\ Store!Complete(main, m)
                           THEN "companion" ELSE "ref"
    BY <1>10
  <2>2. /\ m \in DOMAIN setup.models /\ setup \in Setups /\ main \in Store!Commits
        /\ StillWhole(proc[p].had)
        /\ proc[p].latest \/ 0 \in Store!Resolutions(proc[p].sel)
    BY <1>4, <1>10, PicksAreModels DEF PullTypes, NothingLost
  <2>3. ASSUME proc'[p].at = "ref" PROVE WholeApart(proc'[p])
    <3>1. m \in Store!Fallback(proc'[p]) \/ ~Store!Complete(main, m)
      <4>1. CASE proc[p].latest
        BY <2>1, <2>3, <4>1
      <4>2. CASE ~proc[p].latest /\ (proc[p].sel = "none" => m = setup.default)
        BY <2>2, <4>2, PulledIsMissing
      <4>3. CASE ~proc[p].latest /\ proc[p].sel = "none" /\ m # setup.default
        BY <1>10, <2>1, <2>2, <4>3 DEF Store!Fallback, Store!Shards
      <4> QED
        BY <4>1, <4>2, <4>3
    <3>2. \A i \in DOMAIN setup.models[m] : setup.models[m][i] \in FilesOf(setup, m)
      BY DEF FilesOf
    <3>3. ASSUME NEW n \in proc[p].had, n \notin Store!Fallback(proc'[p])
          PROVE  \E c \in Store!Commits :
                   /\ Whole(c, n)
                   /\ c = main => \A i \in DOMAIN setup.models[m] :
                                   setup.models[m][i] \notin FilesOf(setup, n)
      <4>1. n \in DOMAIN setup.models
        BY <2>2 DEF StillWhole
      <4>2. PICK c \in Store!Commits : Whole(c, n)
        BY <2>2 DEF StillWhole
      <4>3. c = main => n # m
        BY <2>2, <3>1, <3>3, <4>2, WholeIsComplete
      <4>4. n # m => FilesOf(setup, n) \cap FilesOf(setup, m) = {}
        BY <2>2, <4>1, ModelFacts
      <4> QED
        BY <3>2, <4>2, <4>3, <4>4
    <3> QED
      BY <1>10, <2>1, <2>2, <3>3 DEF WholeApart, StillWhole, Lasting
  <2>5. StillWhole(Lasting(proc'[p])) /\ proc'[p].at # "info"
    BY <1>10, <2>1, <2>2 DEF StillWhole, Lasting
  <2>4. NothingLost(proc'[p])
    BY <2>1, <2>3, <2>5 DEF NothingLost
  <2> QED
    BY <1>2, <1>5, <1>6, <1>10, <2>4, StillNothingLost
<1> QED
  BY <1>2, <1>7, <1>8, <1>9, <1>10, ProcEffects

LEMMA WorkerKeepsCached ==
  ASSUME PullTypes, CachedInv, setup' = setup, NEW p \in Procs, NEW w \in Store!Jobs,
         Store!WorkerStep(p, w)
  PROVE  CachedInv'
<1> DEFINE x == job[p][w]
<1>1. /\ p \in Store!Busy /\ proc[p].at \in {"fetch", "extra"} /\ IsAtWork(proc[p], x, w)
      /\ setup \in Setups
  BY WorkerEffects DEF PullTypes, IsAtWork, Store!Busy, Store!Ended
<1> SUFFICES ASSUME NEW q \in Procs, proc'[q].at \notin Store!Ended, proc'[q].alone
             PROVE  Store!Busy' = {q} /\ NothingLost(proc[q])'
  BY DEF CachedInv, Store!Busy, Store!Ended
<1>2. q = p
  <2>1. CASE q # p
    <3>1. proc'[q] = proc[q] /\ q \in Store!Busy
      BY <2>1, WorkerEffects DEF Store!Busy
    <3> QED
      BY <1>1, <2>1, <3>1 DEF CachedInv
  <2> QED
    BY <2>1
<1>3. SameCall(proc[p], proc'[p]) /\ proc'[p].at = proc[p].at /\ proc[p].alone
  BY <1>2, WorkerEffects DEF SameCall, Store!Ended
<1>4. Store!Busy = {p} /\ NothingLost(proc[p])
  BY <1>1, <1>3 DEF CachedInv
<1>5. Store!Busy' = {p}
  BY <1>2, <1>4, WorkerEffects DEF Store!Busy
<1>6. NothingLost(proc'[p]) /\ proc'[p].at # "info"
  BY <1>1, <1>3, <1>4, SameCallSameLasting DEF NothingLost, WholeApart, SameCall
<1>7. CASE link' = link
  BY <1>2, <1>5, <1>6, <1>7, StillNothingLost
<1>8. ASSUME link' # link
      PROVE  /\ x.at \in {"unlink", "link"}
             /\ \E b : link' = [link EXCEPT ![proc[p].commit][x.file] = b]
             /\ x.at = "link" => link[proc[p].commit][x.file] = 0
  BY <1>8 DEF Store!WorkerStep, Store!Claim, Store!HeadSha, Store!FetchFails, Store!Fetch,
     Store!Unlink, Store!Link, Store!disk, Store!None
<1>9. CASE link' # link
  <2>1. PICK b : link' = [link EXCEPT ![proc[p].commit][x.file] = b]
    BY <1>8, <1>9
  <2>2. \A c \in Store!Commits, f \in Store!Files :
          c # proc[p].commit \/ f # x.file => link'[c][f] = link[c][f]
    BY <2>1 DEF PullTypes
  <2>3. \/ proc[p].at = "extra" /\ x.file = "companion"
        \/ proc[p].at = "fetch" /\ \E i \in DOMAIN proc[p].files : x.file = proc[p].files[i]
    BY <1>1, <1>8, <1>9 DEF IsAtWork
  <2>4. ASSUME NEW m \in DOMAIN setup.models, NEW c \in Store!Commits, Whole(c, m),
               c = proc[p].commit => x.file \notin FilesOf(setup, m)
        PROVE  Whole(c, m)'
    <3>1. FilesOf(setup, m) \subseteq Store!Files
      BY <1>1, ModelFacts
    <3>2. \A f \in FilesOf(setup, m) : link'[c][f] # 0
      BY <2>2, <2>4, <3>1 DEF Whole
    <3> QED
      BY <2>4, <3>2 DEF Whole, FilesOf
  <2>5. Store!Commits' = Store!Commits
    BY DEF Store!Commits
  <2>8. Lasting(proc[p])' = Lasting(proc[p])
    BY <1>3 DEF SameCall, Lasting, Store!Fallback, Store!Shards
  <2>6. CASE proc[p].at = "fetch"
    <3>1. WholeApart(proc[p])
      BY <1>4, <2>6 DEF NothingLost
    <3>2. ASSUME NEW m \in Lasting(proc[p])
          PROVE  /\ m \in DOMAIN setup.models
                 /\ \E c \in Store!Commits :
                      /\ Whole(c, m)'
                      /\ c = proc[p].commit =>
                           \A i \in DOMAIN proc[p].files : proc[p].files[i] \notin FilesOf(setup, m)
      <4>1. PICK c \in Store!Commits :
              /\ Whole(c, m)
              /\ c = proc[p].commit =>
                   \A i \in DOMAIN proc[p].files : proc[p].files[i] \notin FilesOf(setup, m)
        BY <3>1 DEF WholeApart
      <4>2. m \in DOMAIN setup.models
        BY <3>1 DEF WholeApart
      <4>3. Whole(c, m)'
        BY <2>3, <2>4, <2>6, <4>1, <4>2
      <4> QED
        BY <4>1, <4>2, <4>3
    <3>3. StillWhole(Lasting(proc[p]))'
      BY <2>5, <2>8, <3>2 DEF StillWhole
    <3>4. WholeApart(proc[p])'
      BY <1>3, <2>5, <2>8, <3>2 DEF WholeApart, SameCall, FilesOf
    <3> QED
      BY <1>2, <1>3, <1>5, <2>6, <3>3, <3>4 DEF NothingLost
  <2>7. CASE proc[p].at = "extra"
    <3>1. StillWhole(Lasting(proc[p]))
      BY <1>4, <2>7 DEF NothingLost
    <3>2. ASSUME NEW m \in Lasting(proc[p])
          PROVE  m \in DOMAIN setup.models /\ \E c \in Store!Commits : Whole(c, m)'
      <4>1. PICK c \in Store!Commits : Whole(c, m)
        BY <3>1 DEF StillWhole
      <4>2. m \in DOMAIN setup.models
        BY <3>1 DEF StillWhole
      <4>3. x.file \notin FilesOf(setup, m)
        BY <1>1, <2>3, <2>7, <4>2, ModelFacts
      <4> QED
        BY <2>4, <4>1, <4>2, <4>3
    <3>3. StillWhole(Lasting(proc[p]))'
      BY <2>5, <2>8, <3>2 DEF StillWhole
    <3> QED
      BY <1>2, <1>3, <1>5, <2>7, <3>3 DEF NothingLost
  <2> QED
    BY <1>1, <2>6, <2>7
<1> QED
  BY <1>7, <1>9

LEMMA PullsTakeNothingAway == Store!Spec => [](PullTypes /\ CachedInv)
<1>1. Store!Init => PullTypes /\ CachedInv
  <2>1. Store!Init => proc = [p \in Procs |-> Store!Idle]
    BY DEF Store!Init
  <2>2. Store!Idle.at = "idle"
    BY DEF Store!Idle
  <2> QED
    BY <2>1, <2>2, PullInitTypes DEF CachedInv, Store!Busy, Store!Ended
<1>2. PullTypes /\ CachedInv /\ [Store!Next]_Store!vars => CachedInv'
  <2> SUFFICES ASSUME PullTypes, CachedInv, [Store!Next]_Store!vars PROVE CachedInv'
    OBVIOUS
  <2>1. CASE UNCHANGED Store!vars
    <3>1. setup' = setup /\ link' = link /\ ref' = ref /\ proc' = proc
      BY <2>1 DEF Store!vars
    <3>2. Store!Busy' = Store!Busy
      BY <3>1 DEF Store!Busy
    <3>3. \A p \in Store!Busy : NothingLost(proc[p]) => NothingLost(proc[p])'
      <4> SUFFICES ASSUME NEW p \in Store!Busy, NothingLost(proc[p]) PROVE NothingLost(proc[p])'
        OBVIOUS
      <4>1. NothingLost(proc'[p])
        BY <3>1
      <4> QED
        BY <3>1, <4>1, StillNothingLost
    <3> QED
      BY <3>1, <3>2, <3>3 DEF CachedInv
  <2>2. CASE Store!Next
    <3>1. setup' = setup
      BY <2>2 DEF Store!Next
    <3>2. ASSUME NEW p \in setup.procs, main' = main, Store!Call(p) \/ Store!Step(p)
          PROVE  CachedInv'
      <4>1. p \in Procs
        BY SetupFacts DEF PullTypes
      <4> QED
        BY <3>1, <3>2, <4>1, CallKeepsCached, ProcKeepsCached, WorkerKeepsCached DEF Store!Step
    <3> QED
      BY <2>2, <3>1, <3>2, MovesKeepsCached DEF Store!Next
  <2> QED
    BY <2>1, <2>2
<1> QED
  BY <1>1, <1>2, NextKeepsPullTypes, PTL DEF Store!Spec

(* A quant that could be resolved when a pull began, no other process pulling,   *)
(* can be resolved at every moment of it: what it unlinks is of a model its       *)
(* snapshot did not hold whole (pull.rs, fetch_all), or of the fallback it pulls   *)
(* without a selector in a repository that lists no default quant.              *)
THEOREM PulledModelsStayCached == Store!Spec => []StaysCached
<1>1. PullTypes /\ CachedInv => StaysCached
  BY ResolvableMeans DEF PullTypes, CachedInv, NothingLost, StillWhole, Lasting, StaysCached,
     Store!StaysCached
<1> QED
  BY <1>1, PullsTakeNothingAway, PTL

-----------------------------------------------------------------------------
(* How far a process has come that pulls alone.  x is its crew, l the snapshot it        *)
(* fills.  As long as nothing failed, a file before its cursor is linked or in a    *)
(* worker's hand, and somebody is at work until the cursor is past the last.  *)
Held == {"head", "fetch", "unlink", "link"}

Claimed(r, x, l) ==
  \A i \in DOMAIN r.files :
    i < r.cursor => l[r.files[i]] # 0
                    \/ \E w \in DOMAIN x : x[w].at \in Held /\ x[w].file = r.files[i]

AtWork(r, x) == r.cursor > Len(r.files) \/ \E w \in DOMAIN x : x[w].at # "off"

Linked(r, l) == \A i \in DOMAIN r.files : l[r.files[i]] # 0

Flags(r) ==
  r.stop \in BOOLEAN /\ r.failed \in BOOLEAN /\ r.signal \in BOOLEAN /\ r.quiet \in BOOLEAN

Progress(r, x, l) ==
  /\ Flags(r) /\ (r.stop = TRUE => r.failed = TRUE)
  /\ r.at \in {"info", "ref"} => r.cursor = 1
  /\ r.at \in {"companion", "extra"} => Linked(r, l)
  /\ \A w \in DOMAIN x : x[w].at \in {"unlink", "link"} => x[w].got # 0
  /\ r.at = "fetch" /\ r.failed = FALSE /\ r.signal = FALSE => Claimed(r, x, l) /\ AtWork(r, x)

(* And where nothing goes wrong, nothing fails: what it fetches is all there in the     *)
(* commit main still names, no two workers hold one file, and the name a file is      *)
(* linked under is free.                                                    *)
OwnFile(r, x, w) ==
  /\ \E i \in DOMAIN r.files : i < r.cursor /\ x[w].file = r.files[i]
  /\ \A v \in DOMAIN x : x[v].at \in Held /\ x[v].file = x[w].file => v = w

Smooth(r, x, l, c, t) ==
  /\ r.failed = FALSE /\ r.signal = FALSE
  /\ r.at \in Pulling => r.commit = c
  /\ r.at \in {"ref", "fetch"} =>
       \A i \in DOMAIN r.files :
         t[r.files[i]] # 0 /\ \A j \in DOMAIN r.files : r.files[i] = r.files[j] => i = j
  /\ r.at = "fetch" =>
       \A w \in DOMAIN x :
         /\ x[w].at \in Held => OwnFile(r, x, w)
         /\ x[w].at \in Carrying => x[w].want \in {0, t[x[w].file]}
         /\ x[w].at = "link" => l[x[w].file] = 0

YesInv ==
  \A p \in Store!Busy :
    proc[p].alone =>
      /\ Progress(proc[p], job[p], link[proc[p].commit])
      /\ proc[p].quiet = TRUE =>
           Smooth(proc[p], job[p], link[proc[p].commit], main, setup.tree[main])

(* What a worker's turn leaves of this.  r1, x1 and l1 are the call, its crew and the    *)
(* snapshot after it.                                                       *)
SameFlags(r, r1) ==
  /\ r1.stop = r.stop /\ r1.failed = r.failed /\ r1.signal = r.signal /\ r1.quiet = r.quiet
  /\ r1.at = r.at /\ r1.commit = r.commit /\ r1.files = r.files

Turned(x, x1, w) == DOMAIN x1 = DOMAIN x /\ \A v \in DOMAIN x : v # w => x1[v] = x[v]

LEMMA ClaimProgress ==
  ASSUME NEW F, NEW r, NEW r1, NEW x, NEW x1, NEW l, NEW w \in DOMAIN x,
         r.files \in Seq(F), r.cursor \in Nat \ {0}, SameFlags(r, r1), r1.cursor = r.cursor + 1,
         Turned(x, x1, w), r.at = "fetch", x[w].at = "claim",
         IF r.cursor > Len(r.files) THEN x1[w].at = "off"
         ELSE x1[w].at = "head" /\ x1[w].file = r.files[r.cursor],
         Progress(r, x, l)
  PROVE  /\ Progress(r1, x1, l)
         /\ \A c, t : Smooth(r, x, l, c, t) => Smooth(r1, x1, l, c, t)
<1> DEFINE n == Len(r.files)
<1>1. n \in Nat /\ DOMAIN r.files = 1 .. n /\ w \in DOMAIN x1
  BY DEF Turned
<1>2. /\ Flags(r1) /\ (r1.stop = TRUE => r1.failed = TRUE) /\ r1.at = "fetch"
      /\ \A v \in DOMAIN x1 : x1[v].at \in {"unlink", "link"} => x1[v].got # 0
  BY DEF Progress, Flags, SameFlags, Turned
<1>3. ASSUME r1.failed = FALSE, r1.signal = FALSE PROVE Claimed(r1, x1, l) /\ AtWork(r1, x1)
  <2>1. Claimed(r, x, l)
    BY <1>3 DEF Progress, SameFlags
  <2>2. ASSUME NEW i \in 1 .. n, i < r.cursor + 1
        PROVE  l[r.files[i]] # 0
               \/ \E v \in DOMAIN x1 : x1[v].at \in Held /\ x1[v].file = r.files[i]
    <3>1. CASE i = r.cursor
      <4>1. ~(r.cursor > n)
        BY <1>1, <3>1
      <4>2. x1[w].at \in Held /\ x1[w].file = r.files[i]
        BY <3>1, <4>1 DEF Held
      <4> QED
        BY <1>1, <4>2
    <3>2. CASE i # r.cursor
      <4>1. i < r.cursor
        BY <2>2, <3>2
      <4>2. \/ l[r.files[i]] # 0
            \/ \E v \in DOMAIN x : x[v].at \in Held /\ x[v].file = r.files[i]
        BY <1>1, <2>1, <4>1 DEF Claimed
      <4>3. \A v \in DOMAIN x : x[v].at \in Held => v # w
        BY DEF Held
      <4> QED
        BY <4>2, <4>3 DEF Turned
    <3> QED
      BY <3>1, <3>2
  <2>3. Claimed(r1, x1, l)
    BY <1>1, <2>2 DEF Claimed, SameFlags
  <2>4. AtWork(r1, x1)
    <3>1. CASE r.cursor > n
      <4>1. r.cursor + 1 > n
        BY <1>1, <3>1
      <4> QED
        BY <4>1 DEF AtWork, SameFlags
    <3>2. CASE ~(r.cursor > n)
      BY <1>1, <3>2 DEF AtWork
    <3> QED
      BY <3>1, <3>2
  <2> QED
    BY <2>3, <2>4
<1>4. ASSUME NEW c, NEW t, Smooth(r, x, l, c, t) PROVE Smooth(r1, x1, l, c, t)
  <2>1. ASSUME NEW v \in DOMAIN x1
        PROVE /\ x1[v].at \in Held => OwnFile(r1, x1, v)
              /\ x1[v].at \in Carrying => x1[v].want \in {0, t[x1[v].file]}
              /\ x1[v].at = "link" => l[x1[v].file] = 0
    <3>1. \A u \in DOMAIN x : x[u].at \in Held =>
            u # w /\ x1[u] = x[u] /\ \E i \in 1 .. n : i < r.cursor /\ x[u].file = r.files[i]
      BY <1>1, <1>4 DEF Smooth, OwnFile, Turned, Held
    <3>2. ASSUME x1[w].at \in Held
          PROVE  /\ x1[w].file = r.files[r.cursor] /\ r.cursor \in 1 .. n
                 /\ \A u \in DOMAIN x : x[u].at \in Held => x[u].file # x1[w].file
      <4>1. x1[w].file = r.files[r.cursor] /\ r.cursor \in 1 .. n
        BY <1>1, <3>2 DEF Held
      <4>2. \A i \in 1 .. n : i < r.cursor => r.files[i] # r.files[r.cursor]
        BY <1>1, <1>4, <4>1 DEF Smooth
      <4> QED
        BY <3>1, <4>1, <4>2
    <3>3. CASE v = w
      <4>1. x1[w].at \notin Carrying
        BY DEF Carrying
      <4>2. ASSUME x1[w].at \in Held PROVE OwnFile(r1, x1, w)
        <5>1. r.cursor < r1.cursor /\ r.cursor \in DOMAIN r1.files
              /\ x1[w].file = r1.files[r.cursor]
          BY <1>1, <3>2, <4>2 DEF SameFlags
        <5>2. ASSUME NEW u \in DOMAIN x1, x1[u].at \in Held, x1[u].file = x1[w].file PROVE u = w
          BY <3>2, <4>2, <5>2 DEF Turned
        <5> QED
          BY <5>1, <5>2 DEF OwnFile
      <4> QED
        BY <3>3, <4>1, <4>2 DEF Carrying
    <3>4. CASE v # w
      <4>1. v \in DOMAIN x /\ x1[v] = x[v]
        BY <3>4 DEF Turned
      <4>2. ASSUME x[v].at \in Held PROVE OwnFile(r1, x1, v)
        <5>1. OwnFile(r, x, v)
          BY <1>4, <4>1, <4>2 DEF Smooth
        <5>2. \E i \in DOMAIN r1.files : i < r1.cursor /\ x1[v].file = r1.files[i]
          <6>1. PICK i \in DOMAIN r.files : i < r.cursor /\ x[v].file = r.files[i]
            BY <5>1 DEF OwnFile
          <6>2. i < r.cursor + 1
            BY <1>1, <6>1
          <6> QED
            BY <4>1, <6>1, <6>2 DEF SameFlags
        <5>3. ASSUME NEW u \in DOMAIN x1, x1[u].at \in Held, x1[u].file = x1[v].file PROVE u = v
          <6>1. u # w
            BY <3>2, <4>1, <4>2, <5>3
          <6> QED
            BY <4>1, <5>1, <5>3, <6>1 DEF OwnFile, Turned
        <5> QED
          BY <5>2, <5>3 DEF OwnFile
      <4>3. /\ x[v].at \in Carrying => x[v].want \in {0, t[x[v].file]}
            /\ x[v].at = "link" => l[x[v].file] = 0
        BY <1>4, <4>1 DEF Smooth
      <4> QED
        BY <4>1, <4>2, <4>3
    <3> QED
      BY <3>3, <3>4
  <2> QED
    BY <1>2, <1>4, <2>1 DEF Smooth, SameFlags
<1> QED
  BY <1>2, <1>3, <1>4 DEF Progress

(* A worker that goes on with its file; the snapshot changes under that name only.     *)
LEMMA TurnProgress ==
  ASSUME NEW r, NEW x, NEW x1, NEW l, NEW l1, NEW w \in DOMAIN x,
         Turned(x, x1, w), r.at = "fetch", x[w].at \in Held, x1[w].at \in Held,
         x1[w].file = x[w].file, x1[w].at \in {"unlink", "link"} => x1[w].got # 0,
         \A i \in DOMAIN r.files : r.files[i] # x[w].file => l1[r.files[i]] = l[r.files[i]],
         \A v \in DOMAIN x : x[v].file # x[w].file => l1[x[v].file] = l[x[v].file] \/ x[v].at # "link",
         Progress(r, x, l)
  PROVE  /\ Progress(r, x1, l1)
         /\ \A c, t : /\ Smooth(r, x, l, c, t)
                      /\ x1[w].at \in Carrying => x1[w].want \in {0, t[x1[w].file]}
                      /\ x1[w].at = "link" => l1[x1[w].file] = 0
                      => Smooth(r, x1, l1, c, t)
<1>1. w \in DOMAIN x1 /\ DOMAIN x1 = DOMAIN x
  BY DEF Turned
<1>2. /\ Flags(r) /\ (r.stop = TRUE => r.failed = TRUE)
      /\ \A v \in DOMAIN x1 : x1[v].at \in {"unlink", "link"} => x1[v].got # 0
  BY DEF Progress, Turned
<1>3. ASSUME r.failed = FALSE, r.signal = FALSE PROVE Claimed(r, x1, l1) /\ AtWork(r, x1)
  <2>1. ASSUME NEW i \in DOMAIN r.files, i < r.cursor
        PROVE  l1[r.files[i]] # 0
               \/ \E v \in DOMAIN x1 : x1[v].at \in Held /\ x1[v].file = r.files[i]
    <3>1. \/ l[r.files[i]] # 0
          \/ \E v \in DOMAIN x : x[v].at \in Held /\ x[v].file = r.files[i]
      BY <1>3, <2>1 DEF Progress, Claimed
    <3>2. CASE r.files[i] = x[w].file
      BY <1>1, <3>2
    <3>3. CASE r.files[i] # x[w].file
      <4>1. \A v \in DOMAIN x : x[v].file = r.files[i] => x1[v] = x[v]
        BY <3>3 DEF Turned
      <4> QED
        BY <1>1, <3>1, <3>3, <4>1
    <3> QED
      BY <3>2, <3>3
  <2>2. x1[w].at # "off"
    BY DEF Held
  <2> QED
    BY <1>1, <2>1, <2>2 DEF Claimed, AtWork
<1>4. ASSUME NEW c, NEW t, Smooth(r, x, l, c, t),
             x1[w].at \in Carrying => x1[w].want \in {0, t[x1[w].file]},
             x1[w].at = "link" => l1[x1[w].file] = 0
      PROVE  Smooth(r, x1, l1, c, t)
  <2>1. \A u \in DOMAIN x : x[u].at \in Held => OwnFile(r, x, u)
    BY <1>4 DEF Smooth
  <2>2. \A u \in DOMAIN x1 : x1[u].at \in Held => x[u].at \in Held /\ x[u].file = x1[u].file
    BY <1>1 DEF Turned
  <2>3. ASSUME NEW v \in DOMAIN x1, x1[v].at \in Held PROVE OwnFile(r, x1, v)
    <3>1. OwnFile(r, x, v) /\ x[v].file = x1[v].file
      BY <1>1, <2>1, <2>2, <2>3
    <3> QED
      BY <1>1, <2>2, <3>1 DEF OwnFile
  <2>4. ASSUME NEW v \in DOMAIN x1
        PROVE /\ x1[v].at \in Carrying => x1[v].want \in {0, t[x1[v].file]}
              /\ x1[v].at = "link" => l1[x1[v].file] = 0
    <3>1. CASE v = w
      BY <1>4, <3>1
    <3>2. CASE v # w
      <4>1. x1[v] = x[v] /\ v \in DOMAIN x
        BY <1>1, <3>2 DEF Turned
      <4>2. /\ x[v].at \in Carrying => x[v].want \in {0, t[x[v].file]}
            /\ x[v].at = "link" => l[x[v].file] = 0
        BY <1>4, <4>1 DEF Smooth
      <4>3. x[v].at = "link" => x[v].file # x[w].file
        <5>1. OwnFile(r, x, w)
          BY <2>1
        <5> QED
          BY <3>2, <4>1, <5>1 DEF OwnFile, Held
      <4> QED
        BY <4>1, <4>2, <4>3
    <3> QED
      BY <3>1, <3>2
  <2> QED
    BY <1>4, <2>3, <2>4 DEF Smooth
<1> QED
  BY <1>2, <1>3, <1>4 DEF Progress

(* A worker that has linked its file and looks for another.                    *)
LEMMA LinkProgress ==
  ASSUME NEW r, NEW x, NEW x1, NEW l, NEW l1, NEW w \in DOMAIN x,
         Turned(x, x1, w), r.at = "fetch", x[w].at = "link", x1[w].at = "claim",
         \A i \in DOMAIN r.files : r.files[i] # x[w].file => l1[r.files[i]] = l[r.files[i]],
         \A i \in DOMAIN r.files : r.files[i] = x[w].file => l1[r.files[i]] # 0,
         \A v \in DOMAIN x : x[v].file # x[w].file => l1[x[v].file] = l[x[v].file] \/ x[v].at # "link",
         Progress(r, x, l)
  PROVE  /\ Progress(r, x1, l1)
         /\ \A c, t : Smooth(r, x, l, c, t) => Smooth(r, x1, l1, c, t)
<1>1. w \in DOMAIN x1 /\ DOMAIN x1 = DOMAIN x
  BY DEF Turned
<1>2. /\ Flags(r) /\ (r.stop = TRUE => r.failed = TRUE)
      /\ \A v \in DOMAIN x1 : x1[v].at \in {"unlink", "link"} => x1[v].got # 0
  BY DEF Progress, Turned
<1>3. ASSUME r.failed = FALSE, r.signal = FALSE PROVE Claimed(r, x1, l1) /\ AtWork(r, x1)
  <2>1. ASSUME NEW i \in DOMAIN r.files, i < r.cursor
        PROVE  l1[r.files[i]] # 0
               \/ \E v \in DOMAIN x1 : x1[v].at \in Held /\ x1[v].file = r.files[i]
    <3>1. \/ l[r.files[i]] # 0
          \/ \E v \in DOMAIN x : x[v].at \in Held /\ x[v].file = r.files[i]
      BY <1>3, <2>1 DEF Progress, Claimed
    <3>2. CASE r.files[i] = x[w].file
      BY <3>2
    <3>3. CASE r.files[i] # x[w].file
      <4>1. \A v \in DOMAIN x : x[v].file = r.files[i] => x1[v] = x[v]
        BY <3>3 DEF Turned
      <4> QED
        BY <1>1, <3>1, <3>3, <4>1
    <3> QED
      BY <3>2, <3>3
  <2> QED
    BY <1>1, <2>1 DEF Claimed, AtWork
<1>4. ASSUME NEW c, NEW t, Smooth(r, x, l, c, t)
      PROVE  Smooth(r, x1, l1, c, t)
  <2>1. \A u \in DOMAIN x : x[u].at \in Held => OwnFile(r, x, u)
    BY <1>4 DEF Smooth
  <2>2. \A u \in DOMAIN x1 : x1[u].at \in Held => u # w /\ x[u] = x1[u]
    BY <1>1 DEF Turned, Held
  <2>3. ASSUME NEW v \in DOMAIN x1, x1[v].at \in Held PROVE OwnFile(r, x1, v)
    <3>1. OwnFile(r, x, v) /\ x[v] = x1[v]
      BY <1>1, <2>1, <2>2, <2>3
    <3> QED
      BY <1>1, <2>2, <3>1 DEF OwnFile
  <2>4. ASSUME NEW v \in DOMAIN x1
        PROVE /\ x1[v].at \in Carrying => x1[v].want \in {0, t[x1[v].file]}
              /\ x1[v].at = "link" => l1[x1[v].file] = 0
    <3>1. CASE v = w
      BY <3>1 DEF Carrying
    <3>2. CASE v # w
      <4>1. x1[v] = x[v] /\ v \in DOMAIN x
        BY <1>1, <3>2 DEF Turned
      <4>2. /\ x[v].at \in Carrying => x[v].want \in {0, t[x[v].file]}
            /\ x[v].at = "link" => l[x[v].file] = 0
        BY <1>4, <4>1 DEF Smooth
      <4>3. x[v].at = "link" => x[v].file # x[w].file
        <5>1. OwnFile(r, x, w)
          BY <2>1 DEF Held
        <5> QED
          BY <3>2, <4>1, <5>1 DEF OwnFile, Held
      <4> QED
        BY <4>1, <4>2, <4>3
    <3> QED
      BY <3>1, <3>2
  <2> QED
    BY <1>4, <2>3, <2>4 DEF Smooth
<1> QED
  BY <1>2, <1>3, <1>4 DEF Progress

(* A worker that stops, having failed, or because another has.                 *)
LEMMA StopProgress ==
  ASSUME NEW r, NEW r1, NEW x, NEW x1, NEW l, NEW w \in DOMAIN x,
         Turned(x, x1, w), r.at = "fetch", r1.at = "fetch", x1[w].at = "off",
         Flags(r1), r1.stop = TRUE => r1.failed = TRUE, r1.failed = TRUE \/ r1.signal = TRUE,
         Progress(r, x, l)
  PROVE  Progress(r1, x1, l)
BY DEF Progress, Turned, Flags

(* Beside the shards: the companion's worker touches none of them.              *)
LEMMA ExtraProgress ==
  ASSUME NEW r, NEW r1, NEW x, NEW x1, NEW l, NEW l1, NEW w \in DOMAIN x,
         Turned(x, x1, w), r.at = "extra", SameFlags(r, r1),
         x1[w].at \in {"unlink", "link"} => x1[w].got # 0,
         \A i \in DOMAIN r.files : l1[r.files[i]] = l[r.files[i]],
         Progress(r, x, l)
  PROVE  /\ Progress(r1, x1, l1)
         /\ \A c, t : Smooth(r, x, l, c, t) => Smooth(r1, x1, l1, c, t)
BY DEF Progress, Smooth, Turned, Flags, SameFlags, Linked, Pulling

-----------------------------------------------------------------------------
(* What the one process that pulls owes after a step of its own.               *)
Owes(p) ==
  /\ proc'[p].at = "ok" =>
       \A i \in DOMAIN proc'[p].files : link'[proc'[p].commit][proc'[p].files[i]] # 0
  /\ (/\ proc'[p].at \in Store!Ended /\ proc[p].quiet = TRUE
      /\ Store!Picks(Store!Listed(main), proc[p].sel) # {}) => proc'[p].at = "ok"
  /\ proc'[p].at \notin Store!Ended =>
       /\ Progress(proc'[p], job'[p], link'[proc'[p].commit])
       /\ proc'[p].quiet = TRUE =>
            Smooth(proc'[p], job'[p], link'[proc'[p].commit], main', setup.tree[main'])

LEMMA WorkerOwes ==
  ASSUME PullTypes, setup' = setup, main' = main,
         NEW p \in Procs, NEW w \in Store!Jobs, Store!WorkerStep(p, w),
         Progress(proc[p], job[p], link[proc[p].commit]),
         proc[p].quiet = TRUE =>
           Smooth(proc[p], job[p], link[proc[p].commit], main, setup.tree[main])
  PROVE  Owes(p)
<1> DEFINE r == proc[p]
           r1 == proc'[p]
           x == job[p]
           x1 == job'[p]
           c == proc[p].commit
           l == link[c]
           l1 == link'[c]
           t == setup.tree[main]
           f == x[w].file
<1>1. /\ DOMAIN r = CallFields /\ CallIsOfOneModel(r) /\ x \in [Store!Jobs -> JobRecords]
      /\ job \in [Procs -> [Store!Jobs -> JobRecords]]
      /\ IsAtWork(r, x[w], w) /\ stored \subseteq Nat \ {0}
      /\ link \in [Store!Commits -> [Store!Files -> Nat]] /\ proc = [q \in Procs |-> proc[q]]
  BY DEF PullTypes, CallIsOfOneModel
<1>2. /\ SameCall(r, r1) /\ r1.at \in {r.at, "ok"} /\ x[w].at # "off"
      /\ r.at \in {"fetch", "extra"} /\ c \in Store!Commits
      /\ \A v \in Store!Jobs : v # w => x1[v] = x[v]
  BY <1>1, WorkerEffects DEF IsAtWork, CallIsOfOneModel
<1>3. ASSUME NEW y, Store!Stays(p, w, y)
      PROVE  Turned(x, x1, w) /\ x1[w] = y
  BY <1>1, <1>3 DEF Store!Stays, Turned
<1>4. ASSUME NEW q, Store!Becomes(p, q) PROVE r1 = q
  BY <1>1, <1>4 DEF Store!Becomes
<1>5. r1.commit = c /\ r1.files = r.files /\ w \in DOMAIN x
  BY <1>1, <1>2 DEF SameCall
<1>6. x[w].file \in Store!Files \cup {""} /\ DOMAIN x[w] = {"at", "file", "want", "got"}
  BY <1>1 DEF JobRecords
<1>7. /\ r.files \in Seq(Store!Files \ {"companion"}) /\ r.cursor \in Nat \ {0}
      /\ \A i \in DOMAIN r.files : r.files[i] \in Store!Files \ {"companion"}
  BY <1>1 DEF CallIsOfOneModel
<1>10. Store!Off.at = "off"
  BY DEF Store!Off
(* Who is at work on what.                                                     *)
<1>8. CASE r.at = "fetch"
  <2>1. x[w].at # "claim" => \E i \in DOMAIN r.files : f = r.files[i]
    BY <1>1, <1>2, <1>8 DEF IsAtWork
  <2>2. x[w].at # "claim" => f # "companion" /\ f \in Store!Files
    BY <2>1, <1>7
  <2>3. ASSUME Progress(r1, x1, l1), r1.quiet = TRUE => Smooth(r1, x1, l1, main, t), r1.at = "fetch"
        PROVE  Owes(p)
    <3>1. proc'[p].commit = c /\ link'[proc'[p].commit] = l1
      BY <1>5
    <3>2. proc'[p].at # "ok" /\ proc'[p].at \notin Store!Ended
      BY <2>3 DEF Store!Ended
    <3>3. main' = main /\ setup.tree[main'] = t
      OBVIOUS
    <3> QED
      BY <2>3, <3>1, <3>2, <3>3 DEF Owes
  <2>4. ASSUME NEW b, link' = [link EXCEPT ![c][f] = b], f \in Store!Files
        PROVE  /\ l1[f] = b /\ \A g \in Store!Files : g # f => l1[g] = l[g]
               /\ \A i \in DOMAIN r.files : r.files[i] # f => l1[r.files[i]] = l[r.files[i]]
               /\ \A v \in DOMAIN x : x[v].file # f => l1[x[v].file] = l[x[v].file] \/ x[v].at # "link"
    <3>1. l1[f] = b /\ \A g \in Store!Files : g # f => l1[g] = l[g]
      BY <1>1, <1>2, <2>4
    <3>2. \A v \in DOMAIN x : x[v].at = "link" => x[v].file \in Store!Files
      BY <1>1, <1>7, <1>8 DEF PullTypes, IsAtWork
    <3> QED
      BY <3>1, <3>2, <1>7
  <2>5. /\ r.stop \in BOOLEAN /\ r.failed \in BOOLEAN /\ r.signal \in BOOLEAN /\ r.quiet \in BOOLEAN
        /\ r.stop = TRUE => r.failed = TRUE
    BY DEF Progress, Flags
  (* A worker that fails the pull.                                              *)
  <2>6. ASSUME Store!Fails(p, w), link' = link, f # "companion", r.quiet # TRUE
        PROVE  Owes(p)
    <3> DEFINE q == [r EXCEPT !.stop = TRUE, !.failed = TRUE]
    <3>1. Store!Becomes(p, q) /\ Store!Stays(p, w, Store!Off)
      BY <2>6 DEF Store!Fails, Store!Companion
    <3>2. /\ q.stop = TRUE /\ q.failed = TRUE /\ q.signal = r.signal /\ q.quiet = r.quiet
          /\ q.at = "fetch"
      BY <1>1, <1>8 DEF CallFields
    <3> HIDE DEF q
    <3>3. r1 = q
      BY <1>4, <3>1
    <3>4. Turned(x, x1, w) /\ x1[w].at = "off"
      BY <1>3, <1>10, <3>1
    <3>5. Flags(r1) /\ r1.at = "fetch" /\ r1.failed = TRUE /\ r1.quiet # TRUE
      BY <2>5, <2>6, <3>2, <3>3 DEF Flags
    <3>6. Progress(r1, x1, l)
      BY <1>5, <1>8, <3>4, <3>5, StopProgress
    <3> QED
      BY <2>3, <2>6, <3>5, <3>6
  <2>7. CASE Store!Claim(p, w)
    <3>1. x[w].at = "claim" /\ link' = link
      BY <2>7 DEF Store!Claim, Store!disk
    <3>2. CASE r.stop \/ r.signal
      <4>1. r1 = r /\ Store!Stays(p, w, Store!Off)
        BY <2>7, <3>2 DEF Store!Claim
      <4>2. Turned(x, x1, w) /\ x1[w].at = "off"
        BY <1>3, <1>10, <4>1
      <4>3. r.failed = TRUE \/ r.signal = TRUE
        BY <2>5, <3>2
      <4>4. Progress(r1, x1, l)
        <5>1. Flags(r1) /\ (r1.stop = TRUE => r1.failed = TRUE) /\ r1.at = "fetch"
          BY <1>8, <2>5, <4>1 DEF Flags
        <5>2. (r1.failed = TRUE \/ r1.signal = TRUE) /\ Progress(r, x, l)
          BY <4>1, <4>3
        <5> HIDE DEF r, r1, x, x1, l
        <5> QED
          BY <1>5, <1>8, <4>2, <5>1, <5>2, StopProgress
      <4>5. r.quiet # TRUE
        BY <4>3 DEF Smooth
      <4> QED
        BY <1>8, <2>3, <3>1, <4>1, <4>4, <4>5
    <3>3. CASE ~(r.stop \/ r.signal)
      <4> DEFINE q == [r EXCEPT !.cursor = @ + 1]
                 y == IF r.cursor > Len(r.files) THEN Store!Off
                      ELSE [Store!Off EXCEPT !.at = "head", !.file = r.files[r.cursor]]
      <4>1. Store!Becomes(p, q) /\ Store!Stays(p, w, y)
        BY <2>7, <3>3 DEF Store!Claim
      <4>2. SameFlags(r, q) /\ q.cursor = r.cursor + 1
        BY <1>1 DEF SameFlags, CallFields
      <4>3. IF r.cursor > Len(r.files) THEN y.at = "off"
            ELSE y.at = "head" /\ y.file = r.files[r.cursor]
        BY DEF Store!Off
      <4> HIDE DEF q, y
      <4>4. r1 = q /\ Turned(x, x1, w) /\ x1[w] = y
        BY <1>3, <1>4, <4>1
      <4>5. SameFlags(r, r1) /\ r1.cursor = r.cursor + 1
        BY <4>2, <4>4
      <4>6. IF r.cursor > Len(r.files) THEN x1[w].at = "off"
            ELSE x1[w].at = "head" /\ x1[w].file = r.files[r.cursor]
        BY <4>3, <4>4
      <4>7. r1.at = "fetch" /\ r1.quiet = r.quiet /\ l1 = l
        BY <1>8, <3>1, <4>5 DEF SameFlags
      <4>8. /\ Progress(r1, x1, l)
            /\ \A cc, tt : Smooth(r, x, l, cc, tt) => Smooth(r1, x1, l, cc, tt)
        <5>1. Progress(r, x, l) /\ Turned(x, x1, w)
          BY <4>4
        <5> HIDE DEF r, r1, x, x1, l
        <5> QED
          BY <1>5, <1>7, <1>8, <3>1, <4>5, <4>6, <5>1, ClaimProgress
      <4> QED
        BY <2>3, <4>7, <4>8
    <3> QED
      BY <3>2, <3>3
  <2>8. CASE Store!HeadSha(p, w)
    <3>1. PICK want \in {0, t[f]} : Store!Stays(p, w, [x[w] EXCEPT !.at = "fetch", !.want = want])
      BY <2>8 DEF Store!HeadSha, Store!None
    <3>2. x[w].at = "head" /\ link' = link /\ r1 = r
      BY <2>8 DEF Store!HeadSha, Store!disk
    <3> DEFINE y == [x[w] EXCEPT !.at = "fetch", !.want = want]
    <3>3. y.at = "fetch" /\ y.want = want /\ y.file = f
      BY <1>6
    <3> HIDE DEF y
    <3>4. Turned(x, x1, w) /\ x1[w] = y
      BY <1>3, <3>1 DEF y
    <3>5. /\ x[w].at \in Held /\ x1[w].at \in Held /\ x1[w].file = x[w].file
          /\ x1[w].at \notin {"unlink", "link"} /\ x1[w].want \in {0, t[x1[w].file]}
      BY <3>1, <3>2, <3>3, <3>4 DEF Held
    <3>6. Progress(r, x, l)
      OBVIOUS
    <3>7. /\ Progress(r, x1, l)
          /\ \A cc, tt : /\ Smooth(r, x, l, cc, tt)
                         /\ x1[w].at \in Carrying => x1[w].want \in {0, tt[x1[w].file]}
                         /\ x1[w].at = "link" => l[x1[w].file] = 0
                         => Smooth(r, x1, l, cc, tt)
      <4> HIDE DEF r, x, x1, l
      <4> QED
        BY <1>5, <1>8, <3>4, <3>5, <3>6, TurnProgress DEF f
    <3> QED
      BY <1>8, <2>3, <3>2, <3>5, <3>7
  <2>9. CASE Store!FetchFails(p, w)
    <3>1. /\ x[w].at = "fetch" /\ Store!Fails(p, w) /\ link' = link
          /\ r.quiet # TRUE \/ t[f] = 0
      BY <2>5, <2>9 DEF Store!FetchFails, Store!disk, Store!None
    <3>2. r.quiet # TRUE
      BY <1>8, <2>1, <3>1 DEF Smooth
    <3> QED
      BY <2>2, <2>6, <3>1, <3>2
  <2>10. CASE Store!Fetch(p, w)
    <3> DEFINE want == x[w].want
               got == IF want \in stored THEN want ELSE t[f]
               y == [x[w] EXCEPT !.at = "unlink", !.got = got]
    <3>1. /\ x[w].at = "fetch" /\ link' = link /\ got # 0
          /\ IF want # 0 /\ got # want THEN Store!Fails(p, w)
             ELSE Store!Stays(p, w, y) /\ r1 = r
      BY <2>10 DEF Store!Fetch, Store!None
    <3>2. CASE want # 0 /\ got # want
      <4>1. r.quiet # TRUE
        BY <1>5, <1>8, <3>1, <3>2 DEF Smooth, Carrying
      <4> QED
        BY <2>2, <2>6, <3>1, <3>2, <4>1
    <3>3. CASE ~(want # 0 /\ got # want)
      <4>1. y.at = "unlink" /\ y.want = want /\ y.file = f /\ y.got = got
        BY <1>6
      <4> HIDE DEF y
      <4>2. Turned(x, x1, w) /\ x1[w] = y /\ r1 = r
        BY <1>3, <3>1, <3>3
      <4>3. /\ x[w].at \in Held /\ x1[w].at \in Held /\ x1[w].file = x[w].file
            /\ x1[w].got # 0 /\ x1[w].at # "link"
        BY <3>1, <4>1, <4>2 DEF Held
      <4>4. \A cc, tt : Smooth(r, x, l, cc, tt) => x1[w].want \in {0, tt[x1[w].file]}
        BY <1>5, <1>8, <3>1, <4>1, <4>2 DEF Smooth, Carrying
      <4>5. Progress(r, x, l)
        OBVIOUS
      <4>6. /\ Progress(r, x1, l)
            /\ \A cc, tt : /\ Smooth(r, x, l, cc, tt)
                           /\ x1[w].at \in Carrying => x1[w].want \in {0, tt[x1[w].file]}
                           /\ x1[w].at = "link" => l[x1[w].file] = 0
                           => Smooth(r, x1, l, cc, tt)
        <5> HIDE DEF r, x, x1, l
        <5> QED
          BY <1>5, <1>8, <4>2, <4>3, <4>5, TurnProgress DEF f
      <4>7. \A cc, tt : Smooth(r, x, l, cc, tt) => Smooth(r, x1, l, cc, tt)
        BY <4>3, <4>4, <4>6
      <4> QED
        BY <1>8, <2>3, <3>1, <4>2, <4>6, <4>7
    <3> QED
      BY <3>2, <3>3
  <2>11. CASE Store!Unlink(p, w)
    <3> DEFINE y == [x[w] EXCEPT !.at = "link"]
    <3>1. /\ x[w].at = "unlink" /\ Store!Stays(p, w, y) /\ r1 = r
          /\ link' = [link EXCEPT ![c][f] = 0]
      BY <2>11 DEF Store!Unlink, Store!None
    <3>2. y.at = "link" /\ y.want = x[w].want /\ y.file = f /\ y.got = x[w].got
      BY <1>6
    <3> HIDE DEF y
    <3>3. Turned(x, x1, w) /\ x1[w] = y
      BY <1>3, <3>1
    <3>4. /\ x[w].at \in Held /\ x1[w].at \in Held /\ x1[w].file = x[w].file
          /\ x1[w].got # 0
      BY <1>5, <3>1, <3>2, <3>3 DEF Held, Progress
    <3>5. \A cc, tt : Smooth(r, x, l, cc, tt) => x1[w].want \in {0, tt[x1[w].file]}
      BY <1>5, <1>8, <3>1, <3>2, <3>3 DEF Smooth, Carrying
    <3>6. /\ l1[f] = 0
          /\ \A i \in DOMAIN r.files : r.files[i] # f => l1[r.files[i]] = l[r.files[i]]
          /\ \A v \in DOMAIN x : x[v].file # f => l1[x[v].file] = l[x[v].file] \/ x[v].at # "link"
      BY <2>2, <2>4, <3>1
    <3>7. Progress(r, x, l) /\ l1[x1[w].file] = 0
      BY <3>4, <3>6
    <3>8. /\ Progress(r, x1, l1)
          /\ \A cc, tt : /\ Smooth(r, x, l, cc, tt)
                         /\ x1[w].at \in Carrying => x1[w].want \in {0, tt[x1[w].file]}
                         /\ x1[w].at = "link" => l1[x1[w].file] = 0
                         => Smooth(r, x1, l1, cc, tt)
      <4> HIDE DEF r, x, x1, l, l1
      <4> QED
        BY <1>5, <1>8, <3>3, <3>4, <3>6, <3>7, TurnProgress DEF f
    <3>9. \A cc, tt : Smooth(r, x, l, cc, tt) => Smooth(r, x1, l1, cc, tt)
      BY <3>5, <3>7, <3>8
    <3> QED
      BY <1>8, <2>3, <3>1, <3>8, <3>9
  <2>12. CASE Store!Link(p, w)
    <3>1. x[w].at = "link" /\ f # "companion" /\ f \in Store!Files
      BY <2>2, <2>12 DEF Store!Link
    <3>2. CASE l[f] # 0
      <4>1. Store!Fails(p, w) /\ link' = link
        BY <2>12, <3>2 DEF Store!Link, Store!None
      <4>2. r.quiet # TRUE
        BY <1>5, <1>8, <3>1, <3>2 DEF Smooth
      <4> QED
        BY <2>6, <3>1, <4>1, <4>2
    <3>3. CASE l[f] = 0
      <4> DEFINE y == [Store!Off EXCEPT !.at = "claim"]
      <4>1. /\ link' = [link EXCEPT ![c][f] = x[w].got] /\ Store!Stays(p, w, y) /\ r1 = r
        BY <2>12, <3>1, <3>3 DEF Store!Link, Store!None, Store!Companion
      <4>2. y.at = "claim"
        BY DEF Store!Off
      <4> HIDE DEF y
      <4>3. Turned(x, x1, w) /\ x1[w].at = "claim"
        BY <1>3, <4>1, <4>2
      <4>4. x[w].got # 0
        BY <1>5, <3>1 DEF Progress
      <4>5. /\ l1[f] # 0
            /\ \A i \in DOMAIN r.files : r.files[i] # f => l1[r.files[i]] = l[r.files[i]]
            /\ \A v \in DOMAIN x : x[v].file # f => l1[x[v].file] = l[x[v].file] \/ x[v].at # "link"
        BY <2>4, <3>1, <4>1, <4>4
      <4>6. Progress(r, x, l) /\ \A i \in DOMAIN r.files : r.files[i] = f => l1[r.files[i]] # 0
        BY <4>5
      <4>7. /\ Progress(r, x1, l1)
            /\ \A cc, tt : Smooth(r, x, l, cc, tt) => Smooth(r, x1, l1, cc, tt)
        <5> HIDE DEF r, x, x1, l, l1
        <5> QED
          BY <1>5, <1>8, <3>1, <4>3, <4>5, <4>6, LinkProgress DEF f
      <4> QED
        BY <1>8, <2>3, <4>1, <4>7
    <3> QED
      BY <3>2, <3>3
  <2> QED
    BY <2>7, <2>8, <2>9, <2>10, <2>11, <2>12 DEF Store!WorkerStep
<1>9. CASE r.at = "extra"
  <2>1. f = "companion" /\ x[w].at # "claim"
    BY <1>1, <1>2, <1>9 DEF IsAtWork
  <2>2. Linked(r, l)
    BY <1>9 DEF Progress
  <2>3. \/ link' = link \/ \E b : link' = [link EXCEPT ![c][f] = b]
    BY DEF Store!WorkerStep, Store!Claim, Store!HeadSha, Store!FetchFails, Store!Fetch,
       Store!Unlink, Store!Link, Store!disk
  <2>4. \A i \in DOMAIN r.files : l1[r.files[i]] = l[r.files[i]]
    <3>1. ASSUME NEW b, link' = [link EXCEPT ![c]["companion"] = b], NEW g \in Store!Files \ {"companion"}
          PROVE  l1[g] = l[g]
      BY <1>1, <1>2, <3>1
    <3>2. CASE link' = link
      BY <3>2
    <3> QED
      BY <1>7, <2>1, <2>3, <3>1, <3>2
  (* A call that ends, well.                                                   *)
  <2>5. ASSUME r1.at = "ok" PROVE Owes(p)
    <3>1. proc'[p].commit = c /\ proc'[p].files = r.files /\ link'[proc'[p].commit] = l1
      BY <1>5
    <3>2. \A i \in DOMAIN r.files : l1[r.files[i]] # 0
      BY <2>2, <2>4 DEF Linked
    <3>3. \A i \in DOMAIN proc'[p].files : link'[proc'[p].commit][proc'[p].files[i]] # 0
      BY <3>1, <3>2
    <3> QED
      BY <2>5, <3>3 DEF Owes, Store!Ended
  <2>6. ASSUME Store!Becomes(p, [r EXCEPT !.at = "ok"]) PROVE Owes(p)
    <3>1. [r EXCEPT !.at = "ok"].at = "ok"
      BY <1>1 DEF CallFields
    <3> QED
      BY <1>4, <2>5, <2>6, <3>1
  (* A companion's worker that goes on.                                         *)
  <2>7. ASSUME NEW y, Store!Stays(p, w, y), r1 = r, y.at \in {"unlink", "link"} => y.got # 0
        PROVE  Owes(p)
    <3>1. Turned(x, x1, w) /\ (x1[w].at \in {"unlink", "link"} => x1[w].got # 0)
      BY <1>3, <2>7
    <3>2. Progress(r, x, l) /\ SameFlags(r, r)
      BY DEF SameFlags
    <3>3. /\ Progress(r, x1, l1)
          /\ \A cc, tt : Smooth(r, x, l, cc, tt) => Smooth(r, x1, l1, cc, tt)
      <4> HIDE DEF r, x, x1, l, l1
      <4> QED
        BY <1>5, <1>9, <2>4, <3>1, <3>2, ExtraProgress
    <3>4. proc'[p].commit = c /\ link'[proc'[p].commit] = l1 /\ proc'[p] = r
      BY <1>5, <2>7
    <3>5. proc'[p].at # "ok" /\ proc'[p].at \notin Store!Ended
      BY <1>9, <3>4 DEF Store!Ended
    <3>6. main' = main /\ setup.tree[main'] = t
      OBVIOUS
    <3> QED
      BY <3>3, <3>4, <3>5, <3>6 DEF Owes
  <2>8. Store!Fails(p, w) => Owes(p)
    BY <2>1, <2>6 DEF Store!Fails, Store!Companion
  <2>9. CASE Store!HeadSha(p, w)
    <3>1. PICK want : Store!Stays(p, w, [x[w] EXCEPT !.at = "fetch", !.want = want])
      BY <2>9 DEF Store!HeadSha
    <3>2. [x[w] EXCEPT !.at = "fetch", !.want = want].at = "fetch"
      BY <1>6
    <3>3. r1 = r
      BY <2>9 DEF Store!HeadSha
    <3> QED
      BY <2>7, <3>1, <3>2, <3>3
  <2>10. CASE Store!Fetch(p, w)
    <3> DEFINE got == IF x[w].want \in stored THEN x[w].want ELSE t[f]
               y == [x[w] EXCEPT !.at = "unlink", !.got = got]
    <3>1. got # 0
      BY <2>10 DEF Store!Fetch, Store!None
    <3>3. Store!Fails(p, w) \/ (Store!Stays(p, w, y) /\ r1 = r)
      BY <2>10 DEF Store!Fetch, Store!None
    <3>2. y.got = got
      BY <1>6
    <3> HIDE DEF y, got
    <3> QED
      BY <2>7, <2>8, <3>1, <3>2, <3>3
  <2>11. CASE Store!Unlink(p, w)
    <3> DEFINE y == [x[w] EXCEPT !.at = "link"]
    <3>1. x[w].at = "unlink" /\ Store!Stays(p, w, y) /\ r1 = r
      BY <2>11 DEF Store!Unlink
    <3>2. y.got = x[w].got
      BY <1>6
    <3>3. x[w].got # 0
      BY <1>5, <3>1 DEF Progress
    <3> HIDE DEF y
    <3> QED
      BY <2>7, <3>1, <3>2, <3>3
  <2>12. CASE Store!Link(p, w)
    BY <2>1, <2>6, <2>8, <2>12 DEF Store!Link, Store!Companion
  <2> QED
    BY <2>1, <2>8, <2>9, <2>10, <2>11, <2>12
       DEF Store!WorkerStep, Store!Claim, Store!FetchFails
<1> QED
  BY <1>2, <1>8, <1>9

(* A cached copy that is taken for an answer holds the model whole.             *)
LEMMA CachedIsThere ==
  ASSUME NEW p \in Procs, NEW r, DOMAIN r = CallFields, Store!Cached(p, r),
         proc = [q \in Procs |-> proc[q]]
  PROVE  /\ proc'[p].at = "ok"
         /\ \A i \in DOMAIN proc'[p].files : link[proc'[p].commit][proc'[p].files[i]] # 0
<1>1. PICK c \in Store!Resolutions(r.sel) \ {Store!None} :
        \E m \in Store!Answers(c, r.sel) :
          Store!Becomes(p, [r EXCEPT !.at = "ok", !.commit = c, !.files = Store!Shards(m)])
  BY DEF Store!Cached
<1>2. PICK m \in Store!Answers(c, r.sel) :
        Store!Becomes(p, [r EXCEPT !.at = "ok", !.commit = c, !.files = Store!Shards(m)])
  BY <1>1
<1> DEFINE q == [r EXCEPT !.at = "ok", !.commit = c, !.files = Store!Shards(m)]
<1>3. q.at = "ok" /\ q.commit = c /\ q.files = setup.models[m]
  BY DEF CallFields, Store!Shards
<1>4. Store!Becomes(p, q)
  BY <1>2
<1> HIDE DEF q
<1>5. proc'[p] = q
  BY <1>4 DEF Store!Becomes
<1>6. \A i \in DOMAIN setup.models[m] : link[c][setup.models[m][i]] # 0
  BY DEF Store!Answers, Store!Complete, Store!Links, Store!ShardFiles, Store!Shards, Store!None
<1> QED
  BY <1>3, <1>5, <1>6

(* What a pull may choose main lists whole, each file once.                     *)
LEMMA PickedIsWhole ==
  ASSUME setup \in Setups, main \in Store!Commits, NEW sel,
         NEW m \in Store!Picks(Store!Listed(main), sel)
  PROVE  \A i \in DOMAIN setup.models[m] :
           /\ setup.tree[main][setup.models[m][i]] # 0
           /\ \A j \in DOMAIN setup.models[m] : setup.models[m][i] = setup.models[m][j] => i = j
<1>1. m \in DOMAIN setup.models /\ Store!ShardFiles(m) \cap Store!Listed(main) # {}
  BY DEF Store!Picks
<1>2. \E f \in FilesOf(setup, m) : setup.tree[main][f] # 0
  BY <1>1, ModelFacts DEF Store!Listed, Store!None
<1>3. \A f \in FilesOf(setup, m) : setup.tree[main][f] # 0
  BY <1>1, <1>2, ModelsAreWhole DEF Store!Commits
<1>4. \A i, j \in DOMAIN setup.models[m] : setup.models[m][i] = setup.models[m][j] => i = j
  BY <1>1, KnownSetups
<1> QED
  BY <1>3, <1>4 DEF FilesOf

LEMMA ProcOwes ==
  ASSUME PullTypes, setup' = setup, main' = main, NEW p \in Procs,
         \/ Store!InfoFails(p) \/ Store!Info(p) \/ Store!WriteRef(p) \/ Store!Join(p)
         \/ Store!Companions(p) \/ Store!Signal(p) \/ Store!Killed(p),
         Progress(proc[p], job[p], link[proc[p].commit]),
         proc[p].quiet = TRUE =>
           Smooth(proc[p], job[p], link[proc[p].commit], main, setup.tree[main])
  PROVE  Owes(p)
<1> DEFINE r == proc[p]
           r1 == proc'[p]
           x == job[p]
           x1 == job'[p]
           c == proc[p].commit
           t == setup.tree[main]
<1>1. /\ DOMAIN r = CallFields /\ CallIsOfOneModel(r) /\ x \in [Store!Jobs -> JobRecords]
      /\ job \in [Procs -> [Store!Jobs -> JobRecords]]
      /\ proc = [q \in Procs |-> proc[q]] /\ setup \in Setups /\ main \in Store!Commits
      /\ r.files \in Seq(Store!Files \ {"companion"})
  BY DEF PullTypes, CallIsOfOneModel
<1>2. link' = link
  BY ProcEffects
<1>3. ASSUME NEW q, Store!Becomes(p, q) PROVE r1 = q
  BY <1>1, <1>3 DEF Store!Becomes
<1>4. /\ r.stop \in BOOLEAN /\ r.failed \in BOOLEAN /\ r.signal \in BOOLEAN /\ r.quiet \in BOOLEAN
      /\ r.stop = TRUE => r.failed = TRUE
  BY DEF Progress, Flags
<1>5. ASSUME Progress(r1, x1, link[r1.commit]), r1.at \notin Store!Ended,
             r1.quiet = TRUE => Smooth(r1, x1, link[r1.commit], main, t)
      PROVE  Owes(p)
  <2>1. link'[proc'[p].commit] = link[r1.commit] /\ main' = main /\ setup.tree[main'] = t
    BY <1>2
  <2>2. proc'[p].at # "ok" /\ proc'[p].at \notin Store!Ended
    BY <1>5 DEF Store!Ended
  <2> QED
    BY <1>5, <2>1, <2>2 DEF Owes
<1>6. ASSUME r1.at \in Store!Ended, r1.at # "ok", r.quiet # TRUE PROVE Owes(p)
  BY <1>6 DEF Owes
<1>7. ASSUME r1.at = "ok",
             \A i \in DOMAIN r1.files : link[r1.commit][r1.files[i]] # 0
      PROVE  Owes(p)
  BY <1>2, <1>7 DEF Owes, Store!Ended
(* Only the place changes.                                                    *)
<1>8. ASSUME NEW at, Store!Becomes(p, [r EXCEPT !.at = at])
      PROVE  /\ r1.at = at /\ r1.commit = c /\ r1.files = r.files /\ r1.cursor = r.cursor
             /\ r1.stop = r.stop /\ r1.failed = r.failed /\ r1.signal = r.signal
             /\ r1.quiet = r.quiet
  <2> DEFINE q == [r EXCEPT !.at = at]
  <2>1. /\ q.at = at /\ q.commit = c /\ q.files = r.files /\ q.cursor = r.cursor
        /\ q.stop = r.stop /\ q.failed = r.failed /\ q.signal = r.signal
        /\ q.quiet = r.quiet
    BY <1>1 DEF CallFields
  <2> HIDE DEF q
  <2>2. r1 = q
    BY <1>3, <1>8 DEF q
  <2> QED
    BY <2>1, <2>2
<1>9. CASE Store!InfoFails(p)
  <2>1. r.quiet # TRUE
    BY <1>9 DEF Store!InfoFails
  <2>2. CASE Store!Becomes(p, [r EXCEPT !.at = "err"])
    BY <1>6, <1>8, <2>1, <2>2 DEF Store!Ended
  <2>3. CASE Store!Cached(p, r)
    BY <1>1, <1>7, <2>3, CachedIsThere
  <2> QED
    BY <1>9, <2>2, <2>3 DEF Store!InfoFails
<1>10. CASE Store!Info(p)
  <2>1. r.at = "info" /\ job' = job /\ r.cursor = 1
    BY <1>10 DEF Store!Info, Progress
  <2>2. CASE Store!Picks(Store!Listed(main), r.sel) = {} /\ Store!Becomes(p, [r EXCEPT !.at = "err"])
    <3>1. r1.at = "err"
      BY <1>8, <2>2
    <3> QED
      BY <2>2, <3>1 DEF Owes, Store!Ended
  <2>3. ASSUME NEW m \in Store!Picks(Store!Listed(main), r.sel),
               Store!Becomes(p, [r EXCEPT
                 !.at = IF r.latest /\ Store!Complete(main, m) THEN "companion" ELSE "ref",
                 !.commit = main, !.files = Store!Shards(m)])
        PROVE  Owes(p)
    <3> DEFINE at == IF r.latest /\ Store!Complete(main, m) THEN "companion" ELSE "ref"
               q == [r EXCEPT !.at = at, !.commit = main, !.files = Store!Shards(m)]
    <3>1. /\ at \in {"companion", "ref"}
          /\ at = "companion" => \A i \in DOMAIN setup.models[m] : link[main][setup.models[m][i]] # 0
      BY DEF Store!Complete, Store!Links, Store!ShardFiles, Store!Shards, Store!None
    <3> HIDE DEF at
    <3>2. /\ q.at = at /\ q.commit = main /\ q.files = setup.models[m] /\ q.cursor = r.cursor
          /\ q.stop = r.stop /\ q.failed = r.failed /\ q.signal = r.signal
          /\ q.quiet = r.quiet
      BY <1>1 DEF CallFields, Store!Shards
    <3>3. Store!Becomes(p, q)
      BY <2>3 DEF at
    <3> HIDE DEF q
    <3>4. r1 = q
      BY <1>3, <3>3
    <3>5. \A w \in DOMAIN x1 : x1[w].at = "off"
      BY <1>1, <2>1 DEF PullTypes, IsAtWork
    <3>6. Flags(r1) /\ (r1.stop = TRUE => r1.failed = TRUE)
      BY <1>4, <3>2, <3>4 DEF Flags
    <3>7. r1.at = "companion" => Linked(r1, link[r1.commit])
      BY <3>1, <3>2, <3>4 DEF Linked
    <3>8. Progress(r1, x1, link[r1.commit])
      BY <2>1, <3>1, <3>2, <3>4, <3>5, <3>6, <3>7 DEF Progress
    <3>9. r1.quiet = TRUE => Smooth(r1, x1, link[r1.commit], main, t)
      <4>1. \A i \in DOMAIN r1.files :
              t[r1.files[i]] # 0 /\ \A j \in DOMAIN r1.files : r1.files[i] = r1.files[j] => i = j
        BY <1>1, <3>2, <3>4, PickedIsWhole
      <4>2. r1.quiet = TRUE => r1.failed = FALSE /\ r1.signal = FALSE
        BY <3>2, <3>4 DEF Smooth
      <4>3. r1.commit = main /\ r1.at # "fetch"
        BY <3>1, <3>2, <3>4
      <4> QED
        BY <4>1, <4>2, <4>3 DEF Smooth
    <3>10. r1.at \notin Store!Ended
      BY <3>1, <3>2, <3>4 DEF Store!Ended
    <3> QED
      BY <1>5, <3>8, <3>9, <3>10
  <2> QED
    BY <1>10, <2>2, <2>3, OffersArePicks DEF Store!Info
<1>11. CASE Store!WriteRef(p)
  <2>1. r.at = "ref" /\ Store!Becomes(p, [r EXCEPT !.at = "fetch"])
    BY <1>11 DEF Store!WriteRef, Store!Goes
  <2>2. x1 = [w \in Store!Jobs |-> IF w <= Len(r.files)
                                   THEN [Store!Off EXCEPT !.at = "claim"] ELSE Store!Off]
    BY <1>1, <1>11 DEF Store!WriteRef
  <2>3. [Store!Off EXCEPT !.at = "claim"].at = "claim" /\ Store!Off.at = "off"
    BY DEF Store!Off
  <2>4. \A w \in DOMAIN x1 : x1[w].at \in {"claim", "off"}
    BY <2>2, <2>3
  <2>5. /\ r1.at = "fetch" /\ r1.commit = c /\ r1.files = r.files /\ r1.cursor = 1
        /\ r1.stop = r.stop /\ r1.failed = r.failed /\ r1.signal = r.signal
        /\ r1.quiet = r.quiet
    BY <1>8, <2>1 DEF Progress
  <2>6. Claimed(r1, x1, link[r1.commit])
    BY <1>1, <2>5 DEF Claimed
  <2>7. AtWork(r1, x1)
    <3>1. 1 \in Store!Jobs
      BY <1>1, SetupFacts
    <3>2. Len(r.files) \in Nat
      BY <1>1
    <3>3. CASE 1 <= Len(r.files)
      <4>1. 1 \in DOMAIN x1 /\ x1[1].at = "claim"
        BY <2>2, <2>3, <3>1, <3>3
      <4> QED
        BY <4>1 DEF AtWork
    <3>4. CASE ~(1 <= Len(r.files))
      BY <2>5, <3>2, <3>4 DEF AtWork
    <3> QED
      BY <3>3, <3>4
  <2>8. Progress(r1, x1, link[r1.commit])
    BY <1>4, <2>4, <2>5, <2>6, <2>7 DEF Progress, Flags
  <2>9. r1.quiet = TRUE => Smooth(r1, x1, link[r1.commit], main, t)
    BY <2>1, <2>4, <2>5 DEF Smooth, Held, Carrying, Pulling
  <2> QED
    BY <1>5, <2>5, <2>8, <2>9 DEF Store!Ended
<1>12. CASE Store!Join(p)
  <2> DEFINE at == IF r.failed \/ r.signal THEN "err" ELSE "companion"
  <2>1. /\ r.at = "fetch" /\ x1 = x /\ \A w \in Store!Jobs : x[w] = Store!Off
        /\ Store!Becomes(p, [r EXCEPT !.at = at])
    BY <1>12 DEF Store!Join, Store!Joined
  <2>2. \A w \in DOMAIN x : x[w].at = "off"
    <3>1. Store!Off.at = "off" /\ DOMAIN x = Store!Jobs
      BY <1>1 DEF Store!Off
    <3> QED
      BY <2>1, <3>1
  <2> HIDE DEF at
  <2>3. /\ r1.at = at /\ r1.commit = c /\ r1.files = r.files /\ r1.cursor = r.cursor
        /\ r1.stop = r.stop /\ r1.failed = r.failed /\ r1.signal = r.signal
        /\ r1.quiet = r.quiet
    BY <1>8, <2>1
  <2>4. CASE r.failed \/ r.signal
    <3>1. r.quiet # TRUE
      BY <2>4 DEF Smooth
    <3> QED
      BY <1>6, <2>3, <2>4, <3>1 DEF at, Store!Ended
  <2>5. CASE ~(r.failed \/ r.signal)
    <3>1. r1.at = "companion"
      BY <2>3, <2>5 DEF at
    <3>2. Claimed(r, x, link[c]) /\ AtWork(r, x)
      BY <1>4, <2>1, <2>5 DEF Progress
    <3>3. r.cursor > Len(r.files)
      BY <2>2, <3>2 DEF AtWork
    <3>4. \A i \in DOMAIN r.files : i < r.cursor
      <4>1. r.cursor \in Nat /\ Len(r.files) \in Nat /\ DOMAIN r.files = 1 .. Len(r.files)
        BY <1>1 DEF CallIsOfOneModel
      <4> HIDE DEF r
      <4> QED
        BY <3>3, <4>1
    <3>5. Linked(r1, link[r1.commit])
      BY <2>2, <2>3, <3>2, <3>4 DEF Linked, Claimed, Held
    <3>6. Progress(r1, x1, link[r1.commit])
      BY <1>4, <2>1, <2>2, <2>3, <3>1, <3>5 DEF Progress, Flags
    <3>7. r1.quiet = TRUE => Smooth(r1, x1, link[r1.commit], main, t)
      BY <2>1, <2>3, <3>1 DEF Smooth, Pulling
    <3> QED
      BY <1>5, <3>1, <3>6, <3>7 DEF Store!Ended
  <2> QED
    BY <2>4, <2>5
<1>13. CASE Store!Companions(p)
  <2>1. r.at = "companion" /\ Linked(r, link[c])
    BY <1>13 DEF Store!Companions, Progress
  <2>2. CASE Store!Becomes(p, [r EXCEPT !.at = "ok"])
    <3>1. r1.at = "ok" /\ r1.commit = c /\ r1.files = r.files
      BY <1>8, <2>2
    <3> QED
      BY <1>7, <2>1, <3>1 DEF Linked
  <2>3. CASE /\ Store!Becomes(p, [r EXCEPT !.at = "extra"])
             /\ Store!Stays(p, 1, [Store!Off EXCEPT !.at = "head", !.file = "companion"])
    <3>1. [Store!Off EXCEPT !.at = "head", !.file = "companion"].at = "head"
      BY DEF Store!Off
    <3>2. \A v \in Store!Jobs : x[v].at = "off"
      BY <2>1 DEF PullTypes, IsAtWork
    <3>3. \A v \in DOMAIN x1 : x1[v].at \in {"off", "head"}
      BY <1>1, <2>3, <3>1, <3>2 DEF Store!Stays
    <3>4. /\ r1.at = "extra" /\ r1.commit = c /\ r1.files = r.files
          /\ r1.stop = r.stop /\ r1.failed = r.failed /\ r1.signal = r.signal
          /\ r1.quiet = r.quiet
      BY <1>8, <2>3
    <3>5. Progress(r1, x1, link[r1.commit])
      BY <1>4, <2>1, <3>3, <3>4 DEF Progress, Flags, Linked
    <3>6. r1.quiet = TRUE => Smooth(r1, x1, link[r1.commit], main, t)
      BY <2>1, <3>4 DEF Smooth, Pulling
    <3> QED
      BY <1>5, <3>4, <3>5, <3>6 DEF Store!Ended
  <2> QED
    BY <1>13, <2>2, <2>3 DEF Store!Companions, Store!Companion
<1>14. CASE Store!Signal(p)
  <2> DEFINE q == [r EXCEPT !.signal = TRUE]
  <2>1. /\ r.at = "fetch" /\ r.quiet # TRUE /\ job' = job /\ Store!Becomes(p, q)
    BY <1>14 DEF Store!Signal
  <2>2. /\ q.at = "fetch" /\ q.stop = r.stop /\ q.failed = r.failed /\ q.signal = TRUE
        /\ q.quiet = r.quiet
    BY <1>1, <2>1 DEF CallFields
  <2> HIDE DEF q
  <2>3. r1 = q
    BY <1>3, <2>1
  <2>4. Progress(r1, x1, link[r1.commit])
    BY <1>4, <2>1, <2>2, <2>3 DEF Progress, Flags
  <2> QED
    BY <1>5, <2>1, <2>2, <2>3, <2>4 DEF Store!Ended
<1>15. CASE Store!Killed(p)
  <2>1. r.quiet # TRUE /\ r1 = Store!Idle
    BY <1>3, <1>15 DEF Store!Killed
  <2>2. Store!Idle.at = "idle"
    BY DEF Store!Idle
  <2> QED
    BY <1>6, <2>1, <2>2 DEF Store!Ended
<1> QED
  BY <1>9, <1>10, <1>11, <1>12, <1>13, <1>14, <1>15

LEMMA StepOwes ==
  ASSUME PullTypes, CachedInv, YesInv, setup' = setup, main' = main, NEW p \in Procs,
         Store!Step(p)
  PROVE  /\ \A q \in Store!Busy : proc[q].alone => q = p /\ Owes(p)
         /\ \A q \in Procs \ {p} : proc'[q] = proc[q]
         /\ p \in Store!Busy
         /\ proc'[p].at \notin Store!Ended => (proc'[p].alone <=> proc[p].alone)
<1>1. CASE \E w \in Store!Jobs : Store!WorkerStep(p, w)
  <2>1. PICK w \in Store!Jobs : Store!WorkerStep(p, w)
    BY <1>1
  <2>2. /\ \A q \in Procs \ {p} : proc'[q] = proc[q]
        /\ proc'[p].alone = proc[p].alone /\ job[p][w].at # "off"
    BY <2>1, WorkerEffects DEF SameCall
  <2>3. p \in Store!Busy
    BY <2>2 DEF PullTypes, IsAtWork, Store!Busy, Store!Ended
  <2>4. \A q \in Store!Busy : proc[q].alone => q = p
    BY <2>3 DEF CachedInv
  <2>5. proc[p].alone => Owes(p)
    BY <2>1, <2>3, WorkerOwes DEF YesInv
  <2> QED
    BY <2>2, <2>3, <2>4, <2>5
<1>2. CASE \/ Store!InfoFails(p) \/ Store!Info(p) \/ Store!WriteRef(p) \/ Store!Join(p)
           \/ Store!Companions(p) \/ Store!Signal(p) \/ Store!Killed(p)
  <2>1. p \in Store!Busy
    BY <1>2 DEF Store!InfoFails, Store!Info, Store!WriteRef, Store!Goes, Store!Join,
                Store!Joined, Store!Companions, Store!Signal, Store!Killed, Store!Busy, Store!Ended
  <2>2. /\ \A q \in Procs \ {p} : proc'[q] = proc[q]
        /\ proc'[p].at \in Store!Ended \/ proc'[p].alone = proc[p].alone
    BY <1>2, ProcEffects DEF SameCall
  <2>3. \A q \in Store!Busy : proc[q].alone => q = p
    BY <2>1 DEF CachedInv
  <2>4. proc[p].alone => Owes(p)
    BY <1>2, <2>1, ProcOwes DEF YesInv
  <2> QED
    BY <2>1, <2>2, <2>3, <2>4
<1> QED
  BY <1>1, <1>2 DEF Store!Step

LEMMA CallBegins ==
  ASSUME PullTypes, NEW p \in Procs, Store!Call(p), proc'[p].at = "info"
  PROVE  /\ proc'[p].cursor = 1 /\ proc'[p].stop = FALSE /\ proc'[p].failed = FALSE
         /\ proc'[p].signal = FALSE /\ proc'[p].quiet \in BOOLEAN
<1>1. PICK sel \in setup.sels, latest \in BOOLEAN, quiet \in BOOLEAN :
        LET r == [Store!Idle EXCEPT !.sel = sel, !.latest = latest, !.quiet = quiet,
                             !.alone = Store!Busy = {}, !.had = Store!Resolvable]
        IN  \/ ~latest /\ Store!Cached(p, r)
            \/ /\ latest \/ Store!None \in Store!Resolutions(sel)
               /\ proc' = [q \in Procs |->
                   IF q = p THEN [r EXCEPT !.at = "info"]
                   ELSE IF q \in Store!Busy THEN [proc[q] EXCEPT !.alone = FALSE] ELSE proc[q]]
  BY DEF Store!Call
<1> DEFINE r == [Store!Idle EXCEPT !.sel = sel, !.latest = latest, !.quiet = quiet,
                            !.alone = Store!Busy = {}, !.had = Store!Resolvable]
           s == [r EXCEPT !.at = "info"]
<1>2. /\ DOMAIN r = CallFields /\ r.cursor = 1 /\ r.stop = FALSE /\ r.failed = FALSE
      /\ r.signal = FALSE /\ r.quiet = quiet
  BY DEF Store!Idle, CallFields
<1>3. ~Store!Cached(p, r)
  <2> SUFFICES ASSUME Store!Cached(p, r) PROVE FALSE
    OBVIOUS
  <2>1. proc = [q \in Procs |-> proc[q]] /\ DOMAIN r = CallFields
    BY <1>2 DEF PullTypes
  <2> HIDE DEF r
  <2>2. proc'[p].at = "ok"
    BY <2>1, CachedIsThere
  <2> QED
    BY <2>2
<1>4. proc'[p] = s
  BY <1>1, <1>3
<1> HIDE DEF r
<1>5. /\ s.cursor = 1 /\ s.stop = FALSE /\ s.failed = FALSE /\ s.signal = FALSE
      /\ s.quiet = quiet
  BY <1>2 DEF CallFields
<1> HIDE DEF s
<1> QED
  BY <1>4, <1>5

LEMMA CallKeepsYes ==
  ASSUME PullTypes, YesInv, setup' = setup, main' = main, NEW p \in Procs, Store!Call(p)
  PROVE  YesInv'
<1> SUFFICES ASSUME NEW q \in Procs, proc'[q].at \notin Store!Ended, proc'[q].alone
             PROVE  /\ Progress(proc'[q], job'[q], link'[proc'[q].commit])
                    /\ proc'[q].quiet = TRUE =>
                         Smooth(proc'[q], job'[q], link'[proc'[q].commit], main', setup'.tree[main'])
  BY DEF YesInv, Store!Busy, Store!Ended
<1>1. link' = link /\ job' = job
  BY CallEffects
<1>2. CASE q # p
  <2>1. proc'[q] = proc[q] /\ q \in Store!Busy
    BY <1>2, CallEffects DEF Store!Busy
  <2> QED
    BY <1>1, <2>1 DEF YesInv
<1>3. CASE q = p
  <2>1. proc'[p].at = "info"
    BY <1>3, CallEffects DEF Store!Ended
  <2>2. /\ proc'[p].cursor = 1 /\ proc'[p].stop = FALSE /\ proc'[p].failed = FALSE
        /\ proc'[p].signal = FALSE /\ proc'[p].quiet \in BOOLEAN
    BY <2>1, CallBegins
  <2>3. proc[p].at \in Store!Ended
    BY CallEffects
  <2>4. \A w \in DOMAIN job[p] : job[p][w].at = "off"
    BY <2>3 DEF PullTypes, IsAtWork, Store!Ended
  <2>5. Progress(proc'[p], job[p], link[proc'[p].commit])
    BY <2>1, <2>2, <2>4 DEF Progress, Flags
  <2>6. Smooth(proc'[p], job[p], link[proc'[p].commit], main, setup.tree[main])
    BY <2>1, <2>2 DEF Smooth, Pulling
  <2>7. link'[proc'[p].commit] = link[proc'[p].commit] /\ setup'.tree[main'] = setup.tree[main]
    BY <1>1
  <2> QED
    BY <1>1, <1>3, <2>5, <2>6, <2>7
<1> QED
  BY <1>2, <1>3

LEMMA MovesKeepsYes ==
  ASSUME PullTypes, YesInv, setup' = setup, Store!Moves
  PROVE  YesInv'
<1> SUFFICES ASSUME NEW q \in Procs, proc'[q].at \notin Store!Ended, proc'[q].alone
             PROVE  /\ Progress(proc'[q], job'[q], link'[proc'[q].commit])
                    /\ proc'[q].quiet # TRUE
  BY DEF YesInv, Store!Busy, Store!Ended
<1> DEFINE r == proc[q]
           r1 == proc'[q]
<1>1. link' = link /\ job' = job
  BY MovesFacts
<1>2. q \in Store!Busy /\ proc[q].alone
  BY MovesEffects DEF SameCall, Store!Busy, Store!Ended
<1>3. r1 = [r EXCEPT !.quiet = FALSE] /\ DOMAIN r = CallFields
  BY <1>2 DEF Store!Moves, PullTypes, CallIsOfOneModel
<1> HIDE DEF r, r1
<1>4. /\ r1.at = r.at /\ r1.commit = r.commit /\ r1.files = r.files /\ r1.cursor = r.cursor
      /\ r1.stop = r.stop /\ r1.failed = r.failed /\ r1.signal = r.signal /\ r1.quiet = FALSE
  BY <1>3 DEF CallFields
<1>5. Progress(r, job[q], link[r.commit])
  BY <1>2 DEF YesInv, r
<1>6. Progress(r1, job[q], link[r.commit])
  <2>1. Flags(r1) /\ (r1.stop = TRUE => r1.failed = TRUE)
    <3>1. Flags(r) /\ (r.stop = TRUE => r.failed = TRUE)
      BY <1>5 DEF Progress
    <3> QED
      BY <1>4, <3>1 DEF Flags
  <2> DEFINE x == job[q]
             l == link[r.commit]
  <2> HIDE DEF x, l
  <2>2. /\ Claimed(r1, x, l) <=> Claimed(r, x, l)
        /\ Linked(r1, l) <=> Linked(r, l)
    BY <1>4 DEF Claimed, Linked
  <2>3. AtWork(r1, x) <=> AtWork(r, x)
    BY <1>4 DEF AtWork
  <2>4. Progress(r, x, l)
    BY <1>5 DEF x, l
  <2>5. Progress(r1, x, l)
    BY <1>4, <2>1, <2>2, <2>3, <2>4 DEF Progress
  <2> QED
    BY <2>5 DEF x, l
<1> QED
  BY <1>1, <1>4, <1>6 DEF r1

(* What a step of the store keeps, and what the last one of a call owes.        *)
LEMMA PullsAreHonest ==
  ASSUME PullTypes, CachedInv, YesInv, [Store!Next]_Store!vars
  PROVE  /\ YesInv'
         /\ \A p \in Store!Busy :
              proc[p].alone /\ proc'[p].at \in Store!Ended => Owes(p)
<1>1. CASE UNCHANGED Store!vars
  <2>1. setup' = setup /\ main' = main /\ link' = link /\ proc' = proc /\ job' = job
    BY <1>1 DEF Store!vars
  <2>2. Store!Busy' = Store!Busy /\ \A p \in Store!Busy : proc'[p].at \notin Store!Ended
    BY <2>1 DEF Store!Busy
  <2> QED
    BY <2>1, <2>2 DEF YesInv
<1>2. CASE Store!Next
  <2>1. setup' = setup
    BY <1>2 DEF Store!Next
  <2>2. CASE Store!Moves
    <3>1. \A p \in Store!Busy : proc'[p].at \notin Store!Ended
      BY <2>1, <2>2, MovesEffects DEF Store!Busy
    <3> QED
      BY <2>1, <2>2, <3>1, MovesKeepsYes
  <2>3. ASSUME NEW p \in Procs, main' = main, Store!Call(p)
        PROVE  YesInv' /\ \A q \in Store!Busy : proc'[q].at \notin Store!Ended
    <3>1. ASSUME NEW q \in Store!Busy PROVE proc'[q].at \notin Store!Ended
      <4>1. q \in Procs \ {p} /\ proc[q].at \notin Store!Ended
        BY <2>3, CallEffects DEF Store!Busy
      <4>2. proc'[q].at = proc[q].at
        BY <2>3, <4>1, CallEffects
      <4> QED
        BY <4>1, <4>2
    <3> QED
      BY <2>1, <2>3, <3>1, CallKeepsYes
  <2>4. ASSUME NEW p \in Procs, main' = main, Store!Step(p)
        PROVE  /\ YesInv'
               /\ \A q \in Store!Busy : proc[q].alone /\ proc'[q].at \in Store!Ended => Owes(q)
    <3>1. /\ \A q \in Store!Busy : proc[q].alone => q = p /\ Owes(p)
          /\ \A q \in Procs \ {p} : proc'[q] = proc[q]
          /\ p \in Store!Busy
          /\ proc'[p].at \notin Store!Ended => (proc'[p].alone <=> proc[p].alone)
      BY <2>1, <2>4, StepOwes
    <3>2. ASSUME NEW q \in Procs, proc'[q].at \notin Store!Ended, proc'[q].alone
          PROVE  q = p /\ Owes(p)
      <4>1. q \in Store!Busy /\ proc[q].alone
        BY <3>1, <3>2 DEF Store!Busy
      <4> QED
        BY <3>1, <4>1
    <3>3. setup'.tree[main'] = setup.tree[main']
      BY <2>1
    <3>4. YesInv'
      BY <3>2, <3>3 DEF YesInv, Owes, Store!Busy, Store!Ended
    <3> QED
      BY <3>1, <3>4
  <2> QED
    BY <1>2, <2>1, <2>2, <2>3, <2>4, SetupFacts DEF Store!Next, PullTypes
<1> QED
  BY <1>1, <1>2

LEMMA YesIsKept == Store!Spec => [](PullTypes /\ CachedInv /\ YesInv)
<1>1. Store!Init => YesInv
  <2>1. Store!Init => proc = [p \in Procs |-> Store!Idle]
    BY DEF Store!Init
  <2>2. Store!Idle.at = "idle"
    BY DEF Store!Idle
  <2> QED
    BY <2>1, <2>2 DEF YesInv, Store!Busy, Store!Ended
<1>2. PullTypes /\ CachedInv /\ YesInv /\ [Store!Next]_Store!vars => YesInv'
  BY PullsAreHonest
<1> QED
  BY <1>1, <1>2, PullsTakeNothingAway, PTL DEF Store!Spec

(* A call that says yes leaves the model there whole, however it was stopped, and     *)
(* one in which nothing goes wrong says yes (fetch_all and ensure, pull.rs).       *)
THEOREM YesIsTheTruth == Store!Spec => YesMeansThere
<1>1. ASSUME PullTypes, CachedInv, YesInv, [Store!Next]_Store!vars,
             NEW p \in Store!Busy, proc[p].alone, proc'[p].at \in Store!Ended
      PROVE  /\ proc'[p].at = "ok" =>
                  \A i \in DOMAIN proc'[p].files : link'[proc'[p].commit][proc'[p].files[i]] # Store!None
             /\ proc[p].quiet /\ Store!Picks(Store!Listed(main), proc[p].sel) # {} => proc'[p].at = "ok"
  <2>1. Owes(p)
    BY <1>1, PullsAreHonest
  <2>2. proc[p].quiet \in BOOLEAN
    BY <1>1 DEF YesInv, Progress, Flags
  <2> QED
    BY <1>1, <2>1, <2>2 DEF Owes, Store!None
<1>2. PullTypes /\ CachedInv /\ YesInv /\ [Store!Next]_Store!vars =>
        [\A p \in Store!Busy :
           proc[p].alone /\ proc'[p].at \in Store!Ended =>
             /\ proc'[p].at = "ok" =>
                  \A i \in DOMAIN proc'[p].files : link'[proc'[p].commit][proc'[p].files[i]] # Store!None
             /\ proc[p].quiet /\ Store!Picks(Store!Listed(main), proc[p].sel) # {} => proc'[p].at = "ok"]_Store!vars
  BY <1>1
<1> QED
  BY <1>2, YesIsKept, PTL DEF Store!Spec, YesMeansThere, Store!YesMeansThere

-----------------------------------------------------------------------------
(* The model download: what the disk, a run and its workers are made of.         *)
Versions == DOMAIN object.sizes
RunFields ==
  {"at", "then", "want", "probe", "resume", "again", "from", "cursor", "stop", "err", "signal",
   "tmp", "quiet"}
RunPlaces ==
  {"idle", "choose", "probe", "reconcile", "fresh", "open", "save", "fetch", "commit", "unmeta",
   "unplan", "stream", "ask", "meta", "trunc", "body", "forget"}
PlanRecords ==
  [size : Nat, oid : Versions \cup {0}, validator : Versions \cup {0}, done : SUBSET Nat]
WorkerRecords ==
  [at : {"off", "claim", "get", "body", "sync", "mark", "fault", "file"}, cell : Nat, tries : Nat,
   got : Versions \cup {0}, fault : {"none", "fatal", "noranges", "changed"}]
BlobRecords ==
  [name : Seq(Nat), bytes : Seq(Nat), durable : BOOLEAN, verified : BOOLEAN]

IsKnownRun(r) ==
  /\ DOMAIN r = RunFields
  /\ r.at \in RunPlaces
  /\ r.then \in {"idle", "probe", "stream", "fresh", "ask"}
  /\ r.want \in Versions \cup {0} /\ r.from \in Versions \cup {0}
  /\ r.probe \in PlanRecords /\ r.probe.done = {} /\ r.probe.oid = 0
  /\ r.resume \in BOOLEAN /\ r.again \in BOOLEAN /\ r.stop \in BOOLEAN
  /\ r.signal \in BOOLEAN /\ r.quiet \in BOOLEAN
  /\ r.cursor \in Nat \ {0}
  /\ r.err \in {"none", "fatal", "noranges", "changed"}
  /\ r.tmp \in {"stream", "ranged"}

RunIsKnown == IsKnownRun(run)

DiskIsKnown ==
  /\ stream \in Seq(Versions \cup {0}) /\ meta \in Versions \cup {0}
  /\ ranged \in [there : BOOLEAN, units : Seq(Versions \cup {0})] /\ synced \subseteq Nat
  /\ plan \in PlanRecords
  /\ blobs \subseteq BlobRecords

CrewIsKnown ==
  /\ worker \in [Conns -> WorkerRecords]
  /\ \A w \in Conns : worker[w] # Fetch!Off => run.at = "fetch"

FetchTypes ==
  /\ object \in Objects /\ remote \in Versions /\ strayed \in BOOLEAN
  /\ DiskIsKnown /\ RunIsKnown /\ CrewIsKnown

Ranging == {"probe", "reconcile", "open", "save"}
Streaming ==
  run.at \in {"ask", "meta", "trunc", "body", "forget"} \/ (run.at = "commit" /\ run.tmp = "stream")
Gathering == run.at = "fetch" \/ (run.at = "commit" /\ run.tmp = "ranged")

OnePartial ==
  /\ ranged.there /\ plan # Fetch!NoPlan => stream = << >>
  /\ run.at \in Ranging \cup {"fresh", "forget", "unmeta"} \/ Gathering => stream = << >>
  /\ run.at = "choose" \/ (run.at = "unplan" /\ run.then = "probe") => ~run.resume
  /\ run.at = "unplan" => ~ranged.there /\ (run.then \in {"probe", "fresh"} => stream = << >>)
  /\ (run.at \in Ranging /\ ~run.resume) \/ run.at = "fresh" \/ Streaming => plan = Fetch!NoPlan
  /\ run.at \in Ranging /\ run.resume => ranged.there /\ plan # Fetch!NoPlan
  /\ run.at = "save" \/ Gathering => ranged.there

Probed ==
  run.at \in {"reconcile", "open", "save", "fetch", "fresh"} \/ (run.at = "unplan" /\ run.then = "fresh")

PlanIsAgreed ==
  /\ Probed =>
       \E v \in Versions : run.probe.size = object.sizes[v]
                            /\ run.probe.validator = IF object.etag THEN v ELSE 0
  /\ run.at \in {"open", "save"} /\ run.resume => ~Fetch!Differs(plan)
  /\ object.etag /\ (plan # Fetch!NoPlan \/ Gathering) =>
       plan.validator # 0 /\ plan.size = object.sizes[plan.validator]
  /\ (run.at \in {"open", "save"} \/ Gathering) /\ run.want = 0 /\ ~strayed =>
       plan.oid = 0
  /\ plan.done \subseteq 1 .. plan.size

DoneIsThere ==
  ranged.there =>
    \A i \in plan.done :
      /\ i \in DOMAIN ranged.units \cap synced
      /\ ranged.units[i] # 0
      /\ object.etag /\ plan.oid = 0 => ranged.units[i] = plan.validator

Holding == {"get", "body", "sync", "mark"}
Holds(r) ==
  /\ r.at \in Holding =>
       r.cell \in 1 .. run.cursor - 1 /\ r.cell \notin plan.done /\ r.cell <= plan.size
  /\ r.at \in {"body", "sync", "mark"} => r.got # 0 /\ (object.etag => r.got = plan.validator)
  /\ r.at \in {"sync", "mark"} => r.cell \in DOMAIN ranged.units /\ ranged.units[r.cell] = r.got
  /\ r.at = "mark" => r.cell \in synced

WorkersHold ==
  /\ \A w \in Conns : Holds(worker[w])
  /\ \A v, w \in Conns : v # w /\ worker[v].at \in Holding /\ worker[w].at \in Holding =>
       worker[v].cell # worker[w].cell

Gathered ==
  run.at = "commit" /\ run.tmp = "ranged" =>
    plan.done = 1 .. plan.size /\ Len(ranged.units) = plan.size

StreamIsPrefix ==
  /\ run.at \in {"meta", "trunc", "body"} => run.from # 0
  /\ run.at \in {"trunc", "body"} => meta = 0 \/ meta = run.from
  /\ object.etag /\ ~strayed /\ 
       (stream # << >> \/ run.at \in {"trunc", "body"} \/ (run.at = "commit" /\ run.tmp = "stream"))
       => meta # 0
  /\ meta # 0 /\ run.at # "trunc" /\ ~strayed =>
       \A i \in DOMAIN stream : stream[i] = meta \/ (object.power /\ stream[i] = 0)
  /\ run.at = "commit" /\ run.tmp = "stream" /\ object.etag /\ ~strayed =>
       Len(stream) = object.sizes[meta]

-----------------------------------------------------------------------------
LEMMA ObjectFacts ==
  ASSUME object \in Objects
  PROVE  /\ Versions \subseteq Nat \ {0} /\ 1 \in Versions
         /\ \A v \in Versions : object.sizes[v] \in Nat
         /\ object.cap \in Nat /\ object.etag \in BOOLEAN /\ object.ranges \in BOOLEAN
         /\ object.lfs \in BOOLEAN /\ object.power \in BOOLEAN
<1>1. object.sizes \in Seq(Nat) /\ 1 \in DOMAIN object.sizes /\ object.cap \in Nat
      /\ {object.lfs, object.etag, object.ranges, object.power} \subseteq BOOLEAN
  BY KnownObjects
<1>2. DOMAIN object.sizes = 1 .. Len(object.sizes) /\ Len(object.sizes) \in Nat
  BY <1>1
<1> QED
  BY <1>1, <1>2 DEF Versions

LEMMA VersionFacts ==
  ASSUME object \in Objects, NEW v \in Versions
  PROVE  /\ Fetch!Size(v) = object.sizes[v] /\ Fetch!Size(v) \in Nat
         /\ Fetch!Oid(v) \in Versions \cup {0}
         /\ Fetch!Validator(v) = IF object.etag THEN v ELSE 0
         /\ Fetch!Validator(v) \in Versions \cup {0}
BY ObjectFacts DEF Fetch!Size, Fetch!Oid, Fetch!Validator, Fetch!None

LEMMA FixedRecords ==
  /\ DOMAIN Fetch!Idle = RunFields /\ Fetch!Idle.at = "idle" /\ Fetch!Idle.then = "idle"
  /\ Fetch!Idle.want = 0 /\ Fetch!Idle.from = 0 /\ Fetch!Idle.probe = Fetch!NoPlan
  /\ Fetch!Idle.resume = FALSE /\ Fetch!Idle.again = FALSE /\ Fetch!Idle.stop = FALSE
  /\ Fetch!Idle.signal = FALSE /\ Fetch!Idle.quiet = TRUE
  /\ Fetch!Idle.cursor = 1 /\ Fetch!Idle.err = "none"
  /\ Fetch!Idle.tmp = "stream"
BY DEF Fetch!Idle, RunFields, Fetch!None

LEMMA FixedAreKnown ==
  ASSUME object \in Objects
  PROVE  /\ Fetch!NoPlan \in PlanRecords /\ Fetch!NoPlan.done = {} /\ Fetch!NoPlan.oid = 0
         /\ Fetch!NoPlan.validator = 0 /\ Fetch!NoPlan.size = 0
         /\ Fetch!NoFile \in [there : BOOLEAN, units : Seq(Versions \cup {0})]
         /\ ~Fetch!NoFile.there /\ Fetch!NoFile.units = << >>
         /\ Fetch!Off \in WorkerRecords /\ Fetch!Off.at = "off"
<1>1. << >> \in Seq(Versions \cup {0})
  OBVIOUS
<1> QED
  BY <1>1 DEF Fetch!NoPlan, Fetch!NoFile, Fetch!Off, PlanRecords, WorkerRecords, Fetch!None

LEMMA IdleIsKnown ==
  ASSUME object \in Objects
  PROVE  IsKnownRun(Fetch!Idle)
BY FixedAreKnown DEF IsKnownRun, Fetch!Idle, RunFields, RunPlaces, Fetch!None

LEMMA FetchInitTypes == Fetch!Init => FetchTypes
<1> SUFFICES ASSUME Fetch!Init PROVE FetchTypes
  OBVIOUS
<1>1. /\ object \in Objects /\ remote = 1 /\ stream = << >> /\ meta = 0 /\ ranged = Fetch!NoFile
      /\ synced = {} /\ plan = Fetch!NoPlan /\ blobs = {} /\ run = Fetch!Idle
      /\ worker = [w \in Conns |-> Fetch!Off] /\ strayed = FALSE
  BY DEF Fetch!Init, Fetch!None
<1>2. RunIsKnown
  BY <1>1, IdleIsKnown DEF RunIsKnown
<1>3. DiskIsKnown
  BY <1>1, FixedAreKnown DEF DiskIsKnown
<1>4. CrewIsKnown
  BY <1>1, FixedAreKnown DEF CrewIsKnown
<1> QED
  BY <1>1, <1>2, <1>3, <1>4, ObjectFacts DEF FetchTypes

-----------------------------------------------------------------------------
(* What a step of the run leaves of its fields.                                *)
LEMMA KnownStays ==
  ASSUME object' = object, IsKnownRun(run')
  PROVE  RunIsKnown'
<1>1. Versions' = Versions /\ PlanRecords' = PlanRecords
  BY DEF Versions, PlanRecords
<1> QED
  BY <1>1 DEF RunIsKnown, IsKnownRun

LEMMA RunStaysKnown ==
  ASSUME RunIsKnown, NEW at \in RunPlaces
  PROVE  /\ IsKnownRun([run EXCEPT !.at = at])
         /\ \A then \in {"idle", "probe", "stream", "fresh", "ask"} :
              IsKnownRun([run EXCEPT !.at = at, !.then = then])
         /\ \A tmp \in {"stream", "ranged"} : IsKnownRun([run EXCEPT !.at = at, !.tmp = tmp])
         /\ \A from \in Versions : IsKnownRun([run EXCEPT !.at = at, !.from = from])
         /\ IsKnownRun([run EXCEPT !.at = at, !.cursor = 1])
         /\ IsKnownRun([run EXCEPT !.at = at, !.resume = TRUE])
         /\ IsKnownRun([run EXCEPT !.at = at, !.resume = FALSE, !.again = TRUE])
BY DEF RunIsKnown, IsKnownRun, RunFields

-----------------------------------------------------------------------------
FetchInv ==
  /\ FetchTypes /\ OnePartial /\ PlanIsAgreed /\ DoneIsThere /\ WorkersHold /\ Gathered
  /\ StreamIsPrefix /\ BlobIsOneObject

(* What holds where the workers are off and the disk is left alone.             *)
LEMMA TurnKeeps ==
  ASSUME FetchInv, object' = object, remote' \in Versions, strayed' \in BOOLEAN,
         strayed => strayed', UNCHANGED Fetch!disk, worker' = worker, IsKnownRun(run'),
         \A w \in Conns : worker[w] = Fetch!Off,
         OnePartial', PlanIsAgreed', Gathered', StreamIsPrefix'
  PROVE  FetchInv'
<1>1. /\ stream' = stream /\ meta' = meta /\ ranged' = ranged /\ synced' = synced /\ plan' = plan
      /\ blobs' = blobs
  BY DEF Fetch!disk
<1>2. Versions' = Versions /\ PlanRecords' = PlanRecords /\ WorkerRecords' = WorkerRecords
      /\ BlobRecords' = BlobRecords
  BY DEF Versions, PlanRecords, WorkerRecords, BlobRecords
<1>3. FetchTypes'
  <2>1. DiskIsKnown'
    BY <1>1, <1>2 DEF FetchInv, FetchTypes, DiskIsKnown
  <2>2. CrewIsKnown'
    BY <1>2 DEF FetchInv, FetchTypes, CrewIsKnown
  <2>3. RunIsKnown'
    BY KnownStays
  <2> QED
    BY <1>2, <2>1, <2>2, <2>3 DEF FetchInv, FetchTypes
<1>4. DoneIsThere'
  BY <1>1 DEF FetchInv, DoneIsThere
<1>5. WorkersHold'
  <2>1. \A w \in Conns : worker'[w].at = "off"
    BY FixedAreKnown DEF FetchInv, FetchTypes
  <2> QED
    BY <2>1 DEF WorkersHold, Holds, Holding
<1>6. BlobIsOneObject'
  BY <1>1 DEF FetchInv, BlobIsOneObject, Fetch!BlobIsOneObject, Fetch!Whole, Fetch!Size
<1> QED
  BY <1>3, <1>4, <1>5, <1>6 DEF FetchInv

(* The same where the disk is written, the blobs aside.                         *)
LEMMA WriteKeeps ==
  ASSUME FetchInv, object' = object, remote' = remote, strayed' \in BOOLEAN,
         strayed => strayed', worker' = worker, IsKnownRun(run'), blobs' = blobs,
         stream' \in Seq(Versions \cup {0}), meta' \in Versions \cup {0},
         ranged' \in [there : BOOLEAN, units : Seq(Versions \cup {0})], synced' \subseteq Nat,
         plan' \in PlanRecords, \A w \in Conns : worker[w] = Fetch!Off,
         OnePartial', PlanIsAgreed', DoneIsThere', Gathered', StreamIsPrefix'
  PROVE  FetchInv'
<1>1. Versions' = Versions /\ PlanRecords' = PlanRecords /\ WorkerRecords' = WorkerRecords
      /\ BlobRecords' = BlobRecords
  BY DEF Versions, PlanRecords, WorkerRecords, BlobRecords
<1>2. FetchTypes'
  <2>1. DiskIsKnown'
    BY <1>1 DEF FetchInv, FetchTypes, DiskIsKnown
  <2>2. CrewIsKnown'
    BY <1>1 DEF FetchInv, FetchTypes, CrewIsKnown
  <2>3. RunIsKnown'
    BY KnownStays
  <2> QED
    BY <1>1, <2>1, <2>2, <2>3 DEF FetchInv, FetchTypes
<1>3. WorkersHold'
  <2>1. \A w \in Conns : worker'[w].at = "off"
    BY FixedAreKnown DEF FetchInv, FetchTypes
  <2> QED
    BY <2>1 DEF WorkersHold, Holds, Holding
<1>4. BlobIsOneObject'
  BY DEF FetchInv, BlobIsOneObject, Fetch!BlobIsOneObject, Fetch!Whole, Fetch!Size
<1> QED
  BY <1>2, <1>3, <1>4 DEF FetchInv

LEMMA CrewIsOff ==
  ASSUME FetchTypes, run.at # "fetch" \/ Fetch!Joined
  PROVE  \A w \in Conns : worker[w] = Fetch!Off
BY DEF FetchTypes, CrewIsKnown, Fetch!Joined

(* A run that ends where it is.                                              *)
LEMMA EndKeeps ==
  ASSUME FetchInv, object' = object, remote' = remote, strayed' \in BOOLEAN,
         strayed => strayed', UNCHANGED Fetch!disk, worker' = worker, run' = Fetch!Idle,
         run.at # "fetch" \/ Fetch!Joined, run.at # "trunc" \/ stream = << >> \/ strayed'
  PROVE  FetchInv'
<1>1. /\ stream' = stream /\ meta' = meta /\ ranged' = ranged /\ synced' = synced /\ plan' = plan
  BY DEF Fetch!disk
<1>2. object \in Objects /\ FetchTypes
  BY DEF FetchInv, FetchTypes
<1>3. run'.at = "idle" /\ IsKnownRun(run')
  BY <1>2, FixedRecords, IdleIsKnown
<1>4. OnePartial'
  BY <1>1, <1>3 DEF FetchInv, OnePartial, Ranging, Streaming, Gathering, Fetch!NoPlan, Fetch!None
<1>5. PlanIsAgreed'
  BY <1>1, <1>3 DEF FetchInv, PlanIsAgreed, Probed, Gathering, Fetch!NoPlan, Fetch!None
<1>6. Gathered'
  BY <1>3 DEF Gathered
<1>7. StreamIsPrefix'
  BY <1>1, <1>3 DEF FetchInv, StreamIsPrefix
<1> QED
  BY <1>2, <1>3, <1>4, <1>5, <1>6, <1>7, CrewIsOff, TurnKeeps DEF FetchTypes

(* A run that goes on to another place, the disk left alone.                    *)
LEMMA TurnsKeep ==
  ASSUME FetchInv, object' = object, remote' = remote, strayed' = (strayed \/ Fetch!Strays),
         \/ Fetch!ProbeFails \/ Fetch!ProbeAnswered \/ Fetch!Fresh \/ Fetch!Assembled
         \/ Fetch!AskFails \/ Fetch!AskFresh \/ Fetch!AskResumes \/ Fetch!StreamBreaks
         \/ Fetch!StreamEnds
  PROVE  FetchInv'
<1>1. /\ object \in Objects /\ remote \in Versions /\ FetchTypes /\ RunIsKnown /\ DiskIsKnown
      /\ IsKnownRun(run) /\ DOMAIN run = RunFields
      /\ strayed \in BOOLEAN /\ plan \in PlanRecords
      /\ OnePartial /\ PlanIsAgreed /\ Gathered /\ StreamIsPrefix
  BY DEF FetchInv, FetchTypes, RunIsKnown, IsKnownRun, DiskIsKnown
<1>2. Fetch!Strays \in BOOLEAN /\ strayed' \in BOOLEAN /\ (strayed => strayed')
      /\ (run.at # "reconcile" => strayed' = strayed)
  BY <1>1 DEF Fetch!Strays, Fetch!At
<1>3. UNCHANGED Fetch!disk /\ worker' = worker
  BY DEF Fetch!ProbeFails, Fetch!ProbeAnswered, Fetch!Fresh, Fetch!Assembled,
         Fetch!AskFails, Fetch!AskFresh, Fetch!AskResumes, Fetch!StreamBreaks, Fetch!StreamEnds
<1>4. /\ stream' = stream /\ meta' = meta /\ ranged' = ranged /\ plan' = plan
  BY <1>3 DEF Fetch!disk
<1>5. /\ run.at \notin {"fetch", "trunc", "reconcile"} \/ (run.at = "fetch" /\ Fetch!Joined)
  BY DEF Fetch!ProbeFails, Fetch!ProbeAnswered, Fetch!Fresh, Fetch!Assembled,
         Fetch!AskFails, Fetch!AskFresh, Fetch!AskResumes, Fetch!StreamBreaks, Fetch!StreamEnds,
         Fetch!At, Fetch!Joined
<1>6. \A w \in Conns : worker[w] = Fetch!Off
  BY <1>1, <1>5, CrewIsOff
<1>7. CASE run' = Fetch!Idle
  BY <1>1, <1>2, <1>3, <1>5, <1>7, EndKeeps
<1>8. ASSUME IsKnownRun(run'), OnePartial', PlanIsAgreed', Gathered', StreamIsPrefix'
      PROVE  FetchInv'
  BY <1>1, <1>2, <1>3, <1>6, <1>8, TurnKeeps
<1>9. strayed' = strayed
  BY <1>2, <1>5
<1>10. CASE Fetch!ProbeAnswered
  <2> DEFINE at == IF ~run.resume /\ Fetch!Size(remote) <= 1 THEN "stream" ELSE "reconcile"
  <2> DEFINE probe == [Fetch!NoPlan EXCEPT !.size = Fetch!Size(remote),
                                          !.validator = Fetch!Validator(remote)]
  <2>1. run.at = "probe" /\ run' = [run EXCEPT !.at = at, !.probe = probe]
    BY <1>10 DEF Fetch!ProbeAnswered, Fetch!At
  <2>2. at \in {"stream", "reconcile"}
    OBVIOUS
  <2>3. /\ probe \in PlanRecords /\ probe.done = {} /\ probe.oid = 0
        /\ probe.size = object.sizes[remote]
        /\ probe.validator = IF object.etag THEN remote ELSE 0
    BY <1>1, VersionFacts, FixedAreKnown DEF PlanRecords
  <2> HIDE DEF at, probe
  <2>4. IsKnownRun(run')
    BY <1>1, <2>1, <2>2, <2>3 DEF IsKnownRun, RunFields, RunPlaces
  <2>5. run'.at = at /\ run'.probe = probe /\ run'.resume = run.resume
    BY <1>1, <2>1 DEF RunFields
  <2>6. OnePartial'
    BY <1>1, <1>4, <2>1, <2>2, <2>5 DEF OnePartial, Ranging, Streaming, Gathering, Fetch!NoPlan, Fetch!None
  <2>7. PlanIsAgreed'
    BY <1>1, <1>4, <1>9, <2>1, <2>2, <2>3, <2>5
       DEF PlanIsAgreed, Probed, Gathering, Fetch!NoPlan, Fetch!None, Versions
  <2>8. Gathered' /\ StreamIsPrefix'
    BY <1>1, <1>4, <1>9, <2>1, <2>2, <2>5 DEF Gathered, StreamIsPrefix
  <2> QED
    BY <1>8, <2>4, <2>6, <2>7, <2>8
<1>11. CASE Fetch!Fresh
  <2>1. run.at = "fresh" /\ run' = [run EXCEPT !.at = "reconcile", !.resume = FALSE, !.again = TRUE]
    BY <1>11 DEF Fetch!Fresh, Fetch!At
  <2>2. IsKnownRun(run')
    BY <1>1, <2>1, RunStaysKnown DEF RunPlaces
  <2>3. run'.at = "reconcile" /\ run'.resume = FALSE /\ run'.probe = run.probe
    BY <1>1, <2>1 DEF RunFields
  <2>4. OnePartial'
    BY <1>1, <1>4, <2>1, <2>3 DEF OnePartial, Ranging, Streaming, Gathering, Fetch!NoPlan, Fetch!None
  <2>5. PlanIsAgreed'
    BY <1>1, <1>4, <1>9, <2>1, <2>3 DEF PlanIsAgreed, Probed, Gathering, Fetch!NoPlan, Fetch!None, Versions
  <2>6. Gathered' /\ StreamIsPrefix'
    BY <1>1, <1>4, <1>9, <2>1, <2>3 DEF Gathered, StreamIsPrefix
  <2> QED
    BY <1>8, <2>2, <2>4, <2>5, <2>6
<1>12. CASE Fetch!Assembled /\ run' # Fetch!Idle
  <2>1. /\ run.at = "fetch" /\ run' = [run EXCEPT !.at = "commit", !.tmp = "ranged"]
        /\ plan.done = 1 .. plan.size /\ Len(ranged.units) = plan.size
    BY <1>12 DEF Fetch!Assembled, Fetch!Joined, Fetch!At, Fetch!Fails
  <2>2. IsKnownRun(run')
    BY <1>1, <2>1, RunStaysKnown DEF RunPlaces
  <2>3. run'.at = "commit" /\ run'.tmp = "ranged" /\ run'.want = run.want
    BY <1>1, <2>1 DEF RunFields
  <2>4. OnePartial'
    BY <1>1, <1>4, <2>1, <2>3 DEF OnePartial, Ranging, Streaming, Gathering, Fetch!NoPlan, Fetch!None
  <2>5. PlanIsAgreed'
    BY <1>1, <1>4, <1>9, <2>1, <2>3 DEF PlanIsAgreed, Probed, Gathering, Fetch!NoPlan, Fetch!None
  <2>6. Gathered' /\ StreamIsPrefix'
    BY <1>1, <1>4, <1>9, <2>1, <2>3 DEF Gathered, StreamIsPrefix
  <2> QED
    BY <1>8, <2>2, <2>4, <2>5, <2>6
<1>13. CASE Fetch!StreamEnds
  <2>1. /\ run.at = "body" /\ run' = [run EXCEPT !.at = "commit", !.tmp = "stream"]
        /\ Len(stream) = object.sizes[run.from]
    BY <1>13 DEF Fetch!StreamEnds, Fetch!At, Fetch!have, Fetch!Size
  <2>2. IsKnownRun(run')
    BY <1>1, <2>1, RunStaysKnown DEF RunPlaces
  <2>3. run'.at = "commit" /\ run'.tmp = "stream"
    BY <1>1, <2>1 DEF RunFields
  <2>4. OnePartial'
    BY <1>1, <1>4, <2>1, <2>3 DEF OnePartial, Ranging, Streaming, Gathering, Fetch!NoPlan, Fetch!None
  <2>5. PlanIsAgreed'
    BY <1>1, <1>4, <1>9, <2>1, <2>3 DEF PlanIsAgreed, Probed, Gathering, Fetch!NoPlan, Fetch!None
  <2>6. Gathered' /\ StreamIsPrefix'
    BY <1>1, <1>4, <1>9, <2>1, <2>3 DEF Gathered, StreamIsPrefix
  <2> QED
    BY <1>8, <2>2, <2>4, <2>5, <2>6
<1>14. ASSUME NEW at \in {"meta", "body"}, run.at = "ask",
              run' = [run EXCEPT !.at = at, !.from = remote],
              at = "body" => stream # << >> /\ ~Fetch!WholeInstead(meta)
       PROVE  FetchInv'
  <2>1. IsKnownRun(run')
    BY <1>1, <1>14, RunStaysKnown DEF RunPlaces
  <2>2. run'.at = at /\ run'.from = remote
    BY <1>1, <1>14 DEF RunFields
  <2>3. OnePartial'
    BY <1>1, <1>4, <1>14, <2>2 DEF OnePartial, Ranging, Streaming, Gathering, Fetch!NoPlan, Fetch!None
  <2>4. PlanIsAgreed'
    BY <1>1, <1>4, <1>9, <1>14, <2>2 DEF PlanIsAgreed, Probed, Gathering, Fetch!NoPlan, Fetch!None
  <2>5. remote # 0
    BY <1>1, ObjectFacts
  <2>6. at = "body" => meta = 0 \/ meta = remote
    BY <1>1, <1>14, ObjectFacts DEF Fetch!WholeInstead, Fetch!None, Fetch!Validator, DiskIsKnown
  <2>7. Gathered' /\ StreamIsPrefix'
    BY <1>1, <1>4, <1>9, <1>14, <2>2, <2>5, <2>6 DEF Gathered, StreamIsPrefix
  <2> QED
    BY <1>8, <2>1, <2>3, <2>4, <2>7
<1>15. CASE Fetch!AskFresh
  BY <1>7, <1>14, <1>15 DEF Fetch!AskFresh, Fetch!Receives, Fetch!At, Fetch!Fails
<1>16. CASE Fetch!AskResumes
  <2>1. run.at = "ask" /\ stream # << >> /\ ~Fetch!WholeInstead(meta)
    BY <1>1, <1>16 DEF Fetch!AskResumes, Fetch!At, Fetch!IfRange, Fetch!have, DiskIsKnown
  <2> QED
    BY <1>7, <1>14, <1>16, <2>1 DEF Fetch!AskResumes, Fetch!Receives, Fetch!Fails
<1> QED
  BY <1>7, <1>10, <1>11, <1>12, <1>13, <1>15, <1>16
     DEF Fetch!ProbeFails, Fetch!Assembled, Fetch!AskFails, Fetch!StreamBreaks, Fetch!Fails

(* A run that throws the ranged partial away and is to go on to q.               *)
LEMMA DiscardKeeps ==
  ASSUME FetchInv, object' = object, remote' = remote, strayed' \in BOOLEAN,
         strayed => strayed', worker' = worker, run.at # "fetch" \/ Fetch!Joined,
         NEW q \in {"idle", "probe", "stream", "fresh", "ask"}, Fetch!Discard(q),
         stream' = stream, plan' = plan, blobs' = blobs,
         meta' = meta \/ (meta' = 0 /\ stream = << >>),
         run.at # "trunc", q \in {"probe", "fresh"} => stream = << >>,
         q = "fresh" => Probed, q = "probe" => ~run.resume
  PROVE  FetchInv'
<1>1. /\ object \in Objects /\ FetchTypes /\ DiskIsKnown /\ IsKnownRun(run)
      /\ DOMAIN run = RunFields
      /\ OnePartial /\ PlanIsAgreed /\ StreamIsPrefix /\ plan \in PlanRecords
  BY DEF FetchInv, FetchTypes, RunIsKnown, IsKnownRun, DiskIsKnown
<1>2. /\ ranged' = Fetch!NoFile /\ synced' = {} /\ run' = [run EXCEPT !.at = "unplan", !.then = q]
  BY DEF Fetch!Discard
<1>3. IsKnownRun(run')
  BY <1>1, <1>2, RunStaysKnown DEF RunPlaces, FetchTypes
<1>4. run'.at = "unplan" /\ run'.then = q /\ run'.probe = run.probe /\ run'.resume = run.resume
  BY <1>1, <1>2 DEF RunFields
<1>5. ~ranged'.there
  BY <1>1, <1>2, FixedAreKnown
<1>6. OnePartial'
  BY <1>1, <1>4, <1>5 DEF OnePartial, Ranging, Streaming, Gathering
<1>7. PlanIsAgreed'
  BY <1>1, <1>4 DEF PlanIsAgreed, Probed, Gathering, Fetch!NoPlan, Fetch!None, Versions
<1>8. DoneIsThere' /\ Gathered'
  BY <1>4, <1>5 DEF DoneIsThere, Gathered
<1>9. StreamIsPrefix'
  BY <1>1, <1>4 DEF StreamIsPrefix
<1>10. \A w \in Conns : worker[w] = Fetch!Off
  BY <1>1, CrewIsOff
<1> QED
  BY <1>1, <1>2, <1>3, <1>6, <1>7, <1>8, <1>9, <1>10, FixedAreKnown, WriteKeeps DEF DiskIsKnown

LEMMA DiscardsKeep ==
  ASSUME FetchInv, object' = object, remote' = remote, strayed' = (strayed \/ Fetch!Strays),
         \/ Fetch!Choose \/ Fetch!ProbeDeclined \/ Fetch!Reconcile \/ Fetch!RangedFails
         \/ Fetch!Stream \/ Fetch!Unmeta
  PROVE  FetchInv'
<1>1. /\ object \in Objects /\ remote \in Versions /\ FetchTypes /\ RunIsKnown /\ DiskIsKnown
      /\ IsKnownRun(run) /\ DOMAIN run = RunFields
      /\ strayed \in BOOLEAN /\ plan \in PlanRecords
      /\ OnePartial /\ PlanIsAgreed /\ Gathered /\ StreamIsPrefix
  BY DEF FetchInv, FetchTypes, RunIsKnown, IsKnownRun, DiskIsKnown
<1>2. Fetch!Strays \in BOOLEAN /\ strayed' \in BOOLEAN /\ (strayed => strayed')
      /\ (run.at # "reconcile" => strayed' = strayed)
  BY <1>1 DEF Fetch!Strays, Fetch!At
<1>3. run.at # "trunc" /\ (run.at # "fetch" \/ Fetch!Joined)
  BY DEF Fetch!Choose, Fetch!ProbeDeclined, Fetch!Reconcile, Fetch!RangedFails, Fetch!Goes,
         Fetch!Stream, Fetch!Unmeta, Fetch!At, Fetch!Joined
<1>4. \A w \in Conns : worker[w] = Fetch!Off
  BY <1>1, <1>3, CrewIsOff
<1>5. ASSUME IsKnownRun(run'), OnePartial', PlanIsAgreed', Gathered', StreamIsPrefix',
             UNCHANGED Fetch!disk, worker' = worker
      PROVE  FetchInv'
  BY <1>1, <1>2, <1>4, <1>5, TurnKeeps
<1>6. ASSUME worker' = worker, stream' = stream, plan' = plan, blobs' = blobs, meta' = meta,
             NEW q \in {"idle", "probe", "stream", "fresh", "ask"}, Fetch!Discard(q),
             q \in {"probe", "fresh"} => stream = << >>,
             q = "fresh" => Probed, q = "probe" => ~run.resume
      PROVE  FetchInv'
  BY <1>2, <1>3, <1>6, DiscardKeeps
<1>7. CASE Fetch!Choose
  <2>1. run.at = "choose" /\ run.resume = FALSE
    BY <1>1, <1>7 DEF Fetch!Choose, Fetch!At, OnePartial, IsKnownRun
  <2>2. CASE Fetch!Resumable
    <3>1. /\ run' = [run EXCEPT !.at = "probe", !.resume = TRUE] /\ UNCHANGED Fetch!disk
          /\ worker' = worker
      BY <1>7, <2>2 DEF Fetch!Choose, Fetch!disk
    <3>2. /\ stream' = stream /\ meta' = meta /\ ranged' = ranged /\ plan' = plan
      BY <3>1 DEF Fetch!disk
    <3>3. IsKnownRun(run')
      BY <1>1, <3>1, RunStaysKnown DEF RunPlaces
    <3>4. run'.at = "probe" /\ run'.resume = TRUE
      BY <1>1, <3>1 DEF RunFields
    <3>5. OnePartial'
      BY <1>1, <2>2, <3>2, <3>4 DEF OnePartial, Ranging, Streaming, Gathering, Fetch!Resumable
    <3>6. PlanIsAgreed'
      BY <1>1, <3>2, <3>4 DEF PlanIsAgreed, Probed, Gathering
    <3>7. Gathered' /\ StreamIsPrefix'
      BY <1>1, <1>2, <2>1, <3>2, <3>4 DEF Gathered, StreamIsPrefix
    <3> QED
      BY <1>5, <3>1, <3>3, <3>5, <3>6, <3>7
  <2>3. CASE ~Fetch!Resumable
    <3>1. PICK spare \in BOOLEAN :
            Fetch!Discard(IF object.cap # Fetch!NoCap \/ stream # << >> \/ ~spare
                          THEN "stream" ELSE "probe")
      BY <1>7, <2>3 DEF Fetch!Choose
    <3> QED
      BY <1>6, <1>7, <2>1, <3>1 DEF Fetch!Choose
  <2> QED
    BY <2>2, <2>3
<1>8. CASE Fetch!ProbeDeclined
  <2>1. run.at = "probe"
    BY <1>8 DEF Fetch!ProbeDeclined, Fetch!At
  <2>2. CASE run.resume
    BY <1>6, <1>8, <2>2 DEF Fetch!ProbeDeclined
  <2>3. CASE ~run.resume
    <3>1. run' = [run EXCEPT !.at = "stream"] /\ UNCHANGED Fetch!disk /\ worker' = worker
      BY <1>8, <2>3 DEF Fetch!ProbeDeclined, Fetch!disk
    <3>2. /\ stream' = stream /\ meta' = meta /\ ranged' = ranged /\ plan' = plan
      BY <3>1 DEF Fetch!disk
    <3>3. IsKnownRun(run')
      BY <1>1, <3>1, RunStaysKnown DEF RunPlaces
    <3>4. run'.at = "stream"
      BY <1>1, <3>1 DEF RunFields
    <3>5. OnePartial'
      BY <1>1, <3>2, <3>4 DEF OnePartial, Ranging, Streaming, Gathering
    <3>6. PlanIsAgreed'
      BY <1>1, <3>2, <3>4 DEF PlanIsAgreed, Probed, Gathering
    <3>7. Gathered' /\ StreamIsPrefix'
      BY <1>1, <1>2, <2>1, <3>2, <3>4 DEF Gathered, StreamIsPrefix
    <3> QED
      BY <1>5, <3>1, <3>3, <3>5, <3>6, <3>7
  <2> QED
    BY <2>2, <2>3
<1>9. ASSUME Fetch!Restart, worker' = worker, stream' = stream, plan' = plan, blobs' = blobs,
             meta' = meta, run.at \in {"reconcile", "fetch"}
      PROVE  FetchInv'
  <2>1. stream = << >> /\ Probed
    BY <1>1, <1>9 DEF OnePartial, Ranging, Gathering, Probed
  <2> QED
    BY <1>6, <1>9, <2>1 DEF Fetch!Restart
<1>10. CASE Fetch!Reconcile
  <2>1. run.at = "reconcile"
    BY <1>10 DEF Fetch!Reconcile, Fetch!Goes, Fetch!At
  <2>2. CASE run.resume /\ Fetch!Differs(plan)
    BY <1>9, <1>10, <2>1, <2>2 DEF Fetch!Reconcile
  <2>3. CASE ~(run.resume /\ Fetch!Differs(plan))
    <3>1. run' = [run EXCEPT !.at = "open"] /\ UNCHANGED Fetch!disk /\ worker' = worker
      BY <1>10, <2>3 DEF Fetch!Reconcile, Fetch!Goes
    <3>2. /\ stream' = stream /\ meta' = meta /\ ranged' = ranged /\ plan' = plan
      BY <3>1 DEF Fetch!disk
    <3>3. IsKnownRun(run')
      BY <1>1, <3>1, RunStaysKnown DEF RunPlaces
    <3>4. /\ run'.at = "open" /\ run'.resume = run.resume /\ run'.probe = run.probe
          /\ run'.want = run.want
      BY <1>1, <3>1 DEF RunFields
    <3>5. OnePartial'
      BY <1>1, <2>1, <3>2, <3>4 DEF OnePartial, Ranging, Streaming, Gathering
    <3>6. Fetch!Differs(plan)' <=> Fetch!Differs(plan)
      BY <3>2, <3>4 DEF Fetch!Differs
    <3>7. run.want = 0 /\ ~strayed' => plan.oid = 0
      <4>1. CASE run.resume
        BY <2>1, <4>1 DEF Fetch!Strays, Fetch!At, Fetch!None
      <4>2. CASE ~run.resume
        BY <1>1, <2>1, <4>2, FixedAreKnown DEF OnePartial, Ranging
      <4> QED
        BY <4>1, <4>2
    <3>8. PlanIsAgreed'
      BY <1>1, <2>1, <2>3, <3>2, <3>4, <3>6, <3>7 DEF PlanIsAgreed, Probed, Gathering, Versions
    <3>9. Gathered' /\ StreamIsPrefix'
      BY <1>1, <1>2, <2>1, <3>2, <3>4 DEF Gathered, StreamIsPrefix
    <3> QED
      BY <1>5, <3>1, <3>3, <3>5, <3>8, <3>9
  <2> QED
    BY <2>2, <2>3
<1>11. CASE Fetch!RangedFails
  <2>1. run.at = "fetch"
    BY <1>11 DEF Fetch!RangedFails, Fetch!Joined, Fetch!At
  <2>2. CASE run.err = "fatal"
    <3>1. run' = Fetch!Idle /\ UNCHANGED Fetch!disk /\ worker' = worker
      BY <1>11, <2>2 DEF Fetch!RangedFails, Fetch!disk, Fetch!Fails
    <3> QED
      BY <1>2, <1>3, <2>1, <3>1, EndKeeps
  <2>3. CASE run.err = "noranges"
    BY <1>6, <1>11, <2>3 DEF Fetch!RangedFails
  <2>4. CASE run.err = "changed"
    BY <1>9, <1>11, <2>1, <2>4 DEF Fetch!RangedFails
  <2> QED
    BY <1>11, <2>2, <2>3, <2>4 DEF Fetch!RangedFails
<1>12. CASE Fetch!Stream
  BY <1>6, <1>12 DEF Fetch!Stream
<1>13. CASE Fetch!Unmeta
  <2>1. run.at = "unmeta" /\ stream = << >> /\ meta' = 0
    BY <1>1, <1>13 DEF Fetch!Unmeta, Fetch!At, OnePartial, Fetch!None
  <2> QED
    BY <1>2, <1>3, <1>13, <2>1, DiscardKeeps DEF Fetch!Unmeta
<1> QED
  BY <1>7, <1>8, <1>10, <1>11, <1>12, <1>13

(* The steps of a run that write the disk, between its workers and its commit.   *)
LEMMA WritesKeep ==
  ASSUME FetchInv, object' = object, remote' = remote, strayed' = (strayed \/ Fetch!Strays),
         \/ Fetch!Unplan \/ Fetch!Open \/ Fetch!AskRefused \/ Fetch!Forget
         \/ Fetch!RefreshMeta \/ Fetch!Truncate \/ Fetch!Append1 \/ Fetch!TooLarge
  PROVE  FetchInv'
<1>1. /\ object \in Objects /\ remote \in Versions /\ FetchTypes /\ RunIsKnown /\ DiskIsKnown
      /\ IsKnownRun(run) /\ DOMAIN run = RunFields
      /\ strayed \in BOOLEAN /\ plan \in PlanRecords
      /\ OnePartial /\ PlanIsAgreed /\ DoneIsThere /\ StreamIsPrefix
  BY DEF FetchInv, FetchTypes, RunIsKnown, IsKnownRun, DiskIsKnown
<1>2. run.at \in {"unplan", "open", "ask", "forget", "meta", "trunc", "body"}
  BY DEF Fetch!Unplan, Fetch!Open, Fetch!AskRefused, Fetch!Forget, Fetch!RefreshMeta,
         Fetch!Truncate, Fetch!Append1, Fetch!TooLarge, Fetch!Goes, Fetch!At
<1>3. strayed' = strayed
  BY <1>1, <1>2 DEF Fetch!Strays, Fetch!At
<1>4. \A w \in Conns : worker[w] = Fetch!Off
  BY <1>1, <1>2, CrewIsOff
<1>5. ASSUME worker' = worker, IsKnownRun(run'), blobs' = blobs,
             stream' \in Seq(Versions \cup {0}), meta' \in Versions \cup {0},
             ranged' \in [there : BOOLEAN, units : Seq(Versions \cup {0})], synced' \subseteq Nat,
             plan' \in PlanRecords,
             OnePartial', PlanIsAgreed', DoneIsThere', Gathered', StreamIsPrefix'
      PROVE  FetchInv'
  BY <1>1, <1>3, <1>4, <1>5, WriteKeeps
<1>6. /\ stream \in Seq(Versions \cup {0}) /\ meta \in Versions \cup {0}
      /\ ranged \in [there : BOOLEAN, units : Seq(Versions \cup {0})] /\ synced \subseteq Nat
  BY <1>1 DEF DiskIsKnown
<1>7. CASE Fetch!Unplan
  <2>1. /\ run.at = "unplan" /\ plan' = Fetch!NoPlan
        /\ run' = IF run.then = "idle" THEN Fetch!Idle ELSE [run EXCEPT !.at = run.then]
        /\ stream' = stream /\ meta' = meta /\ ranged' = ranged /\ synced' = synced
        /\ blobs' = blobs /\ worker' = worker
    BY <1>7 DEF Fetch!Unplan, Fetch!At
  <2>2. run.then \in {"idle", "probe", "stream", "fresh", "ask"}
    BY <1>1 DEF IsKnownRun
  <2>3. IsKnownRun(run') /\ run'.at = run.then /\ (run.then # "idle" =>
          run'.resume = run.resume /\ run'.probe = run.probe)
    <3>1. CASE run.then = "idle"
      BY <1>1, <2>1, <3>1, IdleIsKnown, FixedRecords
    <3>2. CASE run.then # "idle"
      <4>1. run.then \in RunPlaces /\ run' = [run EXCEPT !.at = run.then]
        BY <2>1, <2>2, <3>2 DEF RunPlaces
      <4>2. IsKnownRun(run')
        BY <1>1, <4>1, RunStaysKnown
      <4> QED
        BY <1>1, <4>1, <4>2 DEF RunFields
    <3> QED
      BY <3>1, <3>2
  <2>4. plan'.done = {} /\ plan' \in PlanRecords
    BY <1>1, <2>1, FixedAreKnown
  <2>5. ~ranged.there
    BY <1>1, <2>1 DEF OnePartial
  <2>6. OnePartial'
    BY <1>1, <2>1, <2>2, <2>3, <2>5 DEF OnePartial, Ranging, Streaming, Gathering, Fetch!NoPlan, Fetch!None
  <2>7. PlanIsAgreed'
    BY <1>1, <2>1, <2>2, <2>3, <2>4 DEF PlanIsAgreed, Probed, Gathering, Fetch!NoPlan, Fetch!None, Versions
  <2>8. DoneIsThere' /\ Gathered' /\ StreamIsPrefix'
    BY <1>1, <1>3, <2>1, <2>2, <2>3, <2>5 DEF DoneIsThere, Gathered, StreamIsPrefix
  <2> QED
    BY <1>5, <1>6, <2>1, <2>3, <2>4, <2>6, <2>7, <2>8
<1>8. CASE Fetch!Open
  <2>1. /\ run.at = "open" /\ run' = [run EXCEPT !.at = "save"]
        /\ ranged' = [ranged EXCEPT !.there = TRUE]
        /\ stream' = stream /\ meta' = meta /\ plan' = plan /\ synced' = synced
        /\ blobs' = blobs /\ worker' = worker
    BY <1>8 DEF Fetch!Open, Fetch!Goes, Fetch!At
  <2>2. IsKnownRun(run')
    BY <1>1, <2>1, RunStaysKnown DEF RunPlaces
  <2>3. /\ run'.at = "save" /\ run'.resume = run.resume /\ run'.probe = run.probe
        /\ run'.want = run.want
    BY <1>1, <2>1 DEF RunFields
  <2>4. ranged'.there /\ ranged'.units = ranged.units
        /\ ranged' \in [there : BOOLEAN, units : Seq(Versions \cup {0})]
    BY <1>6, <2>1
  <2>5. OnePartial'
    BY <1>1, <2>1, <2>3, <2>4 DEF OnePartial, Ranging, Streaming, Gathering
  <2>6. Fetch!Differs(plan)' <=> Fetch!Differs(plan)
    BY <2>1, <2>3 DEF Fetch!Differs
  <2>7. PlanIsAgreed'
    BY <1>1, <1>3, <2>1, <2>3, <2>6 DEF PlanIsAgreed, Probed, Gathering, Versions
  <2>8. ranged.there \/ plan.done = {}
    BY <1>1, <2>1, FixedAreKnown DEF OnePartial, Ranging
  <2>9. DoneIsThere' /\ Gathered' /\ StreamIsPrefix'
    BY <1>1, <1>3, <2>1, <2>3, <2>4, <2>8 DEF DoneIsThere, Gathered, StreamIsPrefix
  <2> QED
    BY <1>1, <1>5, <1>6, <2>1, <2>2, <2>4, <2>5, <2>7, <2>9
<1>9. ASSUME worker' = worker, blobs' = blobs, ranged' = ranged, synced' = synced, plan' = plan,
             NEW at \in {"stream", "trunc", "body", "commit", "forget", "unmeta"}, run'.at = at,
             IsKnownRun(run'), run.at \in {"ask", "forget", "meta", "trunc", "body"},
             at = "commit" => run'.tmp = "stream",
             stream' \in Seq(Versions \cup {0}), meta' \in Versions \cup {0},
             at \in {"forget", "unmeta"} => stream' = << >>,
             StreamIsPrefix'
      PROVE  FetchInv'
  <2>1. plan = Fetch!NoPlan
    BY <1>1, <1>9 DEF OnePartial, Streaming
  <2>2. OnePartial'
    BY <1>1, <1>9, <2>1 DEF OnePartial, Ranging, Streaming, Gathering
  <2>3. PlanIsAgreed'
    BY <1>1, <1>9, <2>1 DEF PlanIsAgreed, Probed, Gathering
  <2>4. DoneIsThere' /\ Gathered'
    BY <1>1, <1>9 DEF DoneIsThere, Gathered
  <2> QED
    BY <1>1, <1>5, <1>6, <1>9, <2>2, <2>3, <2>4
<1>10. << >> \in Seq(Versions \cup {0})
  OBVIOUS
<1>11. CASE Fetch!AskRefused
  <2>1. /\ run.at = "ask" /\ Len(stream) > 0 /\ ~Fetch!WholeInstead(meta)
        /\ meta' = meta /\ ranged' = ranged /\ synced' = synced /\ plan' = plan /\ blobs' = blobs
        /\ worker' = worker
    BY <1>11 DEF Fetch!AskRefused, Fetch!IfRange, Fetch!have, Fetch!At
  <2>2. stream # << >>
    BY <1>6, <2>1
  <2>3. CASE Len(stream) = Fetch!Size(remote)
    <3>1. run' = [run EXCEPT !.at = "commit", !.tmp = "stream"] /\ stream' = stream
      BY <1>11, <2>3 DEF Fetch!AskRefused, Fetch!have
    <3>2. IsKnownRun(run')
      BY <1>1, <3>1, RunStaysKnown DEF RunPlaces
    <3>3. run'.at = "commit" /\ run'.tmp = "stream"
      BY <1>1, <3>1 DEF RunFields
    <3>4. object.etag /\ ~strayed => meta = remote
      BY <1>1, <2>1, <2>2 DEF StreamIsPrefix, Fetch!WholeInstead, Fetch!Validator, Fetch!None
    <3>5. object.etag /\ ~strayed => Len(stream) = object.sizes[meta]
      BY <2>3, <3>4 DEF Fetch!Size
    <3>6. StreamIsPrefix'
      BY <1>1, <1>3, <2>1, <3>1, <3>3, <3>5, <2>2 DEF StreamIsPrefix
    <3> QED
      BY <1>6, <1>9, <2>1, <3>1, <3>2, <3>3, <3>6
  <2>4. CASE Len(stream) # Fetch!Size(remote)
    <3>1. run' = [run EXCEPT !.at = "forget"] /\ stream' = << >>
      BY <1>11, <2>4 DEF Fetch!AskRefused, Fetch!have
    <3>2. IsKnownRun(run')
      BY <1>1, <3>1, RunStaysKnown DEF RunPlaces
    <3>3. run'.at = "forget"
      BY <1>1, <3>1 DEF RunFields
    <3>4. StreamIsPrefix'
      BY <3>1, <3>3 DEF StreamIsPrefix
    <3> QED
      BY <1>6, <1>9, <1>10, <2>1, <3>1, <3>2, <3>3, <3>4
  <2> QED
    BY <2>3, <2>4
<1>12. CASE Fetch!Forget
  <2>1. /\ run.at = "forget" /\ run' = [run EXCEPT !.at = "stream"] /\ meta' = 0
        /\ stream' = stream /\ ranged' = ranged /\ synced' = synced /\ plan' = plan
        /\ blobs' = blobs /\ worker' = worker
    BY <1>12 DEF Fetch!Forget, Fetch!Goes, Fetch!At, Fetch!None
  <2>2. IsKnownRun(run')
    BY <1>1, <2>1, RunStaysKnown DEF RunPlaces
  <2>3. run'.at = "stream"
    BY <1>1, <2>1 DEF RunFields
  <2>4. stream = << >>
    BY <1>1, <2>1 DEF OnePartial
  <2>5. StreamIsPrefix'
    BY <2>1, <2>3, <2>4 DEF StreamIsPrefix
  <2> QED
    BY <1>6, <1>9, <2>1, <2>2, <2>3, <2>5
<1>13. CASE Fetch!RefreshMeta
  <2>1. /\ run.at = "meta" /\ run' = [run EXCEPT !.at = "trunc"]
        /\ meta' = Fetch!Validator(run.from)
        /\ stream' = stream /\ ranged' = ranged /\ synced' = synced /\ plan' = plan
        /\ blobs' = blobs /\ worker' = worker
    BY <1>13 DEF Fetch!RefreshMeta, Fetch!Goes, Fetch!At
  <2>2. IsKnownRun(run')
    BY <1>1, <2>1, RunStaysKnown DEF RunPlaces
  <2>3. run'.at = "trunc" /\ run'.from = run.from
    BY <1>1, <2>1 DEF RunFields
  <2>4. run.from # 0 /\ run.from \in Versions
    BY <1>1, <2>1 DEF StreamIsPrefix, IsKnownRun
  <2>5. meta' = IF object.etag THEN run.from ELSE 0
    BY <1>1, <2>1, <2>4, VersionFacts
  <2>6. StreamIsPrefix'
    BY <1>3, <2>1, <2>3, <2>4, <2>5 DEF StreamIsPrefix
  <2> QED
    BY <1>6, <1>9, <2>1, <2>2, <2>3, <2>4, <2>5, <2>6
<1>14. CASE Fetch!Truncate
  <2>1. /\ run.at = "trunc" /\ run' = [run EXCEPT !.at = "body"] /\ stream' = << >>
        /\ meta' = meta /\ ranged' = ranged /\ synced' = synced /\ plan' = plan
        /\ blobs' = blobs /\ worker' = worker
    BY <1>14 DEF Fetch!Truncate, Fetch!Goes, Fetch!At
  <2>2. IsKnownRun(run')
    BY <1>1, <2>1, RunStaysKnown DEF RunPlaces
  <2>3. run'.at = "body" /\ run'.from = run.from
    BY <1>1, <2>1 DEF RunFields
  <2>4. StreamIsPrefix'
    BY <1>1, <1>3, <2>1, <2>3 DEF StreamIsPrefix
  <2> QED
    BY <1>6, <1>9, <1>10, <2>1, <2>2, <2>3, <2>4
<1>15. CASE Fetch!Append1
  <2>1. /\ run.at = "body" /\ run' = run /\ stream' = Append(stream, run.from)
        /\ meta' = meta /\ ranged' = ranged /\ synced' = synced /\ plan' = plan
        /\ blobs' = blobs /\ worker' = worker
    BY <1>15 DEF Fetch!Append1, Fetch!At
  <2>2. run.from \in Versions /\ run.from # 0 /\ (meta = 0 \/ meta = run.from)
    BY <1>1, <2>1 DEF StreamIsPrefix, IsKnownRun
  <2>3. /\ stream' \in Seq(Versions \cup {0})
        /\ \A i \in DOMAIN stream' : (i \in DOMAIN stream /\ stream'[i] = stream[i]) \/ stream'[i] = run.from
    BY <1>6, <2>1, <2>2
  <2>4. StreamIsPrefix'
    BY <1>1, <1>3, <2>1, <2>2, <2>3 DEF StreamIsPrefix
  <2>5. IsKnownRun(run') /\ run'.at = "body"
    BY <1>1, <2>1
  <2>6. stream' \in Seq(Versions \cup {0}) /\ meta' \in Versions \cup {0}
    BY <1>6, <2>1, <2>3
  <2> QED
    BY <1>9, <2>1, <2>4, <2>5, <2>6
<1>16. CASE Fetch!TooLarge
  <2>1. /\ run.at = "body" /\ run' = [run EXCEPT !.at = "unmeta"] /\ stream' = << >>
        /\ meta' = meta /\ ranged' = ranged /\ synced' = synced /\ plan' = plan
        /\ blobs' = blobs /\ worker' = worker
    BY <1>16 DEF Fetch!TooLarge, Fetch!At
  <2>2. IsKnownRun(run')
    BY <1>1, <2>1, RunStaysKnown DEF RunPlaces
  <2>3. run'.at = "unmeta"
    BY <1>1, <2>1 DEF RunFields
  <2>4. StreamIsPrefix'
    BY <2>1, <2>3 DEF StreamIsPrefix
  <2> QED
    BY <1>6, <1>9, <1>10, <2>1, <2>2, <2>3, <2>4
<1> QED
  BY <1>7, <1>8, <1>11, <1>12, <1>13, <1>14, <1>15, <1>16

(* The plan is written, and the first workers are let go.                        *)
LEMMA SavePlanKeeps ==
  ASSUME FetchInv, object' = object, remote' = remote, strayed' = (strayed \/ Fetch!Strays),
         Fetch!SavePlan
  PROVE  FetchInv'
<1>1. /\ object \in Objects /\ remote \in Versions /\ FetchTypes /\ RunIsKnown /\ DiskIsKnown
      /\ IsKnownRun(run) /\ DOMAIN run = RunFields
      /\ strayed \in BOOLEAN /\ plan \in PlanRecords /\ run.probe \in PlanRecords
      /\ run.want \in Versions \cup {0} /\ run.probe.done = {} /\ run.probe.oid = 0
      /\ OnePartial /\ PlanIsAgreed /\ DoneIsThere /\ StreamIsPrefix /\ BlobIsOneObject
  BY DEF FetchInv, FetchTypes, RunIsKnown, IsKnownRun, DiskIsKnown
<1>2. /\ run.at = "save" /\ run' = [run EXCEPT !.at = "fetch", !.cursor = 1]
      /\ plan' = Fetch!Agreed /\ stream' = stream /\ meta' = meta /\ ranged' = ranged
      /\ synced' = synced /\ blobs' = blobs
  BY DEF Fetch!SavePlan, Fetch!At
<1>3. PICK crew \in SUBSET (Conns \ {1}) :
        worker' = [w \in Conns |-> IF w \in crew \cup {1} THEN [Fetch!Off EXCEPT !.at = "claim"]
                                   ELSE Fetch!Off]
  BY DEF Fetch!SavePlan
<1>4. strayed' = strayed
  BY <1>1, <1>2 DEF Fetch!Strays, Fetch!At
<1>5. /\ Versions' = Versions /\ PlanRecords' = PlanRecords /\ WorkerRecords' = WorkerRecords
      /\ BlobRecords' = BlobRecords
  BY DEF Versions, PlanRecords, WorkerRecords, BlobRecords
<1>6. IsKnownRun(run')
  BY <1>1, <1>2, RunStaysKnown DEF RunPlaces
<1>7. run'.at = "fetch" /\ run'.want = run.want /\ run'.probe = run.probe
  BY <1>1, <1>2 DEF RunFields
<1>8. PICK v \in Versions : /\ run.probe.size = object.sizes[v]
                            /\ run.probe.validator = IF object.etag THEN v ELSE 0
  BY <1>1, <1>2 DEF PlanIsAgreed, Probed
<1>9. /\ plan' \in PlanRecords /\ plan'.size = run.probe.size
      /\ plan'.validator = run.probe.validator
      /\ plan'.oid = 0 => run.want = 0
      /\ run.want = 0 /\ ~strayed => plan'.oid = 0
      /\ plan'.done \subseteq 1 .. plan'.size
      /\ plan'.done # {} => plan'.done = plan.done /\ run.resume
                             /\ (plan'.oid = 0 => plan.oid = 0)
  <2>1. CASE run.resume
    <3>1. plan' = [plan EXCEPT !.oid = IF plan.oid = 0 THEN run.want ELSE plan.oid,
                               !.validator = run.probe.validator]
      BY <1>2, <2>1 DEF Fetch!Agreed, Fetch!None
    <3>2. plan.size = run.probe.size
      BY <1>1, <1>2, <2>1 DEF PlanIsAgreed, Fetch!Differs
    <3>3. /\ plan'.size = plan.size /\ plan'.done = plan.done
          /\ plan'.validator = run.probe.validator
          /\ plan'.oid = IF plan.oid = 0 THEN run.want ELSE plan.oid
      BY <1>1, <3>1 DEF PlanRecords
    <3>4. plan' \in PlanRecords
      BY <1>1, <3>1 DEF PlanRecords
    <3> QED
      BY <1>1, <1>2, <2>1, <3>2, <3>3, <3>4 DEF PlanIsAgreed
  <2>2. CASE ~run.resume
    <3>1. plan' = [run.probe EXCEPT !.oid = run.want]
      BY <1>2, <2>2 DEF Fetch!Agreed
    <3>2. /\ plan'.size = run.probe.size /\ plan'.done = {}
          /\ plan'.validator = run.probe.validator /\ plan'.oid = run.want
          /\ plan' \in PlanRecords
      BY <1>1, <3>1 DEF PlanRecords
    <3> QED
      BY <3>2
  <2> QED
    BY <2>1, <2>2
<1>10. FetchTypes'
  <2>1. RunIsKnown'
    BY <1>6, KnownStays
  <2>2. DiskIsKnown'
    BY <1>1, <1>2, <1>5, <1>9 DEF DiskIsKnown
  <2>3. [Fetch!Off EXCEPT !.at = "claim"] \in WorkerRecords
    BY <1>1, FixedAreKnown DEF WorkerRecords
  <2>4. CrewIsKnown'
    BY <1>1, <1>3, <1>5, <1>7, <2>3, FixedAreKnown DEF CrewIsKnown
  <2> QED
    BY <1>1, <1>4, <1>5, <2>1, <2>2, <2>4 DEF FetchTypes
<1>11. OnePartial'
  BY <1>1, <1>2, <1>7 DEF OnePartial, Ranging, Streaming, Gathering
<1>12. PlanIsAgreed'
  <2>1. v # 0
    BY <1>1, ObjectFacts
  <2> QED
    BY <1>1, <1>4, <1>5, <1>7, <1>8, <1>9, <2>1 DEF PlanIsAgreed, Probed, Gathering
<1>13. DoneIsThere'
  <2> SUFFICES ASSUME ranged.there, NEW i \in plan'.done
               PROVE  /\ i \in DOMAIN ranged.units \cap synced
                      /\ ranged.units[i] # 0
                      /\ object.etag /\ plan'.oid = 0 => ranged.units[i] = plan'.validator
    BY <1>2 DEF DoneIsThere
  <2>1. plan.done = plan'.done /\ run.resume /\ (plan'.oid = 0 => plan.oid = 0)
    BY <1>9
  <2>2. /\ i \in DOMAIN ranged.units \cap synced
        /\ ranged.units[i] # 0
        /\ object.etag /\ plan.oid = 0 => ranged.units[i] = plan.validator
    BY <1>1, <2>1 DEF DoneIsThere
  <2>3. ASSUME object.etag, plan'.oid = 0
        PROVE  plan'.validator = plan.validator
    <3>1. plan # Fetch!NoPlan /\ ~Fetch!Differs(plan)
      BY <1>1, <1>2, <2>1 DEF OnePartial, Ranging, PlanIsAgreed
    <3>2. plan.validator # 0 /\ run.probe.validator # 0
      BY <1>1, <1>8, <2>3, <3>1, ObjectFacts DEF PlanIsAgreed
    <3>3. plan.oid = 0 /\ run.want = 0
      BY <1>9, <2>1, <2>3
    <3> QED
      BY <1>9, <3>1, <3>2, <3>3 DEF Fetch!Differs, Fetch!None
  <2> QED
    BY <2>1, <2>2, <2>3
<1>14. Gathered'
  BY <1>7 DEF Gathered
<1>15. StreamIsPrefix'
  BY <1>1, <1>2, <1>4, <1>7 DEF StreamIsPrefix
<1>16. WorkersHold'
  <2>1. \A w \in Conns : worker'[w].at \in {"off", "claim"}
    BY <1>1, <1>3, FixedAreKnown DEF WorkerRecords
  <2> QED
    BY <2>1 DEF WorkersHold, Holds, Holding
<1>17. BlobIsOneObject'
  BY <1>1, <1>2, <1>4 DEF BlobIsOneObject, Fetch!BlobIsOneObject, Fetch!Whole, Fetch!Size
<1> QED
  BY <1>10, <1>11, <1>12, <1>13, <1>14, <1>15, <1>16, <1>17 DEF FetchInv

(* The assembled file becomes a blob.                                           *)
LEMMA CommitKeeps ==
  ASSUME FetchInv, object' = object, remote' = remote, strayed' = (strayed \/ Fetch!Strays),
         Fetch!Commit
  PROVE  FetchInv'
<1>1. /\ object \in Objects /\ remote \in Versions /\ FetchTypes /\ RunIsKnown /\ DiskIsKnown
      /\ IsKnownRun(run) /\ DOMAIN run = RunFields
      /\ strayed \in BOOLEAN /\ plan \in PlanRecords /\ CrewIsKnown
      /\ run.want \in Versions \cup {0} /\ run.tmp \in {"stream", "ranged"}
      /\ OnePartial /\ PlanIsAgreed /\ DoneIsThere /\ Gathered /\ StreamIsPrefix /\ BlobIsOneObject
  BY DEF FetchInv, FetchTypes, RunIsKnown, IsKnownRun, DiskIsKnown
<1>2. /\ run.at = "commit" /\ run' = [run EXCEPT !.at = "unmeta"]
      /\ meta' = meta /\ plan' = plan /\ worker' = worker
  BY DEF Fetch!Commit, Fetch!At
<1>3. strayed' = strayed
  BY <1>1, <1>2 DEF Fetch!Strays, Fetch!At
<1>4. /\ stream \in Seq(Versions \cup {0}) /\ meta \in Versions \cup {0}
      /\ ranged \in [there : BOOLEAN, units : Seq(Versions \cup {0})] /\ synced \subseteq Nat
      /\ blobs \subseteq BlobRecords
  BY <1>1 DEF DiskIsKnown
<1>5. /\ stream' = << >>
      /\ \/ run.tmp = "stream" /\ ranged' = ranged /\ synced' = synced
         \/ run.tmp = "ranged" /\ ranged' = Fetch!NoFile /\ synced' = {}
  BY <1>1, <1>2 DEF Fetch!Commit, OnePartial, Gathering
<1>6. IsKnownRun(run')
  BY <1>1, <1>2, RunStaysKnown DEF RunPlaces
<1>7. run'.at = "unmeta"
  BY <1>1, <1>2 DEF RunFields
<1>8. run.tmp = "stream" => plan.done = {}
  BY <1>1, <1>2, FixedAreKnown DEF OnePartial, Streaming
<1>9. /\ stream' \in Seq(Versions \cup {0}) /\ synced' \subseteq Nat
      /\ ranged' \in [there : BOOLEAN, units : Seq(Versions \cup {0})]
  BY <1>1, <1>4, <1>5, FixedAreKnown
<1> DEFINE u == Fetch!Assembly
<1>10. u \in Seq(Versions \cup {0}) /\ u \in Seq(Nat)
  <2>1. u \in Seq(Versions \cup {0})
    BY <1>4 DEF Fetch!Assembly
  <2>2. Versions \cup {0} \subseteq Nat
    BY <1>1, ObjectFacts
  <2> QED
    BY <2>1, <2>2
<1>11. run.want = 0 /\ object.etag /\ ~strayed =>
         (\E v \in Versions : u = Fetch!Whole(v)) \/ (object.power /\ run.tmp = "stream")
  <2> SUFFICES ASSUME run.want = 0, object.etag, ~strayed, ~(object.power /\ run.tmp = "stream")
               PROVE  \E v \in Versions : u = Fetch!Whole(v)
    OBVIOUS
  <2>1. CASE run.tmp = "stream"
    <3>1. /\ meta \in Versions /\ Len(stream) = object.sizes[meta]
          /\ \A i \in DOMAIN stream : stream[i] = meta
      BY <1>1, <1>2, <1>4, <2>1 DEF StreamIsPrefix
    <3>2. stream = Fetch!Whole(meta)
      BY <1>4, <3>1 DEF Fetch!Whole, Fetch!Size
    <3> QED
      BY <2>1, <3>1, <3>2 DEF Fetch!Assembly
  <2>2. CASE run.tmp = "ranged"
    <3>1. Gathering /\ ranged.there /\ plan.done = 1 .. plan.size /\ Len(ranged.units) = plan.size
      BY <1>1, <1>2, <2>2 DEF Gathering, OnePartial, Gathered
    <3>2. /\ plan.oid = 0 /\ plan.validator # 0 /\ plan.size = object.sizes[plan.validator]
          /\ plan.validator \in Versions
      BY <1>1, <3>1 DEF PlanIsAgreed, PlanRecords
    <3>3. \A i \in 1 .. plan.size : ranged.units[i] = plan.validator
      BY <1>1, <3>1, <3>2 DEF DoneIsThere
    <3>4. ranged.units \in Seq(Versions \cup {0})
      BY <1>4
    <3>5. ranged.units = Fetch!Whole(plan.validator)
      BY <3>1, <3>2, <3>3, <3>4 DEF Fetch!Whole, Fetch!Size
    <3> QED
      BY <2>2, <3>2, <3>5 DEF Fetch!Assembly
  <2> QED
    BY <1>1, <2>1, <2>2
<1>12. run.want # 0 /\ Fetch!Verified => \E v \in Versions : u = Fetch!Whole(v)
  BY <1>1 DEF Fetch!Verified, Fetch!None
<1> DEFINE new == [name |-> u, bytes |-> u, durable |-> run.tmp = "ranged",
                   verified |-> run.want # Fetch!None]
<1>13. \A b \in blobs' : b \in blobs \/ (Fetch!Verified /\ b = new)
  BY DEF Fetch!Commit
<1>14. /\ new.name = u /\ new.bytes = u /\ new.durable = (run.tmp = "ranged")
       /\ new.verified = (run.want # 0) /\ new \in BlobRecords
  BY <1>10 DEF BlobRecords, Fetch!None
<1> HIDE DEF u, new
<1>15. BlobIsOneObject'
  <2>1. \A v : Fetch!Whole(v)' = Fetch!Whole(v)
    BY DEF Fetch!Whole, Fetch!Size
  <2> SUFFICES ASSUME NEW b \in blobs'
               PROVE  /\ b.verified => \E v \in Versions : b.name = Fetch!Whole(v)
                      /\ \/ \E v \in Versions : b.bytes = Fetch!Whole(v)
                         \/ ~b.verified /\ (~object.etag \/ strayed)
                         \/ object.power /\ ~b.durable
    BY <1>3, <2>1 DEF BlobIsOneObject, Fetch!BlobIsOneObject, Versions
  <2>2. CASE b \in blobs
    BY <1>1, <2>2 DEF BlobIsOneObject, Fetch!BlobIsOneObject, Versions
  <2>3. CASE Fetch!Verified /\ b = new
    BY <1>1, <1>11, <1>12, <1>14, <2>3
  <2> QED
    BY <1>13, <2>2, <2>3
<1>16. FetchTypes'
  <2>1. /\ Versions' = Versions /\ PlanRecords' = PlanRecords /\ WorkerRecords' = WorkerRecords
        /\ BlobRecords' = BlobRecords
    BY DEF Versions, PlanRecords, WorkerRecords, BlobRecords
  <2>2. RunIsKnown'
    BY <1>6, KnownStays
  <2>3. blobs' \subseteq BlobRecords
    BY <1>4, <1>13, <1>14
  <2>4. DiskIsKnown'
    BY <1>1, <1>2, <1>4, <1>9, <2>1, <2>3 DEF DiskIsKnown
  <2>5. CrewIsKnown'
    BY <1>1, <1>2, <2>1 DEF CrewIsKnown
  <2> QED
    BY <1>1, <1>3, <2>1, <2>2, <2>4, <2>5 DEF FetchTypes
<1>17. OnePartial'
  BY <1>1, <1>5, <1>7 DEF OnePartial, Ranging, Streaming, Gathering
<1>18. PlanIsAgreed'
  BY <1>1, <1>2, <1>7 DEF PlanIsAgreed, Probed, Gathering
<1>19. DoneIsThere'
  BY <1>1, <1>2, <1>5, <1>8, FixedAreKnown DEF DoneIsThere
<1>20. Gathered' /\ StreamIsPrefix'
  BY <1>5, <1>7 DEF Gathered, StreamIsPrefix
<1>21. WorkersHold'
  <2>1. \A w \in Conns : worker'[w].at = "off"
    BY <1>1, <1>2, FixedAreKnown DEF CrewIsKnown
  <2> QED
    BY <2>1 DEF WorkersHold, Holds, Holding
<1> QED
  BY <1>15, <1>16, <1>17, <1>18, <1>19, <1>20, <1>21 DEF FetchInv

(* A run begins.                                                              *)
LEMMA StartKeeps ==
  ASSUME FetchInv, object' = object, remote' = remote, strayed' = strayed, Fetch!Start
  PROVE  FetchInv'
<1>1. /\ object \in Objects /\ remote \in Versions /\ FetchTypes /\ strayed \in BOOLEAN
      /\ OnePartial /\ PlanIsAgreed /\ Gathered /\ StreamIsPrefix
  BY DEF FetchInv, FetchTypes
<1>2. run.at = "idle" /\ UNCHANGED Fetch!disk /\ worker' = worker
  BY DEF Fetch!Start, Fetch!At
<1>3. PICK quiet \in BOOLEAN, want \in {0, Fetch!Oid(remote)} :
        run' = [Fetch!Idle EXCEPT !.at = "choose", !.want = want, !.quiet = quiet]
  BY DEF Fetch!Start, Fetch!None
<1>4. want \in Versions \cup {0}
  BY <1>1, VersionFacts
<1>5. /\ stream' = stream /\ meta' = meta /\ ranged' = ranged /\ plan' = plan
  BY <1>2 DEF Fetch!disk
<1>6. /\ run'.at = "choose" /\ run'.resume = FALSE
  BY <1>3, FixedRecords DEF RunFields
<1>7. IsKnownRun(run')
  <2>1. IsKnownRun(Fetch!Idle)
    BY <1>1, IdleIsKnown
  <2> QED
    BY <1>3, <1>4, <2>1 DEF IsKnownRun, RunFields, RunPlaces
<1>8. OnePartial'
  BY <1>1, <1>5, <1>6 DEF OnePartial, Ranging, Streaming, Gathering
<1>9. PlanIsAgreed'
  BY <1>1, <1>5, <1>6 DEF PlanIsAgreed, Probed, Gathering
<1>10. Gathered' /\ StreamIsPrefix'
  BY <1>1, <1>2, <1>5, <1>6 DEF Gathered, StreamIsPrefix
<1>11. \A w \in Conns : worker[w] = Fetch!Off
  BY <1>1, <1>2, CrewIsOff
<1> QED
  BY <1>1, <1>2, <1>7, <1>8, <1>9, <1>10, <1>11, TurnKeeps

(* What a kill or a power loss leaves.                                        *)
LEMMA CrashKeeps ==
  ASSUME FetchInv, object' = object, remote' = remote,
         strayed' = (strayed \/ (Fetch!At("trunc") /\ stream # << >>)),
         run' = Fetch!Idle, worker' = [w \in Conns |-> Fetch!Off],
         meta' = meta, synced' = synced, plan' = plan, ranged'.there = ranged.there,
         ranged' \in [there : BOOLEAN, units : Seq(Versions \cup {0})],
         \A i \in DOMAIN ranged.units \cap synced :
           i \in DOMAIN ranged'.units /\ ranged'.units[i] = ranged.units[i],
         stream' \in Seq(Versions \cup {0}), stream = << >> => stream' = << >>,
         stream' = << >> => stream = << >>,
         \A i \in DOMAIN stream' :
           i \in DOMAIN stream /\ (stream'[i] = stream[i] \/ (object.power /\ stream'[i] = 0)),
         blobs' \subseteq BlobRecords, BlobIsOneObject'
  PROVE  FetchInv'
<1>1. /\ object \in Objects /\ remote \in Versions /\ FetchTypes /\ DiskIsKnown
      /\ strayed \in BOOLEAN /\ OnePartial /\ PlanIsAgreed /\ DoneIsThere /\ StreamIsPrefix
  BY DEF FetchInv, FetchTypes
<1>2. Fetch!At("trunc") <=> run.at = "trunc"
  BY DEF Fetch!At
<1>3. strayed' \in BOOLEAN /\ (~strayed' => ~strayed /\ (run.at # "trunc" \/ stream = << >>))
  BY <1>1, <1>2
<1>4. run'.at = "idle" /\ IsKnownRun(run')
  BY <1>1, FixedRecords, IdleIsKnown
<1>5. FetchTypes'
  <2>1. /\ Versions' = Versions /\ PlanRecords' = PlanRecords /\ WorkerRecords' = WorkerRecords
        /\ BlobRecords' = BlobRecords
    BY DEF Versions, PlanRecords, WorkerRecords, BlobRecords
  <2>2. RunIsKnown'
    BY <1>4, KnownStays
  <2>3. DiskIsKnown'
    BY <1>1, <2>1 DEF DiskIsKnown
  <2>4. CrewIsKnown'
    BY <1>1, <2>1, FixedAreKnown DEF CrewIsKnown
  <2> QED
    BY <1>1, <1>3, <2>1, <2>2, <2>3, <2>4 DEF FetchTypes
<1>6. OnePartial'
  BY <1>1, <1>4 DEF OnePartial, Ranging, Streaming, Gathering, Fetch!NoPlan, Fetch!None
<1>7. PlanIsAgreed'
  BY <1>1, <1>4 DEF PlanIsAgreed, Probed, Gathering, Fetch!NoPlan, Fetch!None
<1>8. DoneIsThere'
  BY <1>1 DEF DoneIsThere
<1>9. Gathered'
  BY <1>4 DEF Gathered
<1>10. StreamIsPrefix'
  <2>1. object.etag /\ ~strayed' /\ stream' # << >> => meta # 0
    BY <1>1, <1>3 DEF StreamIsPrefix
  <2>2. meta # 0 /\ ~strayed' =>
          \A i \in DOMAIN stream' : stream'[i] = meta \/ (object.power /\ stream'[i] = 0)
    BY <1>1, <1>3 DEF StreamIsPrefix
  <2> QED
    BY <1>4, <2>1, <2>2 DEF StreamIsPrefix
<1>11. WorkersHold'
  <2>1. \A w \in Conns : worker'[w].at = "off"
    BY <1>1, FixedAreKnown
  <2> QED
    BY <2>1 DEF WorkersHold, Holds, Holding
<1> QED
  BY <1>5, <1>6, <1>7, <1>8, <1>9, <1>10, <1>11 DEF FetchInv

LEMMA KilledKeeps ==
  ASSUME FetchInv, object' = object, Fetch!Killed
  PROVE  FetchInv'
<1>1. /\ object \in Objects /\ FetchTypes /\ DiskIsKnown /\ strayed \in BOOLEAN
      /\ BlobIsOneObject
  BY DEF FetchInv, FetchTypes
<1>2. /\ run' = Fetch!Idle /\ worker' = [w \in Conns |-> Fetch!Off]
      /\ strayed' = (strayed \/ (Fetch!At("trunc") /\ stream # << >>)) /\ remote' = remote
      /\ stream' = stream /\ meta' = meta /\ ranged' = ranged /\ synced' = synced /\ plan' = plan
      /\ blobs' = blobs
  BY DEF Fetch!Killed, Fetch!disk
<1>3. strayed => strayed'
  BY <1>2
<1>4. BlobIsOneObject'
  BY <1>1, <1>2, <1>3 DEF BlobIsOneObject, Fetch!BlobIsOneObject, Fetch!Whole, Fetch!Size
<1> QED
  BY <1>1, <1>2, <1>4, CrashKeeps DEF DiskIsKnown

LEMMA SurvivorFacts ==
  ASSUME NEW S, 0 \in S, NEW u \in Seq(S), NEW safe, NEW u2 \in Fetch!Survivors(u, safe)
  PROVE  /\ u2 \in Seq(S) /\ DOMAIN u2 = DOMAIN u
         /\ \A i \in DOMAIN u : u2[i] = u[i] \/ u2[i] = 0
         /\ \A i \in DOMAIN u \cap safe : u2[i] = u[i]
<1>1. PICK kept : safe \subseteq kept /\ u2 = [i \in DOMAIN u |-> IF i \in kept THEN u[i] ELSE 0]
  BY DEF Fetch!Survivors, Fetch!Lost
<1>2. DOMAIN u = 1 .. Len(u) /\ Len(u) \in Nat /\ \A i \in DOMAIN u : u[i] \in S
  OBVIOUS
<1>3. u2 \in [1 .. Len(u) -> S]
  BY <1>1, <1>2
<1> QED
  BY <1>1, <1>2, <1>3

LEMMA PowerLostKeeps ==
  ASSUME FetchInv, object' = object, Fetch!PowerLost
  PROVE  FetchInv'
<1>1. /\ object \in Objects /\ FetchTypes /\ DiskIsKnown /\ strayed \in BOOLEAN
      /\ BlobIsOneObject
  BY DEF FetchInv, FetchTypes
<1>2. /\ run' = Fetch!Idle /\ worker' = [w \in Conns |-> Fetch!Off]
      /\ strayed' = (strayed \/ (Fetch!At("trunc") /\ stream # << >>)) /\ remote' = remote
      /\ meta' = meta /\ synced' = synced /\ plan' = plan /\ object.power
  BY DEF Fetch!PowerLost
<1>3. PICK u \in Fetch!Survivors(ranged.units, synced) : ranged' = [ranged EXCEPT !.units = u]
  BY DEF Fetch!PowerLost
<1>4. stream' \in Fetch!Survivors(stream, {})
  BY DEF Fetch!PowerLost
<1>5. PICK dead \in SUBSET {b \in blobs : ~b.durable} :
        blobs' = (blobs \ dead) \cup {[b EXCEPT !.bytes = [i \in DOMAIN @ |-> Fetch!Lost]] : b \in dead}
  BY DEF Fetch!PowerLost
<1>6. /\ stream \in Seq(Versions \cup {0})
      /\ ranged \in [there : BOOLEAN, units : Seq(Versions \cup {0})] /\ blobs \subseteq BlobRecords
  BY <1>1 DEF DiskIsKnown
<1>7. /\ u \in Seq(Versions \cup {0}) /\ DOMAIN u = DOMAIN ranged.units
      /\ \A i \in DOMAIN ranged.units \cap synced : u[i] = ranged.units[i]
  <2>1. ranged.units \in Seq(Versions \cup {0})
    BY <1>6
  <2> QED
    BY <1>3, <2>1, SurvivorFacts
<1>8. /\ ranged'.there = ranged.there /\ ranged'.units = u
      /\ ranged' \in [there : BOOLEAN, units : Seq(Versions \cup {0})]
  BY <1>3, <1>6, <1>7
<1>9. /\ stream' \in Seq(Versions \cup {0}) /\ DOMAIN stream' = DOMAIN stream
      /\ \A i \in DOMAIN stream : stream'[i] = stream[i] \/ stream'[i] = 0
  BY <1>4, <1>6, SurvivorFacts
<1>10. stream = << >> <=> stream' = << >>
  BY <1>6, <1>9
<1>11. \A b \in dead :
         LET c == [b EXCEPT !.bytes = [i \in DOMAIN @ |-> Fetch!Lost]]
         IN  c \in BlobRecords /\ c.name = b.name /\ c.verified = b.verified /\ c.durable = FALSE
  <2> SUFFICES ASSUME NEW b \in dead
               PROVE  LET c == [b EXCEPT !.bytes = [i \in DOMAIN b.bytes |-> 0]]
                      IN  c \in BlobRecords /\ c.name = b.name /\ c.verified = b.verified
                          /\ c.durable = FALSE
    BY DEF Fetch!Lost
  <2>1. b \in BlobRecords /\ b.durable = FALSE
    BY <1>5, <1>6 DEF BlobRecords
  <2>2. DOMAIN b.bytes = 1 .. Len(b.bytes) /\ Len(b.bytes) \in Nat
    BY <2>1 DEF BlobRecords
  <2>3. [i \in DOMAIN b.bytes |-> 0] \in Seq(Nat)
    BY <2>2
  <2> QED
    BY <2>1, <2>3 DEF BlobRecords
<1>12. \A c \in blobs' : \/ c \in blobs
                         \/ \E b \in blobs : /\ c \in BlobRecords /\ c.name = b.name
                                             /\ c.verified = b.verified /\ c.durable = FALSE
  BY <1>5, <1>11
<1>13. blobs' \subseteq BlobRecords
  BY <1>6, <1>12
<1>14. strayed => strayed'
  BY <1>2
<1>15. BlobIsOneObject'
  <2>1. \A v : Fetch!Whole(v)' = Fetch!Whole(v)
    BY DEF Fetch!Whole, Fetch!Size
  <2> SUFFICES ASSUME NEW b \in blobs'
               PROVE  /\ b.verified => \E v \in Versions : b.name = Fetch!Whole(v)
                      /\ \/ \E v \in Versions : b.bytes = Fetch!Whole(v)
                         \/ ~b.verified /\ (~object.etag \/ strayed')
                         \/ object.power /\ ~b.durable
    BY <2>1 DEF BlobIsOneObject, Fetch!BlobIsOneObject, Versions
  <2>2. CASE b \in blobs
    BY <1>1, <1>14, <2>2 DEF BlobIsOneObject, Fetch!BlobIsOneObject, Versions
  <2>3. CASE b \notin blobs
    <3>1. PICK a \in blobs : b.name = a.name /\ b.verified = a.verified /\ b.durable = FALSE
      BY <1>12, <2>3
    <3>2. a.verified => \E v \in Versions : a.name = Fetch!Whole(v)
      BY <1>1, <3>1 DEF BlobIsOneObject, Fetch!BlobIsOneObject, Versions
    <3> QED
      BY <1>2, <3>1, <3>2
  <2> QED
    BY <2>2, <2>3
<1> QED
  BY <1>2, <1>7, <1>8, <1>9, <1>10, <1>13, <1>15, CrashKeeps

-----------------------------------------------------------------------------
(* The run's state that its workers, a signal and a new version leave alone.     *)
SameRun ==
  /\ run'.at = run.at /\ run'.then = run.then /\ run'.want = run.want
  /\ run'.probe = run.probe /\ run'.resume = run.resume /\ run'.from = run.from
  /\ run'.tmp = run.tmp

LEMMA CrewTurns ==
  ASSUME FetchInv, object' = object, remote' \in Versions, strayed' = strayed,
         UNCHANGED Fetch!disk, IsKnownRun(run'), SameRun,
         worker' \in [Conns -> WorkerRecords],
         \A w \in Conns : worker'[w] # Fetch!Off => run.at = "fetch",
         WorkersHold'
  PROVE  FetchInv'
<1>1. /\ stream' = stream /\ meta' = meta /\ ranged' = ranged /\ synced' = synced /\ plan' = plan
      /\ blobs' = blobs
  BY DEF Fetch!disk
<1>2. Versions' = Versions /\ PlanRecords' = PlanRecords /\ WorkerRecords' = WorkerRecords
      /\ BlobRecords' = BlobRecords /\ Fetch!Off' = Fetch!Off
  BY DEF Versions, PlanRecords, WorkerRecords, BlobRecords, Fetch!Off
<1>3. FetchTypes'
  <2>1. DiskIsKnown'
    BY <1>1, <1>2 DEF FetchInv, FetchTypes, DiskIsKnown
  <2>2. CrewIsKnown'
    BY <1>2 DEF FetchInv, FetchTypes, CrewIsKnown, SameRun
  <2>3. RunIsKnown'
    BY KnownStays
  <2> QED
    BY <1>2, <2>1, <2>2, <2>3 DEF FetchInv, FetchTypes
<1>4. OnePartial'
  BY <1>1 DEF FetchInv, OnePartial, Ranging, Streaming, Gathering, SameRun
<1>5. Fetch!Differs(plan)' <=> Fetch!Differs(plan)
  BY <1>1 DEF SameRun, Fetch!Differs
<1>6. PlanIsAgreed'
  BY <1>1, <1>2, <1>5 DEF FetchInv, PlanIsAgreed, Probed, Gathering, SameRun
<1>7. DoneIsThere'
  BY <1>1 DEF FetchInv, DoneIsThere
<1>8. Gathered' /\ StreamIsPrefix'
  BY <1>1 DEF FetchInv, Gathered, StreamIsPrefix, SameRun
<1>9. BlobIsOneObject'
  BY <1>1 DEF FetchInv, BlobIsOneObject, Fetch!BlobIsOneObject, Fetch!Whole, Fetch!Size
<1> QED
  BY <1>3, <1>4, <1>6, <1>7, <1>8, <1>9 DEF FetchInv

LEMMA FlagsStayKnown ==
  ASSUME IsKnownRun(run)
  PROVE  /\ \A b \in BOOLEAN :
              /\ IsKnownRun([run EXCEPT !.quiet = b]) /\ IsKnownRun([run EXCEPT !.signal = b])
              /\ IsKnownRun([run EXCEPT !.stop = b])
         /\ \A n \in Nat \ {0} : IsKnownRun([run EXCEPT !.cursor = n])
         /\ \A err \in {"none", "fatal", "noranges", "changed"} :
              IsKnownRun([run EXCEPT !.err = err])
BY DEF IsKnownRun, RunFields

LEMMA FlagsKeep ==
  ASSUME FetchInv, object' = object,
         \/ Fetch!Replaced
         \/ Fetch!Signal /\ remote' = remote /\ strayed' = (strayed \/ Fetch!Strays)
  PROVE  FetchInv'
<1>1. /\ object \in Objects /\ remote \in Versions /\ FetchTypes /\ CrewIsKnown
      /\ IsKnownRun(run) /\ DOMAIN run = RunFields /\ WorkersHold
      /\ strayed \in BOOLEAN
  BY DEF FetchInv, FetchTypes, RunIsKnown, IsKnownRun
<1>2. remote' \in Versions
  BY <1>1 DEF Fetch!Replaced, Versions
<1>3. strayed' = strayed /\ UNCHANGED Fetch!disk /\ worker' = worker
  BY <1>1 DEF Fetch!Replaced, Fetch!Signal, Fetch!At, Fetch!Strays
<1>4. PICK b \in BOOLEAN : run' = [run EXCEPT !.quiet = b] \/ run' = [run EXCEPT !.signal = b]
  BY DEF Fetch!Replaced, Fetch!Signal, Fetch!At
<1>5. IsKnownRun(run')
  BY <1>1, <1>4, FlagsStayKnown
<1>6. SameRun /\ run'.cursor = run.cursor
  BY <1>1, <1>4 DEF SameRun, RunFields
<1>7. ranged' = ranged /\ synced' = synced /\ plan' = plan
  BY <1>3 DEF Fetch!disk
<1>8. WorkersHold'
  BY <1>1, <1>3, <1>6, <1>7 DEF WorkersHold, Holds
<1> QED
  BY <1>1, <1>2, <1>3, <1>5, <1>6, <1>8, CrewTurns DEF CrewIsKnown

(* One worker moves on, and the others hold what they held.                     *)
LEMMA OneMoves ==
  ASSUME WorkersHold, worker \in [Conns -> WorkerRecords], NEW w \in Conns, NEW r,
         worker' = [worker EXCEPT ![w] = r], \A v \in Conns : Holds(worker[v])',
         r.at \in Holding => worker[w].at \in Holding /\ r.cell = worker[w].cell
  PROVE  WorkersHold'
<1>1. worker'[w] = r /\ \A v \in Conns \ {w} : worker'[v] = worker[v]
  OBVIOUS
<1>2. \A u, v \in Conns : u # v /\ worker'[u].at \in Holding /\ worker'[v].at \in Holding =>
        worker'[u].cell # worker'[v].cell
  BY <1>1 DEF WorkersHold
<1> QED
  BY <1>2 DEF WorkersHold, Holding

LEMMA StillHolds ==
  ASSUME NEW v \in Conns, Holds(worker[v]), worker'[v] = worker[v], worker[v].cell \in Nat,
         object' = object, run.cursor \in Nat, run'.cursor \in Nat, run'.cursor >= run.cursor,
         plan'.size = plan.size, plan'.validator = plan.validator,
         worker[v].at \in Holding => worker[v].cell \notin plan'.done,
         worker[v].at \in {"sync", "mark"} =>
           /\ worker[v].cell \in DOMAIN ranged'.units
           /\ ranged'.units[worker[v].cell] = ranged.units[worker[v].cell],
         worker[v].at = "mark" => worker[v].cell \in synced'
  PROVE  Holds(worker[v])'
<1> DEFINE i == worker[v].cell  a == worker[v].at
<1>1. a \in Holding => i \in 1 .. run'.cursor - 1 /\ i \notin plan'.done /\ i <= plan'.size
  <2>1. a \in Holding => i \in 1 .. run.cursor - 1 /\ i <= plan'.size
    BY DEF Holds
  <2> QED
    BY <2>1
<1> QED
  BY <1>1 DEF Holds, Holding

-----------------------------------------------------------------------------
(* What a worker does to itself.                                              *)
LEMMA OffFields ==
  /\ DOMAIN Fetch!Off = {"at", "cell", "tries", "got", "fault"}
  /\ Fetch!Off.at = "off" /\ Fetch!Off.cell = 0 /\ Fetch!Off.tries = 0 /\ Fetch!Off.got = 0
  /\ Fetch!Off.fault = "none"
BY DEF Fetch!Off

LEMMA WorkerMoves ==
  ASSUME object \in Objects, NEW w \in Conns, worker[w] \in WorkerRecords
  PROVE  /\ [Fetch!Off EXCEPT !.at = "claim"] \in WorkerRecords
         /\ [Fetch!Off EXCEPT !.at = "claim"].at = "claim"
         /\ \A i \in Nat :
              LET r == [Fetch!Off EXCEPT !.at = "get", !.cell = i]
              IN  r \in WorkerRecords /\ r.at = "get" /\ r.cell = i
         /\ \A kind \in {"none", "fatal", "noranges", "changed"} :
              LET r == [Fetch!Off EXCEPT !.at = "fault", !.fault = kind]
              IN  r \in WorkerRecords /\ r.at = "fault"
         /\ LET r == [Fetch!Off EXCEPT !.at = "get", !.cell = worker[w].cell,
                                      !.tries = worker[w].tries + 1]
            IN  r \in WorkerRecords /\ r.at = "get" /\ r.cell = worker[w].cell
         /\ \A at \in {"sync", "mark", "file"} :
              LET r == [worker[w] EXCEPT !.at = at]
              IN  r \in WorkerRecords /\ r.at = at /\ r.cell = worker[w].cell
                  /\ r.got = worker[w].got
<1> DEFINE off == Fetch!Off  me == worker[w]
<1>1. /\ off \in WorkerRecords
      /\ DOMAIN off = {"at", "cell", "tries", "got", "fault"} /\ off.cell = 0 /\ off.tries = 0
      /\ off.got = 0 /\ off.fault = "none"
  BY OffFields, FixedAreKnown
<1>2. me \in WorkerRecords
  OBVIOUS
<1> HIDE DEF off, me
<1>3. [off EXCEPT !.at = "claim"] \in WorkerRecords /\ [off EXCEPT !.at = "claim"].at = "claim"
  BY <1>1 DEF WorkerRecords
<1>4. ASSUME NEW i \in Nat
      PROVE  LET r == [off EXCEPT !.at = "get", !.cell = i]
             IN  r \in WorkerRecords /\ r.at = "get" /\ r.cell = i
  BY <1>1 DEF WorkerRecords
<1>5. ASSUME NEW kind \in {"none", "fatal", "noranges", "changed"}
      PROVE  LET r == [off EXCEPT !.at = "fault", !.fault = kind]
             IN  r \in WorkerRecords /\ r.at = "fault"
  BY <1>1 DEF WorkerRecords
<1>6. LET r == [off EXCEPT !.at = "get", !.cell = me.cell, !.tries = me.tries + 1]
      IN  r \in WorkerRecords /\ r.at = "get" /\ r.cell = me.cell
  <2> DEFINE c == me.cell  t == me.tries + 1
  <2>1. c \in Nat /\ t \in Nat
    BY <1>2 DEF WorkerRecords
  <2> HIDE DEF c, t
  <2>2. LET r == [off EXCEPT !.at = "get", !.cell = c, !.tries = t]
        IN  r \in WorkerRecords /\ r.at = "get" /\ r.cell = c
    BY <1>1, <2>1 DEF WorkerRecords
  <2> QED
    BY <2>2 DEF c, t
<1>7. ASSUME NEW at \in {"sync", "mark", "file"}
      PROVE  LET r == [me EXCEPT !.at = at]
             IN  r \in WorkerRecords /\ r.at = at /\ r.cell = me.cell /\ r.got = me.got
  BY <1>2 DEF WorkerRecords
<1> QED
  BY <1>3, <1>4, <1>5, <1>6, <1>7 DEF off, me

(* A worker's failure is a fault, or one more request for the same cell.        *)
LEMMA TransientMoves ==
  ASSUME object \in Objects, NEW w \in Conns, worker \in [Conns -> WorkerRecords],
         Fetch!Transient(w)
  PROVE  \E r \in WorkerRecords :
           worker' = [worker EXCEPT ![w] = r]
           /\ (r.at = "fault" \/ (r.at = "get" /\ r.cell = worker[w].cell))
<1>1. worker[w] \in WorkerRecords
  OBVIOUS
<1> DEFINE again == [Fetch!Off EXCEPT !.at = "get", !.cell = worker[w].cell,
                                    !.tries = worker[w].tries + 1]
           fault == [Fetch!Off EXCEPT !.at = "fault", !.fault = "fatal"]
<1>2. worker' = [worker EXCEPT ![w] = again] \/ worker' = [worker EXCEPT ![w] = fault]
  BY DEF Fetch!Transient, Fetch!Stays, Fetch!Fault
<1>3. again \in WorkerRecords /\ again.at = "get" /\ again.cell = worker[w].cell
      /\ fault \in WorkerRecords /\ fault.at = "fault"
  BY <1>1, WorkerMoves
<1> HIDE DEF again, fault
<1> QED
  BY <1>2, <1>3

LEMMA PaddedFacts ==
  ASSUME NEW S, 0 \in S, NEW u \in Seq(S), NEW i \in Nat \ {0}, NEW x \in S
  PROVE  LET p == [Fetch!Padded(u, i) EXCEPT ![i] = x]
         IN  /\ p \in Seq(S) /\ DOMAIN u \subseteq DOMAIN p /\ i \in DOMAIN p /\ p[i] = x
             /\ \A j \in DOMAIN u \ {i} : p[j] = u[j]
<1> DEFINE q == Fetch!Padded(u, i)
<1>1. q \in Seq(S) /\ DOMAIN u \subseteq DOMAIN q /\ i \in DOMAIN q
      /\ \A j \in DOMAIN u : q[j] = u[j]
  <2>1. CASE Len(u) < i
    <3> DEFINE z == [j \in 1 .. i - Len(u) |-> 0]
    <3>1. i - Len(u) \in Nat /\ Len(u) \in Nat
      BY <2>1
    <3>2. z \in Seq(S) /\ Len(z) = i - Len(u)
      BY <3>1
    <3>3. q = u \o z
      BY <2>1 DEF Fetch!Padded, Fetch!Lost
    <3> HIDE DEF z, q
    <3> QED
      BY <3>1, <3>2, <3>3
  <2>2. CASE ~(Len(u) < i)
    BY <2>2 DEF Fetch!Padded
  <2> QED
    BY <2>1, <2>2
<1> HIDE DEF q
<1>2. LET p == [q EXCEPT ![i] = x]
      IN  /\ p \in Seq(S) /\ DOMAIN u \subseteq DOMAIN p /\ i \in DOMAIN p /\ p[i] = x
          /\ \A j \in DOMAIN u \ {i} : p[j] = u[j]
  BY <1>1
<1> QED
  BY <1>2 DEF q

-----------------------------------------------------------------------------
(* The steps of a worker that leave the disk alone.                              *)
LEMMA WorkerIsAt ==
  ASSUME FetchTypes, NEW w \in Conns, worker[w].at # "off"
  PROVE  run.at = "fetch" /\ worker[w] \in WorkerRecords
BY FixedAreKnown DEF FetchTypes, CrewIsKnown

LEMMA WorkersTurn ==
  ASSUME FetchInv, object' = object, remote' = remote, strayed' = (strayed \/ Fetch!Strays),
         NEW w \in Conns,
         \/ Fetch!Leave(w) \/ Fetch!RequestFails(w) \/ Fetch!Request(w)
         \/ Fetch!RaiseStop(w) \/ Fetch!FileError(w)
  PROVE  FetchInv'
<1>1. /\ object \in Objects /\ remote \in Versions /\ FetchTypes /\ CrewIsKnown
      /\ IsKnownRun(run) /\ DOMAIN run = RunFields /\ WorkersHold
      /\ strayed \in BOOLEAN /\ worker \in [Conns -> WorkerRecords]
  BY DEF FetchInv, FetchTypes, RunIsKnown, IsKnownRun, CrewIsKnown
<1>2. worker[w].at # "off"
  BY DEF Fetch!Leave, Fetch!RequestFails, Fetch!Request, Fetch!RaiseStop, Fetch!FileError
<1>3. run.at = "fetch" /\ worker[w] \in WorkerRecords
  BY <1>1, <1>2, WorkerIsAt
<1>4. strayed' = strayed
  BY <1>1, <1>3 DEF Fetch!Strays, Fetch!At
<1>5. UNCHANGED Fetch!disk
  BY DEF Fetch!Leave, Fetch!RequestFails, Fetch!Request, Fetch!RaiseStop, Fetch!FileError
<1>6. ranged' = ranged /\ synced' = synced /\ plan' = plan
  BY <1>5 DEF Fetch!disk
<1>7. IsKnownRun(run') /\ SameRun /\ run'.cursor = run.cursor
  <2>1. run' = run \/ run' = [run EXCEPT !.stop = TRUE]
        \/ \E err \in {"none", "fatal", "noranges", "changed"} : run' = [run EXCEPT !.err = err]
    BY <1>1, <1>3 DEF Fetch!Leave, Fetch!RequestFails, Fetch!Request, Fetch!RaiseStop,
                      Fetch!FileError, WorkerRecords, IsKnownRun
  <2>2. IsKnownRun(run')
    BY <1>1, <2>1, FlagsStayKnown
  <2> QED
    BY <1>1, <2>1, <2>2 DEF SameRun, RunFields
<1>8. PICK r \in WorkerRecords :
        /\ worker' = [worker EXCEPT ![w] = r] /\ Holds(r)
        /\ r.at \in Holding => worker[w].at \in Holding /\ r.cell = worker[w].cell
  <2>1. Holds(worker[w])
    BY <1>1 DEF WorkersHold
  <2>2. CASE Fetch!Leave(w) \/ Fetch!FileError(w)
    <3>1. worker' = [worker EXCEPT ![w] = Fetch!Off]
      BY <2>2 DEF Fetch!Leave, Fetch!FileError, Fetch!Stays
    <3>2. Fetch!Off \in WorkerRecords /\ Fetch!Off.at = "off"
      BY <1>1, FixedAreKnown
    <3> QED
      BY <3>1, <3>2 DEF Holds, Holding
  <2>3. CASE Fetch!RaiseStop(w)
    <3>1. worker' = [worker EXCEPT ![w] = [worker[w] EXCEPT !.at = "file"]]
      BY <2>3 DEF Fetch!RaiseStop, Fetch!Stays
    <3> DEFINE r == [worker[w] EXCEPT !.at = "file"]
    <3>2. r \in WorkerRecords /\ r.at = "file"
      BY <1>1, <1>3, WorkerMoves
    <3> HIDE DEF r
    <3> QED
      BY <3>1, <3>2 DEF r, Holds, Holding
  <2>4. CASE Fetch!RequestFails(w)
    <3>1. worker[w].at = "get" /\ Fetch!Transient(w)
      BY <2>4 DEF Fetch!RequestFails
    <3>2. PICK r \in WorkerRecords :
            worker' = [worker EXCEPT ![w] = r]
            /\ (r.at = "fault" \/ (r.at = "get" /\ r.cell = worker[w].cell))
      BY <1>1, <3>1, TransientMoves
    <3>3. Holds(r)
      BY <2>1, <3>1, <3>2 DEF Holds, Holding
    <3> QED
      BY <3>1, <3>2, <3>3 DEF Holding
  <2>5. CASE Fetch!Request(w)
    <3>1. worker[w].at = "get"
      BY <2>5 DEF Fetch!Request
    <3>2. ASSUME NEW kind \in {"none", "fatal", "noranges", "changed"}, Fetch!Fault(w, kind)
          PROVE  \E r \in WorkerRecords :
                   worker' = [worker EXCEPT ![w] = r] /\ r.at = "fault"
      <4> DEFINE r == [Fetch!Off EXCEPT !.at = "fault", !.fault = kind]
      <4>1. r \in WorkerRecords /\ r.at = "fault"
        BY <1>1, <1>3, WorkerMoves
      <4>2. worker' = [worker EXCEPT ![w] = r]
        BY <3>2 DEF Fetch!Fault, Fetch!Stays
      <4> HIDE DEF r
      <4> QED
        BY <4>1, <4>2
    <3>3. CASE \E kind \in {"none", "fatal", "noranges", "changed"} : Fetch!Fault(w, kind)
      <4>1. PICK r \in WorkerRecords : worker' = [worker EXCEPT ![w] = r] /\ r.at = "fault"
        BY <3>2, <3>3
      <4> QED
        BY <4>1 DEF Holds, Holding
    <3>4. CASE /\ ~Fetch!WholeInstead(plan.validator)
               /\ worker' = [worker EXCEPT ![w] = [worker[w] EXCEPT !.at = "body", !.got = remote]]
      <4> DEFINE r == [worker[w] EXCEPT !.at = "body", !.got = remote]
      <4>1. r \in WorkerRecords /\ r.at = "body" /\ r.cell = worker[w].cell /\ r.got = remote
        BY <1>1, <1>3 DEF WorkerRecords
      <4>2. worker' = [worker EXCEPT ![w] = r]
        BY <3>4
      <4> HIDE DEF r
      <4>3. Gathering /\ plan \in PlanRecords
        BY <1>1, <1>3 DEF Gathering, FetchTypes, DiskIsKnown
      <4>4. object.etag => plan.validator = remote
        BY <1>1, <3>4, <4>3 DEF FetchInv, PlanIsAgreed, Fetch!WholeInstead, Fetch!Validator, Fetch!None
      <4>5. remote # 0
        BY <1>1, ObjectFacts
      <4>6. Holds(r)
        BY <2>1, <3>1, <4>1, <4>4, <4>5 DEF Holds, Holding
      <4> QED
        BY <3>1, <4>1, <4>2, <4>6 DEF Holding
    <3> QED
      BY <2>5, <3>3, <3>4 DEF Fetch!Request, Fetch!Stays
  <2> QED
    BY <2>2, <2>3, <2>4, <2>5
<1>9. WorkersHold'
  <2>1. ASSUME NEW v \in Conns PROVE Holds(worker[v])'
    <3>1. worker'[v] = IF v = w THEN r ELSE worker[v]
      BY <1>1, <1>8
    <3>2. Holds(worker'[v])
      BY <1>1, <1>8, <3>1 DEF WorkersHold
    <3> QED
      BY <1>6, <1>7, <3>2 DEF Holds
  <2> QED
    BY <1>1, <1>8, <2>1, OneMoves
<1>10. worker' \in [Conns -> WorkerRecords]
  BY <1>1, <1>8
<1> QED
  BY <1>1, <1>3, <1>4, <1>5, <1>7, <1>9, <1>10, CrewTurns

LEMMA ClaimKeeps ==
  ASSUME FetchInv, object' = object, remote' = remote, strayed' = (strayed \/ Fetch!Strays),
         NEW w \in Conns, Fetch!Claim(w)
  PROVE  FetchInv'
<1>1. /\ object \in Objects /\ remote \in Versions /\ FetchTypes /\ CrewIsKnown
      /\ IsKnownRun(run) /\ DOMAIN run = RunFields /\ WorkersHold
      /\ strayed \in BOOLEAN /\ worker \in [Conns -> WorkerRecords]
      /\ plan \in PlanRecords /\ run.cursor \in Nat \ {0}
  BY DEF FetchInv, FetchTypes, RunIsKnown, IsKnownRun, CrewIsKnown, DiskIsKnown
<1> DEFINE i == run.cursor
<1>2. /\ run.at = "fetch" /\ worker[w].at = "claim" /\ i <= plan.size
      /\ run' = [run EXCEPT !.cursor = i + 1] /\ UNCHANGED Fetch!disk
  BY DEF Fetch!Claim, Fetch!At
<1>3. strayed' = strayed
  BY <1>1, <1>2 DEF Fetch!Strays, Fetch!At
<1>4. ranged' = ranged /\ synced' = synced /\ plan' = plan
  BY <1>2 DEF Fetch!disk
<1>5. IsKnownRun(run') /\ SameRun /\ run'.cursor = i + 1
  <2>1. i + 1 \in Nat \ {0}
    BY <1>1
  <2>2. IsKnownRun(run')
    BY <1>1, <1>2, <2>1, FlagsStayKnown
  <2> QED
    BY <1>1, <1>2, <2>2 DEF SameRun, RunFields
<1>6. worker[w] \in WorkerRecords
  BY <1>1
<1> DEFINE get == [Fetch!Off EXCEPT !.at = "get", !.cell = i]
           claim == [Fetch!Off EXCEPT !.at = "claim"]
           mine == IF i \in plan.done THEN worker[w] ELSE get
<1>7. get \in WorkerRecords /\ get.at = "get" /\ get.cell = i
      /\ claim \in WorkerRecords /\ claim.at = "claim"
  BY <1>1, <1>6, WorkerMoves
<1>8. \/ worker' = [worker EXCEPT ![w] = mine]
      \/ \E v \in Conns : worker[v] = Fetch!Off
                          /\ worker' = [worker EXCEPT ![w] = mine, ![v].at = "claim"]
  BY DEF Fetch!Claim, Fetch!Stays
<1> HIDE DEF get, claim
<1>9. mine \in WorkerRecords /\ (mine.at = "claim" \/ (mine.at = "get" /\ mine.cell = i /\ i \notin plan.done))
  BY <1>1, <1>2, <1>6, <1>7
<1> HIDE DEF mine
<1>10. /\ worker' \in [Conns -> WorkerRecords]
       /\ worker'[w] = mine
       /\ \A v \in Conns \ {w} : worker'[v] = worker[v] \/ worker'[v] = claim
  <2>1. CASE worker' = [worker EXCEPT ![w] = mine]
    BY <1>1, <1>9, <2>1
  <2>2. ASSUME NEW v \in Conns, worker[v] = Fetch!Off,
               worker' = [worker EXCEPT ![w] = mine, ![v].at = "claim"]
        PROVE  <1>10
    <3>1. v # w
      BY <1>1, <1>2, <2>2, FixedAreKnown
    <3>2. worker' = [[worker EXCEPT ![w] = mine] EXCEPT ![v] = claim]
      BY <1>1, <2>2, <3>1 DEF claim
    <3> QED
      BY <1>1, <1>7, <1>9, <3>1, <3>2
  <2> QED
    BY <1>8, <2>1, <2>2
<1>11. ASSUME NEW v \in Conns PROVE Holds(worker[v])'
  <2>1. CASE worker'[v] = claim
    BY <1>7, <2>1 DEF Holds, Holding
  <2>2. CASE v # w /\ worker'[v] = worker[v]
    <3>1. Holds(worker[v]) /\ worker[v].cell \in Nat
      BY <1>1 DEF WorkersHold, WorkerRecords
    <3>2. /\ worker[v].at \in Holding => worker[v].cell \notin plan'.done
          /\ worker[v].at \in {"sync", "mark"} => worker[v].cell \in DOMAIN ranged'.units
          /\ worker[v].at = "mark" => worker[v].cell \in synced'
      BY <1>4, <3>1 DEF Holds
    <3> QED
      BY <1>1, <1>4, <1>5, <2>2, <3>1, <3>2, StillHolds
  <2>3. CASE v = w /\ mine.at = "claim"
    BY <1>10, <2>3 DEF Holds, Holding
  <2>4. CASE v = w /\ mine.at = "get" /\ mine.cell = i /\ i \notin plan.done
    <3>1. i \in 1 .. run'.cursor - 1
      BY <1>1, <1>5
    <3> QED
      BY <1>2, <1>4, <1>10, <2>4, <3>1 DEF Holds, Holding
  <2> QED
    BY <1>9, <1>10, <2>1, <2>2, <2>3, <2>4
<1>12. WorkersHold'
  <2>1. \A v \in Conns \ {w} :
          worker'[v].at \in Holding => worker'[v] = worker[v] /\ worker'[v].cell \in 1 .. i - 1
    BY <1>1, <1>7, <1>10 DEF WorkersHold, Holds, Holding
  <2>2. worker'[w].at \in Holding => worker'[w].cell = i
    BY <1>9, <1>10 DEF Holding
  <2>3. ASSUME NEW u \in Conns, NEW v \in Conns, u # v,
               worker'[u].at \in Holding, worker'[v].at \in Holding
        PROVE  worker'[u].cell # worker'[v].cell
    <3>1. i \notin 1 .. i - 1
      BY <1>1
    <3>2. CASE u # w /\ v # w
      BY <1>1, <2>1, <2>3, <3>2 DEF WorkersHold
    <3>3. CASE u = w \/ v = w
      BY <2>1, <2>2, <2>3, <3>1, <3>3
    <3> QED
      BY <3>2, <3>3
  <2> QED
    BY <1>11, <2>3 DEF WorkersHold, Holding
<1> QED
  BY <1>1, <1>2, <1>3, <1>5, <1>10, <1>12, CrewTurns

-----------------------------------------------------------------------------
(* The steps of a worker that write the ranged partial or the plan.              *)
LEMMA CrewWrites ==
  ASSUME FetchInv, object' = object, remote' = remote, strayed' = strayed, run' = run,
         run.at = "fetch", stream' = stream, meta' = meta, blobs' = blobs,
         NEW w \in Conns, NEW r \in WorkerRecords, worker' = [worker EXCEPT ![w] = r],
         ranged' \in [there : BOOLEAN, units : Seq(Versions \cup {0})],
         ranged'.there = ranged.there, synced' \subseteq Nat,
         plan' \in PlanRecords, plan'.size = plan.size, plan'.validator = plan.validator,
         plan'.oid = plan.oid, plan'.done \subseteq 1 .. plan.size,
         WorkersHold', DoneIsThere'
  PROVE  FetchInv'
<1>1. /\ object \in Objects /\ remote \in Versions /\ FetchTypes /\ CrewIsKnown /\ DiskIsKnown
      /\ IsKnownRun(run) /\ worker \in [Conns -> WorkerRecords]
      /\ OnePartial /\ PlanIsAgreed /\ StreamIsPrefix /\ BlobIsOneObject
  BY DEF FetchInv, FetchTypes, RunIsKnown, CrewIsKnown
<1>2. Versions' = Versions /\ PlanRecords' = PlanRecords /\ WorkerRecords' = WorkerRecords
      /\ BlobRecords' = BlobRecords
  BY DEF Versions, PlanRecords, WorkerRecords, BlobRecords
<1>3. FetchTypes'
  <2>1. DiskIsKnown'
    BY <1>1, <1>2 DEF DiskIsKnown
  <2>2. CrewIsKnown'
    BY <1>1, <1>2 DEF CrewIsKnown
  <2>3. RunIsKnown'
    BY <1>1, KnownStays
  <2> QED
    BY <1>1, <1>2, <2>1, <2>2, <2>3 DEF FetchInv, FetchTypes
<1>4. OnePartial'
  BY <1>1 DEF OnePartial, Ranging, Streaming, Gathering
<1>5. PlanIsAgreed'
  BY <1>1, <1>2 DEF PlanIsAgreed, Probed, Gathering
<1>6. Gathered' /\ StreamIsPrefix'
  BY <1>1 DEF Gathered, StreamIsPrefix
<1>7. BlobIsOneObject'
  BY <1>1 DEF BlobIsOneObject, Fetch!BlobIsOneObject, Fetch!Whole, Fetch!Size
<1> QED
  BY <1>3, <1>4, <1>5, <1>6, <1>7 DEF FetchInv

LEMMA WorkersWrite ==
  ASSUME FetchInv, object' = object, remote' = remote, strayed' = (strayed \/ Fetch!Strays),
         NEW w \in Conns,
         Fetch!Body(w) \/ Fetch!BodyFails(w) \/ Fetch!Sync(w) \/ Fetch!Mark(w)
  PROVE  FetchInv'
<1>1. /\ object \in Objects /\ remote \in Versions /\ FetchTypes /\ DiskIsKnown
      /\ IsKnownRun(run) /\ WorkersHold /\ DoneIsThere /\ OnePartial /\ PlanIsAgreed
      /\ strayed \in BOOLEAN /\ worker \in [Conns -> WorkerRecords]
      /\ plan \in PlanRecords /\ run.cursor \in Nat
      /\ ranged \in [there : BOOLEAN, units : Seq(Versions \cup {0})] /\ synced \subseteq Nat
  BY DEF FetchInv, FetchTypes, RunIsKnown, IsKnownRun, CrewIsKnown, DiskIsKnown
<1> DEFINE i == worker[w].cell
<1>2. worker[w].at \in {"body", "sync", "mark"}
  BY DEF Fetch!Body, Fetch!BodyFails, Fetch!Sync, Fetch!Mark
<1>3. run.at = "fetch" /\ worker[w] \in WorkerRecords
  BY <1>1, <1>2, WorkerIsAt
<1>4. strayed' = strayed
  BY <1>1, <1>3 DEF Fetch!Strays, Fetch!At
<1>5. /\ stream' = stream /\ meta' = meta /\ blobs' = blobs /\ run' = run
  BY DEF Fetch!Body, Fetch!BodyFails, Fetch!Sync, Fetch!Mark
<1>6. /\ i \in Nat \ {0} /\ i \notin plan.done /\ i \in 1 .. plan.size
      /\ worker[w].got \in Versions /\ worker[w].got # 0
      /\ object.etag => worker[w].got = plan.validator
      /\ i \in 1 .. run.cursor - 1
  <2>1. Holds(worker[w])
    BY <1>1 DEF WorkersHold
  <2>2. i \in 1 .. run.cursor - 1 /\ i \notin plan.done /\ i <= plan.size /\ i \in Nat
        /\ plan.size \in Nat
    BY <1>1, <1>2, <1>3, <2>1 DEF Holds, Holding, WorkerRecords, PlanRecords
  <2>3. worker[w].got # 0 /\ (object.etag => worker[w].got = plan.validator)
    BY <1>2, <2>1 DEF Holds
  <2>4. worker[w].got \in Versions
    BY <1>3, <2>3 DEF WorkerRecords
  <2> QED
    BY <1>1, <2>2, <2>3, <2>4
<1>7. \A v \in Conns \ {w} : worker[v].at \in Holding => worker[v].cell # i
  BY <1>1, <1>2 DEF WorkersHold, Holding
<1>8. \A v \in Conns : Holds(worker[v]) /\ worker[v].cell \in Nat
  BY <1>1 DEF WorkersHold, WorkerRecords
(* The cell's bytes are written, or torn.                                      *)
<1>9. ASSUME NEW x \in Versions \cup {0}, Fetch!Writes(i, x), plan' = plan,
             NEW r \in WorkerRecords, worker' = [worker EXCEPT ![w] = r],
             r.at \in Holding => r.cell = i,
             r.at \in {"sync"} => r.got = worker[w].got /\ x = r.got,
             r.at \in {"get", "sync", "fault"}
      PROVE  FetchInv'
  <2> DEFINE u == ranged.units
             p == [Fetch!Padded(u, i) EXCEPT ![i] = x]
  <2>1. ranged' = [ranged EXCEPT !.units = p] /\ synced' = synced \ {i}
    BY <1>9 DEF Fetch!Writes
  <2>2. u \in Seq(Versions \cup {0})
    BY <1>1
  <2>3. /\ p \in Seq(Versions \cup {0}) /\ DOMAIN u \subseteq DOMAIN p /\ i \in DOMAIN p /\ p[i] = x
        /\ \A j \in DOMAIN u \ {i} : p[j] = u[j]
    <3>1. 0 \in Versions \cup {0}
      OBVIOUS
    <3> HIDE DEF u, i
    <3>2. i \in Nat \ {0}
      BY <1>6
    <3> QED
      BY <1>9, <2>2, <3>1, <3>2, PaddedFacts
  <2> HIDE DEF p
  <2>4. ranged'.units = p /\ ranged'.there = ranged.there
        /\ ranged' \in [there : BOOLEAN, units : Seq(Versions \cup {0})]
    BY <1>1, <2>1, <2>3
  <2>5. DoneIsThere'
    BY <1>1, <1>6, <1>9, <2>1, <2>3, <2>4 DEF DoneIsThere
  <2>6. ASSUME NEW v \in Conns PROVE Holds(worker[v])'
    <3>1. CASE v # w
      <4>1. worker'[v] = worker[v]
        BY <1>1, <1>9, <3>1
      <4>2. /\ worker[v].at \in Holding => worker[v].cell \notin plan'.done
            /\ worker[v].at \in {"sync", "mark"} =>
                 worker[v].cell \in DOMAIN p /\ p[worker[v].cell] = u[worker[v].cell]
            /\ worker[v].at = "mark" => worker[v].cell \in synced'
        BY <1>7, <1>8, <1>9, <2>1, <2>3, <3>1 DEF Holds, Holding
      <4> QED
        BY <1>1, <1>5, <1>8, <1>9, <2>4, <4>1, <4>2, StillHolds
    <3>2. CASE v = w
      <4>1. worker'[v] = r
        BY <1>1, <1>9, <3>2
      <4> QED
        BY <1>5, <1>6, <1>9, <2>3, <2>4, <4>1 DEF Holds, Holding
    <3> QED
      BY <3>1, <3>2
  <2>7. worker[w].at \in Holding
    BY <1>2 DEF Holding
  <2>8. WorkersHold'
    BY <1>1, <1>9, <2>6, <2>7, OneMoves
  <2>9. plan.done \subseteq 1 .. plan.size /\ synced' \subseteq Nat
    BY <1>1, <2>1 DEF PlanIsAgreed
  <2> QED
    BY <1>1, <1>3, <1>4, <1>5, <1>9, <2>4, <2>5, <2>8, <2>9, CrewWrites
<1>10. CASE Fetch!Body(w)
  <2> DEFINE r == [worker[w] EXCEPT !.at = "sync"]
  <2>1. /\ Fetch!Writes(i, worker[w].got) /\ worker' = [worker EXCEPT ![w] = r] /\ plan' = plan
    BY <1>10 DEF Fetch!Body, Fetch!Stays
  <2>2. r \in WorkerRecords /\ r.at = "sync" /\ r.cell = i /\ r.got = worker[w].got
    BY <1>3 DEF WorkerRecords
  <2> HIDE DEF r, i
  <2> QED
    BY <1>6, <1>9, <2>1, <2>2
<1>11. CASE Fetch!BodyFails(w)
  <2>1. Fetch!Writes(i, 0) /\ plan' = plan
    BY <1>11 DEF Fetch!BodyFails, Fetch!Lost
  <2>2. PICK r \in WorkerRecords :
          worker' = [worker EXCEPT ![w] = r]
          /\ (r.at = "fault" \/ (r.at = "get" /\ r.cell = i))
    <3>1. CASE Fetch!Transient(w)
      BY <1>1, <3>1, TransientMoves
    <3>2. CASE Fetch!Fault(w, "fatal")
      <4> DEFINE r == [Fetch!Off EXCEPT !.at = "fault", !.fault = "fatal"]
      <4>1. r \in WorkerRecords /\ r.at = "fault"
        BY <1>1, <1>3, WorkerMoves
      <4>2. worker' = [worker EXCEPT ![w] = r]
        BY <3>2 DEF Fetch!Fault, Fetch!Stays
      <4> HIDE DEF r
      <4> QED
        BY <4>1, <4>2
    <3> QED
      BY <1>11, <3>1, <3>2 DEF Fetch!BodyFails
  <2> HIDE DEF i
  <2>3. r.at \in Holding => r.cell = i
    BY <2>2 DEF Holding
  <2> QED
    BY <1>9, <2>1, <2>2, <2>3
<1>12. CASE Fetch!Sync(w)
  <2> DEFINE r == [worker[w] EXCEPT !.at = "mark"]
  <2>1. /\ worker[w].at = "sync" /\ worker' = [worker EXCEPT ![w] = r] /\ plan' = plan
        /\ ranged' = ranged /\ synced' = synced \cup (1 .. Len(ranged.units))
    BY <1>12 DEF Fetch!Sync, Fetch!Stays
  <2>2. r \in WorkerRecords /\ r.at = "mark" /\ r.cell = i /\ r.got = worker[w].got
    BY <1>3 DEF WorkerRecords
  <2> HIDE DEF r
  <2>3. synced' \subseteq Nat /\ DOMAIN ranged.units = 1 .. Len(ranged.units)
    <3> DEFINE u == ranged.units
    <3>1. u \in Seq(Versions \cup {0})
      BY <1>1
    <3>2. synced' = synced \cup (1 .. Len(u))
      BY <2>1
    <3> HIDE DEF u
    <3>3. DOMAIN u = 1 .. Len(u) /\ 1 .. Len(u) \subseteq Nat
      BY <3>1
    <3> QED
      BY <1>1, <3>2, <3>3 DEF u
  <2>4. DoneIsThere'
    BY <1>1, <2>1 DEF DoneIsThere
  <2>5. ASSUME NEW v \in Conns PROVE Holds(worker[v])'
    <3>1. CASE v # w
      <4>1. worker'[v] = worker[v]
        BY <1>1, <2>1, <3>1
      <4>2. /\ worker[v].at \in Holding => worker[v].cell \notin plan'.done
            /\ worker[v].at \in {"sync", "mark"} => worker[v].cell \in DOMAIN ranged.units
            /\ worker[v].at = "mark" => worker[v].cell \in synced'
        BY <1>8, <2>1 DEF Holds
      <4> QED
        BY <1>1, <1>5, <1>8, <2>1, <4>1, <4>2, StillHolds
    <3>2. CASE v = w
      <4>1. worker'[v] = r
        BY <1>1, <2>1, <3>2
      <4>2. i \in DOMAIN ranged.units /\ ranged.units[i] = worker[w].got
        BY <1>8, <2>1 DEF Holds
      <4> QED
        BY <1>5, <1>6, <2>1, <2>2, <2>3, <4>1, <4>2 DEF Holds, Holding
    <3> QED
      BY <3>1, <3>2
  <2>6. worker[w].at \in Holding
    BY <1>2 DEF Holding
  <2>7. WorkersHold'
    BY <1>1, <2>1, <2>2, <2>5, <2>6, OneMoves
  <2>8. plan.done \subseteq 1 .. plan.size
    BY <1>1 DEF PlanIsAgreed
  <2> QED
    BY <1>1, <1>3, <1>4, <1>5, <2>1, <2>2, <2>3, <2>4, <2>7, <2>8, CrewWrites
<1>13. CASE Fetch!Mark(w)
  <2> DEFINE r == [Fetch!Off EXCEPT !.at = "claim"]
  <2>1. /\ worker[w].at = "mark" /\ worker' = [worker EXCEPT ![w] = r]
        /\ plan' = [plan EXCEPT !.done = plan.done \cup {i}]
        /\ ranged' = ranged /\ synced' = synced
    BY <1>13 DEF Fetch!Mark, Fetch!Stays
  <2>2. r \in WorkerRecords /\ r.at = "claim"
    BY <1>1, <1>3, WorkerMoves
  <2> HIDE DEF r
  <2>3. /\ plan' \in PlanRecords /\ plan'.size = plan.size /\ plan'.validator = plan.validator
        /\ plan'.oid = plan.oid /\ plan'.done = plan.done \cup {i}
    BY <1>1, <1>6, <2>1 DEF PlanRecords
  <2>4. i \in DOMAIN ranged.units /\ ranged.units[i] = worker[w].got /\ i \in synced
    BY <1>8, <2>1 DEF Holds
  <2>5. DoneIsThere'
    BY <1>1, <1>6, <2>1, <2>3, <2>4 DEF DoneIsThere
  <2>6. ASSUME NEW v \in Conns PROVE Holds(worker[v])'
    <3>1. CASE v # w
      <4>1. worker'[v] = worker[v]
        BY <1>1, <2>1, <3>1
      <4>2. /\ worker[v].at \in Holding => worker[v].cell \notin plan'.done
            /\ worker[v].at \in {"sync", "mark"} => worker[v].cell \in DOMAIN ranged.units
            /\ worker[v].at = "mark" => worker[v].cell \in synced'
        BY <1>7, <1>8, <2>1, <2>3, <3>1 DEF Holds
      <4> QED
        BY <1>1, <1>5, <1>8, <2>1, <2>3, <4>1, <4>2, StillHolds
    <3>2. CASE v = w
      <4>1. worker'[v] = r
        BY <1>1, <2>1, <3>2
      <4> QED
        BY <2>2, <4>1 DEF Holds, Holding
    <3> QED
      BY <3>1, <3>2
  <2>7. WorkersHold'
    BY <1>1, <2>1, <2>2, <2>6, OneMoves DEF Holding
  <2>8. plan'.done \subseteq 1 .. plan.size
    BY <1>1, <1>6, <2>3 DEF PlanIsAgreed
  <2> QED
    BY <1>1, <1>3, <1>4, <1>5, <2>1, <2>2, <2>3, <2>5, <2>7, <2>8, CrewWrites
<1> QED
  BY <1>10, <1>11, <1>12, <1>13

-----------------------------------------------------------------------------
LEMMA FetchInvInit == Fetch!Init => FetchInv
<1> SUFFICES ASSUME Fetch!Init PROVE FetchInv
  OBVIOUS
<1>1. /\ object \in Objects /\ stream = << >> /\ meta = 0 /\ ranged = Fetch!NoFile
      /\ plan = Fetch!NoPlan /\ blobs = {} /\ run = Fetch!Idle
      /\ worker = [w \in Conns |-> Fetch!Off]
  BY DEF Fetch!Init, Fetch!None
<1>2. run.at = "idle" /\ ~ranged.there /\ plan.done = {} /\ plan = Fetch!NoPlan
  BY <1>1, FixedRecords, FixedAreKnown
<1>3. OnePartial /\ DoneIsThere /\ Gathered
  BY <1>1, <1>2 DEF OnePartial, Ranging, Streaming, Gathering, DoneIsThere, Gathered
<1>4. PlanIsAgreed
  BY <1>2 DEF PlanIsAgreed, Probed, Gathering
<1>5. StreamIsPrefix /\ BlobIsOneObject
  BY <1>1, <1>2 DEF StreamIsPrefix, BlobIsOneObject, Fetch!BlobIsOneObject
<1>6. WorkersHold
  <2>1. \A w \in Conns : worker[w].at = "off"
    BY <1>1, FixedAreKnown
  <2> QED
    BY <2>1 DEF WorkersHold, Holds, Holding
<1> QED
  BY <1>3, <1>4, <1>5, <1>6, FetchInitTypes DEF FetchInv

LEMMA FetchInvNext == FetchInv /\ [Fetch!Next]_Fetch!vars => FetchInv'
<1> SUFFICES ASSUME FetchInv, [Fetch!Next]_Fetch!vars PROVE FetchInv'
  OBVIOUS
<1>1. CASE UNCHANGED Fetch!vars
  <2>1. /\ object' = object /\ remote' = remote /\ strayed' = strayed /\ UNCHANGED Fetch!disk
        /\ run' = run /\ worker' = worker /\ ranged' = ranged /\ synced' = synced /\ plan' = plan
    BY <1>1 DEF Fetch!vars, Fetch!disk
  <2>2. /\ remote \in Versions /\ IsKnownRun(run) /\ worker \in [Conns -> WorkerRecords]
        /\ \A w \in Conns : worker[w] # Fetch!Off => run.at = "fetch"
    BY DEF FetchInv, FetchTypes, RunIsKnown, CrewIsKnown
  <2>3. WorkersHold'
    BY <2>1 DEF FetchInv, WorkersHold, Holds
  <2> QED
    BY <2>1, <2>2, <2>3, CrewTurns DEF SameRun
<1>2. CASE Fetch!Next
  <2>1. object' = object
    BY <1>2 DEF Fetch!Next
  <2>2. CASE Fetch!Start /\ UNCHANGED <<remote, strayed>>
    BY <2>1, <2>2, StartKeeps
  <2>3. CASE Fetch!Step /\ UNCHANGED <<remote, runs>> /\ strayed' = (strayed \/ Fetch!Strays)
    <3>1. CASE \E w \in Conns : Fetch!WorkerStep(w)
      BY <2>1, <2>3, <3>1, WorkersTurn, ClaimKeeps, WorkersWrite DEF Fetch!WorkerStep
    <3>2. CASE Fetch!Signal
      BY <2>1, <2>3, <3>2, FlagsKeep
    <3> QED
      BY <2>1, <2>3, <3>1, <3>2, TurnsKeep, DiscardsKeep, WritesKeep, SavePlanKeeps, CommitKeeps
         DEF Fetch!Step
  <2>4. CASE Fetch!Replaced
    BY <2>1, <2>4, FlagsKeep
  <2>5. CASE Fetch!Killed
    BY <2>1, <2>5, KilledKeeps
  <2>6. CASE Fetch!PowerLost
    BY <2>1, <2>6, PowerLostKeeps
  <2> QED
    BY <1>2, <2>2, <2>3, <2>4, <2>5, <2>6 DEF Fetch!Next
<1> QED
  BY <1>1, <1>2

(* A committed blob holds the bytes of one version of its object, and under a    *)
(* sha256 always had, however many runs, killed at whatever step, went into it,   *)
(* and whenever the object was replaced upstream (download.rs:299); the           *)
(* exceptions are those BlobIsOneObject names.                                  *)
THEOREM BlobsAreOfOneObject == Fetch!Spec => []BlobIsOneObject
<1>1. FetchInv => BlobIsOneObject
  BY DEF FetchInv
<1> QED
  BY <1>1, FetchInvInit, FetchInvNext, PTL DEF Fetch!Spec

(* What a run leaves on disk, wherever it fails, is killed or loses power, can be *)
(* continued: a cell its plan calls done is there, durable, and of the object     *)
(* the plan names, and a stream partial is a prefix of the version its validator  *)
(* names (ranged.rs, mark; download.rs, refresh before truncate).                *)
THEOREM PartialsAreSound == Fetch!Spec => []PartialIsSound
<1>1. FetchInv => PartialIsSound
  <2> SUFFICES ASSUME FetchInv PROVE PartialIsSound
    OBVIOUS
  <2>1. OnePartial /\ DoneIsThere /\ StreamIsPrefix
    BY DEF FetchInv
  <2> QED
    BY <2>1 DEF PartialIsSound, Fetch!PartialIsSound, Fetch!Resumable, OnePartial, DoneIsThere,
                StreamIsPrefix, Fetch!Lost, Fetch!None, Fetch!At
<1> QED
  BY <1>1, FetchInvInit, FetchInvNext, PTL DEF Fetch!Spec

-----------------------------------------------------------------------------
(* A run that nothing disturbs.  Versions only grow upstream: what a run knew first     *)
(* is no newer than what it learned later, so cells fetched under the sha256 of the     *)
(* newest version are of the newest version.                                     *)
FileFits == Len(ranged.units) <= plan.size /\ (~ranged.there => ranged.units = << >>)

AgainIsFresh ==
  /\ run.again = TRUE => run.resume = FALSE
  /\ run.at = "choose" => run.again = FALSE

Tame == object.etag = TRUE /\ object.power = FALSE /\ strayed = FALSE

OidsAgree ==
  (run.at \in {"open", "save"} /\ run.resume = TRUE) \/ Gathering => plan.oid = run.want

RunIsOlder ==
  /\ run.want <= remote
  /\ Probed => run.want <= run.probe.validator /\ run.probe.validator <= remote

DiskIsOlder ==
  /\ plan # Fetch!NoPlan => plan.oid <= plan.validator /\ plan.validator <= remote
  /\ ranged.there =>
       \A i \in plan.done : plan.oid <= ranged.units[i] /\ ranged.units[i] <= remote

Undisturbed ==
  run.quiet = TRUE /\ run.at # "idle" /\ object.sizes[remote] <= object.cap

CrewIsWell ==
  /\ \A w \in Conns : worker[w].at \notin {"fault", "file"}
  /\ \A i \in 1 .. plan.size :
       i < run.cursor =>
         i \in plan.done \/ \E w \in Conns : worker[w].at \in Holding /\ worker[w].cell = i
  /\ run.cursor > plan.size \/ \E w \in Conns : worker[w] # Fetch!Off

RunIsWell ==
  /\ run.want = Fetch!Oid(remote) /\ run.signal = FALSE /\ run.stop = FALSE /\ run.err = "none"
  /\ Probed => run.probe.validator = remote /\ object.ranges = TRUE
  /\ Gathering => plan.validator = remote

StreamIsNew ==
  /\ run.at \in {"meta", "trunc", "body"} => run.from = remote
  /\ run.at = "commit" /\ run.tmp = "stream" => meta = remote

BlobIsThere ==
  run.at = "unmeta" \/ (run.at = "unplan" /\ run.then = "idle") =>
    \E b \in blobs : b.name = Fetch!Whole(remote)

QuietRun ==
  RunIsWell /\ StreamIsNew /\ BlobIsThere /\ (run.at = "fetch" => CrewIsWell)

QuietInv ==
  /\ FileFits /\ AgainIsFresh
  /\ Tame => OidsAgree /\ RunIsOlder /\ DiskIsOlder /\ (Undisturbed => QuietRun)

-----------------------------------------------------------------------------
SameAims(r) ==
  /\ r.want = run.want /\ r.quiet = run.quiet /\ r.signal = run.signal /\ r.stop = run.stop
  /\ r.err = run.err

SameProbe(r) == r.probe = run.probe /\ r.again = run.again /\ r.resume = run.resume

(* What becomes of the ranged partial and its plan in a step that writes no cell.      *)
DiskTurns ==
  \/ plan' = plan /\ (ranged' = ranged \/ ranged' = Fetch!NoFile)
  \/ plan' = Fetch!NoPlan /\ ranged' = ranged /\ ~ranged.there
  \/ /\ plan' = plan /\ ranged' = [ranged EXCEPT !.there = TRUE]
     /\ ranged.there \/ plan.done = {}

LEMMA DiskTurnsKeep ==
  ASSUME FetchInv, QuietInv, object' = object, remote' = remote, DiskTurns
  PROVE  FileFits' /\ (DiskIsOlder => DiskIsOlder')
<1>1. /\ plan \in PlanRecords /\ ranged \in [there : BOOLEAN, units : Seq(Versions \cup {0})]
      /\ object \in Objects /\ plan.size \in Nat
  BY DEF FetchInv, FetchTypes, DiskIsKnown, PlanRecords
<1>2. CASE plan' = plan /\ ranged' = ranged
  BY <1>2 DEF QuietInv, FileFits, DiskIsOlder
<1>3. CASE plan' = plan /\ ranged' = Fetch!NoFile
  <2>1. ranged'.units = << >> /\ ~ranged'.there
    BY <1>1, <1>3, FixedAreKnown
  <2> QED
    BY <1>1, <1>3, <2>1 DEF FileFits, DiskIsOlder
<1>4. CASE plan' = Fetch!NoPlan /\ ranged' = ranged /\ ~ranged.there
  <2>1. ranged'.units = << >> /\ plan'.size = 0
    BY <1>1, <1>4, FixedAreKnown DEF QuietInv, FileFits
  <2> QED
    BY <1>4, <2>1 DEF FileFits, DiskIsOlder
<1>5. CASE /\ plan' = plan /\ ranged' = [ranged EXCEPT !.there = TRUE]
           /\ ranged.there \/ plan.done = {}
  <2>1. ranged'.units = ranged.units /\ ranged'.there
    BY <1>1, <1>5
  <2> QED
    BY <1>5, <2>1 DEF QuietInv, FileFits, DiskIsOlder
<1> QED
  BY <1>2, <1>3, <1>4, <1>5 DEF DiskTurns

(* A turn of a run that goes on and sets no worker going.                        *)
QuietTurn ==
  /\ run.at # "idle" /\ run'.at \notin {"idle", "choose", "fetch"} /\ SameAims(run') /\ DiskTurns
  /\ run'.again = TRUE => run'.resume = FALSE
  /\ Gathering' => Gathering /\ plan' = plan
  /\ Tame /\ Probed' => \/ Probed /\ run'.probe = run.probe
                        \/ run'.probe.validator = remote /\ object.ranges = TRUE
  /\ Tame' /\ run'.at \in {"open", "save"} /\ run'.resume = TRUE => plan'.oid = run.want
  /\ Tame /\ Undisturbed /\ QuietRun => StreamIsNew' /\ BlobIsThere'

LEMMA TurnStaysQuiet ==
  ASSUME FetchInv, QuietInv, object' = object, remote' = remote,
         strayed' = (strayed \/ Fetch!Strays), QuietTurn
  PROVE  QuietInv'
<1> USE DEF QuietTurn
<1>1. FileFits' /\ (DiskIsOlder => DiskIsOlder')
  BY DiskTurnsKeep
<1>2. AgainIsFresh'
  BY DEF AgainIsFresh
<1>3. Tame' => Tame
  <2>1. strayed \in BOOLEAN
    BY DEF FetchInv, FetchTypes
  <2> QED
    BY <2>1 DEF Tame
<1>4. ASSUME Tame' PROVE OidsAgree' /\ RunIsOlder'
  <2>1. Tame /\ OidsAgree /\ RunIsOlder
    BY <1>3, <1>4 DEF QuietInv
  <2>2. OidsAgree'
    BY <1>4, <2>1 DEF OidsAgree, SameAims
  <2>3. run'.want = run.want /\ run.want <= remote
    BY <2>1 DEF RunIsOlder, SameAims
  <2>4. Probed' => run'.want <= run'.probe.validator /\ run'.probe.validator <= remote
    <3>1. remote \in Nat
      BY ObjectFacts DEF FetchInv, FetchTypes
    <3> QED
      BY <2>1, <2>3, <3>1 DEF RunIsOlder
  <2> QED
    BY <2>2, <2>3, <2>4 DEF RunIsOlder
<1>5. ASSUME Tame', Undisturbed' PROVE QuietRun'
  <2>1. Tame /\ Undisturbed
    BY <1>3, <1>5 DEF Undisturbed, SameAims
  <2>2. QuietRun
    BY <2>1 DEF QuietInv
  <2>3. RunIsWell'
    BY <2>1, <2>2 DEF QuietRun, RunIsWell, SameAims, Fetch!Oid
  <2> QED
    BY <2>1, <2>2, <2>3 DEF QuietRun
<1> QED
  BY <1>1, <1>2, <1>3, <1>4, <1>5 DEF QuietInv

(* A run that is over, or killed.                                            *)
LEMMA EndStaysQuiet ==
  ASSUME FetchInv, QuietInv, object' = object, remote' = remote,
         strayed => strayed', run' = Fetch!Idle, DiskTurns
  PROVE  QuietInv'
<1>1. FileFits' /\ (DiskIsOlder => DiskIsOlder')
  BY DiskTurnsKeep
<1>2. /\ run'.at = "idle" /\ run'.want = 0 /\ run'.again = FALSE /\ run'.resume = FALSE
  BY FixedRecords
<1>3. AgainIsFresh'
  BY <1>2 DEF AgainIsFresh
<1>4. Tame' => Tame
  <2>1. strayed \in BOOLEAN
    BY DEF FetchInv, FetchTypes
  <2> QED
    BY <2>1 DEF Tame
<1>5. OidsAgree' /\ RunIsOlder' /\ ~Undisturbed'
  <2>1. remote \in Nat
    BY ObjectFacts DEF FetchInv, FetchTypes
  <2> QED
    BY <1>2, <2>1 DEF OidsAgree, RunIsOlder, Undisturbed, Probed, Gathering
<1> QED
  BY <1>1, <1>3, <1>4, <1>5 DEF QuietInv

(* The steps that leave the disk alone.                                        *)
LEMMA TurnsStayQuiet ==
  ASSUME FetchInv, QuietInv, object' = object, remote' = remote,
         strayed' = (strayed \/ Fetch!Strays),
         \/ Fetch!ProbeFails \/ Fetch!ProbeAnswered \/ Fetch!Fresh \/ Fetch!Assembled
         \/ Fetch!AskFails \/ Fetch!AskFresh \/ Fetch!AskResumes \/ Fetch!StreamBreaks
         \/ Fetch!StreamEnds
  PROVE  QuietInv'
<1>1. /\ object \in Objects /\ remote \in Versions /\ DOMAIN run = RunFields
      /\ run.resume \in BOOLEAN /\ AgainIsFresh /\ StreamIsPrefix
  BY DEF FetchInv, FetchTypes, RunIsKnown, IsKnownRun, QuietInv
<1>2. UNCHANGED Fetch!disk
  BY DEF Fetch!ProbeFails, Fetch!ProbeAnswered, Fetch!Fresh, Fetch!Assembled,
         Fetch!AskFails, Fetch!AskFresh, Fetch!AskResumes, Fetch!StreamBreaks, Fetch!StreamEnds
<1>3. /\ stream' = stream /\ meta' = meta /\ ranged' = ranged /\ plan' = plan /\ DiskTurns
  BY <1>2 DEF Fetch!disk, DiskTurns
<1>4. CASE run' = Fetch!Idle
  BY <1>3, <1>4, EndStaysQuiet
<1>5. CASE Fetch!ProbeAnswered
  <2> DEFINE at == IF ~run.resume /\ Fetch!Size(remote) <= 1 THEN "stream" ELSE "reconcile"
  <2> DEFINE probe == [Fetch!NoPlan EXCEPT !.size = Fetch!Size(remote),
                                          !.validator = Fetch!Validator(remote)]
  <2>1. /\ run.at = "probe" /\ run' = [run EXCEPT !.at = at, !.probe = probe]
        /\ object.ranges = TRUE
    BY <1>1, <1>5, ObjectFacts DEF Fetch!ProbeAnswered, Fetch!At
  <2>2. at \in {"stream", "reconcile"}
    OBVIOUS
  <2>3. Tame => probe.validator = remote
    BY <1>1, VersionFacts, FixedAreKnown DEF PlanRecords, Tame
  <2> HIDE DEF at, probe
  <2>4. SameAims(run') /\ run'.at = at /\ run'.probe = probe
        /\ run'.again = run.again /\ run'.resume = run.resume
    BY <1>1, <2>1 DEF RunFields, SameAims, SameProbe
  <2>5. StreamIsNew' /\ BlobIsThere' /\ ~Gathering'
    BY <2>2, <2>4 DEF StreamIsNew, BlobIsThere, Gathering
  <2>9. QuietTurn
    BY <1>1, <1>3, <2>1, <2>2, <2>3, <2>4, <2>5 DEF QuietTurn, AgainIsFresh
  <2> QED
    BY <2>9, TurnStaysQuiet
<1>6. CASE Fetch!Fresh
  <2>1. run.at = "fresh" /\ run' = [run EXCEPT !.at = "reconcile", !.resume = FALSE, !.again = TRUE]
    BY <1>6 DEF Fetch!Fresh, Fetch!At
  <2>2. SameAims(run') /\ run'.at = "reconcile" /\ run'.probe = run.probe /\ run'.resume = FALSE
    BY <1>1, <2>1 DEF RunFields, SameAims, SameProbe
  <2>3. StreamIsNew' /\ BlobIsThere' /\ ~Gathering' /\ Probed
    BY <2>1, <2>2 DEF StreamIsNew, BlobIsThere, Gathering, Probed
  <2>9. QuietTurn
    BY <1>3, <2>1, <2>2, <2>3 DEF QuietTurn
  <2> QED
    BY <2>9, TurnStaysQuiet
<1>7. CASE Fetch!Assembled /\ run' # Fetch!Idle
  <2>1. run.at = "fetch" /\ run' = [run EXCEPT !.at = "commit", !.tmp = "ranged"]
    BY <1>7 DEF Fetch!Assembled, Fetch!Joined, Fetch!At, Fetch!Fails
  <2>2. SameAims(run') /\ SameProbe(run') /\ run'.at = "commit" /\ run'.tmp = "ranged"
    BY <1>1, <2>1 DEF RunFields, SameAims, SameProbe
  <2>3. StreamIsNew' /\ BlobIsThere' /\ Gathering /\ ~Probed'
    BY <2>1, <2>2 DEF StreamIsNew, BlobIsThere, Gathering, Probed
  <2>9. QuietTurn
    BY <1>1, <1>3, <2>1, <2>2, <2>3 DEF QuietTurn, AgainIsFresh, SameProbe
  <2> QED
    BY <2>9, TurnStaysQuiet
<1>8. CASE Fetch!StreamEnds
  <2>1. run.at = "body" /\ run' = [run EXCEPT !.at = "commit", !.tmp = "stream"]
    BY <1>8 DEF Fetch!StreamEnds, Fetch!At
  <2>2. SameAims(run') /\ SameProbe(run') /\ run'.at = "commit" /\ run'.tmp = "stream"
    BY <1>1, <2>1 DEF RunFields, SameAims, SameProbe
  <2>3. BlobIsThere' /\ ~Gathering' /\ ~Probed'
    BY <2>1, <2>2 DEF BlobIsThere, Gathering, Probed
  <2>4. Tame /\ QuietRun => StreamIsNew'
    BY <1>1, <1>3, <2>1, <2>2 DEF Tame, QuietRun, StreamIsNew, StreamIsPrefix
  <2>9. QuietTurn
    BY <1>1, <1>3, <2>1, <2>2, <2>3, <2>4 DEF QuietTurn, AgainIsFresh, SameProbe
  <2> QED
    BY <2>9, TurnStaysQuiet
<1>9. ASSUME NEW at \in {"meta", "body"}, run.at = "ask",
             run' = [run EXCEPT !.at = at, !.from = remote]
      PROVE  QuietInv'
  <2>1. SameAims(run') /\ SameProbe(run') /\ run'.at = at /\ run'.from = remote
    BY <1>1, <1>9 DEF RunFields, SameAims, SameProbe
  <2>2. StreamIsNew' /\ BlobIsThere' /\ ~Gathering' /\ ~Probed'
    BY <2>1 DEF StreamIsNew, BlobIsThere, Gathering, Probed
  <2>9. QuietTurn
    BY <1>1, <1>3, <1>9, <2>1, <2>2 DEF QuietTurn, AgainIsFresh, SameProbe
  <2> QED
    BY <2>9, TurnStaysQuiet
<1> QED
  BY <1>4, <1>5, <1>6, <1>7, <1>8, <1>9
     DEF Fetch!ProbeFails, Fetch!Assembled, Fetch!AskFails, Fetch!StreamBreaks, Fetch!Fails,
         Fetch!AskFresh, Fetch!AskResumes, Fetch!Receives, Fetch!At

(* The run throws the ranged partial away and is to go on to q.                   *)
LEMMA DiscardStaysQuiet ==
  ASSUME FetchInv, QuietInv, object' = object, remote' = remote,
         strayed' = (strayed \/ Fetch!Strays), run.at # "idle",
         NEW q \in {"idle", "probe", "stream", "fresh", "ask"}, Fetch!Discard(q),
         plan' = plan, blobs' = blobs, q = "fresh" => Probed,
         q = "idle" /\ Tame /\ Undisturbed /\ QuietRun =>
           \E b \in blobs : b.name = Fetch!Whole(remote)
  PROVE  QuietInv'
<1>1. DOMAIN run = RunFields /\ AgainIsFresh
  BY DEF FetchInv, FetchTypes, RunIsKnown, IsKnownRun, QuietInv
<1>2. ranged' = Fetch!NoFile /\ run' = [run EXCEPT !.at = "unplan", !.then = q]
  BY DEF Fetch!Discard
<1>3. SameAims(run') /\ SameProbe(run') /\ run'.at = "unplan" /\ run'.then = q
  BY <1>1, <1>2 DEF RunFields, SameAims, SameProbe
<1>4. DiskTurns /\ StreamIsNew' /\ ~Gathering'
  BY <1>2, <1>3 DEF DiskTurns, StreamIsNew, Gathering
<1>5. Tame /\ Undisturbed /\ QuietRun => BlobIsThere'
  <2>1. Fetch!Whole(remote)' = Fetch!Whole(remote)
    BY DEF Fetch!Whole, Fetch!Size
  <2> QED
    BY <1>3, <2>1 DEF BlobIsThere
<1>6. Probed' => Probed
  BY <1>3 DEF Probed
<1>9. QuietTurn
  BY <1>1, <1>3, <1>4, <1>5, <1>6 DEF QuietTurn, AgainIsFresh, SameProbe
<1> QED
  BY <1>9, TurnStaysQuiet

LEMMA DiscardsStayQuiet ==
  ASSUME FetchInv, QuietInv, object' = object, remote' = remote,
         strayed' = (strayed \/ Fetch!Strays),
         \/ Fetch!Choose \/ Fetch!ProbeDeclined \/ Fetch!Reconcile \/ Fetch!RangedFails
         \/ Fetch!Stream \/ Fetch!Unmeta
  PROVE  QuietInv'
<1>1. /\ object \in Objects /\ remote \in Versions /\ DOMAIN run = RunFields
      /\ run.resume \in BOOLEAN /\ run.again \in BOOLEAN /\ strayed \in BOOLEAN
      /\ AgainIsFresh /\ OnePartial /\ PlanIsAgreed
  BY DEF FetchInv, FetchTypes, RunIsKnown, IsKnownRun, QuietInv
<1>2. CASE Fetch!Choose
  <2>1. run.at = "choose" /\ plan' = plan /\ blobs' = blobs
    BY <1>2 DEF Fetch!Choose, Fetch!At
  <2>2. CASE Fetch!Resumable
    <3>1. run' = [run EXCEPT !.at = "probe", !.resume = TRUE] /\ ranged' = ranged
      BY <1>2, <2>2 DEF Fetch!Choose
    <3>2. SameAims(run') /\ run'.at = "probe" /\ run'.again = run.again
      BY <1>1, <3>1 DEF RunFields, SameAims, SameProbe
    <3>3. DiskTurns /\ StreamIsNew' /\ BlobIsThere' /\ ~Gathering' /\ ~Probed'
      BY <2>1, <3>1, <3>2 DEF DiskTurns, StreamIsNew, BlobIsThere, Gathering, Probed
    <3>9. QuietTurn
      BY <1>1, <2>1, <3>2, <3>3 DEF QuietTurn, AgainIsFresh
    <3> QED
      BY <3>9, TurnStaysQuiet
  <2>3. CASE ~Fetch!Resumable
    <3>1. PICK spare \in BOOLEAN :
            Fetch!Discard(IF object.cap # Fetch!NoCap \/ stream # << >> \/ ~spare
                          THEN "stream" ELSE "probe")
      BY <1>2, <2>3 DEF Fetch!Choose
    <3> QED
      BY <2>1, <3>1, DiscardStaysQuiet
  <2> QED
    BY <2>2, <2>3
<1>3. CASE Fetch!ProbeDeclined
  <2>1. run.at = "probe" /\ plan' = plan /\ blobs' = blobs
    BY <1>3 DEF Fetch!ProbeDeclined, Fetch!At
  <2>2. CASE run.resume
    BY <1>3, <2>1, <2>2, DiscardStaysQuiet DEF Fetch!ProbeDeclined
  <2>3. CASE ~run.resume
    <3>1. run' = [run EXCEPT !.at = "stream"] /\ ranged' = ranged
      BY <1>3, <2>3 DEF Fetch!ProbeDeclined
    <3>2. SameAims(run') /\ SameProbe(run') /\ run'.at = "stream"
      BY <1>1, <3>1 DEF RunFields, SameAims, SameProbe
    <3>3. DiskTurns /\ StreamIsNew' /\ BlobIsThere' /\ ~Gathering' /\ ~Probed'
      BY <2>1, <3>1, <3>2 DEF DiskTurns, StreamIsNew, BlobIsThere, Gathering, Probed
    <3>9. QuietTurn
      BY <1>1, <2>1, <3>2, <3>3 DEF QuietTurn, AgainIsFresh, SameProbe
    <3> QED
      BY <3>9, TurnStaysQuiet
  <2> QED
    BY <2>2, <2>3
<1>4. CASE Fetch!Reconcile
  <2>1. run.at = "reconcile" /\ plan' = plan /\ blobs' = blobs /\ Probed
    BY <1>4 DEF Fetch!Reconcile, Fetch!Goes, Fetch!At, Fetch!disk, Probed
  <2>2. CASE run.resume /\ Fetch!Differs(plan)
    <3>1. run.again = FALSE
      BY <1>1, <2>2 DEF AgainIsFresh
    <3>2. Fetch!Discard(IF run.probe.size <= 1 THEN "stream" ELSE "fresh")
      BY <1>4, <2>2, <3>1 DEF Fetch!Reconcile, Fetch!Restart
    <3> QED
      BY <2>1, <3>2, DiscardStaysQuiet
  <2>3. CASE ~(run.resume /\ Fetch!Differs(plan))
    <3>1. run' = [run EXCEPT !.at = "open"] /\ ranged' = ranged
      BY <1>4, <2>3 DEF Fetch!Reconcile, Fetch!Goes, Fetch!disk
    <3>2. SameAims(run') /\ SameProbe(run') /\ run'.at = "open"
      BY <1>1, <3>1 DEF RunFields, SameAims, SameProbe
    <3>3. DiskTurns /\ StreamIsNew' /\ BlobIsThere' /\ ~Gathering'
      BY <2>1, <3>1, <3>2 DEF DiskTurns, StreamIsNew, BlobIsThere, Gathering
    <3>4. Tame' /\ run'.resume = TRUE => plan'.oid = run.want
      BY <2>1, <2>3, <3>2 DEF SameProbe, Tame, Fetch!Strays, Fetch!At, Fetch!Differs, Fetch!None
    <3>9. QuietTurn
      BY <1>1, <2>1, <3>2, <3>3, <3>4 DEF QuietTurn, AgainIsFresh, SameProbe
    <3> QED
      BY <3>9, TurnStaysQuiet
  <2> QED
    BY <2>2, <2>3
<1>5. CASE Fetch!RangedFails
  <2>1. run.at = "fetch" /\ plan' = plan /\ blobs' = blobs /\ Probed
    BY <1>5 DEF Fetch!RangedFails, Fetch!Joined, Fetch!At, Probed
  <2>2. run.err # "none"
    BY <1>5 DEF Fetch!RangedFails
  <2>3. ~(Tame /\ Undisturbed /\ QuietRun)
    BY <2>2 DEF QuietRun, RunIsWell
  <2>4. CASE run.err = "fatal"
    <3>1. run' = Fetch!Idle /\ ranged' = ranged
      BY <1>5, <2>4 DEF Fetch!RangedFails, Fetch!Fails
    <3> QED
      BY <2>1, <3>1, EndStaysQuiet DEF DiskTurns
  <2>5. CASE run.err = "noranges"
    BY <1>5, <2>1, <2>5, DiscardStaysQuiet DEF Fetch!RangedFails
  <2>6. CASE run.err = "changed"
    <3>1. PICK q \in {"idle", "stream", "fresh"} : Fetch!Discard(q)
      BY <1>5, <2>6 DEF Fetch!RangedFails, Fetch!Restart
    <3> QED
      BY <2>1, <2>3, <3>1, DiscardStaysQuiet
  <2> QED
    BY <1>5, <2>4, <2>5, <2>6 DEF Fetch!RangedFails
<1>6. CASE Fetch!Stream
  <2>1. run.at = "stream" /\ plan' = plan /\ blobs' = blobs /\ Fetch!Discard("ask")
    BY <1>6 DEF Fetch!Stream, Fetch!At
  <2> QED
    BY <2>1, DiscardStaysQuiet
<1>7. CASE Fetch!Unmeta
  <2>1. run.at = "unmeta" /\ plan' = plan /\ blobs' = blobs /\ Fetch!Discard("idle")
    BY <1>7 DEF Fetch!Unmeta, Fetch!At
  <2>2. QuietRun => \E b \in blobs : b.name = Fetch!Whole(remote)
    BY <2>1 DEF QuietRun, BlobIsThere
  <2> QED
    BY <2>1, <2>2, DiscardStaysQuiet
<1> QED
  BY <1>2, <1>3, <1>4, <1>5, <1>6, <1>7

(* The steps of a run that write the disk, between its workers and its commit.   *)
LEMMA WritesStayQuiet ==
  ASSUME FetchInv, QuietInv, object' = object, remote' = remote,
         strayed' = (strayed \/ Fetch!Strays),
         \/ Fetch!Unplan \/ Fetch!Open \/ Fetch!AskRefused \/ Fetch!Forget
         \/ Fetch!RefreshMeta \/ Fetch!Truncate \/ Fetch!Append1 \/ Fetch!TooLarge
  PROVE  QuietInv'
<1>1. /\ object \in Objects /\ remote \in Versions /\ DOMAIN run = RunFields
      /\ run.resume \in BOOLEAN /\ strayed \in BOOLEAN /\ AgainIsFresh /\ OnePartial
      /\ StreamIsPrefix /\ stream \in Seq(Versions \cup {0})
      /\ run.then \in {"idle", "probe", "stream", "fresh", "ask"}
  BY DEF FetchInv, FetchTypes, RunIsKnown, IsKnownRun, DiskIsKnown, QuietInv
<1>2. CASE Fetch!Unplan
  <2>1. /\ run.at = "unplan" /\ plan' = Fetch!NoPlan
        /\ run' = IF run.then = "idle" THEN Fetch!Idle ELSE [run EXCEPT !.at = run.then]
        /\ ranged' = ranged
    BY <1>2 DEF Fetch!Unplan, Fetch!At
  <2>2. DiskTurns
    BY <1>1, <2>1 DEF OnePartial, DiskTurns
  <2>3. CASE run.then = "idle"
    BY <2>1, <2>2, <2>3, EndStaysQuiet
  <2>4. CASE run.then # "idle"
    <3>1. SameAims(run') /\ SameProbe(run') /\ run'.at = run.then
      BY <1>1, <2>1, <2>4 DEF RunFields, SameAims, SameProbe
    <3>2. StreamIsNew' /\ BlobIsThere' /\ ~Gathering' /\ (Probed' => Probed)
      BY <1>1, <2>1, <2>4, <3>1 DEF StreamIsNew, BlobIsThere, Gathering, Probed
    <3>3. QuietTurn
      BY <1>1, <2>1, <2>2, <2>4, <3>1, <3>2 DEF QuietTurn, AgainIsFresh, SameProbe
    <3> QED
      BY <3>3, TurnStaysQuiet
  <2> QED
    BY <2>3, <2>4
<1>3. CASE Fetch!Open
  <2>1. /\ run.at = "open" /\ run' = [run EXCEPT !.at = "save"] /\ plan' = plan
        /\ ranged' = [ranged EXCEPT !.there = TRUE]
    BY <1>3 DEF Fetch!Open, Fetch!Goes, Fetch!At
  <2>2. SameAims(run') /\ SameProbe(run') /\ run'.at = "save"
    BY <1>1, <2>1 DEF RunFields, SameAims, SameProbe
  <2>3. DiskTurns
    <3>1. CASE run.resume
      BY <1>1, <2>1, <3>1 DEF OnePartial, Ranging, DiskTurns
    <3>2. CASE ~run.resume
      BY <1>1, <2>1, <3>2, FixedAreKnown DEF OnePartial, Ranging, DiskTurns
    <3> QED
      BY <3>1, <3>2
  <2>4. StreamIsNew' /\ BlobIsThere' /\ ~Gathering' /\ Probed
    BY <2>1, <2>2 DEF StreamIsNew, BlobIsThere, Gathering, Probed
  <2>5. Tame' => Tame
    BY <1>1 DEF Tame
  <2>6. Tame' /\ run'.resume = TRUE => plan'.oid = run.want
    BY <2>1, <2>2, <2>5 DEF SameProbe, QuietInv, OidsAgree
  <2>7. QuietTurn
    BY <1>1, <2>1, <2>2, <2>3, <2>4, <2>6 DEF QuietTurn, AgainIsFresh, SameProbe
  <2> QED
    BY <2>7, TurnStaysQuiet
<1>4. ASSUME NEW at \in {"forget", "stream", "trunc", "body", "unmeta", "commit"},
             SameAims(run'), SameProbe(run'), run'.at = at, run'.from = run.from,
             at = "commit" => run'.tmp = "stream", run.at # "idle",
             plan' = plan, ranged' = ranged,
             Tame /\ Undisturbed /\ QuietRun => StreamIsNew' /\ at # "unmeta"
      PROVE  QuietInv'
  <2>1. DiskTurns /\ ~Gathering' /\ ~Probed' /\ (at # "unmeta" => BlobIsThere')
    BY <1>4 DEF DiskTurns, Gathering, Probed, BlobIsThere
  <2>2. QuietTurn
    BY <1>1, <1>4, <2>1 DEF QuietTurn, AgainIsFresh, SameProbe
  <2> QED
    BY <2>2, TurnStaysQuiet
<1>5. CASE Fetch!AskRefused
  <2>1. /\ run.at = "ask" /\ plan' = plan /\ ranged' = ranged /\ meta' = meta
        /\ Fetch!have > 0 /\ ~Fetch!WholeInstead(Fetch!IfRange)
    BY <1>5 DEF Fetch!AskRefused, Fetch!At
  <2>2. CASE run' = [run EXCEPT !.at = "commit", !.tmp = "stream"]
    <3>1. /\ SameAims(run') /\ SameProbe(run') /\ run'.at = "commit" /\ run'.tmp = "stream"
          /\ run'.from = run.from
      BY <1>1, <2>2 DEF RunFields, SameAims, SameProbe
    <3>2. stream # << >> /\ (meta = 0 \/ meta = Fetch!Validator(remote))
      BY <1>1, <2>1, ObjectFacts
         DEF Fetch!have, Fetch!IfRange, Fetch!WholeInstead, Fetch!None
    <3>3. Tame => StreamIsNew'
      BY <1>1, <2>1, <3>1, <3>2, VersionFacts DEF Tame, StreamIsPrefix, StreamIsNew
    <3> QED
      BY <1>4, <2>1, <3>1, <3>3
  <2>3. CASE run' = [run EXCEPT !.at = "forget"]
    <3>1. /\ SameAims(run') /\ SameProbe(run') /\ run'.at = "forget" /\ run'.from = run.from
      BY <1>1, <2>3 DEF RunFields, SameAims, SameProbe
    <3>2. StreamIsNew'
      BY <3>1 DEF StreamIsNew
    <3> QED
      BY <1>4, <2>1, <3>1, <3>2
  <2> QED
    BY <1>5, <2>2, <2>3 DEF Fetch!AskRefused
<1>6. CASE Fetch!Forget
  <2>1. /\ run.at = "forget" /\ run' = [run EXCEPT !.at = "stream"] /\ plan' = plan
        /\ ranged' = ranged
    BY <1>6 DEF Fetch!Forget, Fetch!Goes, Fetch!At
  <2>2. SameAims(run') /\ SameProbe(run') /\ run'.at = "stream" /\ run'.from = run.from
    BY <1>1, <2>1 DEF RunFields, SameAims, SameProbe
  <2>3. StreamIsNew'
    BY <2>2 DEF StreamIsNew
  <2> QED
    BY <1>4, <2>1, <2>2, <2>3
<1>7. CASE Fetch!RefreshMeta
  <2>1. /\ run.at = "meta" /\ run' = [run EXCEPT !.at = "trunc"] /\ plan' = plan
        /\ ranged' = ranged
    BY <1>7 DEF Fetch!RefreshMeta, Fetch!Goes, Fetch!At
  <2>2. SameAims(run') /\ SameProbe(run') /\ run'.at = "trunc" /\ run'.from = run.from
    BY <1>1, <2>1 DEF RunFields, SameAims, SameProbe
  <2>3. QuietRun => StreamIsNew'
    BY <2>1, <2>2 DEF QuietRun, StreamIsNew
  <2> QED
    BY <1>4, <2>1, <2>2, <2>3
<1>8. CASE Fetch!Truncate
  <2>1. /\ run.at = "trunc" /\ run' = [run EXCEPT !.at = "body"] /\ plan' = plan
        /\ ranged' = ranged
    BY <1>8 DEF Fetch!Truncate, Fetch!Goes, Fetch!At
  <2>2. SameAims(run') /\ SameProbe(run') /\ run'.at = "body" /\ run'.from = run.from
    BY <1>1, <2>1 DEF RunFields, SameAims, SameProbe
  <2>3. QuietRun => StreamIsNew'
    BY <2>1, <2>2 DEF QuietRun, StreamIsNew
  <2> QED
    BY <1>4, <2>1, <2>2, <2>3
<1>9. CASE Fetch!Append1
  <2>1. run.at = "body" /\ run' = run /\ plan' = plan /\ ranged' = ranged
    BY <1>9 DEF Fetch!Append1, Fetch!At
  <2>2. SameAims(run') /\ SameProbe(run') /\ run'.at = "body" /\ run'.from = run.from
    BY <2>1 DEF SameAims, SameProbe
  <2>3. QuietRun => StreamIsNew'
    BY <2>1, <2>2 DEF QuietRun, StreamIsNew
  <2> QED
    BY <1>4, <2>1, <2>2, <2>3
<1>10. CASE Fetch!TooLarge
  <2>1. /\ run.at = "body" /\ run' = [run EXCEPT !.at = "unmeta"] /\ plan' = plan
        /\ ranged' = ranged
        /\ Len(stream) < object.sizes[run.from] /\ Len(stream) >= object.cap
    BY <1>10 DEF Fetch!TooLarge, Fetch!At, Fetch!have, Fetch!Size
  <2>2. SameAims(run') /\ SameProbe(run') /\ run'.at = "unmeta" /\ run'.from = run.from
    BY <1>1, <2>1 DEF RunFields, SameAims, SameProbe
  <2>3. ~(Tame /\ Undisturbed /\ QuietRun)
    <3> SUFFICES ASSUME Undisturbed, QuietRun PROVE FALSE
      OBVIOUS
    <3>1. run.from = remote
      BY <2>1 DEF QuietRun, StreamIsNew
    <3> DEFINE n == Len(stream)  size == object.sizes[remote]  cap == object.cap
    <3>2. n \in Nat /\ size \in Nat /\ cap \in Nat
      BY <1>1, ObjectFacts
    <3>3. n < size /\ n >= cap /\ size <= cap
      BY <2>1, <3>1 DEF Undisturbed
    <3> HIDE DEF n, size, cap
    <3> QED
      BY <3>2, <3>3
  <2> QED
    BY <1>4, <2>1, <2>2, <2>3
<1> QED
  BY <1>2, <1>3, <1>5, <1>6, <1>7, <1>8, <1>9, <1>10

(* What the gate of an undisturbed run is handed is the version upstream.          *)
LEMMA AllOf ==
  ASSUME NEW v, NEW u \in Seq(Nat), Len(u) = Fetch!Size(v), \A i \in 1 .. Len(u) : u[i] = v
  PROVE  u = Fetch!Whole(v)
<1>1. DOMAIN u = 1 .. Fetch!Size(v) /\ u = [i \in DOMAIN u |-> u[i]]
  OBVIOUS
<1> QED
  BY <1>1 DEF Fetch!Whole

LEMMA SeqWidens ==
  ASSUME NEW S, NEW T, S \subseteq T, NEW u \in Seq(S)
  PROVE  u \in Seq(T)
OBVIOUS

LEMMA AssemblyIsNew ==
  ASSUME FetchInv, QuietInv, run.at = "commit", Tame, Undisturbed, QuietRun
  PROVE  Fetch!Assembly = Fetch!Whole(remote)
<1>1. /\ object \in Objects /\ remote \in Versions /\ plan \in PlanRecords
      /\ OnePartial /\ PlanIsAgreed /\ DoneIsThere /\ Gathered /\ StreamIsPrefix
      /\ stream \in Seq(Versions \cup {0}) /\ ranged.units \in Seq(Versions \cup {0})
      /\ run.tmp \in {"stream", "ranged"}
  BY DEF FetchInv, FetchTypes, RunIsKnown, IsKnownRun, DiskIsKnown
<1>2. /\ Versions \cup {0} \subseteq Nat /\ remote \in Nat \ {0}
      /\ Fetch!Size(remote) = object.sizes[remote]
  BY <1>1, ObjectFacts, VersionFacts
<1>3. stream \in Seq(Nat) /\ ranged.units \in Seq(Nat)
  BY <1>1, <1>2, SeqWidens
<1>4. CASE run.tmp = "stream"
  <2>1. meta = remote
    BY <1>4 DEF QuietRun, StreamIsNew
  <2>2. Len(stream) = Fetch!Size(remote)
    BY <1>1, <1>2, <1>4, <2>1 DEF StreamIsPrefix, Tame
  <2>3. \A i \in DOMAIN stream : stream[i] = remote
    BY <1>1, <1>2, <1>4, <2>1 DEF StreamIsPrefix, Tame
  <2>4. DOMAIN stream = 1 .. Len(stream)
    BY <1>3
  <2> QED
    BY <1>3, <1>4, <2>2, <2>3, <2>4, AllOf DEF Fetch!Assembly
<1>5. CASE run.tmp = "ranged"
  <2>1. Gathering /\ ranged.there
    BY <1>1, <1>5 DEF OnePartial, Gathering
  <2>2. plan.validator = remote /\ plan.oid = run.want /\ run.want = Fetch!Oid(remote)
    BY <2>1 DEF QuietRun, RunIsWell, QuietInv, OidsAgree
  <2>3. plan.done = 1 .. plan.size /\ Len(ranged.units) = plan.size
    BY <1>1, <1>5 DEF Gathered
  <2>4. plan.size = Fetch!Size(remote)
    BY <1>1, <1>2, <2>1, <2>2 DEF PlanIsAgreed, Tame
  <2>5. plan.oid \in {0, remote}
    BY <2>2 DEF Fetch!Oid, Fetch!None
  <2>6. ASSUME NEW i \in plan.done PROVE ranged.units[i] = remote
    <3>1. i \in DOMAIN ranged.units /\ ranged.units[i] \in Nat
      <4>1. i \in DOMAIN ranged.units
        BY <1>1, <2>1 DEF DoneIsThere
      <4> QED
        BY <1>3, <4>1
    <3>2. CASE plan.oid = 0
      BY <1>1, <2>1, <2>2, <3>2 DEF DoneIsThere, Tame
    <3>3. CASE plan.oid = remote
      <4>1. remote <= ranged.units[i] /\ ranged.units[i] <= remote
        BY <2>1, <3>3 DEF QuietInv, DiskIsOlder
      <4> QED
        BY <1>2, <3>1, <4>1
    <3> QED
      BY <2>5, <3>2, <3>3
  <2>7. Len(ranged.units) = Fetch!Size(remote)
        /\ \A i \in 1 .. Len(ranged.units) : ranged.units[i] = remote
    BY <2>3, <2>4, <2>6
  <2> DEFINE u == ranged.units
  <2>8. u \in Seq(Nat) /\ Len(u) = Fetch!Size(remote) /\ \A i \in 1 .. Len(u) : u[i] = remote
    BY <1>3, <2>7
  <2>9. Fetch!Assembly = u
    BY <1>5 DEF Fetch!Assembly
  <2> HIDE DEF u
  <2> QED
    BY <2>8, <2>9, AllOf
<1> QED
  BY <1>1, <1>4, <1>5

LEMMA CommitStaysQuiet ==
  ASSUME FetchInv, QuietInv, object' = object, remote' = remote,
         strayed' = (strayed \/ Fetch!Strays), Fetch!Commit
  PROVE  QuietInv'
<1>1. DOMAIN run = RunFields /\ AgainIsFresh
  BY DEF FetchInv, FetchTypes, RunIsKnown, IsKnownRun, QuietInv
<1>2. /\ run.at = "commit" /\ run' = [run EXCEPT !.at = "unmeta"] /\ plan' = plan
      /\ ranged' = ranged \/ ranged' = Fetch!NoFile
  BY DEF Fetch!Commit, Fetch!At
<1>3. SameAims(run') /\ SameProbe(run') /\ run'.at = "unmeta"
  BY <1>1, <1>2 DEF RunFields, SameAims, SameProbe
<1>4. DiskTurns /\ StreamIsNew' /\ ~Gathering' /\ ~Probed'
  BY <1>2, <1>3 DEF DiskTurns, StreamIsNew, Gathering, Probed
<1>5. ASSUME Tame, Undisturbed, QuietRun PROVE BlobIsThere'
  <2>1. Fetch!Assembly = Fetch!Whole(remote)
    BY <1>2, <1>5, AssemblyIsNew
  <2>2. run.want \in {0, remote}
    BY <1>5 DEF QuietRun, RunIsWell, Fetch!Oid, Fetch!None
  <2>3. Fetch!Verified
    BY <2>1, <2>2 DEF Fetch!Verified, Fetch!None
  <2> DEFINE b == [name |-> Fetch!Assembly, bytes |-> Fetch!Assembly,
                   durable |-> run.tmp = "ranged", verified |-> run.want # Fetch!None]
  <2>4. b \in blobs'
    BY <2>3 DEF Fetch!Commit
  <2>5. b.name = Fetch!Whole(remote)
    BY <2>1
  <2>6. Fetch!Whole(remote)' = Fetch!Whole(remote)
    BY DEF Fetch!Whole, Fetch!Size
  <2> HIDE DEF b
  <2> QED
    BY <2>4, <2>5, <2>6 DEF BlobIsThere
<1>6. QuietTurn
  BY <1>1, <1>2, <1>3, <1>4, <1>5 DEF QuietTurn, AgainIsFresh, SameProbe
<1> QED
  BY <1>6, TurnStaysQuiet

LEMMA SavePlanStaysQuiet ==
  ASSUME FetchInv, QuietInv, object' = object, remote' = remote,
         strayed' = (strayed \/ Fetch!Strays), Fetch!SavePlan
  PROVE  QuietInv'
<1>1. /\ object \in Objects /\ remote \in Versions /\ DOMAIN run = RunFields
      /\ plan \in PlanRecords /\ run.probe \in PlanRecords /\ run.probe.done = {}
      /\ run.resume \in BOOLEAN /\ strayed \in BOOLEAN /\ AgainIsFresh /\ OnePartial /\ PlanIsAgreed
      /\ ranged.units \in Seq(Versions \cup {0}) /\ run.want \in Versions \cup {0}
      /\ FileFits
  BY DEF FetchInv, FetchTypes, RunIsKnown, IsKnownRun, DiskIsKnown, QuietInv
<1>2. /\ run.at = "save" /\ run' = [run EXCEPT !.at = "fetch", !.cursor = 1]
      /\ plan' = Fetch!Agreed /\ ranged' = ranged
  BY DEF Fetch!SavePlan, Fetch!At
<1>3. PICK crew \in SUBSET (Conns \ {1}) :
        worker' = [w \in Conns |-> IF w \in crew \cup {1} THEN [Fetch!Off EXCEPT !.at = "claim"]
                                   ELSE Fetch!Off]
  BY DEF Fetch!SavePlan
<1>4. SameAims(run') /\ SameProbe(run') /\ run'.at = "fetch" /\ run'.cursor = 1
  BY <1>1, <1>2 DEF RunFields, SameAims, SameProbe
<1>5. /\ run.resume =>
           plan'.size = plan.size /\ plan'.done = plan.done
           /\ plan'.oid = (IF plan.oid = 0 THEN run.want ELSE plan.oid)
      /\ ~run.resume => plan'.size = run.probe.size /\ plan'.done = {} /\ plan'.oid = run.want
      /\ plan'.validator = run.probe.validator
  BY <1>1, <1>2 DEF Fetch!Agreed, Fetch!None, PlanRecords
<1>6. Probed /\ Probed' /\ Gathering'
  BY <1>2, <1>4 DEF Probed, Gathering
<1>7. FileFits'
  <2>1. CASE run.resume
    BY <1>1, <1>2, <1>5, <2>1 DEF FileFits
  <2>2. CASE ~run.resume
    <3>1. plan.size = 0 /\ plan'.size \in Nat
      BY <1>1, <1>2, <1>5, <2>2, FixedAreKnown DEF OnePartial, Ranging, PlanRecords
    <3> DEFINE n == Len(ranged.units)  m == plan'.size
    <3>2. n \in Nat /\ m \in Nat /\ n <= 0
      BY <1>1, <3>1 DEF FileFits
    <3> HIDE DEF n, m
    <3>3. n <= m
      BY <3>2
    <3> QED
      BY <1>1, <1>2, <3>3 DEF FileFits, n, m
  <2> QED
    BY <2>1, <2>2
<1>8. AgainIsFresh'
  BY <1>1, <1>4 DEF AgainIsFresh, SameProbe
<1>9. Tame' => Tame
  BY <1>1 DEF Tame
<1>10. ASSUME Tame PROVE plan'.oid = run.want /\ (run.resume => plan'.oid = plan.oid)
  BY <1>1, <1>2, <1>5, <1>10 DEF QuietInv, OidsAgree
<1>11. ASSUME Tame' PROVE OidsAgree' /\ RunIsOlder' /\ DiskIsOlder'
  <2>1. Tame /\ RunIsOlder /\ DiskIsOlder
    BY <1>9, <1>11 DEF QuietInv
  <2>2. OidsAgree'
    BY <1>4, <1>10, <2>1 DEF OidsAgree, SameAims
  <2>3. RunIsOlder'
    BY <1>4, <1>6, <2>1 DEF RunIsOlder, SameAims, SameProbe
  <2>4. plan'.oid <= plan'.validator /\ plan'.validator <= remote
    BY <1>5, <1>6, <1>10, <2>1 DEF RunIsOlder
  <2>5. ranged.there =>
          \A i \in plan'.done : plan'.oid <= ranged.units[i] /\ ranged.units[i] <= remote
    BY <1>1, <1>5, <1>10, <2>1 DEF DiskIsOlder
  <2> QED
    BY <1>2, <2>2, <2>3, <2>4, <2>5 DEF DiskIsOlder
<1>12. CrewIsWell'
  <2>1. \A w \in Conns : worker'[w].at \in {"off", "claim"}
    BY <1>1, <1>3, FixedAreKnown, OffFields
  <2>2. worker'[1].at = "claim" /\ worker'[1] # Fetch!Off
    BY <1>1, <1>3, OwnConn, FixedAreKnown, OffFields
  <2>3. plan'.size \in Nat
    BY <1>1, <1>5 DEF PlanRecords
  <2>4. \A i \in 1 .. plan'.size : ~(i < run'.cursor)
    BY <1>4, <2>3
  <2>5. \E w \in Conns : worker'[w] # Fetch!Off
    BY <2>2, OwnConn
  <2> QED
    BY <2>1, <2>4, <2>5 DEF CrewIsWell
<1>13. ASSUME Tame', Undisturbed' PROVE QuietRun'
  <2>1. Tame /\ Undisturbed /\ QuietRun
    BY <1>2, <1>4, <1>9, <1>13 DEF Undisturbed, SameAims, QuietInv
  <2>2. RunIsWell'
    BY <1>4, <1>5, <1>6, <2>1 DEF QuietRun, RunIsWell, SameAims, SameProbe, Fetch!Oid
  <2>3. StreamIsNew' /\ BlobIsThere'
    BY <1>4 DEF StreamIsNew, BlobIsThere
  <2> QED
    BY <1>12, <2>2, <2>3 DEF QuietRun
<1> QED
  BY <1>7, <1>8, <1>11, <1>13 DEF QuietInv

-----------------------------------------------------------------------------
LEMMA StartStaysQuiet ==
  ASSUME FetchInv, QuietInv, object' = object, remote' = remote, strayed' = strayed, Fetch!Start
  PROVE  QuietInv'
<1>1. object \in Objects /\ remote \in Versions /\ remote \in Nat
  BY ObjectFacts DEF FetchInv, FetchTypes
<1>2. ranged' = ranged /\ plan' = plan
  BY DEF Fetch!Start, Fetch!disk
<1>3. PICK quiet \in BOOLEAN, want \in {0, Fetch!Oid(remote)} :
        /\ quiet => want = Fetch!Oid(remote)
        /\ run' = [Fetch!Idle EXCEPT !.at = "choose", !.want = want, !.quiet = quiet]
  BY DEF Fetch!Start, Fetch!None
<1>4. /\ run'.at = "choose" /\ run'.want = want /\ run'.quiet = quiet /\ run'.again = FALSE
      /\ run'.resume = FALSE /\ run'.signal = FALSE /\ run'.stop = FALSE /\ run'.err = "none"
  BY <1>3, FixedRecords DEF RunFields
<1>5. FileFits' /\ AgainIsFresh'
  BY <1>2, <1>4 DEF QuietInv, FileFits, AgainIsFresh
<1>6. ~Probed' /\ ~Gathering'
  BY <1>4 DEF Probed, Gathering
<1>7. want <= remote
  BY <1>1, <1>3 DEF Fetch!Oid, Fetch!None
<1>8. Tame' => OidsAgree' /\ RunIsOlder' /\ DiskIsOlder'
  BY <1>2, <1>4, <1>6, <1>7 DEF QuietInv, Tame, OidsAgree, RunIsOlder, DiskIsOlder
<1>9. Undisturbed' => QuietRun'
  BY <1>3, <1>4, <1>6
     DEF Undisturbed, QuietRun, RunIsWell, StreamIsNew, BlobIsThere, Fetch!Oid
<1> QED
  BY <1>5, <1>8, <1>9 DEF QuietInv

(* A signal, or a new version, disturbs the run it finds.                        *)
LEMMA DisturbedStaysQuiet ==
  ASSUME FetchInv, QuietInv, object' = object, strayed' = strayed,
         plan' = plan, ranged' = ranged, SameRun, run'.again = run.again,
         remote' \in {remote, remote + 1}, ~Undisturbed'
  PROVE  QuietInv'
<1>1. /\ object \in Objects /\ remote \in Nat /\ Versions \cup {0} \subseteq Nat
      /\ plan \in PlanRecords /\ run.want \in Versions \cup {0} /\ run.probe \in PlanRecords
      /\ ranged.units \in Seq(Versions \cup {0}) /\ DoneIsThere
  BY ObjectFacts DEF FetchInv, FetchTypes, RunIsKnown, IsKnownRun, DiskIsKnown
<1>2. FileFits' /\ AgainIsFresh'
  BY DEF QuietInv, FileFits, AgainIsFresh, SameRun
<1>3. remote <= remote' /\ remote' \in Nat
  BY <1>1
<1>4. /\ run.want \in Nat /\ run.probe.validator \in Nat /\ plan.validator \in Nat
      /\ (Probed' <=> Probed) /\ (Gathering' <=> Gathering)
  BY <1>1 DEF PlanRecords, Probed, Gathering, SameRun
<1>5. ASSUME Tame' PROVE OidsAgree' /\ RunIsOlder' /\ DiskIsOlder'
  <2>1. OidsAgree /\ RunIsOlder /\ DiskIsOlder
    BY <1>5 DEF Tame, QuietInv
  <2>2. OidsAgree'
    BY <1>4, <2>1 DEF OidsAgree, SameRun
  <2>3. RunIsOlder'
    BY <1>1, <1>3, <1>4, <2>1 DEF RunIsOlder, SameRun
  <2>4. plan # Fetch!NoPlan => plan.oid <= plan.validator /\ plan.validator <= remote'
    BY <1>1, <1>3, <1>4, <2>1 DEF DiskIsOlder
  <2>5. ASSUME ranged.there, NEW i \in plan.done
        PROVE  plan.oid <= ranged.units[i] /\ ranged.units[i] <= remote'
    <3>1. i \in DOMAIN ranged.units
      BY <1>1, <2>5 DEF DoneIsThere
    <3>2. ranged.units[i] \in Nat
      BY <1>1, <3>1
    <3>3. plan.oid <= ranged.units[i] /\ ranged.units[i] <= remote
      BY <2>1, <2>5 DEF DiskIsOlder
    <3> QED
      BY <1>1, <1>3, <3>2, <3>3
  <2>6. DiskIsOlder'
    BY <2>4, <2>5 DEF DiskIsOlder
  <2> QED
    BY <2>2, <2>3, <2>6
<1> QED
  BY <1>2, <1>5 DEF QuietInv

LEMMA FlagsStayQuiet ==
  ASSUME FetchInv, QuietInv, object' = object,
         \/ Fetch!Replaced
         \/ Fetch!Signal /\ remote' = remote /\ strayed' = (strayed \/ Fetch!Strays)
  PROVE  QuietInv'
<1>1. DOMAIN run = RunFields /\ strayed \in BOOLEAN /\ run.quiet \in BOOLEAN
  BY DEF FetchInv, FetchTypes, RunIsKnown, IsKnownRun
<1>2. CASE Fetch!Replaced
  <2>1. /\ run' = [run EXCEPT !.quiet = (run.at = "idle")] /\ remote' = remote + 1
        /\ UNCHANGED Fetch!disk /\ strayed' = strayed
    BY <1>2 DEF Fetch!Replaced, Fetch!At
  <2>2. SameRun /\ run'.again = run.again /\ run'.quiet = (run.at = "idle")
    BY <1>1, <2>1 DEF SameRun, RunFields
  <2>3. ~Undisturbed'
    BY <2>2 DEF Undisturbed, SameRun
  <2> QED
    BY <2>1, <2>2, <2>3, DisturbedStaysQuiet DEF Fetch!disk
<1>3. CASE Fetch!Signal /\ remote' = remote /\ strayed' = (strayed \/ Fetch!Strays)
  <2>1. /\ run' = [run EXCEPT !.signal = TRUE] /\ run.at = "fetch" /\ ~run.quiet
        /\ UNCHANGED Fetch!disk /\ strayed' = strayed
    BY <1>1, <1>3 DEF Fetch!Signal, Fetch!At, Fetch!Strays
  <2>2. SameRun /\ run'.again = run.again /\ run'.quiet = run.quiet
    BY <1>1, <2>1 DEF SameRun, RunFields
  <2>3. ~Undisturbed'
    BY <1>1, <2>1, <2>2 DEF Undisturbed
  <2> QED
    BY <1>3, <2>1, <2>2, <2>3, DisturbedStaysQuiet DEF Fetch!disk
<1> QED
  BY <1>2, <1>3

LEMMA CrashStaysQuiet ==
  ASSUME FetchInv, QuietInv, object' = object, Fetch!Killed \/ Fetch!PowerLost
  PROVE  QuietInv'
<1>1. object \in Objects /\ strayed \in BOOLEAN
  BY DEF FetchInv, FetchTypes
<1>2. CASE Fetch!Killed
  <2>1. /\ run' = Fetch!Idle /\ remote' = remote /\ (strayed => strayed') /\ plan' = plan
        /\ ranged' = ranged
    BY <1>2 DEF Fetch!Killed, Fetch!disk
  <2> QED
    BY <2>1, EndStaysQuiet DEF DiskTurns
<1>3. CASE Fetch!PowerLost
  <2>1. PICK u \in Fetch!Survivors(ranged.units, synced) : ranged' = [ranged EXCEPT !.units = u]
    BY <1>3 DEF Fetch!PowerLost
  <2>2. /\ run' = Fetch!Idle /\ plan' = plan /\ object.power = TRUE
    BY <1>1, <1>3, ObjectFacts DEF Fetch!PowerLost
  <2>3. ranged \in [there : BOOLEAN, units : Seq(Versions \cup {0})]
    BY DEF FetchInv, FetchTypes, DiskIsKnown
  <2> DEFINE v == ranged.units
  <2>4. v \in Seq(Versions \cup {0}) /\ u \in Fetch!Survivors(v, synced)
    BY <2>1, <2>3
  <2>5. u \in Seq(Versions \cup {0}) /\ DOMAIN u = DOMAIN v
    <3> HIDE DEF v
    <3> QED
      BY <2>4, SurvivorFacts
  <2>6. Len(u) = Len(v) /\ (v = << >> => u = << >>)
    BY <2>4, <2>5
  <2>7. ranged'.units = u /\ ranged'.there = ranged.there
    BY <2>1, <2>3
  <2>8. FileFits'
    BY <2>2, <2>6, <2>7 DEF QuietInv, FileFits
  <2>9. AgainIsFresh' /\ ~Tame'
    BY <2>2, FixedRecords DEF AgainIsFresh, Tame
  <2> QED
    BY <2>8, <2>9 DEF QuietInv
<1> QED
  BY <1>2, <1>3

-----------------------------------------------------------------------------
(* What a step of a worker leaves to a quiet run.                               *)
QuietWork ==
  /\ run.at = "fetch" /\ SameRun /\ run'.again = run.again /\ run'.quiet = run.quiet
  /\ plan'.oid = plan.oid /\ plan'.validator = plan.validator /\ FileFits'
  /\ Tame => DiskIsOlder'
  /\ Tame /\ Undisturbed /\ QuietRun => SameAims(run') /\ CrewIsWell'

LEMMA WorkStaysQuiet ==
  ASSUME FetchInv, QuietInv, object' = object, remote' = remote, strayed' = strayed, QuietWork
  PROVE  QuietInv'
<1>1. FileFits' /\ AgainIsFresh'
  BY DEF QuietWork, QuietInv, AgainIsFresh, SameRun
<1>2. (Tame' <=> Tame) /\ (Undisturbed' <=> Undisturbed)
  BY DEF QuietWork, Tame, Undisturbed, SameRun
<1>3. run'.at = "fetch" /\ (Probed' <=> Probed) /\ (Gathering' <=> Gathering)
  BY DEF QuietWork, SameRun, Probed, Gathering
<1>4. ASSUME Tame PROVE OidsAgree' /\ RunIsOlder' /\ DiskIsOlder'
  <2>1. OidsAgree /\ RunIsOlder
    BY <1>4 DEF QuietInv
  <2>2. OidsAgree'
    BY <1>3, <2>1 DEF QuietWork, OidsAgree, SameRun
  <2>3. RunIsOlder'
    BY <1>3, <2>1 DEF QuietWork, RunIsOlder, SameRun
  <2> QED
    BY <1>4, <2>2, <2>3 DEF QuietWork
<1>5. ASSUME Tame, Undisturbed PROVE QuietRun'
  <2>1. QuietRun
    BY <1>5 DEF QuietInv
  <2>2. SameAims(run') /\ CrewIsWell'
    BY <1>5, <2>1 DEF QuietWork
  <2>3. RunIsWell'
    BY <1>3, <2>1, <2>2 DEF QuietWork, QuietRun, RunIsWell, SameAims, SameRun, Fetch!Oid
  <2>4. StreamIsNew' /\ BlobIsThere'
    BY <1>3 DEF StreamIsNew, BlobIsThere
  <2> QED
    BY <2>2, <2>3, <2>4 DEF QuietRun
<1> QED
  BY <1>1, <1>2, <1>4, <1>5 DEF QuietInv

(* One worker moves on, and what the others hold they hold.                       *)
LEMMA OneStaysWell ==
  ASSUME CrewIsWell, worker \in [Conns -> WorkerRecords], NEW w \in Conns, NEW r,
         worker' = [worker EXCEPT ![w] = r], run'.cursor = run.cursor, plan'.size = plan.size,
         plan.done \subseteq plan'.done, r.at \notin {"fault", "file"},
         worker[w].at \in Holding =>
           (r.at \in Holding /\ r.cell = worker[w].cell) \/ worker[w].cell \in plan'.done,
         r # Fetch!Off \/ run.cursor > plan.size
  PROVE  CrewIsWell'
<1>1. worker'[w] = r /\ \A v \in Conns \ {w} : worker'[v] = worker[v]
  OBVIOUS
<1>2. \A v \in Conns : worker'[v].at \notin {"fault", "file"}
  BY <1>1 DEF CrewIsWell
<1>3. ASSUME NEW i \in 1 .. plan.size, i < run.cursor
      PROVE  i \in plan'.done \/ \E v \in Conns : worker'[v].at \in Holding /\ worker'[v].cell = i
  <2>1. CASE i \in plan.done
    BY <2>1
  <2>2. CASE \E v \in Conns : worker[v].at \in Holding /\ worker[v].cell = i
    BY <1>1, <2>2
  <2> QED
    BY <1>3, <2>1, <2>2 DEF CrewIsWell
<1>4. run'.cursor > plan'.size \/ \E v \in Conns : worker'[v] # Fetch!Off
  <2>1. CASE r # Fetch!Off
    BY <1>1, <2>1
  <2>2. CASE run.cursor > plan.size
    BY <2>2
  <2> QED
    BY <2>1, <2>2
<1> QED
  BY <1>2, <1>3, <1>4 DEF CrewIsWell

LEMMA WorkersTurnStaysQuiet ==
  ASSUME FetchInv, QuietInv, object' = object, remote' = remote,
         strayed' = (strayed \/ Fetch!Strays), NEW w \in Conns,
         \/ Fetch!Leave(w) \/ Fetch!RequestFails(w) \/ Fetch!Request(w)
         \/ Fetch!RaiseStop(w) \/ Fetch!FileError(w)
  PROVE  QuietInv'
<1>1. /\ object \in Objects /\ remote \in Versions /\ remote \in Nat \ {0}
      /\ FetchTypes /\ DOMAIN run = RunFields
      /\ strayed \in BOOLEAN /\ worker \in [Conns -> WorkerRecords] /\ WorkersHold /\ PlanIsAgreed
      /\ plan \in PlanRecords /\ run.quiet \in BOOLEAN
  BY ObjectFacts DEF FetchInv, FetchTypes, RunIsKnown, IsKnownRun, CrewIsKnown, DiskIsKnown
<1>2. worker[w].at # "off"
  BY DEF Fetch!Leave, Fetch!RequestFails, Fetch!Request, Fetch!RaiseStop, Fetch!FileError
<1>3. run.at = "fetch" /\ worker[w] \in WorkerRecords
  BY <1>1, <1>2, WorkerIsAt
<1>4. strayed' = strayed
  BY <1>1, <1>3 DEF Fetch!Strays, Fetch!At
<1>5. ranged' = ranged /\ plan' = plan
  BY DEF Fetch!Leave, Fetch!RequestFails, Fetch!Request, Fetch!RaiseStop, Fetch!FileError, Fetch!disk
<1>6. /\ SameRun /\ run'.again = run.again /\ run'.quiet = run.quiet /\ run'.cursor = run.cursor
      /\ (run' = run => SameAims(run'))
  <2>1. \/ run' = run \/ run' = [run EXCEPT !.stop = TRUE]
        \/ run' = [run EXCEPT !.err = IF run.err = "none" THEN worker[w].fault ELSE run.err]
    BY DEF Fetch!Leave, Fetch!RequestFails, Fetch!Request, Fetch!RaiseStop, Fetch!FileError
  <2> QED
    BY <1>1, <2>1 DEF SameRun, SameAims, RunFields
<1>7. FileFits' /\ (Tame => DiskIsOlder')
  BY <1>5 DEF QuietInv, FileFits, DiskIsOlder
<1>8. ASSUME Tame /\ Undisturbed /\ QuietRun => run' = run /\ CrewIsWell'
      PROVE  QuietInv'
  <2>1. QuietWork
    BY <1>3, <1>5, <1>6, <1>7, <1>8 DEF QuietWork
  <2> QED
    BY <1>4, <2>1, WorkStaysQuiet
<1>9. QuietRun => RunIsWell /\ CrewIsWell
  BY <1>3 DEF QuietRun
<1>10. CASE Fetch!RequestFails(w) \/ Fetch!RaiseStop(w) \/ Fetch!FileError(w)
  <2>1. ~(Undisturbed /\ QuietRun)
    BY <1>9, <1>10
       DEF Fetch!RequestFails, Fetch!RaiseStop, Fetch!FileError, Undisturbed, CrewIsWell
  <2> QED
    BY <1>8, <2>1
<1>11. CASE Fetch!Leave(w)
  <2>1. /\ worker[w].at = "claim" /\ run' = run /\ worker' = [worker EXCEPT ![w] = Fetch!Off]
        /\ run.stop \/ run.signal \/ run.cursor > plan.size
    BY <1>11 DEF Fetch!Leave, Fetch!Stays
  <2>2. RunIsWell => run.cursor > plan.size
    BY <2>1 DEF RunIsWell
  <2>3. Fetch!Off.at = "off"
    BY OffFields
  <2>4. ASSUME QuietRun PROVE CrewIsWell'
    BY <1>1, <1>5, <1>9, <2>1, <2>2, <2>3, <2>4, OneStaysWell DEF Holding
  <2> QED
    BY <1>8, <2>1, <2>4
<1>12. CASE Fetch!Request(w)
  <2>1. worker[w].at = "get" /\ run' = run
    BY <1>12 DEF Fetch!Request
  <2>2. ASSUME Tame, QuietRun PROVE CrewIsWell'
    <3>1. /\ plan.validator = remote /\ object.ranges = TRUE /\ plan.size = object.sizes[remote]
          /\ object.etag = TRUE
      BY <1>1, <1>3, <1>9, <2>2 DEF RunIsWell, Gathering, Probed, PlanIsAgreed, Tame
    <3>2. Fetch!Size(remote) = object.sizes[remote] /\ Fetch!Validator(remote) = remote
      BY <1>1, <3>1, VersionFacts
    <3>3. ~Fetch!WholeInstead(plan.validator)
      BY <3>1, <3>2 DEF Fetch!WholeInstead
    <3>4. worker[w].cell <= plan.size
      BY <1>1, <2>1 DEF WorkersHold, Holds, Holding
    <3>5. worker[w].cell \in Nat /\ plan.size \in Nat
      BY <1>1, <1>3 DEF WorkerRecords, PlanRecords
    <3>6. ~(worker[w].cell > Fetch!Size(remote)) /\ Fetch!Size(remote) = plan.size
      BY <3>1, <3>2, <3>4, <3>5
    <3> DEFINE r == [worker[w] EXCEPT !.at = "body", !.got = remote]
    <3>7. worker' = [worker EXCEPT ![w] = r]
      BY <1>12, <3>3, <3>6 DEF Fetch!Request, Fetch!Stays
    <3>8. r.at = "body" /\ r.cell = worker[w].cell /\ r # Fetch!Off
      BY <1>3, OffFields DEF WorkerRecords
    <3> HIDE DEF r
    <3> QED
      BY <1>1, <1>5, <1>6, <1>9, <2>1, <2>2, <3>7, <3>8, OneStaysWell DEF Holding
  <2> QED
    BY <1>8, <2>1, <2>2
<1> QED
  BY <1>10, <1>11, <1>12

LEMMA ClaimStaysQuiet ==
  ASSUME FetchInv, QuietInv, object' = object, remote' = remote,
         strayed' = (strayed \/ Fetch!Strays), NEW w \in Conns, Fetch!Claim(w)
  PROVE  QuietInv'
<1>1. /\ object \in Objects /\ FetchTypes /\ DOMAIN run = RunFields
      /\ strayed \in BOOLEAN /\ worker \in [Conns -> WorkerRecords]
      /\ plan \in PlanRecords /\ run.cursor \in Nat
  BY DEF FetchInv, FetchTypes, RunIsKnown, IsKnownRun, CrewIsKnown, DiskIsKnown
<1>2. run.at = "fetch" /\ worker[w].at = "claim" /\ ranged' = ranged /\ plan' = plan
      /\ run' = [run EXCEPT !.cursor = run.cursor + 1]
  BY DEF Fetch!Claim, Fetch!At, Fetch!disk
<1>3. strayed' = strayed
  BY <1>1, <1>2 DEF Fetch!Strays, Fetch!At
<1>4. /\ SameRun /\ SameAims(run') /\ run'.again = run.again /\ run'.quiet = run.quiet
      /\ run'.cursor = run.cursor + 1
  BY <1>1, <1>2 DEF SameRun, SameAims, RunFields
<1>5. FileFits' /\ (Tame => DiskIsOlder')
  BY <1>2 DEF QuietInv, FileFits, DiskIsOlder
<1> DEFINE got == [Fetch!Off EXCEPT !.at = "get", !.cell = run.cursor]
           off == [Fetch!Off EXCEPT !.at = "claim"]
           mine == IF run.cursor \in plan.done THEN worker[w] ELSE got
<1>6. /\ got.at = "get" /\ got.cell = run.cursor /\ off.at = "claim"
  BY OffFields
<1>7. \/ worker' = [worker EXCEPT ![w] = mine]
      \/ \E v \in Conns : worker[v] = Fetch!Off
                          /\ worker' = [worker EXCEPT ![w] = mine, ![v] = off]
  BY DEF Fetch!Claim, Fetch!Stays
<1>8. /\ mine.at \in {"claim", "get"} /\ (run.cursor \notin plan.done => mine = got)
  BY <1>2, <1>6
<1> HIDE DEF got, off, mine
<1>9. /\ worker'[w] = mine
      /\ \A u \in Conns \ {w} :
           worker'[u] = worker[u] \/ (worker[u] = Fetch!Off /\ worker'[u] = off)
  <2>1. worker[w] # Fetch!Off
    BY <1>2, OffFields
  <2> QED
    BY <1>1, <1>7, <2>1
<1>10. ASSUME CrewIsWell PROVE CrewIsWell'
  <2>1. \A u \in Conns : worker'[u].at \notin {"fault", "file"}
    BY <1>6, <1>8, <1>9, <1>10 DEF CrewIsWell
  <2>2. ASSUME NEW i \in 1 .. plan.size, i < run.cursor + 1
        PROVE  i \in plan.done \/ \E u \in Conns : worker'[u].at \in Holding /\ worker'[u].cell = i
    <3>1. CASE i = run.cursor
      BY <1>6, <1>8, <1>9, <3>1 DEF Holding
    <3>2. CASE i # run.cursor
      <4>1. i < run.cursor
        BY <1>1, <2>2, <3>2 DEF PlanRecords
      <4>2. i \in plan.done \/ \E u \in Conns : worker[u].at \in Holding /\ worker[u].cell = i
        BY <1>10, <4>1 DEF CrewIsWell
      <4> QED
        BY <1>2, <1>9, <4>2, OffFields DEF Holding
    <3> QED
      BY <3>1, <3>2
  <2>3. worker'[w] # Fetch!Off
    BY <1>8, <1>9, OffFields
  <2> QED
    BY <1>2, <1>4, <2>1, <2>2, <2>3 DEF CrewIsWell
<1>11. QuietWork
  BY <1>2, <1>4, <1>5, <1>10 DEF QuietWork, QuietRun
<1> QED
  BY <1>3, <1>11, WorkStaysQuiet

(* A cell written leaves a file that fits the plan.                              *)
LEMMA PaddedFits ==
  ASSUME NEW S, 0 \in S, NEW u \in Seq(S), NEW n \in Nat, Len(u) <= n, NEW i \in Nat \ {0}, i <= n,
         NEW x \in S
  PROVE  Len([Fetch!Padded(u, i) EXCEPT ![i] = x]) <= n
<1> DEFINE q == Fetch!Padded(u, i)
<1>1. q \in Seq(S) /\ Len(q) <= n
  <2>1. CASE Len(u) < i
    <3> DEFINE z == [j \in 1 .. i - Len(u) |-> 0]
    <3>1. i - Len(u) \in Nat /\ Len(u) \in Nat
      BY <2>1
    <3>2. z \in Seq(S) /\ Len(z) = i - Len(u)
      BY <3>1
    <3>3. q = u \o z
      BY <2>1 DEF Fetch!Padded, Fetch!Lost
    <3> HIDE DEF z, q
    <3>4. q \in Seq(S) /\ Len(q) = Len(u) + Len(z)
      BY <3>2, <3>3
    <3> QED
      BY <3>1, <3>2, <3>4
  <2>2. CASE ~(Len(u) < i)
    BY <2>2 DEF Fetch!Padded
  <2> QED
    BY <2>1, <2>2
<1> HIDE DEF q
<1>2. Len([q EXCEPT ![i] = x]) = Len(q)
  BY <1>1
<1> QED
  BY <1>1, <1>2 DEF q

LEMMA WorkersWriteStaysQuiet ==
  ASSUME FetchInv, QuietInv, object' = object, remote' = remote,
         strayed' = (strayed \/ Fetch!Strays), NEW w \in Conns,
         Fetch!Body(w) \/ Fetch!BodyFails(w) \/ Fetch!Sync(w) \/ Fetch!Mark(w)
  PROVE  QuietInv'
<1>1. /\ object \in Objects /\ Versions \cup {0} \subseteq Nat /\ remote \in Nat
      /\ FetchTypes /\ strayed \in BOOLEAN /\ worker \in [Conns -> WorkerRecords]
      /\ plan \in PlanRecords /\ ranged \in [there : BOOLEAN, units : Seq(Versions \cup {0})]
      /\ WorkersHold /\ OnePartial /\ DoneIsThere
  BY ObjectFacts DEF FetchInv, FetchTypes, CrewIsKnown, DiskIsKnown
<1>2. worker[w].at \in {"body", "sync", "mark"}
  BY DEF Fetch!Body, Fetch!BodyFails, Fetch!Sync, Fetch!Mark
<1>3. run.at = "fetch" /\ worker[w] \in WorkerRecords /\ ranged.there
  BY <1>1, <1>2, WorkerIsAt DEF OnePartial, Gathering
<1>4. strayed' = strayed
  BY <1>1, <1>3 DEF Fetch!Strays, Fetch!At
<1>5. run' = run
  BY DEF Fetch!Body, Fetch!BodyFails, Fetch!Sync, Fetch!Mark
<1>6. SameRun /\ run'.again = run.again /\ run'.quiet = run.quiet /\ SameAims(run')
      /\ run'.cursor = run.cursor
  BY <1>5 DEF SameRun, SameAims
<1>7. QuietRun => CrewIsWell
  BY <1>3 DEF QuietRun
<1> DEFINE i == worker[w].cell  x == worker[w].got
<1>8. i \in 1 .. plan.size /\ i \notin plan.done /\ x # 0 /\ (object.etag => x = plan.validator)
  <2>1. /\ i \in 1 .. run.cursor - 1 /\ i <= plan.size
        /\ i \notin plan.done /\ x # 0 /\ (object.etag => x = plan.validator)
    BY <1>1, <1>2 DEF WorkersHold, Holds, Holding
  <2>2. i \in Nat /\ plan.size \in Nat /\ run.cursor \in Nat
    BY <1>1, <1>3 DEF WorkerRecords, PlanRecords, FetchTypes, RunIsKnown, IsKnownRun
  <2> HIDE DEF i, x
  <2> QED
    BY <2>1, <2>2
<1>9. CASE Fetch!Body(w) \/ Fetch!BodyFails(w)
  <2>1. PICK y \in Versions \cup {0} : Fetch!Writes(i, y)
    BY <1>3, <1>9 DEF Fetch!Body, Fetch!BodyFails, Fetch!Lost, WorkerRecords
  <2>2. plan' = plan
    BY <1>9 DEF Fetch!Body, Fetch!BodyFails
  <2> DEFINE u == ranged.units  p == [Fetch!Padded(u, i) EXCEPT ![i] = y]
  <2>3. ranged'.there = TRUE /\ ranged'.units = p
    BY <1>1, <1>3, <2>1 DEF Fetch!Writes
  <2>4. u \in Seq(Versions \cup {0}) /\ Len(u) <= plan.size /\ plan.size \in Nat /\ i \in Nat \ {0}
        /\ i <= plan.size
    BY <1>1, <1>8 DEF QuietInv, FileFits, PlanRecords
  <2> HIDE DEF u, i
  <2>5. \A j \in DOMAIN u \ {i} : p[j] = u[j]
    BY <2>4, PaddedFacts
  <2>6. Len(p) <= plan.size
    BY <2>4, PaddedFits
  <2> HIDE DEF p
  <2>7. FileFits'
    BY <2>2, <2>3, <2>6 DEF FileFits
  <2>8. \A j \in plan.done : j \in DOMAIN u /\ j # i
    BY <1>1, <1>3, <1>8 DEF DoneIsThere, u
  <2>9. ASSUME Tame PROVE DiskIsOlder'
    <3>1. DiskIsOlder
      BY <2>9 DEF QuietInv
    <3>2. \A j \in plan.done : ranged'.units[j] = ranged.units[j]
      BY <2>3, <2>5, <2>8 DEF u
    <3> QED
      BY <1>3, <2>2, <2>3, <3>1, <3>2 DEF DiskIsOlder
  <2>10. CASE Fetch!BodyFails(w)
    <3>1. ~Undisturbed
      BY <2>10 DEF Fetch!BodyFails, Undisturbed
    <3>2. QuietWork
      BY <1>3, <1>6, <2>2, <2>7, <2>9, <3>1 DEF QuietWork
    <3> QED
      BY <1>4, <3>2, WorkStaysQuiet
  <2>11. CASE Fetch!Body(w)
    <3> DEFINE r == [worker[w] EXCEPT !.at = "sync"]
    <3>1. worker' = [worker EXCEPT ![w] = r]
      BY <2>11 DEF Fetch!Body, Fetch!Stays
    <3>2. r.at = "sync" /\ r.cell = worker[w].cell
      BY <1>3 DEF WorkerRecords
    <3>3. r # Fetch!Off
      BY <3>2, OffFields
    <3> HIDE DEF r
    <3>4. QuietRun => CrewIsWell'
      BY <1>1, <1>6, <1>7, <2>2, <3>1, <3>2, <3>3, OneStaysWell DEF Holding
    <3>5. QuietWork
      BY <1>3, <1>6, <2>2, <2>7, <2>9, <3>4 DEF QuietWork
    <3> QED
      BY <1>4, <3>5, WorkStaysQuiet
  <2> QED
    BY <1>9, <2>10, <2>11
<1>10. CASE Fetch!Sync(w)
  <2> DEFINE r == [worker[w] EXCEPT !.at = "mark"]
  <2>1. plan' = plan /\ ranged' = ranged /\ worker' = [worker EXCEPT ![w] = r]
    BY <1>10 DEF Fetch!Sync, Fetch!Stays
  <2>2. r.at = "mark" /\ r.cell = worker[w].cell
    BY <1>3 DEF WorkerRecords
  <2>3. r # Fetch!Off
    BY <2>2, OffFields
  <2> HIDE DEF r
  <2>4. QuietRun => CrewIsWell'
    BY <1>1, <1>6, <1>7, <2>1, <2>2, <2>3, OneStaysWell DEF Holding
  <2>5. FileFits' /\ (Tame => DiskIsOlder')
    BY <2>1 DEF QuietInv, FileFits, DiskIsOlder
  <2>6. QuietWork
    BY <1>3, <1>6, <2>1, <2>4, <2>5 DEF QuietWork
  <2> QED
    BY <1>4, <2>6, WorkStaysQuiet
<1>11. CASE Fetch!Mark(w)
  <2> DEFINE r == [Fetch!Off EXCEPT !.at = "claim"]
  <2>1. /\ worker[w].at = "mark" /\ ranged' = ranged /\ worker' = [worker EXCEPT ![w] = r]
        /\ plan' = [plan EXCEPT !.done = plan.done \cup {i}]
    BY <1>11 DEF Fetch!Mark, Fetch!Stays
  <2>2. r.at = "claim" /\ r # Fetch!Off
    BY OffFields
  <2> HIDE DEF r, i
  <2>3. /\ plan'.size = plan.size /\ plan'.oid = plan.oid /\ plan'.validator = plan.validator
        /\ plan'.done = plan.done \cup {i}
    BY <1>1, <2>1 DEF PlanRecords
  <2>4. i = worker[w].cell
    BY DEF i
  <2>5. QuietRun => CrewIsWell'
    BY <1>1, <1>6, <1>7, <2>1, <2>2, <2>3, <2>4, OneStaysWell DEF Holding
  <2>6. FileFits'
    BY <2>1, <2>3 DEF QuietInv, FileFits
  <2>7. ASSUME Tame PROVE DiskIsOlder'
    <3>1. DiskIsOlder
      BY <2>7 DEF QuietInv
    <3>2. plan # Fetch!NoPlan
      <4>1. plan.size # 0
        BY <1>1, <1>8 DEF PlanRecords
      <4> QED
        BY <1>1, <4>1, FixedAreKnown
    <3>3. plan.oid <= plan.validator /\ plan.validator <= remote
      BY <3>1, <3>2 DEF DiskIsOlder
    <3>4. ranged.units[i] = plan.validator
      BY <1>1, <1>8, <2>1, <2>7 DEF WorkersHold, Holds, Tame, i
    <3>5. \A j \in plan'.done : plan'.oid <= ranged'.units[j] /\ ranged'.units[j] <= remote
      BY <1>3, <2>1, <2>3, <3>1, <3>3, <3>4 DEF DiskIsOlder
    <3> QED
      BY <2>3, <3>3, <3>5 DEF DiskIsOlder
  <2>8. QuietWork
    BY <1>3, <1>6, <2>3, <2>5, <2>6, <2>7 DEF QuietWork
  <2> QED
    BY <1>4, <2>8, WorkStaysQuiet
<1> QED
  BY <1>9, <1>10, <1>11

-----------------------------------------------------------------------------
LEMMA QuietInvInit == Fetch!Init => QuietInv
<1> SUFFICES ASSUME Fetch!Init PROVE QuietInv
  OBVIOUS
<1>1. /\ object \in Objects /\ remote = 1 /\ ranged = Fetch!NoFile /\ plan = Fetch!NoPlan
      /\ run = Fetch!Idle
  BY DEF Fetch!Init
<1>2. /\ run.at = "idle" /\ run.want = 0 /\ run.again = FALSE /\ run.resume = FALSE
      /\ ranged.units = << >> /\ ~ranged.there /\ plan.size = 0
  BY <1>1, FixedRecords, FixedAreKnown
<1>3. FileFits /\ AgainIsFresh
  BY <1>2 DEF FileFits, AgainIsFresh
<1>4. OidsAgree /\ RunIsOlder /\ DiskIsOlder /\ ~Undisturbed
  BY <1>1, <1>2 DEF OidsAgree, RunIsOlder, DiskIsOlder, Undisturbed, Probed, Gathering
<1> QED
  BY <1>3, <1>4 DEF QuietInv

LEMMA QuietInvNext == FetchInv /\ QuietInv /\ [Fetch!Next]_Fetch!vars => QuietInv'
<1> SUFFICES ASSUME FetchInv, QuietInv, [Fetch!Next]_Fetch!vars PROVE QuietInv'
  OBVIOUS
<1>1. CASE UNCHANGED Fetch!vars
  <2>1. /\ object' = object /\ remote' = remote /\ strayed' = strayed /\ run' = run
        /\ worker' = worker /\ ranged' = ranged /\ plan' = plan /\ meta' = meta /\ blobs' = blobs
    BY <1>1 DEF Fetch!vars, Fetch!disk
  <2>2. FileFits' /\ AgainIsFresh' /\ (Tame' <=> Tame) /\ (Undisturbed' <=> Undisturbed)
    BY <2>1 DEF QuietInv, FileFits, AgainIsFresh, Tame, Undisturbed
  <2>3. Probed' <=> Probed
    BY <2>1 DEF Probed
  <2>4. Gathering' <=> Gathering
    BY <2>1 DEF Gathering
  <2>5. Tame => OidsAgree' /\ RunIsOlder' /\ DiskIsOlder'
    BY <2>1, <2>3, <2>4 DEF QuietInv, OidsAgree, RunIsOlder, DiskIsOlder
  <2>6. (RunIsWell => RunIsWell') /\ (StreamIsNew => StreamIsNew') /\ (CrewIsWell => CrewIsWell')
    BY <2>1, <2>3, <2>4 DEF RunIsWell, StreamIsNew, CrewIsWell, Fetch!Oid
  <2>7. BlobIsThere => BlobIsThere'
    BY <2>1 DEF BlobIsThere, Fetch!Whole, Fetch!Size
  <2>8. QuietRun => QuietRun'
    BY <2>1, <2>6, <2>7 DEF QuietRun
  <2> QED
    BY <2>2, <2>5, <2>8 DEF QuietInv
<1>2. CASE Fetch!Next
  <2>1. object' = object
    BY <1>2 DEF Fetch!Next
  <2>2. CASE Fetch!Start /\ UNCHANGED <<remote, strayed>>
    BY <2>1, <2>2, StartStaysQuiet
  <2>3. CASE Fetch!Step /\ UNCHANGED <<remote, runs>> /\ strayed' = (strayed \/ Fetch!Strays)
    <3>1. CASE \E w \in Conns : Fetch!WorkerStep(w)
      BY <2>1, <2>3, <3>1, WorkersTurnStaysQuiet, ClaimStaysQuiet, WorkersWriteStaysQuiet
         DEF Fetch!WorkerStep
    <3>2. CASE Fetch!Signal
      BY <2>1, <2>3, <3>2, FlagsStayQuiet
    <3> QED
      BY <2>1, <2>3, <3>1, <3>2, TurnsStayQuiet, DiscardsStayQuiet, WritesStayQuiet,
         SavePlanStaysQuiet, CommitStaysQuiet
         DEF Fetch!Step
  <2>4. CASE Fetch!Replaced
    BY <2>1, <2>4, FlagsStayQuiet
  <2>5. CASE Fetch!Killed \/ Fetch!PowerLost
    BY <2>1, <2>5, CrashStaysQuiet
  <2> QED
    BY <1>2, <2>2, <2>3, <2>4, <2>5 DEF Fetch!Next
<1> QED
  BY <1>1, <1>2

(* The workers of an undisturbed run leave when every cell is there.               *)
LEMMA CrewFinishes ==
  ASSUME FetchInv, QuietInv, Fetch!Joined, CrewIsWell
  PROVE  plan.done = 1 .. plan.size /\ Len(ranged.units) = plan.size
<1>1. /\ object \in Objects /\ plan \in PlanRecords /\ plan.size \in Nat /\ run.cursor \in Nat
      /\ ranged.units \in Seq(Versions \cup {0}) /\ OnePartial /\ DoneIsThere /\ PlanIsAgreed
  BY DEF FetchInv, FetchTypes, RunIsKnown, IsKnownRun, DiskIsKnown, PlanRecords
<1>2. run.at = "fetch" /\ \A w \in Conns : worker[w] = Fetch!Off
  BY DEF Fetch!Joined, Fetch!At
<1>3. run.cursor > plan.size /\ \A w \in Conns : worker[w].at \notin Holding
  BY <1>2, OffFields DEF CrewIsWell, Holding
<1>4. plan.done = 1 .. plan.size
  <2>1. \A i \in 1 .. plan.size : i \in plan.done
    BY <1>1, <1>3 DEF CrewIsWell
  <2>2. plan.done \subseteq 1 .. plan.size
    BY <1>1 DEF PlanIsAgreed
  <2> QED
    BY <2>1, <2>2
<1>5. ranged.there
  BY <1>1, <1>2 DEF OnePartial, Gathering
<1> DEFINE u == ranged.units  n == plan.size
<1>6. u \in Seq(Versions \cup {0}) /\ Len(u) <= n /\ n \in Nat /\ \A i \in 1 .. n : i \in DOMAIN u
  BY <1>1, <1>4, <1>5 DEF QuietInv, FileFits, DoneIsThere
<1> HIDE DEF u, n
<1>7. Len(u) = n
  <2>1. CASE n = 0
    BY <1>6, <2>1
  <2>2. CASE n # 0
    <3>1. n \in DOMAIN u
      BY <1>6, <2>2
    <3> QED
      BY <1>6, <3>1
  <2> QED
    BY <2>1, <2>2
<1> QED
  BY <1>4, <1>7 DEF u, n

(* How a run of the kind QuietRunCommits speaks of can come to its end.             *)
LEMMA QuietRunEnds ==
  ASSUME FetchInv, QuietInv, Fetch!Step, Tame, Undisturbed, QuietRun,
         run'.at = "idle"
  PROVE  run.at = "unplan" /\ run.then = "idle"
<1>1. DOMAIN run = RunFields /\ run.at # "idle" /\ run.quiet = TRUE /\ object \in Objects
      /\ remote \in Versions /\ run.then \in {"idle", "probe", "stream", "fresh", "ask"}
  BY DEF FetchInv, FetchTypes, RunIsKnown, IsKnownRun, Undisturbed
<1>2. ASSUME NEW at, run' = [run EXCEPT !.at = at] PROVE at = "idle"
  BY <1>1, <1>2 DEF RunFields
<1>3. ASSUME NEW q, Fetch!Discard(q) PROVE FALSE
  BY <1>1, <1>3 DEF RunFields, Fetch!Discard
<1>4. ~Fetch!Restart
  BY <1>3 DEF Fetch!Restart
<1>5. ~(Fetch!ProbeFails \/ Fetch!AskFails \/ Fetch!StreamBreaks \/ Fetch!Signal)
  BY <1>1 DEF Fetch!ProbeFails, Fetch!AskFails, Fetch!StreamBreaks, Fetch!Signal
<1>6. ~(Fetch!Choose \/ Fetch!ProbeDeclined \/ Fetch!Reconcile \/ Fetch!Stream \/ Fetch!Unmeta)
  <2>1. ~Fetch!Choose
    BY <1>1, <1>3 DEF Fetch!Choose, RunFields
  <2> QED
    BY <1>2, <1>3, <1>4, <2>1 DEF Fetch!ProbeDeclined, Fetch!Reconcile, Fetch!Stream,
       Fetch!Unmeta, Fetch!Goes
<1>7. ~(Fetch!ProbeAnswered \/ Fetch!Fresh \/ Fetch!SavePlan \/ Fetch!StreamEnds)
  <2>1. ~Fetch!ProbeAnswered
    BY <1>1 DEF Fetch!ProbeAnswered, RunFields
  <2>2. ~Fetch!Fresh
    BY <1>1 DEF Fetch!Fresh, RunFields
  <2>3. ~Fetch!SavePlan
    BY <1>1 DEF Fetch!SavePlan, RunFields
  <2>4. ~Fetch!StreamEnds
    BY <1>1 DEF Fetch!StreamEnds, RunFields
  <2> QED
    BY <2>1, <2>2, <2>3, <2>4
<1>8. ~(Fetch!Open \/ Fetch!Forget \/ Fetch!RefreshMeta \/ Fetch!Truncate \/ Fetch!Append1
        \/ Fetch!TooLarge \/ Fetch!Commit)
  BY <1>1, <1>2 DEF Fetch!Open, Fetch!Forget, Fetch!RefreshMeta, Fetch!Truncate, Fetch!Append1,
     Fetch!TooLarge, Fetch!Commit, Fetch!Goes
<1>9. ~Fetch!AskRefused
  BY <1>1 DEF Fetch!AskRefused, RunFields
<1>10. ~(Fetch!AskFresh \/ Fetch!AskResumes)
  <2>1. ASSUME NEW p \in {"meta", "body"}, Fetch!Receives(p) PROVE FALSE
    <3>1. object.sizes[remote] <= object.cap /\ object.sizes[remote] \in Nat /\ object.cap \in Nat
      BY <1>1, ObjectFacts DEF Undisturbed
    <3>2. ~(object.sizes[remote] > object.cap)
      BY <3>1
    <3>3. run' = [run EXCEPT !.at = p, !.from = remote]
      BY <2>1, <3>2 DEF Fetch!Receives, Fetch!Size
    <3> QED
      BY <1>1, <2>1, <3>3 DEF RunFields
  <2> QED
    BY <2>1 DEF Fetch!AskFresh, Fetch!AskResumes
<1>11. ~(\E w \in Conns : Fetch!WorkerStep(w))
  <2> SUFFICES ASSUME NEW w \in Conns, Fetch!WorkerStep(w) PROVE FALSE
    OBVIOUS
  <2>1. \/ run' = run \/ run' = [run EXCEPT !.stop = TRUE]
        \/ run' = [run EXCEPT !.cursor = run.cursor + 1]
        \/ run' = [run EXCEPT !.err = IF run.err = "none" THEN worker[w].fault ELSE run.err]
    BY DEF Fetch!WorkerStep, Fetch!Leave, Fetch!Claim, Fetch!RequestFails, Fetch!Request,
           Fetch!Body, Fetch!BodyFails, Fetch!Sync, Fetch!Mark, Fetch!RaiseStop, Fetch!FileError
  <2> QED
    BY <1>1, <2>1 DEF RunFields
<1>12. ~Fetch!RangedFails
  <2>1. run.err = "none"
    BY DEF QuietRun, RunIsWell
  <2> QED
    BY <2>1 DEF Fetch!RangedFails
<1>13. ~Fetch!Assembled
  <2> SUFFICES ASSUME Fetch!Assembled PROVE FALSE
    OBVIOUS
  <2>1. Fetch!Joined /\ run.at = "fetch"
    BY DEF Fetch!Assembled, Fetch!Joined, Fetch!At
  <2>2. plan.done = 1 .. plan.size /\ Len(ranged.units) = plan.size
    BY <2>1, CrewFinishes DEF QuietRun
  <2>3. run' = [run EXCEPT !.at = "commit", !.tmp = "ranged"]
    BY <2>2 DEF Fetch!Assembled
  <2> QED
    BY <1>1, <2>3 DEF RunFields
<1>14. CASE Fetch!Unplan
  <2>1. run.at = "unplan" /\ (run.then # "idle" => run' = [run EXCEPT !.at = run.then])
    BY <1>14 DEF Fetch!Unplan, Fetch!At
  <2> QED
    BY <1>2, <2>1
<1> QED
  BY <1>5, <1>6, <1>7, <1>8, <1>9, <1>10, <1>11, <1>12, <1>13, <1>14 DEF Fetch!Step

(* A run in which nothing fails and nothing changes upstream ends with the blob,    *)
(* whatever partials earlier runs, killed at whatever step, left it: no partial is  *)
(* a dead end (download.rs:317).                                              *)
THEOREM QuietRunsCommit == Fetch!Spec => QuietRunCommits
<1>1. ASSUME FetchInv, QuietInv, Fetch!Next,
             ~Fetch!At("idle"), run.quiet, run'.at = "idle", remote' = remote, object.etag,
             ~object.power, ~strayed', Fetch!Size(remote) <= object.cap
      PROVE  \E b \in blobs : b.name = Fetch!Whole(remote)
  <2>1. object \in Objects /\ strayed \in BOOLEAN /\ run.quiet \in BOOLEAN /\ remote \in Nat
    BY <1>1, ObjectFacts DEF FetchInv, FetchTypes, RunIsKnown, IsKnownRun
  <2>2. strayed => strayed'
    BY <1>1, <2>1 DEF Fetch!Next, Fetch!Replaced, Fetch!Killed, Fetch!PowerLost
  <2>3. Tame /\ Undisturbed
    BY <1>1, <2>1, <2>2, ObjectFacts DEF Tame, Undisturbed, Fetch!At, Fetch!Size
  <2>4. QuietRun
    BY <1>1, <2>3 DEF QuietInv
  <2>5. Fetch!Step
    <3>1. ~Fetch!Start
      BY <1>1 DEF Fetch!Start
    <3>2. ~Fetch!Replaced
      BY <1>1, <2>1 DEF Fetch!Replaced
    <3>3. ~Fetch!Killed /\ ~Fetch!PowerLost
      BY <1>1 DEF Fetch!Killed, Fetch!PowerLost
    <3> QED
      BY <1>1, <3>1, <3>2, <3>3 DEF Fetch!Next
  <2>6. run.at = "unplan" /\ run.then = "idle"
    BY <1>1, <2>3, <2>4, <2>5, QuietRunEnds
  <2> QED
    BY <2>4, <2>6 DEF QuietRun, BlobIsThere
<1>2. FetchInv /\ QuietInv /\ [Fetch!Next]_Fetch!vars =>
        [~Fetch!At("idle") /\ run.quiet /\ run'.at = "idle" /\ UNCHANGED remote
         /\ object.etag /\ ~object.power /\ ~strayed' /\ Fetch!Size(remote) <= object.cap
         => (\E b \in blobs : b.name = Fetch!Whole(remote))]_Fetch!vars
  BY <1>1
<1> QED
  BY <1>2, FetchInvInit, FetchInvNext, QuietInvInit, QuietInvNext, PTL
     DEF Fetch!Spec, QuietRunCommits, Fetch!QuietRunCommits

-----------------------------------------------------------------------------
(* The three together: a behaviour of the whole is one of each part, so that      *)
(* what is proved of a part holds of what the run checks.                       *)
THEOREM EachPartIsItself == MCSpec => Fetch!Spec /\ Store!Spec /\ Spec
<1>1. MCInit => Fetch!Init /\ Store!Init /\ Init
  BY DEF MCInit
<1>2. [MCNext]_<<driven, fetchVars, storeVars, cacheVars>> =>
        [Fetch!Next]_Fetch!vars /\ [Store!Next]_Store!vars /\ [Next]_vars
  BY DEF MCNext, DriveDownload, DriveStore, DriveKernels, fetchVars, storeVars, cacheVars,
         Fetch!vars, Fetch!disk, Store!vars, Store!disk
<1> QED
  BY <1>1, <1>2, PTL DEF MCSpec, Fetch!Spec, Store!Spec, Spec
=============================================================================
