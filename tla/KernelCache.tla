---------------------------- MODULE KernelCache -----------------------------
(***************************************************************************)
(* The on-disk cache of compiled kernels and its tripwire                    *)
(* (infr-core/src/kernel_cache.rs) as the Vulkan backend drives it           *)
(* (infr-vulkan/src/pcache.rs).  A backend instance sweeps the markers of      *)
(* dead processes, reads the file, arms a marker of its own and seeds the      *)
(* driver; it saves as kernels are compiled, and at its end either saves and   *)
(* disarms or, the device lost, deletes the file.  Any process may be killed   *)
(* at any step.  A process number is not used again (see the README for what   *)
(* happens where it is), and creating a marker succeeds.                      *)
(***************************************************************************)
EXTENDS Naturals, Sequences

CONSTANTS
  Sites,       \* the machines tried: [owner, saves, upgrades]: the process of each
               \* backend instance, whose name is its nonce; bounds on the saves
               \* and on the driver upgrades
  NoCache

VARIABLES
  site,        \* the machine being tried; never changes
  file,        \* the cache file: its identity, key, and whether it is damaged
  markers,     \* the marker files, by name
  driver,      \* the key the driver and the shader set now have
  process,     \* "none", "up", "exited" or "killed"
  inst,        \* the backend instances
  saves        \* files written

(* What happened so far: the files killed runs had seeded from or written once  *)
(* seeded, each with the marker that says so; who wrote each file.             *)
VARIABLES accused, author

vars == <<site, file, markers, driver, process, inst, saves, accused, author>>
Ghosts == <<accused, author>>

Processes == {site.owner[i] : i \in DOMAIN site.owner}
Mine(i) == site.owner[i]
Runs(i) == process[Mine(i)] = "up"

(* at: new, list, sweep, read, arm, seed, live, disarm or done.               *)
NewInstance ==
  [at |-> "new", todo |-> {}, took |-> {}, key |-> 0, seed |-> 0, lost |-> FALSE]

Init ==
  /\ site \in Sites
  /\ file = NoCache
  /\ markers = {}
  /\ driver = 0
  /\ process = [p \in Processes |-> "none"]
  /\ inst = [i \in DOMAIN site.owner |-> NewInstance]
  /\ saves = 0
  /\ accused = {}
  /\ author = <<>>

(* Mutant of Marker: the name without the nonce.                              *)
MarkerOfProcess(i) == <<Mine(i), 0>>

Marker(i) == <<Mine(i), i>>

Goes(i, from, to) == inst[i].at = from /\ inst' = [inst EXCEPT ![i].at = to]

-----------------------------------------------------------------------------
Launch(p) ==
  /\ process[p] = "none"
  /\ process' = [process EXCEPT ![p] = "up"]
  /\ UNCHANGED <<file, markers, driver, inst, saves, Ghosts>>

(* A backend opens: its key is the driver's, and it lists the markers.         *)
Open(i) ==
  /\ Runs(i) /\ inst[i].at = "new"
  /\ inst' = [inst EXCEPT ![i].at = "sweep", ![i].key = driver, ![i].todo = markers]
  /\ UNCHANGED <<file, markers, driver, process, saves, Ghosts>>

(* A marker is removed if its process is gone; then so will be the file.        *)
Corpse(i, m) == process[m[1]] # "up"

SweepMarker(i) ==
  /\ Runs(i) /\ inst[i].at = "sweep"
  /\ \E m \in inst[i].todo :
       /\ markers' = IF Corpse(i, m) THEN markers \ {m} ELSE markers
       /\ inst' = [inst EXCEPT ![i].todo = @ \ {m}, ![i].took = IF Corpse(i, m) THEN @ \cup {m} ELSE @]
  /\ UNCHANGED <<file, driver, process, saves, Ghosts>>

(* Only when every marker was looked at does the file go.                     *)
SweepFile(i) ==
  /\ Runs(i) /\ inst[i].todo = {}
  /\ Goes(i, "sweep", "read")
  /\ file' = IF inst[i].took # {} THEN NoCache ELSE file
  /\ UNCHANGED <<markers, driver, process, saves, Ghosts>>

(* load_validated: another key is a miss, a failed checksum deletes the file.   *)
Valid(i) == file # NoCache /\ file.key = inst[i].key

Read(i) ==
  /\ Runs(i) /\ inst[i].at = "read"
  /\ IF Valid(i) /\ ~file.damaged
     THEN inst' = [inst EXCEPT ![i].at = "arm", ![i].seed = file.id]
     ELSE inst' = [inst EXCEPT ![i].at = "live"]
  /\ file' = IF Valid(i) /\ file.damaged THEN NoCache ELSE file
  /\ UNCHANGED <<markers, driver, process, saves, Ghosts>>

Arm(i) ==
  /\ Runs(i) /\ Goes(i, "arm", "seed")
  /\ markers' = markers \cup {Marker(i)}
  /\ UNCHANGED <<file, driver, process, saves, Ghosts>>

(* vkCreatePipelineCache: a payload it refuses is dropped, the marker stays.    *)
Seed(i) ==
  /\ Runs(i) /\ Goes(i, "seed", "live")
  /\ UNCHANGED <<file, markers, driver, process, saves, Ghosts>>

-----------------------------------------------------------------------------
(* store: written aside, synced, and renamed over the file.                   *)
Stores(i) ==
  /\ saves < site.saves
  /\ saves' = saves + 1
  /\ file' = [id |-> saves + 1, key |-> inst[i].key, damaged |-> FALSE]
  /\ author' = Append(author, i)

(* The debounced save after a new kernel: it does not ask about the device.    *)
Save(i) ==
  /\ Runs(i) /\ inst[i].at = "live"
  /\ Stores(i)
  /\ UNCHANGED <<markers, driver, process, inst, accused>>

(* A kernel hangs the GPU: the device is lost, for good.                      *)
LoseDevice(i) ==
  /\ Runs(i) /\ inst[i].at = "live" /\ ~inst[i].lost
  /\ inst' = [inst EXCEPT ![i].lost = TRUE]
  /\ UNCHANGED <<file, markers, driver, process, saves, Ghosts>>

(* Mutant of Finish: the verdict on the device is not asked for.               *)
FinishSaving(i) ==
  /\ Runs(i) /\ Goes(i, "live", "disarm")
  /\ Stores(i)
  /\ UNCHANGED <<markers, driver, process, accused>>

(* The backend is dropped: a lost device deletes the file, else it is saved.    *)
Finish(i) ==
  /\ Runs(i) /\ Goes(i, "live", "disarm")
  /\ \/ inst[i].lost /\ file' = NoCache /\ UNCHANGED <<saves, author>>
     \/ ~inst[i].lost /\ Stores(i)
  /\ UNCHANGED <<markers, driver, process, accused>>

Disarm(i) ==
  /\ Runs(i) /\ Goes(i, "disarm", "done")
  /\ markers' = markers \ {Marker(i)}
  /\ UNCHANGED <<file, driver, process, saves, Ghosts>>

(* A process ends when its backends are dropped, or is killed.                *)
Owned(p) == {i \in DOMAIN site.owner : Mine(i) = p}

Exit(p) ==
  /\ process[p] = "up"
  /\ \A i \in Owned(p) : inst[i].at \in {"new", "done"}
  /\ process' = [process EXCEPT ![p] = "exited"]
  /\ UNCHANGED <<file, markers, driver, inst, saves, Ghosts>>

Seeded(i) == inst[i].at \in {"seed", "live"} /\ inst[i].seed # 0

Touched(i) == {inst[i].seed} \cup {f \in 1 .. saves : author[f] = i}

Kill(p) ==
  /\ process[p] = "up"
  /\ process' = [process EXCEPT ![p] = "killed"]
  /\ accused' = accused \cup UNION {Touched(i) \X {Marker(i)} : i \in {j \in Owned(p) : Seeded(j)}}
  /\ UNCHANGED <<file, markers, driver, inst, saves, author>>

(* The driver is upgraded; a file rots.                                       *)
Upgrade ==
  /\ driver < site.upgrades
  /\ driver' = driver + 1
  /\ UNCHANGED <<file, markers, process, inst, saves, Ghosts>>

Rot ==
  /\ file # NoCache /\ ~file.damaged
  /\ file' = [file EXCEPT !.damaged = TRUE]
  /\ UNCHANGED <<markers, driver, process, inst, saves, Ghosts>>

Step(i) ==
  \/ Open(i) \/ SweepMarker(i) \/ SweepFile(i) \/ Read(i) \/ Arm(i) \/ Seed(i)
  \/ Save(i) \/ LoseDevice(i) \/ Finish(i) \/ Disarm(i)

Next ==
  /\ UNCHANGED site
  /\ \/ \E i \in DOMAIN site.owner : Step(i)
     \/ \E p \in Processes : Launch(p) \/ Exit(p) \/ Kill(p)
     \/ Upgrade \/ Rot

Spec == Init /\ [][Next]_vars

-----------------------------------------------------------------------------
(* A file that was handed to a driver, or written, by a run that then died is   *)
(* not trusted: while it is on disk, so is that run's marker, or a sweep has    *)
(* taken the marker and has yet to delete the file (killed there it never       *)
(* will: the README's findings).  And a run that is alive has its marker,       *)
(* whatever its siblings and other processes do (kernel_cache.rs, THE          *)
(* TRIPWIRE).                                                              *)
TripwireHolds ==
  /\ \A a \in accused : file # NoCache /\ file.id = a[1] =>
       \/ a[2] \in markers
       \/ \E i \in DOMAIN inst : inst[i].at = "sweep" /\ a[2] \in inst[i].took
  /\ \A i \in DOMAIN inst : Runs(i) /\ Seeded(i) => Marker(i) \in markers

(* A run that lost its device leaves no file of its own behind, whatever it     *)
(* saved on the way (pcache.rs, finish: "persisting it is how the poison        *)
(* propagates to the next launch").                                         *)
LostRunsLeaveNothing ==
  \A i \in DOMAIN inst :
    inst[i].lost /\ inst[i].at \in {"disarm", "done"} /\ file # NoCache
      => author[file.id] # i
=============================================================================
