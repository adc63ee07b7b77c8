------------------------------ MODULE Download ------------------------------
(***************************************************************************)
(* Fetching one object of the hub into the content-addressed blob store      *)
(* (infr-hub/src/download.rs, ranged.rs, parts.rs).  A run holds the lock of  *)
(* the object's temp files and fetches it either as a grid of ranges, by      *)
(* several workers, or as one appended stream; both resume what an earlier    *)
(* run left on disk.  Between runs the object may be replaced upstream; at     *)
(* any step the process may be killed, or the machine lose power.             *)
(*                                                                         *)
(* Bytes come in units of one chunk.  A unit on disk is the version of the     *)
(* object it came from, or Lost for a hole or a torn one.                      *)
(***************************************************************************)
EXTENDS Naturals, Sequences, SequencesExt, FiniteSets

CONSTANTS
  Objects,    \* the objects tried: sizes of its versions, lfs, etag, ranges, cap
  Conns,      \* the connections a run may use, 1 .. the pull's allowance
  Attempts,   \* CHUNK_ATTEMPTS
  MaxRuns     \* bound on the runs made

VARIABLES
  object,     \* the object and how its server behaves; never changes
  remote,     \* the version upstream
  stream, meta,               \* disk: the stream partial, its If-Range validator
  ranged, synced, plan,       \* disk: the ranged partial, what of it is durable, its plan
  blobs,                      \* disk: committed blobs
  run,                        \* the run in progress
  worker,                     \* its chunk workers
  runs,                       \* runs started
  strayed     \* history: a run died between refreshing meta and truncating the
              \* partial, or only one of the run and its plan knew a sha256

disk == <<stream, meta, ranged, synced, plan, blobs>>
vars == <<object, remote, disk, run, worker, runs, strayed>>

None == 0       \* no validator, no oid
NoCap == 9      \* max_bytes is None
Lost == 0       \* a unit that holds no version's bytes
NoFile == [there |-> FALSE, units |-> <<>>]
NoPlan == [size |-> 0, oid |-> None, validator |-> None, done |-> {}]

Size(v) == object.sizes[v]
Whole(v) == [i \in 1 .. Size(v) |-> v]
Oid(v) == IF object.lfs THEN v ELSE None          \* the LFS sha256 the hub lists
Validator(v) == IF object.etag THEN v ELSE None   \* what the server's headers offer

Off == [at |-> "off", cell |-> 0, tries |-> 0, got |-> 0, fault |-> "none"]
Idle == [at |-> "idle", then |-> "idle", want |-> None, probe |-> NoPlan, resume |-> FALSE,
         again |-> FALSE, from |-> 0, cursor |-> 1, stop |-> FALSE, err |-> "none",
         signal |-> FALSE, tmp |-> "stream", quiet |-> TRUE]

Init ==
  /\ object \in Objects
  /\ remote = 1
  /\ stream = <<>> /\ meta = None
  /\ ranged = NoFile /\ synced = {} /\ plan = NoPlan
  /\ blobs = {}
  /\ run = Idle
  /\ worker = [w \in Conns |-> Off]
  /\ runs = 0
  /\ strayed = FALSE

At(p) == run.at = p
Goes(p, q) == At(p) /\ run' = [run EXCEPT !.at = q]
Padded(u, i) == IF Len(u) < i THEN u \o [j \in 1 .. i - Len(u) |-> Lost] ELSE u

(* parts::discard removes the file, then the sidecar; then it goes on to q.   *)
Discard(q) ==
  /\ ranged' = NoFile /\ synced' = {}
  /\ run' = [run EXCEPT !.at = "unplan", !.then = q]

Unplan ==
  /\ At("unplan")
  /\ plan' = NoPlan
  /\ run' = IF run.then = "idle" THEN Idle ELSE [run EXCEPT !.at = run.then]
  /\ UNCHANGED <<stream, meta, ranged, synced, blobs, worker>>

(* The run returns an error that keeps what is on disk.                      *)
Fails == run' = Idle

-----------------------------------------------------------------------------
(* The run asks for the sha256 (a HEAD that fails is a file without one), and *)
(* a blob already there under that name ends it at once.                     *)
Start ==
  /\ At("idle")
  /\ runs < MaxRuns
  /\ runs' = runs + 1
  /\ \E quiet \in BOOLEAN, want \in {None, Oid(remote)} :
       /\ quiet => want = Oid(remote)
       /\ \A b \in blobs : want # None => b.name # Whole(want)
       /\ run' = [Idle EXCEPT !.at = "choose", !.want = want, !.quiet = quiet]
  /\ UNCHANGED <<disk, worker>>

Resumable == ranged.there /\ plan # NoPlan

(* fetch_ranged, before the probe: junk is discarded, and a capped download,  *)
(* a stream partial, or a pull with no connection to spare, is one stream.   *)
Choose ==
  /\ At("choose")
  /\ IF Resumable
     THEN /\ run' = [run EXCEPT !.at = "probe", !.resume = TRUE]
          /\ UNCHANGED <<ranged, synced>>
     ELSE \E spare \in {FALSE, Cardinality(Conns) > 1} :
            Discard(IF object.cap # NoCap \/ stream # <<>> \/ ~spare THEN "stream" ELSE "probe")
  /\ UNCHANGED <<stream, meta, plan, blobs, worker>>

(* The HEAD request: it fails, is declined, or describes the object.         *)
ProbeFails ==
  /\ At("probe") /\ ~run.quiet
  /\ Fails
  /\ UNCHANGED <<disk, worker>>

ProbeDeclined ==
  /\ At("probe")
  /\ object.ranges => ~run.quiet
  /\ IF run.resume THEN Discard("stream")
     ELSE run' = [run EXCEPT !.at = "stream"] /\ UNCHANGED <<ranged, synced>>
  /\ UNCHANGED <<stream, meta, plan, blobs, worker>>

ProbeAnswered ==
  /\ At("probe")
  /\ object.ranges
  /\ run' = [run EXCEPT
       !.at = IF ~run.resume /\ Size(remote) <= 1 THEN "stream" ELSE "reconcile",
       !.probe = [NoPlan EXCEPT !.size = Size(remote), !.validator = Validator(remote)]]
  /\ UNCHANGED <<disk, worker>>

(* reconcile: why the partial may not be continued.                          *)
Differs(p) ==
  \/ p.size # run.probe.size
  \/ p.oid # None /\ run.want # None /\ p.oid # run.want
  \/ p.oid = None /\ run.want = None
     /\ p.validator # None /\ run.probe.validator # None /\ p.validator # run.probe.validator

(* The object is not the partial's: once it is thrown away and begun again.   *)
Restart ==
  /\ Discard(IF run.again THEN "idle" ELSE IF run.probe.size <= 1 THEN "stream" ELSE "fresh")

Reconcile ==
  /\ At("reconcile")
  /\ IF run.resume /\ Differs(plan)
     THEN Restart /\ UNCHANGED <<stream, meta, plan, blobs, worker>>
     ELSE /\ Goes("reconcile", "open")
          /\ UNCHANGED <<disk, worker>>

Fresh ==
  /\ At("fresh")
  /\ run' = [run EXCEPT !.at = "reconcile", !.resume = FALSE, !.again = TRUE]
  /\ UNCHANGED <<disk, worker>>

(* run: the file first, then the sidecar that describes it.                  *)
Open ==
  /\ Goes("open", "save")
  /\ ranged' = [ranged EXCEPT !.there = TRUE]
  /\ UNCHANGED <<stream, meta, synced, plan, blobs, worker>>

Agreed ==
  IF run.resume
  THEN [plan EXCEPT !.oid = IF @ = None THEN run.want ELSE @, !.validator = run.probe.validator]
  ELSE [run.probe EXCEPT !.oid = run.want]

SavePlan ==
  /\ At("save")
  /\ plan' = Agreed
  /\ run' = [run EXCEPT !.at = "fetch", !.cursor = 1]
  /\ \E crew \in SUBSET (Conns \ {1}) :
       /\ Cardinality(crew) < Agreed.size - Cardinality(Agreed.done) \/ crew = {}
       /\ worker' = [w \in Conns |-> IF w \in crew \cup {1} THEN [Off EXCEPT !.at = "claim"] ELSE Off]
  /\ UNCHANGED <<stream, meta, ranged, synced, blobs>>

-----------------------------------------------------------------------------
(* The chunk workers.  One that could leave a cell to another first tries to  *)
(* start it, if the pull has a connection to spare; then it claims.           *)
Stays(w, r) == worker' = [worker EXCEPT ![w] = r]

Leave(w) ==
  /\ At("fetch") /\ worker[w].at = "claim"
  /\ run.stop \/ run.signal \/ run.cursor > plan.size
  /\ Stays(w, Off)
  /\ UNCHANGED <<disk, run>>

Claim(w) ==
  /\ At("fetch") /\ worker[w].at = "claim"
  /\ ~run.stop /\ ~run.signal /\ run.cursor <= plan.size
  /\ LET i == run.cursor
         mine == IF i \in plan.done THEN worker[w] ELSE [Off EXCEPT !.at = "get", !.cell = i]
     IN  \/ Stays(w, mine)
         \/ /\ i < plan.size
            /\ \E v \in Conns : /\ worker[v] = Off
                                /\ worker' = [worker EXCEPT ![w] = mine, ![v].at = "claim"]
  /\ run' = [run EXCEPT !.cursor = @ + 1]
  /\ UNCHANGED disk

Fault(w, kind) == Stays(w, [Off EXCEPT !.at = "fault", !.fault = kind])

(* A transient failure is retried, but not against a stop.                   *)
Transient(w) ==
  IF worker[w].tries + 1 >= Attempts \/ run.stop \/ run.signal
  THEN Fault(w, "fatal")
  ELSE Stays(w, [Off EXCEPT !.at = "get", !.cell = worker[w].cell, !.tries = worker[w].tries + 1])

RequestFails(w) ==
  /\ worker[w].at = "get" /\ ~run.quiet
  /\ Transient(w)
  /\ UNCHANGED <<disk, run>>

(* The server ignores the Range of a stale If-Range, or ranges altogether.    *)
WholeInstead(v) == ~object.ranges \/ (v # None /\ v # Validator(remote))

Request(w) ==
  /\ worker[w].at = "get"
  /\ IF WholeInstead(plan.validator) THEN Fault(w, "noranges")
     ELSE IF worker[w].cell > Size(remote) THEN Fault(w, "fatal")
     ELSE IF Size(remote) # plan.size THEN Fault(w, "changed")
     ELSE Stays(w, [worker[w] EXCEPT !.at = "body", !.got = remote])
  /\ UNCHANGED <<disk, run>>

Writes(i, v) ==
  /\ ranged' = [ranged EXCEPT !.units = [Padded(@, i) EXCEPT ![i] = v]]
  /\ synced' = synced \ {i}

Body(w) ==
  /\ worker[w].at = "body"
  /\ Writes(worker[w].cell, worker[w].got)
  /\ Stays(w, [worker[w] EXCEPT !.at = "sync"])
  /\ UNCHANGED <<stream, meta, plan, blobs, run>>

(* The connection breaks, the body is short, or the shutdown latch is seen.  *)
BodyFails(w) ==
  /\ worker[w].at = "body" /\ ~run.quiet
  /\ Writes(worker[w].cell, Lost)
  /\ IF run.signal THEN Fault(w, "fatal") ELSE Transient(w)
  /\ UNCHANGED <<stream, meta, plan, blobs, run>>

(* Mutant of Sync: the data is left to the page cache.                       *)
SyncNothing(w) ==
  /\ worker[w].at = "sync"
  /\ Stays(w, [worker[w] EXCEPT !.at = "mark"])
  /\ UNCHANGED <<disk, run>>

Sync(w) ==
  /\ worker[w].at = "sync"
  /\ synced' = synced \cup (1 .. Len(ranged.units))
  /\ Stays(w, [worker[w] EXCEPT !.at = "mark"])
  /\ UNCHANGED <<stream, meta, ranged, plan, blobs, run>>

Mark(w) ==
  /\ worker[w].at = "mark"
  /\ plan' = [plan EXCEPT !.done = @ \cup {worker[w].cell}]
  /\ Stays(w, [Off EXCEPT !.at = "claim"])
  /\ UNCHANGED <<stream, meta, ranged, synced, blobs, run>>

(* A failing worker stops the others, and then files its error if it is first. *)
RaiseStop(w) ==
  /\ worker[w].at = "fault"
  /\ Stays(w, [worker[w] EXCEPT !.at = "file"])
  /\ run' = [run EXCEPT !.stop = TRUE]
  /\ UNCHANGED disk

FileError(w) ==
  /\ worker[w].at = "file"
  /\ Stays(w, Off)
  /\ run' = [run EXCEPT !.err = IF @ = "none" THEN worker[w].fault ELSE @]
  /\ UNCHANGED disk

(* The scope joins its workers.                                             *)
Joined == At("fetch") /\ \A w \in Conns : worker[w] = Off

Assembled ==
  /\ Joined /\ run.err = "none"
  /\ IF plan.done = 1 .. plan.size /\ Len(ranged.units) = plan.size
     THEN run' = [run EXCEPT !.at = "commit", !.tmp = "ranged"]
     ELSE Fails
  /\ UNCHANGED <<disk, worker>>

RangedFails ==
  /\ Joined
  /\ \/ run.err = "fatal" /\ Fails /\ UNCHANGED <<ranged, synced>>
     \/ run.err = "noranges" /\ Discard("stream")
     \/ run.err = "changed" /\ Restart
  /\ UNCHANGED <<stream, meta, plan, blobs, worker>>

-----------------------------------------------------------------------------
(* fetch_stream.                                                            *)
Stream ==
  /\ At("stream")
  /\ Discard("ask")
  /\ UNCHANGED <<stream, meta, plan, blobs, worker>>

have == Len(stream)

(* Mutant of IfRange: the resume carries no validator.                       *)
IfRangeOmitted == None

IfRange == IF have > 0 THEN meta ELSE None

AskFails ==
  /\ At("ask") /\ ~run.quiet
  /\ Fails
  /\ UNCHANGED <<disk, worker>>

(* An announced size over the cap is refused before anything is touched; a    *)
(* chunked body announces none.                                             *)
Receives(p) ==
  \/ run' = [run EXCEPT !.at = p, !.from = remote]
  \/ Size(remote) > object.cap /\ Fails

AskFresh ==
  /\ At("ask")
  /\ have = 0 \/ WholeInstead(IfRange)
  /\ Receives("meta")
  /\ UNCHANGED <<disk, worker>>

AskResumes ==
  /\ At("ask")
  /\ have > 0 /\ ~WholeInstead(IfRange) /\ have < Size(remote)
  /\ Receives("body")
  /\ UNCHANGED <<disk, worker>>

(* Mutant of AskRefused: a 416 is an error like any other.                   *)
AskRefusedForGood ==
  /\ At("ask")
  /\ have > 0 /\ ~WholeInstead(IfRange) /\ have >= Size(remote)
  /\ Fails
  /\ UNCHANGED <<disk, worker>>

(* A range the server cannot satisfy: a partial it agrees is complete goes    *)
(* to the gate, another one is thrown away.                                 *)
AskRefused ==
  /\ At("ask")
  /\ have > 0 /\ ~WholeInstead(IfRange) /\ have >= Size(remote)
  /\ IF have = Size(remote)
     THEN run' = [run EXCEPT !.at = "commit", !.tmp = "stream"] /\ UNCHANGED stream
     ELSE stream' = <<>> /\ run' = [run EXCEPT !.at = "forget"]
  /\ UNCHANGED <<meta, ranged, synced, plan, blobs, worker>>

Forget ==
  /\ Goes("forget", "stream")
  /\ meta' = None
  /\ UNCHANGED <<stream, ranged, synced, plan, blobs, worker>>

RefreshMeta ==
  /\ Goes("meta", "trunc")
  /\ meta' = Validator(run.from)
  /\ UNCHANGED <<stream, ranged, synced, plan, blobs, worker>>

Truncate ==
  /\ Goes("trunc", "body")
  /\ stream' = <<>>
  /\ UNCHANGED <<meta, ranged, synced, plan, blobs, worker>>

Append1 ==
  /\ At("body")
  /\ have < Size(run.from) /\ have < object.cap
  /\ stream' = Append(stream, run.from)
  /\ UNCHANGED <<meta, ranged, synced, plan, blobs, run, worker>>

(* Over the cap the partial is removed, then its validator.                  *)
TooLarge ==
  /\ At("body")
  /\ have < Size(run.from) /\ have >= object.cap
  /\ stream' = <<>>
  /\ run' = [run EXCEPT !.at = "unmeta"]
  /\ UNCHANGED <<meta, ranged, synced, plan, blobs, worker>>

StreamBreaks ==
  /\ At("body") /\ ~run.quiet
  /\ Fails
  /\ UNCHANGED <<disk, worker>>

StreamEnds ==
  /\ At("body")
  /\ have = Size(run.from)
  /\ run' = [run EXCEPT !.at = "commit", !.tmp = "stream"]
  /\ UNCHANGED <<disk, worker>>

-----------------------------------------------------------------------------
(* commit: the hash of the whole file is its name, and must be the oid.       *)
Assembly == IF run.tmp = "stream" THEN stream ELSE ranged.units

Verified == run.want = None \/ Assembly = Whole(run.want)

Commit ==
  /\ At("commit")
  /\ blobs' = IF Verified
              THEN {b \in blobs : b.name # Assembly} \cup
                   {[name |-> Assembly, bytes |-> Assembly, durable |-> run.tmp = "ranged",
                     verified |-> run.want # None]}
              ELSE blobs
  /\ IF run.tmp = "stream"
     THEN stream' = <<>> /\ UNCHANGED <<ranged, synced>>
     ELSE ranged' = NoFile /\ synced' = {} /\ UNCHANGED stream
  /\ run' = [run EXCEPT !.at = "unmeta"]
  /\ UNCHANGED <<meta, plan, worker>>

Unmeta ==
  /\ At("unmeta")
  /\ meta' = None
  /\ Discard("idle")
  /\ UNCHANGED <<stream, plan, blobs, worker>>

-----------------------------------------------------------------------------
(* The shutdown latch is polled by the workers and the streaming loop.        *)
Signal ==
  /\ At("fetch") /\ ~run.quiet
  /\ run' = [run EXCEPT !.signal = TRUE]
  /\ UNCHANGED <<disk, worker>>

(* The object is replaced upstream.                                          *)
Replaced ==
  /\ remote + 1 \in DOMAIN object.sizes
  /\ remote' = remote + 1
  /\ run' = [run EXCEPT !.quiet = At("idle")]
  /\ UNCHANGED <<disk, worker, runs, strayed>>

(* The process is killed: what was written stays.                            *)
Killed ==
  /\ ~At("idle") /\ ~run.quiet
  /\ run' = Idle
  /\ worker' = [w \in Conns |-> Off]
  /\ strayed' = (strayed \/ (At("trunc") /\ stream # <<>>))
  /\ UNCHANGED <<remote, disk, runs>>

(* Power is lost: what was not synced may be lost as well.                   *)
Survivors(u, safe) ==
  {[i \in DOMAIN u |-> IF i \in kept THEN u[i] ELSE Lost] :
      kept \in {safe \cup k : k \in SUBSET DOMAIN u}}

PowerLost ==
  /\ object.power
  /\ At("idle") \/ ~run.quiet
  /\ run' = Idle
  /\ worker' = [w \in Conns |-> Off]
  /\ \E u \in Survivors(ranged.units, synced) : ranged' = [ranged EXCEPT !.units = u]
  /\ \E u \in Survivors(stream, {}) : stream' = u
  /\ strayed' = (strayed \/ (At("trunc") /\ stream # <<>>))
  /\ \E dead \in SUBSET {b \in blobs : ~b.durable} :
       blobs' = (blobs \ dead) \cup {[b EXCEPT !.bytes = [i \in DOMAIN @ |-> Lost]] : b \in dead}
  /\ UNCHANGED <<remote, meta, synced, plan, runs>>

WorkerStep(w) ==
  \/ Leave(w) \/ Claim(w) \/ RequestFails(w) \/ Request(w) \/ Body(w) \/ BodyFails(w)
  \/ Sync(w) \/ Mark(w) \/ RaiseStop(w) \/ FileError(w)

Step ==
  \/ Choose \/ ProbeFails \/ ProbeDeclined \/ ProbeAnswered
  \/ Reconcile \/ Fresh \/ Open \/ SavePlan \/ \E w \in Conns : WorkerStep(w)
  \/ Assembled \/ RangedFails \/ Unplan
  \/ Stream \/ AskFails \/ AskFresh \/ AskResumes \/ AskRefused \/ Forget
  \/ RefreshMeta \/ Truncate \/ Append1 \/ TooLarge \/ StreamBreaks \/ StreamEnds
  \/ Commit \/ Unmeta \/ Signal

(* reconcile compares neither sha256s nor validators when only one side has a *)
(* sha256.                                                                  *)
Strays == At("reconcile") /\ run.resume /\ (plan.oid = None) # (run.want = None)

Next ==
  /\ UNCHANGED object
  /\ \/ Start /\ UNCHANGED <<remote, strayed>>
     \/ Step /\ UNCHANGED <<remote, runs>> /\ strayed' = (strayed \/ Strays)
     \/ Replaced \/ Killed \/ PowerLost

Spec == Init /\ [][Next]_vars

-----------------------------------------------------------------------------
(* A committed blob holds the bytes of one version, and under a sha256 always *)
(* had ("restart clean instead of splicing new bytes onto a stale prefix",     *)
(* download.rs:299).  Without one that takes a server that offers validators, *)
(* and no run that strayed; and only what the ranged path wrote is sure to     *)
(* survive a power loss.                                                    *)
BlobIsOneObject ==
  \A b \in blobs :
    /\ b.verified => \E v \in DOMAIN object.sizes : b.name = Whole(v)
    /\ \/ \E v \in DOMAIN object.sizes : b.bytes = Whole(v)
       \/ ~b.verified /\ (~object.etag \/ strayed)
       \/ object.power /\ ~b.durable

(* What a run leaves on disk can be continued: a cell marked done is there,   *)
(* durable, and of the object the plan names; a stream partial is a prefix of  *)
(* the version its validator names; and there is never one of each.           *)
PartialIsSound ==
  /\ Resumable =>
       /\ stream = <<>>
       /\ \A i \in plan.done :
            /\ i \in DOMAIN ranged.units \cap synced
            /\ ranged.units[i] # Lost
            /\ object.etag /\ plan.oid = None => ranged.units[i] = plan.validator
  /\ meta # None /\ ~At("trunc") /\ ~strayed =>
       \A i \in DOMAIN stream : stream[i] = meta \/ (object.power /\ stream[i] = Lost)

(* A run in which nothing fails and nothing changes ends with the blob, over  *)
(* whatever earlier runs left: no partial is a dead end ("would get the same  *)
(* 416 forever", download.rs:317).                                          *)
QuietRunCommits ==
  [][ ~At("idle") /\ run.quiet /\ run'.at = "idle" /\ UNCHANGED remote
      /\ object.etag /\ ~object.power /\ ~strayed' /\ Size(remote) <= object.cap
      => (\E b \in blobs : b.name = Whole(remote)) ]_vars
=============================================================================
