-------------------------------- MODULE Pull --------------------------------
(***************************************************************************)
(* Pulling a model into the hub cache and finding it there again             *)
(* (infr-hub/src/pull.rs, store.rs).  A process asks the hub for the commit   *)
(* main names, points refs/main at it, and fetches and links the files of the *)
(* model with a few workers; ensure is content with any complete snapshot.    *)
(* Meanwhile main moves, the process is stopped or killed, and another one     *)
(* pulls the same model.                                                    *)
(*                                                                         *)
(* A file's content stands for its sha256.  Download of one file, with its     *)
(* resumes and its lock, is the Download module: here it delivers the file as  *)
(* main has it, or fails.  A scan of the snapshots is one step.               *)
(***************************************************************************)
EXTENDS Naturals, Sequences, FiniteSets

CONSTANTS
  Setups,    \* the repositories tried, and who pulls what from them
  Procs      \* processes

VARIABLES
  setup,     \* [models, default, first, tree, lfs, procs, jobs, sels, calls]; never
             \* changes; calls bounds the calls made
  main,      \* the commit main names
  ref,       \* refs/main
  link,      \* snapshots: commit -> file -> content of the blob linked to
  blobs,     \* blobs
  proc, worker,
  calls,
  mixed      \* history: commits being pulled when main moved

vars == <<setup, main, ref, link, blobs, proc, worker, calls, mixed>>
disk == <<ref, link, blobs>>

None == 0
Commits == DOMAIN setup.tree
Files == DOMAIN setup.tree[1]
Jobs == 1 .. setup.jobs
Shards(m) == setup.models[m]      \* shard_set of the model's files, in order
ShardFiles(m) == {Shards(m)[i] : i \in DOMAIN Shards(m)}
Companion == "companion"          \* generation_config.json

Off == [at |-> "off", file |-> "", want |-> None, got |-> None]
Idle == [at |-> "idle", sel |-> "none", latest |-> FALSE, commit |-> None, files |-> <<>>,
         cursor |-> 1, stop |-> FALSE, signal |-> FALSE, failed |-> FALSE, quiet |-> TRUE, alone |-> TRUE, had |-> {}]

Init ==
  /\ setup \in Setups
  /\ main = 1 /\ ref = None
  /\ link = [c \in Commits |-> [f \in Files |-> None]]
  /\ blobs = {}
  /\ proc = [p \in Procs |-> Idle]
  /\ worker = [p \in Procs |-> [w \in Jobs |-> Off]]
  /\ calls = 0
  /\ mixed = {}

-----------------------------------------------------------------------------
(* pick_gguf: the models the selector may choose among the files named.  The   *)
(* default quant falls back to any other, in the order they are listed.       *)
Picks(names, sel) ==
  LET some == {m \in DOMAIN setup.models : ShardFiles(m) \cap names # {}}
      hit == some \cap {IF sel = "none" THEN setup.default ELSE sel}
  IN  IF hit = {} /\ sel = "none" THEN some ELSE hit

Links(c) == {f \in Files : link[c][f] # None}
Complete(c, m) == ShardFiles(m) \subseteq Links(c)

(* resolve_repo: the snapshots that may answer; refs/main's goes first, and    *)
(* None is an answer when each may fail to.                                  *)
Answers(c, sel) == {m \in Picks(Links(c), sel) : Complete(c, m)}
MayFail(c, sel) == Answers(c, sel) = {} \/ Answers(c, sel) # Picks(Links(c), sel)

(* Mutant of Searched: a snapshot refs/main names is the only one looked at.   *)
OnlyMain(sel) == IF ref \in Commits THEN {ref} ELSE Commits

Searched(sel) ==
  IF ref \in Commits /\ ~MayFail(ref, sel) THEN {ref} ELSE Commits

Resolutions(sel) ==
  {c \in Searched(sel) : Answers(c, sel) # {}} \cup
  (IF \A c \in Searched(sel) : MayFail(c, sel) THEN {None} ELSE {})

Resolvable == {m \in DOMAIN setup.models : None \notin Resolutions(m)}

-----------------------------------------------------------------------------
Ended == {"idle", "ok", "err"}
Busy == {p \in Procs : proc[p].at \notin Ended}
Becomes(p, r) == proc' = [proc EXCEPT ![p] = r]
Goes(p, from, to) == proc[p].at = from /\ Becomes(p, [proc[p] EXCEPT !.at = to])

(* The model's files in a snapshot that holds them all: the call is done.      *)
Cached(p, r) ==
  \E c \in Resolutions(r.sel) \ {None} : \E m \in Answers(c, r.sel) :
    Becomes(p, [r EXCEPT !.at = "ok", !.commit = c, !.files = Shards(m)])

(* ensure is content with what is cached; ensure_latest always asks the hub.  *)
Call(p) ==
  /\ proc[p].at \in Ended
  /\ calls < setup.calls
  /\ \E sel \in setup.sels, latest \in BOOLEAN, quiet \in BOOLEAN :
       LET r == [Idle EXCEPT !.sel = sel, !.latest = latest, !.quiet = quiet,
                             !.alone = Busy = {}, !.had = Resolvable]
       IN  \/ ~latest /\ Cached(p, r)
           \/ /\ latest \/ None \in Resolutions(sel)
              /\ proc' = [q \in Procs |->
                   IF q = p THEN [r EXCEPT !.at = "info"]
                   ELSE IF q \in Busy THEN [proc[q] EXCEPT !.alone = FALSE] ELSE proc[q]]
  /\ calls' = calls + 1
  /\ UNCHANGED <<disk, worker>>

(* repo_info failed: only ensure_latest has the cached copy to fall back on.  *)
InfoFails(p) ==
  /\ proc[p].at = "info" /\ ~proc[p].quiet
  /\ \/ /\ ~proc[p].latest \/ None \in Resolutions(proc[p].sel)
        /\ Becomes(p, [proc[p] EXCEPT !.at = "err"])
     \/ proc[p].latest /\ Cached(p, proc[p])
  /\ UNCHANGED <<disk, worker>>

Listed(c) == {f \in Files : setup.tree[c][f] # None}

(* pick_gguf of the hub's listing, whose order is its own: a fallback is the     *)
(* first model listed, whatever order the snapshot's directory has.            *)
Offers(sel) ==
  LET ms == Picks(Listed(main), sel)
  IN  IF setup.first \in ms THEN {setup.first} ELSE ms

Info(p) ==
  /\ proc[p].at = "info"
  /\ LET ms == Offers(proc[p].sel)
     IN  \/ ms = {} /\ Becomes(p, [proc[p] EXCEPT !.at = "err"])
         \/ \E m \in ms :
              Becomes(p, [proc[p] EXCEPT
                !.at = IF proc[p].latest /\ Complete(main, m) THEN "companion" ELSE "ref",
                !.commit = main, !.files = Shards(m)])
  /\ UNCHANGED <<disk, worker>>

(* refs/main moves before the new snapshot holds anything.                    *)
WriteRef(p) ==
  /\ Goes(p, "ref", "fetch")
  /\ ref' = proc[p].commit
  /\ worker' = [worker EXCEPT ![p] =
       [w \in Jobs |-> IF w <= Len(proc[p].files) THEN [Off EXCEPT !.at = "claim"] ELSE Off]]
  /\ UNCHANGED <<link, blobs>>

-----------------------------------------------------------------------------
(* A worker claims files until there are none left, one has failed, or the    *)
(* shutdown latch is set.                                                   *)
Stays(p, w, r) == worker' = [worker EXCEPT ![p][w] = r]

Claim(p, w) ==
  /\ worker[p][w].at = "claim"
  /\ IF proc[p].stop \/ proc[p].signal
     THEN Stays(p, w, Off) /\ UNCHANGED proc
     ELSE /\ Becomes(p, [proc[p] EXCEPT !.cursor = @ + 1])
          /\ Stays(p, w, IF proc[p].cursor > Len(proc[p].files) THEN Off
                         ELSE [Off EXCEPT !.at = "head", !.file = proc[p].files[proc[p].cursor]])
  /\ UNCHANGED disk

(* Mutant of HeadSha: a file linked in another snapshot is taken for this one.    *)
HeadShaKnown(p, w) ==
  /\ worker[p][w].at = "head"
  /\ LET f == worker[p][w].file
         old == {c \in Commits : link[c][f] # None}
         want == IF old # {} THEN link[CHOOSE c \in old : TRUE][f] ELSE setup.tree[main][f]
     IN  Stays(p, w, [worker[p][w] EXCEPT !.at = "fetch", !.want = want])
  /\ UNCHANGED <<disk, proc>>

(* head_lfs_sha: the file as main has it now; an error is a file without one. *)
HeadSha(p, w) ==
  /\ worker[p][w].at = "head"
  /\ \E want \in {None, setup.tree[main][worker[p][w].file]} :
       /\ ~setup.lfs => want = None
       /\ setup.lfs /\ proc[p].quiet => want # None
       /\ Stays(p, w, [worker[p][w] EXCEPT !.at = "fetch", !.want = want])
  /\ UNCHANGED <<disk, proc>>

(* A companion that fails is skipped; any other file fails the pull.          *)
Fails(p, w) ==
  /\ Stays(p, w, Off)
  /\ IF worker[p][w].file = Companion
     THEN Becomes(p, [proc[p] EXCEPT !.at = "ok"])
     ELSE Becomes(p, [proc[p] EXCEPT !.stop = TRUE, !.failed = TRUE])

FetchFails(p, w) ==
  /\ worker[p][w].at = "fetch" /\ worker[p][w].want \notin blobs
  /\ ~proc[p].quiet \/ setup.tree[main][worker[p][w].file] = None
  /\ Fails(p, w)
  /\ UNCHANGED disk

(* A blob of that sha256 is taken as it is; otherwise what arrives must have   *)
(* the sha256 wanted.                                                       *)
Fetch(p, w) ==
  /\ worker[p][w].at = "fetch"
  /\ LET want == worker[p][w].want
         body == setup.tree[main][worker[p][w].file]
         got == IF want \in blobs THEN want ELSE body
     IN  /\ got # None
         /\ IF want # None /\ got # want
            THEN Fails(p, w) /\ UNCHANGED blobs
            ELSE /\ blobs' = blobs \cup {got}
                 /\ Stays(p, w, [worker[p][w] EXCEPT !.at = "unlink", !.got = got])
                 /\ UNCHANGED proc
  /\ UNCHANGED <<ref, link>>

(* Mutant of Unlink: a link left by an earlier pull is not removed.            *)
UnlinkNothing(p, w) ==
  /\ worker[p][w].at = "unlink"
  /\ Stays(p, w, [worker[p][w] EXCEPT !.at = "link"])
  /\ UNCHANGED <<disk, proc>>

Unlink(p, w) ==
  /\ worker[p][w].at = "unlink"
  /\ link' = [link EXCEPT ![proc[p].commit][worker[p][w].file] = None]
  /\ Stays(p, w, [worker[p][w] EXCEPT !.at = "link"])
  /\ UNCHANGED <<ref, blobs, proc>>

(* link_blob refuses a name that is taken.                                   *)
Link(p, w) ==
  /\ worker[p][w].at = "link"
  /\ IF link[proc[p].commit][worker[p][w].file] # None
     THEN Fails(p, w) /\ UNCHANGED link
     ELSE /\ link' = [link EXCEPT ![proc[p].commit][worker[p][w].file] = worker[p][w].got]
          /\ IF worker[p][w].file = Companion
             THEN Stays(p, w, Off) /\ Becomes(p, [proc[p] EXCEPT !.at = "ok"])
             ELSE Stays(p, w, [Off EXCEPT !.at = "claim"]) /\ UNCHANGED proc
  /\ UNCHANGED <<ref, blobs>>

-----------------------------------------------------------------------------
Joined(p) == proc[p].at = "fetch" /\ \A w \in Jobs : worker[p][w] = Off

(* The first failure, or Aborted, or the companions.                          *)
Join(p) ==
  /\ Joined(p)
  /\ Becomes(p, [proc[p] EXCEPT
       !.at = IF proc[p].failed \/ proc[p].signal THEN "err" ELSE "companion"])
  /\ UNCHANGED <<disk, worker>>

(* fetch_companions: what the repository does not list, or the snapshot has,   *)
(* is skipped; the rest goes the way of any other file.                       *)
Companions(p) ==
  /\ proc[p].at = "companion"
  /\ IF Companion \in Files /\ setup.tree[proc[p].commit][Companion] # None
        /\ link[proc[p].commit][Companion] = None
     THEN /\ Becomes(p, [proc[p] EXCEPT !.at = "extra"])
          /\ Stays(p, 1, [Off EXCEPT !.at = "head", !.file = Companion])
     ELSE Becomes(p, [proc[p] EXCEPT !.at = "ok"]) /\ UNCHANGED worker
  /\ UNCHANGED disk

Signal(p) ==
  /\ proc[p].at = "fetch" /\ ~proc[p].quiet /\ ~proc[p].signal
  /\ Becomes(p, [proc[p] EXCEPT !.signal = TRUE])
  /\ UNCHANGED <<disk, worker>>

Killed(p) ==
  /\ proc[p].at \notin Ended /\ ~proc[p].quiet
  /\ Becomes(p, Idle)
  /\ worker' = [worker EXCEPT ![p] = [w \in Jobs |-> Off]]
  /\ UNCHANGED disk

(* A commit is pushed upstream.                                              *)
Moves ==
  /\ main + 1 \in Commits
  /\ main' = main + 1
  /\ proc' = [p \in Procs |-> IF p \in Busy THEN [proc[p] EXCEPT !.quiet = FALSE] ELSE proc[p]]
  /\ mixed' = mixed \cup {proc[p].commit : p \in Busy}
  /\ UNCHANGED <<disk, worker, calls>>

WorkerStep(p, w) ==
  \/ Claim(p, w) \/ HeadSha(p, w) \/ FetchFails(p, w) \/ Fetch(p, w)
  \/ Unlink(p, w) \/ Link(p, w)

Step(p) ==
  \/ InfoFails(p) \/ Info(p) \/ WriteRef(p) \/ Join(p) \/ Companions(p)
  \/ Signal(p) \/ Killed(p)
  \/ \E w \in Jobs : WorkerStep(p, w)

Next ==
  /\ UNCHANGED setup
  /\ \/ Moves
     \/ \E p \in setup.procs :
          /\ UNCHANGED <<main, mixed>>
          /\ Call(p) \/ (Step(p) /\ UNCHANGED calls)

Spec == Init /\ [][Next]_vars

-----------------------------------------------------------------------------
(* A snapshot holds the files of its own commit.  Only a commit that main left *)
(* while it was being pulled may not: every file is fetched from main, not from *)
(* the commit (resolve_url, pull.rs:61).                                      *)
SnapshotIsOneCommit ==
  \A c \in Commits \ mixed : \A f \in Files : link[c][f] \in {None, setup.tree[c][f]}

(* What ensure pulls although it may be there: without a selector, in a          *)
(* repository that lists no default quant, the fallback of the hub's listing     *)
(* need not be that of the snapshot's directory (pick_gguf, store.rs:293).        *)
Fallback(r) ==
  IF r.sel = "none" /\ ~r.latest
  THEN {m \in DOMAIN setup.models \ {setup.default} : Shards(m) = r.files}
  ELSE {}

(* A quant that could be resolved when a pull began still can, whatever the     *)
(* pull has done so far or left undone: an update is never worse than none.    *)
(* Two things alone take a link away (pull.rs:162): two processes pulling one     *)
(* snapshot, and a fallback that is pulled although it was there.               *)
StaysCached ==
  \A p \in Busy : proc[p].alone => proc[p].had \ Fallback(proc[p]) \subseteq Resolvable

(* A call that says yes leaves the whole model there, however it was stopped   *)
(* ("would go on to load a model that is not there", pull.rs:259), and one in   *)
(* which nothing goes wrong says yes, whatever an earlier one left behind.     *)
YesMeansThere ==
  [][ \A p \in Busy :
        proc[p].alone /\ proc'[p].at \in Ended =>
          /\ proc'[p].at = "ok" =>
               \A i \in DOMAIN proc'[p].files : link'[proc'[p].commit][proc'[p].files[i]] # None
          /\ proc[p].quiet /\ Picks(Listed(main), proc[p].sel) # {} => proc'[p].at = "ok" ]_vars
=============================================================================
