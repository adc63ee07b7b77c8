------------------------------ MODULE MCOnDisk ------------------------------
(* What infr leaves on disk between runs, and what a crash does to it: the      *)
(* partials and blobs of the model download (Download), the snapshots of the    *)
(* model store (Pull) and the compiled-kernel cache (KernelCache).  They share   *)
(* no file: `driven` says which of them a behaviour is about, and the others     *)
(* stay as they were found.                                                  *)
EXTENDS KernelCache

CONSTANTS
  Objects, Conns, Attempts, MaxRuns,
  p1, p2, p3, Setups, Procs

VARIABLES
  driven,
  object, remote, stream, meta, ranged, synced, plan, blobs, run, worker, runs, strayed,
  setup, main, ref, link, stored, proc, job, calls, mixed

fetchVars ==
  <<object, remote, stream, meta, ranged, synced, plan, blobs, run, worker, runs, strayed>>
storeVars == <<setup, main, ref, link, stored, proc, job, calls, mixed>>
cacheVars == vars

Fetch == INSTANCE Download
Store == INSTANCE Pull WITH blobs <- stored, worker <- job

(* The objects: two versions of one size, in ranges or as a stream; one of      *)
(* them losing power; a second version beyond the cap; a second version that is  *)
(* smaller, with an LFS sha256 and no validator.                             *)
MCObjects ==
  LET Obj(sizes, lfs, etag, ranges, cap, power) ==
        [sizes |-> sizes, lfs |-> lfs, etag |-> etag, ranges |-> ranges, cap |-> cap,
         power |-> power]
  IN  {Obj(<<2, 2>>, FALSE, TRUE, TRUE, 9, FALSE), Obj(<<2, 2>>, FALSE, TRUE, FALSE, 9, FALSE),
       Obj(<<2>>, FALSE, TRUE, TRUE, 9, TRUE), Obj(<<2, 3>>, FALSE, TRUE, TRUE, 2, FALSE),
       Obj(<<2, 1>>, TRUE, FALSE, TRUE, 9, FALSE)}

ASSUME KnownObjects ==
  \A o \in Objects :
    /\ o.sizes \in Seq(Nat) /\ 1 \in DOMAIN o.sizes /\ o.cap \in Nat
    /\ {o.lfs, o.etag, o.ranges, o.power} \subseteq BOOLEAN

(* A run fetches over its own connection, whatever the pull has to spare.       *)
ASSUME OwnConn == 1 \in Conns

(* The repositories: a model of two shards, the second replaced by a commit,    *)
(* pulled by one process with two jobs or by two processes; two models of one    *)
(* file and a companion, outside LFS; and one without the default quant, whose   *)
(* listing has a model of one file before one of two shards.                   *)
NoDefault ==
  [models |-> [q5 |-> <<"a1", "a2">>, q8 |-> <<"b">>], default |-> "q4", first |-> "q8",
   lfs |-> TRUE, procs |-> {p1}, jobs |-> 1, sels |-> {"none", "q5"}, calls |-> 3,
   tree |-> <<[a1 |-> 1, a2 |-> 2, b |-> 3]>>]

MCSetups ==
  {NoDefault,
   [models |-> [q4 |-> <<"a1", "a2">>], default |-> "q4", first |-> "q4", lfs |-> TRUE,
    procs |-> {p1}, jobs |-> 2, sels |-> {"none"}, calls |-> 3,
    tree |-> <<[a1 |-> 1, a2 |-> 2], [a1 |-> 1, a2 |-> 3]>>],
   [models |-> [q4 |-> <<"a1", "a2">>], default |-> "q4", first |-> "q4", lfs |-> TRUE,
    procs |-> {p1, p2}, jobs |-> 1, sels |-> {"none"}, calls |-> 3,
    tree |-> <<[a1 |-> 1, a2 |-> 2]>>],
   [models |-> [q4 |-> <<"a">>, q8 |-> <<"b">>], default |-> "q4", first |-> "q4", lfs |-> FALSE,
    procs |-> {p1}, jobs |-> 1, sels |-> {"none", "q8"}, calls |-> 3,
    tree |-> <<[a |-> 1, b |-> 2, companion |-> 3], [a |-> 4, b |-> 2, companion |-> 5]>>]}

(* What a repository is.  Its models share no shard, and the companion is not a  *)
(* shard of any; none of them is called what a pull without a selector says.     *)
FilesOf(k, m) == {k.models[m][i] : i \in DOMAIN k.models[m]}

ASSUME KnownSetups ==
  \A k \in Setups :
    /\ k.jobs \in Nat \ {0} /\ k.procs \subseteq Procs
    /\ k.tree \in Seq([DOMAIN k.tree[1] -> Nat]) /\ 1 \in DOMAIN k.tree
    /\ "none" \notin DOMAIN k.models
    /\ \A m \in DOMAIN k.models :
         /\ k.models[m] \in Seq(DOMAIN k.tree[1] \ {"companion"})
         /\ \A n \in DOMAIN k.models \ {m} : FilesOf(k, m) \cap FilesOf(k, n) = {}
         /\ \A i, j \in DOMAIN k.models[m] : k.models[m][i] = k.models[m][j] => i = j

(* A commit that lists a shard of a model lists them all.                       *)
ASSUME ModelsAreWhole ==
  \A k \in Setups : \A c \in DOMAIN k.tree : \A m \in DOMAIN k.models :
    (\E f \in FilesOf(k, m) : k.tree[c][f] # 0) => \A f \in FilesOf(k, m) : k.tree[c][f] # 0

(* The machines: two backends in one process and one in another; three          *)
(* processes; two, and a driver that is upgraded.                             *)
MCSites ==
  {[owner |-> <<p1, p1, p2>>, saves |-> 2, upgrades |-> 0],
   [owner |-> <<p1, p2, p3>>, saves |-> 2, upgrades |-> 0],
   [owner |-> <<p1, p2>>, saves |-> 3, upgrades |-> 1]}

MCInit ==
  /\ driven \in {"download", "store", "kernels"}
  /\ Fetch!Init /\ Store!Init /\ Init
  /\ driven # "download" => object = CHOOSE o \in Objects : TRUE
  /\ driven # "store" => setup = CHOOSE k \in Setups : TRUE
  /\ driven # "kernels" => site = CHOOSE k \in Sites : TRUE

DriveDownload ==
  driven = "download" /\ Fetch!Next /\ UNCHANGED <<driven, storeVars, cacheVars>>
DriveStore ==
  driven = "store" /\ Store!Next /\ UNCHANGED <<driven, fetchVars, cacheVars>>
DriveKernels ==
  driven = "kernels" /\ Next /\ UNCHANGED <<driven, fetchVars, storeVars>>

MCNext == DriveDownload \/ DriveStore \/ DriveKernels

MCSpec == MCInit /\ [][MCNext]_<<driven, fetchVars, storeVars, cacheVars>>

(* The properties of Download and of Pull.                                   *)
BlobIsOneObject == Fetch!BlobIsOneObject
PartialIsSound == Fetch!PartialIsSound
QuietRunCommits == Fetch!QuietRunCommits
SnapshotIsOneCommit == Store!SnapshotIsOneCommit
StaysCached == Store!StaysCached
YesMeansThere == Store!YesMeansThere
=============================================================================
