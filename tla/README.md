# TLA+ verification of infr

TLA+ modules, TLC configurations and TLAPS proofs for the control logic of `infr`: weight paging,
weight streaming, KV reuse, speculative decoding, the GPU baton, the slot pool of the parallel server, the CPU fork-join pool, the server's
requests, and what downloads, pulls and the kernel cache leave on disk through a crash. The modules are translated from
the Rust sources under `src/crates/`; paths below are relative to that directory. `PROJECT.json`
maps every definition to the lines it models and lists runs, mutants, findings, hazards and
theorems.

How to run, from this directory:

    tlc -workers 2 -config MCPager.cfg MCPager      # likewise the other runs
    tlapm HostPagerProofs.tla                       # likewise the other *Proofs modules

## 1. The system

`infr` runs language models whose weights may not fit in the GPU's memory, or in RAM. A process
(`infr-cli`) downloads a model (`infr-hub`), maps it (`infr-gguf`), builds a backend
(`infr-vulkan`, `infr-metal`, `infr-cpu`) and drives a model runner (`infr-llama`), for one
conversation or for many concurrent ones (`infr-server`).

| Component | State it keeps | Operations | Talks to |
|---|---|---|---|
| Block cache, `infr-core/src/pager.rs` | block -> slot map, LRU list, free list, batch epochs, pins | `begin_batch`, `touch`, `touch_cold`, `schedule`, `resolve_and_pin`, `pin_if_resident`, `repin`, `unpin`, `evict` | called by the VRAM tier (one owner) and the DRAM tier (under its mutex) |
| DRAM tier, `infr-core/src/hostpager.rs` | one pager, per-block state, doorkeeper set, an arena addressed by raw pointers | `register`, `pin`, `fill`, `try_pin`, drop of a `Pin` | callers on several threads; `BlockIo` reads outside the lock; one condition variable |
| VRAM tier, `infr-vulkan/src/pager.rs` | pools, LUT mirrors, staging ring halves, LUT tape; in the adapter the segment recorded and those in flight | staged touches, LUT windows, segment rotation, submit splitting, abort | pager, DRAM tier, command stream, device |
| Session turn, `infr-llama/src/seam/runner.rs` | `cached` tokens, KV rows (full or ring), recurrent state, replay plan | prefix reuse, chunked prefill, decode, chained decode, forced tokens, teardown | backend `execute`/`upload`, abort latch, baton |
| GPU baton, `infr-llama/src/sampling.rs` | `next`, `serving` | `enter`, drop of a `GatePass` | every generation of the parallel server |
| Slot pool, `infr-llama/src/parallel.rs` | slots with KV, busy flag, LRU tick | `checkout` with seeding, `generate`, drop of a `SlotGuard` | session turns, baton, server threads |
| Sequential sessions, `infr-llama/src/seam/model.rs` | `SlotPool` without a lock | `pick`, `generate`, `reset_cache` | session turns |
| MTP, `infr-llama/src/mtp/mod.rs` | committed tokens, the draft head's rows, leading row, recurrent snapshot | prime, draft, verify, judge, restore or snapshot, catch up, re-prime | session turns |
| Server, `infr-server/src/lib.rs` | permits, abort latch per request, statistics windows, frames of a stream | streaming and buffered replies, deadline, drain | slot pool, abort latch, sockets |
| Spin pool, `infr-cpu/src/pool.rs` | job slot, sequence number, cursor, sleeping flags, panic flag | `run`, worker loop, drop | CPU backend |
| Download, `infr-hub/src/{download,ranged,parts}.rs` | partial files, validator, plan of done chunks, blobs | ranged and streamed fetch, resume, commit | file system, HTTP |
| Model store, `infr-hub/src/{pull,store}.rs` | `refs/main`, snapshots of links, blobs | `pull`, `ensure`, resolving a model | download, other processes |
| Kernel cache, `infr-core/src/kernel_cache.rs` | cache file, marker of a seeded run | `load`, `store`, `disarm`, `invalidate` | GPU backends |
| Multi-device, `infr-vulkan/src/{tp,tp_sem,tp_allreduce,p2p,ep}.rs` | timeline semaphores, shared buffers | publish, gather, reduce | command queues |
| Shutdown latch, `infr-core/src/shutdown.rs` | one atomic | `request_shutdown` | polled by every generation |

Where it is hard, and the properties that make it right:

- **Paging.** Slots are recycled while work that reads them is recorded or running, and the DRAM
  tier hands out pointers into memory another thread is about to fill. Right means: no slot is lost
  or shared, a batch keeps what it touched, a borrowed block never changes, a failed read leaves
  nothing behind, a waiter is always woken, the sizing floor really suffices.
- **Weight streaming.** The CPU decides residency while it records, a segment or more before the device
  executes: ring bytes, windows and slots are overwritten for one op while the device may still read
  them for another, and a recording may be thrown away. Right means: when the device gets to a
  command, everything that command reads is what was meant when it was recorded.
- **KV reuse.** What a turn may take over from the last one is inferred from a list of tokens, while
  rows are recycled (rings) or only ever summed up (recurrent state), and a turn may be cut short at
  any point. Right means: the answer is the one a full re-prefill would give.
- **MTP.** Drafts are judged by rows of a batch whose base shifts with what was cached, rolled back or
  carried over, and a recurrent state can only be restored to a copy several cycles old. Right means:
  each token is judged by the row that saw exactly the tokens before it.
- **The baton.** It is both a lock for the shared command pool and a fairness device. Right means:
  mutual exclusion, ticket order, no lost wake-up, everybody's turn comes, and *all* GPU work is
  covered by it, destructors and error paths included.
- **The slot pool.** Two slots are reserved while the lock is dropped for a device copy that may
  fail. Right means: one owner per slot, none lost, no lost wake-up, and a free slot holds what it
  says it holds.
- **The spin pool.** Workers park on a flag and a counter read in opposite orders by two threads, and
  call a closure borrowed from the caller's stack. Right means: no lost wake-up, each task once, no
  use after the call returned, everybody's panics are their own.
- **The server.** A client may hang up, a deadline may fire and a generation may end at the same
  moment, and a reporter drains the counters meanwhile. Right means: permits come back, a reply says
  truly how it ended, one terminal frame, nobody is billed for another's tokens.
- **Files.** A download, a pull or a run of the GPU may be killed between any two file operations,
  with other processes at work and the object replaced upstream. Right means: what is committed is
  one object, what is left can be continued, a model that could be found still can, and a kernel
  that hung the device is not seeded twice.
- **Multi-device.** Semaphores between queues. Not modelled: see sections 6 and 7.

## 2. The modules

| Module | Models | State | Actions |
|---|---|---|---|
| `PagerOps` | `Pager`: the operations as operators on a record | none | none |
| `Pager` | the VRAM tier's owner of a pager: batches of `touch`/`touch_cold` | `pg`, batch history | `OpenBatch`, `BatchWith`, `TouchBlock`, `TouchPanics` |
| `CyclicSweep` | `schedule` driven by one cyclic layer order, beside the offline optimum | `pg`, `belady`, hits per pass | `Visit`, `EndPass` |
| `WeightStream` | a forward that streams dense layers or experts: `execute_static`, `execute_paged_moe`, the two pager sessions, and the device behind them | `pg`, `lut`, `arena`, `ring`, `tape`, `run`, `device` | `Execute`; start, split, retire, stage, window, rotate, sync, finish; op, read or shutdown fails, unwind |
| `MCPager` | the three above in one run | | |
| `HostPager` | the DRAM tier, its callers and their reads | `pg`, `state`, `missed`, `arena`, `call`, `pins` | one per locked section or unlocked step of `pin`, `fill`, `try_pin`, drop |
| `LeasedReads` | abstract specification of the DRAM tier: a library lends whole blocks | `lease` | `Lend`, `Return` (see the module) |
| `KvSession` | one slot over any number of turns | `cached`, `rows`, `absorbed`, `turn` | begin a turn, prefill chunk, feed, sample, forced tokens, chain, stop, abort, fail, reset |
| `Mtp` | one speculative generation after another on a slot of `KvSession` | that of `KvSession`, `gen` | `Prime`, `Draft`, `ResumeFeed`, `Verify`, `Judge`, `BeginReprime`, `ReprimeStep`, `Reprimed`, `NextCall` |
| `StepGate` | the ticket lock and its condition variable | `next`, `serving`, `at`, `ticket` | `Enter`, `Recheck`, `SpuriousWake`, `Release`, `NotifyAll` |
| `GpuTurns` | several generations, region by region, over `StepGate` | the gate's, `doing`, `left`, `plan`, `aborted` | one per region, plus abort, zeroing, unwinding |
| `ParallelSeam` | the pool, its requests, seeding | `kv`, `busy`, `lru`, `req` | ask, sleep, take, reserve, seed ends or panics, generate, drop, notify |
| `SpinPool` | the CPU fork-join pool: workers, callers, drop | `pool`, `sleeping`, `token`, `worker`, `caller`, `closing` | one per atomic access of the worker loop, of `run` and of `drop` |
| `ForkJoin` | abstract specification of `run` | `state`, `size`, `ran`, `fell` | `Call`, `RunTask`, `Return`, `Panic` |
| `Serve` | a chat completion, and the interval statistics | `slots`, `req`, `stats` | arrive, admit, hang up, bump and send, tool call, stop, deadline, watchdog, frames, fold, drain |
| `Download` | one object fetched over several runs | the partials, `meta`, `plan`, `blobs`, `run`, `worker` | one per file operation or request, plus kill, power loss, replacement |
| `Pull` | pulling a model and finding it again | `ref`, `link`, `blobs`, `proc`, `worker` | one per file operation, plus kill, shutdown, a push upstream |
| `KernelCache` | the kernel cache and its tripwire | `file`, `markers`, `process`, `inst` | sweep, read, arm, seed, save, finish, disarm, exit, kill, device loss, upgrade |
| `MCHandshakes` | `StepGate`, `SpinPool`, `Serve` and a contended `HostPager` in one run | | |
| `MCOnDisk` | `Download`, `Pull` and `KernelCache` in one run | | |
| `PagerOpsProofs` | lemmas about the operators of the block cache | | |
| `PagerProofs`, `HostPagerProofs`, `HandshakesProofs`, `GpuTurnsProofs`, `ParallelSeamProofs`, `MtpProofs`, `OnDiskProofs` | the TLAPS proofs | | |

Composition: `HostPager` is built on `PagerOps`, the same operators `Pager` drives without pins and
`WeightStream` drives from a forward.
`GpuTurns` instantiates `StepGate` and drives its actions, so a region's entry and exit *are* the
lock's. `Mtp` extends `KvSession`: its re-prime is an
ordinary turn of it, its verify the same forward. `ParallelSeam` sees a generation as what it does to its slot; `KvSession` opens that step up.
`Pull` sees a download as delivering the file or failing; `Download` opens that step up.
`MCPager`, `MCHandshakes` and `MCOnDisk` put components that share no state into one run: a variable
`driven`, chosen initially, says which of them moves, and the others keep one fixed initial state, so
a run explores the *sum* of their state spaces. Fairness is stated per component and only while it is
the one driven.

### What a model keeps and what it abstracts

- **Locked sections are single actions**; the code between an unlock and the next lock is a step of
  its own. Condition variables wake spuriously, and `notify_*` after the unlock is a separate step.
- **Block cache.** The maps are one record: `resident`, `lru`, `free`, `epoch`, `pinned`, `batch`.
  Hit, miss and eviction counters are left out. `take_slot`'s panic (every resident block is in
  the current batch) is `TouchPanics`, after which the owner is gone.
- **Weight streaming.** A slot of an arena and a position of a ring half hold one block each, so what is
  there is the name of a block. The device is the list of submitted commands that are not done, and
  executes any command no barrier before it holds back; a fence signals when everything before it is
  done. Only the explicit barriers order it (`arena_stream_barrier`, `seed_barrier`): the recorder's own
  hazard tracker does not see reads of an arena, which go by address, and what it orders beyond that
  is left out, so the model allows more than the device does. A segment may be split after any op that
  dispatched something. The router may choose any non-empty subset of an op's experts; repetitions of
  an id, which are hits, are left out. Shutdown is final, other failures are followed by another forward.
- **DRAM tier.** Block contents are the name of the block a slot holds whole, or none. `read_block`
  has two outcomes. `begin_batch` is never called on this tier, so the epoch stays 0 and pins alone
  protect a block. `tier` says how a tier is sized and called; it never changes.
- **KV session.** A row of a cache is a function of the tokens before it, so its content *is* the
  stream up to its position, and stale means: not my stream. One layer stands for all layers of its
  kind. The recurrent state is the stream it has absorbed. `kv_rows` rounds a ring up to a multiple
  of 64; the model leaves that out, which makes the ring as tight as the formula allows. Forced
  tokens and chains may mix in one model of a session, a superset of the code (a grammar switches
  chaining off). A short suffix, or an unbatched model, is fed row by row; a longer one in
  chunk-major order. Denoising and layer-major prefill are not modelled.
- **MTP.** What the trunk says of a row, its prediction and its hidden state, is represented by the
  stream the row saw. Which drafts the trunk agrees with is free, which covers the greedy and the
  stochastic rule: both commit a prefix of the drafts and one more token, never the one rejected. The
  head's cache keeps, per row, the token and the stream whose hidden state came with it. The
  probability floor is 0 in the code and left out. An error ends the generation and drops trunk and
  head, so no error step is needed. The loop is parked in the source (`mtp_enabled()` is false).
- **Baton.** A ticket is taken and the first test of `serving` made in one locked section.
- **Generations.** A region is what one pass covers. Each sequence runs one generation, so that
  tickets stay bounded; the record-once replay plan is always used. The model allows an abort
  at any moment between start and end, and an error in any region of a backend that fails.
- **Spin pool.** Every atomic access of the handshake is a step of its own, in program order, and
  sequentially consistent, as its `SeqCst` accesses are; the park token is std's. A worker that sees
  no new job may look again or get ready to sleep, which covers every value of the adaptive spin
  budget. A caller that finds the pool taken goes through rayon (external: each task once, in any
  order, stopping at a panic). `sleeping` is read once per worker as the caller unparks.
- **Server.** A generation may go on for ever unless its abort latch is set. A hang-up drops the
  handler of a queued or buffered request; a stream notices when it next sends. A generation that
  ended well may send a tool call, after its text and whole (the chat stream's own order of text and
  calls is not kept; that a call was sent at all is what the finish reason looks at). A forced tool
  choice (`Forced`) sends no text: its body is buffered and becomes a call, or the turn is an error,
  also when an abort has cut the body (`Stops`, from `run_chat` of `infr-cli`). Token counts are
  small numbers; a correction is what the outcome says beyond or below the deltas. Routing,
  authentication, the metrics text and shutdown of the listener are left out.
- **Download.** A chunk is one unit; a unit on disk is the version of the object it came from, or
  `Lost` (a hole, or torn by a power loss). The server may or may not offer validators, ranges and a
  sha256. A killed process loses its memory; a power loss also any unit not synced. `fs::write`,
  `create` and `rename` are single steps; their order with respect to each other survives a power
  loss, contents do not.
- **Pull.** The content of a file stands for its sha256. `pick_gguf` and `ordered_snapshots` are
  nondeterministic where the code goes by the order of a directory; the hub's listing has an order of
  its own, fixed per repository (`first`, `Offers`). A scan of the snapshots is one step. The file lock of a download is inside the step that fetches.
- **Kernel cache.** A key stands for the driver and the shader set; the envelope is `damaged` or not.
  The name of a backend instance stands for its nonce. A process number is **not used again** in the
  model: where the system reuses it (in a container `infr` may have the same number in every run)
  a dead run's marker names a live process and the tripwire never fires (section 4). Creating a
  marker is assumed to succeed, as the code ignores its result.
- **Histories.** `strayed` (Download), `mixed`, `alone` and `Fallback` (Pull), `straddled` and
  `Abandoned` (Serve) and `took` (KernelCache) name the windows in which the code breaks the property at hand. The properties except
  exactly those histories, and section 4 lists each as a finding.
- **Slot pool.** LRU ticks are an order. `sound` is the number of leading rows that really belong to
  `cached`. The caches are dense; what reuse means for rings and recurrent state is `KvSession`.
  `notify_one` wakes any sleeper, and a newcomer may take the slot before it. That a particular
  sleeper is not overtaken for ever is *not* claimed: the code does not guarantee it.

## 3. What the runs check

| Run | Bounds | Distinct states | Shows |
|---|---|---|---|
| `pager` | 5 blocks, 3 slots, 3 batches; sweeps of up to 5 layers, 4 passes; streams: 4 dense layers with ring halves of 1 or 2 blocks, or 2 layers of 2 experts in 2 roles, 1 or 2 choices of the router, with tapes of 3 or 4 windows, `MAX_INFLIGHT` 2, 2 forwards | 163 304 | slots are accounted for in LRU order, a batch keeps its slots, scan resistance, a sweep's stable prefix, within one hit of the offline optimum; the device reads what was meant, and no forward leaves work behind |
| `host_pager` | 2 slots, 3 threads, 3 blocks, 2 pins each; four kinds of tier | 80 263 | no data race, residency, states and pins agree, the floor suffices, what counts as room is free, the tier implements `LeasedReads` |
| `kv_session` | 2 tokens, context 5 or 6, window 2 to 5, chunk 2, chain 2, prompts up to 4, 2 new tokens, any number of turns; MTP: 2 drafts, a tile of 4 rows, prompts up to 2, up to 5 new tokens, each switch off once | 355 414 | no stale reads where the session is dependable, `cached` is resident, fed rows are kept; drafts are judged in context, the head follows the trunk, a verify stays in the small tile |
| `step_gate` | the baton: 3 sequences, tickets up to 6; the pool: no worker, 1 worker with 2 callers or 2 calls, 2 workers, up to 2 tasks of which one may panic; the server: 1 slot, 2 requests, a deadline, with and without a forced tool choice, or 1 request, 2 deltas and 2 drains; the DRAM tier: 1 slot, 2 blocks, 2 or 3 threads | 145 395 | exclusion, order, everybody's turn; the pool implements `ForkJoin`, its closures outlive their use, calls come back; permits come back, replies are honest, nobody is billed for another; every waiter of the DRAM tier wakes |
| `gpu_turns` | 2 generations, 1 chunk, 2 steps | 240 162 | the pool is synchronised inside regions, an abort costs one more step at most, every generation ends |
| `parallel_seam` | 3 requests, 3 slots, context 6, `MIN_SEED` 2, prompts sharing a prefix; three setups: errors everywhere, a prompt that is refused, both with panics | 577 396 | slots exclusive and never lost, sleepers woken, cached rows sound |
| `on_disk` | download: 5 objects of 1 or 2 versions of 1 to 3 chunks, up to 2 connections, 2 attempts, 3 runs; store: 4 repositories, one without the default quant, 3 calls, up to 2 processes and 2 jobs; cache: 3 machines of 2 or 3 instances, 2 or 3 saves | 1 617 186 | blobs are one object, partials sound, a quiet run commits; snapshots are one commit, a cached model stays, yes means there; the tripwire holds |
| `kv_stale` | five setups, each sufficient by itself | | **violated**: stale reads |
| `gpu_pool` | two setups, each sufficient by itself | | **violated**: GPU work outside the baton |
| `vram_abandoned` | as `pager` | | **violated**: a slot is hit whose bytes never arrived |
| `seam_refused` | a copy may fail, a prompt be refused | | **violated**: a free slot claims rows that were overwritten |
| `seam_panic` | a panic while seeding | | **violated**: two slots lost |

Why the bounds are enough. *pager*: one block more than the slots suffices for an eviction, two for
an order among victims, and three batches let a stamp be current, previous and older; three slots
leave a hot, a cold and a displaced block. For streams, four blocks over three slots make every forward
evict; a half of one block makes every miss rotate, so that both halves come round; two forwards let the
second meet what the first left, whole or aborted; two choices of the router may name one expert twice, and in
either order; the tape of three windows overflows. *host_pager*: the hazards are between a loader, a waiter
and an evictor (three threads) over fewer slots than blocks; a second pin per caller is what makes
exhaustion possible. *kv_session*: the window is smaller than the ring and the ring smaller than the
context, so that rows wrap; a prompt has more than one chunk; a turn has at least two sampled tokens,
so that a chain can stop in its middle. Two tokens are enough to make streams differ. The numbers of
turns is not bounded. With two drafts none, some or all can be accepted; five new tokens let a window of
rejections outgrow the tile, so that a re-prime and the cycle after it happen. *step_gate*: three sequences give a releaser, the next and one behind it; six
tickets let each come twice. `MaxTickets` is the only bound on the counters and the proofs do not
need it to be small. *gpu_turns*: two generations are one on the pool and one beside it;
`MaxTickets` = 13 exceeds what they can draw, an assumption TLC evaluates. *parallel_seam*: a seed
occupies two of three slots, so a third request can take the last and a fourth role, the sleeper,
arises from any of them. *The pool*: with one worker the caller and it share the cursor, with a second
caller one finds the pool taken; two calls let a panic flag or a park token survive into the next job;
two workers let one check in while the other still runs. *The server*: two requests over one slot give
a holder and a waiter; two drains close a window before and inside an update. *Download*: three runs
are one that leaves something, one that stumbles over it and one that recovers; two chunks and two
connections let a worker fail while another writes. *Pull*: two jobs or two processes, two commits; without the default
quant, a model of two shards, so that a part of it can be left, and one of one file beside it.
*Kernel cache*: siblings in one process, another process, and a third that sweeps after both.

Deadlock is checked except where a system really stops: after the owner's panic, the last pass and the last forward
(`pager`), when all generations are over (`gpu_turns`), at the ticket bound or when the pool is dropped
and the requests are answered (`step_gate`), when every request has panicked (`parallel_seam`), and
after the last run, call or process (`on_disk`).

Symmetry is used over interchangeable blocks, threads, tokens or requests, in runs without liveness
properties only; the setups of those runs are closed under it.

### The properties worth knowing

- `LeasedReads` (`ImplementsLeases`): seen from outside, whatever threads and reads do, a borrowed
  block shows its own bytes, whole, from the moment it is lent until it is returned.
- `FloorSuffices`: with a slot per simultaneous pin, `pin` never reports exhaustion. It would fail if
  any error path leaked a pin, or a fill displaced a block.
- `ScansAreCheap`: a cyclic sweep keeps a prefix of its layers in their slots, cold insertion is at most
  one hit per pass behind the offline optimum, and no scan displaces more of the hot set than its
  widest batch.
- `DeviceSeesWhatWasMeant`: however far the device lags behind, a copy finds the block in the ring that
  it was recorded for and a dispatch finds its blocks in the slots it was told, by address or by window.
  It takes the rotation's fence, both barriers around the copies, the frozen windows and the batch
  epochs together; without the fence, or without the arena barrier before or after the copies, TLC
  finds it violated (what the seed barrier orders beyond those is scratch memory, not modelled). Blocks
  whose copy was thrown away with an aborted recording are excepted; `ResidentAtExecution` is the same
  without the exception, and fails.
- `SegmentsAreRetired`: a forward returns, also from an abort, only when nothing it submitted still
  executes (its buffers are freed then), and few segments ever pile up.
- `BookkeepingAgrees`: the pager's residency, the state map and the pin counts tell one story, through
  every failed read, and `resident_count` and the free list agree on whether there is room.
- `NoStaleReads`: every forward reads rows and states of its own stream only. It is stated of the
  whole history (`exact`), so one bad read in any turn violates it. It holds of full-length caches
  with any mix of aborts, errors, rewinds and resets; `Dependable` says under which use it holds of
  rings and recurrent layers, and `kv_stale` shows that it fails outside.
- `CachedIsResident`: at every moment, in the middle of a turn that may end there in an error too,
  every token a full-length cache claims has its row. `FedRowsAreKept` is its counterpart: a turn
  that ends well leaves every position it fed reusable.
- `JudgedInContext`: in every cycle, whether the one before accepted all, some or none of its drafts,
  restored, re-primed or did neither, each candidate meets the row that saw exactly the committed
  stream and the candidates before it. It fails if a rollback leaves `cached` and the state apart, or
  the base of the batch is off by one; and the re-prime comes in time to keep a verify in its small tile. `HeadFollowsTrunk`: between cycles the draft head's cache is the
  committed stream with the trunk's hidden states, no rejected row left.
- `RoundRobin`: fewer than |Seqs| turns lie between a waiting sequence and its own.
- `AbortStopsSoon`: after an abort at most one chunk or step still runs, the one already past its
  poll, which includes one that waits for the baton.
- `SleepersAreWoken`: while a request sleeps, each free slot is matched by a thread that will look
  for one or is about to wake somebody, although only one is notified and newcomers may barge in.
- `CachedRowsSoundWhereAccepted`: what a free slot says it holds it holds, through failed copies and
  failed generations, as long as no over-long prompt is refused after a failed copy.
- `KeepsItsPromise`: the spin pool refines `ForkJoin`: every task of a call exactly once, a panic
  exactly when one of its own tasks panicked, however callers, workers and rayon interleave.
- `ClosureOutlivesItsUse`: whoever may still touch the borrowed closure does so inside its caller's
  call, with that call's generation and task count; no thread outlives the drop.
- `NobodyElseIsBilled`: the interval counter never loses tokens another request generated.
- `EveryReplyIsHonest`: a reply that goes out ends in one terminal frame and is counted once (a buffered
  one whose client hung up never goes out and is not counted); it says `error` when and only when the
  generation failed, `tool_calls` when and only when a call was sent, also under a deadline, and never
  `stop` when the deadline cut it: then a call was sent, or it says `length`, or a forced call was cut and
  it is an error. A forced choice gets its call or an error, never a reply without one.
- `BlobIsOneObject`, `PartialIsSound`: what is committed is one version whole, and what is left on
  disk is what its validator or plan says, after any sequence of kills, power losses and re-uploads.
- `QuietRunCommits`: no leftover is a dead end: a run in which nothing fails ends with the blob.
- `StaysCached`, `YesMeansThere`: a pull, however stopped, never makes a model unfindable, unless another
  process pulls beside it or it pulls a fallback (`Fallback`, section 4); and it says yes only when every
  shard is linked.
- `TripwireHolds`: a file a dead run had been seeded with is still accused as long as it exists.

Every property has a mutant in `PROJECT.json`: a plausible slip in one mapped definition (kept in the
module next to the original) that makes TLC report that property violated.

### Fairness

Weak fairness, per thread, of the steps a thread takes by itself once inside a call: a runnable
thread runs, a mutex is eventually had (sections are short and finite), reads and submits return
(the code has no cancellation of either). Nothing is assumed of callers: nobody has to ask, drop a
pin, abort, or fail. Spurious wake-ups are not fair. In the pool a worker's next step, a call's next
step and a begun drop are fair, but nobody has to call or to drop the pool. In the server admission,
a task's own steps and its timers are fair; that a generation ends by itself, or that a client hangs
up, is not assumed. `WaiterWakes`, `EveryTurnComes`, `GenerationEnds`, `CallsComeBack` and
`SlotsComeBack` are checked under it. `on_disk` states no liveness: its runs may always be killed, and
`QuietRunCommits` and `YesMeansThere` say what the last step of an undisturbed run has done. For `HostPager`, that a call which wants a block eventually
returns is not claimed: a woken waiter may find the block evicted and loading again, for ever.

## 4. What the violations show

Twenty-four disagreements between the code and what its comments say (`findings` in `PROJECT.json` quotes
the lines). To see one at a time, give `Setups` the setup named.

- `kv_stale`, `NoStaleReads`: `HybridChain` (a chain that ends in its middle leaves surplus tokens in
  the recurrent state), `HybridReset` (the first prompt after a reset counts as an extension of
  nothing, so the state is not zeroed), `HybridAbort` and `RingAbort` (an aborted prefill has
  advanced the state or recycled rows, and the next turn extends what is left in `cached`),
  `RingRewind` (the ring guard measures from a length an earlier rewind has shortened).
- `gpu_pool`, `PoolSynchronised`: `MCZeroing` (uploads that zero the state take no baton) and
  `MCUnwinding` (an error in the decode loop drops the replay plan after the pass).
- `vram_abandoned`, `ResidentAtExecution`: a block is resident from the moment its copy is recorded. A
  forward that fails afterwards (a read from the file, a later op) discards the recording, nothing evicts
  the block, and the next forward hits a slot that holds something else. The DRAM tier evicts in
  the same situation (`Abandon`).
- `seam_panic`, `NoSlotBurned`: a panic in the copy unwinds before a `SlotGuard` exists.

- `seam_refused`, `CachedRowsSound`: a copy that fails half way has overwritten rows of a slot whose
  tokens stay, and a prompt refused right after returns the slot before anything was prefilled.

- `pager`, `ScansAreCheap`: the hit count of `schedule` is documented as the offline optimum's; at
  most one hit less per pass is what holds.

The others have no violation run of their own. The histories of section 2 except them from a property
that is checked, and TLC violates that property when the exception is taken out:

- Download: a kill between refreshing the validator and truncating the partial; a plan and a run of
  which only one knows a sha256 (both `strayed`); the stream's rename without a sync (`durable`).
- Pull: files fetched from `main` and linked under the commit asked for (`mixed`); a link removed and
  made again while another process pulls (`alone`).
- Pull: without a selector, where the repository lists no default quant, a pull takes the first model of the
  hub's listing, and the cache the first of a directory in which a stopped pull may have left a part of
  another model (`NoDefault`). What was pulled is then not found although `store.rs:125` promises it is; the
  next run pulls it again, alone, and on the way unlinks a model that was whole (`Fallback`).
- Server: a deadline that cuts the body of a forced tool call, which then does not parse: the turn is an
  error and a 500, where the comment at the deadline says that one is a truncation and that a 500 would
  throw away work. The comment at the forced call (the call or an error) is kept; the two cannot both be,
  and `EveryReplyIsHonest` allows the error to a forced choice only (`Stops`).
- Server: a drain inside an update of the counters (`straddled`); a buffered request whose client hung
  up has lost its deadline (`Abandoned`).
- Kernel cache: a sweep killed between the markers and the file, or overtaken there (`took`).

- MTP: a draft's first row pairs the last committed token with the position after it, which is not the
  convention its comments state; `JudgedInContext` shows that the committed stream does not care.

Three were read in the code and not modelled: the seeding error path of the sequential pool, process
numbers that are used again, and the unsynced marker.

## 5. What is proved

With TLAPS. The assumptions used are the named ones of the modules: `SeqsFinite` for the baton and
the generations, `RequestsFinite`, `NSlotsPositive`, `MaxCtxPositive` and `KnownSetups` (prompts and
replies are non-empty sequences of tokens) for the pool of slots, `NSlotsPositive`, `NoBlockIsNoBlock` and `BlocksFinite` for the block cache, and with the first two
`ThreadsFinite`, `MaxPinsPositive` and `TiersAreTiers` for the DRAM tier. The theorems about the CPU
pool carry theirs in the statement: `Sized` (a pool has a natural number of workers, a job a natural
number of tasks, and the empty slot is no caller), which `StepGate.cfg`'s values satisfy. A slot's
conversation and the draft loop use `KnownSetups` of `KvSession` (sizes positive, a window no larger
than the context) and `KnownMtp`, which states what `mtp/backends.rs` allocates and which models have
a draft head. `MCOnDisk` adds what it assumes of the objects and the repositories: `KnownObjects` (an
object has at least one version; sizes and cap are natural numbers), `OwnConn` (a run fetches over its
own connection, whatever the pull has to spare: `ranged.rs:186`), `KnownSetups` (a repository has a commit,
a pull at least one worker; two models share no shard, no shard is listed twice and the companion is
none; no quant is called `none`), and `ModelsAreWhole`: a commit that lists a shard lists the whole
model (where one is missing upstream a pull of it fails, rightly). Those about the kernel cache and the server assume nothing.

`PagerOpsProofs`: what each method of the pager preserves, for any set of blocks and any number of
slots. `Sound` says that no two blocks share a slot, no slot is free and in use, the recency order
lists every resident block once, and free and resident slots add up to `NSlots`; `Without` says the
same of a pager one slot of which has been handed out. `SlotFromSound` leads from the first to the
second, `InsertSound` back; the other lemmas say what moves: `MissAndPin` evicts no pinned block,
`Touch` none of the open batch, and neither moves a block it does not evict.

`PagerProofs` (about `Spec` of `Pager`): `NoSlotIsLost` (`Sound` always holds) and
`BatchKeepsItsSlots` (`BatchSurvives`). The strengthening is `EpochsTell`: once a batch is open, the
resident blocks stamped with its epoch are the ones it has touched, and no stamp is of the future,
so opening the next batch frees them all. A panic then means that all `NSlots` resident blocks are
of the batch and the block asked for is one more.
`EverySlotAccounted` (`SlotsAccounted`) adds that the recency order is the reverse of the latest
`NSlots` blocks touched. Which block goes is decided by the stamps and not by that order, so this needs
`RecencyInv`: along the order the stamps never fall. If the coldest block is of the open batch, all are,
and the miss panics; otherwise the coldest is the victim, as in plain LRU.
`ScansSpareTheHot` (`ScanResistant`): a scan inserts at the cold end, so what it has put in since the
hot set was seen stands before every block that was hot, and a batch is replaced from the front
(`ScanInv`); the hot set loses no more than one batch can push out.

`SweepsAreNearOptimal` (`ScansAreCheap`, about `MCSpec` of `MCPager`, which drives the same operators
as batches, sweeps or streams; it adds `DrivesAreBounded`: the bounds are numbers, and, for the streams, `KnownModels`). `SweepInv` tells the
whole recency order of a sweep: the place the last visited layer sits in churns, the others keep theirs, so
hits are a closed formula of the place reached in the pass. Belady's policy is not simulated step by
step: what it has hit in a pass plus those of its blocks the pass has still to visit is its full set or one less (`Claim`). The first
miss of a pass may cost it one such block, every later one drops the layer just visited, which this
pass will not visit again.

`ForwardsReturnWhenDone` (`SegmentsAreRetired`) and `TheDeviceSeesWhatWasMeant`
(`DeviceSeesWhatWasMeant`), also about `MCSpec`: for any models that satisfy `KnownModels`, any number of
slots, any size of ring and tape and any bound on the segments. `KnownModels` says what loading a
model establishes: an op of a dense model needs one block, an arena holds the experts of one op
(the floor of `seam/mod.rs:2099`), and a router chooses at least one expert. The strengthening is `StreamInv`; all of
it is about `Ahead`, what the device has still to do followed by what is still being recorded:

- `QueueInv`: two commands that must not pass one another (a copy and a read, two copies into one slot)
  have a barrier between them (`Apart`), and each read, *were everything before it done*, finds its
  blocks (`Holds`: the last copy into the slot, or what is there if none). So the device may be any
  number of commands behind, and may run in any order what no barrier orders: when a read is
  executable, no copy is left before it, and what its slots would hold they do hold.
- `RingInv`: the ring position of every copy ahead still has the copy's block, because it lies below
  the cursor of the half that is being filled, or a fence the half waits for comes after the copy.
- `Believed`: what the pools and the mirror say of a block holds at the end of `Ahead`, except for the
  blocks whose copy was discarded (`lost`). This is what a dispatch recorded next may rely on.
- `DenseInv` and `MoeInv`: half-way through an op. Since the last barrier of the segment there are only
  copies, for this role or an earlier one, and those for this role go where its pool still has
  their blocks, which the open batch protects (`BatchFits`); so a copy meets no copy into its slot.
  The windows of the roles so far agree with the mirror.
- `FenceInv`: every fence ahead is of a segment in flight, once, and is the last command there is unless
  the walk waits for the queue; so when an abort has waited for all of them the device is idle,
  and there are never more than the splitter's and one for each half.

Every action of the walk has its step lemma (`SplitStep`, `WindowStep`, ...), and `ExecuteStep` one for the
device: taking out any executable command leaves all this true.

`OnlyAbortsLoseBlocks` says what `vram_abandoned` leaves open. That run shows `ResidentAtExecution` violated;
the theorem is that it holds in every behaviour in which `lost` stays empty, that is no recording with
copies in it is discarded and no fill fails: so the discarded work is the one cause. Such a
behaviour only issues dispatches recorded for all they need (`WholeInv`), and for those the two
properties are the same.

`HostPagerProofs` (about `Spec` of `HostPager`), for any finite set of threads, any blocks, any
number of slots and any tier:

- `TierBooksAgree` (`BookkeepingAgrees`), `SlicesNeverAlias` (`NoDataRace`), `LendsWholeBlocks`
  (`Spec => ImplementsLeases`, the refinement) and `EnoughSlotsSuffice` (`FloorSuffices`).
- The argument. Neither property is inductive: that two slices do not alias depends on who evicts.
  `TierInv` says of every borrow that it points to the slot its block is in, that a read borrow is of
  a ready block and a write borrow of one that is loading, by the thread that loads it and nobody
  else; that a ready block's bytes are whole; and that the pin count of a block is the number of its
  borrows. A claim may therefore take the slot of an unpinned block: nobody points to it. A read that
  ends writes a slot only its own thread points to. The refinement follows because a step changes one
  borrow at most. For `EnoughSlotsSuffice`, `WithinTier` bounds the borrows by callers times pins: when no
  slot can be given, every resident block has a borrow, the borrows therefore map onto `NSlots`
  blocks, and the caller's own pin is not among them.

`HandshakesProofs`, about the three parts `MCHandshakes` composes. The gate (`Gate!Spec`), for any
finite set of sequences:

- `GateTypeCorrect`, `OneAtATime` (`OneBaton`), `TicketOrder` (`FirstComeFirstServed`),
  `NoLostWakeup` (`NobodyForgotten`), `FairTurns` (`RoundRobin`), and the invariants they rest on,
  `TicketsKept` (`GateInv`) and `NoTicketLost` (`TicketsCounted`).
- The argument. `OneBaton` alone is not inductive, since it says nothing about which waiter a
  `Recheck` may let in. `GateInv` adds that the tickets of queued sequences lie in
  `serving .. next - 1`, that no two are equal, and that whoever is inside has the one being served;
  then two inside would have equal tickets. `NobodyForgotten` is preserved because the step that
  advances `serving` is the one that puts its thread before `notify_all`. `RoundRobin` needs a count:
  `next - serving` is the number of queued sequences, so a waiting one's distance is less than |Seqs|.

The CPU pool (`Spec` of `SpinPool`), for any callers, workers, jobs and panics:

- `NoClosureIsDangling` (`ClosureOutlivesItsUse`) and `EachTaskRunsOnce` (`Spec => KeepsItsPromise`,
  the refinement of `ForkJoin`).
- The argument. The closure property says nothing about workers that are elsewhere, so it is not
  inductive. `PoolInv` adds what the code relies on: one caller is on the pool, and the slot is its
  own; during a job a worker that began it has seen its sequence number, and `done` is the number of
  those that have seen it and are through; between jobs *everybody* has seen the last number and is
  at no job (`QuietBetweenJobs`), which is what waiting for `done` to reach the number of workers
  buys; a drop begins with nobody on the pool. For the refinement, `TaskInv` says that a task below
  the cursor is in exactly one thread's hands or has run exactly once, that who is through has seen
  the cursor past the last task, and that the panic flag is that of the job at hand. A task then maps
  to a task of the caller whose job it is, the release of the pool to the return or the panic, and
  every other step of the handshake to a stutter.

The server (`Server!Spec`), for any requests, permits, deadlines, deltas and drains:

- `RepliesAreHonest` (`EveryReplyIsHonest`). `EndingInv` adds what the property is silent about while
  a request is under way: the queue holds distinct waiting requests and nobody else waits; the latches
  agree (a watchdog that fired has cancelled, and nobody is cancelled by a deadline he does not have);
  a call was sent only by a generation that ended well, and of a forced choice always (`CallsSent`);
  and for each stage of the answering task what has been told so far, so that the terminal frame, the
  count and the `[DONE]` are each still owed exactly until the step that gives them.
- `NobodyIsBilledForAnother` (`NobodyElseIsBilled`). `BillInv`: a request's share of the open interval
  is what it believes it put there as long as the window it believes in is the open one, also between
  the two accesses of an update, unless a drain fell in between; a retraction never takes more.

`GpuTurnsProofs` (about `Spec` of `GpuTurns`):

- `UsesTheBaton`: every step of a generation is a step of the gate or leaves it alone, so
  `Spec => Gate!Spec`, and with it everything proved of the gate holds inside the runner.
- `PoolIsSynchronised` (`PoolSynchronisedInRegions`): for a model without recurrent state whose steps
  do not fail, nobody is ever in ungated work, so being on the GPU is being inside the gate.
- `AbortsStopSoon` (`AbortStopsSoon`), for recurrent models and failing steps too. It is not inductive:
  `AbortInv` adds that a region that has begun has something left to do, and that a generation which
  waits for the baton or holds it has not been late before, because it polled the abort just before
  it asked; once it has been late, its next poll ends it.

`ParallelSeamProofs` (about `Spec` of `ParallelSeam`), for any set of requests, any number of slots,
any prompts, context and faults:

- `SlotsStayExclusive` (`SlotsExclusive`): a slot is free with its KV in the pool, or reserved by
  exactly one request. `NoSlotIsBurned` (`NoSlotBurnedBarringPanics`): where no copy panics, every
  reserved slot is some request's, whichever steps fail.
- The argument. `SlotsExclusive` says that a slot is busy exactly when its KV is gone, so it is
  preserved only if what a request puts back *is* a KV. `SeamInv` adds the types and `Carried`: a
  seeding request has two different slots and both their KV, one that generates has one, and every
  other has none. The lemmas show that copying, failing to copy, generating and cutting back yield a
  KV, and `ChosenAreFree` that both slots of a checkout are free and different.
- `NoWakeUpIsLost` (`SleepersAreWoken`): while a request sleeps, the free slots are no more than the
  threads that look for one or are about to wake somebody. Given `SeamInv` it is inductive; the
  lemmas count the four ways a step can move both sides (nothing freed, one freed and one coming,
  one comes and takes, one goes and another comes). `notify_one` is what keeps the balance: a freed
  slot whose wake-up is left out is on one side only.
- `CachedRowsAreSound` (`CachedRowsSoundWhereAccepted`, with the module's `TypeOK`): a free slot
  claims no row it does not hold, unless a copy failed *and* a prompt was refused. `RowsInv` says why
  a failed copy does no harm otherwise: the source was chosen because it shares *more* of the prompt
  than the target does, so the rows the copy overwrote before failing are past what the prompt
  continues (`SharedWithBoth`: two sequences that share n tokens with a third share them with each
  other), and the generation writes all from there on. A refused prompt never generates, which is the
  finding of `seam_refused`. `SharedIs` proves that the model's counting definition of a common prefix
  is the longest one, `UsedKeepsOrder` that an LRU touch keeps every slot in the order.

`MtpProofs` (about `MtpSpec` of `Mtp`), for any tokens, prompts, context, window, drafts and length of
a conversation; the plain turns of `KvSession` are the case without a draft head:

- `ReadsAreOwn` (`NoStaleReadsWhereDependable`), `ClaimsAreBacked` (`CachedIsResident`) and
  `NothingFedIsForgotten` (the action property `FedRowsAreKept`). `SlotInv` says, in a turn and
  between turns, that every row a continuation of the stream may still read holds the very prefix it
  stands for (in a ring: the last `window` rows, which is why a ring needs `window + ubatch` rows, see
  `RingDistinct`), that the recurrent state has absorbed exactly what was fed, and that the turn's
  claim is a prefix of what it feeds. `SlotStaysSound` proves that every step of a turn keeps it.
- `DraftsAreJudgedInContext` (`JudgedInContext`) and `HeadStaysWithTrunk` (`HeadFollowsTrunk`).
  `LoopInv` says for each stage of a cycle what the slot holds: before the resume nothing that reaches
  the newest token (or all, when its row is carried over), after it a prefix of what the verify will
  feed, few enough to fit the batch when re-priming; after the verify, that the returned rows are the
  last ones of that feed. The checkpoint is the state at a boundary inside the committed stream. The
  head has a row for every committed token, and what it has beyond them is overwritten.

`OnDiskProofs`, about the three parts `MCOnDisk` composes (`EachPartIsItself`: a behaviour of the
composition is one of each). The kernel cache (`Spec` of `KernelCache`), for any processes, backends,
saves and upgrades, with a kill between any two steps:

- `TripwireAlwaysHolds` (`TripwireHolds`) and `PoisonIsNotPassedOn` (`LostRunsLeaveNothing`).
- The argument. `CacheInv` adds that nothing runs in a process not yet launched, that nothing was
  seeded before the file was read, and that accused files exist and were accused by runs that were
  killed. A marker then goes in two ways only: its own run disarms it, which a killed run cannot, or
  a sweep takes it, which takes no marker of a live process and owes the file its deletion; and a
  file written later is not the accused one, its number being new.

The model store (`Store!Spec`), for any repositories, processes, workers and pushes upstream:

- `SnapshotsAreOfOneCommit` (`SnapshotIsOneCommit`). `OneCommitInv`: who pulls pulls the commit main
  names or one main has left since, and then that commit is in `mixed`; what a worker carries for a
  commit not in `mixed` has that commit's sha256 and bytes. The step that could break it is
  `Moves`, between a worker's HEAD and its GET: it adds the commit under pull to `mixed` at once.
- `PulledModelsStayCached` (`StaysCached`). The property says nothing of where the model
  is. `CachedInv` does: while a pull is alone, whatever could be resolved when it began is whole in some
  snapshot, and if that is the one being written, the pull is of other shards. That holds when the
  shards are chosen, because a quant is pulled only if the snapshot does not hold it whole
  (`PulledIsMissing`) or is a fallback, which the property leaves out from then on (`Lasting`), and a worker carries only shards its pull chose. `ResolvableMeans` says which snapshots make a search succeed
  whichever order it takes.
- `YesIsTheTruth` (`YesMeansThere`, an action property). `YesInv` says how far a lone pull has come.
  `Progress`: while nothing has failed, every shard before the cursor is linked or in a worker's hand,
  and some worker is not off until the cursor is past the last one; so when all are off (`Join`) every
  shard is linked, and a worker that stopped early has left `failed` or `signal` behind. `Smooth`, for
  a pull that nothing disturbs: main still names its commit, what it fetches is there, no two workers
  hold one file, and a name about to be linked is free, so `link_blob` cannot refuse it.

The download (`Fetch!Spec`), for any objects, connections, attempts and replacements upstream, with a
kill or a power loss between any two steps:

- `BlobsAreOfOneObject` (`BlobIsOneObject`) and `PartialsAreSound` (`PartialIsSound`).
- The argument is `FetchInv`. `OnePartial`: at each place of a run, which of the two partials may
  exist and whether there is a plan. `PlanIsAgreed`: past `reconcile` the plan and the probe describe
  one version, and a plan that names a sha256 is continued without one only by a run that `strayed`.
  `DoneIsThere` and `WorkersHold`: a done cell is written, durable and of the plan's version, a cell
  in a worker's hands is claimed, nobody else's and not done, and what it holds came from the version
  the plan names, because the range request carried that validator; so `Mark` comes after `Sync` and
  no later write tears a done cell. `StreamIsPrefix`: the validator is refreshed before the partial is
  cut, so only a death between the two (`strayed`) leaves bytes under another version's validator.
  At a commit all cells are done, or the stream is as long as its version, and the bytes are one
  object's.
- `QuietRunsCommit` (`QuietRunCommits`, an action property). `QuietInv` is about the runs the property
  is: validators, no power loss, none that strayed, and since the run began no failure and no new
  version (`Undisturbed`). Such a run knows the version upstream (`RunIsWell`), so no range request is
  answered with the whole object, `reconcile` throws a partial away at most once (`AgainIsFresh`), and
  a 416 means the partial is complete or is cut. Its workers leave only when the cursor is past the
  last cell and none is in a hand (`CrewIsWell`), so all are there when they are joined. What the gate
  is handed then is the version upstream (`AssemblyIsNew`): a stream under its validator, or cells
  the plan calls done. The hard part is cells an earlier run fetched under a sha256: that run's plan
  names one, this run's `want` agrees with it (`OidsAgree`), and versions only grow upstream, so a cell
  no older than the sha256's version and no newer than the one upstream is of that very version
  (`DiskIsOlder`).

Each invariant and each action property the passing runs check is thus the subject of a theorem, and so are
the refinements. Only model-checked, at the bounds above: the liveness properties `EveryTurnComes`, `CallsComeBack`,
`SlotsComeBack`, `WaiterWakes` and `GenerationEnds`. Liveness under fairness and `ENABLED` are out of the prover's
reach and left to TLC for good, as is what recursive definitions compute for all inputs (induction over data).

## 6. What is not modelled, and why

Numerical kernels, command recording, tokenizers, templates, text parsing, configuration, profiling,
platform wrappers and the command line: data transformations or pure I/O, outside what a model of
control flow says anything about; they are most of the repository's lines. `components` in
`PROJECT.json` lists each with its reason. With control of their own, and left out:

- **Sequential `SlotPool`** (`seam/model.rs`): `ParallelSeam` without threads; one finding was read off.
- **The VRAM tier's immediate path** (`ensure_resident`, `touch_role`), which submits and waits block by
  block, the recorder's hazard tracker, and **multi-device reduction** (`tp*.rs`): the order of device
  work between queues, whose reference is the Vulkan memory model. The scratch buffers of a forward
  are not modelled either, beyond `SegmentsAreRetired`: that nothing executes once they are freed.
- **Server shutdown, stop matcher, sizing rules** (`plan_slots`, `plan_pieces`): sequential algorithms.

## 7. Plan

1. The sequential pool.
2. The timeline semaphores of tensor parallelism.
3. `plan_slots`, `plan_pieces` and the stop matcher against reference definitions.
