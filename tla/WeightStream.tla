---------------------------- MODULE WeightStream ----------------------------
(***************************************************************************)
(* How the VRAM tier streams weights into a forward (infr-vulkan:           *)
(* execute_static and execute_paged_moe in adapter.rs, GpuPager and its two   *)
(* sessions in pager.rs, the segments of recorder.rs).  The CPU walks the      *)
(* graph and records commands; a block that is not resident is written into     *)
(* a staging ring of two halves and a copy from there to its arena slot is       *)
(* recorded.  Segments of the recording are submitted without waiting, and the   *)
(* device executes them behind: its commands are ordered by barriers only, and    *)
(* what it reads is what ring, tape and arena hold by then.                 *)
(*                                                                         *)
(* Every slot of the ring and of the arenas holds one block.  The barriers the    *)
(* recorder's own hazard tracker adds (Recorder::sync) are left out: it does not   *)
(* see reads of the arena, which go by address.                             *)
(***************************************************************************)
EXTENDS PagerOps, FiniteSets

CONSTANTS
  Models,       \* the models that are streamed, and how
  MaxInflight,  \* MAX_INFLIGHT of execute_static
  MaxForwards   \* bound: forwards of one behaviour

(* kind: "dense" blocks are the weights of Linear ops, "moe" blocks the experts *)
(* of MoeFfn ops; ops: the blocks each op may need; pools: one arena per role    *)
(* of an expert (one for a dense model); routed: how many choices a router makes   *)
(* for the rows of a narrow batch; half: the blocks a ring half holds;            *)
(* tape: the windows the LUT tape holds; splits: whether the device needs short  *)
(* submits; faults: whether ops and reads below may fail.                   *)
VARIABLES
  model,
  pg,         \* per pool: the Pager
  lut,        \* per pool: lut_host, the slot a dispatch is told for a block
  arena,      \* per pool and slot: the block whose bytes are there
  ring,       \* per half and position: the block whose bytes are there
  tape,       \* the LUT tape: windows, each a map from an op's blocks to slots
  run,        \* execute_static, and where it is
  device,     \* what was submitted and is not yet done
  forwards,   \* forwards begun
  lost        \* history: blocks a pool has placed whose copy was never submitted

vars == <<model, pg, lut, arena, ring, tape, run, device, forwards, lost>>

Pools == 1 .. model.pools
Halves == {0, 1}
Dense == model.kind = "dense"

Barrier == [do |-> "barrier"]
Fence(f) == [do |-> "fence", id |-> f]

(* rec: the segment being recorded; pending, segments: PagedStream::pending and   *)
(* the splitter's in-flight segments, by fence; words: tape_cursor; ids: the       *)
(* blocks the op stages in every role, todo: those it has still to stage in this;   *)
(* windows: the tape windows of the roles so far.                            *)
Idle ==
  [at |-> "idle", op |-> 1, wide |-> FALSE, rec |-> <<>>, fences |-> 0,
   half |-> 0, cursor |-> 0, pending |-> [h \in Halves |-> 0], segments |-> <<>>,
   words |-> 0, role |-> 1, ids |-> <<>>, todo |-> <<>>, windows |-> <<>>]

Init ==
  /\ model \in Models
  /\ pg = [p \in Pools |-> NewPager]
  /\ lut = [p \in Pools |-> [b \in Blocks |-> NoSlot]]
  /\ arena = [p \in Pools |-> [s \in Slots |-> NoBlock]]
  /\ ring = [at \in Halves \X (0 .. model.half - 1) |-> NoBlock]
  /\ tape = [w \in 1 .. model.tape |-> <<>>]
  /\ run = Idle
  /\ device = <<>>
  /\ forwards = 0
  /\ lost = {}

session == <<pg, lut, arena, ring, tape, lost>>

-----------------------------------------------------------------------------
(* The device: a command may run once everything before the last barrier that    *)
(* precedes it is done; a fence signals once everything before it is done.   *)
Executable ==
  {i \in DOMAIN device :
     device[i].do \in {"copy", "read"} /\ \A j \in 1 .. i - 1 : device[j].do # "barrier"}

Signalled(f) == Fence(f) \notin ToSet(device)

Execute(i) ==
  LET c == device[i]
  IN  /\ i \in Executable \/ i = 1
      /\ device' = RemoveAt(device, i)
      /\ arena' = IF c.do = "copy" THEN [arena EXCEPT ![c.pool][c.slot] = ring[c.from]]
                  ELSE arena
      /\ UNCHANGED <<model, pg, lut, ring, tape, run, forwards, lost>>

-----------------------------------------------------------------------------
(* The graph walk.  PagedStream starts anew in every call.                   *)
Start(wide) ==
  /\ run.at = "idle" /\ forwards < MaxForwards
  /\ Dense => ~wide
  /\ forwards' = forwards + 1
  /\ run' = [Idle EXCEPT !.at = "op", !.wide = wide]
  /\ UNCHANGED <<model, session, device>>

Op == model.ops[run.op]
InGraph == run.op <= Len(model.ops)

(* Submission without waiting (finish_nowait).                               *)
Submitted(f) == device \o run.rec \o <<Fence(f)>>

(* The splitter closes a segment of enough dispatches between two ops and waits   *)
(* for the oldest once there are too many.  A new recorder that continues a         *)
(* stream begins with a barrier (seed_barrier).                              *)
Split ==
  /\ run.at = "op" /\ InGraph /\ model.splits
  /\ \E i \in DOMAIN run.rec : run.rec[i].do = "read"
  /\ LET f == run.fences + 1
         segments == Append(run.segments, f)
     IN  /\ device' = Submitted(f)
         /\ run' = [run EXCEPT !.at = IF Len(segments) > MaxInflight THEN "retire" ELSE "op",
                               !.rec = <<Barrier>>, !.fences = f, !.segments = segments]
  /\ UNCHANGED <<model, session, forwards>>

Retire ==
  /\ run.at = "retire" /\ Signalled(Head(run.segments))
  /\ run' = [run EXCEPT !.at = "op", !.segments = Tail(@)]
  /\ UNCHANGED <<model, session, device, forwards>>

-----------------------------------------------------------------------------
(* The residency of one block.  q is the pool's pager with the batch open.   *)

Policy == IF Dense \/ run.wide THEN "Cold" ELSE "Mru"
Here == <<run.half, run.cursor>>
Full(p, b) == ~IsResident(pg[p], b) /\ run.cursor >= model.half

(* touch_staged, schedule_staged: on a miss the block is written into the ring,   *)
(* the copy recorded and the placement mirrored.                             *)
Stage(p, q, b) ==
  LET t == Touch(q, b, Policy)
  IN  /\ pg' = [pg EXCEPT ![p] = t.pager]
      /\ IF IsResident(q, b)
         THEN UNCHANGED <<lut, ring, lost>>
         ELSE /\ ring' = [ring EXCEPT ![Here] = b]
              /\ lut' = [lut EXCEPT ![p] = [c \in Blocks |-> IF c = b THEN t.slot
                                                            ELSE IF c = t.evicted THEN NoSlot
                                                            ELSE @[c]]]
              /\ lost' = lost \ {<<p, b>>, <<p, t.evicted>>}
      /\ UNCHANGED <<arena, tape>>

Copies(p, q, b) ==
  IF IsResident(q, b) THEN <<>>
  ELSE <<[do |-> "copy", pool |-> p, slot |-> Touch(q, b, Policy).slot, from |-> Here, blk |-> b]>>

CursorAfter(q, b) == IF IsResident(q, b) THEN run.cursor ELSE run.cursor + 1

(* A dispatch that reads blocks: by an address baked into it (dense) or through    *)
(* a window of the tape.  sound: those of them that are not gone.             *)
Read(p, window, slot, blocks, gone) ==
  [do |-> "read", pool |-> p, window |-> window, slot |-> slot, need |-> blocks,
   sound |-> {b \in blocks : <<p, b>> \notin gone}]

-----------------------------------------------------------------------------
(* A streamed Linear (stage_dense_linear): a barrier, the block's staging in a     *)
(* batch of its own, a barrier, the dispatch.                                *)
DenseOp ==
  /\ Dense /\ run.at = "op" /\ InGraph
  /\ run' = [run EXCEPT !.at = "stage", !.rec = Append(@, Barrier), !.todo = Op]
  /\ UNCHANGED <<model, session, device, forwards>>

StageDense ==
  LET b == run.todo[1]
      q == BeginBatch(pg[1])
  IN  /\ Dense /\ run.at = "stage" /\ ~Full(1, b)
      /\ Stage(1, q, b)
      /\ run' = [run EXCEPT
           !.at = "op", !.op = @ + 1, !.todo = <<>>, !.cursor = CursorAfter(q, b),
           !.rec = @ \o Copies(1, q, b)
                     \o <<Barrier, Read(1, 0, Touch(q, b, Policy).slot, {b}, lost')>>]
      /\ UNCHANGED <<model, device, forwards>>

-----------------------------------------------------------------------------
(* A paged MoeFfn (execute_paged_moe): a wide batch stages every expert; a narrow   *)
(* one records at once when every expert of every role is there, and otherwise      *)
(* waits for the device and stages what the router chose.                    *)
Experts == ToSet(Op)
AllResident == \A p \in Pools : Experts \subseteq ResidentBlocks(pg[p])

(* touch_all_hits, in a batch of its own: the pager after the first k experts.  *)
TouchAll(q) ==
  LET touched[k \in 0 .. Len(Op)] ==
        IF k = 0 THEN BeginBatch(q) ELSE Touch(touched[k - 1], Op[k], "Mru").pager
  IN  touched[Len(Op)]

(* A barrier, and stage_and_window begins with the first role: it opens a batch.   *)
Enter(pgs, rec, ids) ==
  /\ pg' = [pgs EXCEPT ![1] = BeginBatch(@)]
  /\ run' = [run EXCEPT !.at = "stage", !.rec = Append(rec, Barrier), !.role = 1,
                        !.ids = ids, !.todo = ids, !.windows = <<>>]
  /\ UNCHANGED <<model, lut, arena, ring, tape, device, forwards, lost>>

MoeWide ==
  /\ ~Dense /\ run.at = "op" /\ InGraph /\ run.wide
  /\ Enter(pg, run.rec, Op)

MoeInline ==
  /\ ~Dense /\ run.at = "op" /\ InGraph /\ ~run.wide /\ AllResident
  /\ Enter([p \in Pools |-> TouchAll(pg[p])], run.rec, <<>>)

(* sync_stream: submit and wait for the queue.                               *)
MoeSync ==
  /\ ~Dense /\ run.at = "op" /\ InGraph /\ ~run.wide /\ ~AllResident
  /\ device' = device \o run.rec
  /\ run' = [run EXCEPT !.at = "sync", !.rec = <<>>]
  /\ UNCHANGED <<model, session, forwards>>

(* What the router chose for the rows, as read back: experts in any order, and       *)
(* when there are several rows perhaps one of them more than once.           *)
Routings == [1 .. model.routed -> Experts]

MoeRouted ==
  /\ run.at = "sync" /\ device = <<>>
  /\ \E ids \in Routings :
       run' = [run EXCEPT !.at = "stage", !.rec = <<Barrier>>, !.role = 1,
                          !.pending = [h \in Halves |-> 0], !.cursor = 0, !.words = 0,
                          !.ids = ids, !.todo = ids, !.windows = <<>>]
  /\ pg' = [pg EXCEPT ![1] = BeginBatch(@)]
  /\ UNCHANGED <<model, lut, arena, ring, tape, device, forwards, lost>>

(* stage_role, one expert.                                                   *)
StageExpert ==
  /\ ~Dense /\ run.at = "stage" /\ run.todo # <<>>
  /\ LET b == Head(run.todo)
         q == pg[run.role]
     IN  /\ ~Full(run.role, b)
         /\ Stage(run.role, q, b)
         /\ run' = [run EXCEPT !.todo = Tail(@), !.cursor = CursorAfter(q, b),
                               !.rec = @ \o Copies(run.role, q, b)]
  /\ UNCHANGED <<model, device, forwards>>

(* lut_window freezes what the role's dispatch is told; the next role opens its    *)
(* batch, or a barrier and the dispatches of all roles follow.  Without a       *)
(* readback the device may need any of the op's experts.                     *)
Needed == IF run.ids = <<>> THEN Experts ELSE ToSet(run.ids)

Window ==
  /\ ~Dense /\ run.at = "stage" /\ run.todo = <<>> /\ run.words < model.tape
  /\ LET w == run.words + 1
         windows == Append(run.windows, w)
         next == [run EXCEPT !.words = w, !.windows = windows]
     IN  /\ tape' = [tape EXCEPT ![w] = [b \in Experts |-> lut[run.role][b]]]
         /\ IF run.role < model.pools
            THEN /\ pg' = [pg EXCEPT ![run.role + 1] = BeginBatch(@)]
                 /\ run' = [next EXCEPT !.role = @ + 1, !.todo = run.ids]
            ELSE /\ UNCHANGED pg
                 /\ run' = [next EXCEPT
                      !.at = "op", !.op = @ + 1,
                      !.rec = @ \o <<Barrier>>
                                \o [p \in Pools |-> Read(p, windows[p], NoSlot, Needed, lost)]]
  /\ UNCHANGED <<model, lut, arena, ring, device, forwards, lost>>

-----------------------------------------------------------------------------
(* rotate_stream: the half is full; submit, and go on in the other half once the   *)
(* segment that used it is done.                                             *)
Rotate ==
  /\ run.at = "stage" /\ run.todo # <<>> /\ Full(run.role, Head(run.todo))
  /\ LET f == run.fences + 1
     IN  /\ device' = Submitted(f)
         /\ run' = [run EXCEPT !.at = "rotate", !.rec = <<>>, !.fences = f,
                               !.pending[run.half] = f, !.half = 1 - @, !.cursor = 0]
  /\ UNCHANGED <<model, session, forwards>>

(* Mutant of Rotated: the other half is refilled at once.                    *)
RotatedAtOnce ==
  /\ run.at = "rotate"
  /\ run' = [run EXCEPT !.at = "stage", !.pending[run.half] = 0, !.rec = <<Barrier>>]
  /\ UNCHANGED <<model, session, device, forwards>>

Rotated ==
  /\ run.at = "rotate" /\ Signalled(run.pending[run.half])
  /\ run' = [run EXCEPT !.at = "stage", !.pending[run.half] = 0, !.rec = <<Barrier>>]
  /\ UNCHANGED <<model, session, device, forwards>>

-----------------------------------------------------------------------------
(* The end of a forward: a blocking submit of the last segment.              *)
Finish ==
  /\ run.at = "op" /\ ~InGraph
  /\ device' = device \o run.rec
  /\ run' = [run EXCEPT !.at = "finish", !.rec = <<>>]
  /\ UNCHANGED <<model, session, forwards>>

Finished ==
  /\ run.at = "finish" /\ device = <<>>
  /\ run' = Idle
  /\ UNCHANGED <<model, session, device, forwards>>

(* abort_segment: the recording is discarded.  The pager keeps what it placed.    *)
Unsubmitted == {<<c.pool, c.blk>> : c \in {d \in ToSet(run.rec) : d.do = "copy"}}

(* An op fails to lower, a read below fails before the block is touched, or the     *)
(* tape has no room for the window.                                          *)
TapeOverflows == ~Dense /\ run.at = "stage" /\ run.todo = <<>> /\ run.words = model.tape

OpFails ==
  /\ \/ model.faults /\ run.at \in {"op", "stage"}
     \/ TapeOverflows
  /\ lost' = lost \cup Unsubmitted
  /\ run' = [run EXCEPT !.at = "unwind", !.rec = <<>>]
  /\ UNCHANGED <<model, pg, lut, arena, ring, tape, device, forwards>>

(* HostPager::fill fails: the pager has placed the block, and some of the ring      *)
(* position is overwritten.                                                  *)
FillFails ==
  LET p == run.role
      b == Head(run.todo)
      q == IF Dense THEN BeginBatch(pg[p]) ELSE pg[p]
  IN  /\ run.at = "stage" /\ run.todo # <<>> /\ model.faults
      /\ ~IsResident(q, b) /\ ~Full(p, b)
      /\ pg' = [pg EXCEPT ![p] = Touch(q, b, Policy).pager]
      /\ ring' = [ring EXCEPT ![Here] = NoBlock]
      /\ lost' = lost \cup Unsubmitted \cup {<<p, b>>}
      /\ run' = [run EXCEPT !.at = "unwind", !.rec = <<>>]
      /\ UNCHANGED <<model, lut, arena, tape, device, forwards>>

(* The shutdown latch, polled between ops; it never clears.                  *)
Shutdown ==
  /\ run.at = "op" /\ InGraph
  /\ lost' = lost \cup Unsubmitted
  /\ forwards' = MaxForwards
  /\ run' = [run EXCEPT !.at = "unwind", !.rec = <<>>]
  /\ UNCHANGED <<model, pg, lut, arena, ring, tape, device>>

InFlight == ToSet(run.segments) \cup {run.pending[h] : h \in Halves}

(* Mutant of Unwound: the splitter's segments are left alone.                *)
UnwoundHalf ==
  /\ run.at = "unwind" /\ \A h \in Halves : Signalled(run.pending[h])
  /\ run' = Idle
  /\ UNCHANGED <<model, session, device, forwards>>

(* What was submitted cannot be taken back: every segment is waited for.     *)
Unwound ==
  /\ run.at = "unwind" /\ \A f \in InFlight : Signalled(f)
  /\ run' = Idle
  /\ UNCHANGED <<model, session, device, forwards>>

Next ==
  \/ \E i \in DOMAIN device : Execute(i)
  \/ \E wide \in BOOLEAN : Start(wide)
  \/ Split \/ Retire
  \/ DenseOp \/ StageDense
  \/ MoeWide \/ MoeInline \/ MoeSync \/ MoeRouted \/ StageExpert \/ Window
  \/ Rotate \/ Rotated
  \/ Finish \/ Finished
  \/ OpFails \/ FillFails \/ Shutdown \/ Unwound

Spec == Init /\ [][Next]_vars

-----------------------------------------------------------------------------
TypeOK ==
  /\ pg \in [Pools -> PagerType]
  /\ lut \in [Pools -> [Blocks -> Slots \cup {NoSlot}]]
  /\ arena \in [Pools -> [Slots -> Blocks \cup {NoBlock}]]
  /\ \A at \in DOMAIN ring : ring[at] \in Blocks \cup {NoBlock}
  /\ run.half \in Halves /\ run.cursor \in 0 .. model.half /\ run.words \in 0 .. model.tape
  /\ forwards \in 0 .. MaxForwards
  /\ lost \subseteq Pools \X Blocks

(* What the device reads of the blocks, if it runs c now.                    *)
SlotRead(c, b) == IF c.window = 0 THEN c.slot ELSE tape[c.window][b]
Sees(c, blocks) ==
  \A b \in blocks : SlotRead(c, b) # NoSlot /\ arena[c.pool][SlotRead(c, b)] = b

(* Whenever the device gets to a command, what it reads is what the CPU meant when  *)
(* it recorded it: the ring position has not been refilled, the window not          *)
(* overwritten, the slot not given to another block (adapter.rs, PagedStream:         *)
(* "a region is never rewritten until the recording that read it has fully           *)
(* executed").  Blocks whose copy was discarded are left out.                *)
DeviceSeesWhatWasMeant ==
  \A i \in Executable :
    LET c == device[i]
    IN  IF c.do = "copy" THEN ring[c.from] = c.blk ELSE Sees(c, c.sound)

(* A forward returns, well or badly, only when nothing it submitted is still         *)
(* executing: its buffers are freed on return.  And it never lets more than a few    *)
(* segments pile up (MAX_INFLIGHT, and one for each half of the ring).       *)
SegmentsAreRetired ==
  /\ TypeOK
  /\ run.at = "idle" => device = <<>>
  /\ Cardinality({i \in DOMAIN device : device[i].do = "fence"}) <= MaxInflight + 3

(* Every block a dispatch needs is in its slot when the dispatch runs, whatever       *)
(* became of the forwards before (adapter.rs, execute_paged_moe: "Every ROUTED       *)
(* expert is resident-at-execution").                                       *)
ResidentAtExecution ==
  \A i \in Executable : device[i].do = "read" => Sees(device[i], device[i].need)
=============================================================================
