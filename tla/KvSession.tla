----------------------------- MODULE KvSession ------------------------------
(***************************************************************************)
(* One conversation slot (SeamKv) over many turns: which KV rows a turn of  *)
(* generate_dense_backend (infr-llama/src/seam/runner.rs) takes over from   *)
(* the turns before it, which it writes, and what `cached` claims about     *)
(* them afterwards, through chunked prefill, chained decode, stop           *)
(* sequences, aborts and backend errors.                                    *)
(*                                                                         *)
(* A row of the cache depends on every token before it, so its content is   *)
(* the token stream up to and including its own position.  One attention    *)
(* layer stands for all layers of its kind: full layers with Ring = FALSE,  *)
(* sliding-window layers with Ring = TRUE.  The qwen35 DeltaNet state is    *)
(* the stream it has absorbed.                                              *)
(***************************************************************************)
EXTENDS Integers, Sequences, SequencesExt

CONSTANTS
  Tokens,
  Setups      \* the models, hosts and ways of use tried

ASSUME KnownSetups ==
  \A c \in Setups :
    /\ {c.ctx, c.window, c.ubatch, c.maxPrompt} \subseteq Nat \ {0}
    /\ {c.chain, c.maxNew} \subseteq Nat
    /\ c.window <= c.ctx /\ c.chain <= c.ubatch
    /\ {c.recurrent, c.ring, c.forced, c.rewinds, c.resets} \subseteq BOOLEAN
    /\ c.faults \subseteq {"abort", "error"}

VARIABLES
  setup,      \* what is set up, below; never changes
  cached,     \* SeamKv::cached: the tokens whose rows a next turn may reuse
  rows,       \* the layer's rows, each the stream that produced it
  absorbed,   \* the stream the recurrent layers' state has absorbed
  turn,       \* the turn in progress: see NoTurn
  exact       \* whether every forward so far read its own stream only

vars == <<setup, cached, rows, absorbed, turn, exact>>

(* The model and the host. *)
MaxCtx == setup.ctx           \* the context the slot was allocated for
Window == setup.window        \* swa_window
Ubatch == setup.ubatch        \* rows of a prefill chunk
Recurrent == setup.recurrent  \* Config::qwen35
Ring == setup.ring            \* kv_ring
Chain == setup.chain          \* decode_chain; 0 or 1 is off
Forced == setup.forced        \* whether a grammar may force two tokens in one step

(* The way of use: whether prompts may leave the cached stream half-way,     *)
(* whether the cache is ever reset, which of prefill aborts and backend      *)
(* errors happen, and the bounds on the requests tried.                      *)
Rewinds == setup.rewinds
Resets == setup.resets
Faults == setup.faults
MaxPrompt == setup.maxPrompt
MaxNew == setup.maxNew

Eos == "eos"
Lesser(a, b) == IF a <= b THEN a ELSE b
Greater(a, b) == IF a >= b THEN a ELSE b

(* Mutant of Rows: no room for the chunk beside the window.                  *)
RowsOfWindow == IF Ring THEN Lesser(MaxCtx, Window) ELSE MaxCtx

(* kv_rows: rows of the layer's cache (the code rounds a ring up to a         *)
(* multiple of 64).  Position p lives in row p % Rows.                       *)
Rows == IF Ring THEN Lesser(MaxCtx, Window + Ubatch) ELSE MaxCtx
RowOf(p) == p % Rows

Prompts == UNION {[1 .. n -> Tokens] : n \in 1 .. MaxPrompt}
Upto(stream, n) == SubSeq(stream, 1, n)

(* cur: the prompt and the tokens generated; plen: the prompt's length;      *)
(* pos: the next position to feed; written: last_written + 1; out: tokens   *)
(* sampled; max: max_new.                                                    *)
NoTurn == [phase |-> "idle", cur |-> <<>>, plen |-> 0, pos |-> 0,
           written |-> 0, out |-> 0, max |-> 0]

Streams == Seq(Tokens \cup {Eos})

TypeOK ==
  /\ setup \in Setups
  /\ cached \in Streams /\ Len(cached) <= MaxCtx
  /\ rows \in [0 .. Rows - 1 -> Streams]
  /\ absorbed \in Streams
  /\ turn.phase \in {"idle", "prefill", "decode"}
  /\ turn.cur \in Streams
  /\ {turn.plen, turn.pos, turn.written, turn.out, turn.max} \subseteq 0 .. MaxCtx
  /\ turn.plen + turn.max < MaxCtx
  /\ exact \in BOOLEAN

Init ==
  /\ setup \in Setups
  /\ cached = <<>>
  /\ rows = [r \in 0 .. Rows - 1 |-> <<>>]
  /\ absorbed = <<>>
  /\ turn = NoTurn
  /\ exact = TRUE

-----------------------------------------------------------------------------
(* The rows of positions from .. to - 1, written with what stream says.      *)
Written(stream, from, to) ==
  [r \in 0 .. Rows - 1 |->
     LET here == {p \in from .. to - 1 : RowOf(p) = r}
     IN  IF here = {} THEN rows[r]
         ELSE Upto(stream, 1 + CHOOSE p \in here : \A q \in here : q <= p)]

(* Whether queries from .. to - 1 find their window's rows, and the          *)
(* recurrent state, as their own stream left them.                          *)
ReadsOwnStream(rws, stream, from, to) ==
  /\ \A q \in from .. to - 1 : \A p \in Greater(0, q + 1 - Window) .. q :
       rws[RowOf(p)] = Upto(stream, p + 1)
  /\ Recurrent => absorbed = Upto(stream, from)

(* The state of the recurrent layers after from .. to - 1 of stream: on a    *)
(* state another stream left behind, nobody's.                              *)
Tainted == <<Eos>>
Absorbed(stream, from, to) ==
  IF ~Recurrent THEN <<>>
  ELSE IF absorbed = Upto(stream, from) THEN Upto(stream, to) ELSE Tainted

(* One execute over the stream's positions from .. to - 1: a batch writes    *)
(* its rows before it attends.                                              *)
Forward(stream, from, to) ==
  LET rws == Written(stream, from, to)
  IN  /\ rows' = rws
      /\ absorbed' = Absorbed(stream, from, to)
      /\ exact' = (exact /\ ReadsOwnStream(rws, stream, from, to))

(* n chained steps in one submission, each a forward of one row: the first   *)
(* finds its rows or none does.                                              *)
ForwardChain(stream, from, n) ==
  /\ rows' = Written(stream, from, from + n)
  /\ absorbed' = Absorbed(stream, from, from + n)
  /\ exact' = (exact /\ ReadsOwnStream(Written(stream, from, from + 1), stream, from, from + 1))

-----------------------------------------------------------------------------
(* Where a dense turn may start: the common prefix, but at least one token   *)
(* is left to feed; a ring falls back to 0 when the rewind is deeper than    *)
(* the rows it still holds.                                                  *)
SharedPrefix(prompt) == LET LCP == LongestCommonPrefix({cached, prompt}) IN Len(LCP)
RingHolds(start) ==
  \/ ~Ring \/ start = 0 \/ start >= Len(cached)
  \/ Rows >= MaxCtx
  \/ Greater(0, start - Window) >= Greater(0, Len(cached) - Rows)

DenseStart(prompt) ==
  LET start == Lesser(SharedPrefix(prompt), Len(prompt) - 1)
  IN  IF RingHolds(start) THEN start ELSE 0

(* A recurrent turn resumes only from exactly what is cached.                *)
Resumes(prompt) == SharedPrefix(prompt) = Len(cached) /\ Len(cached) < Len(prompt)

(* Requests the slot accepts, of those the configuration tries.              *)
Accepted(prompt, max) ==
  /\ Len(prompt) + max + 1 <= MaxCtx
  /\ Rewinds \/ SharedPrefix(prompt) = 0 \/ Resumes(prompt)

StartTurn(prompt, max, start) ==
  turn' = [phase |-> IF Len(prompt) - start > 2 THEN "prefill" ELSE "decode",
           cur |-> prompt, plen |-> Len(prompt), pos |-> start,
           written |-> start, out |-> 0, max |-> max]

BeginDense(prompt, max) ==
  /\ ~Recurrent
  /\ turn = NoTurn
  /\ Accepted(prompt, max)
  /\ LET start == DenseStart(prompt)
     IN  cached' = Upto(cached, start) /\ StartTurn(prompt, max, start)
  /\ UNCHANGED <<rows, absorbed, exact>>

(* Otherwise every DeltaNet state is zeroed and the turn starts afresh.      *)
BeginRecurrent(prompt, max) ==
  /\ Recurrent
  /\ turn = NoTurn
  /\ Accepted(prompt, max)
  /\ IF Resumes(prompt)
     THEN StartTurn(prompt, max, Len(cached)) /\ UNCHANGED <<cached, absorbed>>
     ELSE StartTurn(prompt, max, 0) /\ cached' = <<>> /\ absorbed' = <<>>
  /\ UNCHANGED <<rows, exact>>

(* An upload that zeroes the state fails before `cached` is cleared.         *)
ZeroingFails(prompt, max) ==
  /\ Recurrent /\ "error" \in Faults
  /\ turn = NoTurn
  /\ Accepted(prompt, max) /\ ~Resumes(prompt)
  /\ absorbed' = <<>>
  /\ UNCHANGED <<cached, rows, turn, exact>>

(* reset / reset_cache: the tokens are forgotten, the buffers are not touched. *)
Reset ==
  /\ Resets
  /\ turn = NoTurn
  /\ cached' = <<>>
  /\ UNCHANGED <<rows, absorbed, turn, exact>>

-----------------------------------------------------------------------------
(* Mutants of Finish: everything sampled is recorded; nothing new is.        *)
FinishWithUnfed(cur, written) ==
  /\ turn' = NoTurn
  /\ cached' = IF written = 0 THEN <<>> ELSE cur
FinishForgets(cur, written) ==
  /\ turn' = NoTurn
  /\ cached' = Upto(cur, Lesser(written, turn.plen - 1))

(* The turn ends and `cached` records the rows it wrote (resident_after_gen), *)
(* of the stream cur, written up to the given position.                      *)
Finish(cur, written) ==
  /\ turn' = NoTurn
  /\ cached' = Upto(cur, written)

(* The turn fails: `cached` stays what the start of the turn truncated it to. *)
Fail == turn' = NoTurn /\ UNCHANGED cached

PrefillEnd == turn.plen - 1

PrefillChunk ==
  /\ turn.phase = "prefill"
  /\ LET end == Lesser(turn.pos + Ubatch, PrefillEnd)
     IN  /\ Forward(turn.cur, turn.pos, end)
         /\ turn' = [turn EXCEPT !.pos = end, !.written = end,
                                 !.phase = IF end = PrefillEnd THEN "decode" ELSE "prefill"]
  /\ UNCHANGED cached

(* A shutdown, a cancel or a deadline is seen between two chunks.            *)
PrefillAborted ==
  /\ "abort" \in Faults
  /\ turn.phase = "prefill"
  /\ Fail
  /\ UNCHANGED <<rows, absorbed, exact>>

(* execute returns an error; the rows may or may not have been written.      *)
PrefillFails ==
  /\ "error" \in Faults
  /\ turn.phase = "prefill"
  /\ Fail
  /\ \/ Forward(turn.cur, turn.pos, Lesser(turn.pos + Ubatch, PrefillEnd))
     \/ UNCHANGED <<rows, absorbed, exact>>

(* The top of the decode loop: nothing left to do, or an abort is seen.      *)
DecodeStops ==
  /\ turn.phase = "decode"
  /\ \/ turn.out >= turn.max /\ turn.pos + 1 >= turn.plen
     \/ "abort" \in Faults
  /\ Finish(turn.cur, turn.written)
  /\ UNCHANGED <<rows, absorbed, exact>>

Running == turn.phase = "decode" /\ ~(turn.out >= turn.max /\ turn.pos + 1 >= turn.plen)
AtFrontier == turn.pos + 1 >= turn.plen /\ turn.pos + 1 = Len(turn.cur)

(* Feeding a token of the prompt, or one the grammar has forced.            *)
FeedStep ==
  /\ Running /\ ~AtFrontier
  /\ Forward(turn.cur, turn.pos, turn.pos + 1)
  /\ turn' = [turn EXCEPT !.pos = @ + 1, !.written = turn.pos + 1]
  /\ UNCHANGED cached

(* Feeding the newest token and sampling the next: EOS, the token budget or  *)
(* a stop sequence ends the turn with that token never fed.                  *)
SampleStep(next, stopped) ==
  /\ Running /\ AtFrontier
  /\ Forward(turn.cur, turn.pos, turn.pos + 1)
  /\ IF next = Eos \/ turn.out + 1 >= turn.max \/ stopped
     THEN Finish(turn.cur, turn.pos + 1)
     ELSE /\ turn' = [turn EXCEPT !.cur = Append(@, next), !.out = @ + 1,
                                  !.pos = @ + 1, !.written = turn.pos + 1]
          /\ UNCHANGED cached

(* A grammar step may push several tokens at once, all within the budget.    *)
ForcedStep(a, b, stopped) ==
  LET cur == turn.cur \o <<a, b>>
  IN  /\ Forced
      /\ Running /\ AtFrontier
      /\ turn.out + 2 <= turn.max
      /\ Forward(turn.cur, turn.pos, turn.pos + 1)
      /\ IF turn.out + 2 = turn.max \/ stopped
         THEN Finish(cur, turn.pos + 1)
         ELSE /\ turn' = [turn EXCEPT !.cur = cur, !.out = @ + 2,
                                      !.pos = @ + 1, !.written = turn.pos + 1]
              /\ UNCHANGED cached

ChainLength == Lesser(Chain, turn.max - turn.out)
Chains == [1 .. ChainLength -> Tokens \cup {Eos}]

(* n steps in one submission.  The host keeps the sampled ids up to the      *)
(* first that ends the turn; the device has fed all but the last of them.    *)
ChainStep(ids, stopAt) ==
  LET n == ChainLength
      enders == {i \in 1 .. n : ids[i] = Eos \/ turn.out + i >= turn.max \/ i = stopAt}
      fed == IF enders = {} THEN n ELSE CHOOSE i \in enders : \A j \in enders : i <= j
      kept == turn.cur \o SubSeq(ids, 1, IF ids[fed] = Eos THEN fed - 1 ELSE fed)
  IN  /\ Running /\ AtFrontier
      /\ n >= 2 /\ stopAt <= n
      /\ ForwardChain(turn.cur \o ids, turn.pos, n)
      /\ IF enders # {}
         THEN Finish(kept, turn.pos + fed)
         ELSE /\ turn' = [turn EXCEPT !.cur = kept, !.out = @ + fed, !.pos = @ + fed,
                                      !.written = turn.pos + fed]
              /\ UNCHANGED cached

(* An execute or a transfer of the decode loop fails.                       *)
DecodeFails ==
  /\ "error" \in Faults
  /\ Running
  /\ Fail
  /\ \/ Forward(turn.cur, turn.pos, turn.pos + 1)
     \/ \E ids \in Chains :
          /\ AtFrontier /\ ChainLength >= 2
          /\ ForwardChain(turn.cur \o ids, turn.pos, ChainLength)
     \/ UNCHANGED <<rows, absorbed, exact>>

Proceed ==
  \/ PrefillChunk
  \/ FeedStep
  \/ DecodeStops
  \/ \E next \in Tokens \cup {Eos}, stopped \in BOOLEAN : SampleStep(next, stopped)
  \/ \E a, b \in Tokens, stopped \in BOOLEAN : ForcedStep(a, b, stopped)
  \/ \E ids \in Chains, stopAt \in 0 .. Chain : ChainStep(ids, stopAt)

Step ==
  \/ \E prompt \in Prompts, max \in 0 .. MaxNew :
       BeginDense(prompt, max) \/ BeginRecurrent(prompt, max) \/ ZeroingFails(prompt, max)
  \/ Reset
  \/ Proceed
  \/ PrefillAborted \/ PrefillFails \/ DecodeFails

Next == Step /\ UNCHANGED setup

Spec == Init /\ [][Next]_vars

-----------------------------------------------------------------------------
(* No forward attends a row, or continues a state, that another stream left  *)
(* behind: the reply is the one a full re-prefill would have produced.       *)
NoStaleReads == exact

(* Where that holds: on full-length caches whatever happens; with a ring or  *)
(* a recurrent state only while no turn is cut short, nothing is rewound     *)
(* into a ring, and a recurrent state is neither reset nor fed in chains.    *)
Dependable ==
  /\ Ring => ~Rewinds /\ Faults = {}
  /\ Recurrent => ~Resets /\ Chain < 2 /\ Faults = {}

NoStaleReadsWhereDependable == Dependable => NoStaleReads

(* Every token `cached` claims has its row in a full-length cache, at every  *)
(* moment: also in the middle of a turn, which may end there in an error.    *)
CachedIsResident ==
  /\ TypeOK
  /\ ~Ring => \A p \in 0 .. Len(cached) - 1 : rows[p] = Upto(cached, p + 1)

(* The next turn of a conversation never pays for this one again: a turn    *)
(* that ends well leaves every position it fed reusable.                     *)
FedRowsAreKept ==
  [][(turn.phase = "decode" /\ turn'.phase = "idle" /\ cached' # cached)
       => Len(cached') >= turn.written /\ Upto(cached', turn.written) = Upto(turn.cur, turn.written)]_vars
=============================================================================
