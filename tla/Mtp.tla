-------------------------------- MODULE Mtp --------------------------------
(***************************************************************************)
(* The multi-token-prediction loop (generate_mtp_spec_core,                  *)
(* infr-llama/src/mtp/mod.rs) over a conversation slot (KvSession): a draft   *)
(* head proposes tokens, one batched forward of the trunk judges them, what    *)
(* is rejected is rolled back.  A slot's recurrent state cannot be rewound, so  *)
(* it is copied at clean boundaries and restored.                           *)
(*                                                                         *)
(* What the trunk says of a row is represented by the stream the row saw: the  *)
(* judged contexts.  The loop is sequential and its slot its own; an error     *)
(* ends it and drops both.  Drafting stops at n_max, the probability floor     *)
(* being 0.                                                                *)
(***************************************************************************)
EXTENDS KvSession

(* A model with a draft head is a qwen35: it has no sliding windows.  Its slot    *)
(* is allocated for the prompt, max_new, a draft and eight rows more             *)
(* (mtp/backends.rs), DEFAULT_N_MAX is less than MTP_REPRIME_MAX_M, and a turn     *)
(* that is cut short ends the generation.                                   *)
ASSUME KnownMtp ==
  \A c \in Setups :
    /\ {c.mtp.drafts, c.mtp.maxM} \subseteq Nat
    /\ {c.mtp.ckpt, c.mtp.reprime} \subseteq BOOLEAN
    /\ c.mtp.drafts > 0 =>
         /\ ~c.ring /\ c.faults = {}
         /\ c.maxPrompt + c.maxNew <= c.ctx
         /\ c.mtp.drafts < c.mtp.maxM

VARIABLE gen    \* the generation in progress

mtpVars == <<vars, gen>>

(* setup.mtp: how many tokens a cycle drafts (0: the slot is used without     *)
(* MTP), MTP_REPRIME_MAX_M, and the two switches of EngineConfig.spec.         *)
Drafts == setup.mtp.drafts
MaxM == setup.mtp.maxM
MtpCkpt == setup.mtp.ckpt
MtpReprime == setup.mtp.ckpt /\ setup.mtp.reprime

(* at: the next step; head: the rows of the head's cache, each the token it   *)
(* was fed and the stream whose hidden state came with it; returned: the       *)
(* rows of the last verify, by the stream each saw; leading: the virtual row    *)
(* carried over, if any; ckpt: mtp_delta_ckpt.                              *)
Own == <<"own">>
Idle ==
  [at |-> "new", max |-> 0, out |-> 0, committed |-> <<>>, cand |-> <<>>, returned |-> <<>>,
   leading |-> <<>>, pending |-> <<>>, head |-> <<>>, boundary |-> 0,
   ckpt |-> [len |-> 0, state |-> <<>>]]

MtpInit == Init /\ gen = Idle

Vocabulary == Tokens \cup {Eos}
Feed == gen.committed \o gen.cand
NPast == Len(gen.committed)

-----------------------------------------------------------------------------
(* Every forward of the trunk first takes over what it can of the slot (the   *)
(* prefix rule of KvSession).                                               *)
Resume(stream) ==
  IF Recurrent
    THEN IF Resumes(stream)
           THEN UNCHANGED <<cached, absorbed>>
           ELSE cached' = <<>> /\ absorbed' = <<>>
    ELSE cached' = Upto(cached, DenseStart(stream)) /\ UNCHANGED absorbed

(* run_verify: all rows that are not cached, in one batch; what it fed is      *)
(* cached, accepted or not.                                                 *)
RunVerify(stream) ==
  /\ Forward(stream, Len(cached), Len(stream))
  /\ cached' = stream

RowsOf(stream) == [j \in 1 .. Len(stream) - Len(cached) |-> Upto(stream, Len(cached) + j)]

(* The head's rows from position n on are overwritten.                        *)
Overwrite(head, n, new) ==
  [i \in 1 .. Greater(Len(head), n + Len(new)) |->
     IF i \in n + 1 .. n + Len(new) THEN new[i - n] ELSE head[i]]

(* Mutant of CatchUp: the rows land one too high.                             *)
CatchUpOneHigh(head, n, tokens, hidden) ==
  Overwrite(Append(head, <<Eos, Own>>), n + 1,
            [i \in 1 .. Len(tokens) |-> <<tokens[i], hidden[i]>>])

(* catch_up: tokens at positions n onwards, each with the hidden state of a    *)
(* judged row.                                                              *)
CatchUp(head, n, tokens, hidden) ==
  Overwrite(head, n, [i \in 1 .. Len(tokens) |-> <<tokens[i], hidden[i]>>])

(* mtp_snapshot_delta copies the state where there is one.                    *)
Snapshot(state, len) == IF Recurrent THEN [len |-> len, state |-> state] ELSE gen.ckpt

(* The prompt is verified whole and the head caught up with it, its hidden      *)
(* states shifted by one.                                                   *)
Prime(prompt, max) ==
  /\ gen.at = "new"
  /\ Forward(prompt, 0, Len(prompt))
  /\ cached' = prompt
  /\ gen' = [Idle EXCEPT !.at = "draft", !.max = max, !.committed = prompt,
                         !.leading = prompt, !.pending = prompt,
                         !.head = CatchUp(<<>>, 0, prompt,
                                          [i \in DOMAIN prompt |-> Upto(prompt, i - 1)]),
                         !.boundary = Len(prompt),
                         !.ckpt = IF MtpCkpt THEN Snapshot(absorbed', Len(prompt)) ELSE @]
  /\ UNCHANGED turn

-----------------------------------------------------------------------------
(* The head drafts on its own rows, from the last token and its hidden state.  *)
NMaxRound == Lesser(Drafts, gen.max - gen.out)

Draft(cand) ==
  /\ gen.at = "draft" /\ gen.out < gen.max
  /\ LET fed == <<<<Last(gen.committed), gen.pending>>>>
                \o [i \in 1 .. Len(cand) - 1 |-> <<cand[i], Own>>]
     IN  gen' = [gen EXCEPT !.at = "resume", !.cand = cand,
                            !.head = Overwrite(@, NPast, fed)]
  /\ UNCHANGED <<cached, rows, absorbed, turn, exact>>

ResumeFeed ==
  /\ gen.at = "resume"
  /\ Resume(Feed)
  /\ gen' = [gen EXCEPT !.at = "verify"]
  /\ UNCHANGED <<rows, turn, exact>>

Verify ==
  /\ gen.at = "verify"
  /\ RunVerify(Feed)
  /\ gen' = [gen EXCEPT !.at = "judge", !.returned = RowsOf(Feed)]
  /\ UNCHANGED turn

(* The rows the candidates are judged by: the leading row and all returned,    *)
(* or the last of those returned, of which there must be enough.               *)
Judged ==
  LET m == Len(gen.returned)
      base == m - (Len(gen.cand) + 1)
  IN  IF gen.leading # <<>> THEN <<gen.leading>> \o gen.returned
      ELSE SubSeq(gen.returned, base + 1, m)

Underflows == gen.leading = <<>> /\ Len(gen.returned) <= Len(gen.cand)

(* Accepted tokens are committed up to EOS or max_new, then the next one.      *)
Committed(tokens) ==
  LET room == gen.max - gen.out
      ends == {i \in DOMAIN tokens : tokens[i] = Eos \/ i >= room}
  IN  IF ends = {} THEN tokens
      ELSE SubSeq(tokens, 1, CHOOSE i \in ends : \A j \in ends : i <= j)

Stops(tokens) == \E i \in DOMAIN tokens : tokens[i] = Eos \/ i >= gen.max - gen.out

(* Mutant of Rollback: the state is restored, the cached tokens stay.          *)
RollbackState(full) ==
  IF MtpCkpt /\ Recurrent /\ ~full
    THEN absorbed' = gen.ckpt.state /\ UNCHANGED cached
    ELSE UNCHANGED <<absorbed, cached>>

(* mtp_restore_delta, unless every draft was accepted.                        *)
Rollback(full) ==
  IF MtpCkpt /\ Recurrent /\ ~full
    THEN absorbed' = gen.ckpt.state /\ cached' = Upto(cached, gen.ckpt.len)
    ELSE UNCHANGED <<absorbed, cached>>

(* Whether the next verify would have too many rows.                          *)
NeedsReprime(restored, committed, boundary) ==
  restored /\ MtpReprime /\ Len(committed) - boundary + Drafts > MaxM

(* The longest prefix the trunk agrees with, and its own next token: another   *)
(* than the one it rejected.  Then rollback or snapshot, the head's catch-up,   *)
(* the commit, and the choice to re-prime.                                    *)
Judge(n, next) ==
  LET full == n = Len(gen.cand)
      tokens == SubSeq(gen.cand, 1, n) \o <<next>>
      committed == gen.committed \o Committed(tokens)
      restored == MtpCkpt /\ ~full
      boundary == IF MtpCkpt /\ full THEN Len(Feed) ELSE gen.boundary
  IN  /\ gen.at = "judge" /\ ~Underflows
      /\ n <= Len(gen.cand)
      /\ ~full => next # gen.cand[n + 1]
      /\ Rollback(full)
      /\ gen' = [gen EXCEPT
           !.at = IF Stops(tokens) THEN "done"
                  ELSE IF NeedsReprime(restored, committed, boundary) THEN "reprime" ELSE "draft",
           !.committed = committed, !.out = @ + Len(Committed(tokens)),
           !.cand = <<>>, !.returned = <<>>, !.leading = <<>>,
           !.head = CatchUp(@, NPast, tokens, SubSeq(Judged, 1, n + 1)),
           !.pending = Judged[n + 1],
           !.boundary = boundary,
           !.ckpt = IF MtpCkpt /\ full THEN Snapshot(absorbed, Len(cached)) ELSE @]
      /\ UNCHANGED <<rows, turn, exact>>

(* run_prime_last: an ordinary turn of the slot for one token; its row is the  *)
(* next cycle's leading row.                                                *)
BeginReprime ==
  /\ gen.at = "reprime"
  /\ BeginDense(gen.committed, 1) \/ BeginRecurrent(gen.committed, 1)
  /\ gen' = [gen EXCEPT !.at = "repriming"]

ReprimeStep ==
  /\ gen.at = "repriming" /\ turn # NoTurn
  /\ Proceed
  /\ UNCHANGED gen

Reprimed ==
  /\ gen.at = "repriming" /\ turn = NoTurn
  /\ gen' = [gen EXCEPT !.at = "draft", !.pending = gen.committed, !.leading = gen.committed,
                        !.ckpt = Snapshot(absorbed, Len(cached)), !.boundary = NPast]
  /\ UNCHANGED <<cached, rows, absorbed, turn, exact>>

(* Every call has a trunk and a head of its own.                              *)
NextCall ==
  /\ gen.at = "done"
  /\ gen' = Idle
  /\ cached' = <<>> /\ absorbed' = <<>>
  /\ rows' = [r \in DOMAIN rows |-> <<>>]
  /\ UNCHANGED <<turn, exact>>

MtpStep ==
  \/ NextCall
  \/ \E prompt \in Prompts, max \in 1 .. MaxNew : Prime(prompt, max)
  \/ \E cand \in [1 .. NMaxRound -> Vocabulary] : Draft(cand)
  \/ ResumeFeed \/ Verify
  \/ \E n \in 0 .. Drafts, next \in Vocabulary : Judge(n, next)
  \/ BeginReprime \/ ReprimeStep \/ Reprimed

(* A slot is used by turns of its own, or by one generation with MTP.          *)
SlotStep ==
  /\ UNCHANGED setup
  /\ \/ Drafts = 0 /\ Step /\ UNCHANGED gen
     \/ Drafts > 0 /\ MtpStep

MtpSpec == MtpInit /\ [][SlotStep]_mtpVars

-----------------------------------------------------------------------------
(* Every candidate, and the token after the last, is judged by the row that    *)
(* saw exactly the committed stream and the candidates before it, however      *)
(* much of it was rolled back, re-primed or carried over from the cycle before  *)
(* (backends.rs, "committed stream == target's own greedy argmax stream").  With   *)
(* checkpoints the verify never leaves the small tile (MTP_REPRIME_MAX_M): the     *)
(* window that rejected drafts let grow is re-primed in time.                *)
JudgedInContext ==
  gen.at = "judge" =>
    /\ ~Underflows
    /\ exact
    /\ Judged = [j \in 1 .. Len(gen.cand) + 1 |-> Upto(Feed, NPast - 1 + j)]
    /\ MtpReprime => Len(gen.returned) <= MaxM

(* Between cycles the head's rows are the committed tokens, each with the       *)
(* trunk's hidden state of the token before it (mod.rs, AUDIT #1: a rejected     *)
(* draft's row is overwritten before the head reads it again).                 *)
HeadFollowsTrunk ==
  gen.at \in {"draft", "reprime", "repriming"} =>
    \A i \in 1 .. NPast : gen.head[i] = <<gen.committed[i], Upto(gen.committed, i - 1)>>
=============================================================================
