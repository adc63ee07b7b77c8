---------------------------- MODULE MCKvSession ----------------------------
(* The slots the runs of KvSession and of Mtp set up.                          *)
EXTENDS Mtp, TLC

TokenSymmetry == Permutations(Tokens)

NoMtp == [drafts |-> 0, maxM |-> 0, ckpt |-> FALSE, reprime |-> FALSE]

(* A full-length cache, whatever happens to it.                              *)
Dense ==
  [ctx |-> 5, window |-> 5, ubatch |-> 2, recurrent |-> FALSE, ring |-> FALSE,
   chain |-> 2, forced |-> TRUE, rewinds |-> TRUE, resets |-> TRUE,
   faults |-> {"abort", "error"}, maxPrompt |-> 4, maxNew |-> 2,
   mtp |-> NoMtp]

(* Sliding-window layers; prompts extend the conversation or replace it.     *)
RingSession ==
  [Dense EXCEPT !.ctx = 6, !.window = 2, !.ring = TRUE, !.forced = FALSE,
                !.rewinds = FALSE, !.faults = {}]

(* Recurrent layers, step by step.                                           *)
Hybrid ==
  [Dense EXCEPT !.recurrent = TRUE, !.chain = 0, !.resets = FALSE, !.faults = {}]

(* Recurrent layers, whatever happens to them.                               *)
HybridRows == [Dense EXCEPT !.recurrent = TRUE, !.forced = FALSE]

(* Two drafts a cycle and a tile of four rows; the switches off; a trunk       *)
(* without recurrent layers.                                                *)
Speculating ==
  [Hybrid EXCEPT !.ctx = 9, !.window = 9, !.maxPrompt = 2, !.maxNew = 5, !.forced = FALSE,
                 !.mtp = [drafts |-> 2, maxM |-> 4, ckpt |-> TRUE, reprime |-> TRUE]]

MCPassing ==
  {Dense, RingSession, Hybrid, HybridRows,
   Speculating, [Speculating EXCEPT !.recurrent = FALSE],
   [Speculating EXCEPT !.mtp.ckpt = FALSE, !.maxNew = 4],
   [Speculating EXCEPT !.mtp.reprime = FALSE, !.maxNew = 4]}

(* Each of these five alone lets a forward read what another stream left: a  *)
(* recurrent state fed in chains, after a reset, or whose turns may be       *)
(* aborted; a ring whose turns may be aborted, or that is rewound.           *)
HybridChain == [Hybrid EXCEPT !.forced = FALSE, !.chain = 2]
HybridReset == [Hybrid EXCEPT !.forced = FALSE, !.resets = TRUE]
HybridAbort == [Hybrid EXCEPT !.forced = FALSE, !.faults = {"abort"}]
RingAbort ==
  [RingSession EXCEPT !.ctx = 7, !.ubatch = 1, !.chain = 0, !.resets = FALSE,
                      !.faults = {"abort"}, !.maxPrompt = 6, !.maxNew = 1]
RingRewind ==
  [RingSession EXCEPT !.ctx = 7, !.chain = 0, !.resets = FALSE, !.rewinds = TRUE,
                      !.maxPrompt = 5]

MCUndependable == {HybridChain, HybridReset, HybridAbort, RingAbort, RingRewind}
=============================================================================
