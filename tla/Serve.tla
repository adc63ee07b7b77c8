------------------------------- MODULE Serve --------------------------------
(***************************************************************************)
(* A chat completion in the HTTP server (infr-server/src/lib.rs): the FIFO    *)
(* semaphore of slot permits, the blocking task that generates, the client    *)
(* that may hang up, the deadline, the frames of a stream, and the counters   *)
(* the periodic reporter drains.  The generator (infr-llama) polls the abort  *)
(* latch at every token, and may go on for ever if nobody sets it; a forced    *)
(* tool choice makes it answer with a tool call or fail (infr-cli, run_chat).   *)
(***************************************************************************)
EXTENDS Integers, Sequences, SequencesExt

CONSTANTS
  Requests,
  Setups       \* the servers tried: slots, whether there is a deadline, which
               \* requests come, which are streams and which force a tool call;
               \* bounds on the deltas of a request and on the drains

VARIABLES
  setup,       \* the server being tried; never changes
  slots,       \* the semaphore: free permits, and who waits for one
  req,         \* the requests: handler, task, client, latches, tally
  stats,       \* ServeStats: window, interval_gen_tokens, and the reporter
  share,       \* history: what each request put into the counter since the swap
  straddled    \* history: a drain fell inside one of its updates

vars == <<setup, slots, req, stats, share, straddled>>

Streams(r) == r \in setup.streams
Forced(r) == r \in setup.forced

(* The handler of a buffered reply is at the await of its task.               *)
Waits(r) == req[r].handler = "awaiting" /\ req[r].task \in {"decode", "bump", "ended"}

(* handler: new, queued, awaiting, streaming, answered or dropped.  task: off, *)
(* decode, bump, ended, check, correct or closed.  result: stop stands for any   *)
(* reason the generator gives for an end that is no error.  called: a tool call   *)
(* was sent.  terminal: the terminal frames sent.  by: what set the abort latch. *)
NewRequest ==
  [handler |-> "new", task |-> "off", gone |-> FALSE,
   cancel |-> FALSE, hit |-> FALSE, by |-> "nobody", stopped |-> FALSE, result |-> "none", called |-> FALSE,
   deltas |-> 0, window |-> 0, inWindow |-> 0, correction |-> 0,
   terminal |-> <<>>, done |-> 0, counted |-> 0]

Init ==
  /\ setup \in Setups
  /\ slots = [free |-> setup.slots, queue |-> <<>>]
  /\ req = [r \in Requests |-> NewRequest]
  /\ stats = [window |-> 0, gen |-> 0, draining |-> FALSE]
  /\ share = [r \in Requests |-> 0]
  /\ straddled = [r \in Requests |-> FALSE]

Ghosts == <<share, straddled>>
Sets(r, q) == req' = [req EXCEPT ![r] = q]

-----------------------------------------------------------------------------
(* The handler queues for a permit of the model, first come first served.     *)
Arrive(r) ==
  /\ r \in setup.requests /\ req[r].handler = "new"
  /\ Sets(r, [req[r] EXCEPT !.handler = "queued"])
  /\ slots' = [slots EXCEPT !.queue = Append(@, r)]
  /\ UNCHANGED <<stats, Ghosts>>

(* With the permit the generation is spawned.  A stream is answered at once,   *)
(* and its deadline is a task of its own; else the handler waits and keeps it. *)
Admit(r) ==
  /\ slots.free > 0 /\ slots.queue # <<>> /\ r = Head(slots.queue)
  /\ slots' = [free |-> slots.free - 1, queue |-> Tail(slots.queue)]
  /\ Sets(r, [req[r] EXCEPT !.handler = IF Streams(r) THEN "streaming" ELSE "awaiting",
                            !.task = "decode"])
  /\ UNCHANGED <<stats, Ghosts>>

(* The client goes away: its handler, if it has one, is dropped.  A stream     *)
(* notices when it next sends.                                              *)
HangUp(r) ==
  /\ ~req[r].gone
  /\ req[r].handler \in {"queued", "streaming"} \/ Waits(r)
  /\ Sets(r, [req[r] EXCEPT !.gone = TRUE,
                            !.handler = IF @ = "streaming" THEN @ ELSE "dropped"])
  /\ slots' = [slots EXCEPT !.queue = RemoveFirst(@, r)]
  /\ UNCHANGED <<stats, Ghosts>>

-----------------------------------------------------------------------------
(* A frame of a stream: a send that fails sets the abort latch.               *)
Sent(r) ==
  LET fails == Streams(r) /\ req[r].gone
  IN  [req[r] EXCEPT !.cancel = @ \/ fails,
                     !.by = IF @ = "nobody" /\ fails THEN "client" ELSE @]

(* A text delta: the tally loads the window, then the counter is bumped and    *)
(* the frame sent.  The body of a forced call is not sent as text.            *)
LoadWindow(r) ==
  /\ req[r].task = "decode" /\ ~req[r].cancel /\ ~Forced(r)
  /\ req[r].deltas < setup.deltas
  /\ Sets(r, [req[r] EXCEPT !.task = "bump", !.deltas = @ + 1, !.window = stats.window,
       !.inWindow = IF stats.window = req[r].window THEN @ + 1 ELSE 1])
  /\ straddled' = [straddled EXCEPT ![r] = @ \/ stats.draining]
  /\ UNCHANGED <<slots, stats, share>>

Bumps(r, n) ==
  /\ stats' = [stats EXCEPT !.gen = @ + n]
  /\ share' = [share EXCEPT ![r] = @ + n]

BumpAndSend(r) ==
  /\ req[r].task = "bump"
  /\ Bumps(r, 1)
  /\ Sets(r, [Sent(r) EXCEPT !.task = "decode"])
  /\ UNCHANGED <<slots, straddled>>

(* The generation stops at its next poll of the latch, or of its own accord,   *)
(* or fails, or panics.  A forced call that is cut short does not parse.       *)
Stops(r) ==
  /\ req[r].task = "decode" /\ req[r].cancel
  /\ \E how \in {"stop", "error"} :
       /\ how = "error" => Forced(r)
       /\ Sets(r, [req[r] EXCEPT !.task = "ended", !.result = how, !.stopped = TRUE])
  /\ UNCHANGED <<slots, stats, Ghosts>>

Ends(r) ==
  /\ req[r].task = "decode"
  /\ \E how \in {"stop", "error", "panic"} :
       Sets(r, [req[r] EXCEPT !.task = "ended", !.result = how])
  /\ UNCHANGED <<slots, stats, Ghosts>>

(* What a generation that ended well has said is searched for tool calls, and     *)
(* each is sent whole; of a forced choice the call is all there is.            *)
ToolCall(r) ==
  /\ req[r].task = "ended" /\ req[r].result = "stop" /\ ~req[r].called
  /\ Sets(r, [Sent(r) EXCEPT !.called = TRUE])
  /\ UNCHANGED <<slots, stats, Ghosts>>

(* The generator has returned: a forced choice only with its call, or an error.   *)
Returned(r) ==
  /\ req[r].task = "ended"
  /\ Forced(r) /\ req[r].result = "stop" => req[r].called

(* Mutant of Deadline: the timeout goes to the client and the task runs on.    *)
DeadlineReports(r) ==
  /\ setup.deadline
  /\ Waits(r) /\ ~req[r].cancel
  /\ Sets(r, [req[r] EXCEPT !.handler = "answered", !.hit = TRUE])
  /\ UNCHANGED <<slots, stats, Ghosts>>

(* The deadline of a buffered reply is the handler's own, and only wakes it.   *)
Deadline(r) ==
  /\ setup.deadline
  /\ Waits(r) /\ ~req[r].cancel
  /\ Sets(r, [req[r] EXCEPT !.hit = TRUE, !.cancel = TRUE, !.by = "deadline"])
  /\ UNCHANGED <<slots, stats, Ghosts>>

(* The watchdog of a stream labels the abort, then sets it.                   *)
Armed(r) == setup.deadline /\ Streams(r) /\ req[r].task \notin {"off", "closed"}

WatchdogLabels(r) ==
  /\ Armed(r) /\ ~req[r].hit
  /\ Sets(r, [req[r] EXCEPT !.hit = TRUE])
  /\ UNCHANGED <<slots, stats, Ghosts>>

(* Mutant of WatchdogAborts: the abort comes before its label.                *)
WatchdogAbortsFirst(r) ==
  /\ Armed(r) /\ req[r].by # "deadline"
  /\ Sets(r, [req[r] EXCEPT !.cancel = TRUE, !.by = IF @ = "nobody" THEN "deadline" ELSE @])
  /\ UNCHANGED <<slots, stats, Ghosts>>

WatchdogAborts(r) ==
  /\ Armed(r) /\ req[r].hit /\ req[r].by # "deadline"
  /\ Sets(r, [req[r] EXCEPT !.cancel = TRUE, !.by = IF @ = "nobody" THEN "deadline" ELSE @])
  /\ UNCHANGED <<slots, stats, Ghosts>>

-----------------------------------------------------------------------------
(* The finish reason: a tool call wins, then the deadline.                     *)
Label(r) ==
  IF req[r].called THEN "tool_calls" ELSE IF req[r].hit THEN "length" ELSE req[r].result

(* A stream that ended well sends its finish frame and folds its tally; ended  *)
(* otherwise, the guard reports the failure and folds that.                   *)
StreamEnds(r) ==
  /\ Returned(r) /\ Streams(r)
  /\ IF req[r].result = "stop"
     THEN Sets(r, [req[r] EXCEPT !.task = "check", !.terminal = Append(@, Label(r))])
     ELSE Sets(r, [req[r] EXCEPT !.task = "guard"])
  /\ UNCHANGED <<slots, stats, Ghosts>>

Guard(r) ==
  /\ req[r].task = "guard"
  /\ Sets(r, [req[r] EXCEPT !.task = "close", !.counted = @ + 1,
                            !.terminal = Append(@, "error")])
  /\ UNCHANGED <<slots, stats, Ghosts>>

(* Dropping what the task holds: [DONE], the watchdog, the gauge, the permit.  *)
Close(r) ==
  /\ req[r].task = "close" /\ Streams(r)
  /\ Sets(r, [req[r] EXCEPT !.task = "closed", !.done = @ + 1, !.handler = "answered"])
  /\ slots' = [slots EXCEPT !.free = @ + 1]
  /\ UNCHANGED <<stats, Ghosts>>

(* The task of a buffered reply ends; if the handler still waits, it folds.    *)
TaskEnds(r) ==
  /\ Returned(r) /\ ~Streams(r)
  /\ slots' = [slots EXCEPT !.free = @ + 1]
  /\ Sets(r, [req[r] EXCEPT !.task =
       IF req[r].handler # "awaiting" THEN "closed"
       ELSE IF req[r].result = "stop" THEN "check" ELSE "reply"])
  /\ UNCHANGED <<stats, Ghosts>>

(* Mutant of Retractable: whatever the request put in any window.             *)
RetractableAnywhere(r) == req[r].deltas

(* fold_completion: a retraction only of what the open window still holds of   *)
(* the request.  Tokens and deltas differ by a few either way.               *)
Retractable(r) == IF req[r].window = stats.window THEN req[r].inWindow ELSE 0

Check(r) ==
  /\ req[r].task = "check"
  /\ \E d \in -req[r].deltas .. 1 :
       Sets(r, [req[r] EXCEPT !.task = "correct",
                              !.correction = IF d < 0 THEN -Min({-d, Retractable(r)}) ELSE d])
  /\ UNCHANGED <<slots, stats, Ghosts>>

Correct(r) ==
  /\ req[r].task = "correct"
  /\ Bumps(r, req[r].correction)
  /\ Sets(r, IF Streams(r)
             THEN [req[r] EXCEPT !.task = "close", !.counted = @ + 1]
             ELSE [req[r] EXCEPT !.task = "closed", !.counted = @ + 1, !.handler = "answered",
                                 !.terminal = Append(@, Label(r))])
  /\ UNCHANGED <<slots, straddled>>

Reply500(r) ==
  /\ req[r].task = "reply"
  /\ Sets(r, [req[r] EXCEPT !.task = "closed", !.counted = @ + 1, !.handler = "answered",
                            !.terminal = Append(@, "error")])
  /\ UNCHANGED <<slots, stats, Ghosts>>

-----------------------------------------------------------------------------
(* The reporter closes the window, then swaps the counter out.                *)
Straddles == straddled' = [r \in Requests |-> straddled[r] \/ req[r].task \in {"bump", "correct"}]

CloseWindow ==
  /\ ~stats.draining /\ stats.window < setup.drains
  /\ stats' = [stats EXCEPT !.window = @ + 1, !.draining = TRUE]
  /\ Straddles
  /\ UNCHANGED <<slots, req, share>>

Swap ==
  /\ stats.draining
  /\ stats' = [stats EXCEPT !.gen = 0, !.draining = FALSE]
  /\ share' = [r \in Requests |-> 0]
  /\ Straddles
  /\ UNCHANGED <<slots, req>>

TaskStep(r) ==
  \/ BumpAndSend(r) \/ Stops(r) \/ ToolCall(r) \/ StreamEnds(r) \/ Guard(r) \/ Close(r) \/ TaskEnds(r)
  \/ Check(r) \/ Correct(r) \/ Reply500(r)

Timer(r) == Deadline(r) \/ WatchdogLabels(r) \/ WatchdogAborts(r)

Next ==
  /\ UNCHANGED setup
  /\ \/ \E r \in Requests :
          Arrive(r) \/ Admit(r) \/ HangUp(r) \/ LoadWindow(r) \/ Ends(r) \/ TaskStep(r) \/ Timer(r)
     \/ CloseWindow \/ Swap

Spec == Init /\ [][Next]_vars

(* The runtime schedules its tasks and fires its timers.  Nothing makes a      *)
(* generation end of its own accord.                                        *)
Fairness ==
  \A r \in Requests :
    /\ WF_vars(Admit(r) /\ UNCHANGED setup)
    /\ WF_vars(TaskStep(r) /\ UNCHANGED setup)
    /\ WF_vars(Timer(r) /\ UNCHANGED setup)

-----------------------------------------------------------------------------
(* No request takes from the open interval tokens that another one generated   *)
(* (fold_completion, lib.rs:687), unless a drain fell inside its own update.   *)
NobodyElseIsBilled == \A r \in Requests : straddled[r] \/ share[r] >= 0

(* However a generation ends, a reply that goes out ends in one terminal frame,  *)
(* a stream also in one [DONE], and it is counted once.  It says error when the    *)
(* generation failed and tool_calls when a call was sent, and not otherwise; a     *)
(* reply the deadline cut short never says stop (lib.rs:1547, :1768), and a        *)
(* forced choice gets its call or an error, never text (infr-cli main.rs:1945),    *)
(* although "a deadline hit is a TRUNCATION, not a failure" (lib.rs:1545).          *)
EveryReplyIsHonest ==
  \A r \in Requests :
    /\ req[r].handler = "answered" =>
         /\ Len(req[r].terminal) = 1 /\ req[r].counted = 1
         /\ Streams(r) => req[r].done = 1
         /\ req[r].terminal = <<"error">> <=> req[r].result # "stop"
         /\ req[r].terminal = <<"tool_calls">> <=> req[r].called
         /\ req[r].stopped /\ req[r].by = "deadline" => req[r].terminal # <<"stop">>
         /\ Forced(r) => req[r].terminal \in {<<"tool_calls">>, <<"error">>}
    /\ req[r].counted <= 1
    /\ req[r].handler = "dropped" => req[r].terminal = <<>>

(* With a deadline every queued request gets its slot in the end: a generation *)
(* that runs over is stopped and its permit comes back.  A buffered reply whose *)
(* client hung up has no deadline any more, its handler being gone.           *)
Abandoned(r) == req[r].handler = "dropped" /\ req[r].task # "off"

SlotsComeBack ==
  []<>(\/ ~setup.deadline
       \/ \A r \in Requests : req[r].handler # "queued"
       \/ \E r \in Requests : Abandoned(r))
=============================================================================
