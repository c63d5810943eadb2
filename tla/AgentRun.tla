------------------------------ MODULE AgentRun ------------------------------
(***************************************************************************)
(* The runs of a facade Agent, one after another: run_full and stream      *)
(* (src/src/facade/agent.rs, src/src/facade/agent/stream.rs).              *)
(*                                                                         *)
(* A run is a future its owner polls, or drops.  run_full drives the       *)
(* machine to the end of the turn.  A stream drives it too, but hands the  *)
(* events of a sink to its consumer one poll at a time; between two polls  *)
(* the consumer may interject a pivot or drop the stream, and another task *)
(* may cancel the run at any time.  One action is what one poll does, up   *)
(* to the next suspension point of the future.                             *)
(*                                                                         *)
(* The machine is reduced to what TurnProtocol shows of it and to the      *)
(* messages of the user its next request carries; AgentMachine is the      *)
(* detailed one.  A batch of tool calls counts as one requirement here.    *)
(*                                                                         *)
(* Operators under a comment "Fault:" are not part of the model; each is a *)
(* plausible mistake in the operator that follows it.                      *)
(***************************************************************************)
EXTENDS Naturals, Sequences

CONSTANTS
    MaxRunSteps, \* LoopPolicy.max_steps
    MaxRuns,     \* bound: runs of one agent
    MaxEvents    \* bound: events one run puts into the sink

ASSUME RunBoundsAssumption ==
    /\ MaxRunSteps \in Nat \ {0}
    /\ MaxRuns \in Nat
    /\ MaxEvents \in Nat

VARIABLES
    machine,     \* DefaultAgentMachine: cursor, LLM steps of the turn, whether the
                 \* last step closed at a boundary, user messages in the context
    approvals,   \* FacadeApproval.pending: gated calls it holds a request for
    kind,        \* "none", "full" or "stream": the run in progress
    at,          \* the suspension point of its future
    cancelled,   \* the token of the run
    sent,        \* user messages the request being answered was rendered from
    control,     \* StreamControl: window, queue of pivots, pivot_window_allowed
    stream,      \* AgentRunStream: state and sink
    runs,        \* runs so far
    seen         \* history: what the caller and the consumer know of the run

runVars == <<machine, approvals, kind, at, cancelled, sent, control, stream, runs, seen>>

Underway == {"LLM", "Tool", "Approval"}
Rest == {"Idle", "Completed", "StepLimit", "Budget", "Error"}

NoControl == [window |-> FALSE, queue |-> 0, allowed |-> FALSE]
NoStream == [state |-> "none", sink |-> 0]
NothingSeen == [messages |-> 0, emitted |-> 0, delivered |-> 0, last |-> "none"]

RunTypeOK ==
    /\ machine \in [cur: Underway \cup Rest, steps: 0..MaxRunSteps, boundary: BOOLEAN,
                    context: 0..MaxRunSteps]
    /\ approvals \subseteq 1..MaxRunSteps
    /\ kind \in {"none", "full", "stream"}
    /\ at \in {"none", "unpolled", "window", "fulfil", "returned"}
    /\ cancelled \in BOOLEAN
    /\ sent \in 0..MaxRunSteps
    /\ control \in [window: BOOLEAN, queue: 0..1, allowed: BOOLEAN]
    /\ stream \in [state: {"none", "Driving", "Draining", "Done"}, sink: 0..MaxEvents]
    /\ runs \in 0..MaxRuns
    /\ seen \in [messages: 0..MaxRunSteps, emitted: 0..MaxEvents, delivered: 0..MaxEvents,
                 last: {"none", "event", "Done", "Err", "DriveErr", "Dropped"}]

RunInit ==
    /\ machine = [cur |-> "Idle", steps |-> 0, boundary |-> FALSE, context |-> 0]
    /\ approvals = {}
    /\ kind = "none" /\ at = "none" /\ cancelled = FALSE /\ sent = 0
    /\ control = NoControl /\ stream = NoStream
    /\ runs = 0 /\ seen = NothingSeen

-----------------------------------------------------------------------------
(***************************************************************************)
(* The machine's side of a step.                                           *)
(***************************************************************************)
AtRest(m) == m.cur \in Rest

Moved(m, cur) == [m EXCEPT !.cur = cur, !.boundary = FALSE]

\* StepInput::External with a user message.
Begun(m) == [cur |-> "LLM", steps |-> 1, boundary |-> FALSE, context |-> 1]

\* Abandon of one awaited requirement ends the whole turn.
abandon_in_flight_turn(m) == IF AtRest(m) THEN m ELSE Moved(m, "Idle")

\* Behind the results of a tool batch: the next LLM step, or the limit.
StepBoundary(m) ==
    IF m.steps = MaxRunSteps
    THEN Moved(m, "StepLimit")
    ELSE [m EXCEPT !.cur = "LLM", !.steps = @ + 1, !.boundary = TRUE]

\* StepInput::Resume: a reply ends the turn, asks for tools, gated ones among
\* them or not, or fails; an approval lets the batch run or closes it denied.
Resumed(m) ==
    CASE m.cur = "LLM" -> {Moved(m, c) : c \in {"Completed", "Tool", "Approval", "Error"}}
      [] m.cur = "Approval" -> {Moved(m, "Tool"), StepBoundary(m)}
      [] m.cur = "Tool" -> {StepBoundary(m)}

\* inject_pivot: a message of the user behind a closed step.
PivotIsLegal(m) == m.cur = "LLM" /\ m.boundary

Pivoted(m) == [m EXCEPT !.context = @ + 1]

-----------------------------------------------------------------------------
(***************************************************************************)
(* The end of a run.  The result is what the caller of run_full or the     *)
(* consumer of the stream is told: "DriveErr" is an Err of the drive       *)
(* itself, "Err" one of the errors a TurnDone is turned into.              *)
(***************************************************************************)

\* Armed until the drive has returned a TurnDone.
RunFullDropGuard(m) == abandon_in_flight_turn(m)

\* The match on the cursor of the TurnDone.
Result(m, wasCancelled) == IF ~ wasCancelled /\ m.cur = "Completed" THEN "Done" ELSE "Err"

\* ApprovalPendingGuard of run_full; clear_pending of the stream.
Cleared(result) == {}

\* run_full returns.
ReturnFull(result, m) ==
    /\ kind' = "none" /\ at' = "none"
    /\ machine' = IF result \in {"DriveErr", "Dropped"} THEN RunFullDropGuard(m) ELSE m
    /\ approvals' = Cleared(result)
    /\ seen' = [seen EXCEPT !.last = result]
    /\ sent' = 0
    /\ UNCHANGED <<cancelled, control, stream, runs>>

\* The future of a stream is ready.  Events of the same poll are still in
\* the sink: behind an output they are delivered first, an error goes ahead
\* of them.
ReturnStream(result, m, emitted) ==
    /\ at' = "returned"
    /\ machine' = m
    /\ control' = [control EXCEPT !.window = FALSE]
    /\ stream' = [state |-> IF result = "Done" THEN "Draining" ELSE "Done",
                  sink |-> stream.sink + emitted]
    /\ approvals' = IF result = "Done" THEN approvals ELSE Cleared(result)
    /\ seen' = [seen EXCEPT !.emitted = @ + emitted,
                            !.last = IF result = "Done" THEN @ ELSE result]
    /\ sent' = 0
    /\ UNCHANGED <<kind, cancelled, runs>>

Return(result, m, emitted) ==
    IF kind = "full" THEN ReturnFull(result, m) ELSE ReturnStream(result, m, emitted)

-----------------------------------------------------------------------------
(***************************************************************************)
(* The drive: drain for run_full, drive_streamed for a stream.             *)
(***************************************************************************)

\* Who polls: the caller awaits run_full; a stream's future is polled when
\* the sink is empty.
Polled == kind = "full" \/ (kind = "stream" /\ stream.state = "Driving" /\ stream.sink = 0)

\* Events a poll of a stream can push before it suspends or returns.
Emits == IF kind = "stream" /\ seen.emitted < MaxEvents THEN {0, 1} ELSE {0}

OpensWindow(m, allowed) == allowed /\ m.cur = "LLM"

\* outcome_opens_pivot_window.
Allowed(m) == control.allowed \/ (kind = "stream" /\ m.cur = "LLM" /\ m.boundary)

\* Fulfilment of what the machine waits for begins.
Fulfil(m, ctl, emitted) ==
    /\ at' = "fulfil"
    /\ machine' = m
    /\ control' = ctl
    /\ sent' = m.context
    /\ stream' = [stream EXCEPT !.sink = @ + emitted]
    /\ seen' = [seen EXCEPT !.emitted = @ + emitted]
    /\ UNCHANGED <<kind, cancelled, runs>>

\* The head of the loop, with the machine as the last step left it: rest,
\* cancellation, an exhausted budget, the pivot window, or the batch.
Top(m, held, emitted) ==
    \/ AtRest(m) /\ Return(Result(m, FALSE), m, emitted)
    \/ ~ AtRest(m) /\ cancelled /\ Return("Err", abandon_in_flight_turn(m), emitted)
    \/ ~ AtRest(m) /\ ~ cancelled
       /\ \/ m.cur = "LLM" /\ Return("Err", Moved(m, "Budget"), emitted)
          \/ /\ OpensWindow(m, Allowed(m))
             /\ at' = "window"
             /\ machine' = m
             /\ approvals' = held
             /\ control' = [control EXCEPT !.window = TRUE, !.allowed = TRUE]
             /\ sent' = 0
             /\ stream' = [stream EXCEPT !.sink = @ + emitted]
             /\ seen' = [seen EXCEPT !.emitted = @ + emitted]
             /\ UNCHANGED <<kind, cancelled, runs>>
          \/ /\ ~ OpensWindow(m, Allowed(m))
             /\ approvals' = held
             /\ Fulfil(m, [control EXCEPT !.allowed = Allowed(m)], emitted)

\* The first poll.  A machine that still waits refuses the message, and the
\* drive fails with nothing outstanding and no terminal cursor.
BeginDrive ==
    /\ Polled /\ at = "unpolled"
    /\ IF AtRest(machine)
       THEN Top(Begun(machine), approvals, 0)
       ELSE Return("DriveErr", machine, 0)

\* Fault: the window is closed by the end of the batch, not by its start.
Closed_Late(ctl) == [ctl EXCEPT !.queue = 0, !.allowed = FALSE]

\* close_pivot_window and pop_pivot.
Closed(ctl) == [window |-> FALSE, queue |-> 0, allowed |-> FALSE]

\* The pivot is handed to the machine, which emits the request again; a
\* pivot it refuses ends the turn and the drive.
apply_queued_pivot(m, ctl) ==
    IF control.queue = 0 \/ PivotIsLegal(m)
    THEN Fulfil(IF control.queue = 0 THEN m ELSE Pivoted(m), ctl, 0)
    ELSE Return("DriveErr", abandon_in_flight_turn(m), 0)

\* The drive goes on behind yield_now.
LeaveWindow ==
    /\ Polled /\ at = "window"
    /\ IF cancelled
       THEN Return("Err", abandon_in_flight_turn(machine), 0)
       ELSE UNCHANGED approvals /\ apply_queued_pivot(machine, Closed(control))

\* A handler makes progress, tells the sink, and is still not done.
Emit ==
    /\ Polled /\ at = "fulfil" /\ 1 \in Emits
    /\ stream' = [stream EXCEPT !.sink = @ + 1]
    /\ seen' = [seen EXCEPT !.emitted = @ + 1]
    /\ UNCHANGED <<machine, approvals, kind, at, cancelled, sent, control, runs>>

\* record_pending for a gated call; the interaction handler takes it back.
Held(m) ==
    CASE m.cur = "Approval" -> approvals \cup {m.steps}
      [] machine.cur = "Approval" -> approvals \ {machine.steps}
      [] OTHER -> approvals

\* The batch is answered.  When the run was cancelled meanwhile nothing is
\* fed; a reply that cannot be paid interrupts the machine, which then rests.
Complete ==
    /\ Polled /\ at = "fulfil"
    /\ \E emitted \in Emits :
        IF cancelled
        THEN Return("Err", abandon_in_flight_turn(machine), emitted)
        ELSE \/ \E m \in Resumed(machine) : Top(m, Held(m), emitted)
             \/ machine.cur = "LLM" /\ Return("Err", Moved(machine, "Budget"), emitted)

\* Fault: only the LLM handler watches the token.
Preempt_LlmOnly ==
    /\ Polled /\ at = "fulfil" /\ cancelled /\ machine.cur = "LLM"
    /\ Return("Err", abandon_in_flight_turn(machine), 0)

\* fulfill_batch_cancellable gives a cancelled batch up.
Preempt ==
    /\ Polled /\ at = "fulfil" /\ cancelled
    /\ Return("Err", abandon_in_flight_turn(machine), 0)

\* A handler answers with a result of another kind: fulfill_batch fails.
Misaligned ==
    /\ Polled /\ at = "fulfil"
    /\ Return("DriveErr", machine, 0)

-----------------------------------------------------------------------------
(***************************************************************************)
(* The caller, the consumer, and the holder of the cancel handle.          *)
(***************************************************************************)
Start(k) ==
    /\ kind = "none" /\ runs < MaxRuns
    /\ kind' = k /\ at' = "unpolled"
    /\ runs' = runs + 1
    /\ approvals' = {}
    /\ cancelled' = FALSE
    /\ sent' = 0
    /\ control' = NoControl
    /\ stream' = IF k = "stream" THEN [state |-> "Driving", sink |-> 0] ELSE NoStream
    /\ seen' = [NothingSeen EXCEPT !.messages = 1]
    /\ UNCHANGED machine

run_full == Start("full")
start == Start("stream")

\* The handle outlives the run, and may be used before the first poll.
Cancel ==
    /\ kind # "none" /\ ~ cancelled
    /\ cancelled' = TRUE
    /\ UNCHANGED <<machine, approvals, kind, at, sent, control, stream, runs, seen>>

\* interject, while the consumer holds the stream between two polls; every
\* other moment refuses the message.
interject_pivot ==
    /\ kind = "stream" /\ stream.state = "Driving"
    /\ control.window
    /\ control.queue = 0
    /\ control' = [control EXCEPT !.queue = 1]
    /\ seen' = [seen EXCEPT !.messages = @ + 1]
    /\ UNCHANGED <<machine, approvals, kind, at, cancelled, sent, stream, runs>>

DoneIsNext == stream.state = "Draining" /\ stream.sink = 0

\* poll_next hands over an event of the sink, in whatever state it is.
Deliver ==
    /\ kind = "stream" /\ stream.sink > 0
    /\ stream' = [stream EXCEPT !.sink = @ - 1]
    /\ seen' = [seen EXCEPT !.delivered = @ + 1,
                            !.last = IF @ = "none" THEN "event" ELSE @]
    /\ UNCHANGED <<machine, approvals, kind, at, cancelled, sent, control, runs>>

DeliverDone ==
    /\ kind = "stream" /\ DoneIsNext
    /\ stream' = [stream EXCEPT !.state = "Done"]
    /\ approvals' = Cleared("Done")
    /\ seen' = [seen EXCEPT !.last = "Done"]
    /\ UNCHANGED <<machine, kind, at, cancelled, sent, control, runs>>

\* Fault: dropping a stream only stops polling it.
AgentRunStream_drop_Forgets(m) == m

\* abandon: nothing is left to do for a stream that is Done.
AgentRunStream_drop(m) == IF stream.state = "Done" THEN m ELSE abandon_in_flight_turn(m)

\* The owner drops the future of run_full, or the stream, at any suspension
\* point; a stream that has ended is dropped too.
DropRun ==
    \/ kind = "full" /\ ReturnFull("Dropped", machine)
    \/ /\ kind = "stream"
       /\ kind' = "none" /\ at' = "none"
       /\ machine' = AgentRunStream_drop(machine)
       /\ approvals' = Cleared("Dropped")
       /\ seen' = [seen EXCEPT !.last = IF stream.state = "Done" THEN @ ELSE "Dropped"]
       /\ sent' = 0
       /\ control' = NoControl /\ stream' = NoStream
       /\ UNCHANGED <<cancelled, runs>>

\* What a poll does without waiting for a handler.
Poll == BeginDrive \/ LeaveWindow \/ Preempt

RunNext ==
    \/ run_full \/ start \/ Cancel \/ interject_pivot \/ DropRun
    \/ Poll \/ Emit \/ Complete \/ Misaligned
    \/ Deliver \/ DeliverDone

RunSpec == RunInit /\ [][RunNext]_runVars

\* An owner that polls on, and a consumer that takes what is in the sink.
\* Handlers need not come to an end: only a cancelled batch is given up.
FairRunSpec == RunSpec /\ WF_runVars(Poll) /\ WF_runVars(Deliver \/ DeliverDone)

-----------------------------------------------------------------------------
(***************************************************************************)
(* Properties.                                                             *)
(***************************************************************************)

\* A request that is being answered was rendered from every message the user
\* was told is accepted: neither a pivot queued while the request is out, nor
\* a request kept from before the pivot, lets the model answer an old
\* conversation (enqueue_pivot, close_pivot_window, apply_queued_pivot).
ReplyAnswersAcceptedMessages ==
    at = "fulfil" => machine.context = seen.messages /\ sent = seen.messages

\* A pivot that was accepted never costs the user the turn: the machine takes
\* it where the window was open (outcome_opens_pivot_window, inject_pivot).
AcceptedPivotIsLegal == control.queue = 1 /\ at = "window" => PivotIsLegal(machine)

\* After every run the agent can run again, however the run ended: returned,
\* failed, cancelled or dropped.  An error of the drive of a stream is left
\* out: its Drop does nothing, and the machine keeps waiting.
AgentUsableAgain ==
    kind = "none" /\ seen.last # "DriveErr" => AtRest(machine)

\* A run never sees an approval request recorded for another one
\* (ApprovalPendingGuard, clear_pending).
NoApprovalOutlivesRun == kind = "none" \/ at = "unpolled" => approvals = {}

\* The terminal event of a stream comes last: every event of the run has been
\* delivered before it, and none comes after it.
DoneComesLast == seen.last = "Done" /\ kind = "stream" => seen.delivered = seen.emitted

\* A cancelled run ends, wherever it was (every check of is_cancelled).
CancelEndsRun == (kind # "none" /\ cancelled) ~> (kind = "none" \/ at = "returned")

\* What becomes of a pivot that the user was told is accepted; and what a run
\* leaves behind, however it ends: an agent at rest, no approval request, and a
\* stream that has told everything before it said Done.
RunInv ==
    /\ RunTypeOK
    /\ ReplyAnswersAcceptedMessages /\ AcceptedPivotIsLegal
    /\ AgentUsableAgain /\ NoApprovalOutlivesRun /\ DoneComesLast
=============================================================================
