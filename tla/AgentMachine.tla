----------------------------- MODULE AgentMachine -----------------------------
(***************************************************************************)
(* The sans-io agent machine (src/src/agent/machine/default/mod.rs and     *)
(* tools.rs, with the cursor and the reconfiguration queue of              *)
(* src/src/agent/state.rs, state/cursor.rs and state/queue.rs).            *)
(*                                                                         *)
(* One step takes an input (a user message, a pivot, the result of a       *)
(* requirement, the abandonment of one), runs to the next blocking point   *)
(* and parks on a cursor that records the requirements it waits for.       *)
(* Every action is one whole step.  An input that the step rejects softly  *)
(* (a stale id, a second user message, a pivot at another boundary)        *)
(* changes nothing and is not an action: the guards are those checks.      *)
(*                                                                         *)
(* The driver is the environment.  It may answer in any order, answer      *)
(* wrongly, abandon, interrupt for the budget, or stop the process after   *)
(* saving the state.  The Conversation is seen through the phase of its    *)
(* pending turn and the calls of that turn (PendingTurn has the rest).     *)
(*                                                                         *)
(* Operators under a comment "Fault:" are not part of the model.  Each is  *)
(* a wrong version of the definition it precedes, put in its place to see  *)
(* that a property notices.                                                *)
(***************************************************************************)
EXTENDS Naturals, Sequences, FiniteSets

CONSTANTS
    Calls,        \* names for the tool calls of one LLM step
    Gated,        \* the calls for which the approval policy asks the user
    FreeBatches,  \* the sets of other calls a reply may ask for
    GatedQueues,  \* the sequences of gated calls a reply may ask for
    MaxSteps,     \* LoopPolicy.max_steps
    StopRun,      \* TRUE: ToolFailurePolicy::StopRun, FALSE: ReturnErrorToModel
    MaxTurns,     \* bound: user messages fed
    MaxReconfigs, \* bound: reconfigurations admitted
    MaxPivots     \* bound: pivots in one turn

ASSUME GatedAssumption == Gated \subseteq Calls
ASSUME RepliesAssumption ==
    /\ FreeBatches \subseteq SUBSET (Calls \ Gated)
    /\ \A batch \in FreeBatches : IsFiniteSet(batch)
    /\ \A q \in GatedQueues :
        q \in Seq(Gated) /\ \A i, j \in DOMAIN q : q[i] = q[j] => i = j
ASSUME BoundsAssumption ==
    /\ MaxSteps \in Nat \ {0}
    /\ MaxTurns \in Nat /\ MaxReconfigs \in Nat /\ MaxPivots \in Nat
    /\ StopRun \in BOOLEAN

VARIABLES
    \* LoopCursor
    cursor,     \* its kind
    reason,     \* the reason of a Done cursor
    reqs,       \* the requirement ids it records (pending_requirement_ids)
    nextReq,    \* the next id of the host's id source
    \* TurnScratch
    scratch,    \* "None", "InTurn", "BeginTurn" or "Commit" (PendingReconfig)
    parked,     \* PendingReconfig.application: the requests it was planned from
    steps,      \* InFlight.steps_started
    inTools,    \* InFlight.tools is Some
    approvalQ,  \* ToolPhase.approval_pending
    running,    \* ToolPhase.running, as pairs <<requirement, call>>
    approving,  \* ToolPhase.awaiting_approval, at most one such pair
    \* Conversation
    pend,       \* the phase of the pending turn, or "NoPending"
    open,       \* the calls of its last step without result
    answered,   \* the calls of that step with a result
    closed,     \* is_after_closed_tool_result_step
    pivots,     \* user messages injected into it
    committed,  \* number of committed turns
    \* AgentState
    queue,      \* queued_reconfigs
    \* history, for the properties
    turns,      \* user messages fed
    admitted,   \* reconfigurations admitted, in order
    applied,    \* reconfigurations applied, in order
    granted,    \* calls of the step the user approved
    ran,        \* calls of the step emitted as NeedTool
    settled,    \* requirement ids named by an accepted Resume or Abandon
    failure     \* why the machine last failed

cursorVars == <<cursor, reason, reqs, nextReq>>
scratchVars == <<scratch, parked, steps, inTools, approvalQ, running, approving>>
pendingVars == <<pend, open, answered, closed, pivots>>
queueVars == <<queue, admitted, applied>>
vars == <<cursorVars, scratchVars, pendingVars, committed, queueVars, turns,
          granted, ran, settled, failure>>

Kinds ==
    {"Idle", "StreamingStep", "AwaitingTool", "AwaitingApproval", "CancelRecovery",
     "AwaitingReconfig", "Done", "Error"}

Waiting == {"StreamingStep", "AwaitingTool", "AwaitingApproval", "AwaitingReconfig"}

Requests == {"Policy", "ToolSet"}

\* Types; a turn never starts more LLM steps than LoopPolicy.max_steps, and
\* the cursor records only requirements that were emitted.
TypeOK ==
    /\ cursor \in Kinds
    /\ reason \in {"None", "Completed", "StepLimitReached", "BudgetExhausted"}
    /\ nextReq \in Nat \ {0}
    /\ reqs \subseteq 1..(nextReq - 1)
    /\ scratch \in {"None", "InTurn", "BeginTurn", "Commit"}
    /\ parked \in Seq(Requests)
    /\ steps \in 0..MaxSteps
    /\ inTools \in BOOLEAN
    /\ approvalQ \in Seq(Calls)
    /\ running \subseteq (Nat \X Calls)
    /\ approving \subseteq (Nat \X Calls)
    /\ pend \in {"NoPending", "AwaitingAssistant", "AwaitingToolResults", "ReadyToCommit"}
    /\ open \subseteq Calls /\ answered \subseteq Calls
    /\ closed \in BOOLEAN
    /\ pivots \in 0..MaxPivots
    /\ committed \in 0..MaxTurns /\ turns \in 0..MaxTurns
    /\ queue \in Seq(Requests) /\ admitted \in Seq(Requests) /\ applied \in Seq(Requests)
    /\ granted \subseteq Calls /\ ran \subseteq Calls
    /\ settled \subseteq 1..(nextReq - 1)
    /\ failure \in {"None", "Driver", "Host", "Restored", "Internal"}

-----------------------------------------------------------------------------
(***************************************************************************)
(* The cursor's transition table.                                          *)
(***************************************************************************)
can_transition_to(from, to) ==
    to \in CASE from = "Idle" ->
                   {"StreamingStep", "AwaitingReconfig", "Done", "Error"}
             [] from = "StreamingStep" ->
                   {"Idle", "AwaitingTool", "AwaitingApproval", "AwaitingReconfig",
                    "CancelRecovery", "Done", "Error"}
             [] from = "AwaitingTool" ->
                   {"StreamingStep", "AwaitingApproval", "CancelRecovery", "Done", "Error"}
             [] from = "AwaitingApproval" ->
                   {"AwaitingTool", "CancelRecovery", "Done", "Error"}
             [] from = "AwaitingReconfig" ->
                   {"StreamingStep", "CancelRecovery", "Done", "Error"}
             [] from = "CancelRecovery" -> {"Idle", "Done", "Error"}
             [] from \in {"Done", "Error"} -> {"Idle", "Error"}

\* A step moves the cursor along a path; transition_cursor checks each move.
LegalPath(path) ==
    \A i \in 1..(Len(path) - 1) : can_transition_to(path[i], path[i + 1])

-----------------------------------------------------------------------------
(***************************************************************************)
(* Where a step can come to rest.  Each of these fixes the cursor, the     *)
(* scratch and the pending turn; the step that uses it fixes the rest.     *)
(***************************************************************************)
NoToolPhase ==
    /\ inTools' = FALSE
    /\ approvalQ' = << >>
    /\ running' = {}
    /\ approving' = {}

NoScratch ==
    /\ scratch' = "None"
    /\ parked' = << >>
    /\ steps' = 0
    /\ NoToolPhase

NoPendingTurn ==
    /\ pend' = "NoPending"
    /\ open' = {} /\ answered' = {}
    /\ closed' = FALSE /\ pivots' = 0

\* fail: the pending turn is discarded, the cursor parks on Error.
fail(why) ==
    /\ cursor' = "Error" /\ reason' = "None" /\ reqs' = {}
    /\ failure' = why
    /\ NoScratch
    /\ NoPendingTurn
    /\ UNCHANGED <<nextReq, committed>>

ParkOn(kind, ids) ==
    /\ cursor' = kind /\ reason' = "None"
    /\ reqs' = ids
    /\ nextReq' = nextReq + Cardinality(ids)
    /\ failure' = "None"

RestOn(kind, why) ==
    /\ cursor' = kind /\ reason' = why /\ reqs' = {}
    /\ failure' = "None"
    /\ UNCHANGED nextReq

FailedRest ==
    /\ cursor' = "Error" /\ reason' = "None" /\ reqs' = {}
    /\ failure' = "Internal"
    /\ UNCHANGED nextReq

\* The turn's transaction is opened and its first LLM step requested.
open_user_turn(path) ==
    IF LegalPath(path \o <<"StreamingStep">>)
    THEN /\ ParkOn("StreamingStep", {nextReq})
         /\ scratch' = "InTurn" /\ parked' = << >> /\ steps' = 1
         /\ NoToolPhase
         /\ pend' = "AwaitingAssistant"
         /\ open' = {} /\ answered' = {}
         /\ closed' = FALSE /\ pivots' = 0
         /\ UNCHANGED committed
    ELSE fail("Internal")

\* The reconfiguration that needs another registry is parked.
emit_reconfig_effect(path, kind) ==
    IF LegalPath(path \o <<"AwaitingReconfig">>)
    THEN /\ ParkOn("AwaitingReconfig", {nextReq})
         /\ scratch' = kind /\ parked' = queue /\ steps' = 0
         /\ NoToolPhase
         /\ IF kind = "BeginTurn" THEN NoPendingTurn
            ELSE pend' = "ReadyToCommit" /\ UNCHANGED <<open, answered, closed, pivots>>
         /\ UNCHANGED committed
    ELSE fail("Internal")

\* The pending turn, whose final assistant message is frozen, is committed.
finalize_text_commit(path) ==
    IF LegalPath(path \o <<"Done">>)
    THEN /\ RestOn("Done", "Completed")
         /\ NoScratch
         /\ NoPendingTurn
         /\ committed' = committed + 1
    ELSE fail("Internal")

ChangesToolSet(requests) == \E i \in DOMAIN requests : requests[i] = "ToolSet"

apply_reconfig_application(requests) ==
    /\ applied' = applied \o requests
    /\ queue' = << >>
    /\ UNCHANGED admitted

-----------------------------------------------------------------------------
(***************************************************************************)
(* The tool phase.                                                         *)
(***************************************************************************)

\* Requirement ids for a batch of calls, numbered from nextReq.
Batches(batch) ==
    {slots \in SUBSET ((nextReq..(nextReq + Cardinality(batch) - 1)) \X batch) :
        /\ Cardinality(slots) = Cardinality(batch)
        /\ \A s, t \in slots : s # t => s[1] # t[1] /\ s[2] # t[2]}

Ids(slots) == {s[1] : s \in slots}

CallsOf(slots) == {s[2] : s \in slots}

QueuedCalls(q) == {q[i] : i \in DOMAIN q}

\* All of a batch is emitted at once.  opened and done are the pending
\* turn's calls and queued the approval queue by then.
emit_tool_batch(path, batch, queued, opened, done) ==
    IF LegalPath(path \o <<"AwaitingTool">>)
    THEN \E slots \in Batches(batch) :
            /\ ParkOn("AwaitingTool", Ids(slots))
            /\ running' = running \cup slots
            /\ approving' = {}
            /\ approvalQ' = queued
            /\ inTools' = TRUE
            /\ pend' = "AwaitingToolResults"
            /\ open' = opened /\ answered' = done /\ closed' = FALSE
            /\ UNCHANGED <<scratch, parked, steps, pivots, committed>>
    ELSE fail("Internal")

\* The next call of the queue is put to the user.
emit_approval(path, queued, opened, done) ==
    IF LegalPath(path \o <<"AwaitingApproval">>)
    THEN /\ ParkOn("AwaitingApproval", {nextReq})
         /\ approving' = {<<nextReq, Head(queued)>>}
         /\ approvalQ' = Tail(queued)
         /\ running' = {}
         /\ inTools' = TRUE
         /\ pend' = "AwaitingToolResults"
         /\ open' = opened /\ answered' = done /\ closed' = FALSE
         /\ UNCHANGED <<scratch, parked, steps, pivots, committed>>
    ELSE fail("Internal")

\* The per-turn limit ends the run normally; the turn with its frozen tool
\* results stays pending (ResumeTurn closes it only if no call is open).
finish_step_limit(path, opened) ==
    IF LegalPath(path \o <<"Done">>) /\ opened = {}
    THEN /\ RestOn("Done", "StepLimitReached")
         /\ NoScratch
         /\ pend' = "AwaitingAssistant"
         /\ open' = {} /\ answered' = {} /\ closed' = TRUE
         /\ UNCHANGED <<pivots, committed>>
    ELSE fail("Internal")

StepLimitReached == steps >= MaxSteps

\* The calls are all answered: the next LLM step, or the step limit.
finish_tool_phase(path, opened) ==
    IF StepLimitReached
    THEN finish_step_limit(path, opened)
    ELSE IF LegalPath(path \o <<"StreamingStep">>)
    THEN /\ ParkOn("StreamingStep", {nextReq})
         /\ steps' = steps + 1
         /\ NoToolPhase
         /\ pend' = IF opened = {} THEN "AwaitingAssistant" ELSE "AwaitingToolResults"
         /\ open' = opened /\ answered' = {} /\ closed' = (opened = {})
         /\ UNCHANGED <<scratch, parked, pivots, committed>>
    ELSE fail("Internal")

\* After the auto-approved batch, which begin_tool_phase emits first: the
\* next approval, or the end of the phase.  The host may have no id to give.
advance_tool_phase(path, queued, opened, done) ==
    \/ queued # << >> /\ emit_approval(path, queued, opened, done)
    \/ queued = << >> /\ finish_tool_phase(path, opened)
    \/ fail("Host")

-----------------------------------------------------------------------------
(***************************************************************************)
(* Steps.                                                                  *)
(***************************************************************************)

\* The requirement a step answers, and what it adds to the history.
Settle(id, grants) ==
    /\ settled' = settled \cup {id}
    /\ granted' = granted \cup grants
    /\ ran' = ran \cup CallsOf(running')

\* A user message at a rest point.  What a former turn left pending is
\* discarded; a queued reconfiguration is applied, or parked when it changes
\* the tool set.
begin_user_turn ==
    LET path == IF cursor = "Idle" THEN <<"Idle">> ELSE <<cursor, "Idle">> IN
    /\ cursor \notin Waiting
    /\ turns < MaxTurns
    /\ turns' = turns + 1
    /\ \/ /\ ~ ChangesToolSet(queue)
          /\ apply_reconfig_application(queue)
          /\ open_user_turn(path) \/ fail("Host")
       \/ /\ ChangesToolSet(queue)
          /\ emit_reconfig_effect(path, "BeginTurn") \/ fail("Host")
          /\ UNCHANGED queueVars
    /\ UNCHANGED <<granted, ran, settled>>

\* A pivot is accepted behind a closed tool-result step and is part of the
\* request that is emitted again under the same id.
inject_pivot ==
    /\ cursor = "StreamingStep"
    /\ pend = "AwaitingAssistant" /\ closed
    /\ pivots < MaxPivots
    /\ pivots' = pivots + 1
    /\ UNCHANGED <<cursorVars, scratchVars, pend, open, answered, closed, committed, queueVars,
                   turns, granted, ran, settled, failure>>

\* A text reply ends the turn; a queued tool-set change is parked first.
commit_text_turn ==
    \/ /\ ~ ChangesToolSet(queue)
       /\ apply_reconfig_application(queue)
       /\ finalize_text_commit(<<cursor>>)
    \/ /\ ChangesToolSet(queue)
       /\ emit_reconfig_effect(<<cursor>>, "Commit") \/ fail("Host")
       /\ UNCHANGED queueVars

\* Fault: the approval policy is not asked.
begin_tool_phase_NoPolicy(batch, gatedCalls) ==
    LET calls == batch \cup QueuedCalls(gatedCalls) IN
    /\ emit_tool_batch(<<cursor>>, calls, << >>, calls, {}) \/ fail("Host")
    /\ UNCHANGED queueVars

\* A reply with tool calls: they are registered and split by the policy into
\* a batch that needs no approval and a queue that does.
begin_tool_phase(batch, gatedCalls) ==
    LET opened == batch \cup QueuedCalls(gatedCalls) IN
    /\ \/ batch # {} /\ emit_tool_batch(<<cursor>>, batch, gatedCalls, opened, {})
       \/ batch = {} /\ emit_approval(<<cursor>>, gatedCalls, opened, {})
       \/ fail("Host")
    /\ UNCHANGED queueVars

\* Fault: the id of the result is not compared with the one the cursor holds.
IsExpected_AnyId(id) == TRUE

\* Fault: it is compared with the id that will be given out next.
IsExpected_NextId(id) == id = nextReq

IsExpected(id) == id \in reqs

resume_llm(id, reply) ==
    /\ cursor = "StreamingStep"
    /\ IsExpected(id)
    /\ \/ /\ reply \in {"error", "wrong"}
          /\ fail("Driver")
          /\ UNCHANGED queueVars
       \/ /\ reply = "ok" /\ scratch = "InTurn"
          /\ \/ commit_text_turn
             \/ \E batch \in FreeBatches, gatedCalls \in GatedQueues :
                   /\ batch # {} \/ gatedCalls # << >>
                   /\ begin_tool_phase(batch, gatedCalls)
       \/ /\ reply = "ok" /\ scratch # "InTurn"
          /\ fail("Internal")
          /\ UNCHANGED queueVars
    /\ settled' = settled \cup {id}
    /\ granted' = {} /\ ran' = CallsOf(running')
    /\ UNCHANGED turns

\* Fault: a batch does not count as idle while approvals are queued.
tool_batch_idle_EmptyQueue(left) == left = {} /\ approving = {} /\ approvalQ = << >>

tool_batch_idle(left) == left = {} /\ approving = {}

\* A tool result is routed by its requirement id; the phase advances when
\* the batch is idle.
resume_tool(id, result) ==
    /\ cursor = "AwaitingTool"
    /\ inTools => id \in Ids(running)
    /\ \/ /\ result = "wrong" \/ (result = "error" /\ StopRun) \/ ~ inTools
          /\ fail(IF inTools THEN "Driver" ELSE "Internal")
       \/ /\ result = "ok" \/ (result = "error" /\ ~ StopRun)
          /\ inTools
          /\ \E slot \in running :
             LET left == running \ {slot}
                 opened == open \ {slot[2]}
                 done == answered \cup {slot[2]}
             IN
             /\ slot[1] = id
             /\ \/ /\ slot[2] \notin open
                   /\ fail("Internal")
                \/ /\ slot[2] \in open
                   /\ tool_batch_idle(left)
                   /\ advance_tool_phase(<<cursor>>, approvalQ, opened, done)
                \/ /\ slot[2] \in open
                   /\ ~ tool_batch_idle(left)
                   /\ running' = left
                   /\ open' = opened /\ answered' = done
                   /\ pend' = IF opened = {} THEN "AwaitingAssistant" ELSE pend
                   /\ UNCHANGED <<cursorVars, scratch, parked, steps, inTools, approvalQ,
                                  approving, closed, pivots, committed,
                                  failure>>
    /\ Settle(id, {})
    /\ UNCHANGED <<queueVars, turns>>

DenialPath == <<cursor, "AwaitingTool">>

\* Approve runs the call; Deny, Timeout and Cancel answer it with a synthetic
\* result, and the cursor passes through AwaitingTool.
resume_approval(id, decision) ==
    /\ cursor = "AwaitingApproval"
    /\ approving # {} => IsExpected(id) /\ id \in Ids(approving)
    /\ \/ /\ decision = "wrong" \/ approving = {}
          /\ fail(IF approving = {} THEN "Internal" ELSE "Driver")
       \/ /\ decision = "ok"
          /\ \E slot \in approving :
                \/ emit_tool_batch(<<cursor>>, {slot[2]}, approvalQ, open, answered)
                \/ fail("Host")
       \/ /\ decision = "error"
          /\ \E slot \in approving :
                IF slot[2] \in open
                THEN advance_tool_phase(DenialPath, approvalQ, open \ {slot[2]}, answered \cup {slot[2]})
                ELSE fail("Internal")
    /\ Settle(id, IF decision = "ok" THEN CallsOf(approving) ELSE {})
    /\ UNCHANGED <<queueVars, turns>>

\* The registry was resolved: the parked application is applied and the turn
\* opened or committed.  A machine restored here has nothing parked.
resume_reconfig(id, result) ==
    /\ cursor = "AwaitingReconfig"
    /\ IsExpected(id)
    /\ \/ /\ result # "ok" \/ scratch = "None"
          /\ fail(IF result # "ok" THEN "Driver" ELSE "Restored")
          /\ Settle(id, {})
          /\ UNCHANGED queueVars
       \/ /\ result = "ok" /\ scratch = "BeginTurn"
          /\ apply_reconfig_application(parked)
          /\ open_user_turn(<<cursor>>) \/ fail("Host")
          /\ Settle(id, {})
       \/ /\ result = "ok" /\ scratch = "Commit"
          /\ apply_reconfig_application(parked)
          /\ finalize_text_commit(<<cursor>>)
          /\ Settle(id, {})
    /\ UNCHANGED turns

resume(id, result) ==
    \/ resume_llm(id, result)
    \/ resume_tool(id, result)
    \/ resume_approval(id, result)
    \/ resume_reconfig(id, result)

-----------------------------------------------------------------------------
(***************************************************************************)
(* Never-resume closes.                                                    *)
(***************************************************************************)
CancelPathIsLegal == LegalPath(<<cursor, "CancelRecovery", "Idle">>)

finish_cancel ==
    /\ NoScratch
    /\ IF CancelPathIsLegal THEN RestOn("Idle", "None") ELSE FailedRest

abandon_llm_step ==
    /\ cursor = "StreamingStep"
    /\ NoPendingTurn
    /\ finish_cancel
    /\ UNCHANGED committed

\* Every slot of the phase that has no result gets a cancelled one; the
\* Conversation accepts that only if they are exactly its open calls.
open_cancelled_results ==
    CallsOf(running) \cup QueuedCalls(approvalQ) \cup CallsOf(approving)

abandon_tool_phase ==
    /\ cursor \in {"AwaitingTool", "AwaitingApproval"}
    /\ IF inTools /\ open_cancelled_results = open /\ CancelPathIsLegal
       THEN /\ pend' = "AwaitingAssistant"
            /\ open' = {} /\ answered' = {} /\ closed' = TRUE
            /\ finish_cancel
            /\ UNCHANGED <<pivots, committed>>
       ELSE fail("Internal")

\* A frozen text reply is kept; the reconfiguration stays queued.
abandon_reconfig ==
    /\ cursor = "AwaitingReconfig"
    /\ committed' = IF pend = "NoPending" THEN committed ELSE committed + 1
    /\ NoPendingTurn
    /\ finish_cancel

\* Fault: the id is not looked up in the cursor.
abandon_AnyId(id) ==
    /\ cursor \in Waiting
    /\ abandon_llm_step \/ abandon_tool_phase \/ abandon_reconfig
    /\ settled' = settled \cup {id}
    /\ UNCHANGED <<queueVars, turns, granted, ran>>

abandon(id) ==
    /\ cursor \in Waiting
    /\ id \in reqs
    /\ abandon_llm_step \/ abandon_tool_phase \/ abandon_reconfig
    /\ settled' = settled \cup {id}
    /\ UNCHANGED <<queueVars, turns, granted, ran>>

finish_budget_exhausted ==
    LET path == IF cursor \in {"Idle", "CancelRecovery"} THEN <<cursor, "Done">>
                ELSE <<cursor, "CancelRecovery", "Done">> IN
    /\ cursor \notin {"Done", "Error"}
    /\ NoPendingTurn
    /\ NoScratch
    /\ IF LegalPath(path) THEN RestOn("Done", "BudgetExhausted") ELSE FailedRest
    /\ UNCHANGED <<committed, queueVars, turns, granted, ran, settled>>

-----------------------------------------------------------------------------
(***************************************************************************)
(* The host.                                                               *)
(***************************************************************************)

\* Fault: a request is admitted while another is parked.
reconfigure_AnyTime(request) ==
    /\ Len(admitted) < MaxReconfigs
    /\ queue' = Append(queue, request)
    /\ admitted' = Append(admitted, request)
    /\ UNCHANGED <<cursorVars, scratchVars, pendingVars, committed, applied, turns,
                   granted, ran, settled, failure>>

\* A reconfiguration is refused while one is parked.
reconfigure(request) ==
    /\ Len(admitted) < MaxReconfigs
    /\ cursor # "AwaitingReconfig"
    /\ queue' = Append(queue, request)
    /\ admitted' = Append(admitted, request)
    /\ UNCHANGED <<cursorVars, scratchVars, pendingVars, committed, applied, turns,
                   granted, ran, settled, failure>>

\* The state is saved, which a pending turn forbids, and a new machine is
\* built on it: the scratch is not part of the state.
SaveAndRestore ==
    /\ pend = "NoPending"
    /\ NoScratch
    /\ UNCHANGED <<cursorVars, pendingVars, committed, queueVars, turns, granted, ran,
                   settled, failure>>

Init ==
    /\ cursor = "Idle" /\ reason = "None" /\ reqs = {} /\ nextReq = 1
    /\ scratch = "None" /\ parked = << >> /\ steps = 0
    /\ inTools = FALSE /\ approvalQ = << >> /\ running = {} /\ approving = {}
    /\ pend = "NoPending" /\ open = {} /\ answered = {} /\ closed = FALSE /\ pivots = 0
    /\ committed = 0 /\ turns = 0
    /\ queue = << >> /\ admitted = << >> /\ applied = << >>
    /\ granted = {} /\ ran = {} /\ settled = {} /\ failure = "None"

KnownIds == 1..(nextReq - 1)

DriverAnswers == \E id \in KnownIds, result \in {"ok", "error", "wrong"} : resume(id, result)

Next ==
    \/ begin_user_turn
    \/ inject_pivot
    \/ DriverAnswers
    \/ \E id \in KnownIds : abandon(id)
    \/ finish_budget_exhausted
    \/ \E request \in Requests : reconfigure(request)
    \/ SaveAndRestore

Spec == Init /\ [][Next]_vars

\* The driver answers every requirement in the end (drive.rs loops until the
\* machine rests).
FairSpec == Spec /\ WF_vars(DriverAnswers)

-----------------------------------------------------------------------------
(***************************************************************************)
(* Properties.                                                             *)
(***************************************************************************)

\* TurnScratch::matches_cursor, the assertion of resume and abandon.
matches_cursor ==
    /\ scratch = "None" => cursor \notin Waiting
    /\ scratch = "InTurn" => cursor \in {"StreamingStep", "AwaitingTool", "AwaitingApproval"}
    /\ scratch \in {"BeginTurn", "Commit"} => cursor = "AwaitingReconfig"

\* In every state the cursor, the scratch and the phase of the pending turn
\* tell the same story, although each is written by its own assignments on
\* every path of every step; the only machine without a scratch for its
\* cursor is one restored while a start-of-turn reconfiguration was parked.
CursorScratchPendingAgree ==
    /\ matches_cursor \/ (cursor = "AwaitingReconfig" /\ pend = "NoPending")
    /\ cursor = "StreamingStep" => pend = "AwaitingAssistant" /\ ~ inTools
    /\ cursor \in {"AwaitingTool", "AwaitingApproval"} =>
          pend = "AwaitingToolResults" /\ inTools
    /\ cursor = "AwaitingReconfig" =>
          pend = IF scratch = "Commit" THEN "ReadyToCommit" ELSE "NoPending"
    /\ cursor \in {"Idle", "Done"} => pend \in {"NoPending", "AwaitingAssistant"}
    /\ cursor = "Error" \/ reason \in {"Completed", "BudgetExhausted"} => pend = "NoPending"

\* Every call of the turn without a result is in exactly one place of the
\* tool phase, so that an abandoned phase can always be closed, and no call
\* is both running and queued.
OpenCallsHaveOneSlot ==
    /\ open_cancelled_results = open
    /\ open \cap answered = {}
    /\ Cardinality(running) + Len(approvalQ) + Cardinality(approving) = Cardinality(open)

\* The machine is never parked on requirements that are all answered: what
\* it still waits for is in the cursor, and not settled.
SomethingIsAwaited ==
    /\ cursor \in Waiting => reqs \ settled # {}
    /\ cursor = "AwaitingTool" => Ids(running) = reqs \ settled
    /\ cursor = "AwaitingApproval" => Ids(approving) = reqs

\* No step fails for a reason of the machine's own: an illegal cursor
\* transition, a missing tool phase, a closure the Conversation refuses.
NoInternalFailure == failure # "Internal"

\* A call for which the policy asks the user runs only after an approval.
NoRunWithoutApproval == ran \cap Gated \subseteq granted

\* Reconfigurations are applied in the order they were admitted, each once
\* and none lost, through parking, failure, abandonment and restarts.
ReconfigsAppliedInOrder == applied \o queue = admitted

\* A turn that waits comes to rest: the step limit bounds it, whatever the
\* model and the tools answer.
EveryTurnComesToRest == cursor \in Waiting ~> cursor \notin Waiting

\* How the turn stands, as TurnProtocol tells it to the driver.
TurnOutcome ==
    IF cursor \in Waiting THEN "Open"
    ELSE IF cursor = "Idle" THEN "Idle"
    ELSE IF reason = "BudgetExhausted" THEN "Interrupted"
    ELSE "Ended"

Protocol == INSTANCE TurnProtocol WITH
                outcome <- TurnOutcome,
                batch <- reqs,
                awaited <- reqs \ settled,
                issued <- nextReq - 1,
                settled <- settled

\* The machine keeps this contract with its driver (AgentMachine::step): ids
\* are never used twice, a batch is answered to its end before there is
\* another one, an Abandon or a late answer that names a requirement of an
\* earlier batch or of an earlier turn changes nothing, only an Abandon or an
\* interrupt ends a turn early, and nothing is awaited once it is over.
KeepsTurnProtocol == Protocol!Spec

\* An input that names a settled requirement is rejected as stale
\* (StepRejectReason::UnknownRequirement, agent/machine/mod.rs:159-165).
SettledIdsAreStale == Protocol!DocumentedSpec

\* What every step of the machine preserves, on its error paths too, over
\* five separately assigned pieces of state.
MachineInv ==
    /\ TypeOK
    /\ CursorScratchPendingAgree
    /\ OpenCallsHaveOneSlot
    /\ SomethingIsAwaited
    /\ NoInternalFailure
=============================================================================
