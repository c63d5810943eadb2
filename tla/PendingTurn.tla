----------------------------- MODULE PendingTurn -----------------------------
(***************************************************************************)
(* The turn transaction of one Conversation (src/src/conversation/mod.rs   *)
(* and pending/): a user message opens a pending turn, assistant           *)
(* responses, tool-call mappings and tool results grow it, and it ends by  *)
(* being committed to the append-only log or cancelled (discarded, resumed *)
(* or committed with synthetic results).                                   *)
(*                                                                         *)
(* Every operation is a method call of one caller, so an action is one     *)
(* call.  Calls that are refused without touching the state are not        *)
(* actions; the two failures that do change it, a failed stream event and  *)
(* a failed freeze, are (PushAssistantEvent, FinishAssistantRejected).     *)
(* The caller may supply any id, also one that is already taken: the       *)
(* guards below are the code's checks, and the invariants say they are     *)
(* enough.  Head moves and forks are in ConversationTree.                  *)
(*                                                                         *)
(* Operators under a comment "Fault:" are not part of the model.  Each is  *)
(* a wrong version of the definition it precedes, put in its place to see  *)
(* that a property notices.                                                *)
(***************************************************************************)
EXTENDS TurnValidation

CONSTANTS
    Responses,   \* the model responses that can arrive
    NoCall,      \* a location without framework call id (Option::None)
    NoResponse,  \* no complete response is held
    MaxVersion   \* the largest structural version (u64::MAX in the code)

ResponseType == [role : Roles, wellFormed : BOOLEAN, uses : Seq(ProvIds)]

ASSUME ResponsesAssumption == Responses \subseteq ResponseType
ASSUME MaxVersionAssumption == MaxVersion \in Nat
ASSUME AbsentAssumption ==
    /\ NoMsg \notin MsgIds
    /\ NoCall \notin CallIds
    /\ NoTurn \notin TurnIds
    /\ NoResponse \notin Responses

VARIABLES
    raw,          \* committed turns, oldest first (History.raw)
    messageIds,   \* the cached set of retained message ids (History.message_ids)
    version,      \* Conversation.version
    phase,        \* PendingTurnPhase, or "NoPending"
    turnId,       \* PendingTurn.id
    parent,       \* PendingTurn.parent
    messages,     \* PendingTurn.messages
    toolCalls,    \* PendingTurn.tool_calls
    unmapped,     \* AwaitingToolCallMappings.provider_call_ids
    assistant,    \* the PendingMessage held by AssistantInProgress
    pendingIndex  \* the pending half of the ToolCallIndex

history == <<raw, messageIds, version>>
draft == <<turnId, parent, messages, toolCalls, unmapped>>
turnVars == <<history, phase, draft, assistant, pendingIndex>>

Phases ==
    {"NoPending", "AwaitingAssistant", "AssistantInProgress",
     "AwaitingToolCallMappings", "AwaitingToolResults", "ReadyToCommit"}

NoAssistant == [state |-> "None", response |-> NoResponse]

Location ==
    [call : CallIds \cup {NoCall}, prov : ProvIds, callMsg : MsgIds,
     resultMsg : MsgIds \cup {NoMsg}]

\* Types: the log, its id cache, the version, and the parts of the pending
\* turn (the structs Conversation, History and PendingTurn).
TurnTypeOK ==
    /\ raw \in Seq(Turn)
    /\ messageIds \subseteq MsgIds
    /\ version \in 0..MaxVersion
    /\ phase \in Phases
    /\ turnId \in TurnIds \cup {NoTurn}
    /\ parent \in TurnIds \cup {NoTurn}
    /\ messages \in Seq(Message)
    /\ toolCalls \in Seq(ToolCall)
    /\ unmapped \in Seq(ProvIds)
    /\ assistant \in [state : {"None", "Streaming", "Complete", "Terminal", "Frozen"},
                      response : Responses \cup {NoResponse}]
    /\ pendingIndex \subseteq Location

-----------------------------------------------------------------------------
(***************************************************************************)
(* Helpers.                                                                *)
(***************************************************************************)
UserMessage(m) ==
    [id |-> m, role |-> "user", uses |-> << >>, results |-> << >>, wellFormed |-> TRUE]

AssistantMessage(m, r) ==
    [id |-> m, role |-> r.role, uses |-> r.uses, results |-> << >>,
     wellFormed |-> r.wellFormed]

ToolMessage(m, p) ==
    [id |-> m, role |-> "tool", uses |-> << >>, results |-> <<p>>, wellFormed |-> TRUE]

tip_id == IF raw = << >> THEN NoTurn ELSE raw[Len(raw)].id

retained_message_exists(m) == m \in messageIds

contains_message_id(m) == m \in MessageIdsOf(messages)

\* Fault: only the pending turn is looked at.
FreshMessageId_PendingOnly(m) == ~ contains_message_id(m)

FreshMessageId(m) == ~ retained_message_exists(m) /\ ~ contains_message_id(m)

open_calls == {i \in DOMAIN toolCalls : toolCalls[i].resultMsg = NoMsg}

\* A call returns to the assistant only behind tool results: the last
\* assistant message is followed by at least one tool message.
is_after_closed_tool_result_step ==
    \E a \in DOMAIN messages :
        /\ messages[a].role = "assistant"
        /\ \A k \in DOMAIN messages :
              k > a => messages[k].role \in {"user", "tool"}
        /\ \E k \in DOMAIN messages : k > a /\ messages[k].role = "tool"

\* The call c with m as its result message.
Answered(c, m) ==
    [call |-> c.call, prov |-> c.prov, callMsg |-> c.callMsg, resultMsg |-> m]

CallLocation(c) ==
    [call |-> c.call, prov |-> c.prov, callMsg |-> c.callMsg, resultMsg |-> c.resultMsg]

\* What the pending half of the index must hold for a draft: the registered
\* calls and, while mappings are awaited, the calls that have no call id yet.
pending_locations(ph, msgs, calls, unm) ==
    {CallLocation(calls[i]) : i \in DOMAIN calls}
    \cup (IF ph = "AwaitingToolCallMappings"
          THEN {[call |-> NoCall, prov |-> unm[i], callMsg |-> msgs[Len(msgs)].id,
                 resultMsg |-> NoMsg] : i \in DOMAIN unm}
          ELSE {})

refresh_pending_index ==
    pendingIndex' = pending_locations(phase', messages', toolCalls', unmapped')

\* No pending turn: Option::None, and nothing held for it.
ClearPending ==
    /\ phase' = "NoPending"
    /\ turnId' = NoTurn
    /\ parent' = NoTurn
    /\ messages' = << >>
    /\ toolCalls' = << >>
    /\ unmapped' = << >>
    /\ assistant' = NoAssistant

\* The sole commit path: validate the candidate, then append it.
commit_draft(turn) ==
    /\ version < MaxVersion
    /\ validate_turn_data(turn, raw, tip_id)
    /\ raw' = Append(raw, turn)
    /\ messageIds' = messageIds \cup MessageIdsOf(turn.messages)
    /\ version' = version + 1
    /\ pendingIndex' = {}

-----------------------------------------------------------------------------
(***************************************************************************)
(* Building a turn.                                                        *)
(***************************************************************************)
begin_turn(t, m) ==
    /\ phase = "NoPending"
    /\ \A k \in DOMAIN raw : raw[k].id # t
    /\ ~ retained_message_exists(m)
    /\ phase' = "AwaitingAssistant"
    /\ turnId' = t
    /\ parent' = tip_id
    /\ messages' = <<UserMessage(m)>>
    /\ toolCalls' = << >>
    /\ unmapped' = << >>
    /\ assistant' = NoAssistant
    /\ refresh_pending_index
    /\ UNCHANGED history

start_assistant ==
    /\ phase = "AwaitingAssistant"
    /\ phase' = "AssistantInProgress"
    /\ assistant' = [state |-> "Streaming", response |-> NoResponse]
    /\ UNCHANGED <<history, draft, pendingIndex>>

start_assistant_response(r) ==
    /\ phase = "AwaitingAssistant"
    /\ phase' = "AssistantInProgress"
    /\ assistant' = [state |-> "Complete", response |-> r]
    /\ UNCHANGED <<history, draft, pendingIndex>>

\* A stream event the accumulator refuses, or any event for a response that
\* is already complete, makes the held message terminal.  An event the
\* accumulator accepts only changes the accumulator.
push_assistant_event ==
    /\ phase = "AssistantInProgress"
    /\ assistant.state \in {"Streaming", "Complete"}
    /\ assistant' = [state |-> "Terminal", response |-> NoResponse]
    /\ UNCHANGED <<history, phase, draft, pendingIndex>>

\* Fault: a message that failed to stream can still be finished.
FinishedResponse_AnyState(r) ==
    \/ assistant.state \in {"Streaming", "Terminal", "Frozen"}
    \/ assistant.state = "Complete" /\ assistant.response = r

\* The response a finish sees: what the stream accumulated, or what is held.
FinishedResponse(r) ==
    \/ assistant.state = "Streaming"
    \/ assistant.state = "Complete" /\ assistant.response = r

validate_assistant_blocks(r) ==
    /\ r.wellFormed
    /\ NoRepetition(r.uses)
    /\ Elements(r.uses) \cap ProvIdsOf(toolCalls) = {}

finish_assistant(m, r) ==
    /\ phase = "AssistantInProgress"
    /\ FreshMessageId(m)
    /\ FinishedResponse(r)
    /\ r.role = "assistant"
    /\ validate_assistant_blocks(r)
    /\ messages' = Append(messages, AssistantMessage(m, r))
    /\ phase' = IF r.uses = << >> THEN "ReadyToCommit" ELSE "AwaitingToolCallMappings"
    /\ unmapped' = r.uses
    /\ assistant' = NoAssistant
    /\ UNCHANGED <<history, turnId, parent, toolCalls>>
    /\ refresh_pending_index

\* A freeze that fails consumes the held message: an unfinished stream or a
\* response of another role leaves it terminal; a response refused by the
\* block check was already frozen.  The phase does not change.
FinishAssistantRejected(m, r) ==
    /\ phase = "AssistantInProgress"
    /\ FreshMessageId(m)
    /\ FinishedResponse(r)
    /\ \/ /\ assistant.state = "Streaming" \/ r.role # "assistant"
          /\ assistant' = [state |-> "Terminal", response |-> NoResponse]
       \/ /\ r.role = "assistant"
          /\ ~ validate_assistant_blocks(r)
          /\ assistant' = [state |-> "Frozen", response |-> NoResponse]
    /\ UNCHANGED <<history, phase, draft, pendingIndex>>

FreshCallIds(callOf) ==
    \A p \in DOMAIN callOf :
       /\ callOf[p] \notin RetainedCallIds(raw) \cup CallIdsOf(toolCalls)
       /\ \A q \in DOMAIN callOf : callOf[p] = callOf[q] => p = q

\* The mappings give every unmapped provider id exactly one new call id.
register_tool_calls(callOf) ==
    /\ phase = "AwaitingToolCallMappings"
    /\ NoRepetition(unmapped)
    /\ Elements(unmapped) \cap ProvIdsOf(toolCalls) = {}
    /\ DOMAIN callOf = Elements(unmapped)
    /\ FreshCallIds(callOf)
    /\ toolCalls' = toolCalls \o
          [i \in 1..Len(unmapped) |->
              [call |-> callOf[unmapped[i]], prov |-> unmapped[i],
               callMsg |-> messages[Len(messages)].id, resultMsg |-> NoMsg]]
    /\ unmapped' = << >>
    /\ phase' = "AwaitingToolResults"
    /\ UNCHANGED <<history, turnId, parent, messages, assistant>>
    /\ refresh_pending_index

\* Fault: the first result ends the wait for all of them.
append_tool_result_FirstEndsWait(m, p) ==
    /\ FreshMessageId(m)
    /\ phase = "AwaitingToolResults"
    /\ \E i \in open_calls :
          /\ toolCalls[i].prov = p
          /\ \A j \in DOMAIN toolCalls : toolCalls[j].prov = p => i <= j
          /\ toolCalls' = [toolCalls EXCEPT ![i] = Answered(toolCalls[i], m)]
    /\ phase' = "AwaitingAssistant"
    /\ messages' = Append(messages, ToolMessage(m, p))
    /\ UNCHANGED <<history, turnId, parent, unmapped, assistant>>
    /\ refresh_pending_index

append_tool_result(m, p) ==
    /\ FreshMessageId(m)
    /\ phase = "AwaitingToolResults"
    /\ \E i \in open_calls :
          /\ toolCalls[i].prov = p
          /\ \A j \in DOMAIN toolCalls : toolCalls[j].prov = p => i <= j
          /\ toolCalls' = [toolCalls EXCEPT ![i] = Answered(toolCalls[i], m)]
          /\ phase' = IF open_calls = {i} THEN "AwaitingAssistant" ELSE phase
    /\ messages' = Append(messages, ToolMessage(m, p))
    /\ UNCHANGED <<history, turnId, parent, unmapped, assistant>>
    /\ refresh_pending_index

inject_user_message(m) ==
    /\ phase = "AwaitingAssistant"
    /\ FreshMessageId(m)
    /\ is_after_closed_tool_result_step
    /\ messages' = Append(messages, UserMessage(m))
    /\ UNCHANGED <<history, phase, turnId, parent, toolCalls, unmapped, assistant>>
    /\ refresh_pending_index

DraftTurn == [id |-> turnId, parent |-> parent, messages |-> messages, toolCalls |-> toolCalls]

commit_pending ==
    /\ phase = "ReadyToCommit"
    /\ commit_draft(DraftTurn)
    /\ ClearPending

-----------------------------------------------------------------------------
(***************************************************************************)
(* Cancelling a turn.                                                      *)
(***************************************************************************)

\* The positions of the open calls in registration order, as the only
\* strictly increasing sequence that lists them.
OpenCallOrders ==
    {ord \in UNION {[1..n -> open_calls] : n \in 0..Len(toolCalls)} :
        /\ \A i, j \in DOMAIN ord : i < j => ord[i] < ord[j]
        /\ open_calls = {ord[i] : i \in DOMAIN ord}}

\* The provider ids a cancellation has to answer, in the code's order.
expected_open_calls ==
    IF phase \in {"AwaitingAssistant", "AssistantInProgress"} THEN {<< >>}
    ELSE IF phase = "AwaitingToolCallMappings" THEN {unmapped}
    ELSE IF phase = "AwaitingToolResults"
    THEN {[i \in DOMAIN ord |-> toolCalls[ord[i]].prov] : ord \in OpenCallOrders}
    ELSE {}

\* The caller's results: for every expected provider id one message id and
\* one call id.  Message ids must be new and distinct; the call id repeats
\* the registered one, or is new and distinct for an unmapped call.
AcceptableResults(provs, msgOf, callOf) ==
    /\ NoRepetition(provs)
    /\ DOMAIN msgOf = Elements(provs) /\ DOMAIN callOf = Elements(provs)
    /\ \A p \in Elements(provs) :
          /\ FreshMessageId(msgOf[p])
          /\ \A q \in Elements(provs) : msgOf[p] = msgOf[q] => p = q
    /\ phase = "AwaitingToolResults" =>
          \A i \in open_calls : callOf[toolCalls[i].prov] = toolCalls[i].call
    /\ phase = "AwaitingToolCallMappings" => FreshCallIds(callOf)

CancelledMessages(provs, msgOf) ==
    [i \in DOMAIN provs |-> ToolMessage(msgOf[provs[i]], provs[i])]

\* Fault: the registered calls stay open.
CancelledToolCalls_LeftOpen(provs, msgOf, callOf) ==
    IF phase = "AwaitingToolCallMappings"
    THEN toolCalls \o [i \in 1..Len(provs) |->
            [call |-> callOf[provs[i]], prov |-> provs[i],
             callMsg |-> messages[Len(messages)].id, resultMsg |-> msgOf[provs[i]]]]
    ELSE toolCalls

CancelledToolCalls(provs, msgOf, callOf) ==
    IF phase = "AwaitingToolCallMappings"
    THEN toolCalls \o [i \in 1..Len(provs) |->
            [call |-> callOf[provs[i]], prov |-> provs[i],
             callMsg |-> messages[Len(messages)].id, resultMsg |-> msgOf[provs[i]]]]
    ELSE [i \in DOMAIN toolCalls |->
            IF i \in open_calls
            THEN Answered(toolCalls[i], msgOf[toolCalls[i].prov])
            ELSE toolCalls[i]]

discard_pending_turn ==
    /\ phase # "NoPending"
    /\ ClearPending
    /\ refresh_pending_index
    /\ UNCHANGED history

resume_cancelled_turn(provs, msgOf, callOf) ==
    /\ provs \in expected_open_calls
    /\ AcceptableResults(provs, msgOf, callOf)
    /\ messages' = messages \o CancelledMessages(provs, msgOf)
    /\ toolCalls' = CancelledToolCalls(provs, msgOf, callOf)
    /\ phase' = "AwaitingAssistant"
    /\ unmapped' = << >>
    /\ assistant' = NoAssistant
    /\ UNCHANGED <<history, turnId, parent>>
    /\ refresh_pending_index

CancelledTurn(provs, msgOf, callOf, m, r) ==
    [id |-> turnId, parent |-> parent,
     messages |-> messages \o CancelledMessages(provs, msgOf) \o <<AssistantMessage(m, r)>>,
     toolCalls |-> CancelledToolCalls(provs, msgOf, callOf)]

\* The final response is checked for its role and for tool uses; its other
\* blocks are left to the validator.
AcceptableFinal(provs, msgOf, m, r) ==
    /\ FreshMessageId(m)
    /\ \A p \in Elements(provs) : msgOf[p] # m
    /\ r.role = "assistant"
    /\ r.uses = << >>

commit_cancelled_turn(provs, msgOf, callOf, m, r) ==
    /\ provs \in expected_open_calls
    /\ AcceptableResults(provs, msgOf, callOf)
    /\ AcceptableFinal(provs, msgOf, m, r)
    /\ commit_draft(CancelledTurn(provs, msgOf, callOf, m, r))
    /\ ClearPending

-----------------------------------------------------------------------------
TurnInit ==
    /\ raw = << >>
    /\ messageIds = {}
    /\ version = 0
    /\ phase = "NoPending"
    /\ turnId = NoTurn
    /\ parent = NoTurn
    /\ messages = << >>
    /\ toolCalls = << >>
    /\ unmapped = << >>
    /\ assistant = NoAssistant
    /\ pendingIndex = {}

BuildTurn ==
    \/ \E t \in TurnIds, m \in MsgIds : begin_turn(t, m)
    \/ start_assistant
    \/ \E r \in Responses : start_assistant_response(r)
    \/ push_assistant_event
    \/ \E m \in MsgIds, r \in Responses : finish_assistant(m, r)
    \/ \E m \in MsgIds, r \in Responses : FinishAssistantRejected(m, r)
    \/ \E callOf \in [Elements(unmapped) -> CallIds] : register_tool_calls(callOf)
    \/ \E m \in MsgIds, p \in ProvIds : append_tool_result(m, p)
    \/ \E m \in MsgIds : inject_user_message(m)
    \/ commit_pending

CancelTurn ==
    \/ discard_pending_turn
    \/ \E provs \in expected_open_calls :
       \E msgOf \in [Elements(provs) -> MsgIds], callOf \in [Elements(provs) -> CallIds] :
          \/ resume_cancelled_turn(provs, msgOf, callOf)
          \/ \E m \in MsgIds, r \in Responses :
                commit_cancelled_turn(provs, msgOf, callOf, m, r)

TurnNext == BuildTurn \/ CancelTurn

TurnSpec == TurnInit /\ [][TurnNext]_turnVars

-----------------------------------------------------------------------------
(***************************************************************************)
(* Properties.                                                             *)
(***************************************************************************)

\* The phase says which calls are open: calls are open exactly while results
\* are awaited, provider ids are unmapped exactly while mappings are awaited,
\* and no call that was cancelled, resumed over or committed stays open.
\* (mod.rs:276-346, cancel.rs:214-262: four operations move the phase.)
PhaseMatchesCalls ==
    /\ phase = "AwaitingToolResults" <=> open_calls # {}
    /\ phase = "AwaitingToolCallMappings" <=> unmapped # << >>
    /\ phase = "AssistantInProgress" <=> assistant.state # "None"
    /\ phase = "NoPending" <=> messages = << >>

\* No message id occurs twice in the retained log and the pending turn
\* together, although each operation checks its own ids against its own view
\* (the cached set, the pending list, the ids supplied in the same call).
MessageIdsUnique ==
    /\ \A i, j \in DOMAIN messages : messages[i].id = messages[j].id => i = j
    /\ MessageIdsOf(messages) \cap RetainedMessageIds(raw) = {}
    /\ \A k, l \in DOMAIN raw : k # l =>
          MessageIdsOf(raw[k].messages) \cap MessageIdsOf(raw[l].messages) = {}

\* The same for framework tool-call ids.
CallIdsUnique ==
    /\ \A i, j \in DOMAIN toolCalls : toolCalls[i].call = toolCalls[j].call => i = j
    /\ CallIdsOf(toolCalls) \cap RetainedCallIds(raw) = {}
    /\ \A k, l \in DOMAIN raw : k # l =>
          CallIdsOf(raw[k].toolCalls) \cap CallIdsOf(raw[l].toolCalls) = {}

\* The cached id set of the history is the set of ids in the log, and the
\* pending half of the index is what the pending turn says, in every state
\* a caller can observe (history.rs:114-119, mod.rs:410-412).
CachesAreExact ==
    /\ messageIds = RetainedMessageIds(raw)
    /\ pendingIndex = pending_locations(phase, messages, toolCalls, unmapped)

\* A turn the pending protocol calls ready is a turn the independent
\* validator accepts: commit_pending fails for no reason but version overflow.
ReadyTurnValidates ==
    phase = "ReadyToCommit" => validate_turn_data(DraftTurn, raw, tip_id)

\* Cancelling can always close the turn: whatever acceptable results and
\* well-formed text response the caller supplies, the synthetic turn is one
\* the validator accepts (cancel.rs:238-262).
CancelledTurnValidates ==
    \A provs \in expected_open_calls :
    \A msgOf \in [Elements(provs) -> MsgIds], callOf \in [Elements(provs) -> CallIds] :
    \A m \in MsgIds, r \in Responses :
        ( /\ AcceptableResults(provs, msgOf, callOf)
          /\ AcceptableFinal(provs, msgOf, m, r)
          /\ r.wellFormed )
        => validate_turn_data(CancelledTurn(provs, msgOf, callOf, m, r), raw, tip_id)

\* A message that failed to stream or to freeze never enters the turn: from
\* a terminal or frozen message only a cancellation leads on, and it adds
\* nothing the model said (message.rs:145-195, turn.rs:218-220).
PoisonedMessageNeverCommitted ==
    [][ assistant.state \in {"Terminal", "Frozen"} =>
          \/ UNCHANGED <<phase, messages>>
          \/ phase' = "AwaitingAssistant" /\ messages' = messages
          \/ phase' = "NoPending" /\ raw' = raw
          \/ /\ phase' = "NoPending"
             /\ Len(raw'[Len(raw')].messages) = Len(messages) + 1 ]_turnVars

\* A pending turn has an id and begins with a message.
Started == phase # "NoPending" => turnId \in TurnIds /\ messages # << >>

\* Every operation, the cancellations included, leaves a draft whose phase tells
\* what is open, and that can be closed from there.
PhaseInv == TurnTypeOK /\ Started /\ PhaseMatchesCalls

\* No id is used twice.
IdsInv == MessageIdsUnique /\ CallIdsUnique

\* Ids stay unique although each operation looks them up in a cache that other
\* operations have to keep exact.
IdentityInv == CachesAreExact /\ IdsInv

\* The pending protocol and the validator agree on what a closed turn is, whether
\* the turn ends by itself or is cancelled in any phase.
ClosingTurnValidates == ReadyTurnValidates /\ CancelledTurnValidates
=============================================================================
