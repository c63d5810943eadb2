-------------------------- MODULE ExternalMachine --------------------------
(***************************************************************************)
(* ExternalAgentMachine (src/src/agent/external/machine.rs) and the state  *)
(* it keeps (state.rs), as functions: what one step makes of the machine,  *)
(* the observations it notifies and the requirements it raises.            *)
(* ExternalSession is the state machine that uses them.                    *)
(*                                                                         *)
(* A session is its id and the sequence number of the last event seen; 0   *)
(* stands for none, so sequence numbers are the code's plus one.  Of the   *)
(* conversation only the open turn and the committed answers are kept: the *)
(* transaction itself is PendingTurn.                                      *)
(*                                                                         *)
(* Operators under a comment "Fault:" are not part of the model; each is a *)
(* plausible mistake in the operator that follows it.                      *)
(***************************************************************************)
EXTENDS Naturals, Sequences, FiniteSets, Functions

CONSTANTS
    MaxIds   \* bound: requirement ids the source of ids can give

\* The host's tools, calls to spawn an agent, and such calls that do not parse.
CallKinds == {"Tool", "Spawn", "BadSpawn"}

NoSession == [id |-> 0, seq |-> 0]
NoBatch == [id |-> 0, calls |-> << >>, pending |-> << >>, results |-> << >>]
At(where) == [at |-> where, req |-> 0, asks |-> 0]

\* ExternalAgentState::new and ExternalAgentMachine::new.  limit is the smaller
\* of max_decision_loops and session_policy.max_turns.
NewMachine(tools, limit, stopOnError, toolIds) ==
    [cursor |-> At("Idle"), inFlight |-> FALSE, batch |-> NoBatch,
     session |-> NoSession, tools |-> tools, queued |-> {}, cleanup |-> FALSE,
     loops |-> 0, turn |-> 0, committed |-> << >>, nextId |-> 1,
     limit |-> limit, stopOnError |-> stopOnError, toolIds |-> toolIds]

has_outstanding_requirement(m) ==
    m.cursor.at \in {"AwaitingSession", "AwaitingInteraction", "AwaitingTool", "AwaitingSubagent"}

Outcome(m, notes, reqs) == [m |-> m, notes |-> notes, reqs |-> reqs]

\* Fault: the batch of the failed turn is left behind.
Settled_KeepsBatch(m, where) ==
    [m EXCEPT !.turn = 0, !.inFlight = FALSE, !.cursor = At(where)]

\* The open turn is discarded and nothing is in flight any more.
Settled(m, where) ==
    [m EXCEPT !.turn = 0, !.inFlight = FALSE, !.batch = NoBatch, !.cursor = At(where)]

fail_with(m, notes) == Outcome(Settled(m, "Error"), notes, {})
fail(m) == fail_with(m, << >>)

-----------------------------------------------------------------------------
(***************************************************************************)
(* Handing control to the runtime.                                         *)
(***************************************************************************)

record_decision_loop(m) == [m EXCEPT !.loops = @ + 1]

\* NeedExternalSession: the request of build_request.
block_on_session(old, input) ==
    LET m == record_decision_loop(old)
        req == [id |-> m.nextId, kind |-> "ExternalSession", session |-> m.session,
                input |-> input, tools |-> m.tools]
    IN  IF m.loops > m.limit \/ m.nextId > MaxIds THEN fail(m)
        ELSE Outcome([m EXCEPT !.nextId = @ + 1,
                               !.cursor = [At("AwaitingSession") EXCEPT !.req = m.nextId]],
                     << >>, {req})

Input(kind, prompt) == [kind |-> kind, prompt |-> prompt, asks |-> 0, results |-> << >>]

\* The queued tool set is taken before the turn is opened; a turn that is
\* already open makes begin_turn fail.
begin_user_turn(old, prompt) ==
    LET m == IF old.queued = {} THEN old
             ELSE [old EXCEPT !.tools = CHOOSE t \in old.queued : TRUE, !.queued = {}]
    IN  IF m.turn # 0 THEN fail(m)
        ELSE block_on_session([m EXCEPT !.turn = prompt, !.inFlight = TRUE],
                              Input(IF m.session.id # 0 THEN "Continue" ELSE "Start", prompt))

\* Between turns the new set holds at once; during one it waits, and a hot
\* swap is refused.
reconfigure(m, tools, hot) ==
    IF ~m.inFlight THEN [m EXCEPT !.queued = {}, !.tools = tools]
    ELSE IF hot THEN m ELSE [m EXCEPT !.queued = {tools}]

-----------------------------------------------------------------------------
(***************************************************************************)
(* What the session came back with.                                        *)
(***************************************************************************)

\* Only what is past the mark of the session as it was before this result, in
\* the order in which it came: nth(k) is the place of the k-th of them.
observe(m, events) ==
    LET new == {i \in DOMAIN events : events[i].seq > m.session.seq}
        nth(k) == CHOOSE i \in new : Cardinality({j \in new : j <= i}) = k
    IN  [k \in 1..Cardinality(new) |-> events[nth(k)]]

\* One requirement of the turn, and the cursor that waits for it.
pause_for(m, result, kind, where, notes, ifFailed) ==
    LET n == [m EXCEPT !.session = result.session]
    IN  IF ~m.inFlight THEN fail_with(m, ifFailed)
        ELSE IF n.nextId > MaxIds THEN fail_with(n, ifFailed)
        ELSE Outcome([n EXCEPT !.nextId = @ + 1,
                               !.cursor = [at |-> where, req |-> n.nextId, asks |-> result.asks]],
                     notes, {[id |-> n.nextId, kind |-> kind]})

\* A failure here loses the observations, unlike one of the other pauses.
pause_for_interaction(m, result, notes) ==
    pause_for(m, result, "Interaction", "AwaitingInteraction", notes, << >>)

pause_for_subagent(m, result, notes) ==
    pause_for(m, result, "Subagent", "AwaitingSubagent", notes, notes)

\* In the order of the calls, for each of which results has a <<call, status>> pair.
respond_with_tool_batch(m, b) ==
    IF DOMAIN b.results # DOMAIN b.calls THEN fail(m)
    ELSE block_on_session([m EXCEPT !.batch = NoBatch],
            [kind |-> "RespondToolResults", prompt |-> 0, asks |-> b.id,
             results |-> [i \in DOMAIN b.calls |-> b.results[i]]])

\* A call to spawn an agent that does not parse is answered at once; the others
\* each raise a requirement.  Without ids for tool calls the turn fails.  When
\* nothing has to be asked the observations of the pause are lost.
pause_for_tool_calls(old, result, notes) ==
    LET m == [old EXCEPT !.session = result.session]
        calls == result.calls
        asked == {i \in DOMAIN calls : calls[i] # "BadSpawn"}
        id(i) == m.nextId + Cardinality({j \in asked : j < i})
        next == m.nextId + Cardinality(asked)
        b == [id |-> result.asks, calls |-> calls,
              pending |-> [r \in {id(i) : i \in asked} |-> CHOOSE i \in asked : id(i) = r],
              results |-> [i \in DOMAIN calls \ asked |-> <<i, "error">>]]
    IN  IF ~m.inFlight \/ calls = << >> THEN fail_with(old, notes)
        ELSE IF asked # {} /\ (~m.toolIds \/ next > MaxIds + 1) THEN fail_with(m, notes)
        ELSE IF asked = {} THEN respond_with_tool_batch(m, b)
        ELSE Outcome([m EXCEPT !.nextId = next, !.batch = b,
                               !.cursor = [At("AwaitingTool") EXCEPT !.asks = b.id]],
                     notes,
                     {[id |-> r, kind |-> IF calls[b.pending[r]] = "Spawn" THEN "Subagent" ELSE "Tool"] :
                        r \in DOMAIN b.pending})

\* The answer becomes the assistant's message and the turn is committed.
complete_session(m, result, notes) ==
    IF ~m.inFlight THEN fail(m)
    ELSE Outcome([m EXCEPT !.inFlight = FALSE, !.session = result.session, !.turn = 0,
                           !.committed = Append(@, [turn |-> m.turn, answer |-> result.answer]),
                           !.cursor = At("Done")], notes, {})

fold_session_result(m, result) ==
    LET notes == observe(m, result.events)
    IN  CASE result.kind = "Completed" -> complete_session(m, result, notes)
          [] result.kind = "Interaction" -> pause_for_interaction(m, result, notes)
          [] result.kind = "ToolCalls" -> pause_for_tool_calls(m, result, notes)
          [] result.kind = "Subagent" -> pause_for_subagent(m, result, notes)
          [] result.kind = "Failed" ->
                fail_with(IF result.session.id = 0 THEN m ELSE [m EXCEPT !.session = result.session],
                          notes)

-----------------------------------------------------------------------------
(***************************************************************************)
(* Resuming.  A resolution is the id of its requirement, a kind and what   *)
(* came of it.                                                             *)
(***************************************************************************)

Addressed(m, resolution, kind) == resolution.id = m.cursor.req /\ resolution.kind = kind

resume_session(m, resolution) ==
    IF Addressed(m, resolution, "ExternalSession") THEN fold_session_result(m, resolution.result)
    ELSE fail(m)

\* A response the interaction does not accept fails the turn.
resume_interaction(m, resolution) ==
    IF Addressed(m, resolution, "Interaction") /\ resolution.result = "ok" /\ m.inFlight
    THEN block_on_session(m, [Input("RespondInteraction", 0) EXCEPT !.asks = m.cursor.asks])
    ELSE fail(m)

resume_subagent(m, resolution) ==
    IF Addressed(m, resolution, "Subagent") /\ resolution.result = "ok" /\ m.inFlight
    THEN block_on_session(m, [Input("RespondSubagent", 0) EXCEPT !.asks = m.cursor.asks])
    ELSE fail(m)

\* One result of the batch; the last one sends them all.  A failed tool is a
\* result unless the policy stops the run; a failed subagent always stops it.
resume_tool(m, resolution) ==
    LET b == m.batch
        call == b.pending[resolution.id]
        collected == [b EXCEPT !.results = [i \in DOMAIN b.results \cup {call} |->
                          IF i = call THEN <<call, resolution.result>> ELSE b.results[i]]]
        subagent == b.calls[call] = "Spawn"
    IN  IF \/ b = NoBatch \/ ~m.inFlight
           \/ resolution.id \notin DOMAIN b.pending
        THEN fail(m)
        ELSE IF \/ call \in DOMAIN b.results
                \/ resolution.kind # (IF subagent THEN "Subagent" ELSE "Tool")
                \/ resolution.result = "error" /\ (subagent \/ m.stopOnError)
        THEN fail(m)
        ELSE IF Cardinality(DOMAIN collected.results) < Len(b.calls)
        THEN Outcome([m EXCEPT !.batch = collected], << >>, {})
        ELSE respond_with_tool_batch(m, collected)

resume(m, resolution) ==
    CASE m.cursor.at = "AwaitingSession" -> resume_session(m, resolution)
      [] m.cursor.at = "AwaitingInteraction" -> resume_interaction(m, resolution)
      [] m.cursor.at = "AwaitingTool" -> resume_tool(m, resolution)
      [] m.cursor.at = "AwaitingSubagent" -> resume_subagent(m, resolution)
      [] OTHER -> fail(m)

-----------------------------------------------------------------------------
(***************************************************************************)
(* Ending a turn from outside.                                             *)
(***************************************************************************)

\* The machine cannot close the session: it notes that somebody has to.
Owed(m) == [m EXCEPT !.cleanup = @ \/ has_outstanding_requirement(m)]

abandon(m) == Outcome(Settled(Owed(m), "Idle"), << >>, {})
interrupt_budget_exhausted(m) == Outcome(Settled(Owed(m), "Done"), << >>, {})

\* External input: a user's message or, what this machine refuses, a pivot.
step(m, input) == IF input.pivot THEN fail(m) ELSE begin_user_turn(m, input.prompt)

\* ExternalAgentState as it is saved: not while the conversation has an open
\* turn.  The machine around it is new.
CanSave(m) == m.turn = 0
from_record(m) == [m EXCEPT !.inFlight = FALSE, !.batch = NoBatch]
=============================================================================
