------------------------------ MODULE TurnProofs ------------------------------
(***************************************************************************)
(* A turn, and the machine that drives it.                                 *)
(*                                                                         *)
(* PendingTurn, for every set of ids, every set of responses and every     *)
(* version bound.  Four inductive invariants, each using the ones before   *)
(* it:                                                                     *)
(*   PhaseInv   types, a pending turn has an id and a message, and the     *)
(*              phase says which calls are open or unmapped;               *)
(*   CachesAreExact   the two derived caches;                              *)
(*   IdsInv     no message id and no call id occurs twice;                 *)
(*   DraftInv   the validator of closed turns accepts the draft so far:    *)
(*              its blocks and links, and its role automaton is where the  *)
(*              phase says.                                                *)
(* Two theorems are about steps: what a commit does to the log, and that a *)
(* broken message never gets there.  The last one puts the four invariants *)
(* together: every draft can be closed.  The role automaton is a recursive *)
(* function over the messages, so its lemmas need induction; the library's *)
(* well-foundedness of the natural numbers gives it (LeastNumber).         *)
(*                                                                         *)
(* AgentMachine, in the second part, for any set of calls, approval        *)
(* policy, step limit and number of turns: the machine is consistent after *)
(* every step and keeps TurnProtocol.                                      *)
(***************************************************************************)
EXTENDS PendingTurn, AgentMachine,
        FiniteSetTheorems, SequenceTheorems, NaturalsInduction, WellFoundedInduction, TLAPS

-----------------------------------------------------------------------------
(***************************************************************************)
(* What the helpers return.                                                *)
(***************************************************************************)

\* The elements of a sequence, the last one of a non-empty one included.
LEMMA SeqElements ==
    ASSUME NEW S, NEW s \in Seq(S)
    PROVE  /\ Len(s) \in Nat /\ DOMAIN s = 1..Len(s)
           /\ \A i \in DOMAIN s : s[i] \in S
           /\ s # << >> => Len(s) \in DOMAIN s /\ s[Len(s)] \in S
<1>1. Len(s) \in Nat /\ DOMAIN s = 1..Len(s)
  BY LenProperties
<1>2. \A i \in DOMAIN s : s[i] \in S
  BY <1>1, ElementOfSeq
<1>3. s # << >> => Len(s) \in DOMAIN s
  BY <1>1, EmptySeq
<1> QED BY <1>1, <1>2, <1>3

\* The elements of the three sequences of a pending turn have their types.
LEMMA ElementTypes ==
    ASSUME TurnTypeOK
    PROVE  /\ Len(messages) \in Nat /\ DOMAIN messages = 1..Len(messages)
           /\ Len(toolCalls) \in Nat /\ DOMAIN toolCalls = 1..Len(toolCalls)
           /\ Len(unmapped) \in Nat /\ DOMAIN unmapped = 1..Len(unmapped)
           /\ \A i \in DOMAIN messages : messages[i] \in Message
           /\ \A i \in DOMAIN toolCalls : toolCalls[i] \in ToolCall
           /\ \A i \in DOMAIN unmapped : unmapped[i] \in ProvIds
<1>1. messages \in Seq(Message) /\ toolCalls \in Seq(ToolCall) /\ unmapped \in Seq(ProvIds)
  BY DEF TurnTypeOK
<1> QED BY <1>1, LenProperties, ElementOfSeq

\* The three message constructors build messages.
LEMMA MessageTypes ==
    /\ \A m \in MsgIds : UserMessage(m) \in Message
    /\ \A m \in MsgIds, r \in Responses : AssistantMessage(m, r) \in Message
    /\ \A m \in MsgIds, p \in ProvIds : ToolMessage(m, p) \in Message
BY ResponsesAssumption DEF UserMessage, AssistantMessage, ToolMessage, Message, Roles,
                           ResponseType

\* The provider ids a cancellation must answer are a sequence of provider
\* ids; while results are awaited they are those of the open calls.
LEMMA ExpectedOpenCalls ==
    ASSUME TurnTypeOK, NEW provs \in expected_open_calls
    PROVE  /\ provs \in Seq(ProvIds)
           /\ phase \in {"AwaitingAssistant", "AssistantInProgress",
                         "AwaitingToolCallMappings", "AwaitingToolResults"}
           /\ phase = "AwaitingToolCallMappings" => provs = unmapped
           /\ phase \in {"AwaitingAssistant", "AssistantInProgress"} => provs = << >>
           /\ phase = "AwaitingToolResults" =>
                 Elements(provs) = {toolCalls[i].prov : i \in open_calls}
<1>1. CASE phase \in {"AwaitingAssistant", "AssistantInProgress"}
  BY <1>1 DEF expected_open_calls
<1>2. CASE phase = "AwaitingToolCallMappings"
  BY <1>2 DEF expected_open_calls, TurnTypeOK
<1>3. CASE phase = "AwaitingToolResults"
  <2>1. PICK ord \in OpenCallOrders :
               provs = [i \in DOMAIN ord |-> toolCalls[ord[i]].prov]
    BY <1>3 DEF expected_open_calls
  <2>2. PICK n \in 0..Len(toolCalls) : ord \in [1..n -> open_calls]
    BY <2>1 DEF OpenCallOrders
  <2>3. \A i \in open_calls : toolCalls[i].prov \in ProvIds
    BY ElementTypes DEF open_calls, ToolCall
  <2>4. n \in Nat
    BY <2>2, LenProperties DEF TurnTypeOK
  <2>5. provs \in Seq(ProvIds)
    BY <2>1, <2>2, <2>3, <2>4
  <2>6. open_calls = {ord[i] : i \in DOMAIN ord}
    BY <2>1 DEF OpenCallOrders
  <2>7. Elements(provs) = {toolCalls[i].prov : i \in open_calls}
    BY <2>1, <2>6 DEF Elements
  <2> QED BY <1>3, <2>5, <2>7
<1>4. phase \in {"AwaitingAssistant", "AssistantInProgress",
                 "AwaitingToolCallMappings", "AwaitingToolResults"}
  BY DEF expected_open_calls
<1> QED BY <1>1, <1>2, <1>3, <1>4

\* The messages a cancellation adds: one tool message per expected id.
LEMMA CancelledMessagesType ==
    ASSUME NEW provs \in Seq(ProvIds), NEW msgOf \in [Elements(provs) -> MsgIds]
    PROVE  /\ CancelledMessages(provs, msgOf) \in Seq(Message)
           /\ Len(CancelledMessages(provs, msgOf)) = Len(provs)
           /\ \A i \in 1..Len(provs) :
                 CancelledMessages(provs, msgOf)[i].id = msgOf[provs[i]]
<1>1. DOMAIN provs = 1..Len(provs) /\ Len(provs) \in Nat
  BY LenProperties
<1>2. \A i \in 1..Len(provs) : provs[i] \in Elements(provs) /\ provs[i] \in ProvIds
  BY <1>1 DEF Elements
<1>3. \A i \in 1..Len(provs) : ToolMessage(msgOf[provs[i]], provs[i]) \in Message
  BY <1>2, MessageTypes
<1> QED BY <1>1, <1>3 DEF CancelledMessages, ToolMessage

\* The calls after a cancellation: the same calls, and those that had no
\* call id yet; none of them is open.
LEMMA CancelledToolCallsType ==
    ASSUME PhaseInv,
           NEW provs \in expected_open_calls,
           NEW msgOf \in [Elements(provs) -> MsgIds],
           NEW callOf \in [Elements(provs) -> CallIds]
    PROVE  /\ CancelledToolCalls(provs, msgOf, callOf) \in Seq(ToolCall)
           /\ \A i \in DOMAIN CancelledToolCalls(provs, msgOf, callOf) :
                 CancelledToolCalls(provs, msgOf, callOf)[i].resultMsg # NoMsg
<1> DEFINE cancelled == CancelledToolCalls(provs, msgOf, callOf)
<1>1. toolCalls \in Seq(ToolCall) /\ messages \in Seq(Message)
  BY DEF PhaseInv, TurnTypeOK
<1>2. provs \in Seq(ProvIds) /\ DOMAIN provs = 1..Len(provs) /\ Len(provs) \in Nat
  BY ExpectedOpenCalls, LenProperties DEF PhaseInv
<1>3. DOMAIN toolCalls = 1..Len(toolCalls) /\ Len(toolCalls) \in Nat
  BY <1>1, LenProperties
<1>4. CASE phase = "AwaitingToolCallMappings"
  <2> DEFINE added == [i \in 1..Len(provs) |->
            [call |-> callOf[provs[i]], prov |-> provs[i],
             callMsg |-> messages[Len(messages)].id, resultMsg |-> msgOf[provs[i]]]]
  <2>1. messages # << >>
    BY <1>4 DEF PhaseInv, Started
  <2>2. messages[Len(messages)] \in Message
    BY <1>1, <2>1, LenProperties, EmptySeq
  <2>3. messages[Len(messages)].id \in MsgIds
    BY <2>2 DEF Message
  <2>4. \A i \in 1..Len(provs) : provs[i] \in Elements(provs) /\ provs[i] \in ProvIds
    BY <1>2 DEF Elements
  <2>5. \A i \in 1..Len(provs) : added[i] \in ToolCall /\ added[i].resultMsg # NoMsg
    BY <2>3, <2>4, AbsentAssumption DEF ToolCall
  <2>6. added \in Seq(ToolCall) /\ Len(added) = Len(provs)
    BY <1>2, <2>5
  <2>7. cancelled = toolCalls \o added
    BY <1>4 DEF CancelledToolCalls
  <2>8. /\ cancelled \in Seq(ToolCall)
        /\ Len(cancelled) = Len(toolCalls) + Len(added)
        /\ \A i \in 1..(Len(toolCalls) + Len(added)) :
              cancelled[i] = IF i <= Len(toolCalls) THEN toolCalls[i]
                             ELSE added[i - Len(toolCalls)]
    BY <1>1, <2>6, <2>7, ConcatProperties
  <2>9. \A i \in 1..Len(toolCalls) : toolCalls[i].resultMsg # NoMsg
    BY <1>3, <1>4 DEF PhaseInv, PhaseMatchesCalls, open_calls
  <2>10. DOMAIN cancelled = 1..Len(cancelled)
    BY <2>8, LenProperties
  <2> HIDE DEF added, cancelled
  <2>11. ASSUME NEW i \in DOMAIN cancelled PROVE cancelled[i].resultMsg # NoMsg
    <3>1. CASE i <= Len(toolCalls)
      BY <3>1, <1>3, <2>6, <2>8, <2>9, <2>10, <2>11, <1>2
    <3>2. CASE i > Len(toolCalls)
      <4>1. i - Len(toolCalls) \in 1..Len(provs) /\ cancelled[i] = added[i - Len(toolCalls)]
        BY <3>2, <1>2, <1>3, <2>6, <2>8, <2>10, <2>11
      <4> QED BY <4>1, <2>5
    <3> QED BY <3>1, <3>2, <1>2, <1>3, <2>6, <2>8, <2>10, <2>11
  <2> QED BY <2>8, <2>11 DEF cancelled
<1>5. CASE phase # "AwaitingToolCallMappings"
  <2> DEFINE Closed1(i) == IF i \in open_calls
                           THEN Answered(toolCalls[i], msgOf[toolCalls[i].prov])
                           ELSE toolCalls[i]
  <2>1. cancelled = [i \in DOMAIN toolCalls |-> Closed1(i)]
    BY <1>5 DEF CancelledToolCalls
  <2>2. \A i \in open_calls : toolCalls[i].prov \in Elements(provs)
    BY <1>5, ExpectedOpenCalls DEF PhaseInv, PhaseMatchesCalls
  <2>3. \A i \in DOMAIN toolCalls : Closed1(i) \in ToolCall /\ Closed1(i).resultMsg # NoMsg
    BY ElementTypes, <2>2, AbsentAssumption DEF PhaseInv, open_calls, ToolCall, Answered
  <2>4. cancelled \in Seq(ToolCall) /\ DOMAIN cancelled = DOMAIN toolCalls
    BY <1>3, <2>1, <2>3
  <2> QED BY <2>1, <2>3, <2>4
<1> QED BY <1>4, <1>5

\* The index of a well-typed draft holds locations.
LEMMA LocationsType ==
    ASSUME NEW ph, NEW msgs \in Seq(Message), NEW calls \in Seq(ToolCall),
           NEW unm \in Seq(ProvIds),
           ph = "AwaitingToolCallMappings" => msgs # << >>
    PROVE  pending_locations(ph, msgs, calls, unm) \subseteq Location
<1>1. \A i \in DOMAIN calls : CallLocation(calls[i]) \in Location
  <2>1. \A i \in DOMAIN calls : calls[i] \in ToolCall
    BY SeqElements
  <2> QED BY <2>1 DEF CallLocation, Location, ToolCall
<1>2. CASE ph = "AwaitingToolCallMappings"
  <2>1. msgs[Len(msgs)].id \in MsgIds
    <3>1. msgs[Len(msgs)] \in Message
      BY <1>2, SeqElements
    <3> QED BY <3>1 DEF Message
  <2>2. \A i \in DOMAIN unm : unm[i] \in ProvIds
    BY SeqElements
  <2>3. \A i \in DOMAIN unm :
           [call |-> NoCall, prov |-> unm[i], callMsg |-> msgs[Len(msgs)].id,
            resultMsg |-> NoMsg] \in Location
    BY <2>1, <2>2 DEF Location
  <2> QED BY <1>1, <1>2, <2>3 DEF pending_locations
<1>3. CASE ph # "AwaitingToolCallMappings"
  BY <1>1, <1>3 DEF pending_locations
<1> QED BY <1>2, <1>3

\* The tip of the log is a turn id or, for an empty log, none.
LEMMA TipType ==
    ASSUME raw \in Seq(Turn)
    PROVE  tip_id \in TurnIds \cup {NoTurn}
<1>1. raw # << >> => raw[Len(raw)] \in Turn
  BY SeqElements
<1> QED BY <1>1 DEF tip_id, Turn

\* Appending to a sequence of messages or calls, as the provers want it.
LEMMA AppendType ==
    ASSUME NEW S, NEW s \in Seq(S), NEW e \in S
    PROVE  /\ Append(s, e) \in Seq(S) /\ Append(s, e) # << >>
           /\ Len(Append(s, e)) = Len(s) + 1
           /\ \A i \in 1..Len(s) : Append(s, e)[i] = s[i]
           /\ Append(s, e)[Len(s) + 1] = e
BY AppendProperties

\* A commit keeps the history well-typed and clears the pending index.
LEMMA CommitType ==
    ASSUME TurnTypeOK, NEW turn \in Turn, commit_draft(turn)
    PROVE  /\ raw' \in Seq(Turn) /\ messageIds' \subseteq MsgIds
           /\ version' \in 0..MaxVersion /\ pendingIndex' = {}
<1>1. raw' \in Seq(Turn)
  BY AppendType DEF TurnTypeOK, commit_draft
<1>2. MessageIdsOf(turn.messages) \subseteq MsgIds
  <2>1. turn.messages \in Seq(Message)
    BY DEF Turn
  <2>2. \A i \in DOMAIN turn.messages : turn.messages[i] \in Message
    BY <2>1, SeqElements
  <2> QED BY <2>2 DEF MessageIdsOf, Message
<1>3. messageIds' \subseteq MsgIds
  BY <1>2 DEF TurnTypeOK, commit_draft
<1>4. version' \in 0..MaxVersion
  BY MaxVersionAssumption DEF TurnTypeOK, commit_draft
<1> QED BY <1>1, <1>3, <1>4 DEF commit_draft

\* Without a pending turn the phase invariant reduces to the history's types.
LEMMA ClearedPhase ==
    ASSUME ClearPending, raw' \in Seq(Turn), messageIds' \subseteq MsgIds,
           version' \in 0..MaxVersion, pendingIndex' = {}
    PROVE  PhaseInv'
<1>1. open_calls' = {}
  BY DEF ClearPending, open_calls
<1>2. TurnTypeOK'
  BY DEF TurnTypeOK, ClearPending, NoAssistant, Phases
<1> QED BY <1>1, <1>2 DEF PhaseInv, Started, PhaseMatchesCalls, ClearPending, NoAssistant

-----------------------------------------------------------------------------
(***************************************************************************)
(* The phase invariant is inductive: one lemma per operation that changes  *)
(* more than the held message.                                             *)
(***************************************************************************)
LEMMA PhaseInit == TurnInit => PhaseInv
<1> SUFFICES ASSUME TurnInit PROVE PhaseInv
  OBVIOUS
<1>1. open_calls = {}
  BY DEF TurnInit, open_calls
<1>2. TurnTypeOK
  BY MaxVersionAssumption DEF TurnInit, TurnTypeOK, NoAssistant, Phases
<1> QED BY <1>1, <1>2 DEF TurnInit, PhaseInv, Started, PhaseMatchesCalls, NoAssistant

LEMMA PhaseBegin ==
    ASSUME PhaseInv, NEW t \in TurnIds, NEW m \in MsgIds, begin_turn(t, m)
    PROVE  PhaseInv'
<1>1. open_calls' = {}
  BY DEF begin_turn, open_calls
<1>2. messages' \in Seq(Message) /\ messages' # << >>
  BY MessageTypes DEF begin_turn
<1>3. pendingIndex' \subseteq Location
  <2>1. << >> \in Seq(ToolCall) /\ << >> \in Seq(ProvIds)
    BY EmptySeq
  <2>2. /\ phase' = "AwaitingAssistant" /\ toolCalls' = << >> /\ unmapped' = << >>
        /\ pendingIndex' = pending_locations(phase', messages', toolCalls', unmapped')
    BY DEF begin_turn, refresh_pending_index
  <2> QED BY <1>2, <2>1, <2>2, LocationsType
<1>4. TurnTypeOK'
  BY <1>2, <1>3, TipType DEF PhaseInv, TurnTypeOK, begin_turn, NoAssistant, Phases, history
<1> QED BY <1>1, <1>2, <1>4 DEF PhaseInv, Started, PhaseMatchesCalls, begin_turn, NoAssistant

LEMMA PhaseHeldMessage ==
    ASSUME PhaseInv,
           \/ start_assistant
           \/ \E r \in Responses : start_assistant_response(r)
           \/ push_assistant_event
           \/ \E m \in MsgIds, r \in Responses : FinishAssistantRejected(m, r)
    PROVE  PhaseInv'
<1>1. /\ UNCHANGED <<history, draft, pendingIndex>>
      /\ phase \in {"AwaitingAssistant", "AssistantInProgress"}
      /\ phase' = "AssistantInProgress"
      /\ assistant'.state \in {"Streaming", "Complete", "Terminal", "Frozen"}
      /\ assistant' \in [state : {"None", "Streaming", "Complete", "Terminal", "Frozen"},
                         response : Responses \cup {NoResponse}]
  BY DEF start_assistant, start_assistant_response, push_assistant_event,
         FinishAssistantRejected
<1>2. open_calls' = open_calls
  BY <1>1 DEF open_calls, draft
<1>3. TurnTypeOK'
  BY <1>1 DEF PhaseInv, TurnTypeOK, history, draft, Phases
<1> QED BY <1>1, <1>2, <1>3 DEF PhaseInv, Started, PhaseMatchesCalls, draft

LEMMA PhaseFinish ==
    ASSUME PhaseInv, NEW m \in MsgIds, NEW r \in Responses, finish_assistant(m, r)
    PROVE  PhaseInv'
<1>1. open_calls' = {} /\ open_calls = {}
  BY DEF finish_assistant, open_calls, PhaseInv, PhaseMatchesCalls
<1>2. messages' \in Seq(Message) /\ messages' # << >>
  BY MessageTypes, AppendType DEF finish_assistant, PhaseInv, TurnTypeOK
<1>3. r.uses \in Seq(ProvIds)
  BY ResponsesAssumption DEF ResponseType
<1>4. toolCalls' \in Seq(ToolCall) /\ unmapped' \in Seq(ProvIds)
  BY <1>3 DEF finish_assistant, PhaseInv, TurnTypeOK
<1>5. pendingIndex' \subseteq Location
  <2>1. pendingIndex' = pending_locations(phase', messages', toolCalls', unmapped')
    BY DEF finish_assistant, refresh_pending_index
  <2> QED BY <1>2, <1>4, <2>1, LocationsType
<1>6. TurnTypeOK'
  BY <1>2, <1>4, <1>5 DEF PhaseInv, TurnTypeOK, finish_assistant, NoAssistant, Phases, history
<1> QED BY <1>1, <1>2, <1>6 DEF PhaseInv, Started, PhaseMatchesCalls, finish_assistant,
                                NoAssistant

LEMMA PhaseRegister ==
    ASSUME PhaseInv, NEW callOf \in [Elements(unmapped) -> CallIds],
           register_tool_calls(callOf)
    PROVE  PhaseInv'
<1> DEFINE added == [i \in 1..Len(unmapped) |->
              [call |-> callOf[unmapped[i]], prov |-> unmapped[i],
               callMsg |-> messages[Len(messages)].id, resultMsg |-> NoMsg]]
<1>1. /\ Len(unmapped) \in Nat /\ DOMAIN unmapped = 1..Len(unmapped)
      /\ \A i \in 1..Len(unmapped) : unmapped[i] \in ProvIds /\ unmapped[i] \in Elements(unmapped)
  BY ElementTypes DEF PhaseInv, Elements
<1>2. unmapped # << >> /\ messages # << >> /\ turnId \in TurnIds
  BY DEF register_tool_calls, PhaseInv, PhaseMatchesCalls, Started
<1>3. messages \in Seq(Message) /\ unmapped \in Seq(ProvIds) /\ toolCalls \in Seq(ToolCall)
  BY DEF PhaseInv, TurnTypeOK
<1>4. messages[Len(messages)].id \in MsgIds
  <2>1. messages[Len(messages)] \in Message
    BY <1>2, <1>3, SeqElements
  <2> QED BY <2>1 DEF Message
<1>5. \A i \in 1..Len(unmapped) : added[i] \in ToolCall
  BY <1>1, <1>4 DEF ToolCall
<1>6. added \in Seq(ToolCall) /\ Len(added) = Len(unmapped) /\ Len(added) > 0
  <2>1. added \in Seq(ToolCall) /\ Len(added) = Len(unmapped)
    BY <1>1, <1>5
  <2> QED BY <2>1, <1>1, <1>2, <1>3, SeqElements
<1>7. added[1].resultMsg = NoMsg
  BY <1>1, <1>6
<1>8. toolCalls' = toolCalls \o added
  BY DEF register_tool_calls
<1> HIDE DEF added
<1>9. /\ toolCalls' \in Seq(ToolCall) /\ Len(toolCalls') = Len(toolCalls) + Len(added)
      /\ toolCalls'[Len(toolCalls) + 1] = added[1]
  <2>1. Len(toolCalls) \in Nat /\ Len(added) \in Nat
    BY <1>3, <1>6, SeqElements
  <2> DEFINE all == toolCalls \o added
  <2>2. /\ all \in Seq(ToolCall) /\ Len(all) = Len(toolCalls) + Len(added)
        /\ \A k \in 1..(Len(toolCalls) + Len(added)) :
              all[k] = IF k <= Len(toolCalls) THEN toolCalls[k] ELSE added[k - Len(toolCalls)]
    BY <1>3, <1>6, ConcatProperties
  <2> HIDE DEF all
  <2>3. Len(toolCalls) + 1 \in 1..(Len(toolCalls) + Len(added))
    BY <2>1, <1>6
  <2>4. ~(Len(toolCalls) + 1 <= Len(toolCalls)) /\ (Len(toolCalls) + 1) - Len(toolCalls) = 1
    BY <2>1
  <2>5. all[Len(toolCalls) + 1] = added[1]
    BY <2>2, <2>3, <2>4
  <2>6. toolCalls' = all
    BY <1>8 DEF all
  <2> QED BY <2>2, <2>5, <2>6
<1>10. open_calls' # {}
  <2>1. Len(toolCalls) + 1 \in DOMAIN toolCalls'
    BY <1>3, <1>6, <1>9, SeqElements
  <2> QED BY <2>1, <1>7, <1>9 DEF open_calls
<1>11. pendingIndex' \subseteq Location
  <2>1. << >> \in Seq(ProvIds)
    BY EmptySeq
  <2>2. /\ pendingIndex' = pending_locations(phase', messages', toolCalls', unmapped')
        /\ phase' = "AwaitingToolResults" /\ messages' = messages /\ unmapped' = << >>
    BY DEF register_tool_calls, refresh_pending_index
  <2> QED BY <1>3, <1>9, <2>1, <2>2, LocationsType
<1>12. TurnTypeOK'
  BY <1>9, <1>11 DEF PhaseInv, TurnTypeOK, register_tool_calls, Phases, history
<1> QED BY <1>2, <1>10, <1>12 DEF PhaseInv, Started, PhaseMatchesCalls, register_tool_calls

\* Answering open call i leaves the other calls as they were.
LEMMA AnsweredCalls ==
    ASSUME TurnTypeOK, NEW i \in open_calls, NEW m \in MsgIds,
           toolCalls' = [toolCalls EXCEPT ![i] = Answered(toolCalls[i], m)]
    PROVE  /\ toolCalls' \in Seq(ToolCall)
           /\ DOMAIN toolCalls' = DOMAIN toolCalls
           /\ \A k \in DOMAIN toolCalls :
                 toolCalls'[k] = IF k = i THEN Answered(toolCalls[i], m) ELSE toolCalls[k]
           /\ open_calls' = open_calls \ {i}
<1>1. i \in 1..Len(toolCalls) /\ toolCalls[i] \in ToolCall
  BY ElementTypes DEF open_calls
<1>2. Answered(toolCalls[i], m) \in ToolCall /\ Answered(toolCalls[i], m).resultMsg # NoMsg
  BY <1>1, AbsentAssumption DEF ToolCall, Answered
<1>3. toolCalls \in Seq(ToolCall)
  BY DEF TurnTypeOK
<1> HIDE DEF Answered
<1>4. toolCalls' \in Seq(ToolCall) /\ Len(toolCalls') = Len(toolCalls)
  BY <1>1, <1>2, <1>3, ExceptSeq
<1>5. DOMAIN toolCalls' = DOMAIN toolCalls
  BY <1>3, <1>4, SeqElements
<1>6. \A k \in DOMAIN toolCalls :
         toolCalls'[k] = IF k = i THEN Answered(toolCalls[i], m) ELSE toolCalls[k]
  BY <1>1
<1>7. open_calls' = open_calls \ {i}
  BY <1>2, <1>5, <1>6 DEF open_calls
<1> QED BY <1>4, <1>5, <1>6, <1>7

LEMMA PhaseToolResult ==
    ASSUME PhaseInv, NEW m \in MsgIds, NEW p \in ProvIds, append_tool_result(m, p)
    PROVE  PhaseInv'
<1>1. PICK i \in open_calls :
         /\ toolCalls' = [toolCalls EXCEPT ![i] = Answered(toolCalls[i], m)]
         /\ phase' = IF open_calls = {i} THEN "AwaitingAssistant" ELSE phase
  BY DEF append_tool_result
<1>2. toolCalls' \in Seq(ToolCall) /\ open_calls' = open_calls \ {i}
  BY <1>1, AnsweredCalls DEF PhaseInv
<1>3. messages' \in Seq(Message) /\ messages' # << >>
  BY MessageTypes, AppendType DEF append_tool_result, PhaseInv, TurnTypeOK
<1>4. phase = "AwaitingToolResults" /\ unmapped' = unmapped /\ unmapped \in Seq(ProvIds)
  BY DEF append_tool_result, PhaseInv, TurnTypeOK
<1>5. pendingIndex' \subseteq Location
  <2>1. pendingIndex' = pending_locations(phase', messages', toolCalls', unmapped')
    BY DEF append_tool_result, refresh_pending_index
  <2> QED BY <1>2, <1>3, <1>4, <2>1, LocationsType
<1>6. TurnTypeOK'
  BY <1>1, <1>2, <1>3, <1>5 DEF PhaseInv, TurnTypeOK, append_tool_result, Phases, history
<1>7. phase' = "AwaitingToolResults" <=> open_calls' # {}
  <2>1. open_calls = {i} <=> open_calls' = {}
    BY <1>2
  <2> QED BY <1>1, <1>4, <2>1
<1> QED BY <1>1, <1>3, <1>4, <1>6, <1>7
        DEF PhaseInv, Started, PhaseMatchesCalls, append_tool_result

LEMMA PhaseInject ==
    ASSUME PhaseInv, NEW m \in MsgIds, inject_user_message(m)
    PROVE  PhaseInv'
<1>1. open_calls' = open_calls
  BY DEF inject_user_message, open_calls
<1>2. messages' \in Seq(Message) /\ messages' # << >>
  BY MessageTypes, AppendType DEF inject_user_message, PhaseInv, TurnTypeOK
<1>3. pendingIndex' \subseteq Location
  <2>1. /\ pendingIndex' = pending_locations(phase', messages', toolCalls', unmapped')
        /\ toolCalls' \in Seq(ToolCall) /\ unmapped' \in Seq(ProvIds)
    BY DEF inject_user_message, refresh_pending_index, PhaseInv, TurnTypeOK
  <2> QED BY <1>2, <2>1, LocationsType
<1>4. TurnTypeOK'
  BY <1>2, <1>3 DEF PhaseInv, TurnTypeOK, inject_user_message, history
<1> QED BY <1>1, <1>2, <1>4 DEF PhaseInv, Started, PhaseMatchesCalls, inject_user_message

LEMMA PhaseResume ==
    ASSUME PhaseInv,
           NEW provs \in expected_open_calls,
           NEW msgOf \in [Elements(provs) -> MsgIds],
           NEW callOf \in [Elements(provs) -> CallIds],
           resume_cancelled_turn(provs, msgOf, callOf)
    PROVE  PhaseInv'
<1>1. provs \in Seq(ProvIds) /\ phase # "NoPending"
  BY ExpectedOpenCalls DEF PhaseInv
<1>2. messages \in Seq(Message) /\ messages # << >>
  BY <1>1 DEF PhaseInv, TurnTypeOK, Started
<1>3. CancelledMessages(provs, msgOf) \in Seq(Message)
  BY <1>1, CancelledMessagesType
<1>4. messages' \in Seq(Message) /\ messages' # << >>
  <2>1. messages' = messages \o CancelledMessages(provs, msgOf)
    BY DEF resume_cancelled_turn
  <2>2. messages' \in Seq(Message) /\ Len(messages') > 0
    BY <1>2, <1>3, <2>1, ConcatProperties, SeqElements
  <2> QED BY <2>2, EmptySeq
<1>5. toolCalls' \in Seq(ToolCall) /\ open_calls' = {}
  BY CancelledToolCallsType DEF resume_cancelled_turn, open_calls
<1>6. pendingIndex' \subseteq Location
  <2>1. << >> \in Seq(ProvIds)
    BY EmptySeq
  <2>2. /\ pendingIndex' = pending_locations(phase', messages', toolCalls', unmapped')
        /\ phase' = "AwaitingAssistant" /\ unmapped' = << >>
    BY DEF resume_cancelled_turn, refresh_pending_index
  <2> QED BY <1>4, <1>5, <2>1, <2>2, LocationsType
<1>7. TurnTypeOK'
  BY <1>4, <1>5, <1>6
     DEF PhaseInv, TurnTypeOK, resume_cancelled_turn, Phases, history, NoAssistant
<1> QED BY <1>1, <1>4, <1>5, <1>7
        DEF PhaseInv, Started, PhaseMatchesCalls, resume_cancelled_turn, NoAssistant

\* The two turns that can be committed are turns.
LEMMA DraftTurnType ==
    ASSUME PhaseInv, phase # "NoPending"
    PROVE  DraftTurn \in Turn
BY DEF PhaseInv, TurnTypeOK, Started, DraftTurn, Turn

LEMMA CancelledTurnType ==
    ASSUME PhaseInv,
           NEW provs \in expected_open_calls,
           NEW msgOf \in [Elements(provs) -> MsgIds],
           NEW callOf \in [Elements(provs) -> CallIds],
           NEW m \in MsgIds, NEW r \in Responses
    PROVE  CancelledTurn(provs, msgOf, callOf, m, r) \in Turn
<1>1. provs \in Seq(ProvIds) /\ phase # "NoPending"
  BY ExpectedOpenCalls DEF PhaseInv
<1>2. turnId \in TurnIds /\ parent \in TurnIds \cup {NoTurn} /\ messages \in Seq(Message)
  BY <1>1 DEF PhaseInv, TurnTypeOK, Started
<1>3. messages \o CancelledMessages(provs, msgOf) \in Seq(Message)
  BY <1>1, <1>2, CancelledMessagesType, ConcatProperties
<1>4. <<AssistantMessage(m, r)>> \in Seq(Message)
  BY MessageTypes
<1>5. messages \o CancelledMessages(provs, msgOf) \o <<AssistantMessage(m, r)>>
         \in Seq(Message)
  BY <1>3, <1>4, ConcatProperties
<1>6. CancelledToolCalls(provs, msgOf, callOf) \in Seq(ToolCall)
  BY CancelledToolCallsType
<1> QED BY <1>2, <1>5, <1>6 DEF CancelledTurn, Turn

LEMMA PhaseStep == PhaseInv /\ [TurnNext]_turnVars => PhaseInv'
<1> SUFFICES ASSUME PhaseInv, [TurnNext]_turnVars PROVE PhaseInv'
  OBVIOUS
<1>1. CASE \E t \in TurnIds, m \in MsgIds : begin_turn(t, m)
  BY <1>1, PhaseBegin
<1>2. CASE \/ start_assistant
           \/ \E r \in Responses : start_assistant_response(r)
           \/ push_assistant_event
           \/ \E m \in MsgIds, r \in Responses : FinishAssistantRejected(m, r)
  BY <1>2, PhaseHeldMessage
<1>3. CASE \E m \in MsgIds, r \in Responses : finish_assistant(m, r)
  BY <1>3, PhaseFinish
<1>4. CASE \E callOf \in [Elements(unmapped) -> CallIds] : register_tool_calls(callOf)
  BY <1>4, PhaseRegister
<1>5. CASE \E m \in MsgIds, p \in ProvIds : append_tool_result(m, p)
  BY <1>5, PhaseToolResult
<1>6. CASE \E m \in MsgIds : inject_user_message(m)
  BY <1>6, PhaseInject
<1>7. CASE commit_pending
  <2>1. DraftTurn \in Turn /\ commit_draft(DraftTurn) /\ ClearPending
    BY <1>7, DraftTurnType DEF commit_pending
  <2>2. TurnTypeOK
    BY DEF PhaseInv
  <2> QED BY <2>1, <2>2, CommitType, ClearedPhase
<1>8. CASE discard_pending_turn
  <2>1. pendingIndex' = {}
    BY <1>8 DEF discard_pending_turn, ClearPending, refresh_pending_index, pending_locations
  <2>2. /\ ClearPending /\ raw' \in Seq(Turn) /\ messageIds' \subseteq MsgIds
        /\ version' \in 0..MaxVersion
    BY <1>8 DEF discard_pending_turn, history, PhaseInv, TurnTypeOK
  <2> QED BY <2>1, <2>2, ClearedPhase
<1>9. ASSUME NEW provs \in expected_open_calls,
             NEW msgOf \in [Elements(provs) -> MsgIds],
             NEW callOf \in [Elements(provs) -> CallIds],
             \/ resume_cancelled_turn(provs, msgOf, callOf)
             \/ \E m \in MsgIds, r \in Responses :
                   commit_cancelled_turn(provs, msgOf, callOf, m, r)
      PROVE  PhaseInv'
  <2>1. CASE resume_cancelled_turn(provs, msgOf, callOf)
    BY <2>1, PhaseResume
  <2>2. ASSUME NEW m \in MsgIds, NEW r \in Responses,
               commit_cancelled_turn(provs, msgOf, callOf, m, r)
        PROVE  PhaseInv'
    <3>1. /\ CancelledTurn(provs, msgOf, callOf, m, r) \in Turn
          /\ commit_draft(CancelledTurn(provs, msgOf, callOf, m, r))
          /\ ClearPending
      BY <2>2, CancelledTurnType DEF commit_cancelled_turn
    <3>2. TurnTypeOK
      BY DEF PhaseInv
    <3> QED BY <3>1, <3>2, CommitType, ClearedPhase
  <2> QED BY <1>9, <2>1, <2>2
<1>10. CASE UNCHANGED turnVars
  BY <1>10 DEF turnVars, history, draft, PhaseInv, TurnTypeOK, Started, PhaseMatchesCalls, open_calls
<1> QED BY <1>1, <1>2, <1>3, <1>4, <1>5, <1>6, <1>7, <1>8, <1>9, <1>10
        DEF TurnNext, BuildTurn, CancelTurn

\* In every reachable state of the turn transaction every part has its type, a
\* pending turn has an id and a message, and the phase says which calls are open
\* or unmapped (conversation/mod.rs and pending/), whatever ids the caller
\* supplies.
THEOREM PhaseCorrect == TurnSpec => []PhaseInv
<1> QED BY PhaseInit, PhaseStep, PTL DEF TurnSpec

-----------------------------------------------------------------------------
(***************************************************************************)
(* The caches.                                                             *)
(***************************************************************************)

\* The retained ids of a log with one more turn.
LEMMA RetainedAppend ==
    ASSUME NEW log \in Seq(Turn), NEW turn \in Turn
    PROVE  /\ RetainedMessageIds(Append(log, turn))
                 = RetainedMessageIds(log) \cup MessageIdsOf(turn.messages)
           /\ RetainedCallIds(Append(log, turn))
                 = RetainedCallIds(log) \cup CallIdsOf(turn.toolCalls)
<1> DEFINE longer == Append(log, turn)
<1>1. Len(log) \in Nat /\ DOMAIN log = 1..Len(log)
  BY SeqElements
<1>2. /\ longer \in Seq(Turn) /\ Len(longer) = Len(log) + 1
      /\ \A k \in 1..Len(log) : longer[k] = log[k]
      /\ longer[Len(log) + 1] = turn
  BY AppendType
<1>3. DOMAIN longer = 1..(Len(log) + 1)
  BY <1>2, SeqElements
<1> HIDE DEF longer
<1>4. DOMAIN longer = DOMAIN log \cup {Len(log) + 1}
  BY <1>1, <1>3
<1>5. RetainedMessageIds(longer) = RetainedMessageIds(log) \cup MessageIdsOf(turn.messages)
  BY <1>1, <1>2, <1>4 DEF RetainedMessageIds
<1>6. RetainedCallIds(longer) = RetainedCallIds(log) \cup CallIdsOf(turn.toolCalls)
  BY <1>1, <1>2, <1>4 DEF RetainedCallIds
<1> QED BY <1>5, <1>6 DEF longer

\* A commit extends the id cache by exactly the ids of the new turn.
LEMMA CachesCommit ==
    ASSUME PhaseInv, CachesAreExact, NEW turn \in Turn, commit_draft(turn), ClearPending
    PROVE  CachesAreExact'
<1>1. messageIds' = RetainedMessageIds(raw')
  BY RetainedAppend DEF PhaseInv, TurnTypeOK, CachesAreExact, commit_draft
<1>2. pending_locations(phase', messages', toolCalls', unmapped') = {}
  BY DEF ClearPending, pending_locations
<1> QED BY <1>1, <1>2 DEF CachesAreExact, commit_draft

LEMMA CachesInit == TurnInit => CachesAreExact
BY DEF TurnInit, CachesAreExact, RetainedMessageIds, pending_locations

LEMMA CachesStep == PhaseInv /\ CachesAreExact /\ [TurnNext]_turnVars => CachesAreExact'
<1> SUFFICES ASSUME PhaseInv, CachesAreExact, [TurnNext]_turnVars PROVE CachesAreExact'
  OBVIOUS
<1>1. ASSUME refresh_pending_index, UNCHANGED history PROVE CachesAreExact'
  BY <1>1 DEF CachesAreExact, refresh_pending_index, history
<1>2. CASE \E t \in TurnIds, m \in MsgIds : begin_turn(t, m)
  BY <1>1, <1>2 DEF begin_turn
<1>3. CASE \/ start_assistant
           \/ \E r \in Responses : start_assistant_response(r)
           \/ push_assistant_event
           \/ \E m \in MsgIds, r \in Responses : FinishAssistantRejected(m, r)
  <2>1. /\ UNCHANGED <<history, draft, pendingIndex>>
        /\ phase # "AwaitingToolCallMappings" /\ phase' # "AwaitingToolCallMappings"
    BY <1>3 DEF start_assistant, start_assistant_response, push_assistant_event,
                FinishAssistantRejected
  <2> QED BY <2>1 DEF CachesAreExact, history, draft, pending_locations
<1>4. CASE \E m \in MsgIds, r \in Responses : finish_assistant(m, r)
  BY <1>1, <1>4 DEF finish_assistant
<1>5. CASE \E callOf \in [Elements(unmapped) -> CallIds] : register_tool_calls(callOf)
  BY <1>1, <1>5 DEF register_tool_calls
<1>6. CASE \E m \in MsgIds, p \in ProvIds : append_tool_result(m, p)
  BY <1>1, <1>6 DEF append_tool_result
<1>7. CASE \E m \in MsgIds : inject_user_message(m)
  BY <1>1, <1>7 DEF inject_user_message
<1>8. CASE commit_pending
  BY <1>8, CachesCommit, DraftTurnType DEF commit_pending
<1>9. CASE discard_pending_turn
  BY <1>1, <1>9 DEF discard_pending_turn
<1>10. ASSUME NEW provs \in expected_open_calls,
              NEW msgOf \in [Elements(provs) -> MsgIds],
              NEW callOf \in [Elements(provs) -> CallIds],
              \/ resume_cancelled_turn(provs, msgOf, callOf)
              \/ \E m \in MsgIds, r \in Responses :
                    commit_cancelled_turn(provs, msgOf, callOf, m, r)
       PROVE  CachesAreExact'
  <2>1. CASE resume_cancelled_turn(provs, msgOf, callOf)
    BY <1>1, <2>1 DEF resume_cancelled_turn
  <2>2. ASSUME NEW m \in MsgIds, NEW r \in Responses,
               commit_cancelled_turn(provs, msgOf, callOf, m, r)
        PROVE  CachesAreExact'
    BY <2>2, CachesCommit, CancelledTurnType DEF commit_cancelled_turn
  <2> QED BY <1>10, <2>1, <2>2
<1>11. CASE UNCHANGED turnVars
  BY <1>11 DEF turnVars, history, draft, CachesAreExact, pending_locations
<1> QED BY <1>2, <1>3, <1>4, <1>5, <1>6, <1>7, <1>8, <1>9, <1>10, <1>11
        DEF TurnNext, BuildTurn, CancelTurn

-----------------------------------------------------------------------------
(***************************************************************************)
(* Ids.  FreshMessageId looks a message id up in the cache, so uniqueness  *)
(* rests on CachesAreExact.                                                *)
(***************************************************************************)

\* A new id appended to a list of messages with distinct ids.
LEMMA FreshAppend ==
    ASSUME NEW msgs \in Seq(Message), NEW msg \in Message,
           \A i, j \in DOMAIN msgs : msgs[i].id = msgs[j].id => i = j,
           msg.id \notin MessageIdsOf(msgs)
    PROVE  /\ \A i, j \in DOMAIN Append(msgs, msg) :
                 Append(msgs, msg)[i].id = Append(msgs, msg)[j].id => i = j
           /\ MessageIdsOf(Append(msgs, msg)) = MessageIdsOf(msgs) \cup {msg.id}
<1> DEFINE longer == Append(msgs, msg)
<1>1. Len(msgs) \in Nat /\ DOMAIN msgs = 1..Len(msgs)
  BY SeqElements
<1>2. /\ longer \in Seq(Message) /\ Len(longer) = Len(msgs) + 1
      /\ \A k \in 1..Len(msgs) : longer[k] = msgs[k]
      /\ longer[Len(msgs) + 1] = msg
  BY AppendType
<1>3. DOMAIN longer = 1..(Len(msgs) + 1)
  BY <1>2, SeqElements
<1> HIDE DEF longer
<1>4. DOMAIN longer = DOMAIN msgs \cup {Len(msgs) + 1}
  BY <1>1, <1>3
<1>5. \A i \in DOMAIN msgs : longer[i] = msgs[i] /\ msgs[i].id # msg.id
  BY <1>1, <1>2 DEF MessageIdsOf
<1>6. \A i, j \in DOMAIN longer : longer[i].id = longer[j].id => i = j
  BY <1>2, <1>4, <1>5
<1>7. MessageIdsOf(longer) = MessageIdsOf(msgs) \cup {msg.id}
  BY <1>2, <1>4, <1>5 DEF MessageIdsOf
<1> QED BY <1>6, <1>7 DEF longer

\* Where the elements of a concatenation come from.
LEMMA ConcatSplit ==
    ASSUME NEW S, NEW a \in Seq(S), NEW b \in Seq(S)
    PROVE  /\ \A i \in DOMAIN a : i \in DOMAIN (a \o b) /\ (a \o b)[i] = a[i]
           /\ \A i \in DOMAIN b :
                 /\ Len(a) + i \in DOMAIN (a \o b) /\ Len(a) + i \notin DOMAIN a
                 /\ (a \o b)[Len(a) + i] = b[i]
           /\ \A k \in DOMAIN (a \o b) :
                 k \in DOMAIN a \/ \E i \in DOMAIN b : k = Len(a) + i
<1> DEFINE ab == a \o b
<1>1. /\ Len(a) \in Nat /\ DOMAIN a = 1..Len(a)
      /\ Len(b) \in Nat /\ DOMAIN b = 1..Len(b)
  BY SeqElements
<1>2. /\ ab \in Seq(S) /\ Len(ab) = Len(a) + Len(b)
      /\ \A k \in 1..(Len(a) + Len(b)) :
            ab[k] = IF k <= Len(a) THEN a[k] ELSE b[k - Len(a)]
  BY ConcatProperties
<1>3. DOMAIN ab = 1..(Len(a) + Len(b))
  BY <1>2, SeqElements
<1> HIDE DEF ab
<1>4. \A i \in DOMAIN a : i \in DOMAIN ab /\ ab[i] = a[i]
  BY <1>1, <1>2, <1>3
<1>5. ASSUME NEW i \in DOMAIN b
      PROVE  /\ Len(a) + i \in DOMAIN ab /\ Len(a) + i \notin DOMAIN a
             /\ ab[Len(a) + i] = b[i]
  <2>1. /\ Len(a) + i \in DOMAIN ab /\ Len(a) + i \notin DOMAIN a
        /\ ~ (Len(a) + i <= Len(a)) /\ (Len(a) + i) - Len(a) = i
    BY <1>1, <1>3
  <2> QED BY <1>2, <1>3, <2>1
<1>6. ASSUME NEW k \in DOMAIN ab
      PROVE  k \in DOMAIN a \/ \E i \in DOMAIN b : k = Len(a) + i
  <2>1. CASE k <= Len(a)
    BY <1>1, <1>3, <2>1
  <2>2. CASE k > Len(a)
    <3>1. k - Len(a) \in DOMAIN b /\ k = Len(a) + (k - Len(a))
      BY <1>1, <1>3, <2>2
    <3> QED BY <3>1
  <2> QED BY <1>1, <1>3, <2>1, <2>2
<1> QED BY <1>4, <1>5, <1>6 DEF ab

\* Two lists put together: ids stay distinct when they are distinct in each
\* list and no id is in both.  Once for messages, once for calls.
LEMMA ConcatMessageIds ==
    ASSUME NEW a \in Seq(Message), NEW b \in Seq(Message),
           \A i, j \in DOMAIN a : a[i].id = a[j].id => i = j,
           \A i, j \in DOMAIN b : b[i].id = b[j].id => i = j,
           MessageIdsOf(a) \cap MessageIdsOf(b) = {}
    PROVE  /\ \A i, j \in DOMAIN (a \o b) : (a \o b)[i].id = (a \o b)[j].id => i = j
           /\ MessageIdsOf(a \o b) = MessageIdsOf(a) \cup MessageIdsOf(b)
<1> DEFINE ab == a \o b
<1>1. /\ \A i \in DOMAIN a : i \in DOMAIN ab /\ ab[i] = a[i]
      /\ \A i \in DOMAIN b : Len(a) + i \in DOMAIN ab /\ ab[Len(a) + i] = b[i]
      /\ \A k \in DOMAIN ab : k \in DOMAIN a \/ \E i \in DOMAIN b : k = Len(a) + i
  BY ConcatSplit
<1> HIDE DEF ab
<1>2. \A i \in DOMAIN a, j \in DOMAIN b : a[i].id # b[j].id
  BY DEF MessageIdsOf
<1>3. \A i, j \in DOMAIN ab : ab[i].id = ab[j].id => i = j
  BY <1>1, <1>2
<1>4. MessageIdsOf(ab) = MessageIdsOf(a) \cup MessageIdsOf(b)
  BY <1>1 DEF MessageIdsOf
<1> QED BY <1>3, <1>4 DEF ab

LEMMA ConcatCallIds ==
    ASSUME NEW a \in Seq(ToolCall), NEW b \in Seq(ToolCall),
           \A i, j \in DOMAIN a : a[i].call = a[j].call => i = j,
           \A i, j \in DOMAIN b : b[i].call = b[j].call => i = j,
           CallIdsOf(a) \cap CallIdsOf(b) = {}
    PROVE  /\ \A i, j \in DOMAIN (a \o b) : (a \o b)[i].call = (a \o b)[j].call => i = j
           /\ CallIdsOf(a \o b) = CallIdsOf(a) \cup CallIdsOf(b)
<1> DEFINE ab == a \o b
<1>1. /\ \A i \in DOMAIN a : i \in DOMAIN ab /\ ab[i] = a[i]
      /\ \A i \in DOMAIN b : Len(a) + i \in DOMAIN ab /\ ab[Len(a) + i] = b[i]
      /\ \A k \in DOMAIN ab : k \in DOMAIN a \/ \E i \in DOMAIN b : k = Len(a) + i
  BY ConcatSplit
<1> HIDE DEF ab
<1>2. \A i \in DOMAIN a, j \in DOMAIN b : a[i].call # b[j].call
  BY DEF CallIdsOf
<1>3. \A i, j \in DOMAIN ab : ab[i].call = ab[j].call => i = j
  BY <1>1, <1>2
<1>4. CallIdsOf(ab) = CallIdsOf(a) \cup CallIdsOf(b)
  BY <1>1 DEF CallIdsOf
<1> QED BY <1>3, <1>4 DEF ab

\* New calls for a list of provider ids: distinct new call ids.
LEMMA NewCallIds ==
    ASSUME NEW provs \in Seq(ProvIds), NoRepetition(provs),
           NEW callOf \in [Elements(provs) -> CallIds], FreshCallIds(callOf),
           NEW added \in Seq(ToolCall), DOMAIN added = DOMAIN provs,
           \A i \in DOMAIN provs : added[i].call = callOf[provs[i]]
    PROVE  /\ \A i, j \in DOMAIN added : added[i].call = added[j].call => i = j
           /\ CallIdsOf(added) \cap (RetainedCallIds(raw) \cup CallIdsOf(toolCalls)) = {}
<1>1. \A i \in DOMAIN provs : provs[i] \in Elements(provs) /\ provs[i] \in DOMAIN callOf
  BY DEF Elements
<1>2. \A i, j \in DOMAIN added : added[i].call = added[j].call => i = j
  BY <1>1 DEF FreshCallIds, NoRepetition
<1>3. \A i \in DOMAIN added :
         added[i].call \notin RetainedCallIds(raw) \cup CallIdsOf(toolCalls)
  BY <1>1 DEF FreshCallIds
<1> QED BY <1>2, <1>3 DEF CallIdsOf

\* A commit moves ids the validator found new from the pending turn to the log.
LEMMA IdsCommit ==
    ASSUME PhaseInv, IdsInv, NEW turn \in Turn, commit_draft(turn), ClearPending
    PROVE  IdsInv'
<1>1. /\ raw \in Seq(Turn) /\ raw' = Append(raw, turn)
      /\ ValidIdentity(turn, raw, tip_id)
  BY DEF PhaseInv, TurnTypeOK, commit_draft, validate_turn_data
<1>2. /\ Len(raw) \in Nat /\ DOMAIN raw = 1..Len(raw)
      /\ Len(raw') = Len(raw) + 1 /\ raw' \in Seq(Turn)
      /\ \A k \in DOMAIN raw : raw'[k] = raw[k]
      /\ raw'[Len(raw) + 1] = turn
  BY <1>1, SeqElements, AppendType
<1>3. DOMAIN raw' = DOMAIN raw \cup {Len(raw) + 1}
  <2>1. DOMAIN raw' = 1..(Len(raw) + 1)
    BY <1>2, SeqElements
  <2> QED BY <1>2, <2>1
<1>4. /\ \A k \in DOMAIN raw :
            MessageIdsOf(raw[k].messages) \cap MessageIdsOf(turn.messages) = {}
      /\ \A k \in DOMAIN raw :
            CallIdsOf(raw[k].toolCalls) \cap CallIdsOf(turn.toolCalls) = {}
  BY <1>1 DEF ValidIdentity, RetainedMessageIds, RetainedCallIds
<1>5. MessageIdsUnique'
  <2>1. \A k, l \in DOMAIN raw' : k # l =>
           MessageIdsOf(raw'[k].messages) \cap MessageIdsOf(raw'[l].messages) = {}
    BY <1>2, <1>3, <1>4 DEF IdsInv, MessageIdsUnique
  <2>2. messages' = << >> /\ MessageIdsOf(messages') = {}
    BY DEF ClearPending, MessageIdsOf
  <2> QED BY <2>1, <2>2 DEF MessageIdsUnique
<1>6. CallIdsUnique'
  <2>1. \A k, l \in DOMAIN raw' : k # l =>
           CallIdsOf(raw'[k].toolCalls) \cap CallIdsOf(raw'[l].toolCalls) = {}
    BY <1>2, <1>3, <1>4 DEF IdsInv, CallIdsUnique
  <2>2. toolCalls' = << >> /\ CallIdsOf(toolCalls') = {}
    BY DEF ClearPending, CallIdsOf
  <2> QED BY <2>1, <2>2 DEF CallIdsUnique
<1> QED BY <1>5, <1>6 DEF IdsInv

\* Appending a message with a fresh id.
LEMMA MessageIdsAppend ==
    ASSUME PhaseInv, CachesAreExact, MessageIdsUnique, NEW msg \in Message,
           FreshMessageId(msg.id), messages' = Append(messages, msg), UNCHANGED history
    PROVE  MessageIdsUnique'
<1>1. /\ \A i, j \in DOMAIN messages' : messages'[i].id = messages'[j].id => i = j
      /\ MessageIdsOf(messages') = MessageIdsOf(messages) \cup {msg.id}
  BY FreshAppend DEF PhaseInv, TurnTypeOK, MessageIdsUnique, FreshMessageId, contains_message_id
<1>2. msg.id \notin RetainedMessageIds(raw) /\ raw' = raw
  BY DEF CachesAreExact, FreshMessageId, retained_message_exists, history
<1> QED BY <1>1, <1>2 DEF MessageIdsUnique

\* The same calls with other result messages have the same ids.
LEMMA CallIdsKept ==
    ASSUME CallIdsUnique, raw' = raw, DOMAIN toolCalls' = DOMAIN toolCalls,
           \A k \in DOMAIN toolCalls : toolCalls'[k].call = toolCalls[k].call
    PROVE  CallIdsUnique'
<1>1. CallIdsOf(toolCalls') = CallIdsOf(toolCalls)
  BY DEF CallIdsOf
<1> QED BY <1>1 DEF CallIdsUnique

\* The ids in a list are distinct and not in the log.
MessagesFresh(msgs) ==
    /\ \A i, j \in DOMAIN msgs : msgs[i].id = msgs[j].id => i = j
    /\ MessageIdsOf(msgs) \cap RetainedMessageIds(raw) = {}

CallsFresh(calls) ==
    /\ \A i, j \in DOMAIN calls : calls[i].call = calls[j].call => i = j
    /\ CallIdsOf(calls) \cap RetainedCallIds(raw) = {}

\* New calls behind the registered ones.
LEMMA CallIdsAppended ==
    ASSUME PhaseInv, CallIdsUnique,
           NEW provs \in Seq(ProvIds), NoRepetition(provs),
           NEW callOf \in [Elements(provs) -> CallIds], FreshCallIds(callOf),
           NEW added \in Seq(ToolCall), DOMAIN added = DOMAIN provs,
           \A i \in DOMAIN provs : added[i].call = callOf[provs[i]]
    PROVE  CallsFresh(toolCalls \o added)
<1> DEFINE all == toolCalls \o added
<1>1. /\ \A i, j \in DOMAIN added : added[i].call = added[j].call => i = j
      /\ CallIdsOf(added) \cap (RetainedCallIds(raw) \cup CallIdsOf(toolCalls)) = {}
  BY NewCallIds
<1>2. toolCalls \in Seq(ToolCall) /\ CallIdsOf(toolCalls) \cap CallIdsOf(added) = {}
  BY <1>1 DEF PhaseInv, TurnTypeOK
<1>3. /\ \A i, j \in DOMAIN all : all[i].call = all[j].call => i = j
      /\ CallIdsOf(all) = CallIdsOf(toolCalls) \cup CallIdsOf(added)
  BY <1>1, <1>2, ConcatCallIds DEF CallIdsUnique
<1> HIDE DEF all
<1>4. CallsFresh(all)
  BY <1>1, <1>3 DEF CallIdsUnique, CallsFresh
<1> QED BY <1>4 DEF all

LEMMA IdsRegister ==
    ASSUME PhaseInv, IdsInv, NEW callOf \in [Elements(unmapped) -> CallIds],
           register_tool_calls(callOf)
    PROVE  IdsInv'
<1> DEFINE added == [i \in 1..Len(unmapped) |->
              [call |-> callOf[unmapped[i]], prov |-> unmapped[i],
               callMsg |-> messages[Len(messages)].id, resultMsg |-> NoMsg]]
<1>1. /\ Len(unmapped) \in Nat /\ DOMAIN unmapped = 1..Len(unmapped)
      /\ unmapped \in Seq(ProvIds) /\ NoRepetition(unmapped) /\ FreshCallIds(callOf)
      /\ \A i \in 1..Len(unmapped) : unmapped[i] \in ProvIds /\ unmapped[i] \in Elements(unmapped)
  BY ElementTypes DEF PhaseInv, TurnTypeOK, Elements, register_tool_calls
<1>2. messages[Len(messages)].id \in MsgIds
  <2>1. messages \in Seq(Message) /\ messages # << >>
    BY DEF register_tool_calls, PhaseInv, Started, TurnTypeOK
  <2>2. messages[Len(messages)] \in Message
    BY <2>1, SeqElements
  <2> QED BY <2>2 DEF Message
<1>3. \A i \in 1..Len(unmapped) : added[i] \in ToolCall /\ added[i].call = callOf[unmapped[i]]
  BY <1>1, <1>2 DEF ToolCall
<1>4. added \in Seq(ToolCall) /\ DOMAIN added = DOMAIN unmapped
  BY <1>1, <1>3
<1>5. toolCalls' = toolCalls \o added /\ raw' = raw /\ messages' = messages
  BY DEF register_tool_calls, history
<1> HIDE DEF added
<1>6. CallIdsUnique'
  <2>1. CallsFresh(toolCalls \o added)
    BY <1>1, <1>3, <1>4, CallIdsAppended DEF IdsInv
  <2>2. CallsFresh(toolCalls')
    BY <1>5, <2>1
  <2> QED BY <1>5, <2>2 DEF CallsFresh, IdsInv, CallIdsUnique
<1>7. MessageIdsUnique'
  BY <1>5 DEF IdsInv, MessageIdsUnique
<1> QED BY <1>6, <1>7 DEF IdsInv

\* What a cancellation adds: synthetic results with new ids, for calls that
\* are known or get new ids.
LEMMA CancelledIds ==
    ASSUME PhaseInv, CachesAreExact, IdsInv,
           NEW provs \in expected_open_calls,
           NEW msgOf \in [Elements(provs) -> MsgIds],
           NEW callOf \in [Elements(provs) -> CallIds],
           AcceptableResults(provs, msgOf, callOf)
    PROVE  /\ MessagesFresh(messages \o CancelledMessages(provs, msgOf))
           /\ MessageIdsOf(messages \o CancelledMessages(provs, msgOf))
                 = MessageIdsOf(messages) \cup {msgOf[p] : p \in Elements(provs)}
           /\ CallsFresh(CancelledToolCalls(provs, msgOf, callOf))
<1>1. /\ provs \in Seq(ProvIds) /\ NoRepetition(provs)
      /\ Len(provs) \in Nat /\ DOMAIN provs = 1..Len(provs)
      /\ \A i \in DOMAIN provs : provs[i] \in ProvIds /\ provs[i] \in Elements(provs)
  <2>1. provs \in Seq(ProvIds) /\ NoRepetition(provs)
    BY ExpectedOpenCalls DEF PhaseInv, AcceptableResults
  <2>2. /\ Len(provs) \in Nat /\ DOMAIN provs = 1..Len(provs)
        /\ \A i \in DOMAIN provs : provs[i] \in ProvIds
    BY <2>1, SeqElements
  <2> QED BY <2>1, <2>2 DEF Elements
<1>2. /\ MessagesFresh(messages \o CancelledMessages(provs, msgOf))
      /\ MessageIdsOf(messages \o CancelledMessages(provs, msgOf))
            = MessageIdsOf(messages) \cup {msgOf[p] : p \in Elements(provs)}
  <2> DEFINE added == CancelledMessages(provs, msgOf)
             all == messages \o added
  <2>1. /\ added \in Seq(Message) /\ Len(added) = Len(provs)
        /\ \A i \in DOMAIN provs : added[i].id = msgOf[provs[i]]
    BY <1>1, CancelledMessagesType
  <2>2. DOMAIN added = DOMAIN provs
    BY <1>1, <2>1, SeqElements
  <2> HIDE DEF added
  <2>3. MessageIdsOf(added) = {msgOf[p] : p \in Elements(provs)}
    BY <2>1, <2>2 DEF MessageIdsOf, Elements
  <2>4. \A p \in Elements(provs) :
           /\ FreshMessageId(msgOf[p])
           /\ \A q \in Elements(provs) : msgOf[p] = msgOf[q] => p = q
    BY DEF AcceptableResults
  <2>5. \A i, j \in DOMAIN added : added[i].id = added[j].id => i = j
    BY <1>1, <2>1, <2>2, <2>4 DEF NoRepetition
  <2>6. \A i \in DOMAIN added :
           added[i].id \notin MessageIdsOf(messages) \cup RetainedMessageIds(raw)
    BY <1>1, <2>1, <2>2, <2>4
       DEF FreshMessageId, retained_message_exists, contains_message_id, CachesAreExact
  <2>7. MessageIdsOf(added) \cap (MessageIdsOf(messages) \cup RetainedMessageIds(raw)) = {}
    BY <2>6 DEF MessageIdsOf
  <2>8. messages \in Seq(Message) /\ MessageIdsOf(messages) \cap MessageIdsOf(added) = {}
    BY <2>7 DEF PhaseInv, TurnTypeOK
  <2>9. /\ \A i, j \in DOMAIN all : all[i].id = all[j].id => i = j
        /\ MessageIdsOf(all) = MessageIdsOf(messages) \cup MessageIdsOf(added)
    BY <2>1, <2>5, <2>8, ConcatMessageIds DEF IdsInv, MessageIdsUnique
  <2> HIDE DEF all
  <2>10. MessagesFresh(all)
    BY <2>7, <2>9 DEF IdsInv, MessageIdsUnique, MessagesFresh
  <2> QED BY <2>3, <2>9, <2>10 DEF all, added
<1>3. CallsFresh(CancelledToolCalls(provs, msgOf, callOf))
  <2> DEFINE calls == CancelledToolCalls(provs, msgOf, callOf)
  <2>1. CASE phase = "AwaitingToolCallMappings"
    <3> DEFINE added == [i \in 1..Len(provs) |->
            [call |-> callOf[provs[i]], prov |-> provs[i],
             callMsg |-> messages[Len(messages)].id, resultMsg |-> msgOf[provs[i]]]]
    <3>1. messages[Len(messages)].id \in MsgIds
      <4>1. messages \in Seq(Message) /\ messages # << >>
        BY <2>1 DEF PhaseInv, Started, TurnTypeOK
      <4>2. messages[Len(messages)] \in Message
        BY <4>1, SeqElements
      <4> QED BY <4>2 DEF Message
    <3>2. \A i \in 1..Len(provs) : added[i] \in ToolCall /\ added[i].call = callOf[provs[i]]
      BY <1>1, <3>1 DEF ToolCall
    <3>3. added \in Seq(ToolCall) /\ DOMAIN added = DOMAIN provs
      BY <1>1, <3>2
    <3>4. calls = toolCalls \o added /\ FreshCallIds(callOf)
      BY <2>1 DEF CancelledToolCalls, AcceptableResults
    <3> HIDE DEF added, calls
    <3>5. CallsFresh(toolCalls \o added)
      BY <1>1, <3>2, <3>3, <3>4, CallIdsAppended DEF IdsInv
    <3>6. CallsFresh(calls)
      BY <3>4, <3>5
    <3> QED BY <3>6 DEF calls
  <2>2. CASE phase # "AwaitingToolCallMappings"
    <3>1. calls = [i \in DOMAIN toolCalls |->
             IF i \in open_calls THEN Answered(toolCalls[i], msgOf[toolCalls[i].prov])
             ELSE toolCalls[i]]
      BY <2>2 DEF CancelledToolCalls
    <3> HIDE DEF calls
    <3>2. /\ DOMAIN calls = DOMAIN toolCalls
          /\ \A k \in DOMAIN toolCalls : calls[k].call = toolCalls[k].call
      BY <3>1 DEF Answered
    <3>3. CallIdsOf(calls) = CallIdsOf(toolCalls)
      BY <3>2 DEF CallIdsOf
    <3>4. CallsFresh(calls)
      BY <3>2, <3>3 DEF CallsFresh, IdsInv, CallIdsUnique
    <3> QED BY <3>4 DEF calls
  <2> QED BY <2>1, <2>2
<1> QED BY <1>2, <1>3

LEMMA IdsResume ==
    ASSUME PhaseInv, CachesAreExact, IdsInv,
           NEW provs \in expected_open_calls,
           NEW msgOf \in [Elements(provs) -> MsgIds],
           NEW callOf \in [Elements(provs) -> CallIds],
           resume_cancelled_turn(provs, msgOf, callOf)
    PROVE  IdsInv'
<1>1. /\ messages' = messages \o CancelledMessages(provs, msgOf)
      /\ toolCalls' = CancelledToolCalls(provs, msgOf, callOf)
      /\ raw' = raw /\ AcceptableResults(provs, msgOf, callOf)
  BY DEF resume_cancelled_turn, history
<1>2. /\ MessagesFresh(messages \o CancelledMessages(provs, msgOf))
      /\ CallsFresh(CancelledToolCalls(provs, msgOf, callOf))
  BY <1>1, CancelledIds
<1>3. MessagesFresh(messages') /\ CallsFresh(toolCalls')
  BY <1>1, <1>2
<1> QED BY <1>1, <1>3 DEF MessagesFresh, CallsFresh, IdsInv, MessageIdsUnique, CallIdsUnique

LEMMA IdsInit == TurnInit => IdsInv
BY DEF TurnInit, IdsInv, MessageIdsUnique, CallIdsUnique, MessageIdsOf, CallIdsOf

LEMMA IdsStep == PhaseInv /\ CachesAreExact /\ IdsInv /\ [TurnNext]_turnVars => IdsInv'
<1> SUFFICES ASSUME PhaseInv, CachesAreExact, IdsInv, [TurnNext]_turnVars PROVE IdsInv'
  OBVIOUS
<1>1. ASSUME NEW t \in TurnIds, NEW m \in MsgIds, begin_turn(t, m) PROVE IdsInv'
  <2>1. /\ messages' = <<UserMessage(m)>> /\ toolCalls' = << >> /\ raw' = raw
        /\ m \notin RetainedMessageIds(raw)
    BY <1>1 DEF begin_turn, history, retained_message_exists, CachesAreExact
  <2>2. MessageIdsOf(messages') = {m} /\ DOMAIN messages' = {1}
    BY <2>1 DEF MessageIdsOf, UserMessage
  <2>3. MessageIdsUnique'
    BY <2>1, <2>2 DEF IdsInv, MessageIdsUnique
  <2>4. CallIdsUnique'
    <3>1. CallIdsOf(toolCalls') = {}
      BY <2>1 DEF CallIdsOf
    <3> QED BY <2>1, <3>1 DEF IdsInv, CallIdsUnique
  <2> QED BY <2>3, <2>4 DEF IdsInv
<1>2. ASSUME UNCHANGED <<history, draft>> PROVE IdsInv'
  BY <1>2 DEF IdsInv, MessageIdsUnique, CallIdsUnique, history, draft
<1>3. CASE \/ start_assistant
           \/ \E r \in Responses : start_assistant_response(r)
           \/ push_assistant_event
           \/ \E m \in MsgIds, r \in Responses : FinishAssistantRejected(m, r)
  BY <1>2, <1>3 DEF start_assistant, start_assistant_response, push_assistant_event,
                    FinishAssistantRejected
<1>4. ASSUME NEW m \in MsgIds, NEW r \in Responses, finish_assistant(m, r) PROVE IdsInv'
  <2>1. AssistantMessage(m, r) \in Message /\ AssistantMessage(m, r).id = m
    BY MessageTypes DEF AssistantMessage
  <2>2. /\ messages' = Append(messages, AssistantMessage(m, r)) /\ FreshMessageId(m)
        /\ UNCHANGED history /\ toolCalls' = toolCalls
    BY <1>4 DEF finish_assistant
  <2>3. MessageIdsUnique'
    BY <2>1, <2>2, MessageIdsAppend DEF IdsInv
  <2> QED BY <2>2, <2>3 DEF IdsInv, CallIdsUnique, history
<1>5. CASE \E callOf \in [Elements(unmapped) -> CallIds] : register_tool_calls(callOf)
  BY <1>5, IdsRegister
<1>6. ASSUME NEW m \in MsgIds, NEW p \in ProvIds, append_tool_result(m, p) PROVE IdsInv'
  <2>1. ToolMessage(m, p) \in Message /\ ToolMessage(m, p).id = m
    BY MessageTypes DEF ToolMessage
  <2>2. /\ messages' = Append(messages, ToolMessage(m, p)) /\ FreshMessageId(m)
        /\ UNCHANGED history
    BY <1>6 DEF append_tool_result
  <2>3. MessageIdsUnique'
    BY <2>1, <2>2, MessageIdsAppend DEF IdsInv
  <2>4. PICK i \in open_calls :
           toolCalls' = [toolCalls EXCEPT ![i] = Answered(toolCalls[i], m)]
    BY <1>6 DEF append_tool_result
  <2>5. /\ DOMAIN toolCalls' = DOMAIN toolCalls
        /\ \A k \in DOMAIN toolCalls : toolCalls'[k].call = toolCalls[k].call
    BY <2>4, AnsweredCalls DEF PhaseInv, Answered
  <2>6. CallIdsUnique'
    BY <2>2, <2>5, CallIdsKept DEF IdsInv, history
  <2> QED BY <2>3, <2>6 DEF IdsInv
<1>7. ASSUME NEW m \in MsgIds, inject_user_message(m) PROVE IdsInv'
  <2>1. UserMessage(m) \in Message /\ UserMessage(m).id = m
    BY MessageTypes DEF UserMessage
  <2>2. /\ messages' = Append(messages, UserMessage(m)) /\ FreshMessageId(m)
        /\ UNCHANGED history /\ toolCalls' = toolCalls
    BY <1>7 DEF inject_user_message
  <2>3. MessageIdsUnique'
    BY <2>1, <2>2, MessageIdsAppend DEF IdsInv
  <2> QED BY <2>2, <2>3 DEF IdsInv, CallIdsUnique, history
<1>8. CASE commit_pending
  BY <1>8, IdsCommit, DraftTurnType DEF commit_pending
<1>9. CASE discard_pending_turn
  <2>1. messages' = << >> /\ toolCalls' = << >> /\ raw' = raw
    BY <1>9 DEF discard_pending_turn, ClearPending, history
  <2>2. MessageIdsOf(messages') = {} /\ CallIdsOf(toolCalls') = {}
    BY <2>1 DEF MessageIdsOf, CallIdsOf
  <2>3. MessageIdsUnique'
    BY <2>1, <2>2 DEF IdsInv, MessageIdsUnique
  <2>4. CallIdsUnique'
    BY <2>1, <2>2 DEF IdsInv, CallIdsUnique
  <2> QED BY <2>3, <2>4 DEF IdsInv
<1>10. ASSUME NEW provs \in expected_open_calls,
              NEW msgOf \in [Elements(provs) -> MsgIds],
              NEW callOf \in [Elements(provs) -> CallIds],
              \/ resume_cancelled_turn(provs, msgOf, callOf)
              \/ \E m \in MsgIds, r \in Responses :
                    commit_cancelled_turn(provs, msgOf, callOf, m, r)
       PROVE  IdsInv'
  <2>1. CASE resume_cancelled_turn(provs, msgOf, callOf)
    BY <2>1, IdsResume
  <2>2. ASSUME NEW m \in MsgIds, NEW r \in Responses,
               commit_cancelled_turn(provs, msgOf, callOf, m, r)
        PROVE  IdsInv'
    BY <2>2, IdsCommit, CancelledTurnType DEF commit_cancelled_turn
  <2> QED BY <1>10, <2>1, <2>2
<1>11. CASE UNCHANGED turnVars
  BY <1>2, <1>11 DEF turnVars
<1> QED BY <1>1, <1>3, <1>4, <1>5, <1>6, <1>7, <1>8, <1>9, <1>10, <1>11
        DEF TurnNext, BuildTurn, CancelTurn

\* The whole invariant.
LEMMA PendingTurnInv == TurnSpec => [](PhaseInv /\ CachesAreExact /\ IdsInv)
<1>1. TurnInit => PhaseInv /\ CachesAreExact /\ IdsInv
  BY PhaseInit, CachesInit, IdsInit
<1>2. (PhaseInv /\ CachesAreExact /\ IdsInv) /\ [TurnNext]_turnVars
         => (PhaseInv /\ CachesAreExact /\ IdsInv)'
  BY PhaseStep, CachesStep, IdsStep
<1> QED BY <1>1, <1>2, PTL DEF TurnSpec

\* No message id and no framework call id ever occurs twice in the retained log
\* and the pending turn together, although begin_turn, finish_assistant,
\* register_tool_calls, append_tool_result, inject_user_message and the
\* cancellations each check their own ids; and the caches they look into are
\* exact.
THEOREM IdentityCorrect == TurnSpec => []IdentityInv
<1>1. PhaseInv /\ CachesAreExact /\ IdsInv => IdentityInv
  BY DEF IdentityInv
<1> QED BY <1>1, PendingTurnInv, PTL

-----------------------------------------------------------------------------
(***************************************************************************)
(* A message that failed to stream or to freeze.                           *)
(***************************************************************************)

\* What a cancellation adds in the phase that holds the poisoned message.
LEMMA NothingToAnswer ==
    ASSUME PhaseInv, phase = "AssistantInProgress",
           NEW provs \in expected_open_calls,
           NEW msgOf \in [Elements(provs) -> MsgIds]
    PROVE  messages \o CancelledMessages(provs, msgOf) = messages
<1>1. provs = << >> /\ provs \in Seq(ProvIds) /\ messages \in Seq(Message)
  BY ExpectedOpenCalls DEF PhaseInv, TurnTypeOK
<1>2. Len(provs) = 0
  BY <1>1
<1>3. /\ CancelledMessages(provs, msgOf) \in Seq(Message)
      /\ Len(CancelledMessages(provs, msgOf)) = 0
  BY <1>1, <1>2, CancelledMessagesType
<1>4. CancelledMessages(provs, msgOf) = << >>
  BY <1>3, EmptySeq
<1> QED BY <1>1, <1>4

LEMMA PoisonedStep ==
    ASSUME PhaseInv, [TurnNext]_turnVars, assistant.state \in {"Terminal", "Frozen"}
    PROVE  \/ UNCHANGED <<phase, messages>>
           \/ phase' = "AwaitingAssistant" /\ messages' = messages
           \/ phase' = "NoPending" /\ raw' = raw
           \/ /\ phase' = "NoPending"
              /\ Len(raw'[Len(raw')].messages) = Len(messages) + 1
<1>1. phase = "AssistantInProgress" /\ messages \in Seq(Message)
  BY DEF PhaseInv, PhaseMatchesCalls, TurnTypeOK
<1>2. ASSUME NEW m \in MsgIds, NEW r \in Responses, finish_assistant(m, r) PROVE FALSE
  BY <1>2 DEF finish_assistant, FinishedResponse
<1>3. ASSUME NEW m \in MsgIds, NEW r \in Responses, FinishAssistantRejected(m, r) PROVE FALSE
  BY <1>3 DEF FinishAssistantRejected, FinishedResponse
<1>4. ~ push_assistant_event
  BY DEF push_assistant_event
<1>5. CASE BuildTurn
  BY <1>1, <1>2, <1>3, <1>4, <1>5
     DEF BuildTurn, begin_turn, start_assistant, start_assistant_response,
         register_tool_calls, append_tool_result, inject_user_message, commit_pending
<1>6. CASE discard_pending_turn
  BY <1>6 DEF discard_pending_turn, ClearPending, history
<1>7. ASSUME NEW provs \in expected_open_calls,
             NEW msgOf \in [Elements(provs) -> MsgIds],
             NEW callOf \in [Elements(provs) -> CallIds],
             resume_cancelled_turn(provs, msgOf, callOf)
      PROVE  phase' = "AwaitingAssistant" /\ messages' = messages
  BY <1>1, <1>7, NothingToAnswer DEF resume_cancelled_turn
<1>8. ASSUME NEW provs \in expected_open_calls,
             NEW msgOf \in [Elements(provs) -> MsgIds],
             NEW callOf \in [Elements(provs) -> CallIds],
             NEW m \in MsgIds, NEW r \in Responses,
             commit_cancelled_turn(provs, msgOf, callOf, m, r)
      PROVE  phase' = "NoPending" /\ Len(raw'[Len(raw')].messages) = Len(messages) + 1
  <2> DEFINE turn == CancelledTurn(provs, msgOf, callOf, m, r)
  <2>1. turn \in Turn
    BY CancelledTurnType
  <2>2. turn.messages = messages \o <<AssistantMessage(m, r)>>
    BY <1>1, NothingToAnswer DEF CancelledTurn
  <2>3. <<AssistantMessage(m, r)>> \in Seq(Message) /\ Len(<<AssistantMessage(m, r)>>) = 1
    BY MessageTypes
  <2>4. Len(turn.messages) = Len(messages) + 1
    BY <1>1, <2>2, <2>3, ConcatProperties
  <2>5. raw' = Append(raw, turn) /\ phase' = "NoPending"
    BY <1>8 DEF commit_cancelled_turn, commit_draft, ClearPending
  <2> HIDE DEF turn
  <2>6. raw'[Len(raw')] = turn
    BY <2>1, <2>5, AppendType DEF PhaseInv, TurnTypeOK
  <2> QED BY <2>4, <2>5, <2>6
<1>9. CASE CancelTurn
  BY <1>6, <1>7, <1>8, <1>9 DEF CancelTurn, discard_pending_turn, ClearPending, history
<1>10. CASE UNCHANGED turnVars
  BY <1>10 DEF turnVars, draft
<1> QED BY <1>5, <1>9, <1>10 DEF TurnNext

\* Nothing the model said in a message that failed to stream or to freeze enters
\* a turn: from there only a cancellation leads on, and what it commits is the
\* pending messages and the response of the caller (message.rs, turn.rs).
THEOREM PoisonCorrect == TurnSpec => PoisonedMessageNeverCommitted
<1>1. PhaseInv /\ [TurnNext]_turnVars =>
        [ assistant.state \in {"Terminal", "Frozen"} =>
          \/ UNCHANGED <<phase, messages>>
          \/ phase' = "AwaitingAssistant" /\ messages' = messages
          \/ phase' = "NoPending" /\ raw' = raw
          \/ /\ phase' = "NoPending"
             /\ Len(raw'[Len(raw')].messages) = Len(messages) + 1 ]_turnVars
  BY PoisonedStep
<1>2. TurnSpec => []PhaseInv
  BY PhaseInit, PhaseStep, PTL DEF TurnSpec
<1> QED BY <1>1, <1>2, PTL DEF TurnSpec, PoisonedMessageNeverCommitted

-----------------------------------------------------------------------------
(***************************************************************************)
(* Closing a turn: the draft, in every phase, is what the validator of     *)
(* closed turns accepts so far.                                            *)
(***************************************************************************)
UsesOf(msgs) == UNION {Elements(msgs[k].uses) : k \in DOMAIN msgs}

ResultsOf(msgs) == UNION {Elements(msgs[k].results) : k \in DOMAIN msgs}

\* The message with this id carries the call, or its result.
UsedIn(msgs, id, p) == \E k \in DOMAIN msgs : msgs[k].id = id /\ p \in Elements(msgs[k].uses)

AnsweredIn(msgs, id, p) ==
    \E k \in DOMAIN msgs : msgs[k].id = id /\ p \in Elements(msgs[k].results)

OpenProvs(calls) == {calls[i].prov : i \in {j \in DOMAIN calls : calls[j].resultMsg = NoMsg}}

AnsweredProvs(calls) == {calls[i].prov : i \in {j \in DOMAIN calls : calls[j].resultMsg # NoMsg}}

\* Each provider id is that of one call.
DistinctProvs(calls) == \A i, j \in DOMAIN calls : calls[i].prov = calls[j].prov => i = j

\* The calls and the tool uses that have no call id yet are those in the
\* messages, each once; the results in the messages are those of the calls.
Linked(msgs, calls, unm) ==
    /\ \A i \in DOMAIN calls : UsedIn(msgs, calls[i].callMsg, calls[i].prov)
    /\ \A i \in DOMAIN calls : calls[i].resultMsg # NoMsg =>
          AnsweredIn(msgs, calls[i].resultMsg, calls[i].prov)
    /\ DistinctProvs(calls)
    /\ UsesOf(msgs) \subseteq ProvIdsOf(calls) \cup Elements(unm)
    /\ ResultsOf(msgs) \subseteq AnsweredProvs(calls)
    /\ NoRepetition(unm) /\ Elements(unm) \cap ProvIdsOf(calls) = {}
    /\ Elements(unm) \subseteq Elements(msgs[Len(msgs)].uses)

\* Where the phase says that the role automaton is.
RoleState(ph, msgs, calls, unm) ==
    IF ph \in {"AwaitingAssistant", "AssistantInProgress"}
    THEN IF Len(msgs) = 1 THEN ExpectAssistant(FALSE) ELSE ExpectAssistant(TRUE)
    ELSE IF ph = "AwaitingToolCallMappings" THEN AwaitToolResults(Elements(unm))
    ELSE IF ph = "AwaitingToolResults" THEN AwaitToolResults(OpenProvs(calls))
    ELSE Closed

NoSystem(msgs) == \A k \in DOMAIN msgs : msgs[k].role # "system"

\* The turn is the next one.
IsNext == parent = tip_id /\ \A k \in DOMAIN raw : raw[k].id # turnId

DraftFits ==
    /\ IsNext
    /\ NoSystem(messages) /\ ValidBlocks(messages)
    /\ Linked(messages, toolCalls, unmapped)
    /\ RoleStateAfter(messages) = RoleState(phase, messages, toolCalls, unmapped)

DraftInv == phase # "NoPending" => DraftFits

-----------------------------------------------------------------------------
(***************************************************************************)
(* The role automaton, message by message.                                 *)
(***************************************************************************)

\* A set of numbers has a least one.
LEMMA LeastNumber ==
    ASSUME NEW T, T \subseteq Nat, T # {}
    PROVE  \E m \in T : \A n \in T : m <= n
<1>1. IsWellFoundedOn(OpToRel(<, Nat), Nat)
  BY NatLessThanWellFounded, Zenon
<1>2. PICK m \in T : \A n \in T : ~(<<n, m>> \in OpToRel(<, Nat))
  BY <1>1, WFMin, Zenon
<1>3. \A n \in T : ~(n < m)
  BY <1>2 DEF OpToRel
<1> QED BY <1>3

\* Induction: a set with 0 and the successor of each of its numbers.
LEMMA Induction ==
    ASSUME NEW T, T \subseteq Nat, 0 \in T, \A n \in T : n + 1 \in T
    PROVE  T = Nat
<1> SUFFICES ASSUME Nat \ T # {} PROVE FALSE
  OBVIOUS
<1>1. PICK m \in Nat \ T : \A n \in Nat \ T : m <= n
  <2>1. Nat \ T \subseteq Nat
    OBVIOUS
  <2> QED BY <2>1, LeastNumber
<1>2. m - 1 \in T
  BY <1>1
<1> QED BY <1>1, <1>2

\* The states that the loop of validate_role_sequence goes through.
RoleStart(msgs) == IF msgs[1].role = "user" THEN ExpectAssistant(FALSE) ELSE Rejected

RoleAt(f, msgs, n) == IF n = 1 THEN RoleStart(msgs) ELSE RoleStep(f[n - 1], msgs[n])

RolesUpTo(f, msgs, k) == f = [n \in 1..k |-> RoleAt(f, msgs, n)]

LEMMA RolesExist ==
    ASSUME NEW msgs, NEW k \in Nat
    PROVE  \E f : RolesUpTo(f, msgs, k)
<1> DEFINE T == {n \in Nat : \E f : RolesUpTo(f, msgs, n)}
<1>1. 0 \in T
  <2> DEFINE f == [n \in 1..0 |-> n]
  <2>1. 1..0 = {}
    OBVIOUS
  <2>2. f = [n \in 1..0 |-> RoleAt(f, msgs, n)]
    BY <2>1
  <2> HIDE DEF f
  <2> QED BY <2>2 DEF RolesUpTo
<1>2. ASSUME NEW m \in T PROVE m + 1 \in T
  <2>1. m \in Nat /\ m + 1 \in Nat
    OBVIOUS
  <2>2. PICK f : f = [n \in 1..m |-> RoleAt(f, msgs, n)]
    BY Zenon DEF RolesUpTo
  <2> HIDE DEF T
  <2> DEFINE g == [n \in 1..(m + 1) |-> IF n = m + 1 THEN RoleAt(f, msgs, m + 1) ELSE f[n]]
  <2>3. \A n \in 1..m : g[n] = f[n]
    BY <2>1
  <2>4. ASSUME NEW n \in 1..(m + 1) PROVE g[n] = RoleAt(g, msgs, n)
    <3>1. CASE n = m + 1
      <4>1. n # 1 => n - 1 \in 1..m
        BY <3>1, <2>1
      <4>2. g[n] = RoleAt(f, msgs, n)
        BY <3>1
      <4> HIDE DEF g
      <4> QED BY <4>1, <4>2, <2>3 DEF RoleAt
    <3>2. CASE n # m + 1
      <4>1. n \in 1..m /\ (n # 1 => n - 1 \in 1..m)
        BY <3>2, <2>1
      <4>2. f[n] = RoleAt(f, msgs, n)
        BY <4>1, <2>2
      <4> HIDE DEF g
      <4> QED BY <4>1, <4>2, <2>3 DEF RoleAt
    <3> QED BY <3>1, <3>2
  <2>5. g = [n \in 1..(m + 1) |-> RoleAt(g, msgs, n)]
    BY <2>4
  <2> HIDE DEF g
  <2>6. RolesUpTo(g, msgs, m + 1)
    BY <2>5 DEF RolesUpTo
  <2> QED BY <2>1, <2>6 DEF T
<1>3. T = Nat
  <2>1. T \subseteq Nat
    OBVIOUS
  <2> HIDE DEF T
  <2> QED BY <1>1, <1>2, <2>1, Induction
<1> QED BY <1>3

LEMMA RoleTrace ==
    ASSUME NEW msgs, Len(msgs) \in Nat, msgs # << >>
    PROVE  \E f : /\ RoleStateAfter(msgs) = f[Len(msgs)]
                  /\ \A n \in 1..Len(msgs) : f[n] = RoleAt(f, msgs, n)
<1> DEFINE f == CHOOSE f : RolesUpTo(f, msgs, Len(msgs))
<1>1. RolesUpTo(f, msgs, Len(msgs))
  BY RolesExist, Zenon
<1>2. RoleStateAfter(msgs) = f[Len(msgs)]
  BY Zenon DEF RoleStateAfter, RolesUpTo, RoleAt, RoleStart
<1> HIDE DEF f
<1>3. f = [n \in 1..Len(msgs) |-> RoleAt(f, msgs, n)]
  BY <1>1, Zenon DEF RolesUpTo
<1>4. \A n \in 1..Len(msgs) : f[n] = RoleAt(f, msgs, n)
  BY <1>3
<1> QED BY <1>2, <1>4

\* There is one such sequence of states.
LEMMA RolesUnique ==
    ASSUME NEW msgs, Len(msgs) \in Nat, msgs # << >>, Len(msgs) # 0,
           NEW g, \A n \in 1..Len(msgs) : g[n] = RoleAt(g, msgs, n)
    PROVE  RoleStateAfter(msgs) = g[Len(msgs)]
<1>1. PICK f : /\ RoleStateAfter(msgs) = f[Len(msgs)]
               /\ \A n \in 1..Len(msgs) : f[n] = RoleAt(f, msgs, n)
  BY RoleTrace
<1> DEFINE T == {n \in Nat : n \in 1..Len(msgs) => f[n] = g[n]}
<1>2. 0 \in T
  OBVIOUS
<1>3. ASSUME NEW m \in T PROVE m + 1 \in T
  <2>1. m \in Nat /\ m + 1 \in Nat /\ (m + 1) - 1 = m
    OBVIOUS
  <2> SUFFICES ASSUME m + 1 \in 1..Len(msgs) PROVE f[m + 1] = g[m + 1]
    BY <2>1
  <2>2. m + 1 # 1 => m \in 1..Len(msgs)
    BY <2>1
  <2>3. m + 1 # 1 => f[m] = g[m]
    BY <2>2
  <2>4. f[m + 1] = RoleAt(f, msgs, m + 1) /\ g[m + 1] = RoleAt(g, msgs, m + 1)
    BY <1>1
  <2> QED BY <2>1, <2>3, <2>4 DEF RoleAt
<1>4. T = Nat
  <2>1. T \subseteq Nat
    OBVIOUS
  <2> HIDE DEF T
  <2> QED BY <1>2, <1>3, <2>1, Induction
<1>5. Len(msgs) \in T /\ Len(msgs) \in 1..Len(msgs)
  BY <1>4
<1> QED BY <1>1, <1>5

\* A list of one message.
LEMMA RoleFirst ==
    ASSUME NEW m \in Message, m.role = "user"
    PROVE  RoleStateAfter(<<m>>) = ExpectAssistant(FALSE)
<1> DEFINE msgs == <<m>>
<1>1. Len(msgs) = 1 /\ Len(msgs) \in Nat /\ msgs[1] = m /\ msgs # << >>
  OBVIOUS
<1> HIDE DEF msgs
<1>2. PICK f : /\ RoleStateAfter(msgs) = f[Len(msgs)]
               /\ \A n \in 1..Len(msgs) : f[n] = RoleAt(f, msgs, n)
  BY <1>1, RoleTrace
<1>3. f[1] = RoleAt(f, msgs, 1)
  BY <1>1, <1>2
<1>4. RoleStateAfter(msgs) = ExpectAssistant(FALSE)
  BY <1>1, <1>2, <1>3 DEF RoleAt, RoleStart
<1> QED BY <1>4 DEF msgs

\* The state behind a longer list goes on from that behind the shorter one.
LEMMA RoleConcat ==
    ASSUME NEW a \in Seq(Message), NEW b \in Seq(Message), a # << >>,
           NEW g, g[0] = RoleStateAfter(a),
           \A j \in 1..Len(b) : g[j] = RoleStep(g[j - 1], b[j])
    PROVE  RoleStateAfter(a \o b) = g[Len(b)]
<1> DEFINE ab == a \o b
<1>1. /\ Len(a) \in Nat /\ DOMAIN a = 1..Len(a) /\ Len(a) # 0
      /\ Len(b) \in Nat /\ DOMAIN b = 1..Len(b)
  BY SeqElements
<1>2. /\ ab \in Seq(Message) /\ Len(ab) = Len(a) + Len(b)
      /\ \A k \in 1..(Len(a) + Len(b)) :
            ab[k] = IF k <= Len(a) THEN a[k] ELSE b[k - Len(a)]
  BY ConcatProperties
<1>3. Len(ab) \in Nat /\ Len(ab) # 0 /\ ab # << >>
  <2>1. Len(ab) \in Nat /\ Len(ab) # 0
    BY <1>1, <1>2
  <2> HIDE DEF ab
  <2> QED BY <2>1
<1>4. PICK f : /\ RoleStateAfter(a) = f[Len(a)]
               /\ \A n \in 1..Len(a) : f[n] = RoleAt(f, a, n)
  BY <1>1, RoleTrace
<1> DEFINE h == [n \in 1..(Len(a) + Len(b)) |-> IF n <= Len(a) THEN f[n] ELSE g[n - Len(a)]]
<1> HIDE DEF ab
<1>5. ASSUME NEW n \in 1..Len(ab) PROVE h[n] = RoleAt(h, ab, n)
  <2>1. n \in 1..(Len(a) + Len(b))
    BY <1>2
  <2>2. CASE n <= Len(a)
    <3>1. n \in 1..Len(a) /\ (n # 1 => n - 1 \in 1..(Len(a) + Len(b)) /\ n - 1 <= Len(a))
      BY <1>1, <2>1, <2>2
    <3>2. h[n] = f[n] /\ (n # 1 => h[n - 1] = f[n - 1])
      BY <2>1, <2>2, <3>1
    <3>3. ab[n] = a[n] /\ ab[1] = a[1]
      <4>1. 1 \in 1..(Len(a) + Len(b)) /\ 1 <= Len(a)
        BY <1>1
      <4> QED BY <1>2, <2>1, <2>2, <4>1
    <3>4. f[n] = RoleAt(f, a, n)
      BY <1>4, <3>1
    <3> HIDE DEF h
    <3> QED BY <3>2, <3>3, <3>4 DEF RoleAt, RoleStart
  <2>3. CASE n > Len(a)
    <3> DEFINE j == n - Len(a)
    <3>1. j \in 1..Len(b) /\ n # 1 /\ ~(n <= Len(a)) /\ n - 1 \in 1..(Len(a) + Len(b))
      BY <1>1, <2>1, <2>3
    <3>2. h[n] = g[j] /\ ab[n] = b[j]
      BY <1>2, <2>1, <3>1
    <3>3. h[n - 1] = g[j - 1]
      <4>1. CASE j = 1
        <5>1. n - 1 = Len(a) /\ n - 1 <= Len(a) /\ j - 1 = 0
          BY <1>1, <2>1, <4>1
        <5>2. h[n - 1] = f[Len(a)]
          BY <3>1, <5>1
        <5> QED BY <1>4, <5>1, <5>2
      <4>2. CASE j # 1
        <5>1. ~(n - 1 <= Len(a)) /\ (n - 1) - Len(a) = j - 1
          BY <1>1, <2>1, <2>3, <4>2
        <5> QED BY <3>1, <5>1
      <4> QED BY <4>1, <4>2
    <3>4. g[j] = RoleStep(g[j - 1], b[j])
      BY <3>1
    <3> HIDE DEF h, j
    <3> QED BY <3>1, <3>2, <3>3, <3>4 DEF RoleAt
  <2> QED BY <1>1, <2>1, <2>2, <2>3
<1>6. h[Len(ab)] = g[Len(b)]
  <2>1. Len(ab) \in 1..(Len(a) + Len(b))
    BY <1>1, <1>2
  <2>2. CASE Len(b) = 0
    <3>1. Len(ab) = Len(a) /\ Len(ab) <= Len(a)
      BY <1>1, <1>2, <2>2
    <3>2. h[Len(ab)] = f[Len(a)]
      BY <2>1, <3>1
    <3> HIDE DEF h
    <3> QED BY <1>4, <2>2, <3>2
  <2>3. CASE Len(b) # 0
    <3>1. ~(Len(ab) <= Len(a)) /\ Len(ab) - Len(a) = Len(b)
      BY <1>1, <1>2, <2>3
    <3> QED BY <2>1, <3>1
  <2> QED BY <2>2, <2>3
<1> HIDE DEF h
<1>7. RoleStateAfter(ab) = h[Len(ab)]
  BY <1>3, <1>5, RolesUnique
<1> QED BY <1>6, <1>7 DEF ab

LEMMA RoleAppend ==
    ASSUME NEW msgs \in Seq(Message), msgs # << >>, NEW m \in Message
    PROVE  RoleStateAfter(Append(msgs, m)) = RoleStep(RoleStateAfter(msgs), m)
<1> DEFINE s == RoleStateAfter(msgs)
           b == <<m>>
           g == [j \in 0..1 |-> IF j = 0 THEN s ELSE RoleStep(s, m)]
<1>1. b \in Seq(Message) /\ Len(b) = 1 /\ b[1] = m
  OBVIOUS
<1>2. g[0] = s /\ g[1] = RoleStep(s, m)
  OBVIOUS
<1>3. Append(msgs, m) = msgs \o b
  BY AppendIsConcat
<1> HIDE DEF b, g
<1>4. \A j \in 1..Len(b) : g[j] = RoleStep(g[j - 1], b[j])
  BY <1>1, <1>2
<1>5. RoleStateAfter(msgs \o b) = g[Len(b)]
  BY <1>1, <1>2, <1>4, RoleConcat
<1> QED BY <1>1, <1>2, <1>3, <1>5

-----------------------------------------------------------------------------
(***************************************************************************)
(* Lists of messages put together.                                         *)
(***************************************************************************)
LEMMA ConcatParts ==
    ASSUME NEW a \in Seq(Message), NEW b \in Seq(Message)
    PROVE  /\ UsesOf(a \o b) = UsesOf(a) \cup UsesOf(b)
           /\ ResultsOf(a \o b) = ResultsOf(a) \cup ResultsOf(b)
           /\ \A id, p : UsedIn(a \o b, id, p) <=> UsedIn(a, id, p) \/ UsedIn(b, id, p)
           /\ \A id, p : AnsweredIn(a \o b, id, p) <=> AnsweredIn(a, id, p) \/ AnsweredIn(b, id, p)
           /\ NoSystem(a) /\ NoSystem(b) => NoSystem(a \o b)
<1> DEFINE ab == a \o b
<1>1. /\ \A i \in DOMAIN a : i \in DOMAIN ab /\ ab[i] = a[i]
      /\ \A i \in DOMAIN b : Len(a) + i \in DOMAIN ab /\ ab[Len(a) + i] = b[i]
      /\ \A k \in DOMAIN ab : k \in DOMAIN a \/ \E i \in DOMAIN b : k = Len(a) + i
  BY ConcatSplit
<1> HIDE DEF ab
<1>2. UsesOf(ab) = UsesOf(a) \cup UsesOf(b)
  BY <1>1 DEF UsesOf
<1>3. ResultsOf(ab) = ResultsOf(a) \cup ResultsOf(b)
  BY <1>1 DEF ResultsOf
<1>4. \A id, p : UsedIn(ab, id, p) <=> UsedIn(a, id, p) \/ UsedIn(b, id, p)
  BY <1>1 DEF UsedIn
<1>5. \A id, p : AnsweredIn(ab, id, p) <=> AnsweredIn(a, id, p) \/ AnsweredIn(b, id, p)
  BY <1>1 DEF AnsweredIn
<1>6. NoSystem(a) /\ NoSystem(b) => NoSystem(ab)
  BY <1>1 DEF NoSystem
<1> QED BY <1>2, <1>3, <1>4, <1>5, <1>6 DEF ab

LEMMA BlocksConcat ==
    ASSUME NEW a \in Seq(Message), NEW b \in Seq(Message), ValidBlocks(a), ValidBlocks(b),
           UsesOf(a) \cap UsesOf(b) = {}, ResultsOf(a) \cap ResultsOf(b) = {}
    PROVE  ValidBlocks(a \o b)
<1> DEFINE ab == a \o b
<1>1. /\ \A i \in DOMAIN a : i \in DOMAIN ab /\ ab[i] = a[i]
      /\ \A i \in DOMAIN b : Len(a) + i \in DOMAIN ab /\ ab[Len(a) + i] = b[i]
      /\ \A k \in DOMAIN ab : k \in DOMAIN a \/ \E i \in DOMAIN b : k = Len(a) + i
  BY ConcatSplit
<1> HIDE DEF ab
<1>2. ASSUME NEW i \in DOMAIN ab
      PROVE  /\ ab[i].wellFormed
             /\ ab[i].uses # << >> => ab[i].role = "assistant"
             /\ ab[i].results # << >> => ab[i].role = "tool"
             /\ NoRepetition(ab[i].uses)
             /\ NoRepetition(ab[i].results)
  <2>1. CASE i \in DOMAIN a
    BY <1>1, <2>1 DEF ValidBlocks
  <2>2. CASE \E j \in DOMAIN b : i = Len(a) + j
    BY <1>1, <2>2 DEF ValidBlocks
  <2> QED BY <1>1, <2>1, <2>2
<1>3. \A i \in DOMAIN a, j \in DOMAIN b :
         /\ Elements(a[i].uses) \cap Elements(b[j].uses) = {}
         /\ Elements(a[i].results) \cap Elements(b[j].results) = {}
  BY DEF UsesOf, ResultsOf
<1>4. ASSUME NEW i \in DOMAIN ab, NEW j \in DOMAIN ab, i # j
      PROVE  /\ Elements(ab[i].uses) \cap Elements(ab[j].uses) = {}
             /\ Elements(ab[i].results) \cap Elements(ab[j].results) = {}
  <2>1. CASE i \in DOMAIN a /\ j \in DOMAIN a
    <3>1. ab[i] = a[i] /\ ab[j] = a[j]
      BY <1>1, <2>1
    <3> QED BY <1>4, <2>1, <3>1 DEF ValidBlocks
  <2>2. CASE i \in DOMAIN a /\ \E k \in DOMAIN b : j = Len(a) + k
    <3>1. PICK k \in DOMAIN b : ab[i] = a[i] /\ ab[j] = b[k]
      BY <1>1, <2>2
    <3> QED BY <1>3, <2>2, <3>1
  <2>3. CASE j \in DOMAIN a /\ \E k \in DOMAIN b : i = Len(a) + k
    <3>1. PICK k \in DOMAIN b : ab[j] = a[j] /\ ab[i] = b[k]
      BY <1>1, <2>3
    <3> QED BY <1>3, <2>3, <3>1
  <2>4. CASE (\E k \in DOMAIN b : i = Len(a) + k) /\ (\E k \in DOMAIN b : j = Len(a) + k)
    <3>1. PICK k \in DOMAIN b : i = Len(a) + k /\ ab[i] = b[k]
      BY <1>1, <2>4
    <3>2. PICK l \in DOMAIN b : j = Len(a) + l /\ ab[j] = b[l]
      BY <1>1, <2>4
    <3>3. k # l
      BY <1>4, <3>1, <3>2
    <3> QED BY <3>1, <3>2, <3>3 DEF ValidBlocks
  <2> QED BY <1>1, <2>1, <2>2, <2>3, <2>4
<1>5. ValidBlocks(ab)
  BY <1>2, <1>4 DEF ValidBlocks
<1> QED BY <1>5 DEF ab

\* A message that the validator has nothing against.
PlainMessage(m) ==
    /\ m.role # "system" /\ m.wellFormed
    /\ m.uses # << >> => m.role = "assistant"
    /\ m.results # << >> => m.role = "tool"
    /\ NoRepetition(m.uses) /\ NoRepetition(m.results)

LEMMA OneMessage ==
    ASSUME NEW m \in Message, PlainMessage(m)
    PROVE  /\ <<m>> \in Seq(Message)
           /\ UsesOf(<<m>>) = Elements(m.uses) /\ ResultsOf(<<m>>) = Elements(m.results)
           /\ \A id, p : UsedIn(<<m>>, id, p) <=> id = m.id /\ p \in Elements(m.uses)
           /\ \A id, p : AnsweredIn(<<m>>, id, p) <=> id = m.id /\ p \in Elements(m.results)
           /\ NoSystem(<<m>>) /\ ValidBlocks(<<m>>)
<1> DEFINE one == <<m>>
<1>1. one \in Seq(Message) /\ DOMAIN one = {1} /\ one[1] = m
  OBVIOUS
<1> HIDE DEF one
<1>2. UsesOf(one) = Elements(m.uses) /\ ResultsOf(one) = Elements(m.results)
  BY <1>1 DEF UsesOf, ResultsOf
<1>3. /\ \A id, p : UsedIn(one, id, p) <=> id = m.id /\ p \in Elements(m.uses)
      /\ \A id, p : AnsweredIn(one, id, p) <=> id = m.id /\ p \in Elements(m.results)
  BY <1>1 DEF UsedIn, AnsweredIn
<1>4. NoSystem(one) /\ ValidBlocks(one)
  BY <1>1 DEF PlainMessage, NoSystem, ValidBlocks
<1> QED BY <1>1, <1>2, <1>3, <1>4 DEF one

\* The three message constructors build such messages.
LEMMA PlainMessages ==
    /\ \A m \in MsgIds : PlainMessage(UserMessage(m))
    /\ \A m \in MsgIds, r \in Responses :
          r.role = "assistant" /\ r.wellFormed /\ NoRepetition(r.uses)
             => PlainMessage(AssistantMessage(m, r))
    /\ \A m \in MsgIds, p \in ProvIds : PlainMessage(ToolMessage(m, p))
<1>1. NoRepetition(<< >>) /\ \A p : NoRepetition(<<p>>)
  BY DEF NoRepetition
<1>2. \A m \in MsgIds : PlainMessage(UserMessage(m))
  BY <1>1 DEF PlainMessage, UserMessage
<1>3. ASSUME NEW m \in MsgIds, NEW r \in Responses,
             r.role = "assistant", r.wellFormed, NoRepetition(r.uses)
      PROVE  PlainMessage(AssistantMessage(m, r))
  BY <1>1, <1>3 DEF PlainMessage, AssistantMessage
<1>4. \A m \in MsgIds, p \in ProvIds : PlainMessage(ToolMessage(m, p))
  BY <1>1 DEF PlainMessage, ToolMessage
<1> QED BY <1>2, <1>3, <1>4

\* The longer list has one message more.
GrowsBy(longer, msgs, m) ==
    /\ longer \in Seq(Message) /\ longer # << >> /\ Len(longer) = Len(msgs) + 1
    /\ longer[Len(longer)] = m
    /\ NoSystem(longer) /\ ValidBlocks(longer)
    /\ UsesOf(longer) = UsesOf(msgs) \cup Elements(m.uses)
    /\ ResultsOf(longer) = ResultsOf(msgs) \cup Elements(m.results)
    /\ \A id, p : UsedIn(longer, id, p) <=>
          UsedIn(msgs, id, p) \/ (id = m.id /\ p \in Elements(m.uses))
    /\ \A id, p : AnsweredIn(longer, id, p) <=>
          AnsweredIn(msgs, id, p) \/ (id = m.id /\ p \in Elements(m.results))

LEMMA Grown ==
    ASSUME NEW msgs \in Seq(Message), NEW m \in Message, PlainMessage(m),
           NoSystem(msgs), ValidBlocks(msgs),
           UsesOf(msgs) \cap Elements(m.uses) = {}, ResultsOf(msgs) \cap Elements(m.results) = {}
    PROVE  GrowsBy(Append(msgs, m), msgs, m)
<1> DEFINE b == <<m>>
           longer == Append(msgs, m)
<1>1. longer = msgs \o b
  BY AppendIsConcat
<1>2. /\ b \in Seq(Message)
      /\ UsesOf(b) = Elements(m.uses) /\ ResultsOf(b) = Elements(m.results)
      /\ \A id, p : UsedIn(b, id, p) <=> id = m.id /\ p \in Elements(m.uses)
      /\ \A id, p : AnsweredIn(b, id, p) <=> id = m.id /\ p \in Elements(m.results)
      /\ NoSystem(b) /\ ValidBlocks(b)
  BY OneMessage
<1>3. /\ longer \in Seq(Message) /\ longer # << >> /\ Len(longer) = Len(msgs) + 1
      /\ longer[Len(longer)] = m
  BY AppendType
<1> HIDE DEF b, longer
<1>4. NoSystem(longer) /\ ValidBlocks(longer)
  BY <1>1, <1>2, ConcatParts, BlocksConcat
<1>5. /\ UsesOf(longer) = UsesOf(msgs) \cup UsesOf(b)
      /\ ResultsOf(longer) = ResultsOf(msgs) \cup ResultsOf(b)
      /\ \A id, p : UsedIn(longer, id, p) <=> UsedIn(msgs, id, p) \/ UsedIn(b, id, p)
      /\ \A id, p : AnsweredIn(longer, id, p) <=> AnsweredIn(msgs, id, p) \/ AnsweredIn(b, id, p)
  BY <1>1, <1>2, ConcatParts
<1>6. GrowsBy(longer, msgs, m)
  BY <1>2, <1>3, <1>4, <1>5 DEF GrowsBy
<1> QED BY <1>6 DEF longer

-----------------------------------------------------------------------------
(***************************************************************************)
(* The draft fits, one lemma per operation.                                *)
(***************************************************************************)
LEMMA NoElements == Elements(<< >>) = {} /\ NoRepetition(<< >>)
BY DEF Elements, NoRepetition

LEMMA DraftBegin ==
    ASSUME PhaseInv, NEW t \in TurnIds, NEW m \in MsgIds, begin_turn(t, m)
    PROVE  DraftInv'
<1> DEFINE one == <<UserMessage(m)>>
<1>1. UserMessage(m) \in Message /\ PlainMessage(UserMessage(m)) /\ UserMessage(m).role = "user"
  BY MessageTypes, PlainMessages DEF UserMessage
<1>2. /\ UsesOf(one) = {} /\ ResultsOf(one) = {} /\ NoSystem(one) /\ ValidBlocks(one)
      /\ RoleStateAfter(one) = ExpectAssistant(FALSE)
  <2>1. /\ UserMessage(m).uses = << >> /\ UserMessage(m).results = << >>
    BY DEF UserMessage
  <2> QED BY <1>1, <2>1, OneMessage, RoleFirst, NoElements
<1>3. Len(one) = 1
  OBVIOUS
<1> HIDE DEF one
<1>4. /\ messages' = one /\ toolCalls' = << >> /\ unmapped' = << >>
      /\ phase' = "AwaitingAssistant" /\ raw' = raw
      /\ turnId' = t /\ parent' = tip_id /\ \A k \in DOMAIN raw : raw[k].id # t
  BY DEF begin_turn, history, one
<1> DEFINE none == << >>
<1>5. Linked(one, none, none)
  <2>1. DOMAIN none = {}
    OBVIOUS
  <2>2. Elements(none) = {} /\ NoRepetition(none)
    BY NoElements
  <2> HIDE DEF none
  <2>3. ProvIdsOf(none) = {} /\ DistinctProvs(none)
    BY <2>1 DEF ProvIdsOf, DistinctProvs
  <2> QED BY <1>2, <2>1, <2>2, <2>3 DEF Linked
<1>6. IsNext'
  BY <1>4 DEF IsNext, tip_id
<1>7. RoleStateAfter(one) = RoleState("AwaitingAssistant", one, << >>, << >>)
  BY <1>2, <1>3 DEF RoleState
<1> QED BY <1>2, <1>4, <1>5, <1>6, <1>7 DEF DraftInv, DraftFits

LEMMA DraftHeld ==
    ASSUME DraftInv,
           \/ start_assistant
           \/ \E r \in Responses : start_assistant_response(r)
           \/ push_assistant_event
           \/ \E m \in MsgIds, r \in Responses : FinishAssistantRejected(m, r)
    PROVE  DraftInv'
<1>1. /\ UNCHANGED <<history, draft>>
      /\ phase \in {"AwaitingAssistant", "AssistantInProgress"}
      /\ phase' = "AssistantInProgress"
  BY DEF start_assistant, start_assistant_response, push_assistant_event,
         FinishAssistantRejected
<1>2. RoleState(phase', messages, toolCalls, unmapped) = RoleState(phase, messages, toolCalls, unmapped)
  BY <1>1 DEF RoleState
<1>3. /\ messages' = messages /\ toolCalls' = toolCalls /\ unmapped' = unmapped
      /\ raw' = raw /\ turnId' = turnId /\ parent' = parent
  BY <1>1 DEF history, draft
<1>4. IsNext' = IsNext
  BY <1>3 DEF IsNext, tip_id
<1> QED BY <1>1, <1>2, <1>3, <1>4 DEF DraftInv, DraftFits

LEMMA DraftFinish ==
    ASSUME PhaseInv, DraftInv, NEW m \in MsgIds, NEW r \in Responses, finish_assistant(m, r)
    PROVE  DraftInv'
<1> DEFINE msg == AssistantMessage(m, r)
<1>1. /\ phase = "AssistantInProgress" /\ unmapped = << >>
      /\ messages \in Seq(Message) /\ messages # << >>
  BY DEF finish_assistant, PhaseInv, PhaseMatchesCalls, TurnTypeOK
<1>2. DraftFits
  BY <1>1 DEF DraftInv
<1>3. /\ messages' = Append(messages, msg) /\ toolCalls' = toolCalls /\ unmapped' = r.uses
      /\ phase' = IF r.uses = << >> THEN "ReadyToCommit" ELSE "AwaitingToolCallMappings"
      /\ raw' = raw /\ turnId' = turnId /\ parent' = parent
      /\ r.role = "assistant" /\ r.wellFormed /\ NoRepetition(r.uses)
      /\ Elements(r.uses) \cap ProvIdsOf(toolCalls) = {}
  BY DEF finish_assistant, history, validate_assistant_blocks
<1>4. /\ msg \in Message /\ PlainMessage(msg) /\ msg.role = "assistant"
      /\ msg.uses = r.uses /\ msg.results = << >> /\ msg.id = m
  BY <1>3, MessageTypes, PlainMessages DEF AssistantMessage
<1> HIDE DEF msg
<1>5. UsesOf(messages) \cap Elements(msg.uses) = {} /\ Elements(msg.results) = {}
  BY <1>1, <1>2, <1>3, <1>4, NoElements DEF DraftFits, Linked
<1>6. /\ NoSystem(messages') /\ ValidBlocks(messages') /\ messages'[Len(messages')] = msg
      /\ UsesOf(messages') = UsesOf(messages) \cup Elements(r.uses)
      /\ ResultsOf(messages') = ResultsOf(messages)
      /\ \A id, p : UsedIn(messages, id, p) => UsedIn(messages', id, p)
      /\ \A id, p : AnsweredIn(messages, id, p) => AnsweredIn(messages', id, p)
  <2>1. NoSystem(messages) /\ ValidBlocks(messages) /\ ResultsOf(messages) \cap Elements(msg.results) = {}
    BY <1>2, <1>5 DEF DraftFits
  <2>2. GrowsBy(Append(messages, msg), messages, msg)
    BY <1>1, <1>4, <1>5, <2>1, Grown
  <2>3. GrowsBy(messages', messages, msg)
    BY <1>3, <2>2
  <2> QED BY <1>4, <1>5, <2>3 DEF GrowsBy
<1>7. Linked(messages', toolCalls', unmapped')
  <2>1. Linked(messages, toolCalls, << >>)
    BY <1>1, <1>2 DEF DraftFits
  <2>2. Elements(messages'[Len(messages')].uses) = Elements(r.uses)
    BY <1>4, <1>6
  <2> QED BY <1>3, <1>6, <2>1, <2>2, NoElements DEF Linked
<1>8. RoleStateAfter(messages') = RoleState(phase', messages', toolCalls', unmapped')
  <2> DEFINE s == RoleStateAfter(messages)
  <2>1. s = ExpectAssistant(FALSE) \/ s = ExpectAssistant(TRUE)
    BY <1>1, <1>2 DEF DraftFits, RoleState
  <2>2. s.tag = "ExpectAssistant"
    BY <2>1 DEF ExpectAssistant
  <2>3. RoleStateAfter(messages') = RoleStep(s, msg)
    BY <1>1, <1>3, <1>4, RoleAppend
  <2> HIDE DEF s
  <2>4. RoleStep(s, msg) = IF r.uses = << >> THEN Closed ELSE AwaitToolResults(Elements(r.uses))
    BY <1>4, <2>2 DEF RoleStep
  <2> QED BY <1>3, <2>3, <2>4 DEF RoleState
<1>9. IsNext'
  BY <1>2, <1>3 DEF DraftFits, IsNext, tip_id
<1> QED BY <1>6, <1>7, <1>8, <1>9 DEF DraftInv, DraftFits

\* Calls put behind others.
LEMMA ConcatCalls ==
    ASSUME NEW a \in Seq(ToolCall), NEW b \in Seq(ToolCall)
    PROVE  /\ ProvIdsOf(a \o b) = ProvIdsOf(a) \cup ProvIdsOf(b)
           /\ OpenProvs(a \o b) = OpenProvs(a) \cup OpenProvs(b)
           /\ AnsweredProvs(a \o b) = AnsweredProvs(a) \cup AnsweredProvs(b)
           /\ \A k \in DOMAIN (a \o b) : \/ \E i \in DOMAIN a : (a \o b)[k] = a[i]
                                         \/ \E i \in DOMAIN b : (a \o b)[k] = b[i]
           /\ DistinctProvs(a) /\ DistinctProvs(b) /\ ProvIdsOf(a) \cap ProvIdsOf(b) = {}
                 => DistinctProvs(a \o b)
<1> DEFINE all == a \o b
<1>1. /\ \A i \in DOMAIN a : i \in DOMAIN all /\ all[i] = a[i]
      /\ \A i \in DOMAIN b : Len(a) + i \in DOMAIN all /\ all[Len(a) + i] = b[i]
      /\ \A k \in DOMAIN all : k \in DOMAIN a \/ \E i \in DOMAIN b : k = Len(a) + i
  BY ConcatSplit
<1> HIDE DEF all
<1>2. ProvIdsOf(all) = ProvIdsOf(a) \cup ProvIdsOf(b)
  BY <1>1 DEF ProvIdsOf
<1>3. OpenProvs(all) = OpenProvs(a) \cup OpenProvs(b)
  BY <1>1 DEF OpenProvs
<1>4. AnsweredProvs(all) = AnsweredProvs(a) \cup AnsweredProvs(b)
  BY <1>1 DEF AnsweredProvs
<1>5. ASSUME DistinctProvs(a), DistinctProvs(b), ProvIdsOf(a) \cap ProvIdsOf(b) = {}
      PROVE  DistinctProvs(all)
  <2>1. \A i \in DOMAIN a, j \in DOMAIN b : a[i].prov # b[j].prov
    BY <1>5 DEF ProvIdsOf
  <2> QED BY <1>1, <1>5, <2>1 DEF DistinctProvs
<1>6. \A k \in DOMAIN all : \/ \E i \in DOMAIN a : all[k] = a[i]
                            \/ \E i \in DOMAIN b : all[k] = b[i]
  BY <1>1
<1> QED BY <1>2, <1>3, <1>4, <1>5, <1>6 DEF all

\* The calls of tool uses that get their call ids: in the last message, with a
\* result there or none.
LEMMA NewCalls ==
    ASSUME NEW unm \in Seq(ProvIds), NoRepetition(unm), NEW id, NEW added \in Seq(ToolCall),
           DOMAIN added = DOMAIN unm,
           \A i \in DOMAIN unm : added[i].prov = unm[i] /\ added[i].callMsg = id
    PROVE  /\ ProvIdsOf(added) = Elements(unm)
           /\ DistinctProvs(added)
           /\ (\A i \in DOMAIN added : added[i].resultMsg = NoMsg)
                 => OpenProvs(added) = Elements(unm) /\ AnsweredProvs(added) = {}
           /\ (\A i \in DOMAIN added : added[i].resultMsg # NoMsg)
                 => AnsweredProvs(added) = Elements(unm) /\ OpenProvs(added) = {}
<1>1. ProvIdsOf(added) = Elements(unm)
  BY DEF ProvIdsOf, Elements
<1>2. DistinctProvs(added)
  BY DEF NoRepetition, DistinctProvs
<1>3. ASSUME \A i \in DOMAIN added : added[i].resultMsg = NoMsg
      PROVE  OpenProvs(added) = Elements(unm) /\ AnsweredProvs(added) = {}
  BY <1>3 DEF OpenProvs, AnsweredProvs, Elements
<1>4. ASSUME \A i \in DOMAIN added : added[i].resultMsg # NoMsg
      PROVE  AnsweredProvs(added) = Elements(unm) /\ OpenProvs(added) = {}
  BY <1>4 DEF OpenProvs, AnsweredProvs, Elements
<1> QED BY <1>1, <1>2, <1>3, <1>4

LEMMA DraftRegister ==
    ASSUME PhaseInv, DraftInv, NEW callOf \in [Elements(unmapped) -> CallIds],
           register_tool_calls(callOf)
    PROVE  DraftInv'
<1> DEFINE last == messages[Len(messages)]
           added == [i \in 1..Len(unmapped) |->
              [call |-> callOf[unmapped[i]], prov |-> unmapped[i],
               callMsg |-> last.id, resultMsg |-> NoMsg]]
<1>1. /\ Len(unmapped) \in Nat /\ DOMAIN unmapped = 1..Len(unmapped)
      /\ unmapped \in Seq(ProvIds) /\ NoRepetition(unmapped)
      /\ \A i \in 1..Len(unmapped) : unmapped[i] \in ProvIds /\ unmapped[i] \in Elements(unmapped)
      /\ Elements(unmapped) \cap ProvIdsOf(toolCalls) = {}
  BY ElementTypes DEF PhaseInv, TurnTypeOK, Elements, register_tool_calls
<1>2. /\ messages \in Seq(Message) /\ messages # << >> /\ toolCalls \in Seq(ToolCall)
      /\ phase = "AwaitingToolCallMappings" /\ open_calls = {}
  BY DEF register_tool_calls, PhaseInv, PhaseMatchesCalls, TurnTypeOK
<1>3. last \in Message /\ last.id \in MsgIds /\ Len(messages) \in DOMAIN messages
  <2>1. last \in Message /\ Len(messages) \in DOMAIN messages
    BY <1>2, SeqElements
  <2> QED BY <2>1 DEF Message
<1>4. DraftFits
  BY <1>2 DEF DraftInv
<1> HIDE DEF last
<1>5. \A i \in 1..Len(unmapped) : added[i] \in ToolCall /\ added[i].prov = unmapped[i]
                                  /\ added[i].callMsg = last.id /\ added[i].resultMsg = NoMsg
  BY <1>1, <1>3 DEF ToolCall
<1>6. added \in Seq(ToolCall) /\ DOMAIN added = DOMAIN unmapped
  BY <1>1, <1>5
<1>7. /\ toolCalls' = toolCalls \o added /\ raw' = raw /\ messages' = messages
      /\ turnId' = turnId /\ parent' = parent /\ unmapped' = << >>
      /\ phase' = "AwaitingToolResults"
  BY DEF register_tool_calls, history, last
<1> HIDE DEF added
<1>8. /\ ProvIdsOf(added) = Elements(unmapped)
      /\ DistinctProvs(added)
      /\ OpenProvs(added) = Elements(unmapped) /\ AnsweredProvs(added) = {}
  <2>1. /\ \A i \in DOMAIN unmapped : added[i].prov = unmapped[i] /\ added[i].callMsg = last.id
        /\ \A i \in DOMAIN added : added[i].resultMsg = NoMsg
    BY <1>1, <1>5, <1>6
  <2> QED BY <1>1, <1>6, <2>1, NewCalls
<1>9. OpenProvs(toolCalls) = {}
  BY <1>2 DEF OpenProvs, open_calls
<1>10. /\ ProvIdsOf(toolCalls') = ProvIdsOf(toolCalls) \cup Elements(unmapped)
       /\ OpenProvs(toolCalls') = Elements(unmapped)
       /\ AnsweredProvs(toolCalls') = AnsweredProvs(toolCalls)
       /\ \A k \in DOMAIN toolCalls' : \/ \E i \in DOMAIN toolCalls : toolCalls'[k] = toolCalls[i]
                                       \/ \E i \in DOMAIN added : toolCalls'[k] = added[i]
       /\ DistinctProvs(toolCalls')
  <2> DEFINE all == toolCalls \o added
  <2>1. DistinctProvs(toolCalls)
    BY <1>4 DEF DraftFits, Linked
  <2>2. ProvIdsOf(toolCalls) \cap ProvIdsOf(added) = {}
    BY <1>1, <1>8
  <2>3. /\ ProvIdsOf(all) = ProvIdsOf(toolCalls) \cup ProvIdsOf(added)
        /\ OpenProvs(all) = OpenProvs(toolCalls) \cup OpenProvs(added)
        /\ AnsweredProvs(all) = AnsweredProvs(toolCalls) \cup AnsweredProvs(added)
        /\ \A k \in DOMAIN all : \/ \E i \in DOMAIN toolCalls : all[k] = toolCalls[i]
                                 \/ \E i \in DOMAIN added : all[k] = added[i]
        /\ DistinctProvs(toolCalls) /\ DistinctProvs(added)
              /\ ProvIdsOf(toolCalls) \cap ProvIdsOf(added) = {} => DistinctProvs(all)
    BY <1>2, <1>6, ConcatCalls
  <2>4. toolCalls' = all
    BY <1>7
  <2> HIDE DEF all
  <2> QED BY <1>8, <1>9, <2>1, <2>2, <2>3, <2>4
<1>11. \A i \in DOMAIN added : UsedIn(messages, added[i].callMsg, added[i].prov)
  <2>1. Elements(unmapped) \subseteq Elements(last.uses)
    BY <1>4 DEF DraftFits, Linked, last
  <2> QED BY <1>1, <1>3, <1>5, <1>6, <2>1 DEF UsedIn, last
<1>12. Linked(messages', toolCalls', unmapped')
  <2>1. Linked(messages, toolCalls, unmapped)
    BY <1>4 DEF DraftFits
  <2>2. \A k \in DOMAIN toolCalls' : UsedIn(messages, toolCalls'[k].callMsg, toolCalls'[k].prov)
    BY <1>10, <1>11, <2>1 DEF Linked
  <2>3. \A k \in DOMAIN toolCalls' : toolCalls'[k].resultMsg # NoMsg =>
           AnsweredIn(messages, toolCalls'[k].resultMsg, toolCalls'[k].prov)
    BY <1>1, <1>5, <1>6, <1>10, <2>1 DEF Linked
  <2>4. /\ UsesOf(messages) \subseteq ProvIdsOf(toolCalls')
        /\ ResultsOf(messages) \subseteq AnsweredProvs(toolCalls')
    BY <1>10, <2>1 DEF Linked
  <2> QED BY <1>7, <1>10, <2>2, <2>3, <2>4, NoElements DEF Linked
<1>13. RoleStateAfter(messages') = RoleState(phase', messages', toolCalls', unmapped')
  BY <1>2, <1>4, <1>7, <1>10 DEF DraftFits, RoleState
<1>14. IsNext'
  BY <1>4, <1>7 DEF DraftFits, IsNext, tip_id
<1> QED BY <1>4, <1>7, <1>12, <1>13, <1>14 DEF DraftInv, DraftFits

\* The role state behind a result for p, while the calls waiting are awaited.
AfterResult(waiting, p) ==
    IF waiting \ {p} = {} THEN ExpectAssistant(TRUE) ELSE AwaitToolResults(waiting \ {p})

\* A tool result while results are awaited.
LEMMA ResultStep ==
    ASSUME NEW waiting, NEW p \in waiting, NEW m
    PROVE  RoleStep(AwaitToolResults(waiting), ToolMessage(m, p)) = AfterResult(waiting, p)
<1> DEFINE msg == ToolMessage(m, p)
           s == AwaitToolResults(waiting)
<1>1. /\ msg.role = "tool" /\ msg.results # << >> /\ Elements(msg.results) = {p}
  <2>1. msg.results = <<p>> /\ msg.role = "tool"
    BY DEF ToolMessage
  <2>2. Elements(<<p>>) = {p}
    BY DEF Elements
  <2> QED BY <2>1, <2>2
<1>2. s.tag = "AwaitToolResults" /\ s.open = waiting
  BY DEF AwaitToolResults
<1> HIDE DEF msg, s
<1>3. RoleStep(s, msg) = RoleAfterResults(waiting, msg)
  BY <1>1, <1>2 DEF RoleStep
<1>4. RoleAfterResults(waiting, msg) = AfterResult(waiting, p)
  BY <1>1 DEF RoleAfterResults, AfterResult
<1> QED BY <1>3, <1>4 DEF msg, s

\* A tool result behind a list that awaits results.
LEMMA RoleResult ==
    ASSUME NEW msgs \in Seq(Message), msgs # << >>, NEW waiting, NEW p \in waiting, p \in ProvIds,
           NEW m \in MsgIds, RoleStateAfter(msgs) = AwaitToolResults(waiting)
    PROVE  RoleStateAfter(Append(msgs, ToolMessage(m, p))) = AfterResult(waiting, p)
<1> DEFINE msg == ToolMessage(m, p)
           s == AwaitToolResults(waiting)
<1>1. RoleStep(s, msg) = AfterResult(waiting, p) /\ msg \in Message
  BY ResultStep, MessageTypes
<1> HIDE DEF msg, s
<1>2. RoleStateAfter(Append(msgs, msg)) = RoleStep(s, msg)
  BY <1>1, RoleAppend DEF s
<1> QED BY <1>1, <1>2 DEF msg

LEMMA DraftToolResult ==
    ASSUME PhaseInv, DraftInv, NEW m \in MsgIds, NEW p \in ProvIds, append_tool_result(m, p)
    PROVE  DraftInv'
<1> DEFINE msg == ToolMessage(m, p)
<1>1. PICK i \in open_calls :
         /\ toolCalls[i].prov = p
         /\ toolCalls' = [toolCalls EXCEPT ![i] = Answered(toolCalls[i], m)]
         /\ phase' = IF open_calls = {i} THEN "AwaitingAssistant" ELSE phase
  BY DEF append_tool_result
<1>2. /\ phase = "AwaitingToolResults" /\ unmapped = << >> /\ unmapped' = unmapped
      /\ messages \in Seq(Message) /\ messages # << >>
      /\ messages' = Append(messages, msg)
      /\ raw' = raw /\ turnId' = turnId /\ parent' = parent
  BY DEF append_tool_result, PhaseInv, PhaseMatchesCalls, TurnTypeOK, history
<1>3. DraftFits
  BY <1>2 DEF DraftInv
<1>4. /\ DOMAIN toolCalls' = DOMAIN toolCalls
      /\ \A k \in DOMAIN toolCalls :
            toolCalls'[k] = IF k = i THEN Answered(toolCalls[i], m) ELSE toolCalls[k]
      /\ open_calls' = open_calls \ {i}
  BY <1>1, AnsweredCalls DEF PhaseInv
<1>5. /\ \A k \in DOMAIN toolCalls : /\ toolCalls'[k].prov = toolCalls[k].prov
                                     /\ toolCalls'[k].callMsg = toolCalls[k].callMsg
                                     /\ k # i => toolCalls'[k].resultMsg = toolCalls[k].resultMsg
      /\ toolCalls'[i].resultMsg = m /\ m # NoMsg
      /\ i \in DOMAIN toolCalls /\ toolCalls[i].resultMsg = NoMsg
  BY <1>1, <1>4, AbsentAssumption DEF Answered, open_calls
<1>6. DistinctProvs(toolCalls)
  BY <1>3 DEF DraftFits, Linked
<1>7. /\ ProvIdsOf(toolCalls') = ProvIdsOf(toolCalls)
      /\ DistinctProvs(toolCalls')
      /\ p \in OpenProvs(toolCalls) /\ p \notin AnsweredProvs(toolCalls)
      /\ OpenProvs(toolCalls') = OpenProvs(toolCalls) \ {p}
      /\ AnsweredProvs(toolCalls') = AnsweredProvs(toolCalls) \cup {p}
      /\ OpenProvs(toolCalls') = {} <=> open_calls = {i}
  <2>1. ProvIdsOf(toolCalls') = ProvIdsOf(toolCalls)
    BY <1>4, <1>5 DEF ProvIdsOf
  <2>2. DistinctProvs(toolCalls')
    BY <1>4, <1>5, <1>6 DEF DistinctProvs
  <2>3. p \in OpenProvs(toolCalls)
    BY <1>1, <1>5 DEF OpenProvs
  <2>4. p \notin AnsweredProvs(toolCalls)
    BY <1>1, <1>5, <1>6 DEF AnsweredProvs, DistinctProvs
  <2>5. OpenProvs(toolCalls') = OpenProvs(toolCalls) \ {p}
    BY <1>1, <1>4, <1>5, <1>6 DEF OpenProvs, DistinctProvs
  <2>6. AnsweredProvs(toolCalls') = AnsweredProvs(toolCalls) \cup {p}
    BY <1>1, <1>4, <1>5 DEF AnsweredProvs
  <2>7. OpenProvs(toolCalls') = {} <=> open_calls' = {}
    BY DEF OpenProvs, open_calls
  <2> QED BY <1>1, <1>4, <2>1, <2>2, <2>3, <2>4, <2>5, <2>6, <2>7
<1>8. /\ msg \in Message /\ PlainMessage(msg) /\ msg.id = m
      /\ Elements(msg.uses) = {} /\ Elements(msg.results) = {p}
  <2>1. msg.uses = << >> /\ msg.results = <<p>> /\ msg.id = m
    BY DEF ToolMessage
  <2>2. Elements(<<p>>) = {p}
    BY DEF Elements
  <2> QED BY <2>1, <2>2, MessageTypes, PlainMessages, NoElements
<1> HIDE DEF msg
<1>9. GrowsBy(messages', messages, msg)
  <2>1. NoSystem(messages) /\ ValidBlocks(messages) /\ ResultsOf(messages) \subseteq AnsweredProvs(toolCalls)
    BY <1>3 DEF DraftFits, Linked
  <2>2. /\ UsesOf(messages) \cap Elements(msg.uses) = {}
        /\ ResultsOf(messages) \cap Elements(msg.results) = {}
    BY <1>7, <1>8, <2>1
  <2>3. GrowsBy(Append(messages, msg), messages, msg)
    BY <1>2, <1>8, <2>1, <2>2, Grown
  <2> QED BY <1>2, <2>3
<1>10. Linked(messages', toolCalls', unmapped')
  <2>1. Linked(messages, toolCalls, << >>)
    BY <1>2, <1>3 DEF DraftFits
  <2>2. \A k \in DOMAIN toolCalls' : UsedIn(messages', toolCalls'[k].callMsg, toolCalls'[k].prov)
    BY <1>4, <1>5, <1>9, <2>1 DEF Linked, GrowsBy
  <2>3. \A k \in DOMAIN toolCalls' : toolCalls'[k].resultMsg # NoMsg =>
           AnsweredIn(messages', toolCalls'[k].resultMsg, toolCalls'[k].prov)
    BY <1>1, <1>4, <1>5, <1>8, <1>9, <2>1 DEF Linked, GrowsBy
  <2>4. /\ UsesOf(messages') \subseteq ProvIdsOf(toolCalls')
        /\ ResultsOf(messages') \subseteq AnsweredProvs(toolCalls')
    BY <1>7, <1>8, <1>9, <2>1, NoElements DEF Linked, GrowsBy
  <2> QED BY <1>2, <1>7, <2>2, <2>3, <2>4, NoElements DEF Linked
<1>11. RoleStateAfter(messages') = RoleState(phase', messages', toolCalls', unmapped')
  <2> DEFINE waiting == OpenProvs(toolCalls)
  <2>1. RoleStateAfter(messages) = AwaitToolResults(waiting)
    BY <1>2, <1>3 DEF DraftFits, RoleState
  <2> HIDE DEF waiting
  <2>2. p \in waiting
    BY <1>7 DEF waiting
  <2>3. RoleStateAfter(Append(messages, ToolMessage(m, p))) = AfterResult(waiting, p)
    BY <1>2, <2>1, <2>2, RoleResult
  <2>4. RoleStateAfter(messages') = AfterResult(waiting, p)
    BY <1>2, <2>3 DEF msg
  <2>5. Len(messages') # 1
    <3>1. Len(messages) \in Nat /\ Len(messages) # 0
      BY <1>2, SeqElements
    <3> QED BY <1>9, <3>1 DEF GrowsBy
  <2> QED BY <1>1, <1>2, <1>7, <2>4, <2>5 DEF RoleState, AfterResult, waiting
<1>12. IsNext'
  BY <1>2, <1>3 DEF DraftFits, IsNext, tip_id
<1> QED BY <1>9, <1>10, <1>11, <1>12 DEF DraftInv, DraftFits, GrowsBy

LEMMA DraftInject ==
    ASSUME PhaseInv, DraftInv, NEW m \in MsgIds, inject_user_message(m)
    PROVE  DraftInv'
<1> DEFINE msg == UserMessage(m)
<1>1. /\ phase = "AwaitingAssistant" /\ phase' = phase /\ unmapped' = unmapped
      /\ messages \in Seq(Message) /\ messages # << >> /\ unmapped = << >>
      /\ messages' = Append(messages, msg) /\ toolCalls' = toolCalls
      /\ raw' = raw /\ turnId' = turnId /\ parent' = parent
  BY DEF inject_user_message, PhaseInv, PhaseMatchesCalls, TurnTypeOK, history
<1>2. DraftFits
  BY <1>1 DEF DraftInv
<1>3. Len(messages) \in Nat /\ Len(messages) # 1 /\ Len(messages) # 0
  <2>1. Len(messages) \in Nat /\ DOMAIN messages = 1..Len(messages) /\ Len(messages) # 0
    BY <1>1, SeqElements
  <2>2. PICK a \in DOMAIN messages : \E k \in DOMAIN messages : k > a
    BY DEF inject_user_message, is_after_closed_tool_result_step
  <2> QED BY <2>1, <2>2
<1>4. /\ msg \in Message /\ PlainMessage(msg) /\ msg.role = "user"
      /\ Elements(msg.uses) = {} /\ Elements(msg.results) = {}
  <2>1. msg.uses = << >> /\ msg.results = << >> /\ msg.role = "user"
    BY DEF UserMessage
  <2> QED BY <2>1, MessageTypes, PlainMessages, NoElements
<1> HIDE DEF msg
<1>5. GrowsBy(messages', messages, msg)
  <2>1. NoSystem(messages) /\ ValidBlocks(messages)
    BY <1>2 DEF DraftFits
  <2>2. GrowsBy(Append(messages, msg), messages, msg)
    BY <1>1, <1>4, <2>1, Grown
  <2> QED BY <1>1, <2>2
<1>6. Linked(messages', toolCalls', unmapped')
  <2>1. Linked(messages, toolCalls, << >>)
    BY <1>1, <1>2 DEF DraftFits
  <2> QED BY <1>1, <1>4, <1>5, <2>1, NoElements DEF Linked, GrowsBy
<1>7. RoleStateAfter(messages') = RoleState(phase', messages', toolCalls', unmapped')
  <2> DEFINE s == ExpectAssistant(TRUE)
  <2>1. RoleStateAfter(messages) = s
    BY <1>1, <1>2, <1>3 DEF DraftFits, RoleState
  <2>2. s.tag = "ExpectAssistant" /\ s.injectable
    BY DEF ExpectAssistant
  <2> HIDE DEF s
  <2>3. RoleStep(s, msg) = s
    BY <1>4, <2>2 DEF RoleStep
  <2>4. RoleStateAfter(messages') = s
    BY <1>1, <1>4, <2>1, <2>3, RoleAppend
  <2>5. Len(messages') # 1
    BY <1>3, <1>5 DEF GrowsBy
  <2> QED BY <1>1, <2>4, <2>5 DEF RoleState, s
<1>8. IsNext'
  BY <1>1, <1>2 DEF DraftFits, IsNext, tip_id
<1> QED BY <1>5, <1>6, <1>7, <1>8 DEF DraftInv, DraftFits, GrowsBy

-----------------------------------------------------------------------------
(***************************************************************************)
(* A cancelled draft fits.                                                 *)
(***************************************************************************)

\* The synthetic results answer each awaited call once.
LEMMA RoleCancelled ==
    ASSUME NEW msgs \in Seq(Message), msgs # << >>,
           NEW provs \in Seq(ProvIds), NoRepetition(provs), Elements(provs) # {},
           NEW msgOf \in [Elements(provs) -> MsgIds],
           RoleStateAfter(msgs) = AwaitToolResults(Elements(provs))
    PROVE  RoleStateAfter(msgs \o CancelledMessages(provs, msgOf)) = ExpectAssistant(TRUE)
<1> DEFINE b == CancelledMessages(provs, msgOf)
           n == Len(provs)
           Left(j) == {provs[i] : i \in (j + 1)..n}
           g == [j \in 0..n |-> IF j = n THEN ExpectAssistant(TRUE) ELSE AwaitToolResults(Left(j))]
<1>1. /\ n \in Nat /\ DOMAIN provs = 1..n /\ n # 0
      /\ \A i \in 1..n : provs[i] \in ProvIds /\ provs[i] \in Elements(provs)
  <2>1. n \in Nat /\ DOMAIN provs = 1..n /\ \A i \in 1..n : provs[i] \in ProvIds
    BY SeqElements
  <2> QED BY <2>1 DEF Elements
<1>2. b \in Seq(Message) /\ Len(b) = n
  BY CancelledMessagesType
<1>3. \A j \in 1..n : b[j] = ToolMessage(msgOf[provs[j]], provs[j])
  BY <1>1 DEF CancelledMessages
<1> HIDE DEF b
<1>4. Left(0) = Elements(provs)
  BY <1>1 DEF Elements
<1>5. ASSUME NEW j \in 1..n
      PROVE  /\ provs[j] \in Left(j - 1) /\ Left(j - 1) \ {provs[j]} = Left(j)
             /\ Left(j) = {} <=> j = n
  <2>1. (j - 1) + 1 = j /\ j \in Nat
    BY <1>1
  <2>2. \A i \in 1..n : i \in j..n <=> i = j \/ i \in (j + 1)..n
    BY <1>1
  <2>3. Left(j - 1) = {provs[i] : i \in j..n} /\ j \in j..n
    BY <1>1, <2>1
  <2>4. \A i \in (j + 1)..n : i \in 1..n /\ provs[i] # provs[j]
    BY <1>1 DEF NoRepetition
  <2>5. Left(j - 1) \ {provs[j]} = Left(j)
    BY <1>1, <2>2, <2>3, <2>4
  <2>6. Left(j) = {} <=> j = n
    <3>1. CASE j = n
      <4>1. (j + 1)..n = {}
        BY <1>1, <3>1
      <4>2. Left(j) = {}
        BY <4>1, Zenon
      <4> QED BY <3>1, <4>2
    <3>2. CASE j # n
      <4> HIDE DEF g, n, Left
      <4>1. j + 1 \in (j + 1)..n
        <5>1. j \in Nat /\ j <= n /\ j # n
          BY <1>1, <3>2
        <5> QED BY <1>1, <5>1
      <4>2. provs[j + 1] \in Left(j)
        BY <4>1 DEF Left
      <4> QED BY <3>2, <4>2
    <3> QED BY <3>1, <3>2
  <2> QED BY <2>3, <2>5, <2>6
<1>6. g[0] = RoleStateAfter(msgs)
  <2>1. 0 \in 0..n /\ 0 # n
    BY <1>1
  <2>2. g[0] = AwaitToolResults(Left(0))
    BY <2>1
  <2> HIDE DEF g, Left
  <2> QED BY <1>4, <2>2
<1>7. ASSUME NEW j \in 1..n PROVE g[j] = RoleStep(g[j - 1], b[j])
  <2>1. j - 1 \in 0..n /\ j - 1 # n /\ j \in 0..n
    BY <1>1
  <2>2. g[j - 1] = AwaitToolResults(Left(j - 1))
    BY <2>1
  <2>3. g[j] = IF Left(j) = {} THEN ExpectAssistant(TRUE) ELSE AwaitToolResults(Left(j))
    BY <1>5, <2>1
  <2> DEFINE before == Left(j - 1)
             after == Left(j)
  <2>4. provs[j] \in before /\ before \ {provs[j]} = after
    BY <1>5
  <2> HIDE DEF g, Left, before, after
  <2>5. RoleStep(AwaitToolResults(before), b[j]) = AfterResult(before, provs[j])
    BY <1>3, <2>4, ResultStep
  <2>6. AfterResult(before, provs[j]) = IF after = {} THEN ExpectAssistant(TRUE) ELSE AwaitToolResults(after)
    BY <2>4 DEF AfterResult
  <2> QED BY <2>2, <2>3, <2>5, <2>6 DEF before, after
<1>8. g[n] = ExpectAssistant(TRUE)
  BY <1>1
<1> HIDE DEF g
<1>9. RoleStateAfter(msgs \o b) = g[Len(b)]
  BY <1>2, <1>6, <1>7, RoleConcat
<1> QED BY <1>2, <1>8, <1>9 DEF b

\* The synthetic results as messages.
LEMMA CancelledParts ==
    ASSUME NEW provs \in Seq(ProvIds), NoRepetition(provs),
           NEW msgOf \in [Elements(provs) -> MsgIds]
    PROVE  /\ NoSystem(CancelledMessages(provs, msgOf))
           /\ ValidBlocks(CancelledMessages(provs, msgOf))
           /\ UsesOf(CancelledMessages(provs, msgOf)) = {}
           /\ ResultsOf(CancelledMessages(provs, msgOf)) = Elements(provs)
           /\ \A p \in Elements(provs) : AnsweredIn(CancelledMessages(provs, msgOf), msgOf[p], p)
<1> DEFINE b == CancelledMessages(provs, msgOf)
<1>1. DOMAIN b = DOMAIN provs
  BY DEF CancelledMessages
<1>2. \A i \in DOMAIN provs : b[i] = ToolMessage(msgOf[provs[i]], provs[i])
  BY DEF CancelledMessages
<1> HIDE DEF b
<1>3. \A i \in DOMAIN provs :
         /\ b[i].id = msgOf[provs[i]] /\ b[i].role = "tool" /\ b[i].uses = << >>
         /\ b[i].results = <<provs[i]>> /\ PlainMessage(b[i])
  <2>1. \A i \in DOMAIN provs : provs[i] \in ProvIds /\ msgOf[provs[i]] \in MsgIds
    BY SeqElements DEF Elements
  <2>2. \A i \in DOMAIN provs : PlainMessage(b[i])
    BY <1>2, <2>1, PlainMessages
  <2>3. \A i \in DOMAIN provs :
           /\ b[i].id = msgOf[provs[i]] /\ b[i].role = "tool" /\ b[i].uses = << >>
           /\ b[i].results = <<provs[i]>>
    <3>1. \A id, p : /\ ToolMessage(id, p).id = id /\ ToolMessage(id, p).role = "tool"
                     /\ ToolMessage(id, p).uses = << >> /\ ToolMessage(id, p).results = <<p>>
      BY DEF ToolMessage
    <3> QED BY <1>2, <3>1
  <2> QED BY <2>2, <2>3
<1>4. \A p : Elements(<<p>>) = {p}
  BY DEF Elements
<1>5. \A i \in DOMAIN b : Elements(b[i].uses) = {} /\ Elements(b[i].results) = {provs[i]}
  BY <1>1, <1>3, <1>4, NoElements
<1>6. UsesOf(b) = {} /\ ResultsOf(b) = Elements(provs)
  <2>1. UsesOf(b) = {}
    BY <1>5 DEF UsesOf
  <2>2. \A x : x \in ResultsOf(b) <=> \E i \in DOMAIN b : x \in Elements(b[i].results)
    BY DEF ResultsOf
  <2>3. \A x : x \in Elements(provs) <=> \E i \in DOMAIN provs : x = provs[i]
    BY DEF Elements
  <2>4. \A x : x \in ResultsOf(b) <=> x \in Elements(provs)
    <3> SUFFICES ASSUME NEW x PROVE x \in ResultsOf(b) <=> x \in Elements(provs)
      OBVIOUS
    <3>1. \A i \in DOMAIN b : x \in Elements(b[i].results) <=> x = provs[i]
      BY <1>5
    <3> QED BY <1>1, <2>2, <2>3, <3>1
  <2>5. ResultsOf(b) = Elements(provs)
    BY <2>4
  <2> QED BY <2>1, <2>5
<1>7. NoSystem(b)
  BY <1>1, <1>3 DEF NoSystem
<1>8. ValidBlocks(b)
  <2>1. \A i \in DOMAIN b : PlainMessage(b[i])
    BY <1>1, <1>3
  <2>2. \A i, j \in DOMAIN b : i # j => provs[i] # provs[j]
    BY <1>1 DEF NoRepetition
  <2>3. \A i, j \in DOMAIN b : i # j =>
           /\ Elements(b[i].uses) \cap Elements(b[j].uses) = {}
           /\ Elements(b[i].results) \cap Elements(b[j].results) = {}
    BY <1>5, <2>2
  <2> QED BY <2>1, <2>3 DEF ValidBlocks, PlainMessage
<1>9. ASSUME NEW p \in Elements(provs) PROVE AnsweredIn(b, msgOf[p], p)
  <2>1. PICK i \in DOMAIN provs : p = provs[i]
    BY DEF Elements
  <2> QED BY <1>1, <1>3, <1>5, <2>1 DEF AnsweredIn
<1> QED BY <1>6, <1>7, <1>8, <1>9 DEF b

\* What a cancellation finds: the results it has to add are not there yet, and
\* the role automaton awaits just them.
LEMMA Awaited ==
    ASSUME PhaseInv, DraftFits, NEW provs \in expected_open_calls
    PROVE  /\ provs \in Seq(ProvIds) /\ phase # "NoPending"
           /\ IF phase = "AwaitingToolCallMappings" THEN provs = unmapped
              ELSE Elements(provs) = OpenProvs(toolCalls) /\ unmapped = << >>
           /\ Elements(provs) \cap AnsweredProvs(toolCalls) = {}
           /\ IF Elements(provs) = {}
              THEN /\ provs = << >>
                   /\ RoleStateAfter(messages) = RoleState("AwaitingAssistant", messages, toolCalls, unmapped)
              ELSE RoleStateAfter(messages) = AwaitToolResults(Elements(provs))
<1>1. /\ provs \in Seq(ProvIds)
      /\ phase \in {"AwaitingAssistant", "AssistantInProgress",
                    "AwaitingToolCallMappings", "AwaitingToolResults"}
      /\ phase = "AwaitingToolCallMappings" => provs = unmapped
      /\ phase \in {"AwaitingAssistant", "AssistantInProgress"} => provs = << >>
      /\ phase = "AwaitingToolResults" => Elements(provs) = {toolCalls[i].prov : i \in open_calls}
  BY ExpectedOpenCalls DEF PhaseInv
<1>2. /\ phase = "AwaitingToolResults" <=> open_calls # {}
      /\ phase = "AwaitingToolCallMappings" <=> unmapped # << >>
      /\ unmapped \in Seq(ProvIds)
  BY DEF PhaseInv, PhaseMatchesCalls, TurnTypeOK
<1>3. OpenProvs(toolCalls) = {toolCalls[i].prov : i \in open_calls}
  BY DEF OpenProvs, open_calls
<1>4. /\ DistinctProvs(toolCalls) /\ Elements(unmapped) \cap ProvIdsOf(toolCalls) = {}
      /\ RoleStateAfter(messages) = RoleState(phase, messages, toolCalls, unmapped)
  BY DEF DraftFits, Linked
<1>5. /\ AnsweredProvs(toolCalls) \subseteq ProvIdsOf(toolCalls)
      /\ OpenProvs(toolCalls) \cap AnsweredProvs(toolCalls) = {}
  BY <1>4 DEF AnsweredProvs, OpenProvs, ProvIdsOf, DistinctProvs
<1>6. CASE phase = "AwaitingToolCallMappings"
  <2>1. provs = unmapped /\ provs # << >>
    BY <1>1, <1>2, <1>6
  <2>2. Elements(provs) # {}
    BY <1>1, <2>1, SeqElements DEF Elements
  <2>3. RoleStateAfter(messages) = AwaitToolResults(Elements(provs))
    BY <1>4, <1>6, <2>1 DEF RoleState
  <2> QED BY <1>1, <1>4, <1>5, <1>6, <2>1, <2>2, <2>3
<1>7. CASE phase = "AwaitingToolResults"
  <2>1. Elements(provs) = OpenProvs(toolCalls) /\ Elements(provs) # {} /\ unmapped = << >>
    BY <1>1, <1>2, <1>3, <1>7
  <2>2. RoleStateAfter(messages) = AwaitToolResults(Elements(provs))
    BY <1>4, <1>7, <2>1 DEF RoleState
  <2> QED BY <1>1, <1>5, <1>7, <2>1, <2>2
<1>8. CASE phase \in {"AwaitingAssistant", "AssistantInProgress"}
  <2>1. provs = << >> /\ unmapped = << >> /\ open_calls = {}
    BY <1>1, <1>2, <1>8
  <2>2. Elements(provs) = {} /\ OpenProvs(toolCalls) = {}
    BY <1>3, <2>1, NoElements
  <2>3. RoleStateAfter(messages) = RoleState("AwaitingAssistant", messages, toolCalls, unmapped)
    BY <1>4, <1>8 DEF RoleState
  <2> QED BY <1>1, <1>8, <2>1, <2>2, <2>3
<1> QED BY <1>1, <1>6, <1>7, <1>8

\* The calls of a cancelled draft: each is answered, in the messages that were
\* there or by a synthetic result.
CallsFit(calls, provs, msgOf) ==
    /\ calls \in Seq(ToolCall) /\ DistinctProvs(calls)
    /\ ProvIdsOf(calls) = ProvIdsOf(toolCalls) \cup Elements(provs)
    /\ AnsweredProvs(calls) = ProvIdsOf(calls)
    /\ \A k \in DOMAIN calls :
          /\ UsedIn(messages, calls[k].callMsg, calls[k].prov)
          /\ \/ AnsweredIn(messages, calls[k].resultMsg, calls[k].prov)
             \/ calls[k].prov \in Elements(provs) /\ calls[k].resultMsg = msgOf[calls[k].prov]

LEMMA CancelledCallsFit ==
    ASSUME PhaseInv, DraftFits, NEW provs \in expected_open_calls, NoRepetition(provs),
           NEW msgOf \in [Elements(provs) -> MsgIds],
           NEW callOf \in [Elements(provs) -> CallIds]
    PROVE  CallsFit(CancelledToolCalls(provs, msgOf, callOf), provs, msgOf)
<1> DEFINE calls == CancelledToolCalls(provs, msgOf, callOf)
<1>1. calls \in Seq(ToolCall) /\ \A i \in DOMAIN calls : calls[i].resultMsg # NoMsg
  BY CancelledToolCallsType
<1>2. /\ provs \in Seq(ProvIds) /\ phase # "NoPending"
      /\ IF phase = "AwaitingToolCallMappings" THEN provs = unmapped
         ELSE Elements(provs) = OpenProvs(toolCalls) /\ unmapped = << >>
  BY Awaited
<1>3. Linked(messages, toolCalls, unmapped)
  BY DEF DraftFits
<1>4. toolCalls \in Seq(ToolCall) /\ messages \in Seq(Message) /\ messages # << >>
  BY <1>2 DEF PhaseInv, Started, TurnTypeOK
<1>5. AnsweredProvs(calls) = ProvIdsOf(calls)
  <2> HIDE DEF calls
  <2> QED BY <1>1 DEF AnsweredProvs, ProvIdsOf
<1>6. CASE phase = "AwaitingToolCallMappings"
  <2> DEFINE last == messages[Len(messages)]
             added == [i \in 1..Len(provs) |->
                [call |-> callOf[provs[i]], prov |-> provs[i],
                 callMsg |-> last.id, resultMsg |-> msgOf[provs[i]]]]
  <2>1. /\ Len(provs) \in Nat /\ DOMAIN provs = 1..Len(provs)
        /\ \A i \in 1..Len(provs) : provs[i] \in ProvIds /\ provs[i] \in Elements(provs)
    <3>1. /\ Len(provs) \in Nat /\ DOMAIN provs = 1..Len(provs)
          /\ \A i \in 1..Len(provs) : provs[i] \in ProvIds
      BY <1>2, SeqElements
    <3> QED BY <3>1 DEF Elements
  <2>2. last.id \in MsgIds /\ Len(messages) \in DOMAIN messages
    <3>1. last \in Message /\ Len(messages) \in DOMAIN messages
      BY <1>4, SeqElements
    <3> QED BY <3>1 DEF Message
  <2>3. calls = toolCalls \o added
    BY <1>6 DEF CancelledToolCalls
  <2> HIDE DEF last, calls
  <2>4. \A i \in 1..Len(provs) :
           /\ added[i] \in ToolCall /\ added[i].prov = provs[i]
           /\ added[i].callMsg = last.id /\ added[i].resultMsg = msgOf[provs[i]]
    BY <2>1, <2>2 DEF ToolCall
  <2>5. added \in Seq(ToolCall) /\ DOMAIN added = DOMAIN provs
    BY <2>1, <2>4
  <2> HIDE DEF added
  <2>6. ProvIdsOf(added) = Elements(provs) /\ DistinctProvs(added)
    <3>1. \A i \in DOMAIN provs : added[i].prov = provs[i] /\ added[i].callMsg = last.id
      BY <2>1, <2>4
    <3> QED BY <1>2, <2>5, <3>1, NewCalls
  <2>7. /\ DistinctProvs(toolCalls) /\ ProvIdsOf(toolCalls) \cap ProvIdsOf(added) = {}
        /\ Elements(provs) \subseteq Elements(last.uses)
    BY <1>2, <1>3, <1>6, <2>6 DEF Linked, last
  <2> DEFINE all == toolCalls \o added
  <2>8. /\ ProvIdsOf(all) = ProvIdsOf(toolCalls) \cup ProvIdsOf(added)
        /\ \A k \in DOMAIN all : \/ \E i \in DOMAIN toolCalls : all[k] = toolCalls[i]
                                 \/ \E i \in DOMAIN added : all[k] = added[i]
        /\ DistinctProvs(toolCalls) /\ DistinctProvs(added)
              /\ ProvIdsOf(toolCalls) \cap ProvIdsOf(added) = {} => DistinctProvs(all)
    BY <1>4, <2>5, ConcatCalls
  <2> HIDE DEF all
  <2>9. calls = all
    BY <2>3 DEF all
  <2>10. ASSUME NEW i \in DOMAIN added
         PROVE  /\ UsedIn(messages, added[i].callMsg, added[i].prov)
                /\ added[i].prov \in Elements(provs) /\ added[i].resultMsg = msgOf[added[i].prov]
    <3>1. i \in 1..Len(provs) /\ provs[i] \in Elements(provs)
      BY <2>1, <2>5
    <3> QED BY <2>2, <2>4, <2>7, <3>1 DEF UsedIn, last
  <2>11. ASSUME NEW i \in DOMAIN toolCalls
         PROVE  /\ UsedIn(messages, toolCalls[i].callMsg, toolCalls[i].prov)
                /\ AnsweredIn(messages, toolCalls[i].resultMsg, toolCalls[i].prov)
    <3>1. open_calls = {}
      BY <1>6 DEF PhaseInv, PhaseMatchesCalls
    <3>2. toolCalls[i].resultMsg # NoMsg
      BY <3>1 DEF open_calls
    <3> QED BY <1>3, <3>2 DEF Linked
  <2>12. \A k \in DOMAIN calls :
            /\ UsedIn(messages, calls[k].callMsg, calls[k].prov)
            /\ \/ AnsweredIn(messages, calls[k].resultMsg, calls[k].prov)
               \/ calls[k].prov \in Elements(provs) /\ calls[k].resultMsg = msgOf[calls[k].prov]
    BY <2>8, <2>9, <2>10, <2>11
  <2> QED BY <1>1, <1>5, <2>6, <2>7, <2>8, <2>9, <2>12 DEF CallsFit, calls
<1>7. CASE phase # "AwaitingToolCallMappings"
  <2>1. calls = [i \in DOMAIN toolCalls |->
           IF i \in open_calls THEN Answered(toolCalls[i], msgOf[toolCalls[i].prov])
           ELSE toolCalls[i]]
    BY <1>7 DEF CancelledToolCalls
  <2> HIDE DEF calls
  <2>2. DOMAIN calls = DOMAIN toolCalls
    BY <2>1
  <2>3. ASSUME NEW i \in DOMAIN toolCalls
        PROVE  /\ calls[i].prov = toolCalls[i].prov /\ calls[i].callMsg = toolCalls[i].callMsg
               /\ i \in open_calls => calls[i].resultMsg = msgOf[toolCalls[i].prov]
               /\ i \notin open_calls => calls[i].resultMsg = toolCalls[i].resultMsg
    BY <2>1 DEF Answered
  <2>4. /\ DistinctProvs(toolCalls)
        /\ Elements(provs) = OpenProvs(toolCalls) /\ OpenProvs(toolCalls) \subseteq ProvIdsOf(toolCalls)
    BY <1>2, <1>3, <1>7 DEF Linked, OpenProvs, ProvIdsOf
  <2>5. DistinctProvs(calls) /\ ProvIdsOf(calls) = ProvIdsOf(toolCalls)
    BY <2>2, <2>3, <2>4 DEF DistinctProvs, ProvIdsOf
  <2>6. ASSUME NEW k \in DOMAIN calls
        PROVE  /\ UsedIn(messages, calls[k].callMsg, calls[k].prov)
               /\ \/ AnsweredIn(messages, calls[k].resultMsg, calls[k].prov)
                  \/ calls[k].prov \in Elements(provs) /\ calls[k].resultMsg = msgOf[calls[k].prov]
    <3>1. k \in DOMAIN toolCalls /\ UsedIn(messages, toolCalls[k].callMsg, toolCalls[k].prov)
      BY <1>3, <2>2 DEF Linked
    <3>2. CASE k \in open_calls
      <4>1. toolCalls[k].prov \in Elements(provs)
        BY <2>4, <3>2 DEF OpenProvs, open_calls
      <4> QED BY <2>3, <3>1, <3>2, <4>1
    <3>3. CASE k \notin open_calls
      <4>1. toolCalls[k].resultMsg # NoMsg
        BY <3>1, <3>3 DEF open_calls
      <4> QED BY <1>3, <2>3, <3>1, <3>3, <4>1 DEF Linked
    <3> QED BY <3>2, <3>3
  <2>7. ProvIdsOf(calls) = ProvIdsOf(toolCalls) \cup Elements(provs)
    BY <2>4, <2>5
  <2> QED BY <1>1, <1>5, <2>5, <2>6, <2>7 DEF CallsFit, calls
<1> QED BY <1>6, <1>7

\* The messages of a cancelled draft, and their calls.
CancelledFits(msgs, calls) ==
    /\ msgs \in Seq(Message) /\ msgs # << >> /\ calls \in Seq(ToolCall)
    /\ \A i \in DOMAIN calls : calls[i].resultMsg # NoMsg
    /\ NoSystem(msgs) /\ ValidBlocks(msgs)
    /\ Linked(msgs, calls, << >>)
    /\ RoleStateAfter(msgs) = RoleState("AwaitingAssistant", msgs, calls, << >>)

LEMMA CancelledDraft ==
    ASSUME PhaseInv, DraftFits, NEW provs \in expected_open_calls, NoRepetition(provs),
           NEW msgOf \in [Elements(provs) -> MsgIds],
           NEW callOf \in [Elements(provs) -> CallIds]
    PROVE  CancelledFits(messages \o CancelledMessages(provs, msgOf),
                         CancelledToolCalls(provs, msgOf, callOf))
<1> DEFINE b == CancelledMessages(provs, msgOf)
           msgs == messages \o b
           calls == CancelledToolCalls(provs, msgOf, callOf)
<1>1. /\ provs \in Seq(ProvIds) /\ phase # "NoPending"
      /\ IF phase = "AwaitingToolCallMappings" THEN provs = unmapped
         ELSE Elements(provs) = OpenProvs(toolCalls) /\ unmapped = << >>
      /\ Elements(provs) \cap AnsweredProvs(toolCalls) = {}
      /\ IF Elements(provs) = {}
         THEN /\ provs = << >>
              /\ RoleStateAfter(messages) = RoleState("AwaitingAssistant", messages, toolCalls, unmapped)
         ELSE RoleStateAfter(messages) = AwaitToolResults(Elements(provs))
  BY Awaited
<1>2. messages \in Seq(Message) /\ messages # << >>
  BY <1>1 DEF PhaseInv, Started, TurnTypeOK
<1>3. b \in Seq(Message) /\ Len(b) = Len(provs)
  BY <1>1, CancelledMessagesType
<1>4. /\ NoSystem(b) /\ ValidBlocks(b) /\ UsesOf(b) = {} /\ ResultsOf(b) = Elements(provs)
      /\ \A p \in Elements(provs) : AnsweredIn(b, msgOf[p], p)
  BY <1>1, CancelledParts
<1>5. /\ calls \in Seq(ToolCall)
      /\ \A i \in DOMAIN calls : calls[i].resultMsg # NoMsg
      /\ CallsFit(calls, provs, msgOf)
  BY CancelledToolCallsType, CancelledCallsFit
<1> HIDE DEF b, calls
<1>6. /\ NoSystem(messages) /\ ValidBlocks(messages) /\ Linked(messages, toolCalls, unmapped)
  BY DEF DraftFits
<1>7. /\ msgs \in Seq(Message) /\ Len(msgs) = Len(messages) + Len(provs)
      /\ Len(messages) \in Nat /\ Len(messages) # 0 /\ Len(provs) \in Nat
  <2>1. msgs \in Seq(Message) /\ Len(msgs) = Len(messages) + Len(b)
    BY <1>2, <1>3, ConcatProperties
  <2>2. Len(messages) \in Nat /\ Len(messages) # 0
    BY <1>2, SeqElements
  <2>3. Len(provs) \in Nat
    BY <1>1, SeqElements
  <2> HIDE DEF msgs
  <2> QED BY <1>3, <2>1, <2>2, <2>3
<1>8. /\ UsesOf(msgs) = UsesOf(messages) \cup UsesOf(b)
      /\ ResultsOf(msgs) = ResultsOf(messages) \cup ResultsOf(b)
      /\ \A id, p : UsedIn(msgs, id, p) <=> UsedIn(messages, id, p) \/ UsedIn(b, id, p)
      /\ \A id, p : AnsweredIn(msgs, id, p) <=> AnsweredIn(messages, id, p) \/ AnsweredIn(b, id, p)
      /\ NoSystem(messages) /\ NoSystem(b) => NoSystem(msgs)
  BY <1>2, <1>3, ConcatParts
<1>9. ValidBlocks(msgs)
  <2>1. UsesOf(messages) \cap UsesOf(b) = {} /\ ResultsOf(messages) \cap ResultsOf(b) = {}
    BY <1>1, <1>4, <1>6 DEF Linked
  <2> QED BY <1>2, <1>3, <1>4, <1>6, <2>1, BlocksConcat
<1> DEFINE none == << >>
<1>10. Elements(none) = {} /\ NoRepetition(none)
  BY NoElements
<1>11. RoleStateAfter(msgs) = RoleState("AwaitingAssistant", msgs, calls, none)
  <2>1. CASE Elements(provs) = {}
    <3>1. provs = << >> /\ Len(provs) = 0
      BY <1>1, <2>1
    <3>2. b = << >>
      BY <1>3, <3>1, EmptySeq
    <3>3. msgs = messages
      BY <1>2, <3>2
    <3> HIDE DEF msgs, none
    <3> QED BY <1>1, <2>1, <3>3 DEF RoleState
  <2>2. CASE Elements(provs) # {}
    <3>1. RoleStateAfter(messages) = AwaitToolResults(Elements(provs))
      BY <1>1, <2>2
    <3>2. RoleStateAfter(messages \o CancelledMessages(provs, msgOf)) = ExpectAssistant(TRUE)
      BY <1>1, <1>2, <2>2, <3>1, RoleCancelled
    <3>3. RoleStateAfter(msgs) = ExpectAssistant(TRUE)
      BY <3>2 DEF b
    <3>4. Len(provs) # 0
      BY <1>1, <2>2, EmptySeq, NoElements
    <3>5. Len(msgs) # 1
      BY <1>7, <3>4
    <3> HIDE DEF msgs, none
    <3> QED BY <3>3, <3>5 DEF RoleState
  <2> QED BY <2>1, <2>2
<1>12. msgs # << >>
  <2> HIDE DEF msgs
  <2> QED BY <1>7
<1> HIDE DEF msgs, none
<1>13. Linked(msgs, calls, none)
  <2>1. /\ UsesOf(msgs) \subseteq ProvIdsOf(calls)
        /\ ResultsOf(msgs) \subseteq AnsweredProvs(calls)
    <3>1. Elements(unmapped) \subseteq Elements(provs)
      BY <1>1, NoElements
    <3>2. AnsweredProvs(toolCalls) \subseteq ProvIdsOf(toolCalls)
      BY DEF AnsweredProvs, ProvIdsOf
    <3> QED BY <1>4, <1>5, <1>6, <1>8, <3>1, <3>2 DEF Linked, CallsFit
  <2>2. \A k \in DOMAIN calls : /\ UsedIn(msgs, calls[k].callMsg, calls[k].prov)
                                /\ AnsweredIn(msgs, calls[k].resultMsg, calls[k].prov)
    BY <1>4, <1>5, <1>8 DEF CallsFit
  <2> QED BY <1>5, <1>10, <2>1, <2>2 DEF Linked, CallsFit
<1>14. CancelledFits(msgs, calls)
  BY <1>4, <1>5, <1>6, <1>7, <1>8, <1>9, <1>11, <1>12, <1>13 DEF CancelledFits, none
<1> QED BY <1>14 DEF msgs, calls, b

LEMMA DraftResume ==
    ASSUME PhaseInv, DraftInv,
           NEW provs \in expected_open_calls,
           NEW msgOf \in [Elements(provs) -> MsgIds],
           NEW callOf \in [Elements(provs) -> CallIds],
           resume_cancelled_turn(provs, msgOf, callOf)
    PROVE  DraftInv'
<1>1. /\ messages' = messages \o CancelledMessages(provs, msgOf)
      /\ toolCalls' = CancelledToolCalls(provs, msgOf, callOf)
      /\ unmapped' = << >> /\ phase' = "AwaitingAssistant"
      /\ raw' = raw /\ turnId' = turnId /\ parent' = parent /\ NoRepetition(provs)
  BY DEF resume_cancelled_turn, history, AcceptableResults
<1>2. DraftFits
  BY ExpectedOpenCalls DEF PhaseInv, DraftInv
<1>3. CancelledFits(messages \o CancelledMessages(provs, msgOf),
                    CancelledToolCalls(provs, msgOf, callOf))
  BY <1>1, <1>2, CancelledDraft
<1>4. CancelledFits(messages', toolCalls')
  BY <1>1, <1>3
<1>5. IsNext'
  BY <1>1, <1>2 DEF DraftFits, IsNext, tip_id
<1> QED BY <1>1, <1>4, <1>5 DEF CancelledFits, DraftInv, DraftFits

LEMMA DraftStep == PhaseInv /\ DraftInv /\ [TurnNext]_turnVars => DraftInv'
<1> SUFFICES ASSUME PhaseInv, DraftInv, [TurnNext]_turnVars PROVE DraftInv'
  OBVIOUS
<1>1. CASE \E t \in TurnIds, m \in MsgIds : begin_turn(t, m)
  BY <1>1, DraftBegin
<1>2. CASE \/ start_assistant
           \/ \E r \in Responses : start_assistant_response(r)
           \/ push_assistant_event
           \/ \E m \in MsgIds, r \in Responses : FinishAssistantRejected(m, r)
  BY <1>2, DraftHeld
<1>3. CASE \E m \in MsgIds, r \in Responses : finish_assistant(m, r)
  BY <1>3, DraftFinish
<1>4. CASE \E callOf \in [Elements(unmapped) -> CallIds] : register_tool_calls(callOf)
  BY <1>4, DraftRegister
<1>5. CASE \E m \in MsgIds, p \in ProvIds : append_tool_result(m, p)
  BY <1>5, DraftToolResult
<1>6. CASE \E m \in MsgIds : inject_user_message(m)
  BY <1>6, DraftInject
<1>7. CASE commit_pending \/ discard_pending_turn
  BY <1>7 DEF commit_pending, discard_pending_turn, ClearPending, DraftInv
<1>8. ASSUME NEW provs \in expected_open_calls,
             NEW msgOf \in [Elements(provs) -> MsgIds],
             NEW callOf \in [Elements(provs) -> CallIds],
             \/ resume_cancelled_turn(provs, msgOf, callOf)
             \/ \E m \in MsgIds, r \in Responses :
                   commit_cancelled_turn(provs, msgOf, callOf, m, r)
      PROVE  DraftInv'
  <2>1. CASE resume_cancelled_turn(provs, msgOf, callOf)
    BY <2>1, DraftResume
  <2>2. CASE \E m \in MsgIds, r \in Responses : commit_cancelled_turn(provs, msgOf, callOf, m, r)
    BY <2>2 DEF commit_cancelled_turn, ClearPending, DraftInv
  <2> QED BY <1>8, <2>1, <2>2
<1>9. CASE UNCHANGED turnVars
  BY <1>9 DEF turnVars, history, draft, DraftInv, DraftFits, IsNext, tip_id
<1> QED BY <1>1, <1>2, <1>3, <1>4, <1>5, <1>6, <1>7, <1>8, <1>9
        DEF TurnNext, BuildTurn, CancelTurn

-----------------------------------------------------------------------------
(***************************************************************************)
(* What fits and is closed, the validator accepts.                         *)
(***************************************************************************)
LEMMA ClosedValidates ==
    ASSUME NEW turn, IsNext, turn.id = turnId, turn.parent = parent,
           MessagesFresh(turn.messages), CallsFresh(turn.toolCalls),
           NoSystem(turn.messages), ValidBlocks(turn.messages),
           Linked(turn.messages, turn.toolCalls, << >>),
           \A i \in DOMAIN turn.toolCalls : turn.toolCalls[i].resultMsg # NoMsg,
           RoleStateAfter(turn.messages) = Closed
    PROVE  validate_turn_data(turn, raw, tip_id)
<1>1. ValidIdentity(turn, raw, tip_id)
  BY DEF ValidIdentity, IsNext, MessagesFresh, CallsFresh
<1>2. ValidRoleSequence(turn.messages)
  <2>1. RoleStateAfter(turn.messages).tag = "Closed"
    BY DEF Closed
  <2> QED BY <2>1 DEF ValidRoleSequence, NoSystem
<1>3. ValidPairings(turn)
  <2> DEFINE msgs == turn.messages
             calls == turn.toolCalls
  <2>1. UsesOf(msgs) \subseteq ProvIdsOf(calls)
    BY NoElements DEF Linked
  <2>2. \A k \in DOMAIN msgs : Elements(msgs[k].uses) \subseteq ProvIdsOf(calls)
    BY <2>1 DEF UsesOf
  <2>3. \A i \in DOMAIN calls : /\ UsedIn(msgs, calls[i].callMsg, calls[i].prov)
                                /\ AnsweredIn(msgs, calls[i].resultMsg, calls[i].prov)
    BY DEF Linked
  <2>4. \A i, j \in DOMAIN calls : calls[i].prov = calls[j].prov => i = j
    BY DEF Linked, DistinctProvs
  <2> QED BY <2>2, <2>3, <2>4 DEF ValidPairings, UsedIn, AnsweredIn
<1> QED BY <1>1, <1>2, <1>3 DEF validate_turn_data

LEMMA ReadyValidates ==
    ASSUME PhaseInv, IdsInv, DraftInv PROVE ReadyTurnValidates
<1> SUFFICES ASSUME phase = "ReadyToCommit" PROVE validate_turn_data(DraftTurn, raw, tip_id)
  BY DEF ReadyTurnValidates
<1> DEFINE turn == DraftTurn
<1>1. DraftFits /\ unmapped = << >> /\ open_calls = {}
  BY DEF DraftInv, PhaseInv, PhaseMatchesCalls
<1>2. /\ turn.id = turnId /\ turn.parent = parent
      /\ turn.messages = messages /\ turn.toolCalls = toolCalls
  BY DEF DraftTurn
<1> HIDE DEF turn
<1>3. MessagesFresh(messages) /\ CallsFresh(toolCalls)
  BY DEF IdsInv, MessageIdsUnique, CallIdsUnique, MessagesFresh, CallsFresh
<1>4. /\ \A i \in DOMAIN toolCalls : toolCalls[i].resultMsg # NoMsg
      /\ Linked(messages, toolCalls, << >>)
      /\ RoleStateAfter(messages) = Closed
  BY <1>1 DEF open_calls, DraftFits, RoleState
<1>5. IsNext /\ NoSystem(messages) /\ ValidBlocks(messages)
  BY <1>1 DEF DraftFits
<1>6. validate_turn_data(turn, raw, tip_id)
  BY <1>2, <1>3, <1>4, <1>5, ClosedValidates
<1> QED BY <1>6 DEF turn

LEMMA CancelledValidates ==
    ASSUME PhaseInv, CachesAreExact, IdsInv, DraftInv PROVE CancelledTurnValidates
<1> SUFFICES ASSUME NEW provs \in expected_open_calls,
                    NEW msgOf \in [Elements(provs) -> MsgIds],
                    NEW callOf \in [Elements(provs) -> CallIds],
                    NEW m \in MsgIds, NEW r \in Responses,
                    AcceptableResults(provs, msgOf, callOf),
                    AcceptableFinal(provs, msgOf, m, r), r.wellFormed
             PROVE  validate_turn_data(CancelledTurn(provs, msgOf, callOf, m, r), raw, tip_id)
  BY DEF CancelledTurnValidates
<1> DEFINE turn == CancelledTurn(provs, msgOf, callOf, m, r)
           before == messages \o CancelledMessages(provs, msgOf)
           calls == CancelledToolCalls(provs, msgOf, callOf)
           msg == AssistantMessage(m, r)
           msgs == Append(before, msg)
<1>1. DraftFits /\ NoRepetition(provs)
  BY ExpectedOpenCalls DEF PhaseInv, DraftInv, AcceptableResults
<1>2. CancelledFits(before, calls)
  BY <1>1, CancelledDraft
<1>3. /\ MessagesFresh(before) /\ CallsFresh(calls)
      /\ MessageIdsOf(before) = MessageIdsOf(messages) \cup {msgOf[p] : p \in Elements(provs)}
  BY CancelledIds
<1>4. /\ FreshMessageId(m) /\ \A p \in Elements(provs) : msgOf[p] # m
      /\ r.role = "assistant" /\ r.uses = << >>
  BY DEF AcceptableFinal
<1>5. /\ msg \in Message /\ PlainMessage(msg) /\ msg.id = m /\ msg.role = "assistant"
      /\ msg.uses = << >> /\ Elements(msg.uses) = {} /\ Elements(msg.results) = {}
  <2>1. msg.role = "assistant" /\ msg.uses = << >> /\ msg.results = << >> /\ msg.id = m
    BY <1>4 DEF AssistantMessage
  <2>2. msg \in Message /\ PlainMessage(msg)
    BY <1>4, NoElements, MessageTypes, PlainMessages
  <2> QED BY <2>1, <2>2, NoElements
<1>6. /\ turn.id = turnId /\ turn.parent = parent
      /\ turn.messages = before \o <<msg>> /\ turn.toolCalls = calls
  BY DEF CancelledTurn
<1> HIDE DEF turn, before, calls, msg
<1>7. before \in Seq(Message) /\ before # << >> /\ calls \in Seq(ToolCall)
  BY <1>2 DEF CancelledFits
<1>8. turn.messages = msgs
  BY <1>5, <1>6, <1>7, AppendIsConcat
<1>9. GrowsBy(msgs, before, msg)
  <2>1. NoSystem(before) /\ ValidBlocks(before)
    BY <1>2 DEF CancelledFits
  <2> QED BY <1>5, <1>7, <2>1, Grown
<1>10. MessagesFresh(msgs)
  <2>1. m \notin MessageIdsOf(before) /\ m \notin RetainedMessageIds(raw)
    BY <1>3, <1>4
       DEF FreshMessageId, contains_message_id, retained_message_exists, CachesAreExact
  <2>2. \A i, j \in DOMAIN before : before[i].id = before[j].id => i = j
    BY <1>3 DEF MessagesFresh
  <2>3. /\ \A i, j \in DOMAIN Append(before, msg) :
              Append(before, msg)[i].id = Append(before, msg)[j].id => i = j
        /\ MessageIdsOf(Append(before, msg)) = MessageIdsOf(before) \cup {msg.id}
    BY <1>5, <1>7, <2>1, <2>2, FreshAppend
  <2>4. MessageIdsOf(msgs) \cap RetainedMessageIds(raw) = {}
    BY <1>3, <1>5, <2>1, <2>3 DEF MessagesFresh
  <2> QED BY <2>3, <2>4 DEF MessagesFresh
<1>11. RoleStateAfter(msgs) = Closed
  <2> DEFINE s == RoleStateAfter(before)
  <2>1. s = ExpectAssistant(FALSE) \/ s = ExpectAssistant(TRUE)
    BY <1>2 DEF CancelledFits, RoleState
  <2>2. s.tag = "ExpectAssistant"
    BY <2>1 DEF ExpectAssistant
  <2>3. RoleStateAfter(Append(before, msg)) = RoleStep(s, msg)
    BY <1>5, <1>7, RoleAppend
  <2> HIDE DEF s
  <2>4. RoleStep(s, msg) = Closed
    BY <1>5, <2>2 DEF RoleStep
  <2> QED BY <2>3, <2>4
<1> HIDE DEF msgs
<1>12. Linked(msgs, calls, << >>)
  <2>1. Linked(before, calls, << >>)
    BY <1>2 DEF CancelledFits
  <2> QED BY <1>5, <1>9, <2>1, NoElements DEF Linked, GrowsBy
<1>13. /\ IsNext /\ NoSystem(msgs) /\ ValidBlocks(msgs)
       /\ \A i \in DOMAIN calls : calls[i].resultMsg # NoMsg
  BY <1>1, <1>2, <1>9 DEF DraftFits, CancelledFits, GrowsBy
<1>14. validate_turn_data(turn, raw, tip_id)
  BY <1>3, <1>6, <1>8, <1>10, <1>11, <1>12, <1>13, ClosedValidates
<1> QED BY <1>14 DEF turn

\* Every pending turn can be closed: one that the pending protocol calls ready
\* passes the validator of closed turns, and so does one that is cancelled in any
\* phase, with whatever new ids and well-formed text response the caller
\* supplies (commit_pending in conversation/mod.rs, cancel.rs:238-262 and
\* conversation/validation.rs, which decide it independently).
THEOREM ClosingCorrect == TurnSpec => []ClosingTurnValidates
<1>1. PhaseInv /\ CachesAreExact /\ IdsInv /\ DraftInv => ClosingTurnValidates
  BY ReadyValidates, CancelledValidates DEF ClosingTurnValidates
<1>2. TurnInit => DraftInv
  BY DEF TurnInit, DraftInv
<1>3. (PhaseInv /\ DraftInv) /\ [TurnNext]_turnVars => DraftInv'
  BY DraftStep
<1> QED BY <1>1, <1>2, <1>3, PendingTurnInv, PTL DEF TurnSpec

-----------------------------------------------------------------------------
(***************************************************************************)
(* The machine.                                                            *)
(*                                                                         *)
(* Every step that settles or starts something lands at rest, with nothing *)
(* awaited, or parks on a batch of new requirements (Landed).  Shape says  *)
(* what the cursor, the scratch and the pending turn are in each of the    *)
(* two cases; it is inductive together with the types, the history and     *)
(* what is awaited.                                                        *)
(***************************************************************************)

CursorType ==
    /\ cursor \in Kinds
    /\ reason \in {"None", "Completed", "StepLimitReached", "BudgetExhausted"}
    /\ nextReq \in Nat \ {0}
    /\ reqs \subseteq 1..(nextReq - 1)
    /\ failure \in {"None", "Driver", "Host", "Restored"}

ScratchType ==
    /\ scratch \in {"None", "InTurn", "BeginTurn", "Commit"}
    /\ parked \in Seq(Requests)
    /\ steps \in 0..MaxSteps

FlagsType == inTools \in BOOLEAN /\ closed \in BOOLEAN

SlotsType ==
    /\ approvalQ \in Seq(Calls)
    /\ running \subseteq (Nat \X Calls)
    /\ approving \subseteq (Nat \X Calls)

PendingType ==
    /\ pend \in {"NoPending", "AwaitingAssistant", "AwaitingToolResults", "ReadyToCommit"}
    /\ open \subseteq Calls /\ answered \subseteq Calls
    /\ pivots \in 0..MaxPivots

MachineType == CursorType /\ ScratchType /\ FlagsType /\ SlotsType /\ PendingType

(* A turn is committed only while it is waited for. *)
HistoryType ==
    /\ committed \in Nat /\ turns \in 0..MaxTurns /\ committed <= turns
    /\ cursor \in Waiting => committed < turns
    /\ queue \in Seq(Requests) /\ admitted \in Seq(Requests) /\ applied \in Seq(Requests)
    /\ granted \subseteq Calls /\ ran \subseteq Calls
    /\ settled \subseteq 1..(nextReq - 1)

NoTools ==
    /\ inTools = FALSE /\ approvalQ = << >> /\ running = {} /\ approving = {}
    /\ open = {}

Resting ==
    /\ cursor \in {"Idle", "Done", "Error"} /\ reqs = {}
    /\ scratch = "None" /\ NoTools
    /\ pend \in {"NoPending", "AwaitingAssistant"}
    /\ cursor = "Error" \/ reason \in {"Completed", "BudgetExhausted"} => pend = "NoPending"

Streaming ==
    /\ cursor = "StreamingStep" /\ reason = "None" /\ scratch = "InTurn" /\ NoTools
    /\ pend = "AwaitingAssistant"
    /\ \E r \in reqs : reqs = {r}

Distinct(q) == \A i, j \in DOMAIN q : q[i] = q[j] => i = j

OneToOne(slots) == \A s, t \in slots : s # t => s[1] # t[1] /\ s[2] # t[2]

InBatch ==
    /\ cursor = "AwaitingTool" /\ reason = "None" /\ scratch = "InTurn" /\ inTools = TRUE
    /\ pend = "AwaitingToolResults"
    /\ approving = {} /\ running # {}
    /\ IsFiniteSet(running) /\ OneToOne(running) /\ Distinct(approvalQ)
    /\ CallsOf(running) \cap QueuedCalls(approvalQ) = {}
    /\ CallsOf(running) \cup QueuedCalls(approvalQ) = open
    /\ open \cap answered = {}

Asking ==
    /\ cursor = "AwaitingApproval" /\ reason = "None" /\ scratch = "InTurn" /\ inTools = TRUE
    /\ pend = "AwaitingToolResults"
    /\ running = {} /\ Distinct(approvalQ)
    /\ \E r \in reqs, c \in Calls :
        /\ reqs = {r} /\ approving = {<<r, c>>}
        /\ c \notin QueuedCalls(approvalQ)
        /\ {c} \cup QueuedCalls(approvalQ) = open
    /\ open \cap answered = {}

(* The application that is parked is the one the queue holds. *)
Reconfiguring ==
    /\ cursor = "AwaitingReconfig" /\ reason = "None" /\ NoTools
    /\ scratch \in {"None", "BeginTurn", "Commit"}
    /\ scratch # "None" => parked = queue
    /\ pend = IF scratch = "Commit" THEN "ReadyToCommit" ELSE "NoPending"
    /\ \E r \in reqs : reqs = {r}

Shape == Resting \/ Streaming \/ InBatch \/ Asking \/ Reconfiguring

AwaitInv ==
    /\ cursor \in {"StreamingStep", "AwaitingApproval", "AwaitingReconfig"} =>
          reqs \cap settled = {}
    /\ cursor = "AwaitingTool" => Ids(running) = reqs \ settled

RunInv == CallsOf(running) \subseteq ran

IInv ==
    /\ MachineType /\ HistoryType /\ Shape /\ AwaitInv /\ RunInv
    /\ NoRunWithoutApproval /\ ReconfigsAppliedInOrder

-----------------------------------------------------------------------------
(***************************************************************************)
(* Slots, queues and paths.                                                *)
(***************************************************************************)

(* Slots count their requirements and their calls. *)
LEMMA SlotsCount ==
    ASSUME NEW slots, IsFiniteSet(slots), OneToOne(slots)
    PROVE  /\ IsFiniteSet(Ids(slots)) /\ Cardinality(Ids(slots)) = Cardinality(slots)
           /\ IsFiniteSet(CallsOf(slots)) /\ Cardinality(CallsOf(slots)) = Cardinality(slots)
<1>1. [s \in slots |-> s[1]] \in Bijection(slots, Ids(slots))
  BY DEF Bijection, Injection, Surjection, IsInjective, Ids, OneToOne
<1>2. [s \in slots |-> s[2]] \in Bijection(slots, CallsOf(slots))
  BY DEF Bijection, Injection, Surjection, IsInjective, CallsOf, OneToOne
<1>3. ExistsBijection(slots, Ids(slots)) /\ ExistsBijection(slots, CallsOf(slots))
  BY <1>1, <1>2 DEF ExistsBijection
<1> QED BY <1>3, FS_Bijection

(* A batch of calls gets all the numbers from nextReq on, one each. *)
LEMMA BatchNumbers ==
    ASSUME NEW batch, IsFiniteSet(batch), nextReq \in Nat, NEW slots \in Batches(batch)
    PROVE  /\ IsFiniteSet(slots) /\ OneToOne(slots)
           /\ slots \subseteq Nat \X batch
           /\ CallsOf(slots) = batch
           /\ Cardinality(batch) \in Nat
           /\ Ids(slots) = nextReq..(nextReq + Cardinality(batch) - 1)
           /\ Cardinality(Ids(slots)) = Cardinality(batch)
<1> DEFINE n == Cardinality(batch)
           ids == nextReq..(nextReq + n - 1)
<1>1. n \in Nat
  BY FS_CardinalityType
<1>2. slots \subseteq ids \X batch /\ Cardinality(slots) = n /\ OneToOne(slots)
  BY DEF Batches, OneToOne
<1> HIDE DEF n
<1>3. IsFiniteSet(ids) /\ Cardinality(ids) = n
  <2> DEFINE b == nextReq + n - 1
  <2>1. nextReq \in Int /\ b \in Int
    BY <1>1
  <2> HIDE DEF b
  <2>2. /\ IsFiniteSet(nextReq..b)
        /\ Cardinality(nextReq..b) = IF nextReq > b THEN 0 ELSE b - nextReq + 1
    BY <2>1, FS_Interval
  <2>3. nextReq > b => n = 0
    BY <1>1 DEF b
  <2>4. ~(nextReq > b) => b - nextReq + 1 = n
    BY <1>1 DEF b
  <2>5. Cardinality(nextReq..b) = n
    BY <2>2, <2>3, <2>4
  <2> QED BY <2>2, <2>5 DEF b
<1>4. IsFiniteSet(slots)
  <2>1. IsFiniteSet(ids \X batch)
    BY <1>3, FS_Product
  <2> QED BY <1>2, <2>1, FS_Subset
<1>5. /\ Cardinality(Ids(slots)) = n /\ Cardinality(CallsOf(slots)) = n
  BY <1>2, <1>4, SlotsCount
<1> HIDE DEF ids
<1>6. Ids(slots) \subseteq ids /\ CallsOf(slots) \subseteq batch
  BY <1>2 DEF Ids, CallsOf
<1>7. Ids(slots) = ids /\ CallsOf(slots) = batch
  BY <1>3, <1>5, <1>6, FS_Subset DEF n
<1>8. ids \subseteq Nat
  BY <1>1 DEF ids
<1>9. slots \subseteq Nat \X batch
  BY <1>2, <1>8
<1> QED BY <1>1, <1>2, <1>4, <1>5, <1>7, <1>9 DEF n, ids

(* A queue counts its calls. *)
LEMMA QueueCounts ==
    ASSUME NEW q \in Seq(Calls), Distinct(q)
    PROVE  IsFiniteSet(QueuedCalls(q)) /\ Cardinality(QueuedCalls(q)) = Len(q)
<1>1. q \in Bijection(1..Len(q), QueuedCalls(q))
  BY DEF Bijection, Injection, Surjection, IsInjective, QueuedCalls, Distinct
<1>2. ExistsBijection(1..Len(q), QueuedCalls(q)) /\ Len(q) \in Nat
  BY <1>1 DEF ExistsBijection
<1>3. IsFiniteSet(1..Len(q)) /\ Cardinality(1..Len(q)) = Len(q)
  <2>1. 1 \in Int /\ Len(q) \in Int
    BY <1>2
  <2>2. IsFiniteSet(1..Len(q)) /\ Cardinality(1..Len(q)) = IF 1 > Len(q) THEN 0 ELSE Len(q) - 1 + 1
    BY <2>1, FS_Interval
  <2> QED BY <1>2, <2>2
<1> QED BY <1>2, <1>3, FS_Bijection

LEMMA QueueHead ==
    ASSUME NEW q \in Seq(Calls), Distinct(q), q # << >>
    PROVE  /\ Head(q) \in Calls /\ Tail(q) \in Seq(Calls) /\ Distinct(Tail(q))
           /\ Head(q) \notin QueuedCalls(Tail(q))
           /\ QueuedCalls(q) = {Head(q)} \cup QueuedCalls(Tail(q))
<1>1. /\ Len(q) \in Nat /\ Len(q) >= 1 /\ DOMAIN q = 1..Len(q) /\ Head(q) = q[1]
      /\ Tail(q) \in Seq(Calls) /\ Len(Tail(q)) = Len(q) - 1 /\ DOMAIN Tail(q) = 1..(Len(q) - 1)
      /\ \A i \in 1..(Len(q) - 1) : Tail(q)[i] = q[i + 1]
  BY HeadTailProperties
<1>2. Distinct(Tail(q))
  <2> SUFFICES ASSUME NEW i \in 1..(Len(q) - 1), NEW j \in 1..(Len(q) - 1), q[i + 1] = q[j + 1]
               PROVE  i = j
    BY <1>1 DEF Distinct
  <2>1. i + 1 \in DOMAIN q /\ j + 1 \in DOMAIN q
    BY <1>1
  <2>2. i + 1 = j + 1
    BY <2>1 DEF Distinct
  <2> QED BY <1>1, <2>2
<1>3. Head(q) \notin QueuedCalls(Tail(q))
  <2> SUFFICES ASSUME NEW i \in 1..(Len(q) - 1), q[1] = q[i + 1] PROVE FALSE
    BY <1>1 DEF QueuedCalls
  <2>1. 1 \in DOMAIN q /\ i + 1 \in DOMAIN q
    BY <1>1
  <2>2. 1 = i + 1
    BY <2>1 DEF Distinct
  <2> QED BY <1>1, <2>2
<1>4. QueuedCalls(q) \subseteq {Head(q)} \cup QueuedCalls(Tail(q))
  <2> SUFFICES ASSUME NEW i \in DOMAIN q, i # 1 PROVE q[i] \in QueuedCalls(Tail(q))
    BY <1>1 DEF QueuedCalls
  <2>1. i - 1 \in DOMAIN Tail(q) /\ Tail(q)[i - 1] = q[i]
    BY <1>1
  <2> QED BY <2>1 DEF QueuedCalls
<1>5. {Head(q)} \cup QueuedCalls(Tail(q)) \subseteq QueuedCalls(q)
  <2>1. 1 \in DOMAIN q /\ \A i \in DOMAIN Tail(q) : i + 1 \in DOMAIN q /\ Tail(q)[i] = q[i + 1]
    BY <1>1
  <2> QED BY <1>1, <2>1 DEF QueuedCalls
<1> QED BY <1>1, <1>2, <1>3, <1>4, <1>5

(* Short paths. *)
LEMMA Paths ==
    ASSUME NEW a, NEW b, NEW c
    PROVE  /\ LegalPath(<<a>> \o <<b>>) <=> can_transition_to(a, b)
           /\ LegalPath(<<a, b>>) <=> can_transition_to(a, b)
           /\ LegalPath(<<a, b>> \o <<c>>) <=> can_transition_to(a, b) /\ can_transition_to(b, c)
           /\ LegalPath(<<a, b, c>>) <=> can_transition_to(a, b) /\ can_transition_to(b, c)
<1>1. <<a>> \o <<b>> = <<a, b>> /\ <<a, b>> \o <<c>> = <<a, b, c>>
  <2> DEFINE S == {a, b, c}
  <2>1. /\ <<a>> \in Seq(S) /\ <<b>> \in Seq(S) /\ <<c>> \in Seq(S)
        /\ <<a, b>> \in Seq(S) /\ <<a, b, c>> \in Seq(S)
    OBVIOUS
  <2>2. <<a>> \o <<b>> = <<a, b>>
    <3> DEFINE s == <<a>> \o <<b>>
               t == <<a, b>>
    <3>1. /\ s \in Seq(S) /\ Len(s) = 2 /\ \A i \in 1..2 : s[i] = IF i <= 1 THEN <<a>>[i] ELSE <<b>>[i - 1]
      BY <2>1, ConcatProperties
    <3>2. t \in Seq(S) /\ Len(t) = 2 /\ t[1] = a /\ t[2] = b
      BY <2>1
    <3>3. s[1] = a /\ s[2] = b
      BY <3>1
    <3> HIDE DEF s, t
    <3>4. \A i \in 1..Len(s) : s[i] = t[i]
      BY <3>1, <3>2, <3>3
    <3>5. s = t
      BY <3>1, <3>2, <3>4, SeqEqual
    <3> QED BY <3>5 DEF s, t
  <2>3. <<a, b>> \o <<c>> = <<a, b, c>>
    <3> DEFINE s == <<a, b>> \o <<c>>
               t == <<a, b, c>>
    <3>1. /\ s \in Seq(S) /\ Len(s) = 3 /\ \A i \in 1..3 : s[i] = IF i <= 2 THEN <<a, b>>[i] ELSE <<c>>[i - 2]
      BY <2>1, ConcatProperties
    <3>2. t \in Seq(S) /\ Len(t) = 3 /\ t[1] = a /\ t[2] = b /\ t[3] = c
      BY <2>1
    <3>3. s[1] = a /\ s[2] = b /\ s[3] = c
      BY <3>1
    <3> HIDE DEF s, t
    <3>4. \A i \in 1..Len(s) : s[i] = t[i]
      BY <3>1, <3>2, <3>3
    <3>5. s = t
      BY <3>1, <3>2, <3>4, SeqEqual
    <3> QED BY <3>5 DEF s, t
  <2> QED BY <2>2, <2>3
<1>2. LegalPath(<<a, b>>) <=> can_transition_to(a, b)
  <2>1. Len(<<a, b>>) - 1 = 1 /\ <<a, b>>[1] = a /\ <<a, b>>[1 + 1] = b
    OBVIOUS
  <2>2. 1..1 = {1}
    OBVIOUS
  <2> QED BY <2>1, <2>2 DEF LegalPath
<1>3. LegalPath(<<a, b, c>>) <=> can_transition_to(a, b) /\ can_transition_to(b, c)
  <2>1. /\ Len(<<a, b, c>>) - 1 = 2 /\ <<a, b, c>>[1] = a /\ <<a, b, c>>[1 + 1] = b
        /\ <<a, b, c>>[2] = b /\ <<a, b, c>>[2 + 1] = c
    OBVIOUS
  <2>2. 1..2 = {1, 2}
    OBVIOUS
  <2> QED BY <2>1, <2>2 DEF LegalPath
<1> QED BY <1>1, <1>2, <1>3

(* The moves the steps make. *)
LEMMA Moves ==
    /\ can_transition_to("Idle", "StreamingStep") /\ can_transition_to("Idle", "AwaitingReconfig")
    /\ can_transition_to("Idle", "Done")
    /\ can_transition_to("Done", "Idle") /\ can_transition_to("Error", "Idle")
    /\ can_transition_to("StreamingStep", "Done")
    /\ can_transition_to("StreamingStep", "AwaitingReconfig")
    /\ can_transition_to("StreamingStep", "AwaitingTool")
    /\ can_transition_to("StreamingStep", "AwaitingApproval")
    /\ can_transition_to("AwaitingTool", "StreamingStep")
    /\ can_transition_to("AwaitingTool", "AwaitingApproval")
    /\ can_transition_to("AwaitingTool", "Done")
    /\ can_transition_to("AwaitingApproval", "AwaitingTool")
    /\ can_transition_to("AwaitingReconfig", "StreamingStep")
    /\ can_transition_to("AwaitingReconfig", "Done")
    /\ \A from \in Waiting : can_transition_to(from, "CancelRecovery")
    /\ can_transition_to("CancelRecovery", "Idle") /\ can_transition_to("CancelRecovery", "Done")
BY DEF can_transition_to, Waiting

-----------------------------------------------------------------------------
(***************************************************************************)
(* Where a step lands.                                                     *)
(***************************************************************************)
AtRest == Resting' /\ nextReq' = nextReq

OnNewBatch ==
    /\ cursor' \in Waiting
    /\ nextReq' \in Nat /\ nextReq' > nextReq
    /\ reqs' = nextReq..(nextReq' - 1)
    /\ cursor' = "AwaitingTool" => Ids(running') = reqs'

Landed == MachineType' /\ Shape' /\ (AtRest \/ OnNewBatch)

(* The types of what a step resets. *)
LEMMA ResetTypes ==
    /\ NoToolPhase => SlotsType' /\ inTools' = FALSE
    /\ NoScratch => SlotsType' /\ ScratchType' /\ inTools' = FALSE
    /\ NoPendingTurn => PendingType' /\ closed' = FALSE
<1>1. NoToolPhase => SlotsType' /\ inTools' = FALSE
  BY DEF NoToolPhase, SlotsType
<1>2. NoScratch => ScratchType' /\ NoToolPhase
  BY BoundsAssumption DEF NoScratch, ScratchType
<1>3. NoPendingTurn => PendingType' /\ closed' = FALSE
  BY BoundsAssumption DEF NoPendingTurn, PendingType
<1> QED BY <1>1, <1>2, <1>3

LEMMA FailLands ==
    ASSUME IInv, NEW why \in {"Driver", "Host", "Restored"}, fail(why)
    PROVE  Landed /\ AtRest /\ committed' = committed /\ running' = {}
<1>1. Resting' /\ nextReq' = nextReq /\ committed' = committed /\ running' = {}
  BY DEF Resting, NoTools, fail, NoScratch, NoToolPhase, NoPendingTurn
<1>2. CursorType'
  BY DEF IInv, MachineType, CursorType, Kinds, fail
<1>3. ScratchType' /\ SlotsType' /\ PendingType' /\ inTools' = FALSE /\ closed' = FALSE
  BY ResetTypes DEF fail
<1> QED BY <1>1, <1>2, <1>3 DEF Landed, AtRest, Shape, MachineType, FlagsType

(* A single new requirement. *)
LEMMA ParkOnOne ==
    ASSUME nextReq \in Nat \ {0}, NEW kind \in Waiting \ {"AwaitingTool"}, ParkOn(kind, {nextReq})
    PROVE  /\ cursor' = kind /\ reason' = "None" /\ reqs' = {nextReq} /\ nextReq' = nextReq + 1
           /\ failure' = "None" /\ reqs' \subseteq 1..(nextReq' - 1) /\ nextReq' \in Nat \ {0}
           /\ OnNewBatch
<1>1. Cardinality({nextReq}) = 1
  BY FS_Singleton
<1>2. /\ cursor' = kind /\ reason' = "None" /\ reqs' = {nextReq} /\ nextReq' = nextReq + 1
      /\ failure' = "None"
  BY <1>1 DEF ParkOn
<1>3. nextReq..(nextReq' - 1) = {nextReq}
  BY <1>2
<1> QED BY <1>2, <1>3 DEF OnNewBatch, Waiting

LEMMA OpenTurnLands ==
    ASSUME IInv, NEW path, LegalPath(path \o <<"StreamingStep">>), open_user_turn(path)
    PROVE  Landed /\ committed' = committed /\ running' = {}
<1>1. /\ ParkOn("StreamingStep", {nextReq})
      /\ scratch' = "InTurn" /\ parked' = << >> /\ steps' = 1
      /\ NoToolPhase
      /\ pend' = "AwaitingAssistant"
      /\ open' = {} /\ answered' = {}
      /\ closed' = FALSE /\ pivots' = 0
      /\ UNCHANGED committed
  BY DEF open_user_turn
<1>2. nextReq \in Nat \ {0} /\ "StreamingStep" \in Waiting \ {"AwaitingTool"}
  BY DEF IInv, MachineType, CursorType, Waiting
<1>3. /\ cursor' = "StreamingStep" /\ reason' = "None" /\ reqs' = {nextReq}
      /\ failure' = "None" /\ reqs' \subseteq 1..(nextReq' - 1) /\ nextReq' \in Nat \ {0}
      /\ OnNewBatch
  BY <1>1, <1>2, ParkOnOne
<1>4. Streaming'
  BY <1>1, <1>3 DEF Streaming, NoTools, NoToolPhase
<1>5. CursorType' /\ ScratchType' /\ PendingType'
  <2>1. CursorType'
    BY <1>3 DEF CursorType, Kinds
  <2>2. PendingType'
    BY <1>1, BoundsAssumption DEF PendingType
  <2>3. ScratchType'
    BY <1>1, BoundsAssumption DEF ScratchType
  <2> QED BY <2>1, <2>2, <2>3
<1>6. SlotsType' /\ FlagsType'
  BY <1>1, ResetTypes DEF FlagsType
<1> QED BY <1>1, <1>3, <1>4, <1>5, <1>6 DEF Landed, Shape, NoToolPhase, MachineType

LEMMA ParkReconfigLands ==
    ASSUME IInv, NEW path, NEW kind \in {"BeginTurn", "Commit"},
           LegalPath(path \o <<"AwaitingReconfig">>), emit_reconfig_effect(path, kind),
           kind = "Commit" => NoTools, UNCHANGED queue
    PROVE  Landed /\ committed' = committed /\ running' = {}
<1>1. /\ ParkOn("AwaitingReconfig", {nextReq})
      /\ scratch' = kind /\ parked' = queue /\ steps' = 0
      /\ NoToolPhase
      /\ IF kind = "BeginTurn" THEN NoPendingTurn
         ELSE pend' = "ReadyToCommit" /\ UNCHANGED <<open, answered, closed, pivots>>
      /\ UNCHANGED committed
  BY DEF emit_reconfig_effect
<1>2. nextReq \in Nat \ {0} /\ "AwaitingReconfig" \in Waiting \ {"AwaitingTool"}
  BY DEF IInv, MachineType, CursorType, Waiting
<1>3. /\ cursor' = "AwaitingReconfig" /\ reason' = "None" /\ reqs' = {nextReq}
      /\ failure' = "None" /\ reqs' \subseteq 1..(nextReq' - 1) /\ nextReq' \in Nat \ {0}
      /\ OnNewBatch
  BY <1>1, <1>2, ParkOnOne
<1>4. open' = {}
  BY <1>1 DEF NoPendingTurn, NoTools
<1>5. Reconfiguring'
  BY <1>1, <1>3, <1>4 DEF Reconfiguring, NoTools, NoToolPhase, NoPendingTurn
<1>6. PendingType' /\ closed' \in BOOLEAN
  <2>1. CASE kind = "BeginTurn"
    BY <1>1, <2>1, ResetTypes
  <2>2. CASE kind = "Commit"
    <3>1. PendingType'
      BY <1>1, <2>2 DEF IInv, MachineType, PendingType
    <3>2. closed' \in BOOLEAN
      BY <1>1, <2>2 DEF IInv, MachineType, FlagsType
    <3> QED BY <3>1, <3>2
  <2> QED BY <2>1, <2>2
<1>7. CursorType' /\ ScratchType'
  <2>1. CursorType'
    BY <1>3 DEF CursorType, Kinds
  <2>2. ScratchType'
    BY <1>1, BoundsAssumption DEF ScratchType, IInv, HistoryType
  <2> QED BY <2>1, <2>2
<1>8. SlotsType' /\ FlagsType'
  BY <1>1, <1>6, ResetTypes DEF FlagsType
<1> QED BY <1>1, <1>3, <1>5, <1>6, <1>7, <1>8 DEF Landed, Shape, NoToolPhase, MachineType

LEMMA CommitLands ==
    ASSUME IInv, NEW path, LegalPath(path \o <<"Done">>), finalize_text_commit(path)
    PROVE  Landed /\ AtRest /\ committed' = committed + 1 /\ running' = {}
<1>1. /\ RestOn("Done", "Completed") /\ NoScratch /\ NoPendingTurn
      /\ committed' = committed + 1
  BY DEF finalize_text_commit
<1>2. Resting' /\ nextReq' = nextReq /\ running' = {}
  BY <1>1 DEF Resting, NoTools, RestOn, NoScratch, NoToolPhase, NoPendingTurn
<1>3. CursorType'
  BY <1>1 DEF IInv, MachineType, CursorType, Kinds, RestOn
<1>4. ScratchType' /\ SlotsType' /\ PendingType' /\ inTools' = FALSE /\ closed' = FALSE
  BY <1>1, ResetTypes
<1> QED BY <1>1, <1>2, <1>3, <1>4 DEF Landed, AtRest, Shape, MachineType, FlagsType

(* A batch of calls is emitted; the queue and the batch are the open calls. *)
LEMMA EmitBatchLands ==
    ASSUME IInv, running = {}, scratch = "InTurn",
           NEW path, LegalPath(path \o <<"AwaitingTool">>),
           NEW batch \in SUBSET Calls, IsFiniteSet(batch), batch # {},
           NEW queued \in Seq(Calls), Distinct(queued),
           batch \cap QueuedCalls(queued) = {},
           NEW opened \in SUBSET Calls, opened = batch \cup QueuedCalls(queued),
           NEW done \in SUBSET Calls, opened \cap done = {},
           emit_tool_batch(path, batch, queued, opened, done)
    PROVE  Landed /\ committed' = committed /\ CallsOf(running') = batch
<1>1. PICK slots \in Batches(batch) :
          /\ ParkOn("AwaitingTool", Ids(slots))
          /\ running' = running \cup slots
          /\ approving' = {}
          /\ approvalQ' = queued
          /\ inTools' = TRUE
          /\ pend' = "AwaitingToolResults"
          /\ open' = opened /\ answered' = done /\ closed' = FALSE
          /\ UNCHANGED <<scratch, parked, steps, pivots, committed>>
  BY DEF emit_tool_batch
<1>2. nextReq \in Nat \ {0} /\ nextReq \in Nat
  BY DEF IInv, MachineType, CursorType
<1> DEFINE n == Cardinality(batch)
<1>3. /\ IsFiniteSet(slots) /\ OneToOne(slots) /\ slots \subseteq Nat \X batch
      /\ CallsOf(slots) = batch /\ n \in Nat
      /\ Ids(slots) = nextReq..(nextReq + n - 1)
      /\ Cardinality(Ids(slots)) = n
  BY <1>2, BatchNumbers
<1>4. n # 0
  BY FS_EmptySet
<1> HIDE DEF n
<1>5. running' = slots /\ slots # {}
  BY <1>1, <1>3 DEF CallsOf
<1>6. /\ cursor' = "AwaitingTool" /\ reason' = "None" /\ failure' = "None"
      /\ nextReq' = nextReq + n /\ reqs' = nextReq..(nextReq' - 1) /\ Ids(running') = reqs'
  <2>1. /\ cursor' = "AwaitingTool" /\ reason' = "None" /\ failure' = "None"
        /\ nextReq' = nextReq + n /\ reqs' = Ids(slots)
    BY <1>1, <1>3 DEF ParkOn
  <2>2. nextReq' - 1 = nextReq + n - 1
    BY <1>2, <1>3, <2>1
  <2> QED BY <1>3, <1>5, <2>1, <2>2
<1>7. nextReq' \in Nat \ {0} /\ nextReq' > nextReq /\ reqs' \subseteq 1..(nextReq' - 1)
  BY <1>2, <1>3, <1>4, <1>6
<1>8. OnNewBatch
  BY <1>6, <1>7 DEF OnNewBatch, Waiting
<1>9. InBatch'
  BY <1>1, <1>3, <1>5, <1>6 DEF InBatch
<1>10. CursorType'
  BY <1>6, <1>7 DEF CursorType, Kinds
<1>11. ScratchType' /\ PendingType'
  BY <1>1 DEF MachineType, IInv, ScratchType, PendingType
<1>12. SlotsType' /\ FlagsType'
  BY <1>1, <1>3, <1>5 DEF SlotsType, FlagsType
<1> QED BY <1>1, <1>3, <1>5, <1>8, <1>9, <1>10, <1>11, <1>12 DEF Landed, Shape, MachineType

(* The next gated call is put to the user. *)
LEMMA ApprovalLands ==
    ASSUME IInv, scratch = "InTurn", NEW path, LegalPath(path \o <<"AwaitingApproval">>),
           NEW queued \in Seq(Calls), Distinct(queued), queued # << >>,
           NEW done \in SUBSET Calls, QueuedCalls(queued) \cap done = {},
           emit_approval(path, queued, QueuedCalls(queued), done)
    PROVE  Landed /\ committed' = committed /\ running' = {}
<1>1. /\ ParkOn("AwaitingApproval", {nextReq})
      /\ approving' = {<<nextReq, Head(queued)>>}
      /\ approvalQ' = Tail(queued)
      /\ running' = {}
      /\ inTools' = TRUE
      /\ pend' = "AwaitingToolResults"
      /\ open' = QueuedCalls(queued) /\ answered' = done /\ closed' = FALSE
      /\ UNCHANGED <<scratch, parked, steps, pivots, committed>>
  BY DEF emit_approval
<1>2. nextReq \in Nat \ {0} /\ nextReq \in Nat /\ "AwaitingApproval" \in Waiting \ {"AwaitingTool"}
  BY DEF IInv, MachineType, CursorType, Waiting
<1>3. /\ cursor' = "AwaitingApproval" /\ reason' = "None" /\ reqs' = {nextReq}
      /\ failure' = "None" /\ reqs' \subseteq 1..(nextReq' - 1) /\ nextReq' \in Nat \ {0}
      /\ OnNewBatch
  BY <1>1, <1>2, ParkOnOne
<1>4. /\ Head(queued) \in Calls /\ Tail(queued) \in Seq(Calls) /\ Distinct(Tail(queued))
      /\ Head(queued) \notin QueuedCalls(Tail(queued))
      /\ QueuedCalls(queued) = {Head(queued)} \cup QueuedCalls(Tail(queued))
  BY QueueHead
<1>5. QueuedCalls(queued) \subseteq Calls
  BY DEF QueuedCalls
<1>6. Asking'
  BY <1>1, <1>3, <1>4 DEF Asking
<1>7. CursorType' /\ ScratchType' /\ PendingType'
  BY <1>1, <1>3, <1>5 DEF MachineType, IInv, CursorType, ScratchType, PendingType, Kinds
<1>8. SlotsType' /\ FlagsType'
  <2>1. approving' \subseteq Nat \X Calls
    BY <1>1, <1>2, <1>4
  <2>2. SlotsType'
    BY <1>1, <1>4, <2>1 DEF SlotsType
  <2> QED BY <1>1, <2>2 DEF FlagsType
<1> QED BY <1>1, <1>3, <1>6, <1>7, <1>8 DEF Landed, Shape, MachineType

(* The phase is over: the next LLM step, or the end of the turn's budget. *)
LEMMA FinishPhaseLands ==
    ASSUME IInv, scratch = "InTurn", NEW path, LegalPath(path \o <<"StreamingStep">>),
           LegalPath(path \o <<"Done">>), finish_tool_phase(path, {})
    PROVE  Landed /\ committed' = committed /\ running' = {}
<1>1. CASE StepLimitReached
  <2>1. /\ RestOn("Done", "StepLimitReached") /\ NoScratch
        /\ pend' = "AwaitingAssistant"
        /\ open' = {} /\ answered' = {} /\ closed' = TRUE
        /\ UNCHANGED <<pivots, committed>>
    BY <1>1 DEF finish_tool_phase, finish_step_limit
  <2>2. Resting' /\ nextReq' = nextReq /\ running' = {}
    BY <2>1 DEF Resting, NoTools, RestOn, NoScratch, NoToolPhase
  <2>3. CursorType' /\ PendingType'
    BY <2>1 DEF IInv, MachineType, CursorType, PendingType, Kinds, RestOn
  <2>4. ScratchType' /\ SlotsType' /\ inTools' = FALSE
    BY <2>1, ResetTypes
  <2> QED BY <2>1, <2>2, <2>3, <2>4 DEF Landed, AtRest, Shape, MachineType, FlagsType
<1>2. CASE ~StepLimitReached
  <2>1. /\ ParkOn("StreamingStep", {nextReq})
        /\ steps' = steps + 1
        /\ NoToolPhase
        /\ pend' = "AwaitingAssistant"
        /\ open' = {} /\ answered' = {} /\ closed' = TRUE
        /\ UNCHANGED <<scratch, parked, pivots, committed>>
    BY <1>2 DEF finish_tool_phase
  <2>2. nextReq \in Nat \ {0} /\ "StreamingStep" \in Waiting \ {"AwaitingTool"}
    BY DEF IInv, MachineType, CursorType, Waiting
  <2>3. /\ cursor' = "StreamingStep" /\ reason' = "None" /\ reqs' = {nextReq}
        /\ failure' = "None" /\ reqs' \subseteq 1..(nextReq' - 1) /\ nextReq' \in Nat \ {0}
        /\ OnNewBatch
    BY <2>1, <2>2, ParkOnOne
  <2>4. steps' \in 0..MaxSteps
    BY <1>2, <2>1, BoundsAssumption DEF StepLimitReached, IInv, MachineType, ScratchType
  <2>5. Streaming'
    BY <2>1, <2>3 DEF Streaming, NoTools, NoToolPhase
  <2>6. CursorType' /\ ScratchType' /\ PendingType'
    BY <2>1, <2>3, <2>4 DEF MachineType, CursorType, ScratchType, PendingType, Kinds, IInv
  <2>7. SlotsType' /\ FlagsType'
    BY <2>1, ResetTypes DEF FlagsType
  <2> QED BY <2>1, <2>3, <2>5, <2>6, <2>7 DEF Landed, Shape, NoToolPhase, MachineType
<1> QED BY <1>1, <1>2

-----------------------------------------------------------------------------
(***************************************************************************)
(* The history.                                                            *)
(***************************************************************************)
Counted ==
    /\ committed' \in Nat /\ turns' \in 0..MaxTurns /\ committed' <= turns'
    /\ cursor' \in Waiting => committed' < turns'

Reconfigured ==
    /\ queue' \in Seq(Requests) /\ admitted' \in Seq(Requests) /\ applied' \in Seq(Requests)
    /\ ReconfigsAppliedInOrder'

Approved ==
    /\ granted' \subseteq Calls /\ ran' \subseteq Calls
    /\ CallsOf(running') \subseteq ran'
    /\ NoRunWithoutApproval'

LEMMA NumberedEarlier ==
    ASSUME NEW m \in Nat, NEW n \in Nat, n >= m, NEW S \in SUBSET (1..(m - 1))
    PROVE  S \subseteq 1..(n - 1) /\ S \cap m..(n - 1) = {}
OBVIOUS

(* Where a step lands, only requirements from nextReq on are awaited. *)
LEMMA LandedInv ==
    ASSUME IInv, Landed, settled' \subseteq 1..(nextReq - 1), Counted, Reconfigured, Approved
    PROVE  IInv'
<1>1. nextReq \in Nat \ {0} /\ nextReq' \in Nat /\ nextReq' >= nextReq
  BY DEF IInv, MachineType, CursorType, Landed, AtRest, OnNewBatch
<1>2. settled' \subseteq 1..(nextReq' - 1) /\ settled' \cap nextReq..(nextReq' - 1) = {}
  BY <1>1, NumberedEarlier
<1>3. AwaitInv'
  <2>1. CASE AtRest
    BY <2>1 DEF AtRest, Resting, AwaitInv
  <2>2. CASE OnNewBatch
    <3>1. reqs' \cap settled' = {}
      BY <1>2, <2>2 DEF OnNewBatch
    <3>2. cursor' = "AwaitingTool" => Ids(running') = reqs'
      BY <2>2 DEF OnNewBatch
    <3> QED BY <3>1, <3>2 DEF AwaitInv
  <2> QED BY <2>1, <2>2 DEF Landed
<1>4. HistoryType'
  BY <1>2 DEF HistoryType, Counted, Reconfigured, Approved
<1> QED BY <1>3, <1>4 DEF IInv, Landed, RunInv, Approved, Reconfigured

(* A step of a waiting turn commits it at most once, and then rests. *)
LEMMA StillCounted ==
    ASSUME IInv, cursor \in Waiting, UNCHANGED turns,
           committed' = committed \/ (committed' = committed + 1 /\ AtRest)
    PROVE  Counted
BY DEF IInv, HistoryType, Counted, AtRest, Resting, Waiting

LEMMA QueueKept ==
    ASSUME IInv, UNCHANGED queueVars
    PROVE  Reconfigured
BY DEF IInv, HistoryType, Reconfigured, ReconfigsAppliedInOrder, queueVars

LEMMA QueueApplied ==
    ASSUME IInv, apply_reconfig_application(queue)
    PROVE  Reconfigured
<1>1. queue \in Seq(Requests) /\ admitted \in Seq(Requests) /\ applied \in Seq(Requests)
  BY DEF IInv, HistoryType
<1>2. queue' = << >> /\ applied' = applied \o queue /\ admitted' = admitted
  BY DEF apply_reconfig_application
<1>3. applied \o queue \in Seq(Requests) /\ << >> \in Seq(Requests)
  BY <1>1, ConcatProperties
<1>4. applied' \o queue' = applied'
  BY <1>2, <1>3, ConcatEmptySeq
<1>5. applied \o queue = admitted
  BY DEF IInv, ReconfigsAppliedInOrder
<1>6. ReconfigsAppliedInOrder'
  BY <1>2, <1>4, <1>5 DEF ReconfigsAppliedInOrder
<1> QED BY <1>1, <1>2, <1>3, <1>6 DEF Reconfigured

LEMMA QueueGrown ==
    ASSUME IInv, NEW request \in Requests, queue' = Append(queue, request),
           admitted' = Append(admitted, request), applied' = applied
    PROVE  Reconfigured
<1>1. queue \in Seq(Requests) /\ admitted \in Seq(Requests) /\ applied \in Seq(Requests)
  BY DEF IInv, HistoryType
<1>2. queue' \in Seq(Requests) /\ admitted' \in Seq(Requests) /\ applied' \in Seq(Requests)
  BY <1>1, AppendProperties
<1>3. applied \o queue = admitted
  BY DEF IInv, ReconfigsAppliedInOrder
<1>4. applied \o Append(queue, request) = Append(applied \o queue, request)
  <2>1. <<request>> \in Seq(Requests) /\ applied \o queue \in Seq(Requests)
    BY <1>1, ConcatProperties
  <2>2. applied \o (queue \o <<request>>) = (applied \o queue) \o <<request>>
    BY <1>1, <2>1, ConcatAssociative
  <2>3. Append(queue, request) = queue \o <<request>>
    BY <1>1, AppendIsConcat
  <2>4. Append(applied \o queue, request) = (applied \o queue) \o <<request>>
    BY <2>1, AppendIsConcat
  <2> QED BY <2>2, <2>3, <2>4
<1>5. ReconfigsAppliedInOrder'
  BY <1>3, <1>4 DEF ReconfigsAppliedInOrder
<1> QED BY <1>2, <1>5 DEF Reconfigured

(* Nothing new runs. *)
LEMMA NothingRuns ==
    ASSUME IInv, running' = {}, ran' = ran, granted \subseteq granted', granted' \subseteq Calls
    PROVE  Approved
<1>1. CallsOf(running') = {}
  BY DEF CallsOf
<1> QED BY <1>1 DEF Approved, IInv, HistoryType, NoRunWithoutApproval

LEMMA Settled ==
    ASSUME IInv, NEW id \in reqs
    PROVE  settled \cup {id} \subseteq 1..(nextReq - 1)
BY DEF IInv, HistoryType, MachineType, CursorType

-----------------------------------------------------------------------------
(***************************************************************************)
(* Steps.                                                                  *)
(***************************************************************************)

(* What the cursor says of the rest. *)
LEMMA ShapeByCursor ==
    ASSUME IInv
    PROVE  /\ cursor \notin Waiting => Resting
           /\ cursor = "StreamingStep" => Streaming
           /\ cursor = "AwaitingTool" => InBatch
           /\ cursor = "AwaitingApproval" => Asking
           /\ cursor = "AwaitingReconfig" => Reconfiguring
BY DEF IInv, Shape, Resting, Streaming, InBatch, Asking, Reconfiguring, Waiting

(* An accepted Resume, as TurnProtocol sees it. *)
ResumeAccepted(id) ==
    /\ id \in reqs /\ id \notin settled
    /\ settled' = settled \cup {id}
    /\ \/ AtRest
       \/ OnNewBatch /\ reqs \ settled = {id}
       \/ reqs' = reqs /\ nextReq' = nextReq

LEMMA LandedAnswers ==
    ASSUME Landed, NEW id, reqs \ settled = {id}, settled' = settled \cup {id}
    PROVE  ResumeAccepted(id)
BY DEF Landed, ResumeAccepted

LEMMA BeginUserTurn ==
    ASSUME IInv, begin_user_turn
    PROVE  IInv' /\ Landed /\ settled' = settled
<1> DEFINE path == IF cursor = "Idle" THEN <<"Idle">> ELSE <<cursor, "Idle">>
<1>1. Resting /\ running = {}
  BY ShapeByCursor DEF begin_user_turn, Resting, NoTools
<1>2. LegalPath(path \o <<"StreamingStep">>) /\ LegalPath(path \o <<"AwaitingReconfig">>)
  <2>1. CASE cursor = "Idle"
    BY <2>1, Paths, Moves
  <2>2. CASE cursor # "Idle"
    <3>1. cursor \in {"Done", "Error"}
      BY <1>1, <2>2 DEF Resting
    <3> QED BY <2>2, <3>1, Paths, Moves
  <2> QED BY <2>1, <2>2
<1> HIDE DEF path
<1>3. /\ turns < MaxTurns /\ turns' = turns + 1
      /\ UNCHANGED <<granted, ran, settled>>
      /\ \/ /\ apply_reconfig_application(queue)
            /\ open_user_turn(path) \/ fail("Host")
         \/ /\ emit_reconfig_effect(path, "BeginTurn") \/ fail("Host")
            /\ UNCHANGED queueVars
  BY DEF begin_user_turn, path
<1>4. Landed /\ committed' = committed /\ running' = {}
  <2>1. CASE open_user_turn(path)
    BY <1>2, <2>1, OpenTurnLands
  <2>2. CASE fail("Host")
    BY <2>2, FailLands
  <2>3. CASE emit_reconfig_effect(path, "BeginTurn") /\ UNCHANGED queueVars
    BY <1>2, <2>3, ParkReconfigLands DEF queueVars
  <2> QED BY <1>3, <2>1, <2>2, <2>3
<1>5. Counted
  BY <1>3, <1>4, BoundsAssumption DEF IInv, HistoryType, Counted
<1>6. Reconfigured
  BY <1>3, QueueApplied, QueueKept
<1>7. Approved
  BY <1>3, <1>4, NothingRuns DEF IInv, HistoryType
<1>8. settled' \subseteq 1..(nextReq - 1)
  BY <1>3 DEF IInv, HistoryType
<1> QED BY <1>3, <1>4, <1>5, <1>6, <1>7, <1>8, LandedInv

LEMMA InjectPivot ==
    ASSUME IInv, inject_pivot
    PROVE  IInv' /\ UNCHANGED <<reqs, nextReq, settled>>
<1>1. /\ pivots' = pivots + 1 /\ pivots < MaxPivots
      /\ UNCHANGED <<cursor, reason, reqs, nextReq, scratch, parked, steps, inTools, approvalQ,
                     running, approving, pend, open, answered, closed, committed, queue,
                     admitted, applied, turns, granted, ran, settled, failure>>
  BY DEF inject_pivot, cursorVars, scratchVars, queueVars
<1>2. PendingType'
  BY <1>1, BoundsAssumption DEF IInv, MachineType, PendingType
<1>3. CursorType' /\ ScratchType' /\ FlagsType' /\ SlotsType'
  BY <1>1 DEF IInv, MachineType, CursorType, ScratchType, FlagsType, SlotsType
<1>4. Shape'
  BY <1>1 DEF IInv, Shape, Resting, Streaming, InBatch, Asking, Reconfiguring, NoTools
<1> QED
  BY <1>1, <1>2, <1>3, <1>4
     DEF IInv, MachineType, HistoryType, AwaitInv, RunInv, NoRunWithoutApproval,
         ReconfigsAppliedInOrder

LEMMA ResumeLlm ==
    ASSUME IInv, NEW id, NEW reply, resume_llm(id, reply)
    PROVE  IInv' /\ ResumeAccepted(id)
<1>1. cursor = "StreamingStep" /\ cursor \in Waiting /\ Streaming
  BY ShapeByCursor DEF resume_llm, Waiting
<1>2. id \in reqs /\ reqs \ settled = {id}
  BY <1>1 DEF resume_llm, IsExpected, Streaming, IInv, AwaitInv
<1>3. /\ LegalPath(<<cursor>> \o <<"Done">>) /\ LegalPath(<<cursor>> \o <<"AwaitingReconfig">>)
      /\ LegalPath(<<cursor>> \o <<"AwaitingTool">>)
      /\ LegalPath(<<cursor>> \o <<"AwaitingApproval">>)
  BY <1>1, Paths, Moves
<1> DEFINE Result ==
             /\ Landed /\ Reconfigured
             /\ committed' = committed \/ (committed' = committed + 1 /\ AtRest)
             /\ CallsOf(running') \subseteq Calls \ Gated
<1>4. running' = {} => CallsOf(running') = {}
  BY DEF CallsOf
<1>5. ASSUME NEW why \in {"Driver", "Host"}, fail(why), UNCHANGED queueVars
      PROVE  Result
  BY <1>4, <1>5, FailLands, QueueKept
<1>6. ASSUME commit_text_turn
      PROVE  Result
  <2>1. CASE apply_reconfig_application(queue) /\ finalize_text_commit(<<cursor>>)
    BY <1>3, <1>4, <2>1, CommitLands, QueueApplied
  <2>2. CASE emit_reconfig_effect(<<cursor>>, "Commit") /\ UNCHANGED queueVars
    BY <1>1, <1>3, <1>4, <2>2, ParkReconfigLands, QueueKept DEF queueVars, Streaming
  <2>3. CASE fail("Host") /\ UNCHANGED queueVars
    BY <1>5, <2>3
  <2> QED BY <1>6, <2>1, <2>2, <2>3 DEF commit_text_turn
<1>7. ASSUME NEW batch \in FreeBatches, NEW gatedCalls \in GatedQueues,
             batch # {} \/ gatedCalls # << >>, begin_tool_phase(batch, gatedCalls)
      PROVE  Result
  <2> DEFINE opened == batch \cup QueuedCalls(gatedCalls)
  <2>1. /\ batch \subseteq Calls \ Gated /\ IsFiniteSet(batch)
        /\ gatedCalls \in Seq(Gated) /\ Distinct(gatedCalls)
    BY RepliesAssumption DEF Distinct
  <2>2. gatedCalls \in Seq(Calls) /\ QueuedCalls(gatedCalls) \subseteq Gated
    BY <2>1, GatedAssumption DEF QueuedCalls
  <2>3. opened \subseteq Calls /\ batch \cap QueuedCalls(gatedCalls) = {}
    BY <2>1, <2>2, GatedAssumption
  <2>4. CASE batch # {} /\ emit_tool_batch(<<cursor>>, batch, gatedCalls, opened, {})
    <3>1. running = {} /\ scratch = "InTurn"
      BY <1>1 DEF Streaming, NoTools
    <3>2. {} \in SUBSET Calls /\ opened \cap {} = {}
      OBVIOUS
    <3> HIDE DEF opened
    <3>3. opened = batch \cup QueuedCalls(gatedCalls)
      BY DEF opened
    <3>4. Landed /\ committed' = committed /\ CallsOf(running') = batch
      BY <1>3, <2>1, <2>2, <2>3, <2>4, <3>1, <3>2, <3>3, EmitBatchLands
    <3> QED BY <1>7, <2>1, <3>4, QueueKept DEF begin_tool_phase
  <2>5. CASE batch = {} /\ emit_approval(<<cursor>>, gatedCalls, opened, {})
    <3>1. scratch = "InTurn" /\ opened = QueuedCalls(gatedCalls) /\ gatedCalls # << >>
      BY <1>1, <1>7, <2>5 DEF Streaming
    <3>2. {} \in SUBSET Calls /\ QueuedCalls(gatedCalls) \cap {} = {}
      OBVIOUS
    <3>3. emit_approval(<<cursor>>, gatedCalls, QueuedCalls(gatedCalls), {})
      BY <2>5, <3>1
    <3>4. Landed /\ committed' = committed /\ running' = {}
      BY <1>3, <2>1, <2>2, <3>1, <3>2, <3>3, ApprovalLands
    <3> QED BY <1>4, <1>7, <3>4, QueueKept DEF begin_tool_phase
  <2>6. CASE fail("Host")
    BY <1>5, <1>7, <2>6 DEF begin_tool_phase
  <2> QED BY <1>7, <2>4, <2>5, <2>6 DEF begin_tool_phase
<1>8. Result
  <2>1. scratch = "InTurn"
    BY <1>1 DEF Streaming
  <2> QED BY <1>5, <1>6, <1>7, <2>1 DEF resume_llm
<1>9. settled' = settled \cup {id} /\ granted' = {} /\ ran' = CallsOf(running') /\ UNCHANGED turns
  BY DEF resume_llm
<1>10. Counted
  BY <1>1, <1>8, <1>9, StillCounted
<1>11. Approved
  BY <1>8, <1>9, GatedAssumption DEF Approved, NoRunWithoutApproval
<1>12. settled' \subseteq 1..(nextReq - 1)
  BY <1>2, <1>9, Settled
<1> QED BY <1>2, <1>8, <1>9, <1>10, <1>11, <1>12, LandedInv, LandedAnswers

(* The last call of a batch or of an approval is answered. *)
LEMMA AdvanceLands ==
    ASSUME IInv, scratch = "InTurn", NEW path,
           LegalPath(path \o <<"AwaitingApproval">>), LegalPath(path \o <<"StreamingStep">>),
           LegalPath(path \o <<"Done">>),
           Distinct(approvalQ),
           NEW done \in SUBSET Calls, QueuedCalls(approvalQ) \cap done = {},
           advance_tool_phase(path, approvalQ, QueuedCalls(approvalQ), done)
    PROVE  Landed /\ committed' = committed /\ running' = {}
<1>1. approvalQ \in Seq(Calls)
  BY DEF IInv, MachineType, SlotsType
<1>2. CASE approvalQ # << >> /\ emit_approval(path, approvalQ, QueuedCalls(approvalQ), done)
  BY <1>1, <1>2, ApprovalLands
<1>3. CASE approvalQ = << >> /\ finish_tool_phase(path, QueuedCalls(approvalQ))
  <2>1. QueuedCalls(approvalQ) = {}
    BY <1>3 DEF QueuedCalls
  <2> QED BY <1>3, <2>1, FinishPhaseLands
<1>4. CASE fail("Host")
  BY <1>4, FailLands
<1> QED BY <1>2, <1>3, <1>4 DEF advance_tool_phase

(* One slot of a batch is answered. *)
LEMMA SlotAnswered ==
    ASSUME NEW slots, OneToOne(slots), NEW slot \in slots
    PROVE  /\ OneToOne(slots \ {slot})
           /\ Ids(slots \ {slot}) = Ids(slots) \ {slot[1]}
           /\ CallsOf(slots \ {slot}) = CallsOf(slots) \ {slot[2]}
           /\ slot[1] \in Ids(slots) /\ slot[2] \in CallsOf(slots)
           /\ slots \ {slot} # {} => CallsOf(slots \ {slot}) # {}
BY DEF OneToOne, Ids, CallsOf

LEMMA ToolStays ==
    ASSUME IInv, InBatch, NEW slot \in running, running \ {slot} # {},
           running' = running \ {slot}, open' = open \ {slot[2]},
           answered' = answered \cup {slot[2]},
           pend' = IF open \ {slot[2]} = {} THEN "AwaitingAssistant" ELSE pend,
           UNCHANGED <<cursorVars, scratch, parked, steps, inTools, approvalQ, approving, closed,
                       pivots, committed, failure>>,
           Settle(slot[1], {}), UNCHANGED <<queueVars, turns>>
    PROVE  IInv'
<1> DEFINE left == running \ {slot}
<1>1. UNCHANGED <<cursor, reason, reqs, nextReq, scratch, parked, steps, inTools, approvalQ,
                  approving, closed, pivots, committed, failure, queue, admitted, applied, turns>>
  BY DEF cursorVars, queueVars
<1>2. /\ OneToOne(left) /\ Ids(left) = Ids(running) \ {slot[1]}
      /\ CallsOf(left) = CallsOf(running) \ {slot[2]}
      /\ slot[1] \in Ids(running) /\ slot[2] \in CallsOf(running)
      /\ CallsOf(left) # {}
  BY SlotAnswered DEF InBatch
<1>3. IsFiniteSet(left)
  BY FS_Subset DEF InBatch
<1>4. /\ open' = CallsOf(left) \cup QueuedCalls(approvalQ)
      /\ CallsOf(left) \cap QueuedCalls(approvalQ) = {}
      /\ open' \cap answered' = {} /\ open' # {}
  BY <1>2 DEF InBatch
<1>5. pend' = "AwaitingToolResults"
  BY <1>4 DEF InBatch
<1>6. InBatch'
  BY <1>1, <1>2, <1>3, <1>4, <1>5 DEF InBatch
<1>7. slot[2] \in Calls /\ CallsOf(running) \subseteq Calls
  BY DEF IInv, MachineType, SlotsType, CallsOf
<1>8. CursorType' /\ ScratchType' /\ FlagsType'
  BY <1>1 DEF IInv, MachineType, CursorType, ScratchType, FlagsType
<1>9. PendingType' /\ SlotsType'
  BY <1>1, <1>5, <1>7 DEF IInv, MachineType, PendingType, SlotsType
<1>10. reqs' \ settled' = (reqs \ settled) \ {slot[1]} /\ slot[1] \in reqs
  BY <1>1, <1>2 DEF Settle, IInv, AwaitInv, InBatch
<1>11. AwaitInv'
  BY <1>1, <1>2, <1>10 DEF IInv, AwaitInv, InBatch
<1>12. ran' = ran /\ granted' = granted /\ CallsOf(running') \subseteq ran'
  BY <1>2 DEF Settle, IInv, RunInv
<1>13. settled' \subseteq 1..(nextReq' - 1)
  BY <1>1, <1>10, Settled DEF Settle
<1>14. HistoryType'
  BY <1>1, <1>12, <1>13 DEF IInv, HistoryType
<1> QED
  BY <1>1, <1>6, <1>8, <1>9, <1>11, <1>12, <1>14
     DEF IInv, MachineType, Shape, RunInv, NoRunWithoutApproval, ReconfigsAppliedInOrder

LEMMA ResumeTool ==
    ASSUME IInv, NEW id, NEW result, resume_tool(id, result)
    PROVE  IInv' /\ ResumeAccepted(id)
<1>1. /\ cursor = "AwaitingTool" /\ cursor \in Waiting /\ InBatch
      /\ id \in Ids(running) /\ inTools = TRUE
      /\ Settle(id, {}) /\ UNCHANGED <<queueVars, turns>>
  BY ShapeByCursor DEF resume_tool, InBatch, Waiting
<1>2. Ids(running) = reqs \ settled /\ id \in reqs /\ id \notin settled
  BY <1>1 DEF IInv, AwaitInv
<1>3. settled' = settled \cup {id} /\ settled' \subseteq 1..(nextReq - 1)
  BY <1>1, <1>2, Settled DEF Settle
<1>4. ASSUME Landed, committed' = committed, running' = {}
      PROVE  IInv'
  <2>1. ran' = ran /\ granted' = granted
    BY <1>1, <1>4 DEF Settle, CallsOf
  <2>2. Counted
    BY <1>1, <1>4, StillCounted
  <2>3. Approved
    BY <1>4, <2>1, NothingRuns DEF IInv, HistoryType
  <2> QED BY <1>1, <1>3, <1>4, <2>2, <2>3, QueueKept, LandedInv
<1>5. CASE fail("Driver")
  <2>1. Landed /\ AtRest /\ committed' = committed /\ running' = {}
    BY <1>5, FailLands
  <2> QED BY <1>2, <1>3, <1>4, <2>1 DEF ResumeAccepted
<1>6. ASSUME NEW slot \in running, slot[1] = id, slot[2] \notin open
      PROVE  FALSE
  BY <1>1, <1>6, SlotAnswered DEF InBatch
<1>7. ASSUME NEW slot \in running, slot[1] = id, running \ {slot} = {},
             advance_tool_phase(<<cursor>>, approvalQ, open \ {slot[2]}, answered \cup {slot[2]})
      PROVE  IInv' /\ ResumeAccepted(id)
  <2>1. CallsOf(running) = {slot[2]} /\ Ids(running) = {id} /\ slot[2] \in Calls
    BY <1>7 DEF CallsOf, Ids, IInv, MachineType, SlotsType
  <2>2. /\ open \ {slot[2]} = QueuedCalls(approvalQ) /\ Distinct(approvalQ)
        /\ QueuedCalls(approvalQ) \cap (answered \cup {slot[2]}) = {}
        /\ scratch = "InTurn" /\ answered \cup {slot[2]} \in SUBSET Calls
    BY <1>1, <2>1 DEF InBatch, IInv, MachineType, PendingType
  <2>3. /\ LegalPath(<<cursor>> \o <<"AwaitingApproval">>)
        /\ LegalPath(<<cursor>> \o <<"StreamingStep">>) /\ LegalPath(<<cursor>> \o <<"Done">>)
    BY <1>1, Paths, Moves
  <2>4. advance_tool_phase(<<cursor>>, approvalQ, QueuedCalls(approvalQ), answered \cup {slot[2]})
    BY <1>7, <2>2
  <2>5. Landed /\ committed' = committed /\ running' = {}
    BY <2>2, <2>3, <2>4, AdvanceLands
  <2> QED BY <1>2, <1>3, <1>4, <2>1, <2>5, LandedAnswers
<1>8. ASSUME NEW slot \in running, slot[1] = id, running \ {slot} # {},
             running' = running \ {slot}, open' = open \ {slot[2]},
             answered' = answered \cup {slot[2]},
             pend' = IF open \ {slot[2]} = {} THEN "AwaitingAssistant" ELSE pend,
             UNCHANGED <<cursorVars, scratch, parked, steps, inTools, approvalQ, approving, closed,
                         pivots, committed, failure>>
      PROVE  IInv' /\ ResumeAccepted(id)
  <2>1. IInv'
    BY <1>1, <1>8, ToolStays
  <2>2. reqs' = reqs /\ nextReq' = nextReq
    BY <1>8 DEF cursorVars
  <2> QED BY <1>2, <1>3, <2>1, <2>2 DEF ResumeAccepted
<1>9. approving = {}
  BY <1>1 DEF InBatch
<1> QED BY <1>1, <1>5, <1>6, <1>7, <1>8, <1>9 DEF resume_tool, tool_batch_idle

LEMMA ResumeApproval ==
    ASSUME IInv, NEW id, NEW decision, resume_approval(id, decision)
    PROVE  IInv' /\ ResumeAccepted(id)
<1>1. /\ cursor = "AwaitingApproval" /\ cursor \in Waiting /\ Asking
      /\ UNCHANGED <<queueVars, turns>>
      /\ Settle(id, IF decision = "ok" THEN CallsOf(approving) ELSE {})
  BY ShapeByCursor DEF resume_approval, Waiting
<1>2. PICK r \in reqs, c \in Calls :
          /\ reqs = {r} /\ approving = {<<r, c>>}
          /\ c \notin QueuedCalls(approvalQ)
          /\ {c} \cup QueuedCalls(approvalQ) = open
  BY <1>1 DEF Asking
<1>3. /\ scratch = "InTurn" /\ running = {} /\ Distinct(approvalQ) /\ open \cap answered = {}
      /\ approvalQ \in Seq(Calls) /\ open \subseteq Calls /\ answered \subseteq Calls
  BY <1>1 DEF Asking, IInv, MachineType, SlotsType, PendingType
<1>4. id = r /\ reqs \ settled = {id} /\ CallsOf(approving) = {c}
  BY <1>1, <1>2 DEF resume_approval, IsExpected, IInv, AwaitInv, CallsOf
<1>5. settled' = settled \cup {id} /\ settled' \subseteq 1..(nextReq - 1)
  BY <1>1, <1>2, <1>4, Settled DEF Settle
<1>6. granted \subseteq granted' /\ granted' \subseteq Calls
  BY <1>1, <1>4 DEF Settle, IInv, HistoryType
<1>7. ASSUME Landed, committed' = committed, Approved
      PROVE  IInv' /\ ResumeAccepted(id)
  BY <1>1, <1>4, <1>5, <1>7, StillCounted, QueueKept, LandedInv, LandedAnswers
<1>8. ASSUME running' = {}
      PROVE  Approved
  <2>1. ran' = ran
    BY <1>1, <1>8 DEF Settle, CallsOf
  <2> QED BY <1>6, <1>8, <2>1, NothingRuns
<1>9. ASSUME NEW why \in {"Driver", "Host"}, fail(why)
      PROVE  IInv' /\ ResumeAccepted(id)
  BY <1>7, <1>8, <1>9, FailLands
<1>10. ASSUME decision = "ok", emit_tool_batch(<<cursor>>, {c}, approvalQ, open, answered)
       PROVE  IInv' /\ ResumeAccepted(id)
  <2>1. LegalPath(<<cursor>> \o <<"AwaitingTool">>)
    BY <1>1, Paths, Moves
  <2>2. IsFiniteSet({c}) /\ {c} # {} /\ {c} \in SUBSET Calls /\ {c} \cap QueuedCalls(approvalQ) = {}
    BY <1>2, FS_Singleton
  <2>3. Landed /\ committed' = committed /\ CallsOf(running') = {c}
    BY <1>2, <1>3, <1>10, <2>1, <2>2, EmitBatchLands
  <2>4. ran' = ran \cup {c} /\ granted' = granted \cup {c}
    BY <1>1, <1>4, <1>10, <2>3 DEF Settle
  <2>5. Approved
    BY <1>2, <2>3, <2>4 DEF Approved, IInv, HistoryType, NoRunWithoutApproval
  <2> QED BY <1>7, <2>3, <2>5
<1>11. ASSUME advance_tool_phase(DenialPath, approvalQ, open \ {c}, answered \cup {c})
       PROVE  IInv' /\ ResumeAccepted(id)
  <2>1. /\ LegalPath(DenialPath \o <<"AwaitingApproval">>)
        /\ LegalPath(DenialPath \o <<"StreamingStep">>) /\ LegalPath(DenialPath \o <<"Done">>)
    BY <1>1, Paths, Moves DEF DenialPath
  <2>2. /\ open \ {c} = QueuedCalls(approvalQ)
        /\ QueuedCalls(approvalQ) \cap (answered \cup {c}) = {}
        /\ answered \cup {c} \in SUBSET Calls
    BY <1>2, <1>3
  <2>3. advance_tool_phase(DenialPath, approvalQ, QueuedCalls(approvalQ), answered \cup {c})
    BY <1>11, <2>2
  <2>4. Landed /\ committed' = committed /\ running' = {}
    BY <1>3, <2>1, <2>2, <2>3, AdvanceLands
  <2> QED BY <1>7, <1>8, <2>4
<1>12. approving # {} /\ \A slot \in approving : slot[2] = c
  BY <1>2
<1>13. c \in open
  BY <1>2
<1> QED BY <1>9, <1>10, <1>11, <1>12, <1>13 DEF resume_approval

LEMMA ResumeReconfig ==
    ASSUME IInv, NEW id, NEW result, resume_reconfig(id, result)
    PROVE  IInv' /\ ResumeAccepted(id)
<1>1. /\ cursor = "AwaitingReconfig" /\ cursor \in Waiting /\ Reconfiguring
      /\ UNCHANGED turns /\ Settle(id, {})
  BY ShapeByCursor DEF resume_reconfig, Waiting
<1>2. id \in reqs /\ reqs \ settled = {id}
  BY <1>1 DEF resume_reconfig, IsExpected, Reconfiguring, IInv, AwaitInv
<1>3. settled' = settled \cup {id} /\ settled' \subseteq 1..(nextReq - 1)
  BY <1>1, <1>2, Settled DEF Settle
<1>4. LegalPath(<<cursor>> \o <<"StreamingStep">>) /\ LegalPath(<<cursor>> \o <<"Done">>)
  BY <1>1, Paths, Moves
<1> DEFINE Result ==
             /\ Landed /\ Reconfigured /\ running' = {}
             /\ committed' = committed \/ (committed' = committed + 1 /\ AtRest)
<1>5. ASSUME \E why \in {"Driver", "Restored"} : fail(why) /\ UNCHANGED queueVars
      PROVE  Result
  BY <1>5, FailLands, QueueKept
<1>6. ASSUME scratch # "None", apply_reconfig_application(parked)
      PROVE  Reconfigured
  BY <1>1, <1>6, QueueApplied DEF Reconfiguring
<1>7. ASSUME scratch = "BeginTurn" /\ apply_reconfig_application(parked) /\ open_user_turn(<<cursor>>)
      PROVE  Result
  BY <1>4, <1>6, <1>7, OpenTurnLands
<1>8. ASSUME scratch = "BeginTurn" /\ apply_reconfig_application(parked) /\ fail("Host")
      PROVE  Result
  BY <1>6, <1>8, FailLands
<1>9. ASSUME scratch = "Commit" /\ apply_reconfig_application(parked) /\ finalize_text_commit(<<cursor>>)
      PROVE  Result
  BY <1>4, <1>6, <1>9, CommitLands
<1>10. Result
  BY <1>5, <1>7, <1>8, <1>9 DEF resume_reconfig
<1>11. ran' = ran /\ granted' = granted
  BY <1>1, <1>10 DEF Settle, CallsOf
<1>12. Counted
  BY <1>1, <1>10, StillCounted
<1>13. Approved
  BY <1>10, <1>11, NothingRuns DEF IInv, HistoryType
<1> QED BY <1>2, <1>3, <1>10, <1>12, <1>13, LandedInv, LandedAnswers

LEMMA Resume ==
    ASSUME IInv, NEW id, NEW result, resume(id, result)
    PROVE  IInv' /\ ResumeAccepted(id)
BY ResumeLlm, ResumeTool, ResumeApproval, ResumeReconfig DEF resume

(* A turn is closed without an answer. *)
LEMMA CancelLands ==
    ASSUME IInv, cursor \in Waiting, finish_cancel, PendingType', closed' \in BOOLEAN, open' = {},
           pend' \in {"NoPending", "AwaitingAssistant"}
    PROVE  Landed /\ AtRest /\ running' = {} /\ cursor' = "Idle"
<1>1. CancelPathIsLegal
  BY Paths, Moves DEF CancelPathIsLegal
<1>2. NoScratch /\ RestOn("Idle", "None")
  BY <1>1 DEF finish_cancel
<1>3. Resting' /\ nextReq' = nextReq /\ running' = {}
  BY <1>2 DEF Resting, NoTools, RestOn, NoScratch, NoToolPhase
<1>4. CursorType'
  BY <1>2 DEF IInv, MachineType, CursorType, Kinds, RestOn
<1>5. ScratchType' /\ SlotsType' /\ inTools' = FALSE
  BY <1>2, ResetTypes
<1>6. cursor' = "Idle"
  BY <1>2 DEF RestOn
<1> QED BY <1>3, <1>4, <1>5, <1>6 DEF Landed, AtRest, Shape, MachineType, FlagsType

LEMMA Abandon ==
    ASSUME IInv, NEW id, abandon(id)
    PROVE  /\ IInv' /\ AtRest /\ cursor' = "Idle"
           /\ id \in reqs /\ settled' = settled \cup {id} /\ cursor \in Waiting
<1>1. /\ cursor \in Waiting /\ id \in reqs
      /\ settled' = settled \cup {id} /\ settled' \subseteq 1..(nextReq - 1)
      /\ UNCHANGED <<queueVars, turns, granted, ran>>
  BY Settled DEF abandon
<1> DEFINE Result ==
             /\ Landed /\ AtRest /\ running' = {} /\ cursor' = "Idle"
             /\ committed' \in {committed, committed + 1}
<1>2. ASSUME abandon_llm_step PROVE Result
  <2>1. PendingType' /\ closed' = FALSE
    BY <1>2, ResetTypes DEF abandon_llm_step
  <2> QED BY <1>1, <1>2, <2>1, CancelLands DEF abandon_llm_step, NoPendingTurn
<1>3. ASSUME abandon_tool_phase PROVE Result
  <2>1. inTools /\ open_cancelled_results = open
    <3>1. CASE cursor = "AwaitingTool"
      <4>1. InBatch
        BY <3>1, ShapeByCursor
      <4>2. CallsOf(approving) = {}
        BY <4>1 DEF InBatch, CallsOf
      <4> QED BY <4>1, <4>2 DEF InBatch, open_cancelled_results
    <3>2. CASE cursor = "AwaitingApproval"
      <4>1. Asking
        BY <3>2, ShapeByCursor
      <4>2. CallsOf(running) = {}
        BY <4>1 DEF Asking, CallsOf
      <4>3. PICK r \in reqs, c \in Calls :
                approving = {<<r, c>>} /\ {c} \cup QueuedCalls(approvalQ) = open
        BY <4>1 DEF Asking
      <4>4. CallsOf(approving) = {c}
        BY <4>3 DEF CallsOf
      <4> QED BY <4>1, <4>2, <4>3, <4>4 DEF Asking, open_cancelled_results
    <3> QED BY <1>3, <3>1, <3>2 DEF abandon_tool_phase
  <2>2. CancelPathIsLegal
    BY <1>1, Paths, Moves DEF CancelPathIsLegal
  <2>3. /\ pend' = "AwaitingAssistant" /\ open' = {} /\ answered' = {} /\ closed' = TRUE
        /\ finish_cancel /\ UNCHANGED <<pivots, committed>>
    BY <1>3, <2>1, <2>2 DEF abandon_tool_phase
  <2>4. PendingType'
    BY <2>3 DEF IInv, MachineType, PendingType
  <2> QED BY <1>1, <2>3, <2>4, CancelLands
<1>4. ASSUME abandon_reconfig PROVE Result
  <2>1. PendingType' /\ closed' = FALSE
    BY <1>4, ResetTypes DEF abandon_reconfig
  <2> QED BY <1>1, <1>4, <2>1, CancelLands DEF abandon_reconfig, NoPendingTurn
<1>5. Result
  BY <1>2, <1>3, <1>4 DEF abandon
<1>6. Counted
  BY <1>1, <1>5, StillCounted
<1>7. Approved
  BY <1>1, <1>5, NothingRuns DEF IInv, HistoryType
<1> QED BY <1>1, <1>5, <1>6, <1>7, QueueKept, LandedInv

LEMMA BudgetExhausted ==
    ASSUME IInv, finish_budget_exhausted
    PROVE  /\ IInv' /\ AtRest /\ settled' = settled
           /\ cursor \in Waiting \cup {"Idle"}
           /\ cursor' = "Done" /\ reason' = "BudgetExhausted"
<1> DEFINE path == IF cursor \in {"Idle", "CancelRecovery"} THEN <<cursor, "Done">>
                   ELSE <<cursor, "CancelRecovery", "Done">>
<1>1. cursor \in Waiting \/ cursor = "Idle"
  BY ShapeByCursor DEF finish_budget_exhausted, Resting
<1>2. LegalPath(path)
  <2>1. CASE cursor = "Idle"
    BY <2>1, Paths, Moves
  <2>2. CASE cursor \in Waiting
    BY <2>2, Paths, Moves DEF Waiting
  <2> QED BY <1>1, <2>1, <2>2
<1> HIDE DEF path
<1>3. /\ NoPendingTurn /\ NoScratch
      /\ IF LegalPath(path) THEN RestOn("Done", "BudgetExhausted") ELSE FailedRest
      /\ UNCHANGED <<committed, queueVars, turns, granted, ran, settled>>
  BY DEF finish_budget_exhausted, path
<1>4. RestOn("Done", "BudgetExhausted")
  BY <1>2, <1>3
<1>5. Resting' /\ nextReq' = nextReq /\ running' = {}
  BY <1>3, <1>4 DEF Resting, NoTools, RestOn, NoScratch, NoToolPhase, NoPendingTurn
<1>6. CursorType'
  BY <1>4 DEF IInv, MachineType, CursorType, Kinds, RestOn
<1>7. ScratchType' /\ SlotsType' /\ PendingType' /\ inTools' = FALSE /\ closed' = FALSE
  BY <1>3, ResetTypes
<1>8. Landed /\ AtRest
  BY <1>5, <1>6, <1>7 DEF Landed, AtRest, Shape, MachineType, FlagsType
<1>9. Counted
  BY <1>3, <1>5 DEF IInv, HistoryType, Counted, Resting, Waiting
<1>10. Approved
  BY <1>3, <1>5, NothingRuns DEF IInv, HistoryType
<1>11. settled' \subseteq 1..(nextReq - 1)
  BY <1>3 DEF IInv, HistoryType
<1>12. cursor' = "Done" /\ reason' = "BudgetExhausted"
  BY <1>4 DEF RestOn
<1> QED BY <1>1, <1>3, <1>8, <1>9, <1>10, <1>11, <1>12, QueueKept, LandedInv

LEMMA Reconfigure ==
    ASSUME IInv, NEW request \in Requests, reconfigure(request)
    PROVE  IInv' /\ UNCHANGED <<reqs, nextReq, settled>>
<1>1. /\ cursor # "AwaitingReconfig"
      /\ queue' = Append(queue, request) /\ admitted' = Append(admitted, request)
      /\ UNCHANGED <<cursor, reason, reqs, nextReq, scratch, parked, steps, inTools, approvalQ,
                     running, approving, pend, open, answered, closed, pivots, committed,
                     applied, turns, granted, ran, settled, failure>>
  BY DEF reconfigure, cursorVars, scratchVars, pendingVars
<1>2. Reconfigured
  BY <1>1, QueueGrown
<1>3. CursorType' /\ ScratchType' /\ FlagsType' /\ SlotsType' /\ PendingType'
  BY <1>1 DEF IInv, MachineType, CursorType, ScratchType, FlagsType, SlotsType, PendingType
<1>4. Shape'
  BY <1>1 DEF IInv, Shape, Resting, Streaming, InBatch, Asking, Reconfiguring, NoTools
<1> QED
  BY <1>1, <1>2, <1>3, <1>4
     DEF IInv, MachineType, HistoryType, AwaitInv, RunInv, NoRunWithoutApproval, Reconfigured

LEMMA Restore ==
    ASSUME IInv, SaveAndRestore
    PROVE  IInv' /\ UNCHANGED <<reqs, nextReq, settled>>
<1>1. /\ pend = "NoPending" /\ NoScratch
      /\ UNCHANGED <<cursor, reason, reqs, nextReq, pend, open, answered, closed, pivots, committed,
                     queue, admitted, applied, turns, granted, ran, settled, failure>>
  BY DEF SaveAndRestore, cursorVars, pendingVars, queueVars
<1>2. (Resting \/ Reconfiguring) /\ running = {}
  BY <1>1 DEF IInv, Shape, Resting, Streaming, InBatch, Asking, Reconfiguring, NoTools
<1>3. Shape' /\ running' = running
  BY <1>1, <1>2 DEF Shape, Resting, Reconfiguring, NoTools, NoScratch, NoToolPhase
<1>4. SlotsType' /\ ScratchType' /\ inTools' = FALSE
  BY <1>1, ResetTypes
<1>5. CursorType' /\ PendingType' /\ closed' = closed
  BY <1>1 DEF IInv, MachineType, CursorType, PendingType
<1>6. MachineType'
  BY <1>4, <1>5 DEF IInv, MachineType, FlagsType
<1> QED
  BY <1>1, <1>3, <1>6
     DEF IInv, HistoryType, AwaitInv, RunInv, NoRunWithoutApproval, ReconfigsAppliedInOrder

-----------------------------------------------------------------------------
(***************************************************************************)
(* The invariant.                                                          *)
(***************************************************************************)
LEMMA InitIInv == Init => IInv
<1> SUFFICES ASSUME Init PROVE IInv
  OBVIOUS
<1>1. CursorType /\ PendingType /\ ScratchType
  <2>1. CursorType
    BY DEF Init, CursorType, Kinds
  <2>2. PendingType
    BY BoundsAssumption DEF Init, PendingType
  <2>3. ScratchType
    BY BoundsAssumption DEF Init, ScratchType
  <2> QED BY <2>1, <2>2, <2>3
<1>2. SlotsType /\ FlagsType
  <2>1. SlotsType
    BY DEF Init, SlotsType
  <2>2. FlagsType
    BY DEF Init, FlagsType
  <2> QED BY <2>1, <2>2
<1>3. HistoryType
  <2>1. committed \in Nat /\ turns \in 0..MaxTurns /\ committed <= turns
    BY BoundsAssumption DEF Init
  <2>2. cursor \notin Waiting /\ granted = {} /\ ran = {} /\ settled = {}
    BY DEF Init, Waiting
  <2>3. queue \in Seq(Requests) /\ admitted \in Seq(Requests) /\ applied \in Seq(Requests)
    BY DEF Init
  <2> QED BY <2>1, <2>2, <2>3 DEF HistoryType
<1>4. Shape
  BY DEF Init, Shape, Resting, NoTools
<1>5. AwaitInv /\ RunInv /\ NoRunWithoutApproval
  BY DEF Init, AwaitInv, RunInv, CallsOf, NoRunWithoutApproval
<1>6. ReconfigsAppliedInOrder
  <2>1. << >> \in Seq(Requests)
    OBVIOUS
  <2> QED BY <2>1, ConcatEmptySeq DEF Init, ReconfigsAppliedInOrder
<1> QED BY <1>1, <1>2, <1>3, <1>4, <1>5, <1>6 DEF IInv, MachineType

LEMMA NextIInv == IInv /\ [Next]_vars => IInv'
<1> SUFFICES ASSUME IInv, [Next]_vars PROVE IInv'
  OBVIOUS
<1>1. CASE UNCHANGED vars
  <2>1. UNCHANGED <<cursor, reason, reqs, nextReq, scratch, parked, steps, inTools, approvalQ,
                    running, approving, pend, open, answered, closed, pivots, committed, queue,
                    admitted, applied, turns, granted, ran, settled, failure>>
    BY <1>1 DEF vars, cursorVars, scratchVars, pendingVars, queueVars
  <2>2. MachineType'
    BY <2>1 DEF IInv, MachineType, CursorType, ScratchType, FlagsType, SlotsType, PendingType
  <2>3. Shape'
    BY <2>1 DEF IInv, Shape, Resting, Streaming, InBatch, Asking, Reconfiguring, NoTools
  <2> QED
    BY <2>1, <2>2, <2>3
       DEF IInv, HistoryType, AwaitInv, RunInv, NoRunWithoutApproval, ReconfigsAppliedInOrder
<1> QED
  BY <1>1, BeginUserTurn, InjectPivot, Resume, Abandon, BudgetExhausted, Reconfigure, Restore
     DEF Next, DriverAnswers

LEMMA AlwaysIInv == Spec => []IInv
BY InitIInv, NextIInv, PTL DEF Spec

(* Every open call has its slot, and the slots count the open calls. *)
LEMMA SlotsAreOpenCalls == IInv => OpenCallsHaveOneSlot
<1> SUFFICES ASSUME IInv PROVE OpenCallsHaveOneSlot
  OBVIOUS
<1>1. CASE NoTools
  <2>1. open_cancelled_results = {} /\ open = {}
    BY <1>1 DEF NoTools, open_cancelled_results, CallsOf, QueuedCalls
  <2>2. Cardinality({}) = 0 /\ Len(<< >>) = 0
    BY FS_EmptySet
  <2> QED BY <1>1, <2>1, <2>2 DEF NoTools, OpenCallsHaveOneSlot
<1>2. CASE InBatch
  <2>1. approvalQ \in Seq(Calls)
    BY DEF IInv, MachineType, SlotsType
  <2>2. /\ IsFiniteSet(CallsOf(running)) /\ Cardinality(CallsOf(running)) = Cardinality(running)
        /\ Cardinality(running) \in Nat
    BY <1>2, SlotsCount, FS_CardinalityType DEF InBatch
  <2>3. /\ IsFiniteSet(QueuedCalls(approvalQ))
        /\ Cardinality(QueuedCalls(approvalQ)) = Len(approvalQ) /\ Len(approvalQ) \in Nat
    BY <1>2, <2>1, QueueCounts DEF InBatch
  <2>4. Cardinality(open) = Cardinality(running) + Len(approvalQ)
    <3>1. /\ CallsOf(running) \cup QueuedCalls(approvalQ) = open
          /\ CallsOf(running) \cap QueuedCalls(approvalQ) = {}
      BY <1>2 DEF InBatch
    <3>2. Cardinality(open) = Cardinality(CallsOf(running)) + Cardinality(QueuedCalls(approvalQ))
      <4> DEFINE A == CallsOf(running)
                 B == QueuedCalls(approvalQ)
      <4>1. IsFiniteSet(A) /\ IsFiniteSet(B) /\ A \cap B = {} /\ A \cup B = open
        BY <2>2, <2>3, <3>1
      <4>2. Cardinality(A) \in Nat /\ Cardinality(B) \in Nat
        BY <2>2, <2>3
      <4> HIDE DEF A, B
      <4>3. Cardinality(A \cup B) = Cardinality(A) + Cardinality(B) - Cardinality(A \cap B)
        BY <4>1, FS_Union
      <4>4. Cardinality(A \cap B) = 0
        BY <4>1, FS_EmptySet, Zenon
      <4>5. Cardinality(A \cup B) = Cardinality(A) + Cardinality(B)
        <5>1. \A m, n \in Nat : m + n - 0 = m + n
          OBVIOUS
        <5>2. Cardinality(A \cup B) = Cardinality(A) + Cardinality(B) - 0
          BY <4>3, <4>4, Zenon
        <5> QED BY <4>2, <5>1, <5>2, Zenon
      <4> QED BY <4>1, <4>5 DEF A, B
    <3> QED BY <2>2, <2>3, <3>2
  <2>5. CallsOf(approving) = {} /\ approving = {} /\ Cardinality({}) = 0
    BY <1>2, FS_EmptySet DEF InBatch, CallsOf
  <2>6. open_cancelled_results = open /\ open \cap answered = {}
    BY <1>2, <2>5 DEF InBatch, open_cancelled_results
  <2> QED BY <2>2, <2>3, <2>4, <2>5, <2>6 DEF OpenCallsHaveOneSlot
<1>3. CASE Asking
  <2>1. approvalQ \in Seq(Calls)
    BY DEF IInv, MachineType, SlotsType
  <2>2. PICK r \in reqs, c \in Calls :
            /\ approving = {<<r, c>>} /\ c \notin QueuedCalls(approvalQ)
            /\ {c} \cup QueuedCalls(approvalQ) = open
    BY <1>3 DEF Asking
  <2>3. /\ IsFiniteSet(QueuedCalls(approvalQ))
        /\ Cardinality(QueuedCalls(approvalQ)) = Len(approvalQ) /\ Len(approvalQ) \in Nat
    BY <1>3, <2>1, QueueCounts DEF Asking
  <2>4. Cardinality(open) = Len(approvalQ) + 1
    <3>1. QueuedCalls(approvalQ) \cup {c} = open
      BY <2>2
    <3>2. Cardinality(open) = Cardinality(QueuedCalls(approvalQ)) + 1
      BY <2>2, <2>3, <3>1, FS_AddElement
    <3> QED BY <2>3, <3>2
  <2>5. /\ CallsOf(running) = {} /\ running = {} /\ CallsOf(approving) = {c}
        /\ Cardinality(running) = 0 /\ Cardinality(approving) = 1
    <3>1. running = {} /\ Cardinality({}) = 0
      BY <1>3, FS_EmptySet DEF Asking
    <3>2. Cardinality(approving) = 1
      BY <2>2, FS_Singleton
    <3>3. CallsOf(running) = {} /\ CallsOf(approving) = {c}
      BY <2>2, <3>1 DEF CallsOf
    <3> QED BY <3>1, <3>2, <3>3
  <2>6. open_cancelled_results = open /\ open \cap answered = {}
    BY <1>3, <2>2, <2>5 DEF Asking, open_cancelled_results
  <2> QED BY <2>3, <2>4, <2>5, <2>6 DEF OpenCallsHaveOneSlot
<1> QED BY <1>1, <1>2, <1>3 DEF IInv, Shape, Resting, Streaming, Reconfiguring

LEMMA SomethingAwaited == IInv => SomethingIsAwaited
<1> SUFFICES ASSUME IInv PROVE SomethingIsAwaited
  OBVIOUS
<1>1. CASE cursor \notin Waiting
  BY <1>1 DEF SomethingIsAwaited, Waiting
<1>2. CASE cursor \in {"StreamingStep", "AwaitingReconfig"}
  BY <1>2, ShapeByCursor DEF SomethingIsAwaited, Streaming, Reconfiguring, IInv, AwaitInv
<1>3. CASE cursor = "AwaitingTool"
  <2>1. running # {} /\ Ids(running) = reqs \ settled
    BY <1>3, ShapeByCursor DEF InBatch, IInv, AwaitInv
  <2>2. Ids(running) # {}
    BY <2>1 DEF Ids
  <2> QED BY <1>3, <2>1, <2>2 DEF SomethingIsAwaited
<1>4. CASE cursor = "AwaitingApproval"
  <2>1. PICK r \in reqs, c \in Calls : reqs = {r} /\ approving = {<<r, c>>}
    BY <1>4, ShapeByCursor DEF Asking
  <2>2. Ids(approving) = reqs
    BY <2>1 DEF Ids
  <2>3. reqs \ settled # {}
    BY <1>4, <2>1 DEF IInv, AwaitInv
  <2> QED BY <1>4, <2>2, <2>3 DEF SomethingIsAwaited
<1> QED BY <1>1, <1>2, <1>3, <1>4 DEF Waiting

LEMMA SomethingAwaitedNext == IInv' => SomethingIsAwaited'
BY SomethingAwaited, PTL

LEMMA TypesHold == IInv => TypeOK
<1> SUFFICES ASSUME IInv PROVE TypeOK
  OBVIOUS
<1>1. CursorType /\ ScratchType /\ FlagsType /\ SlotsType /\ PendingType
  BY DEF IInv, MachineType
<1>2. committed \in 0..MaxTurns
  BY BoundsAssumption DEF IInv, HistoryType
<1>3. HistoryType
  BY DEF IInv
<1>4. inTools \in BOOLEAN /\ closed \in BOOLEAN
  BY <1>1 DEF FlagsType
<1>5. /\ cursor \in Kinds
      /\ reason \in {"None", "Completed", "StepLimitReached", "BudgetExhausted"}
      /\ nextReq \in Nat \ {0} /\ reqs \subseteq 1..(nextReq - 1)
      /\ failure \in {"None", "Driver", "Host", "Restored", "Internal"}
  BY <1>1 DEF CursorType
<1> QED
  BY <1>1, <1>2, <1>3, <1>4, <1>5 DEF TypeOK, ScratchType, SlotsType, PendingType, HistoryType

LEMMA StoryHolds == IInv => CursorScratchPendingAgree
BY DEF IInv, Shape, Resting, Streaming, InBatch, Asking, Reconfiguring, NoTools, Waiting,
       CursorScratchPendingAgree, matches_cursor

(* The cursor, the scratch and the pending turn agree after every step, each open call has    *)
(* exactly one slot, something is awaited whenever the machine waits, and no step fails for a *)
(* reason of its own (DefaultAgentMachine::step), whatever the driver answers and whenever    *)
(* the state is saved and restored.                                                           *)
THEOREM MachineCorrect == Spec => []MachineInv
<1>1. IInv => NoInternalFailure
  BY DEF IInv, MachineType, CursorType, NoInternalFailure
<1>2. IInv => MachineInv
  BY <1>1, TypesHold, StoryHolds, SlotsAreOpenCalls, SomethingAwaited DEF MachineInv
<1> QED BY <1>2, AlwaysIInv, PTL

(* A call the approval policy gates is emitted only after the user approved it.               *)
THEOREM ApprovalCorrect == Spec => []NoRunWithoutApproval
<1>1. IInv => NoRunWithoutApproval
  BY DEF IInv
<1> QED BY <1>1, AlwaysIInv, PTL

(* Admitted reconfigurations are applied in order, each once, none lost: what was applied     *)
(* followed by what is queued is what was admitted.                                           *)
THEOREM ReconfigCorrect == Spec => []ReconfigsAppliedInOrder
<1>1. IInv => ReconfigsAppliedInOrder
  BY DEF IInv
<1> QED BY <1>1, AlwaysIInv, PTL

-----------------------------------------------------------------------------
(***************************************************************************)
(* Refinement of TurnProtocol.                                             *)
(***************************************************************************)
LEMMA InitProtocol == Init => Protocol!Init
BY DEF Init, Protocol!Init, TurnOutcome, Waiting

(* What a turn that is over, or goes on, looks like to the driver. *)
LEMMA Outcomes ==
    /\ cursor \in Waiting => TurnOutcome = "Open"
    /\ cursor = "Idle" => TurnOutcome = "Idle"
    /\ cursor = "Done" /\ reason = "BudgetExhausted" => TurnOutcome = "Interrupted"
    /\ cursor \notin Waiting \cup {"Idle"} /\ reason # "BudgetExhausted" => TurnOutcome = "Ended"
    /\ TurnOutcome = "Open" <=> cursor \in Waiting
BY DEF TurnOutcome, Waiting

LEMMA OutcomesPrimed ==
    /\ cursor' \in Waiting => TurnOutcome' = "Open"
    /\ cursor' = "Idle" => TurnOutcome' = "Idle"
    /\ cursor' = "Done" /\ reason' = "BudgetExhausted" => TurnOutcome' = "Interrupted"
    /\ cursor' \notin Waiting \cup {"Idle"} /\ reason' # "BudgetExhausted" => TurnOutcome' = "Ended"
BY DEF TurnOutcome, Waiting

(* A message and an answer cancel nothing and interrupt nothing. *)
GoesOnOrEnds == cursor' # "Idle" /\ reason' # "BudgetExhausted"

LEMMA RestingPlaces ==
    /\ \A why : fail(why) => GoesOnOrEnds
    /\ \A path : open_user_turn(path) => GoesOnOrEnds
    /\ \A path, kind : emit_reconfig_effect(path, kind) => GoesOnOrEnds
    /\ \A path : finalize_text_commit(path) => GoesOnOrEnds
    /\ \A path, batch, queued, opened, done :
          emit_tool_batch(path, batch, queued, opened, done) => GoesOnOrEnds
    /\ \A path, queued, opened, done :
          advance_tool_phase(path, queued, opened, done) => GoesOnOrEnds
<1>1. ASSUME NEW why, fail(why) PROVE GoesOnOrEnds
  BY <1>1 DEF fail, GoesOnOrEnds
<1>2. ASSUME NEW kind \in Waiting, NEW ids, ParkOn(kind, ids) PROVE GoesOnOrEnds
  BY <1>2 DEF ParkOn, GoesOnOrEnds, Waiting
<1>3. ASSUME NEW why \in {"Completed", "StepLimitReached"}, RestOn("Done", why)
      PROVE  GoesOnOrEnds
  BY <1>3 DEF RestOn, GoesOnOrEnds
<1>4. ASSUME NEW path, open_user_turn(path) PROVE GoesOnOrEnds
  BY <1>1, <1>2, <1>4 DEF open_user_turn, Waiting
<1>5. ASSUME NEW path, NEW kind, emit_reconfig_effect(path, kind) PROVE GoesOnOrEnds
  BY <1>1, <1>2, <1>5 DEF emit_reconfig_effect, Waiting
<1>6. ASSUME NEW path, finalize_text_commit(path) PROVE GoesOnOrEnds
  BY <1>1, <1>3, <1>6 DEF finalize_text_commit
<1>7. ASSUME NEW path, NEW batch, NEW queued, NEW opened, NEW done,
             emit_tool_batch(path, batch, queued, opened, done)
      PROVE  GoesOnOrEnds
  BY <1>1, <1>2, <1>7 DEF emit_tool_batch, Waiting
<1>8. ASSUME NEW path, NEW queued, NEW opened, NEW done,
             advance_tool_phase(path, queued, opened, done)
      PROVE  GoesOnOrEnds
  <2>1. ASSUME emit_approval(path, queued, opened, done) PROVE GoesOnOrEnds
    BY <1>1, <1>2, <2>1 DEF emit_approval, Waiting
  <2>2. ASSUME finish_step_limit(path, opened) PROVE GoesOnOrEnds
    BY <1>1, <1>3, <2>2 DEF finish_step_limit
  <2>3. ASSUME finish_tool_phase(path, opened) PROVE GoesOnOrEnds
    BY <1>1, <1>2, <2>2, <2>3 DEF finish_tool_phase, Waiting
  <2> QED BY <1>1, <1>8, <2>1, <2>3 DEF advance_tool_phase
<1> QED BY <1>1, <1>4, <1>5, <1>6, <1>7, <1>8

LEMMA AnswerEnds ==
    ASSUME IInv, NEW id, NEW result, resume(id, result)
    PROVE  GoesOnOrEnds
<1>1. ASSUME cursor \in Waiting, UNCHANGED cursorVars PROVE GoesOnOrEnds
  BY <1>1 DEF IInv, Shape, Resting, Streaming, InBatch, Asking, Reconfiguring, Waiting,
              cursorVars, GoesOnOrEnds
<1>2. CASE resume_llm(id, result)
  <2>1. ASSUME NEW batch, NEW gatedCalls, begin_tool_phase(batch, gatedCalls)
        PROVE  GoesOnOrEnds
    <3>1. ASSUME emit_approval(<<cursor>>, gatedCalls, batch \cup QueuedCalls(gatedCalls), {})
          PROVE  GoesOnOrEnds
      BY <3>1, RestingPlaces DEF emit_approval, ParkOn, GoesOnOrEnds
    <3> QED BY <2>1, <3>1, RestingPlaces DEF begin_tool_phase
  <2>2. ASSUME commit_text_turn PROVE GoesOnOrEnds
    BY <2>2, RestingPlaces DEF commit_text_turn
  <2> QED BY <1>2, <2>1, <2>2, RestingPlaces DEF resume_llm
<1>3. CASE resume_tool(id, result)
  BY <1>1, <1>3, RestingPlaces DEF resume_tool, Waiting
<1>4. CASE resume_approval(id, result)
  BY <1>4, RestingPlaces DEF resume_approval
<1>5. CASE resume_reconfig(id, result)
  BY <1>5, RestingPlaces DEF resume_reconfig
<1> QED BY <1>2, <1>3, <1>4, <1>5 DEF resume

(* At rest nothing is awaited; a batch awaits all of its new ids. *)
LEMMA LandsAwaiting ==
    ASSUME IInv, settled' \subseteq 1..(nextReq - 1)
    PROVE  /\ \A how : AtRest /\ TurnOutcome' = how => Protocol!TurnOver(how)
           /\ OnNewBatch => Protocol!NewBatch
<1>1. ASSUME NEW how, AtRest, TurnOutcome' = how PROVE Protocol!TurnOver(how)
  BY <1>1 DEF AtRest, Resting, Protocol!TurnOver
<1>2. ASSUME OnNewBatch PROVE Protocol!NewBatch
  <2>1. nextReq \in Nat /\ nextReq' \in Nat /\ nextReq' > nextReq
    BY <1>2 DEF OnNewBatch, IInv, MachineType, CursorType
  <2>2. \A m, n \in Nat : n > m => n - 1 > m - 1 /\ m - 1 + 1 = m /\ n >= m
    OBVIOUS
  <2>3. nextReq' - 1 > nextReq - 1 /\ nextReq - 1 + 1 = nextReq /\ nextReq' >= nextReq
    BY <2>1, <2>2
  <2>4. settled' \cap nextReq..(nextReq' - 1) = {}
    BY <2>1, <2>3, NumberedEarlier
  <2>5. reqs' = nextReq..(nextReq' - 1) /\ reqs' \ settled' = nextReq..(nextReq' - 1)
    BY <1>2, <2>4 DEF OnNewBatch
  <2>6. TurnOutcome' = "Open"
    BY <1>2, OutcomesPrimed DEF OnNewBatch
  <2> QED BY <2>3, <2>5, <2>6 DEF Protocol!NewBatch
<1> QED BY <1>1, <1>2

LEMMA NextProtocol == IInv /\ [Next]_vars => [Protocol!Next]_(Protocol!protocolVars)
<1> SUFFICES ASSUME IInv, [Next]_vars PROVE [Protocol!Next]_(Protocol!protocolVars)
  OBVIOUS
<1>1. /\ settled \subseteq 1..(nextReq - 1)
      /\ \A id \in reqs : settled \cup {id} \subseteq 1..(nextReq - 1)
      /\ cursor \in Waiting => reqs \ settled # {}
  BY Settled, SomethingAwaited DEF IInv, HistoryType, SomethingIsAwaited
<1>2. ASSUME AtRest, GoesOnOrEnds PROVE TurnOutcome' = "Ended"
  BY <1>2, OutcomesPrimed DEF AtRest, Resting, GoesOnOrEnds, Waiting
<1>3. CASE begin_user_turn
  <2>1. Landed /\ settled' = settled /\ TurnOutcome # "Open"
    BY <1>1, <1>3, BeginUserTurn, Outcomes DEF begin_user_turn
  <2>2. GoesOnOrEnds
    BY <1>3, RestingPlaces DEF begin_user_turn
  <2>3. Protocol!NewBatch \/ Protocol!TurnOver("Ended")
    BY <1>1, <1>2, <2>1, <2>2, LandsAwaiting DEF Landed
  <2> QED BY <2>1, <2>3 DEF Protocol!Next, Protocol!DocumentedNext, Protocol!Begin
<1>4. CASE UNCHANGED <<cursor, reason, reqs, nextReq, settled>>
  BY <1>4 DEF Protocol!protocolVars, TurnOutcome
<1>5. ASSUME NEW id, NEW result, resume(id, result) PROVE Protocol!Next
  <2>1. IInv' /\ ResumeAccepted(id) /\ GoesOnOrEnds
    BY <1>5, Resume, AnswerEnds
  <2>2. id \in reqs \ settled /\ settled' = settled \cup {id} /\ settled' \subseteq 1..(nextReq - 1)
    BY <1>1, <2>1 DEF ResumeAccepted
  <2>3. Protocol!Answer(id)
    <3>1. CASE AtRest
      BY <1>2, <2>1, <2>2, <3>1, LandsAwaiting DEF Protocol!Answer
    <3>2. CASE OnNewBatch /\ reqs \ settled = {id}
      BY <2>2, <3>2, LandsAwaiting DEF Protocol!Answer
    <3>3. CASE reqs' = reqs /\ nextReq' = nextReq
      <4>1. cursor' \in Waiting /\ cursor \in Waiting
        BY <2>1, <2>2, <3>3, ShapeByCursor DEF IInv, Shape, Resting, Streaming, InBatch, Asking,
                                     Reconfiguring, Waiting
      <4>2. reqs' \ settled' # {} /\ reqs' \ settled' = (reqs \ settled) \ {id}
        <5>1. SomethingIsAwaited'
          BY <2>1, SomethingAwaitedNext
        <5> QED BY <2>2, <3>3, <4>1, <5>1 DEF SomethingIsAwaited, Waiting
      <4>3. TurnOutcome' = TurnOutcome
        BY <4>1, Outcomes, OutcomesPrimed
      <4> QED BY <2>2, <3>3, <4>2, <4>3 DEF Protocol!Answer
    <3> QED BY <2>1, <3>1, <3>2, <3>3 DEF ResumeAccepted
  <2> QED BY <2>2, <2>3 DEF Protocol!Next, Protocol!DocumentedNext
<1>6. ASSUME NEW id, abandon(id) PROVE Protocol!Next
  <2>1. /\ AtRest /\ TurnOutcome' = "Idle" /\ TurnOutcome = "Open"
        /\ id \in reqs /\ settled' = settled \cup {id}
    BY <1>6, Abandon, Outcomes, OutcomesPrimed
  <2>2. Protocol!Cancelled(id)
    BY <1>1, <2>1, LandsAwaiting DEF Protocol!Cancelled
  <2>3. CASE id \in settled
    BY <2>1, <2>2, <2>3 DEF Protocol!Next, Protocol!AbandonAnswered
  <2>4. CASE id \notin settled
    BY <2>1, <2>2, <2>4 DEF Protocol!Next, Protocol!DocumentedNext, Protocol!Abandon
  <2> QED BY <2>3, <2>4
<1>7. CASE finish_budget_exhausted
  <2>1. /\ AtRest /\ settled' = settled
        /\ TurnOutcome \in {"Open", "Idle"} /\ TurnOutcome' = "Interrupted"
    BY <1>7, BudgetExhausted, Outcomes, OutcomesPrimed
  <2> QED BY <1>1, <2>1, LandsAwaiting DEF Protocol!Next, Protocol!DocumentedNext, Protocol!Interrupt
<1>8. CASE inject_pivot \/ (\E request \in Requests : reconfigure(request)) \/ SaveAndRestore
  BY <1>4, <1>8 DEF inject_pivot, reconfigure, SaveAndRestore, cursorVars
<1>9. CASE UNCHANGED vars
  BY <1>4, <1>9 DEF vars, cursorVars
<1> QED BY <1>3, <1>5, <1>6, <1>7, <1>8, <1>9 DEF Next, DriverAnswers

(* The machine implements TurnProtocol: requirement ids are never used twice, a batch is      *)
(* answered to its end before there is another, a user message starts a batch only at rest,   *)
(* an Abandon of a requirement of an earlier batch or turn is rejected, only an Abandon or an *)
(* interrupt ends a turn early, and nothing is awaited then (AgentMachine::step).             *)
THEOREM ProtocolCorrect == Spec => KeepsTurnProtocol
BY InitProtocol, NextProtocol, AlwaysIInv, PTL DEF Spec, KeepsTurnProtocol, Protocol!Spec
=============================================================================
