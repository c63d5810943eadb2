--------------------------- MODULE TurnValidation ---------------------------
(***************************************************************************)
(* The closed-turn validator of the conversation layer                     *)
(* (src/src/conversation/validation.rs and validation/*.rs): the single    *)
(* function every turn passes before it becomes committed history.         *)
(*                                                                         *)
(* A message keeps what the validator looks at: its id, its role, the      *)
(* provider ids of its tool-use blocks (uses) and of its tool-result       *)
(* blocks (results), in order, and one flag, wellFormed, that stands for   *)
(* "every block is in the grammar of the message's role, every tool use    *)
(* has an id and a name and every tool result holds only text or images".  *)
(* A tool call (a pairing) links a framework call id and a provider call   *)
(* id to the messages that carry the call and its result.                  *)
(***************************************************************************)
EXTENDS Naturals, Sequences, FiniteSets

CONSTANTS
    TurnIds,   \* framework-assigned turn ids
    MsgIds,    \* framework-assigned message ids
    CallIds,   \* framework-assigned tool-call ids
    ProvIds,   \* tool-call ids chosen by the provider
    NoTurn,    \* the parent of a first turn (Option::None)
    NoMsg      \* the result message of an open call (Option::None)

Roles == {"system", "user", "assistant", "tool"}

Message ==
    [id : MsgIds, role : Roles, uses : Seq(ProvIds), results : Seq(ProvIds),
     wellFormed : BOOLEAN]

ToolCall ==
    [call : CallIds, prov : ProvIds, callMsg : MsgIds,
     resultMsg : MsgIds \cup {NoMsg}]

Turn ==
    [id : TurnIds, parent : TurnIds \cup {NoTurn}, messages : Seq(Message),
     toolCalls : Seq(ToolCall)]

MessageIdsOf(messages) == {messages[i].id : i \in DOMAIN messages}

CallIdsOf(toolCalls) == {toolCalls[i].call : i \in DOMAIN toolCalls}

ProvIdsOf(toolCalls) == {toolCalls[i].prov : i \in DOMAIN toolCalls}

Elements(seq) == {seq[i] : i \in DOMAIN seq}

NoRepetition(seq) == \A i, j \in DOMAIN seq : seq[i] = seq[j] => i = j

-----------------------------------------------------------------------------
(***************************************************************************)
(* Identity: turn, message and call ids are new to the retained log and    *)
(* are not repeated inside the turn; the parent is the current tip.        *)
(***************************************************************************)
RetainedMessageIds(retained) ==
    UNION {MessageIdsOf(retained[k].messages) : k \in DOMAIN retained}

RetainedCallIds(retained) ==
    UNION {CallIdsOf(retained[k].toolCalls) : k \in DOMAIN retained}

ValidIdentity(turn, retained, tip) ==
    /\ \A k \in DOMAIN retained : retained[k].id # turn.id
    /\ turn.parent = tip
    /\ MessageIdsOf(turn.messages) \cap RetainedMessageIds(retained) = {}
    /\ \A i, j \in DOMAIN turn.messages :
          turn.messages[i].id = turn.messages[j].id => i = j
    /\ CallIdsOf(turn.toolCalls) \cap RetainedCallIds(retained) = {}
    /\ \A i, j \in DOMAIN turn.toolCalls :
          turn.toolCalls[i].call = turn.toolCalls[j].call => i = j

-----------------------------------------------------------------------------
(***************************************************************************)
(* The role sequence, as the loop of validate_role_sequence runs it: the   *)
(* state after a message is a function of the state before it.             *)
(***************************************************************************)
ExpectAssistant(injectable) ==
    [tag |-> "ExpectAssistant", injectable |-> injectable, open |-> {}]

AwaitToolResults(open) ==
    [tag |-> "AwaitToolResults", injectable |-> FALSE, open |-> open]

Closed == [tag |-> "Closed", injectable |-> FALSE, open |-> {}]

Rejected == [tag |-> "Rejected", injectable |-> FALSE, open |-> {}]

\* The tool-result arm: every result answers a call that is still open.
RoleAfterResults(open, m) ==
    IF m.results = << >> \/ ~ Elements(m.results) \subseteq open
    THEN Rejected
    ELSE LET left == open \ Elements(m.results)
         IN  IF left = {} THEN ExpectAssistant(TRUE) ELSE AwaitToolResults(left)

RoleStep(s, m) ==
    CASE s.tag = "ExpectAssistant" /\ m.role = "assistant" ->
            IF m.uses = << >> THEN Closed ELSE AwaitToolResults(Elements(m.uses))
      [] s.tag = "ExpectAssistant" /\ s.injectable /\ m.role = "user" -> s
      [] s.tag = "AwaitToolResults" /\ m.role = "tool" ->
            RoleAfterResults(s.open, m)
      [] OTHER -> Rejected

\* The state after the whole message list; the first message must be a user.
RoleStateAfter(messages) ==
    LET state[n \in 1..Len(messages)] ==
            IF n = 1
            THEN IF messages[1].role = "user" THEN ExpectAssistant(FALSE) ELSE Rejected
            ELSE RoleStep(state[n - 1], messages[n])
    IN  IF messages = << >> THEN Rejected ELSE state[Len(messages)]

\* inspect_message over the turn: block grammar, and no provider call id is
\* used twice or answered twice anywhere in the turn.
ValidBlocks(messages) ==
    /\ \A i \in DOMAIN messages :
          /\ messages[i].wellFormed
          /\ messages[i].uses # << >> => messages[i].role = "assistant"
          /\ messages[i].results # << >> => messages[i].role = "tool"
          /\ NoRepetition(messages[i].uses)
          /\ NoRepetition(messages[i].results)
    /\ \A i, j \in DOMAIN messages : i # j =>
          /\ Elements(messages[i].uses) \cap Elements(messages[j].uses) = {}
          /\ Elements(messages[i].results) \cap Elements(messages[j].results) = {}

ValidRoleSequence(messages) ==
    /\ \A i \in DOMAIN messages : messages[i].role # "system"
    /\ ValidBlocks(messages)
    /\ RoleStateAfter(messages).tag = "Closed"

-----------------------------------------------------------------------------
(***************************************************************************)
(* Pairings: the explicit call/result links agree with the blocks, one     *)
(* pairing per tool use.  Pairings written by a pending turn always carry  *)
(* their provider id, so the lookup of a missing provider id that old      *)
(* persisted data needs is not modelled here.                              *)
(***************************************************************************)
ValidPairings(turn) ==
    /\ \A i \in DOMAIN turn.toolCalls :
          LET c == turn.toolCalls[i] IN
          /\ \E k \in DOMAIN turn.messages :
                /\ turn.messages[k].id = c.callMsg
                /\ c.prov \in Elements(turn.messages[k].uses)
          /\ \E k \in DOMAIN turn.messages :
                /\ turn.messages[k].id = c.resultMsg
                /\ c.prov \in Elements(turn.messages[k].results)
    /\ \A i, j \in DOMAIN turn.toolCalls :
          turn.toolCalls[i].prov = turn.toolCalls[j].prov => i = j
    /\ \A k \in DOMAIN turn.messages :
          Elements(turn.messages[k].uses) \subseteq ProvIdsOf(turn.toolCalls)

validate_turn_data(turn, retained, tip) ==
    /\ ValidIdentity(turn, retained, tip)
    /\ ValidRoleSequence(turn.messages)
    /\ ValidPairings(turn)
=============================================================================
