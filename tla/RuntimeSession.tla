--------------------------- MODULE RuntimeSession ---------------------------
(***************************************************************************)
(* One live session with an external runtime, as the adapters keep it: the *)
(* one-shot command lines of Codex and OpenCode (process/oneshot.rs with   *)
(* codex/ and opencode/), Claude Code's long-lived process (claude_code/), and an *)
(* ACP connection (acp/), and the scripted session of agent-testkit, which *)
(* bridges every pause.                                                    *)
(*                                                                         *)
(* A session holds the runtime's own state too, because what matters is    *)
(* how the two fall out of step: busy are the prompts the runtime has yet  *)
(* to answer, out the frames nobody has read, asks what it waits for.      *)
(* first is the prompt the process was launched with, until the session    *)
(* advances (first_turn_pending); 0 is none.                               *)
(* Frames are numbered; what a frame lets observe has the frame's number.  *)
(*                                                                         *)
(* Operators under a comment "Fault:" are not part of the model; each is a *)
(* plausible mistake in the operator that follows it.                      *)
(***************************************************************************)
EXTENDS Naturals, Sequences, FiniteSets

CONSTANTS
    NoiseLimit,  \* MAX_CONSECUTIVE_NON_JSON_LINES
    Endings      \* ways in which a process may come to its end

Dispositions == {"Graceful", "ForcedKill", "Failed"}

ASSUME EndingsAssumption == Endings \subseteq Dispositions /\ NoiseLimit \in Nat

Flavors == {"codex", "opencode", "claude", "acp", "scripted"}
OneShot == {"codex", "opencode"}

\* The pauses a decoder knows.
Pauses(flavor) ==
    CASE flavor \in OneShot -> {}
      [] flavor = "claude" -> {"Interaction", "ToolCalls"}
      [] flavor = "acp" -> {"Interaction"}
      [] flavor = "scripted" -> {"Interaction", "ToolCalls", "Subagent"}

NoDecision == [kind |-> "None"]

\* Fault: a resumed session numbers its events from the start.
NewSession_FromZero(sid, seq, tree) ==
    [sid |-> sid, known |-> FALSE, seq |-> 0, carried |-> << >>, decision |-> NoDecision, first |-> 0,
     perm |-> 0, text |-> {}, noise |-> 0, worst |-> "Graceful", tree |-> tree,
     run |-> TRUE, told |-> FALSE, out |-> << >>, busy |-> << >>, asks |-> 0, mixed |-> FALSE]

\* new and with_resume_high_water: the numbering goes on after the mark.
NewSession(sid, seq, tree) ==
    [sid |-> sid, known |-> FALSE, seq |-> seq, carried |-> << >>, decision |-> NoDecision, first |-> 0,
     perm |-> 0, text |-> {}, noise |-> 0, worst |-> "Graceful", tree |-> tree,
     run |-> TRUE, told |-> FALSE, out |-> << >>, busy |-> << >>, asks |-> 0, mixed |-> FALSE]

session_ref(s) == [id |-> s.sid, seq |-> s.seq]

\* A prompt reaches the runtime.  mixed notes that something of another
\* prompt was left over then, in the runtime or on the wire.
GivePrompt(s, prompt) ==
    [s EXCEPT !.busy = Append(@, prompt), !.mixed = @ \/ s.busy # << >> \/ s.out # << >>]

\* Process with nothing said yet.
Relaunch(s, prompt) ==
    [s EXCEPT !.run = TRUE, !.told = FALSE, !.out = << >>, !.busy = <<prompt>>, !.asks = 0,
              !.mixed = @ \/ s.busy # << >> \/ s.out # << >>]

-----------------------------------------------------------------------------
(***************************************************************************)
(* Decoding: the session, whether the line was legal, the observations and *)
(* the decision, if the line was one.                                      *)
(***************************************************************************)

\* Fault: the text of the turn stays in the decoder.
TextTaken_Kept(s) == s

\* A turn is over: its text goes into the answer and out of the decoder.
TextTaken(s) == [s EXCEPT !.text = {}]

\* emit: k observations, numbered on.
Line(s, f, k, decision) ==
    [s |-> [s EXCEPT !.seq = @ + k, !.noise = 0], ok |-> TRUE, decision |-> decision,
     events |-> [i \in 1..k |-> [seq |-> s.seq + i, n |-> 2 * f.n + i]]]

\* An illegal line; lines that are no JSON are put up with for a while.
tolerate_non_json_line(s) ==
    [s |-> [s EXCEPT !.noise = @ + 1], ok |-> s.noise + 1 <= NoiseLimit, decision |-> NoDecision,
     events |-> << >>]

\* set_session_id.
Named(s, f) == [s EXCEPT !.sid = IF @ = 0 THEN f.sid ELSE @, !.known = TRUE]

\* The prompts the text of the answer belongs to.
Completed(of) == [kind |-> "Completed", of |-> of]
Broken == [kind |-> "Failed"]
Paused(f) == [kind |-> f.kind, asks |-> f.n, calls |-> f.calls]

\* Codex: the answer is the last message of the turn.
codex_handle_item(s, f) == Line([s EXCEPT !.text = {f.for}], f, 1, NoDecision)
codex_handle_turn_end(s, f) ==
    IF f.kind = "Completed" THEN Line(TextTaken(s), f, 1, Completed(s.text))
    ELSE Line(TextTaken(s), f, 0, Broken)

codex_push_line(s, f) ==
    CASE f.kind = "Init" -> Line(Named(s, f), f, 1, NoDecision)
      [] f.kind = "Event" -> codex_handle_item(s, f)
      [] f.kind \in {"Completed", "Failed"} -> codex_handle_turn_end(s, f)

\* OpenCode: the same, but any frame may be the one that says who the session is.
opencode_handle_part(s, f, new) == Line([s EXCEPT !.text = {f.for}], f, new + 1, NoDecision)
opencode_handle_step_finish(s, f, new) ==
    IF f.kind = "Completed" THEN Line(TextTaken(s), f, new + 1, Completed(s.text))
    ELSE Line(TextTaken(s), f, new, Broken)

opencode_push_line(s, f) ==
    LET new == IF s.known THEN 0 ELSE 1
    IN  IF f.kind = "Event" THEN opencode_handle_part(Named(s, f), f, new)
        ELSE opencode_handle_step_finish(Named(s, f), f, new)

\* Claude Code: the result frame brings its own text.
claude_handle_message(s, f) == Line(s, f, 1, NoDecision)
claude_handle_result(s, f) ==
    CASE f.kind = "Completed" -> Line(s, f, 1, Completed({f.for}))
      [] f.kind = "Failed" -> Line(s, f, 0, Broken)
      [] f.kind = "Interaction" -> Line(s, f, 1, Paused(f))
      [] OTHER -> Line(s, f, 0, Paused(f))

claude_push_line(s, f) ==
    CASE f.kind = "Init" -> Line(Named(s, f), f, 1, NoDecision)
      [] f.kind = "Event" -> claude_handle_message(s, f)
      [] OTHER -> claude_handle_result(s, f)

\* ACP: the answer is all the text since the last one.  Whatever response comes
\* ends the turn: its id is not looked at.
on_session_update(s, f) == Line([s EXCEPT !.text = @ \cup {f.for}], f, 1, NoDecision)
cache_permission_request(s, f) == Line([s EXCEPT !.perm = f.n], f, 1, Paused(f))

push_jsonrpc_line(s, f) ==
    CASE f.kind = "Noise" -> [tolerate_non_json_line(s) EXCEPT !.ok = FALSE]
      [] f.kind = "Init" -> Line(Named(s, f), f, 1, NoDecision)
      [] f.kind = "Event" -> on_session_update(s, f)
      [] f.kind = "Completed" -> Line(TextTaken(s), f, 1, Completed(s.text))
      [] f.kind = "Failed" -> Line(TextTaken(s), f, 0, Broken)
      [] f.kind = "Interaction" -> cache_permission_request(s, f)

push_line(flavor, s, f) ==
    CASE flavor = "acp" -> push_jsonrpc_line(s, f)
      [] flavor # "acp" /\ f.kind = "Noise" -> tolerate_non_json_line(s)
      [] flavor = "codex" /\ f.kind # "Noise" -> codex_push_line(s, f)
      [] flavor = "opencode" /\ f.kind # "Noise" -> opencode_push_line(s, f)
      [] flavor \in {"claude", "scripted"} /\ f.kind # "Noise" -> claude_push_line(s, f)

-----------------------------------------------------------------------------
(***************************************************************************)
(* Starting and resuming: whether the adapter can serve the request at     *)
(* all, the session, and whether the runtime must say who it is before the *)
(* session is registered.  None but the scripted one takes tools.          *)
(***************************************************************************)
IsPrompt(input) == input.kind \in {"Start", "Continue"}

Begun(ok, s, prelude) == [ok |-> ok, s |-> s, prelude |-> prelude]

reject_unsupported_tools(tools) == tools = {}

\* The prompt is on the command line.
oneshot_begin(s, prompt) == [GivePrompt(s, prompt) EXCEPT !.first = prompt]

codex_start(s, input, tools) ==
    Begun(reject_unsupported_tools(tools) /\ IsPrompt(input), oneshot_begin(s, input.prompt), TRUE)

opencode_start(s, input, tools) ==
    Begun(reject_unsupported_tools(tools) /\ IsPrompt(input), oneshot_begin(s, input.prompt), TRUE)

\* A new session is prompted at once; one that is resumed says nothing first,
\* and gets what it is to get like any other.
claude_begin(s, input) ==
    IF s.sid = 0 THEN [GivePrompt(s, input.prompt) EXCEPT !.first = input.prompt] ELSE s

claude_start(s, input, tools) ==
    Begun(reject_unsupported_tools(tools), claude_begin(s, input), s.sid = 0)

\* The handshake comes first, then session/new or session/load; the prompt is a
\* request of its own.
acp_start(s, tools) == Begun(reject_unsupported_tools(tools), s, TRUE)

scripted_start(s, input) == Begun(TRUE, claude_begin(s, input), s.sid = 0)

start(flavor, s, input, tools) ==
    CASE flavor = "codex" -> codex_start(s, input, tools)
      [] flavor = "opencode" -> opencode_start(s, input, tools)
      [] flavor = "claude" -> claude_start(s, input, tools)
      [] flavor = "acp" -> acp_start(s, tools)
      [] flavor = "scripted" -> scripted_start(s, input)

-----------------------------------------------------------------------------
(***************************************************************************)
(* Advancing, up to the first read: the ways it may go.  A result is an    *)
(* ExternalSessionResult.                                                  *)
(***************************************************************************)
Failed(session, events) == [kind |-> "Failed", session |-> session, events |-> events]

Unknown == [id |-> 0, seq |-> 0]

\* RuntimeDecisionPoint into ExternalSessionResult.  A decision that is an
\* error loses the observations read on the way, and the session.
finish(s, decision, events) ==
    CASE decision.kind = "Failed" -> Failed(Unknown, << >>)
      [] decision.kind = "Completed" ->
            [kind |-> "Completed", session |-> session_ref(s), events |-> events,
             answer |-> [of |-> decision.of, sure |-> ~s.mixed, tokens |-> 0]]
      [] OTHER ->
            [kind |-> decision.kind, session |-> session_ref(s), events |-> events,
             asks |-> decision.asks, calls |-> decision.calls]

Reads(s) == [s |-> s, reads |-> TRUE, error |-> Unknown, end |-> "Graceful"]
Fails(s, session) == [s |-> s, reads |-> FALSE, error |-> session, end |-> "Graceful"]

\* A frame for the runtime, which must be there to take it.
Written(old, s) == {IF old.run THEN Reads(s) ELSE Fails(s, session_ref(s))}

\* What the runtime does with an answer: nothing, unless it waits for it.
Heard(s, asks) == [s EXCEPT !.asks = IF @ = asks THEN 0 ELSE @]

merge(worst, disposition) ==
    IF "ForcedKill" \in {worst, disposition} THEN "ForcedKill"
    ELSE IF "Failed" \in {worst, disposition} THEN "Failed" ELSE "Graceful"

\* Every further turn ends the old process and starts another, if there is
\* somewhere to start it.
oneshot_advance(s, input, there) ==
    LET closed(end) == [s EXCEPT !.worst = merge(@, end), !.run = FALSE]
    IN  IF ~IsPrompt(input) THEN {Fails(s, Unknown)}
        ELSE {[Fails(closed(end), session_ref(s)) EXCEPT !.end = end] : end \in Endings}
             \cup {[Reads(Relaunch(closed(end), input.prompt)) EXCEPT !.end = end] :
                    end \in IF there THEN Endings ELSE {}}

\* Only permissions are bridged.
claude_advance(s, input) ==
    CASE IsPrompt(input) -> Written(s, GivePrompt(s, input.prompt))
      [] input.kind = "RespondInteraction" -> Written(s, Heard(s, input.asks))
      [] OTHER -> {Fails(s, Unknown)}

\* The pending request is taken before the answer is looked at.
answer_permission(s, asks) ==
    LET t == [s EXCEPT !.perm = 0]
    IN  IF s.perm # asks THEN {Fails(t, Unknown)} ELSE Written(s, Heard(t, asks))

acp_advance(s, input) ==
    CASE IsPrompt(input) -> Written(s, GivePrompt(s, input.prompt))
      [] input.kind = "RespondInteraction" -> answer_permission(s, input.asks)
      [] OTHER -> {Fails(s, Unknown)}

scripted_advance(s, input) ==
    Written(s, IF IsPrompt(input) THEN GivePrompt(s, input.prompt) ELSE Heard(s, input.asks))

advance(flavor, s, input, there) ==
    CASE flavor \in OneShot -> oneshot_advance(s, input, there)
      [] flavor = "claude" -> claude_advance(s, input)
      [] flavor = "acp" -> acp_advance(s, input)
      [] flavor = "scripted" -> scripted_advance(s, input)

-----------------------------------------------------------------------------
\* close_child ends the process; how is up to the process.  Only a one-shot
\* session has ended others before.
shutdown(flavor, s, disposition) ==
    [s |-> [s EXCEPT !.run = FALSE],
     disposition |-> IF flavor \in OneShot THEN merge(s.worst, disposition) ELSE disposition]

leaves_residual_side_effects(disposition) == disposition \in {"ForcedKill", "Failed"}
=============================================================================
