----------------------------- MODULE ChatStream -----------------------------
(***************************************************************************)
(* The OpenAI Chat Completions StreamNormalizer                            *)
(* (src/src/adapter/openai_chat/stream/normalizer.rs) as a function from a *)
(* chunk to the normalizer it leaves and the events it yields, and the     *)
(* provider that writes the chunks.                                        *)
(***************************************************************************)
EXTENDS StreamEvents

CONSTANTS
    Indices,     \* the indices of tool calls
    MaxPieces,   \* bound: pieces of one message
    Counts       \* the token counts a usage object can carry

Unreported == -1              \* a chunk without usage

NewNormalizer ==
    [message_started |-> FALSE, terminal |-> FALSE, active_text |-> FALSE,
     active_reasoning |-> FALSE, tool_calls |-> << >>, stop_reason |-> Unset]

Yields(n, events) == [n |-> n, events |-> events, ok |-> TRUE]
Refuses(n) == [n |-> n, events |-> << >>, ok |-> FALSE]

TextId == <<"text", 0, 0>>
ReasoningId == <<"reasoning", 0, 0>>
ToolCallId(index) == <<"tool-call", index, 0>>

-----------------------------------------------------------------------------
(***************************************************************************)
(* Each step takes what the steps before it made of the chunk.             *)
(***************************************************************************)

Then(r, n, events) == [r EXCEPT !.n = n, !.events = @ \o events]

ensure_message_started(r) ==
    IF r.n.message_started THEN r
    ELSE Then(r, [r.n EXCEPT !.message_started = TRUE], <<MessageStart>>)

push_text_delta(r, text) ==
    Then(r, [r.n EXCEPT !.active_text = TRUE],
         (IF r.n.active_text THEN << >> ELSE <<BlockStart(TextId, "Text", 0, None)>>)
         \o <<BlockDelta(TextId, "Text", text)>>)

push_reasoning_delta(r, text) ==
    Then(r, [r.n EXCEPT !.active_reasoning = TRUE],
         (IF r.n.active_reasoning THEN << >>
                                  ELSE <<BlockStart(ReasoningId, "Reasoning", 0, None)>>)
         \o <<BlockDelta(ReasoningId, "Reasoning", text)>>)

\* The first fragment of a call must name it.
start_tool_call(r, call) ==
    IF ~call.named
      THEN [r EXCEPT !.ok = FALSE]
      ELSE Then(r, [r.n EXCEPT !.tool_calls = Append(@, call.index)],
                <<BlockStart(ToolCallId(call.index), "ToolInput", call.index + 1, None)>>)

push_tool_call(r, call) ==
    LET started == IF \E k \in DOMAIN r.n.tool_calls : r.n.tool_calls[k] = call.index
                     THEN r ELSE start_tool_call(r, call)
    IN  IF ~started.ok \/ call.arguments = None
          THEN started
          ELSE Then(started, started.n,
                    <<BlockDelta(ToolCallId(call.index), "Json", call.arguments)>>)

\* The tool calls of one chunk; the first that is refused refuses the chunk.
push_tool_calls(r, calls) ==
    CASE Len(calls) = 0 -> r
      [] Len(calls) = 1 -> push_tool_call(r, calls[1])
      [] Len(calls) = 2 -> LET first == push_tool_call(r, calls[1])
                           IN  IF first.ok THEN push_tool_call(first, calls[2]) ELSE first

translate_choice(old, c) ==
    LET r0 == ensure_message_started(old)
        r1 == IF c.content = None THEN r0 ELSE push_text_delta(r0, c.content)
        r2 == IF c.reasoning = None THEN r1 ELSE push_reasoning_delta(r1, c.reasoning)
        r3 == push_tool_calls(r2, c.tool_calls)
    IN  IF c.role \notin {Unset, "assistant"} THEN [r0 EXCEPT !.ok = FALSE]
        ELSE [r3 EXCEPT !.n.stop_reason = IF c.finish_reason = Unset THEN @ ELSE c.finish_reason]

close_open_blocks(r) ==
    Then(r, [r.n EXCEPT !.active_text = FALSE, !.active_reasoning = FALSE, !.tool_calls = << >>],
         (IF r.n.active_reasoning THEN <<BlockStop(ReasoningId)>> ELSE << >>)
         \o (IF r.n.active_text THEN <<BlockStop(TextId)>> ELSE << >>)
         \o [k \in DOMAIN r.n.tool_calls |-> BlockStop(ToolCallId(r.n.tool_calls[k]))])

\* The [DONE] sentinel.
done(n) ==
    LET r == close_open_blocks(ensure_message_started(Yields(n, << >>)))
    IN  Then(r, [r.n EXCEPT !.terminal = TRUE, !.stop_reason = Unset],
             <<MessageStop(IF n.stop_reason = Unset THEN "other" ELSE n.stop_reason)>>)

\* Only the first choice of a chunk is read, and usage goes through as it is.
translate(n, f) ==
    LET r == Yields(n, IF f.usage = Unreported THEN << >> ELSE <<Usage(f.usage)>>)
    IN  CASE n.terminal \/ f.t = "garbage" -> Refuses(n)
          [] ~n.terminal /\ f.t = "[DONE]" -> done(n)
          [] ~n.terminal /\ f.t = "chunk" ->
                IF f.choices = << >> THEN r ELSE translate_choice(r, f.choices[1])

\* The blocks the normalizer believes to be open.
OpenIn(n) ==
    (IF n.active_text THEN {TextId} ELSE {})
    \cup (IF n.active_reasoning THEN {ReasoningId} ELSE {})
    \cup {ToolCallId(n.tool_calls[k]) : k \in DOMAIN n.tool_calls}

-----------------------------------------------------------------------------
(***************************************************************************)
(* The provider (external): the message it has said so far, in the order   *)
(* in which its blocks started, the chunks it can write next, orderly or   *)
(* not, and what each of them says.  It reports usage once.                *)
(***************************************************************************)

Nothing == [blocks |-> << >>, tokens |-> 0, pieces |-> 0]

Fresh(said) == <<10 + said.pieces>>

Choice(role, content, reasoning, calls, reason) ==
    [role |-> role, content |-> content, reasoning |-> reasoning,
     tool_calls |-> calls, finish_reason |-> reason]

Calls(said) ==
    [index : Indices, named : BOOLEAN, arguments : {None, Fresh(said)}]

Choices(said) ==
    {Choice(r, None, None, << >>, Unset) : r \in {Unset, "assistant", "user"}}
    \cup {Choice(Unset, None, None, << >>, "stop")}
    \cup (IF said.pieces >= MaxPieces THEN {}
          ELSE {Choice(Unset, c, x, << >>, Unset) :
                    c \in {None, Fresh(said)}, x \in {None, Fresh(said)}}
               \cup {Choice(Unset, None, None, <<c>>, Unset) : c \in Calls(said)}
               \cup {Choice(Unset, None, None, <<c, d>>, "tool_calls") :
                        c \in Calls(said), d \in [index : Indices, named : {TRUE},
                                                  arguments : {Fresh(said)}]})

Frames(said) ==
    {[t |-> "chunk", usage |-> Unreported, choices |-> <<c>>] : c \in Choices(said)}
    \cup (IF said.tokens # 0 THEN {}
          ELSE {[t |-> "chunk", usage |-> u, choices |-> << >>] : u \in Counts})
    \cup {[t |-> x, usage |-> Unreported, choices |-> << >>] : x \in {"[DONE]", "garbage"}}

Started(said, id) == \E k \in DOMAIN said.blocks : said.blocks[k].id = id

\* said, with text added to block id, which starts with it.
Adds(said, id, kind, call, text) ==
    LET blocks == IF Started(said, id) THEN said.blocks
                  ELSE Append(said.blocks, [id |-> id, kind |-> kind, call |-> call,
                                            text |-> None])
    IN  [said EXCEPT !.blocks = [k \in DOMAIN blocks |->
            IF blocks[k].id = id THEN [blocks[k] EXCEPT !.text = @ \o text] ELSE blocks[k]]]

AddsCall(said, call) ==
    Adds(said, ToolCallId(call.index), "ToolInput", call.index + 1, call.arguments)

SaysChoice(said, c) ==
    LET s1 == IF c.content = None THEN said ELSE Adds(said, TextId, "Text", 0, c.content)
        s2 == IF c.reasoning = None THEN s1 ELSE Adds(s1, ReasoningId, "Reasoning", 0, c.reasoning)
        s3 == IF Len(c.tool_calls) >= 1 THEN AddsCall(s2, c.tool_calls[1]) ELSE s2
        s4 == IF Len(c.tool_calls) = 2 THEN AddsCall(s3, c.tool_calls[2]) ELSE s3
    IN  [s4 EXCEPT !.pieces = IF s4.blocks = said.blocks THEN @ ELSE @ + 1]

Says(said, f) ==
    LET s == IF f.choices = << >> THEN said ELSE SaysChoice(said, f.choices[1])
    IN  [s EXCEPT !.tokens = IF f.usage = Unreported THEN @ ELSE f.usage]

Meant(said) ==
    [k \in DOMAIN said.blocks |->
        LET b == said.blocks[k]
            tool == b.kind = "ToolInput"
        IN  [kind |-> b.kind, call |-> b.call, text |-> IF tool THEN None ELSE b.text,
             signature |-> None, input |-> IF tool THEN b.text ELSE None]]
=============================================================================
