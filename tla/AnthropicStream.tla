-------------------------- MODULE AnthropicStream --------------------------
(***************************************************************************)
(* The Anthropic StreamNormalizer                                          *)
(* (src/src/adapter/anthropic/stream/normalizer.rs, usage.rs) as a         *)
(* function from a wire frame to the normalizer it leaves and the events   *)
(* it yields, and the provider that writes the frames.                     *)
(***************************************************************************)
EXTENDS StreamEvents

CONSTANTS
    Indices,     \* the indices of content blocks
    MaxPieces,   \* bound: pieces of one block
    Counts       \* the token counts a usage report can carry

Unreported == -1              \* a usage report without the counter

NewNormalizer ==
    [message_started |-> FALSE, terminal |-> FALSE, blocks |-> << >>,
     stop_reason |-> Unset, usage |-> 0]

Yields(n, events) == [n |-> n, events |-> events, ok |-> TRUE]
Refuses(n) == [n |-> n, events |-> << >>, ok |-> FALSE]

block_id(index) == <<"anthropic-block", index, 0>>

-----------------------------------------------------------------------------

\* UsageTracker::incremental: the counters of the wire are cumulative.
incremental(n, count) ==
    IF count = Unreported
      THEN [ok |-> TRUE, n |-> 0, previous |-> n.usage]
      ELSE [ok |-> count >= n.usage, n |-> count - n.usage, previous |-> count]

message_start(n, f) ==
    LET u == incremental(n, f.usage)
    IN  IF n.message_started \/ f.role # "assistant" \/ ~u.ok
          THEN Refuses(n)
          ELSE Yields([n EXCEPT !.message_started = TRUE, !.usage = u.previous],
                      <<MessageStart, Usage(u.n)>>)

nonempty_delta(id, kind, text) ==
    IF text = None THEN << >> ELSE <<BlockDelta(id, kind, text)>>

\* A tool block keeps what its start gave as input; EmptyObject when it gave {}.
start_block(n, f) ==
    LET id == block_id(f.index)
        initial == CASE f.kind = "Text" -> nonempty_delta(id, "Text", f.text)
                     [] f.kind = "Reasoning" ->
                            nonempty_delta(id, "Reasoning", f.text)
                            \o nonempty_delta(id, "ReasoningSignature", f.text)
                     [] OTHER -> << >>
    IN  IF ~n.message_started \/ f.index \in DOMAIN n.blocks
          THEN Refuses(n)
          ELSE Yields([n EXCEPT !.blocks = With(@, f.index,
                          [kind |-> f.kind, initial_input |-> f.input, json |-> None,
                           saw_delta |-> FALSE, stopped |-> FALSE])],
                      <<BlockStart(id, f.kind, f.call, f.raw)>> \o initial)

push_delta(n, f) ==
    IF \/ ~n.message_started
       \/ f.index \notin DOMAIN n.blocks
       \/ n.blocks[f.index].stopped
       \/ f.kind \notin Expects(n.blocks[f.index].kind)
       \/ /\ f.kind = "Json"
          /\ ~n.blocks[f.index].saw_delta
          /\ n.blocks[f.index].initial_input # EmptyObject
      THEN Refuses(n)
      ELSE Yields(IF f.kind = "Json"
                    THEN [n EXCEPT !.blocks[f.index].saw_delta = TRUE,
                                   !.blocks[f.index].json = @ \o f.text]
                    ELSE n,
                  <<BlockDelta(block_id(f.index), f.kind, f.text)>>)

stop_block(n, f) ==
    IF ~n.message_started \/ f.index \notin DOMAIN n.blocks \/ n.blocks[f.index].stopped
      THEN Refuses(n)
      ELSE LET b == n.blocks[f.index]
               id == block_id(f.index)
               stopped == [n EXCEPT !.blocks[f.index].stopped = TRUE]
           IN  CASE b.kind # "ToolInput" -> Yields(stopped, <<BlockStop(id)>>)
                 [] b.kind = "ToolInput" /\ b.saw_delta /\ ~IsJson(b.json) -> Refuses(n)
                 [] OTHER -> Yields(stopped,
                       <<ToolInputAvailable(id, IF b.saw_delta THEN b.json ELSE b.initial_input),
                         BlockStop(id)>>)

message_delta(n, f) ==
    LET u == incremental(n, f.usage)
    IN  IF \/ ~n.message_started
           \/ f.stop_reason # Unset /\ n.stop_reason # Unset
           \/ ~u.ok
          THEN Refuses(n)
          ELSE Yields([n EXCEPT !.stop_reason = IF f.stop_reason = Unset THEN @ ELSE f.stop_reason,
                                !.usage = u.previous],
                      IF f.usage = Unreported THEN << >> ELSE <<Usage(u.n)>>)

first_open_block(n) == {i \in DOMAIN n.blocks : ~n.blocks[i].stopped}

message_stop(n) ==
    IF ~n.message_started \/ first_open_block(n) # {}
      THEN Refuses(n)
      ELSE Yields([n EXCEPT !.terminal = TRUE],
                  <<MessageStop(IF n.stop_reason = Unset THEN "other" ELSE n.stop_reason)>>)

translate(n, f) ==
    CASE n.terminal -> Refuses(n)
      [] ~n.terminal /\ f.t = "message_start"       -> message_start(n, f)
      [] ~n.terminal /\ f.t = "content_block_start" -> start_block(n, f)
      [] ~n.terminal /\ f.t = "content_block_delta" -> push_delta(n, f)
      [] ~n.terminal /\ f.t = "content_block_stop"  -> stop_block(n, f)
      [] ~n.terminal /\ f.t = "message_delta"       -> message_delta(n, f)
      [] ~n.terminal /\ f.t = "message_stop"        -> message_stop(n)
      [] ~n.terminal /\ f.t = "ping"                -> Yields(n, << >>)
      [] ~n.terminal /\ f.t = "error"               ->
            Yields([n EXCEPT !.terminal = TRUE], <<ErrorEvent>>)
      [] ~n.terminal /\ f.t = "garbage"             -> Refuses(n)

\* The blocks the normalizer believes to be open.
OpenIn(n) == {block_id(i) : i \in first_open_block(n)}

-----------------------------------------------------------------------------
(***************************************************************************)
(* The provider (external): the message it has said so far, in the order   *)
(* in which its blocks started, the frames it can write next, orderly or   *)
(* not, and what each of them says.                                        *)
(***************************************************************************)

Nothing == [blocks |-> << >>, tokens |-> 0, pieces |-> 0]

Fresh(said) == <<10 + said.pieces>>

\* What the start of a block carries: nothing, or its first piece; a tool call
\* its whole input, an unknown block its value.
Starts(said) ==
    {[t |-> "content_block_start", index |-> i, kind |-> k, call |-> 0, text |-> x,
      input |-> None, raw |-> None] :
         i \in Indices, k \in {"Text", "Reasoning"}, x \in {None, Fresh(said)}}
    \cup
    {[t |-> "content_block_start", index |-> i, kind |-> "ToolInput", call |-> i + 1,
      text |-> None, input |-> x, raw |-> None] : i \in Indices, x \in {EmptyObject, <<Whole>>}}
    \cup
    {[t |-> "content_block_start", index |-> i, kind |-> "Unknown", call |-> 0, text |-> None,
      input |-> None, raw |-> Fresh(said)] : i \in Indices}

Deltas(said) ==
    {[t |-> "content_block_delta", index |-> i, kind |-> k, text |-> Fresh(said)] :
         i \in Indices, k \in {"Text", "Reasoning", "ReasoningSignature", "Json", "Unknown"}}
    \cup
    {[t |-> "content_block_delta", index |-> i, kind |-> "Json", text |-> None] : i \in Indices}

Frames(said) ==
    {[t |-> "message_start", role |-> r, usage |-> u] : r \in {"assistant", "user"}, u \in Counts}
    \cup (IF said.pieces < MaxPieces THEN Starts(said) \cup Deltas(said) ELSE {})
    \cup {[t |-> "content_block_stop", index |-> i] : i \in Indices}
    \cup {[t |-> "message_delta", stop_reason |-> r, usage |-> u] :
              r \in {Unset, "end_turn"}, u \in Counts \cup {Unreported}}
    \cup {[t |-> x] : x \in {"message_stop", "ping", "error", "garbage"}}

\* Block b after the piece that delta f carries.
Continued(b, f) ==
    CASE f.kind = "Json"               -> [b EXCEPT !.json = @ \o f.text]
      [] f.kind = "ReasoningSignature" -> [b EXCEPT !.signature = @ \o f.text]
      [] OTHER                         -> [b EXCEPT !.text = @ \o f.text]

Says(said, f) ==
    CASE f.t = "content_block_start" ->
            [said EXCEPT
               !.pieces = @ + 1,
               !.blocks = Append(@, [index |-> f.index, kind |-> f.kind, call |-> f.call,
                                     text |-> f.text \o f.raw, json |-> None, input |-> f.input,
                                     signature |-> IF f.kind = "Reasoning" THEN f.text ELSE None])]
      [] f.t = "content_block_delta" ->
            [said EXCEPT
               !.pieces = @ + 1,
               !.blocks = [k \in DOMAIN @ |-> IF @[k].index = f.index THEN Continued(@[k], f)
                                                                      ELSE @[k]]]
      [] f.t \in {"message_start", "message_delta"} ->
            [said EXCEPT !.tokens = IF f.usage = Unreported THEN @ ELSE f.usage]
      [] OTHER -> said

\* The content and the tokens of the message said.
Meant(said) ==
    [k \in DOMAIN said.blocks |->
        LET b == said.blocks[k]
        IN  [kind |-> b.kind, call |-> b.call, text |-> b.text, signature |-> b.signature,
             input |-> IF b.json = None THEN b.input ELSE b.json]]
=============================================================================
