---------------------------- MODULE Accumulator ----------------------------
(***************************************************************************)
(* The Accumulator that rebuilds a Response from normalized stream events  *)
(* (src/src/stream/accumulator/mod.rs), as functions on one record.        *)
(***************************************************************************)
EXTENDS StreamEvents

-----------------------------------------------------------------------------
(***************************************************************************)
(* PartialBlock.                                                           *)
(***************************************************************************)

\* raw is the value of an unknown block; its first piece is its type.
NewBlock(kind, call, raw) ==
    [kind |-> kind, call |-> call, text |-> raw, signature |-> None, json |-> None,
     input |-> None, input_available |-> FALSE, stopped |-> FALSE]

\* A delta of the block's own type replaces the value, any other is kept beside it.
apply_unknown_delta(raw, delta) ==
    IF Head(raw) = Head(delta) THEN delta ELSE raw \o delta

\* The error of push_delta, "" when the delta is taken.
DeltaError(b, kind) ==
    CASE b.stopped -> "BlockAlreadyStopped"
      [] ~b.stopped /\ kind \notin Expects(b.kind) -> "MismatchedDelta"
      [] ~b.stopped /\ kind = "Json" /\ b.input_available -> "ToolInputAlreadyComplete"
      [] OTHER -> ""

push_delta(b, kind, text) ==
    CASE kind \in {"Text", "Reasoning"} -> [b EXCEPT !.text = @ \o text]
      [] kind = "ReasoningSignature"    -> [b EXCEPT !.signature = @ \o text]
      [] kind = "Json"                  -> [b EXCEPT !.json = @ \o text]
      [] kind = "Unknown"               -> [b EXCEPT !.text = apply_unknown_delta(@, text)]

StopError(b) ==
    CASE b.stopped -> "BlockAlreadyStopped"
      [] ~b.stopped /\ b.kind = "ToolInput" /\ b.input = None /\ ~IsJson(b.json)
            -> "InvalidToolInput"
      [] OTHER -> ""

stop(b) == [b EXCEPT !.stopped = TRUE,
                     !.input = IF b.kind = "ToolInput" /\ @ = None THEN b.json ELSE @]

ToolInputError(b) ==
    CASE b.kind # "ToolInput" -> "UnexpectedToolInput"
      [] b.kind = "ToolInput" /\ b.input_available -> "DuplicateToolInput"
      [] OTHER -> ""

set_tool_input(b, input) == [b EXCEPT !.input = input, !.input_available = TRUE]

into_content(b) ==
    [kind |-> b.kind, call |-> b.call, text |-> b.text,
     signature |-> b.signature, input |-> b.input]

-----------------------------------------------------------------------------
(***************************************************************************)
(* Accumulator.  error is the AccumulatorError that push returned.         *)
(***************************************************************************)

NewAccumulator ==
    [blocks |-> << >>, order |-> << >>, usage |-> 0, role |-> "",
     stop_reason |-> "", error |-> ""]

Fails(acc, error) == [acc EXCEPT !.error = error]

\* One change of a block, or the error that refuses it.
OnBlock(acc, id, error, block) ==
    IF error # "" THEN Fails(acc, error) ELSE [acc EXCEPT !.blocks[id] = block]

start_block(acc, ev) ==
    IF ev.id \in DOMAIN acc.blocks
      THEN Fails(acc, "DuplicateBlock")
      ELSE [acc EXCEPT !.order = Append(@, ev.id),
                       !.blocks = With(@, ev.id, NewBlock(ev.kind, ev.call, ev.raw))]

PushToBlock(acc, ev) ==
    IF ev.id \notin DOMAIN acc.blocks
      THEN Fails(acc, "UnknownBlock")
      ELSE LET b == acc.blocks[ev.id]
           IN  CASE ev.e = "BlockDelta" ->
                        OnBlock(acc, ev.id, DeltaError(b, ev.kind), push_delta(b, ev.kind, ev.text))
                 [] ev.e = "BlockStop" -> OnBlock(acc, ev.id, StopError(b), stop(b))
                 [] ev.e = "ToolInputAvailable" ->
                        OnBlock(acc, ev.id, ToolInputError(b), set_tool_input(b, ev.input))

push(acc, ev) ==
    CASE ev.e = "Error" -> Fails(acc, "Stream")
      [] ev.e # "Error" /\ acc.stop_reason # "" -> Fails(acc, "EventAfterMessageStop")
      [] ev.e = "MessageStart" /\ acc.stop_reason = "" ->
            IF acc.role # "" THEN Fails(acc, "DuplicateMessageStart")
                             ELSE [acc EXCEPT !.role = "assistant"]
      [] ev.e = "BlockStart" /\ acc.stop_reason = "" -> start_block(acc, ev)
      [] ev.e \in {"BlockDelta", "BlockStop", "ToolInputAvailable"} /\ acc.stop_reason = "" ->
            PushToBlock(acc, ev)
      [] ev.e = "Usage" /\ acc.stop_reason = "" -> [acc EXCEPT !.usage = @ + ev.n]
      [] ev.e = "MessageStop" /\ acc.stop_reason = "" -> [acc EXCEPT !.stop_reason = ev.reason]

\* The error of finish, "" when it gives a Response.
FinishError(acc) ==
    CASE acc.role = "" -> "MissingMessageStart"
      [] acc.role # "" /\ acc.stop_reason = "" -> "MissingMessageStop"
      [] acc.role # "" /\ acc.stop_reason # ""
            /\ \E id \in DOMAIN acc.blocks : ~acc.blocks[id].stopped -> "UnclosedBlock"
      [] OTHER -> ""

Content(acc) == [i \in DOMAIN acc.order |-> into_content(acc.blocks[acc.order[i]])]

\* The blocks that have started and not stopped.
OpenBlocks(acc) == {id \in DOMAIN acc.blocks : ~acc.blocks[id].stopped}
=============================================================================
