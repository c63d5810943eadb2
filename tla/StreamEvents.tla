---------------------------- MODULE StreamEvents ----------------------------
(***************************************************************************)
(* The normalized stream events (src/src/stream/mod.rs) that the provider  *)
(* normalizers yield and the Accumulator takes.                            *)
(*                                                                         *)
(* Text is a sequence of pieces, numbers that tell apart where each piece  *)
(* came from; None, the empty sequence, is also the empty string.  A JSON  *)
(* document is complete when it has two pieces, or is the one piece of     *)
(* EmptyObject or of a value given whole.  Metadata (ResponseMetadata,     *)
(* Usage.extra) is left out, and token counts stay below u32's end.        *)
(***************************************************************************)
EXTENDS Integers, Sequences

None == << >>
Unset == ""                   \* no role, or no reason, is given
EmptyObject == <<0>>
Whole == 7                    \* the piece of a JSON value given whole
Separator == 9                \* the newline between two parts of a reasoning text

\* f with x mapped to v.
With(f, x, v) == [y \in DOMAIN f \cup {x} |-> IF y = x THEN v ELSE f[y]]

\* f, and g where f has no value.
Beside(f, g) == [y \in DOMAIN f \cup DOMAIN g |-> IF y \in DOMAIN f THEN f[y] ELSE g[y]]

IsJson(text) == Len(text) = 2 \/ text \in {EmptyObject, <<Whole>>}

-----------------------------------------------------------------------------
(***************************************************************************)
(* StreamEvent, BlockKind and Delta.                                       *)
(***************************************************************************)

MessageStart == [e |-> "MessageStart"]
BlockStart(id, kind, call, raw) ==
    [e |-> "BlockStart", id |-> id, kind |-> kind, call |-> call, raw |-> raw]
BlockDelta(id, kind, text) == [e |-> "BlockDelta", id |-> id, kind |-> kind, text |-> text]
BlockStop(id) == [e |-> "BlockStop", id |-> id]
ToolInputAvailable(id, input) == [e |-> "ToolInputAvailable", id |-> id, input |-> input]
Usage(n) == [e |-> "Usage", n |-> n]
MessageStop(reason) == [e |-> "MessageStop", reason |-> reason]
ErrorEvent == [e |-> "Error"]

\* The deltas a block of this kind takes.
Expects(kind) ==
    CASE kind = "Text"      -> {"Text"}
      [] kind = "Reasoning" -> {"Reasoning", "ReasoningSignature"}
      [] kind = "ToolInput" -> {"Json"}
      [] kind = "Unknown"   -> {"Unknown"}
=============================================================================
