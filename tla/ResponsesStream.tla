-------------------------- MODULE ResponsesStream --------------------------
(***************************************************************************)
(* The OpenAI Responses StreamNormalizer                                   *)
(* (src/src/adapter/openai_resp/stream/normalizer/) as a function from a   *)
(* wire event to the normalizer it leaves and the events it yields, and    *)
(* the provider that writes the events.                                    *)
(*                                                                         *)
(* This protocol says everything twice: every text, part and item is       *)
(* repeated whole when it is done, and the terminal response repeats all   *)
(* the items.  The normalizer compares each repetition with what streamed. *)
(***************************************************************************)
EXTENDS StreamEvents, FiniteSets

LOCAL INSTANCE SequencesExt

CONSTANTS
    Indices,     \* the output indices, from 0
    MaxParts,    \* bound: content parts of a message, parts of a reasoning text
    MaxPieces,   \* bound: pieces of one response
    MaxSent,   \* bound: events of one response
    MaxIdle,     \* bound: events of one response that change nothing
    Counts       \* the token counts a usage object can carry

UnknownType == 5              \* the first piece of a part of a type nobody knows
Wrong == <<99>>               \* a text that was never streamed
NoPart == [kind |-> "", text |-> None]
NoItem == [id |-> 0, type |-> "", content |-> << >>, raw |-> << >>, summary |-> << >>,
           signature |-> None, call |-> 0, arguments |-> None]

NewNormalizer ==
    [response_id |-> 0, terminal |-> FALSE, next_sequence |-> 0, items |-> << >>,
     item_indices |-> << >>, unmodeled_events |-> 0]

Yields(n, events) == [n |-> n, events |-> events, ok |-> TRUE]
Refuses(n) == [n |-> n, events |-> << >>, ok |-> FALSE]
Made(x, events) == [x |-> x, events |-> events, ok |-> TRUE]
Not(x) == [x |-> x, events |-> << >>, ok |-> FALSE]

item_block_id(id) == <<"item", id, 0>>
content_block_id(id, index) == <<"content", id, index>>

-----------------------------------------------------------------------------
(***************************************************************************)
(* ActivePart (item/part.rs): one content part of a message.               *)
(***************************************************************************)

PartKinds == {"output_text", "refusal"}

\* ActivePart::start
part_start(id, f) ==
    LET block == content_block_id(id, f.content_index)
        known == f.part.kind \in PartKinds
        text == f.part.text
    IN  Made([kind |-> f.part.kind, text |-> IF known THEN text ELSE None, done_part |-> NoPart],
             <<BlockStart(block, IF known THEN "Text" ELSE "Unknown", 0,
                          IF known THEN None ELSE text)>>
             \o IF known /\ text # None THEN <<BlockDelta(block, "Text", text)>> ELSE << >>)

part_open(part) == part.done_part = NoPart

part_push_delta(part, id, f) ==
    IF ~part_open(part) \/ part.kind # f.kind
      THEN Not(part)
      ELSE Made([part EXCEPT !.text = @ \o f.text],
                <<BlockDelta(content_block_id(id, f.content_index), "Text", f.text)>>)

part_validate_text(part, f) == part_open(part) /\ part.kind = f.kind /\ part.text = f.text

part_finish(part, id, f) ==
    LET block == content_block_id(id, f.content_index)
        known == part.kind \in PartKinds
    IN  IF ~part_open(part) \/ (known /\ f.part # [kind |-> part.kind, text |-> part.text])
          THEN Not(part)
          ELSE Made([part EXCEPT !.done_part = f.part],
                    (IF known THEN << >> ELSE <<BlockDelta(block, "Unknown", f.part.text)>>)
                    \o <<BlockStop(block)>>)

validate_done_value(part, value) == ~part_open(part) /\ part.done_part = value

-----------------------------------------------------------------------------
(***************************************************************************)
(* IndexedText (item/reasoning.rs): the parts of a reasoning text in the   *)
(* order of their indices.                                                 *)
(***************************************************************************)

from_parts(texts) == [k \in DOMAIN texts |-> [index |-> k - 1, text |-> texts[k]]]

LastIndex(indexed) == IF indexed = << >> THEN 0 ELSE indexed[Len(indexed)].index

\* Fault: the parts run together.
push_NoSeparator(indexed, index, text) ==
    IF indexed # << >> /\ index = LastIndex(indexed)
      THEN Made([indexed EXCEPT ![Len(indexed)].text = @ \o text], text)
      ELSE Made(Append(indexed, [index |-> index, text |-> text]), text)

\* What the fragment makes of the text, and the text to emit for it.
push(indexed, index, text) ==
    CASE index < LastIndex(indexed) -> Not(indexed)
      [] indexed # << >> /\ index = LastIndex(indexed) ->
            Made([indexed EXCEPT ![Len(indexed)].text = @ \o text], text)
      [] OTHER ->
            Made(Append(indexed, [index |-> index, text |-> text]),
                 IF \E k \in DOMAIN indexed : indexed[k].text # None
                   THEN <<Separator>> \o text ELSE text)

validate(indexed, index, text) ==
    \E k \in DOMAIN indexed : indexed[k].index = index /\ indexed[k].text = text

joined(indexed) ==
    LET Join(text, part) == text \o <<Separator>> \o part.text
    IN  IF indexed = << >> THEN None
        ELSE FoldLeft(Join, indexed[1].text, Tail(indexed))

IsEmptyText(indexed) == \A k \in DOMAIN indexed : indexed[k].text = None

\* The fragments of one part are one delta here.
replay(indexed, block) ==
    [k \in DOMAIN indexed |->
        BlockDelta(block, "Reasoning",
                   IF k = 1 THEN indexed[k].text ELSE <<Separator>> \o indexed[k].text)]

-----------------------------------------------------------------------------
(***************************************************************************)
(* ActiveItem (item.rs).                                                   *)
(***************************************************************************)

\* ActiveItem::start
item_start(v) ==
    LET block == item_block_id(v.id)
        raw == from_parts(v.raw)
        it == [id |-> v.id, type |-> v.type, parts |-> << >>, raw |-> raw,
               summary |-> from_parts(v.summary), signature |-> v.signature, call |-> v.call,
               arguments |-> v.arguments, input_available |-> FALSE, done_item |-> NoItem]
    IN  CASE v.type = "message" -> IF v.content # << >> THEN Not(it) ELSE Made(it, << >>)
          [] v.type = "reasoning" ->
                Made(it, <<BlockStart(block, "Reasoning", 0, None)>> \o replay(raw, block))
          [] v.type = "function_call" ->
                Made(it, <<BlockStart(block, "ToolInput", v.call, None)>>
                         \o IF v.arguments = None THEN << >>
                            ELSE <<BlockDelta(block, "Json", v.arguments)>>)
          [] OTHER -> Made(it, << >>)

is_done(it) == it.done_item # NoItem

add_content_part(it, f) ==
    IF is_done(it) \/ it.type # "message" \/ f.content_index \in DOMAIN it.parts
      THEN Not(it)
      ELSE LET r == part_start(it.id, f)
           IN  Made([it EXCEPT !.parts = With(@, f.content_index, r.x)], r.events)

message_part_mut(it, f) ==
    ~is_done(it) /\ it.type = "message" /\ f.content_index \in DOMAIN it.parts

\* What r made of part f.content_index of it.
WithPart(it, f, r) ==
    IF r.ok THEN Made([it EXCEPT !.parts[f.content_index] = r.x], r.events) ELSE Not(it)

item_push_message_delta(it, f) ==
    IF ~message_part_mut(it, f) THEN Not(it)
    ELSE WithPart(it, f, part_push_delta(it.parts[f.content_index], it.id, f))

item_finish_message_text(it, f) ==
    IF message_part_mut(it, f) /\ part_validate_text(it.parts[f.content_index], f)
      THEN Made(it, << >>) ELSE Not(it)

finish_content_part(it, f) ==
    IF ~message_part_mut(it, f) THEN Not(it)
    ELSE WithPart(it, f, part_finish(it.parts[f.content_index], it.id, f))

\* A summary is kept back: it is only shown when no raw text came.
push_reasoning_delta(it, f) ==
    LET r == push(IF f.summary THEN it.summary ELSE it.raw, f.part_index, f.text)
    IN  IF is_done(it) \/ it.type # "reasoning" \/ ~r.ok THEN Not(it)
        ELSE IF f.summary THEN Made([it EXCEPT !.summary = r.x], << >>)
        ELSE Made([it EXCEPT !.raw = r.x],
                  <<BlockDelta(item_block_id(it.id), "Reasoning", r.events)>>)

finish_reasoning_text(it, f) ==
    IF /\ ~is_done(it) /\ it.type = "reasoning"
       /\ validate(IF f.summary THEN it.summary ELSE it.raw, f.part_index, f.text)
      THEN Made(it, << >>) ELSE Not(it)

push_arguments_delta(it, f) ==
    IF is_done(it) \/ it.type # "function_call" \/ it.input_available
      THEN Not(it)
      ELSE Made([it EXCEPT !.arguments = @ \o f.text],
                <<BlockDelta(item_block_id(it.id), "Json", f.text)>>)

\* Fault: the input may be completed again.
item_finish_arguments_Again(it, f) ==
    IF is_done(it) \/ it.type # "function_call" \/ f.text = None \/ it.arguments # f.text
         \/ ~IsJson(f.text)
      THEN Not(it)
      ELSE Made([it EXCEPT !.input_available = TRUE],
                <<ToolInputAvailable(item_block_id(it.id), f.text)>>)

\* The complete arguments, "{}" for none; they may be the first that come.
item_finish_arguments(it, f) ==
    LET block == item_block_id(it.id)
        late == it.arguments = None /\ f.text # None
        input == IF f.text = None THEN EmptyObject ELSE f.text
    IN  IF \/ is_done(it) \/ it.type # "function_call" \/ it.input_available
           \/ ~late /\ it.arguments # f.text
           \/ ~IsJson(input)
          THEN Not(it)
          ELSE Made([it EXCEPT !.arguments = f.text, !.input_available = TRUE],
                    (IF late THEN <<BlockDelta(block, "Json", f.text)>> ELSE << >>)
                    \o <<ToolInputAvailable(block, input)>>)

\* What output_item.done must repeat, by the type of the item.
RepeatsMessage(it, v) ==
    /\ Len(v.content) = Cardinality(DOMAIN it.parts)
    /\ \A k \in DOMAIN v.content :
          k - 1 \in DOMAIN it.parts /\ validate_done_value(it.parts[k - 1], v.content[k])

RepeatsReasoning(it, v) ==
    /\ joined(it.raw) = joined(from_parts(v.raw))
    /\ joined(it.summary) = joined(from_parts(v.summary))
    /\ it.signature # None => v.signature = it.signature

RepeatsCall(it, v) == v.call = it.call /\ v.arguments = it.arguments /\ it.input_available

ReasoningEnds(it, v) ==
    LET block == item_block_id(it.id)
    IN  (IF IsEmptyText(it.raw) THEN replay(it.summary, block) ELSE << >>)
        \o (IF v.signature = None THEN << >>
            ELSE <<BlockDelta(block, "ReasoningSignature", v.signature)>>)
        \o <<BlockStop(block)>>

item_finish_item(it, v) ==
    IF \/ is_done(it) \/ v.id # it.id \/ v.type # it.type
       \/ it.type = "message" /\ ~RepeatsMessage(it, v)
       \/ it.type = "reasoning" /\ ~RepeatsReasoning(it, v)
       \/ it.type = "function_call" /\ ~RepeatsCall(it, v)
      THEN Not(it)
      ELSE Made([it EXCEPT !.done_item = v],
                CASE it.type = "reasoning"     -> ReasoningEnds(it, v)
                  [] it.type = "function_call" -> <<BlockStop(item_block_id(it.id))>>
                  [] OTHER                     -> << >>)

validate_terminal_item(it, v) == is_done(it) /\ it.done_item = v

-----------------------------------------------------------------------------
(***************************************************************************)
(* The normalizer (mod.rs, terminal.rs).                                   *)
(***************************************************************************)

require_started(n) == n.response_id # 0

start_response(n, f) ==
    IF require_started(n) \/ ~f.valid THEN Refuses(n)
    ELSE Yields([n EXCEPT !.response_id = f.id], <<MessageStart>>)

start_item(n, f) ==
    IF \/ ~require_started(n)
       \/ f.index \in DOMAIN n.items
       \/ ~item_start(f.item).ok
       \/ f.item.id \in DOMAIN n.item_indices
      THEN Refuses(n)
      ELSE LET r == item_start(f.item)
           IN  Yields([n EXCEPT !.items = With(@, f.index, r.x),
                                !.item_indices = With(@, f.item.id, f.index)], r.events)

item_mut(n, id, index) ==
    /\ require_started(n)
    /\ id \in DOMAIN n.item_indices /\ n.item_indices[id] = index
    /\ index \in DOMAIN n.items

\* What r made of the item at index.
Through(n, index, r) ==
    IF r.ok THEN Yields([n EXCEPT !.items[index] = r.x], r.events) ELSE Refuses(n)

start_content(n, f) ==
    IF ~item_mut(n, f.id, f.index) THEN Refuses(n)
    ELSE Through(n, f.index, add_content_part(n.items[f.index], f))
push_message_delta(n, f) ==
    IF ~item_mut(n, f.id, f.index) THEN Refuses(n)
    ELSE Through(n, f.index, item_push_message_delta(n.items[f.index], f))
finish_message_text(n, f) ==
    IF ~item_mut(n, f.id, f.index) THEN Refuses(n)
    ELSE Through(n, f.index, item_finish_message_text(n.items[f.index], f))
finish_content(n, f) ==
    IF ~item_mut(n, f.id, f.index) THEN Refuses(n)
    ELSE Through(n, f.index, finish_content_part(n.items[f.index], f))
push_reasoning(n, f) ==
    IF ~item_mut(n, f.id, f.index) THEN Refuses(n)
    ELSE Through(n, f.index, push_reasoning_delta(n.items[f.index], f))
finish_reasoning(n, f) ==
    IF ~item_mut(n, f.id, f.index) THEN Refuses(n)
    ELSE Through(n, f.index, finish_reasoning_text(n.items[f.index], f))
push_arguments(n, f) ==
    IF ~item_mut(n, f.id, f.index) THEN Refuses(n)
    ELSE Through(n, f.index, push_arguments_delta(n.items[f.index], f))
finish_arguments(n, f) ==
    IF ~item_mut(n, f.id, f.index) THEN Refuses(n)
    ELSE Through(n, f.index, item_finish_arguments(n.items[f.index], f))
finish_item(n, f) ==
    IF ~item_mut(n, f.item.id, f.index) THEN Refuses(n)
    ELSE Through(n, f.index, item_finish_item(n.items[f.index], f.item))

validate_response_snapshot(n, f) == require_started(n) /\ f.id = n.response_id /\ f.valid

validate_terminal_output(n, output) ==
    /\ Len(output) = Cardinality(DOMAIN n.items)
    /\ \A k \in DOMAIN output :
          k - 1 \in DOMAIN n.items /\ validate_terminal_item(n.items[k - 1], output[k])

finish_response(n, f) ==
    IF ~validate_response_snapshot(n, f) \/ ~validate_terminal_output(n, f.output)
      THEN Refuses(n)
      ELSE Yields([n EXCEPT !.items = << >>, !.item_indices = << >>, !.unmodeled_events = 0,
                            !.terminal = TRUE],
                  <<Usage(f.usage), MessageStop(f.t)>>)

fail_response(n, f) ==
    IF ~validate_response_snapshot(n, f) THEN Refuses(n)
    ELSE Yields([n EXCEPT !.terminal = TRUE], <<ErrorEvent>>)

Unnumbered == -1

\* Fault: a number ahead of the expected one is let through.
validate_sequence_AllowsGap(n, number) == number = Unnumbered \/ number >= n.next_sequence

\* An event without a number advances the count too.
validate_sequence(n, number) == number \in {Unnumbered, n.next_sequence}

translate_wire(n, f) ==
    CASE f.t = "response.created"     -> start_response(n, f)
      [] f.t = "response.in_progress" ->
            IF validate_response_snapshot(n, f) THEN Yields(n, << >>) ELSE Refuses(n)
      [] f.t = "output_item.added"    -> start_item(n, f)
      [] f.t = "content_part.added"   -> start_content(n, f)
      [] f.t = "text.delta"           -> push_message_delta(n, f)
      [] f.t = "text.done"            -> finish_message_text(n, f)
      [] f.t = "content_part.done"    -> finish_content(n, f)
      [] f.t = "reasoning.delta"      -> push_reasoning(n, f)
      [] f.t = "reasoning.done"       -> finish_reasoning(n, f)
      [] f.t = "arguments.delta"      -> push_arguments(n, f)
      [] f.t = "arguments.done"       -> finish_arguments(n, f)
      [] f.t = "output_item.done"     -> finish_item(n, f)
      [] f.t \in {"completed", "incomplete"} -> finish_response(n, f)
      [] f.t = "failed"               -> fail_response(n, f)
      [] f.t = "error"   -> Yields([n EXCEPT !.terminal = TRUE], <<ErrorEvent>>)
      [] f.t = "unknown" -> Yields([n EXCEPT !.unmodeled_events = @ + 1], << >>)

translate(n, f) ==
    IF n.terminal \/ f.t = "garbage" \/ ~validate_sequence(n, f.number)
      THEN Refuses(n)
      ELSE translate_wire([n EXCEPT !.next_sequence = @ + 1], f)

\* The blocks the normalizer believes to be open.
OpenIn(n) ==
    {item_block_id(n.items[i].id) : i \in {j \in DOMAIN n.items :
        n.items[j].type \in {"reasoning", "function_call"} /\ ~is_done(n.items[j])}}
    \cup UNION {{content_block_id(n.items[i].id, k) :
                    k \in {j \in DOMAIN n.items[i].parts : part_open(n.items[i].parts[j])}} :
                i \in DOMAIN n.items}

-----------------------------------------------------------------------------
(***************************************************************************)
(* The provider (external): the items it has said so far, each as it would *)
(* repeat it now, the blocks in the order in which they started, the       *)
(* events it can write next, orderly or not, and what each of them says.   *)
(***************************************************************************)

Nothing == [items |-> << >>, order |-> << >>, tokens |-> 0, pieces |-> 0, sent |-> 0, idle |-> 0]

Fresh(said) == <<10 + said.pieces>>

Item(said, index) ==
    said.items[CHOOSE k \in DOMAIN said.items : said.items[k].index = index].v

Started(said) == {said.items[k].index : k \in DOMAIN said.items}

\* The values with which items start.
NewItems(said, id) ==
    LET base == [NoItem EXCEPT !.id = id]
    IN  {[base EXCEPT !.type = "message"], [base EXCEPT !.type = "web_search_call"]}
        \cup {[base EXCEPT !.type = "reasoning"],
              [base EXCEPT !.type = "reasoning", !.raw = <<Fresh(said)>>, !.signature = <<Whole>>]}
        \cup {[base EXCEPT !.type = "function_call", !.call = id, !.arguments = a] :
                 a \in {None, Fresh(said)}}

\* The item with one of its fields not as it was streamed.
Garbled(v) ==
    {[v EXCEPT !.type = "other"]}
    \cup (CASE v.type = "message" -> {[v EXCEPT !.content = Append(@, NoPart)]}
            [] v.type = "reasoning" -> {[v EXCEPT !.raw = Append(@, Wrong)],
                                        [v EXCEPT !.summary = Append(@, Wrong)],
                                        [v EXCEPT !.signature = Wrong]}
            [] v.type = "function_call" -> {[v EXCEPT !.arguments = Wrong],
                                            [v EXCEPT !.call = 99]}
            [] OTHER -> {})

\* Events that repeat what was said.  An unknown part grows until it is done, and
\* arguments may come only when they are done.
Repetitions(said, i) ==
    LET v == Item(said, i)
        on == [id |-> v.id, index |-> i]
    IN  {Beside([t |-> "text.done", content_index |-> c - 1, kind |-> v.content[c].kind,
          text |-> v.content[c].text], on) : c \in DOMAIN v.content}
        \cup {Beside([t |-> "content_part.done", content_index |-> c - 1,
               part |-> IF v.content[c].kind \in PartKinds THEN v.content[c]
                        ELSE [v.content[c] EXCEPT !.text = @ \o Fresh(said)]], on) :
                 c \in DOMAIN v.content}
        \cup {Beside([t |-> "reasoning.done", summary |-> FALSE, part_index |-> c - 1,
               text |-> v.raw[c]], on) : c \in DOMAIN v.raw}
        \cup {Beside([t |-> "reasoning.done", summary |-> TRUE, part_index |-> c - 1,
               text |-> v.summary[c]], on) : c \in DOMAIN v.summary}
        \cup {Beside([t |-> "arguments.done", text |-> x], on) :
                 x \in {v.arguments} \cup (IF v.arguments = None THEN {<<Whole>>} ELSE {})}
        \cup {[t |-> "output_item.done", index |-> i, item |-> x] :
                 x \in {v} \cup (IF v.type = "reasoning" /\ v.signature = None
                                   THEN {[v EXCEPT !.signature = <<Whole>>]} ELSE {})}

\* Events that repeat something else.
BadRepetitions(said, i) ==
    LET v == Item(said, i)
        on == [id |-> v.id, index |-> i]
        known == {c \in DOMAIN v.content : v.content[c].kind \in PartKinds}
    IN  {Beside([t |-> "text.done", content_index |-> c - 1, kind |-> k, text |-> x], on) :
            c \in known, k \in PartKinds, x \in {Wrong, None}}
        \cup {Beside([t |-> "content_part.done", content_index |-> c - 1, part |-> p], on) :
                 c \in known, p \in {[kind |-> k, text |-> x] : k \in PartKinds, x \in {Wrong, None}}}
        \cup {Beside([t |-> "reasoning.done", summary |-> s, part_index |-> c, text |-> Wrong], on) :
                 s \in BOOLEAN, c \in 0..(MaxParts - 1)}
        \cup {Beside([t |-> "arguments.done", text |-> Wrong], on)}
        \cup {[t |-> "output_item.done", index |-> i, item |-> x] : x \in Garbled(v)}

\* Events with a new piece of the response.
PieceEvents(said, i) ==
    LET v == Item(said, i)
        on == [id |-> v.id, index |-> i]
    IN  CASE v.type = "message" ->
                {Beside([t |-> "content_part.added", content_index |-> c, part |-> p], on) :
                    c \in {Len(v.content)} \cap 0..(MaxParts - 1),
                    p \in {[kind |-> k, text |-> x] : k \in PartKinds, x \in {None, Fresh(said)}}
                          \cup {[kind |-> "audio", text |-> <<UnknownType>> \o Fresh(said)]}}
                \cup {Beside([t |-> "text.delta", content_index |-> c - 1, kind |-> v.content[c].kind,
                       text |-> Fresh(said)], on) :
                         c \in {d \in DOMAIN v.content : v.content[d].kind \in PartKinds}}
          [] v.type = "reasoning" ->
                {Beside([t |-> "reasoning.delta", summary |-> s, part_index |-> c, text |-> Fresh(said)], on) :
                    s \in BOOLEAN, c \in 0..(MaxParts - 1)}
          [] v.type = "function_call" -> {Beside([t |-> "arguments.delta", text |-> Fresh(said)], on)}
          [] OTHER -> {}

\* Pieces for an item, or a part, that cannot take them.
BadPieces(said, i) ==
    LET on == [id |-> i + 1, index |-> i]
    IN  {Beside([t |-> "text.delta", content_index |-> c, kind |-> "refusal", text |-> Fresh(said)], on) :
            c \in 0..(MaxParts - 1)}
        \cup {Beside([t |-> "content_part.added", content_index |-> 0,
               part |-> [kind |-> "refusal", text |-> None]], on),
              Beside([t |-> "reasoning.delta", summary |-> FALSE, part_index |-> 0,
               text |-> Fresh(said)], on),
              Beside([t |-> "arguments.delta", text |-> Fresh(said)], on),
              [t |-> "arguments.delta", id |-> 1, index |-> 1, text |-> Fresh(said)]}

\* The items in the order of their indices, as the terminal response has them.
Output(said) ==
    [k \in 1..Cardinality(Started(said)) |->
        IF k - 1 \in Started(said) THEN Item(said, k - 1) ELSE NoItem]

WrongOutputs(said) ==
    LET o == Output(said)
    IN  IF o = << >> THEN {<<NoItem>>}
        ELSE {Tail(o)} \cup {<<w>> \o Tail(o) : w \in Garbled(o[1])}

Terminal(status, id, output) ==
    [t |-> status, id |-> id, valid |-> TRUE, output |-> output, usage |-> CHOOSE u \in Counts : TRUE]

\* The events of a provider that keeps to the protocol, in any order.
Events(said) ==
    {[t |-> "response.created", id |-> 1, valid |-> TRUE], [t |-> "failed", id |-> 1, valid |-> TRUE],
     [t |-> "error"], Terminal("completed", 1, Output(said)), Terminal("incomplete", 1, Output(said))}
    \cup {[t |-> "unknown"], [t |-> "response.in_progress", id |-> 1, valid |-> TRUE]}
    \cup (UNION {Repetitions(said, i) : i \in Started(said)})
    \cup (IF said.pieces >= MaxPieces THEN {}
          ELSE (UNION {PieceEvents(said, i) : i \in Started(said)})
               \cup UNION {{[t |-> "output_item.added", index |-> i, item |-> v] :
                               v \in NewItems(said, i + 1)} : i \in Indices \ Started(said)})

\* The events of one that does not.
BadEvents(said) ==
    {[t |-> "garbage"], [t |-> "response.created", id |-> 1, valid |-> FALSE]}
    \cup {[t |-> x, id |-> 2, valid |-> TRUE] : x \in {"response.in_progress", "failed"}}
    \cup {Terminal("completed", 2, Output(said))}
    \cup {Terminal("completed", 1, o) : o \in WrongOutputs(said)}
    \cup (UNION {BadRepetitions(said, i) : i \in Started(said)})
    \cup {[t |-> "output_item.added", index |-> i, item |-> v] :
             i \in Indices, v \in NewItems(said, 1) \cup 
                                  {[NoItem EXCEPT !.id = 3, !.type = "message", !.content = <<NoPart>>]}}
    \cup UNION {BadPieces(said, i) : i \in Indices}

IdleEvents == {"unknown", "response.in_progress", "text.done", "reasoning.done"}

\* numbered: does this provider number its events?  orderly: does it keep to the protocol?
Frames(said, numbered, orderly) ==
    IF said.sent >= MaxSent THEN {}
    ELSE {Beside([number |-> IF numbered THEN said.sent ELSE Unnumbered], f) :
             f \in {e \in Events(said) \cup (IF orderly THEN {} ELSE BadEvents(said)) :
                        e.t \in IdleEvents => said.idle < MaxIdle}}

\* said with value v in the place of the item at index.
Revised(said, index, v) ==
    [said EXCEPT !.items = [k \in DOMAIN @ |-> IF @[k].index = index THEN [index |-> index, v |-> v]
                                                                     ELSE @[k]]]

\* The reasoning parts with one more piece in part index.
Longer(texts, index, text) ==
    CASE index < Len(texts) -> [texts EXCEPT ![index + 1] = @ \o text]
      [] index = Len(texts) -> Append(texts, text)
      [] OTHER -> texts

\* The value of an item after event f.
Continued(v, f) ==
    CASE f.t = "content_part.added" /\ f.content_index = Len(v.content) ->
            [v EXCEPT !.content = Append(@, f.part)]
      [] f.t = "text.delta" -> [v EXCEPT !.content[f.content_index + 1].text = @ \o f.text]
      [] f.t = "content_part.done" /\ f.part.kind \notin PartKinds ->
            [v EXCEPT !.content[f.content_index + 1] = f.part]
      [] f.t = "reasoning.delta" /\ f.summary ->
            [v EXCEPT !.summary = Longer(@, f.part_index, f.text)]
      [] f.t = "reasoning.delta" /\ ~f.summary ->
            [v EXCEPT !.raw = Longer(@, f.part_index, f.text)]
      [] f.t = "arguments.delta" -> [v EXCEPT !.arguments = @ \o f.text]
      [] f.t = "arguments.done" /\ v.arguments = None -> [v EXCEPT !.arguments = f.text]
      [] f.t = "output_item.done" -> [v EXCEPT !.signature = f.item.signature]
      [] OTHER -> v

\* Events that carry a piece nobody has seen.
Carries(f) ==
    \/ f.t \in {"output_item.added", "content_part.added", "text.delta", "reasoning.delta",
                "arguments.delta"}
    \/ f.t = "content_part.done" /\ f.part.kind \notin PartKinds

Opens(said, f) ==
    CASE f.t = "output_item.added" /\ f.item.type \in {"reasoning", "function_call"} ->
            <<[index |-> f.index, part |-> -1]>>
      [] f.t = "content_part.added" -> <<[index |-> f.index, part |-> f.content_index]>>
      [] OTHER -> << >>

Says(said, f) ==
    LET next == [said EXCEPT !.sent = @ + 1,
                             !.idle = IF f.t \in IdleEvents THEN @ + 1 ELSE @,
                             !.pieces = IF Carries(f) THEN @ + 1 ELSE @,
                             !.order = @ \o Opens(said, f)]
    IN  CASE f.t = "output_item.added" ->
                [next EXCEPT !.items = Append(@, [index |-> f.index, v |-> f.item])]
          [] f.t \in {"completed", "incomplete"} -> [next EXCEPT !.tokens = f.usage]
          [] f.t # "output_item.added" /\ "index" \in DOMAIN f /\ f.index \in Started(said) ->
                Revised(next, f.index, Continued(Item(said, f.index), f))
          [] OTHER -> next

Block(kind, call, text, signature, input) ==
    [kind |-> kind, call |-> call, text |-> text, signature |-> signature, input |-> input]

Meant(said) ==
    [k \in DOMAIN said.order |->
        LET v == Item(said, said.order[k].index)
            c == said.order[k].part
        IN  CASE v.type = "message" ->
                    Block(IF v.content[c + 1].kind \in PartKinds THEN "Text" ELSE "Unknown",
                          0, v.content[c + 1].text, None, None)
              [] v.type = "reasoning" ->
                    Block("Reasoning", 0,
                          joined(from_parts(IF v.raw = << >> THEN v.summary ELSE v.raw)),
                          v.signature, None)
              [] v.type = "function_call" ->
                    Block("ToolInput", v.call, None, None,
                          IF v.arguments = None THEN EmptyObject ELSE v.arguments)]
=============================================================================
