------------------------------ MODULE RowStore ------------------------------
(***************************************************************************)
(* The insert-only row mapping of Conversation snapshots                   *)
(* (src/src/conversation/persistence/rows.rs), over the conversations of   *)
(* ConversationTree.  A snapshot is split into nine tables.  Facts (turns, *)
(* messages, pairings) are keyed by their ids and shared by forks; raw     *)
(* membership only grows; the rows that evolve carry the structural        *)
(* version as their generation.  An export is diffed against rows the      *)
(* caller knows to be stored, and only what is missing is inserted.  A     *)
(* read takes every stored row of one conversation and picks the newest    *)
(* generation.                                                             *)
(*                                                                         *)
(* The database is not part of the crate.  It is a set of rows per table   *)
(* here, it may stop in the middle of an insert, and the process may stop  *)
(* and start again from what it reads, or from an older snapshot that      *)
(* somebody kept.  Ids are never used twice (they are UUIDs).              *)
(*                                                                         *)
(* A row has its primary key, the conversation or turn it belongs to (of), *)
(* a generation (0 where the table has none), a sequence number (from 1),  *)
(* and the rest of its columns.  The schema version column is constant.    *)
(*                                                                         *)
(* Operators under a comment "Fault:" are not part of the model.  Each is  *)
(* a wrong version of the definition it precedes, put in its place to see  *)
(* that a property notices.                                                *)
(***************************************************************************)
EXTENDS ConversationTree

VARIABLES
    store,      \* the rows in the database, by table
    base,       \* base[c]: the snapshot c was last exported as or loaded from
    attempts,   \* the snapshots an insert was started for, and if it was finished
    torn,       \* torn[c]: the last insert for c was not finished
    diverged    \* some conversation was restarted from an older snapshot

rowVars == <<store, base, attempts, torn, diverged>>

OwnedTables == {"conversations", "raw_turns", "lineage_turns", "projections",
                "projection_spans", "artifacts"}

FactTables == {"turns", "messages", "tool_pairings"}

Tables == OwnedTables \cup FactTables

NoRows == [t \in Tables |-> {}]

Row(key, of, generation, sequence, data) ==
    [key |-> key, of |-> of, gen |-> generation, seq |-> sequence, data |-> data]

-----------------------------------------------------------------------------
(***************************************************************************)
(* The snapshot.  A turn with a tool call has four messages, one without   *)
(* has two; a message is known by its turn and its place.                  *)
(***************************************************************************)
MessagesOf(call) == IF call = NoCall THEN <<"user", "reply">>
                    ELSE <<"user", "use", "result", "reply">>

TurnData(turn) ==
    [id |-> turn.id, parent |-> turn.parent, call |-> turn.call,
     messages |-> MessagesOf(turn.call)]

snapshot(c) == LET s == conv[c] IN
    [id |-> c, version |-> s.version, origin |-> s.origin, head |-> s.head,
     ceiling |-> s.ceiling, raw |-> [i \in DOMAIN s.raw |-> TurnData(s.raw[i])],
     lineage |-> [i \in 1..s.ceiling |-> s.lineage[i].id],
     spans |-> s.spans, artifacts |-> s.artifacts]

-----------------------------------------------------------------------------
(***************************************************************************)
(* Export: one row set per snapshot.                                       *)
(***************************************************************************)
ConversationRecord(x) ==
    Row(<<x.id, x.version>>, x.id, x.version, 1,
        [head |-> x.head, ceiling |-> x.ceiling, origin |-> x.origin])

ConversationTurnRecords(x) ==
    {Row(<<x.id, i>>, x.id, 0, i, x.raw[i].id) : i \in DOMAIN x.raw}

\* Fault: lineage membership is keyed by its sequence alone.
LineageTurnRecords_OneGeneration(x) ==
    {Row(<<x.id, i>>, x.id, x.version, i, x.lineage[i]) : i \in DOMAIN x.lineage}

ConversationLineageTurnRecords(x) ==
    {Row(<<x.id, x.version, i>>, x.id, x.version, i, x.lineage[i]) : i \in DOMAIN x.lineage}

TurnRecords(x) ==
    {Row(<<turn.id>>, turn.id, 0, 1, turn.parent) : turn \in Range(x.raw)}

MessageRecords(x) ==
    UNION {{Row(<<turn.id, i>>, turn.id, 0, i, turn.messages[i]) : i \in DOMAIN turn.messages} :
              turn \in Range(x.raw)}

ToolPairingRecords(x) ==
    {Row(<<turn.call>>, turn.id, 0, 1, turn.call) :
        turn \in {y \in Range(x.raw) : y.call # NoCall}}

ProjectionRecord(x) == Row(<<x.id>>, x.id, 0, 1, NoValue)

from_span(x, i) == Row(<<x.id, x.version, i>>, x.id, x.version, i, x.spans[i])

from_artifact(x, i) ==
    Row(<<x.id, x.version, x.artifacts[i].id>>, x.id, x.version, i, x.artifacts[i])

from_snapshot(x) ==
    [conversations |-> {ConversationRecord(x)},
     raw_turns |-> ConversationTurnRecords(x),
     lineage_turns |-> ConversationLineageTurnRecords(x),
     turns |-> TurnRecords(x),
     messages |-> MessageRecords(x),
     tool_pairings |-> ToolPairingRecords(x),
     projections |-> {ProjectionRecord(x)},
     projection_spans |-> {from_span(x, i) : i \in DOMAIN x.spans},
     artifacts |-> {from_artifact(x, i) : i \in DOMAIN x.artifacts}]

\* Two rows with one key and different contents.
Clash(rows, others) == \E r \in rows, s \in others : r.key = s.key /\ r # s

InsertConflict(rows, existing) == \E t \in Tables : Clash(rows[t], existing[t])

diff_rows(rows, existing) == rows \ existing

insert_set_against(rows, existing) == [t \in Tables |-> diff_rows(rows[t], existing[t])]

merge(rows, others) == [t \in Tables |-> rows[t] \cup others[t]]

-----------------------------------------------------------------------------
(***************************************************************************)
(* Reading.  The caller fetches the rows that belong to c and the facts of *)
(* the turns c retains; a refusal is NoValue.                              *)
(***************************************************************************)
Fetched(c) ==
    LET retained == {r.data : r \in {q \in store["raw_turns"] : q.of = c}}
    IN  [t \in Tables |-> {r \in store[t] : IF t \in OwnedTables THEN r.of = c
                                             ELSE r.of \in retained}]

ensure_owner(rows, owner) ==
    \A t \in OwnedTables : \A r \in rows[t] : r.of = owner

dedup_by_key(rows) == \A t \in Tables : ~ Clash(rows[t], rows[t])

CurrentGeneration(rows) == Max({r.gen : r \in rows["conversations"]})

NoneNewer(rows, generation) == \A r \in rows : r.gen <= generation

select_generation(rows, generation) == {r \in rows : r.gen = generation}

sorted_by_dense_sequence(rows) == {r.seq : r \in rows} = 1..Cardinality(rows)

retained_turn_ids(raw_members) == {r.data : r \in raw_members}

\* No turn is a raw member twice.
sorted_conversation_turns(raw_members) ==
    /\ Cardinality(retained_turn_ids(raw_members)) = Cardinality(raw_members)
    /\ sorted_by_dense_sequence(raw_members)

InSequence(rows) ==
    [i \in 1..Cardinality(rows) |-> (CHOOSE r \in rows : r.seq = i).data]

OfTurn(rows, turn) == {r \in rows : r.of = turn}

\* Every fact belongs to a turn the conversation retains.
reject_orphans(rows, retained) ==
    \A t \in FactTables : \A r \in rows[t] : r.of \in retained

messages_for_turn(messages) == messages # {} /\ sorted_by_dense_sequence(messages)

pairings_for_turn(pairings) == sorted_by_dense_sequence(pairings)

FactsOf(rows, turn) ==
    /\ OfTurn(rows["turns"], turn) # {}
    /\ messages_for_turn(OfTurn(rows["messages"], turn))
    /\ pairings_for_turn(OfTurn(rows["tool_pairings"], turn))

TurnFromRows(rows, turn) ==
    LET pairings == OfTurn(rows["tool_pairings"], turn) IN
    [id |-> turn,
     parent |-> (CHOOSE r \in rows["turns"] : r.of = turn).data,
     call |-> IF pairings = {} THEN NoCall ELSE InSequence(pairings)[1],
     messages |-> InSequence(OfTurn(rows["messages"], turn))]

\* validate_projection_shape on the rebuilt spans and artifacts.
rows_to_projection(spans, artifacts) ==
    /\ sorted_by_dense_sequence(artifacts)
    /\ sorted_by_dense_sequence(spans)
    /\ LET x == InSequence(spans) IN
       /\ x # << >> => TilesExactly(x, Last(x).end)
       /\ \A i \in DOMAIN x : ~ IsRaw(x[i]) =>
             \E a \in artifacts : /\ a.data.id = x[i].artifact
                                  /\ a.data.start = x[i].start /\ a.data.end = x[i].end
                                  /\ a.data.startAfter = x[i].startAfter
                                  /\ a.data.endAfter = x[i].endAfter

Evolving == {"lineage_turns", "projection_spans", "artifacts"}

validate_generations(rows) ==
    \A t \in Evolving, q \in rows["conversations"] : \A r \in rows[t] : r.gen = q.gen

validate_row_owners(rows) ==
    \A q \in rows["conversations"] : ensure_owner(rows, q.of)

\* The checks of ConversationRows::into_snapshot, on rows of one generation;
\* validate_for_insert_diff repeats them on both sides of a diff.
RowsAreWhole(rows) ==
    LET retained == retained_turn_ids(rows["raw_turns"]) IN
    /\ validate_generations(rows)
    /\ validate_row_owners(rows)
    /\ sorted_conversation_turns(rows["raw_turns"])
    /\ sorted_by_dense_sequence(rows["lineage_turns"])
    /\ reject_orphans(rows, retained)
    /\ \A turn \in retained : FactsOf(rows, turn)
    /\ \A r \in rows["lineage_turns"] : r.data \in retained
    /\ rows_to_projection(rows["projection_spans"], rows["artifacts"])

SnapshotFromRows(rows) ==
    LET row == CHOOSE r \in rows["conversations"] : TRUE
        raw == InSequence(rows["raw_turns"])
    IN  [id |-> row.of, version |-> row.gen, origin |-> row.data.origin,
         head |-> row.data.head, ceiling |-> row.data.ceiling,
         raw |-> [i \in DOMAIN raw |-> TurnFromRows(rows, raw[i])],
         lineage |-> InSequence(rows["lineage_turns"]),
         spans |-> InSequence(rows["projection_spans"]),
         artifacts |-> InSequence(rows["artifacts"])]

\* ConversationRowInsertSet::into_snapshot, on everything fetched.
into_snapshot(rows, owner) ==
    IF rows["conversations"] = {} \/ ~ ensure_owner(rows, owner) \/ ~ dedup_by_key(rows)
    THEN NoValue
    ELSE LET generation == CurrentGeneration(rows)
             current == [t \in Tables |->
                IF t \in Evolving \cup {"conversations"}
                THEN select_generation(rows[t], generation) ELSE rows[t]]
         IN  IF /\ rows["projections"] # {}
                /\ \A t \in Evolving : NoneNewer(rows[t], generation)
                /\ current["raw_turns"] # {} =>
                      current["lineage_turns"] # {} /\ current["projection_spans"] # {}
                /\ RowsAreWhole(current)
             THEN SnapshotFromRows(current) ELSE NoValue

Read(c) == into_snapshot(Fetched(c), c)

-----------------------------------------------------------------------------
(***************************************************************************)
(* Restore of a snapshot that was read, as ConversationTree has it.        *)
(***************************************************************************)
TurnNamed(x, id) == x.raw[CHOOSE i \in DOMAIN x.raw : x.raw[i].id = id]

Plain(turn) == [id |-> turn.id, parent |-> turn.parent, call |-> turn.call]

AsConversation(x) ==
    [NewConversation EXCEPT
        !.raw = [i \in DOMAIN x.raw |-> Plain(x.raw[i])],
        !.lineage = [i \in DOMAIN x.lineage |-> Plain(TurnNamed(x, x.lineage[i]))],
        !.ceiling = Len(x.lineage), !.head = x.head, !.version = x.version,
        !.spans = x.spans, !.artifacts = x.artifacts, !.origin = x.origin]

\* Fault: the turns of a snapshot are not validated again.
validate_raw_turns_IdsOnly(x) ==
    \A i \in DOMAIN x.raw :
        \A j \in 1..(i - 1) : x.raw[j].call = x.raw[i].call => x.raw[i].call = NoCall

\* Every raw turn is a closed turn whose pairings fit its messages, and its
\* call is not one of an earlier turn.
validate_raw_turns(x) ==
    \A i \in DOMAIN x.raw :
        /\ x.raw[i].messages = MessagesOf(x.raw[i].call)
        /\ \A j \in 1..(i - 1) : x.raw[j].call = x.raw[i].call => x.raw[i].call = NoCall

RestoresFrom(x) ==
    /\ x # NoValue
    /\ validate_raw_turns(x)
    /\ x.ceiling = Len(x.lineage)
    /\ RestoreAccepts(AsConversation(x))

-----------------------------------------------------------------------------
(***************************************************************************)
(* Operations.  A conversation evolves as in ConversationTree; a plan is   *)
(* applied or dropped at once and a begun turn is committed.               *)
(***************************************************************************)
SeenTurns ==
    UNION ({RawTurnIds(conv[c]) : c \in Live} \cup
           {{turn.id : turn \in Range(a.snap.raw)} : a \in attempts})

SeenCalls ==
    UNION ({RawCallIds(conv[c]) : c \in Live} \cup
           {{turn.call : turn \in Range(a.snap.raw)} : a \in attempts})

SeenArtifacts ==
    UNION ({{a.id : a \in Range(conv[c].artifacts)} : c \in Live} \cup
           {{r.id : r \in Range(a.snap.artifacts)} : a \in attempts})

Busy == plan # NoValue \/ \E c \in Live : conv[c].pending # NoValue

Drop ==
    /\ plan # NoValue
    /\ plan' = NoValue
    /\ UNCHANGED <<conv, held>>

Evolve(c) ==
    /\ \/ /\ ~ Busy
          /\ \/ \E t \in TurnIds \ SeenTurns : begin_turn(c, t)
             \/ \E b \in valid_boundaries(c) : revert_to(c, b)
             \/ \E b \in valid_boundaries(c), child \in Convs : fork_at(c, b, child)
             \/ \E from, to \in 0..conv[c].head, a \in ArtifactIds \ SeenArtifacts :
                    MakePlan(c, from, to, "Spans", a)
       \/ \E call \in (CallIds \ SeenCalls) \cup {NoCall} : commit_pending(c, call)
       \/ apply_compaction(c)
       \/ Drop
    /\ UNCHANGED rowVars

\* The rows the caller diffs against: its own last export, or that of the
\* conversation it was forked from.
Existing(c) ==
    IF base[c] # NoValue THEN from_snapshot(base[c])
    ELSE IF conv[c].origin # NoValue /\ base[conv[c].origin.parent] # NoValue
    THEN from_snapshot(base[conv[c].origin.parent])
    ELSE NoRows

\* What insert_set_against refuses.
DiffRefused(rows, existing) ==
    ~ RowsAreWhole(rows) \/ ~ RowsAreWhole(existing) \/ InsertConflict(rows, existing)

Export(c) ==
    LET x == snapshot(c) rows == from_snapshot(x) IN
    /\ ~ Busy
    /\ ~ DiffRefused(rows, Existing(c))
    /\ store' = merge(store, insert_set_against(rows, Existing(c)))
    /\ base' = [base EXCEPT ![c] = x]
    /\ attempts' = attempts \cup {[snap |-> x, done |-> TRUE]}
    /\ torn' = [torn EXCEPT ![c] = FALSE]
    /\ UNCHANGED <<vars, diverged>>

\* What is left of an insert that stopped: some tables were not reached, or
\* one row was not.
Parts(rows) ==
    {[t \in Tables |-> IF t \in reached THEN rows[t] ELSE {}] :
        reached \in SUBSET {t \in Tables : rows[t] # {}}}
    \cup UNION {{[rows EXCEPT ![t] = @ \ {r}] : r \in rows[t]} : t \in Tables}

TornExport(c) ==
    LET x == snapshot(c)
        rows == from_snapshot(x)
        inserts == insert_set_against(rows, Existing(c))
    IN  /\ ~ Busy
        /\ ~ DiffRefused(rows, Existing(c))
        /\ \E part \in Parts(inserts) \ {inserts} : store' = merge(store, part)
        /\ attempts' = attempts \cup {[snap |-> x, done |-> FALSE]}
        /\ torn' = [torn EXCEPT ![c] = TRUE]
        /\ UNCHANGED <<vars, base, diverged>>

\* The process stops and starts again from what is stored.
Reload(c) ==
    LET x == Read(c) IN
    /\ ~ Busy
    /\ RestoresFrom(x)
    /\ conv' = [conv EXCEPT ![c] = restore_v1(AsConversation(x))]
    /\ base' = [base EXCEPT ![c] = x]
    /\ torn' = [torn EXCEPT ![c] = FALSE]
    /\ UNCHANGED <<held, plan, store, attempts, diverged>>

\* Or from an older snapshot, and goes on from there beside the newer rows.
ReloadOlder(c) ==
    /\ ~ Busy
    /\ \E a \in attempts :
          /\ a.done /\ a.snap.id = c /\ a.snap # base[c]
          /\ RestoresFrom(a.snap)
          /\ conv' = [conv EXCEPT ![c] = restore_v1(AsConversation(a.snap))]
          /\ base' = [base EXCEPT ![c] = a.snap]
    /\ diverged' = TRUE
    /\ UNCHANGED <<held, plan, store, attempts, torn>>

RowInit ==
    /\ store = NoRows
    /\ base = [c \in Convs |-> NoValue]
    /\ attempts = {}
    /\ torn = [c \in Convs |-> FALSE]
    /\ diverged = FALSE

RowNext ==
    \E c \in Live :
        Evolve(c) \/ Export(c) \/ TornExport(c) \/ Reload(c) \/ ReloadOlder(c)

-----------------------------------------------------------------------------
(***************************************************************************)
(* Properties.                                                             *)
(***************************************************************************)
\* What a conversation restored from x goes on from: everything but raw
\* turns and artifacts that nothing on the lineage refers to.
Shown(x) ==
    [version |-> x.version, origin |-> x.origin, head |-> x.head, lineage |-> x.lineage,
     spans |-> x.spans,
     shown |-> {a \in Range(x.artifacts) : \E i \in DOMAIN x.spans : x.spans[i].artifact = a.id},
     turns |-> [i \in DOMAIN x.lineage |-> TurnNamed(x, x.lineage[i])]]

\* After an insert has finished, reading every stored row of the conversation
\* gives exactly the snapshot that was exported, although older generations,
\* the rows of forks and what is left of an unfinished insert lie beside it;
\* and the next export is never refused against any earlier one, its own or of a
\* conversation it shares turns with.
StoredIsLastExport ==
    ~ diverged =>
        /\ \A c \in Convs : base[c] # NoValue /\ ~ torn[c] => Read(c) = base[c]
        /\ ~ Busy => \A c \in Live, a \in attempts :
              a.done => ~ DiffRefused(from_snapshot(snapshot(c)), from_snapshot(a.snap))

\* Rows that were left by an unfinished insert, or by two lines of evolution
\* that both went on from one snapshot, are never put together to a state
\* nobody exported: the read is refused, by the row mapping or by restore, or
\* it shows one exported state, and with a single line of evolution never one
\* older than the last finished export.
ReadNeverMixes ==
    \A c \in Convs : LET x == Read(c) IN
        RestoresFrom(x) =>
            /\ \E a \in attempts : a.snap.id = c /\ Shown(a.snap) = Shown(x)
            /\ ~ diverged /\ base[c] # NoValue => x.version >= base[c].version
=============================================================================
