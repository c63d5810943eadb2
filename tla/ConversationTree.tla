-------------------------- MODULE ConversationTree --------------------------
(***************************************************************************)
(* The structure above single turns: several Conversations that share      *)
(* committed history by forking, each with a logical head that moves back  *)
(* and forth along its lineage, a compaction projection over that lineage, *)
(* a derived tool-call index, and snapshot/restore                         *)
(* (src/src/conversation/history.rs, history/index.rs, boundary.rs,        *)
(* boundary/head.rs, boundary/fork.rs, projection/mod.rs,                  *)
(* projection/compaction.rs, persistence/snapshot.rs).                     *)
(*                                                                         *)
(* A turn is atomic here: PendingTurn shows how one is built.  It carries  *)
(* at most one tool call.  A caller may keep one boundary token and one    *)
(* compaction plan and use them any number of steps later; both are plain  *)
(* values whose claims are checked again when they are used.  Refused      *)
(* calls change nothing and are not actions.                               *)
(*                                                                         *)
(* The Arc-shared pieces (lineage, committed index) are values here: the   *)
(* code only ever replaces them or writes to them through make_mut.        *)
(*                                                                         *)
(* Operators under a comment "Fault:" are not part of the model.  Each is  *)
(* a wrong version of the definition it precedes, put in its place to see  *)
(* that a property notices.                                                *)
(***************************************************************************)
EXTENDS Integers, FiniteSets, SequencesExt

CONSTANTS
    Convs,        \* conversation ids
    Root,         \* the conversation that exists from the start
    TurnIds, CallIds, ArtifactIds,
    NoTurn, NoCall, NoArtifact, NoValue,
    MaxVersion    \* the largest structural version (u64::MAX in the code)

ASSUME RootAssumption == Root \in Convs
ASSUME VersionAssumption == MaxVersion \in Nat
ASSUME NoneAssumption ==
    NoTurn \notin TurnIds /\ NoCall \notin CallIds /\ NoArtifact \notin ArtifactIds

\* A Turn, a ProjectionSpan, a CompactionArtifact, a BoundaryToken and a
\* Conversation.
Anchors == TurnIds \cup {NoTurn}

Turns == [id: TurnIds, parent: Anchors, call: CallIds \cup {NoCall}]

Spans == [start: Nat, end: Nat, startAfter: Anchors, endAfter: Anchors,
          artifact: ArtifactIds \cup {NoArtifact}]

Artifacts == [id: ArtifactIds, start: Nat, end: Nat, startAfter: Anchors, endAfter: Anchors,
              sources: Seq(TurnIds)]

BoundaryTokens == [conv: Convs, count: Nat, after: Anchors, version: Nat]

Conversations ==
    [raw: Seq(Turns), lineage: Seq(Turns), ceiling: Nat, head: Nat, version: 0..MaxVersion,
     pending: [id: TurnIds, parent: Anchors] \cup {NoValue},
     index: [entries: Seq(CallIds), ends: Seq(Nat)], visibleTurns: Nat, visibleEntries: Nat,
     spans: Seq(Spans), artifacts: Seq(Artifacts),
     origin: [parent: Convs, point: BoundaryTokens] \cup {NoValue}, panicked: BOOLEAN]

ASSUME ValueAssumption == NoValue \notin Conversations /\ TurnIds \cap ArtifactIds = {}

VARIABLES
    conv,   \* conv[c]: the Conversation with id c, or NoValue
    held,   \* a boundary token a caller kept, with the structure it was issued for
    plan    \* a compaction plan a caller kept

vars == <<conv, held, plan>>

Live == {c \in Convs : conv[c] # NoValue /\ ~ conv[c].panicked}

-----------------------------------------------------------------------------
(***************************************************************************)
(* History: an append-only raw log, a backing lineage, a ceiling (the      *)
(* lineage this conversation may address) and a head.                      *)
(***************************************************************************)
ActiveTurns(s) == SubSeq(s.lineage, 1, s.head)

lineage_turns(s) == SubSeq(s.lineage, 1, s.ceiling)

AnchorAt(turns, n) == IF n = 0 THEN NoTurn ELSE turns[n].id

tip_id(s) == AnchorAt(s.lineage, s.head)

RawTurnIds(s) == {s.raw[i].id : i \in DOMAIN s.raw}

RawCallIds(s) == {s.raw[i].call : i \in DOMAIN s.raw} \ {NoCall}

-----------------------------------------------------------------------------
(***************************************************************************)
(* The committed half of the tool-call index: entries in turn order, the   *)
(* entry count at the end of each indexed turn, and the visible scope.     *)
(***************************************************************************)
EmptyIndex == [entries |-> << >>, ends |-> << >>]

turn_locations(turn) == IF turn.call = NoCall THEN << >> ELSE <<turn.call>>

push_turn(index, turn) ==
    LET entries == index.entries \o turn_locations(turn)
    IN  [entries |-> entries, ends |-> Append(index.ends, Len(entries))]

visible_prefix(index, turns, entries) ==
    [entries |-> SubSeq(index.entries, 1, entries), ends |-> SubSeq(index.ends, 1, turns)]

\* The number of entries in the first n turns; a turn the index does not
\* hold has none (Option::None, on which the callers of the index panic).
entry_count_known(index, n) == n <= Len(index.ends)

entry_count_for_turns(index, n) == IF n = 0 THEN 0 ELSE index.ends[n]

push_committed_turn(s, turn) ==
    LET index == IF s.visibleTurns = Len(s.index.ends)
                 THEN push_turn(s.index, turn)
                 ELSE push_turn(visible_prefix(s.index, s.visibleTurns, s.visibleEntries), turn)
    IN  [s EXCEPT !.index = index,
                  !.visibleTurns = @ + 1,
                  !.visibleEntries = entry_count_for_turns(index, s.visibleTurns + 1)]

scope_committed_turns(s, n) ==
    [s EXCEPT !.visibleTurns = n, !.visibleEntries = entry_count_for_turns(s.index, n)]

rebuild(turns) == FoldLeft(push_turn, EmptyIndex, turns)

\* by_call_id: the table keeps the last position of an id, and a position
\* outside the visible scope is not found.
by_call_id(s, call) ==
    LET at == {i \in DOMAIN s.index.entries : s.index.entries[i] = call}
    IN  at # {} /\ Max(at) <= s.visibleEntries

-----------------------------------------------------------------------------
(***************************************************************************)
(* The projection: spans that tile the lineage, raw or compacted into an   *)
(* artifact.  A span's endpoints carry the turn they come after.           *)
(***************************************************************************)
SpanOf(turns, from, to, artifact) ==
    [start |-> from, end |-> to, startAfter |-> AnchorAt(turns, from),
     endAfter |-> AnchorAt(turns, to), artifact |-> artifact]

IsRaw(span) == span.artifact = NoArtifact

push_raw_span(spans, turns, from, to) ==
    IF from = to THEN spans
    ELSE IF spans # << >> /\ IsRaw(Last(spans)) /\ Last(spans).end = from
    THEN Append(Front(spans), SpanOf(turns, Last(spans).start, to, NoArtifact))
    ELSE Append(spans, SpanOf(turns, from, to, NoArtifact))

range_matches_turns(r, turns, n) ==
    /\ r.start < r.end
    /\ r.end <= n
    /\ r.startAfter = AnchorAt(turns, r.start)
    /\ r.endAfter = AnchorAt(turns, r.end)

Smaller(a, b) == IF a <= b THEN a ELSE b

Larger(a, b) == IF a >= b THEN a ELSE b

\* The spans of the first n turns: a compacted span that reaches past n, or
\* whose anchors are no longer on the lineage, falls back to raw.
active_projection_spans(spans, turns, n) ==
    LET Clip(out, span) ==
            IF span.start >= n THEN out
            ELSE IF ~ IsRaw(span) /\ range_matches_turns(span, turns, n)
            THEN Append(out, span)
            ELSE push_raw_span(out, turns, span.start, Smaller(span.end, n))
    IN  FoldLeft(Clip, << >>, spans)

extend_after_commit(spans, turns, n) ==
    push_raw_span(active_projection_spans(spans, turns, n), turns, n, n + 1)

MatchingArtifacts(artifacts, turns, n) ==
    LET Retain(out, a) == IF range_matches_turns(a, turns, n) THEN Append(out, a) ELSE out
    IN  FoldLeft(Retain, << >>, artifacts)

raw_for_active_turns(turns) == push_raw_span(<< >>, turns, 0, Len(turns))

\* Fault: a compacted span is shown whole although the head is inside it.
effective_view_Unclipped(s) ==
    LET Show(out, span) ==
            IF span.start >= s.head THEN out
            ELSE IF ~ IsRaw(span) THEN Append(out, span.artifact)
            ELSE out \o [i \in 1..(Smaller(span.end, s.head) - span.start) |->
                            s.lineage[span.start + i].id]
    IN  FoldLeft(Show, << >>, s.spans)

\* What the model is shown, as a list of turn ids and artifact ids.
effective_view(s) ==
    LET Show(out, span) ==
            IF span.start >= s.head THEN out
            ELSE IF ~ IsRaw(span) /\ span.end <= s.head
            THEN Append(out, span.artifact)
            ELSE out \o [i \in 1..(Smaller(span.end, s.head) - span.start) |->
                            s.lineage[span.start + i].id]
    IN  FoldLeft(Show, << >>, s.spans)

-----------------------------------------------------------------------------
(***************************************************************************)
(* Boundary tokens.                                                        *)
(***************************************************************************)
issue_boundary_at(c, n) ==
    [conv |-> c, count |-> n, after |-> AnchorAt(conv[c].lineage, n),
     version |-> conv[c].version]

valid_boundaries(c) == {issue_boundary_at(c, n) : n \in 0..conv[c].ceiling}

\* Fault: the version a token was issued for is not compared.
resolve_boundary_AnyVersion(c, b) ==
    /\ b.conv = c
    /\ conv[c].pending = NoValue
    /\ b.count <= Len(conv[c].lineage)
    /\ b.count <= conv[c].ceiling
    /\ b.after = AnchorAt(conv[c].lineage, b.count)

resolve_boundary(c, b) ==
    /\ b.conv = c
    /\ b.version = conv[c].version
    /\ conv[c].pending = NoValue
    /\ b.count <= Len(conv[c].lineage)
    /\ b.count <= conv[c].ceiling
    /\ b.after = AnchorAt(conv[c].lineage, b.count)

\* What a token's version is meant to pin down.
Structure(s) == [lineage |-> lineage_turns(s), head |-> s.head, spans |-> s.spans]

\* The tokens at hand for an operation on c: any it would issue now, and the
\* one a caller kept.
Tokens(c) ==
    valid_boundaries(c) \cup (IF held = NoValue THEN {} ELSE {held.token})

\* The caller keeps the first token it is given: any other token is used at
\* once, and the kept one can come from any state.
IssueBoundary(c, n) ==
    /\ held = NoValue
    /\ n \in 0..conv[c].ceiling
    /\ held' = [token |-> issue_boundary_at(c, n), structure |-> Structure(conv[c])]
    /\ UNCHANGED <<conv, plan>>

-----------------------------------------------------------------------------
(***************************************************************************)
(* Operations of one Conversation.                                         *)
(***************************************************************************)
begin_turn(c, t) ==
    /\ conv[c].pending = NoValue
    /\ t \notin RawTurnIds(conv[c])
    /\ conv' = [conv EXCEPT ![c].pending = [id |-> t, parent |-> tip_id(conv[c])]]
    /\ UNCHANGED <<held, plan>>

discard_pending_turn(c) ==
    /\ conv[c].pending # NoValue
    /\ conv' = [conv EXCEPT ![c].pending = NoValue]
    /\ UNCHANGED <<held, plan>>

append(s, turn) ==
    [s EXCEPT !.raw = Append(@, turn),
              !.lineage = Append(SubSeq(@, 1, s.head), turn),
              !.head = @ + 1,
              !.ceiling = s.head + 1]

commit_draft(s, turn) ==
    LET appended == append(s, turn)
        turns == ActiveTurns(appended)
        projected == [appended EXCEPT
            !.spans = extend_after_commit(s.spans, turns, s.head),
            !.artifacts = MatchingArtifacts(s.artifacts, turns, s.head)]
    IN  [push_committed_turn(projected, turn) EXCEPT
            !.version = @ + 1, !.pending = NoValue]

commit_pending(c, call) ==
    LET s == conv[c]
        turn == [id |-> s.pending.id, parent |-> s.pending.parent, call |-> call]
    IN  /\ s.pending # NoValue
        /\ s.version < MaxVersion
        /\ turn.id \notin RawTurnIds(s)
        /\ turn.parent = tip_id(s)
        /\ call \notin RawCallIds(s)
        /\ conv' = [conv EXCEPT ![c] = commit_draft(s, turn)]
        /\ UNCHANGED <<held, plan>>

\* A real head move.  Scoping the index panics, after the head has already
\* moved, when the index does not reach the target.
move_head(s, n) ==
    IF entry_count_known(s.index, n)
    THEN [scope_committed_turns([s EXCEPT !.head = n], n) EXCEPT !.version = @ + 1]
    ELSE [s EXCEPT !.head = n, !.panicked = TRUE]

revert_to(c, b) ==
    /\ resolve_boundary(c, b)
    /\ b.count # conv[c].head
    /\ conv[c].version < MaxVersion
    /\ conv' = [conv EXCEPT ![c] = move_head(@, b.count)]
    /\ UNCHANGED <<held, plan>>

\* Fault: the child may address all of the backing it shares.
ForkOf_SharedCeiling(s, c, b, n) ==
    [raw |-> SubSeq(s.lineage, 1, n), lineage |-> s.lineage, ceiling |-> s.ceiling, head |-> n,
     version |-> 0, pending |-> NoValue, index |-> s.index, visibleTurns |-> n,
     visibleEntries |-> entry_count_for_turns(s.index, n),
     spans |-> raw_for_active_turns(SubSeq(s.lineage, 1, n)), artifacts |-> << >>,
     origin |-> [parent |-> c, point |-> b], panicked |-> FALSE]

\* The child starts raw, at version 0, over the parent's backing lineage,
\* with its own ceiling; its raw log is the prefix only.  A position the
\* index does not reach panics in the parent's thread and makes no child.
ForkOf(s, c, b, n) ==
    [raw |-> SubSeq(s.lineage, 1, n), lineage |-> s.lineage, ceiling |-> n, head |-> n,
     version |-> 0, pending |-> NoValue, index |-> s.index, visibleTurns |-> n,
     visibleEntries |-> entry_count_for_turns(s.index, n),
     spans |-> raw_for_active_turns(SubSeq(s.lineage, 1, n)), artifacts |-> << >>,
     origin |-> [parent |-> c, point |-> b], panicked |-> FALSE]

fork_at(c, b, child) ==
    /\ child # c
    /\ conv[child] = NoValue
    /\ resolve_boundary(c, b)
    /\ conv' = IF entry_count_known(conv[c].index, b.count)
               THEN [conv EXCEPT ![child] = ForkOf(conv[c], c, b, b.count)]
               ELSE [conv EXCEPT ![c].panicked = TRUE]
    /\ UNCHANGED <<held, plan>>

-----------------------------------------------------------------------------
(***************************************************************************)
(* Compaction: a plan is made for a checked range of the active turns and  *)
(* applied later.  The artifact remembers which turns it summarises.       *)
(***************************************************************************)
MakePlan(c, from, to, target, artifact) ==
    LET s == conv[c] IN
    /\ s.pending = NoValue
    /\ from < to /\ to <= s.head
    /\ plan' = [conv |-> c, version |-> s.version, head |-> s.head, target |-> target,
                artifact |-> artifact,
                start |-> from, end |-> to,
                startAfter |-> AnchorAt(s.lineage, from),
                endAfter |-> AnchorAt(s.lineage, to),
                sources |-> [i \in 1..(to - from) |-> s.lineage[from + i].id]]
    /\ UNCHANGED <<conv, held>>

validate_compaction_plan_header(c) ==
    /\ plan.conv = c
    /\ plan.version = conv[c].version
    /\ conv[c].pending = NoValue
    /\ plan.head = conv[c].head
    /\ conv[c].head = conv[c].ceiling

overlapping_spans(spans, from, to) ==
    LET Filter(out, x) == IF x.start < to /\ x.end > from THEN Append(out, x) ELSE out
    IN  FoldLeft(Filter, << >>, spans)

validate_target(source) ==
    LET overlaps == overlapping_spans(source, plan.start, plan.end)
    IN  IF plan.target = "Raw"
        THEN \A i \in DOMAIN overlaps : IsRaw(overlaps[i])
        ELSE /\ overlaps # << >>
             /\ Head(overlaps).start = plan.start
             /\ Last(overlaps).end = plan.end

append_source_segment(out, source, turns, from, to) ==
    LET Copy(o, x) ==
            IF IsRaw(x)
            THEN push_raw_span(o, turns, Larger(x.start, from), Smaller(x.end, to))
            ELSE Append(o, x)
    IN  FoldLeft(Copy, out, overlapping_spans(source, from, to))

build_replacement_spans(source, turns, n) ==
    LET before == append_source_segment(<< >>, source, turns, 0, plan.start)
        middle == Append(before, SpanOf(turns, plan.start, plan.end, plan.artifact))
    IN  append_source_segment(middle, source, turns, plan.end, n)

apply_compaction(c) ==
    LET s == conv[c]
        source == active_projection_spans(s.spans, lineage_turns(s), s.head)
        kept == MatchingArtifacts(s.artifacts, lineage_turns(s), s.head)
    IN  /\ plan # NoValue
        /\ validate_compaction_plan_header(c)
        /\ s.version < MaxVersion
        /\ range_matches_turns(plan, s.lineage, s.head)
        /\ validate_target(source)
        /\ plan.artifact \notin {kept[i].id : i \in DOMAIN kept}
        /\ conv' = [conv EXCEPT
              ![c].spans = build_replacement_spans(source, ActiveTurns(s), s.head),
              ![c].artifacts = Append(kept,
                  [id |-> plan.artifact, start |-> plan.start, end |-> plan.end,
                    startAfter |-> plan.startAfter, endAfter |-> plan.endAfter,
                    sources |-> plan.sources]),
              ![c].version = @ + 1]
        /\ UNCHANGED <<held, plan>>

-----------------------------------------------------------------------------
(***************************************************************************)
(* Snapshot and restore.  A snapshot is taken only without a pending turn. *)
(* It records the raw turns, the addressable lineage, the head, the        *)
(* version, the projection and the origin; restore checks them and         *)
(* rebuilds everything else.                                               *)
(***************************************************************************)

\* All raw turns descend from one root: with every parent earlier in the
\* log, that is the case when at most one of them has no parent.
validate_parent_graph(s) ==
    /\ \A i \in DOMAIN s.raw :
          s.raw[i].parent = NoTurn \/ s.raw[i].parent \in RawTurnIds(s)
    /\ \A i, j \in DOMAIN s.raw :
          s.raw[i].parent = NoTurn /\ s.raw[j].parent = NoTurn => i = j

validate_lineage(s) ==
    /\ s.head <= s.ceiling
    /\ s.raw # << >> => s.ceiling > 0
    /\ \A i \in 1..s.ceiling :
          /\ s.lineage[i].id \in RawTurnIds(s)
          /\ s.lineage[i].parent = AnchorAt(s.lineage, i - 1)
          /\ \A j \in 1..s.ceiling : s.lineage[i].id = s.lineage[j].id => i = j

validate_origin(s) ==
    s.origin # NoValue =>
        /\ s.origin.point.count <= s.ceiling
        /\ s.origin.point.after = AnchorAt(s.lineage, s.origin.point.count)

TilesExactly(spans, n) ==
    /\ spans = << >> <=> n = 0
    /\ spans # << >> => spans[1].start = 0 /\ Last(spans).end = n
    /\ \A i \in DOMAIN spans :
          /\ spans[i].start < spans[i].end
          /\ i > 1 => spans[i].start = spans[i - 1].end

validate_restored_projection(s) ==
    /\ TilesExactly(s.spans, s.ceiling)
    /\ \A i \in DOMAIN s.spans :
          /\ range_matches_turns(s.spans[i], s.lineage, s.ceiling)
          /\ ~ IsRaw(s.spans[i]) =>
                \E k \in DOMAIN s.artifacts :
                    /\ s.artifacts[k].id = s.spans[i].artifact
                    /\ s.artifacts[k].start = s.spans[i].start
                    /\ s.artifacts[k].end = s.spans[i].end
    /\ \A k \in DOMAIN s.artifacts : range_matches_turns(s.artifacts[k], s.lineage, s.ceiling)

restore_v1(s) ==
    LET index == rebuild(ActiveTurns(s))
    IN  [s EXCEPT !.lineage = lineage_turns(s), !.index = index,
                  !.visibleTurns = s.head, !.visibleEntries = Len(index.entries)]

RestoreAccepts(s) ==
    /\ validate_parent_graph(s)
    /\ validate_lineage(s)
    /\ validate_origin(s)
    /\ validate_restored_projection(s)

\* The process saves c, stops and starts again from the snapshot.
SnapshotAndRestore(c) ==
    /\ conv[c].pending = NoValue
    /\ RestoreAccepts(conv[c])
    /\ conv' = [conv EXCEPT ![c] = restore_v1(@)]
    /\ UNCHANGED <<held, plan>>

-----------------------------------------------------------------------------
NewConversation ==
    [raw |-> << >>, lineage |-> << >>, ceiling |-> 0, head |-> 0, version |-> 0,
     pending |-> NoValue, index |-> EmptyIndex, visibleTurns |-> 0, visibleEntries |-> 0,
     spans |-> << >>, artifacts |-> << >>, origin |-> NoValue, panicked |-> FALSE]

Init ==
    /\ conv = [c \in Convs |-> IF c = Root THEN NewConversation ELSE NoValue]
    /\ held = NoValue
    /\ plan = NoValue

TurnStep(c) ==
    \/ \E t \in TurnIds : begin_turn(c, t)
    \/ discard_pending_turn(c)
    \/ \E call \in CallIds \cup {NoCall} : commit_pending(c, call)

HeadStep(c) ==
    \/ \E n \in 0..conv[c].ceiling : IssueBoundary(c, n)
    \/ \E b \in Tokens(c) : revert_to(c, b)
    \/ \E b \in Tokens(c), child \in Convs : fork_at(c, b, child)

CompactionStep(c) ==
    \/ \E from, to \in 0..conv[c].head, target \in {"Raw", "Spans"}, a \in ArtifactIds :
          MakePlan(c, from, to, target, a)
    \/ apply_compaction(c)

Next ==
    \E c \in Live :
        \/ TurnStep(c)
        \/ HeadStep(c)
        \/ CompactionStep(c)
        \/ SnapshotAndRestore(c)

Spec == Init /\ [][Next]_vars

-----------------------------------------------------------------------------
(***************************************************************************)
(* Properties.                                                             *)
(***************************************************************************)
\* Types of what the operations compute with: the version does not overflow
\* (checked_add in commit_draft, revert_to and apply_compaction), the head
\* stays below the ceiling and the ceiling inside the backing lineage.
TypeOK ==
    /\ conv \in [Convs -> Conversations \cup {NoValue}]
    /\ \A c \in Live :
          /\ conv[c].head <= conv[c].ceiling
          /\ conv[c].ceiling <= Len(conv[c].lineage)

\* A conversation's addressable lineage is a parent chain of turns it
\* retains itself, whatever its parent, its siblings and its own reverts did;
\* a fork never reaches the part of the shared backing above its ceiling,
\* and a pending turn still has the head it was begun on as its parent.
LineageIsOwnParentChain ==
    \A c \in Live : LET s == conv[c] IN
        /\ \A i \in 1..s.ceiling :
              /\ s.lineage[i] \in Range(s.raw)
              /\ s.lineage[i].parent = AnchorAt(s.lineage, i - 1)
        /\ s.pending # NoValue => s.pending.parent = tip_id(s)

\* Turn ids and call ids are unique in everything a conversation retains,
\* turns detached by a revert included.
RetainedIdsUnique ==
    \A c \in Live : LET s == conv[c] IN
        \A i, j \in DOMAIN s.raw :
            \/ i = j
            \/ /\ s.raw[i].id # s.raw[j].id
               /\ s.raw[i].call = s.raw[j].call => s.raw[i].call = NoCall

\* The incrementally kept index shows exactly the calls of the active turns,
\* in turn order, and finds exactly those by id, after any mix of commits,
\* reverts, redos, forks and restores.
IndexShowsActiveCalls ==
    \A c \in Live : LET s == conv[c] IN
        /\ SubSeq(s.index.entries, 1, s.visibleEntries) = rebuild(ActiveTurns(s)).entries
        /\ {call \in CallIds : by_call_id(s, call)}
               = {s.lineage[i].call : i \in 1..s.head} \ {NoCall}

\* The projection tiles the addressable lineage without gap or overlap, so a
\* revert, a redo or a new suffix never drops or repeats a turn.
ProjectionTilesLineage ==
    \A c \in Live : TilesExactly(conv[c].spans, conv[c].ceiling)

SourcesOf(s, x) ==
    IF x \in ArtifactIds THEN (CHOOSE a \in Range(s.artifacts) : a.id = x).sources ELSE <<x>>

Expanded(s, view) ==
    LET Expand(out, x) == out \o SourcesOf(s, x)
    IN  FoldLeft(Expand, << >>, view)

\* What the model is shown stands for exactly the active turns, in order:
\* replacing each artifact by the turns it was made from gives them back.
ViewStandsForActiveTurns ==
    \A c \in Live : LET s == conv[c] IN
        Expanded(s, effective_view(s)) = [i \in 1..s.head |-> s.lineage[i].id]

\* A token that still resolves was issued for the structure of now: no
\* commit, revert, redo or compaction lies in between, and no sequence of
\* them makes an old version valid again.
TokenResolvesOnlyUnchanged ==
    held # NoValue =>
        \A c \in Live :
            resolve_boundary(c, held.token) => held.structure = Structure(conv[c])

\* The redo contract of revert_to: a boundary the conversation issues can be
\* used, also after a restore at a reverted head.
HeadMoveNeverPanics ==
    \A c \in Convs : conv[c] # NoValue => ~ conv[c].panicked

\* The round trip of persistence: a state that snapshot accepts is one that
\* restore accepts.
SavedCanBeLoaded ==
    \A c \in Live : conv[c].pending = NoValue => RestoreAccepts(conv[c])

\* Forks, reverts, redos and restores keep every conversation to turns of its
\* own, with ids of their own, and its index to the calls of the active ones.
LineageInv ==
    TypeOK /\ LineageIsOwnParentChain /\ RetainedIdsUnique /\ IndexShowsActiveCalls

\* Stale plans, cut spans and moved heads never make the model miss a turn, or
\* see one twice.
ProjectionInv == ProjectionTilesLineage /\ ViewStandsForActiveTurns
=============================================================================
