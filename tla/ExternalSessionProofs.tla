------------------------ MODULE ExternalSessionProofs ------------------------
(***************************************************************************)
(* External agents, for any set-up, batches, costs and number of sessions: *)
(* what is left of a session is owed a sweep or was left on purpose, and   *)
(* an answer goes to the session that asked, to the prompt it was about.   *)
(***************************************************************************)
EXTENDS ExternalSession, FiniteSetTheorems, SequenceTheorems, TLAPS

-----------------------------------------------------------------------------
(***************************************************************************)
(* What there is.                                                          *)
(***************************************************************************)
PauseKinds == {"Interaction", "ToolCalls", "Subagent"}

FrameKinds(flavor) ==
    {"Event", "Completed", "Failed", "Noise"} \cup Pauses(flavor)
        \cup (IF flavor = "opencode" THEN {} ELSE {"Init"})

Frames == [kind: {"Init", "Event", "Completed", "Failed", "Noise"} \cup PauseKinds,
           n: Nat, for: Nat, sid: Nat, calls: Seq(CallKinds)]

Events == [seq: Nat, n: Nat]
Answers == [of: SUBSET Nat, sure: BOOLEAN, tokens: Nat]
Refs == [id: Nat, seq: Nat]

Pausing == [kind: PauseKinds, asks: Nat, calls: Seq(CallKinds)]
Completing == [kind: {"Completed"}, of: SUBSET Nat]
Decisions == {NoDecision, Broken} \cup Completing \cup Pausing

Results ==
    [kind: {"Failed"}, session: Refs, events: Seq(Events)]
    \cup [kind: {"Completed"}, session: Refs, events: Seq(Events), answer: Answers]
    \cup [kind: PauseKinds, session: Refs, events: Seq(Events), asks: Nat, calls: Seq(CallKinds)]

Sessions ==
    [sid: Nat, known: BOOLEAN, seq: Nat, carried: Seq(Events), decision: Decisions, first: Nat,
     perm: Nat, text: SUBSET Nat, noise: Nat, worst: Dispositions, tree: Nat, run: BOOLEAN,
     told: BOOLEAN, out: Seq(Frames), busy: Seq(Nat), asks: Nat, mixed: BOOLEAN]

Inputs ==
    [kind: {"Start", "Continue", "RespondToolResults", "RespondInteraction", "RespondSubagent"},
     prompt: Nat, asks: Nat, results: Seq(Nat \X {"ok", "error"})]

Requests == [id: Nat, kind: {"ExternalSession"}, session: Refs, input: Inputs, tools: ToolSets]
Others == [id: Nat, kind: {"Interaction", "Tool", "Subagent"}]

Points == {"fulfill", "prepare", "launch", "begin", "register", "advance", "read", "charge",
           "sweep", "done"}

IsOperation(o) == o \in [pc: Points, req: Requests, h: Nat, tree: Nat, got: {o.got}]

Cursors ==
    [at: {"Idle", "AwaitingSession", "AwaitingInteraction", "AwaitingTool", "AwaitingSubagent",
          "Done", "Error"}, req: Nat, asks: Nat]

(* Every requirement of a batch is for a call of its own, every result for its call. *)
IsBatch(b) ==
    /\ b \in [id: Nat, calls: Seq(CallKinds), pending: {b.pending}, results: {b.results}]
    /\ DOMAIN b.pending \subseteq Nat \ {0}
    /\ \A r \in DOMAIN b.pending : b.pending[r] \in DOMAIN b.calls
    /\ \A r, q \in DOMAIN b.pending : b.pending[r] = b.pending[q] => r = q
    /\ DOMAIN b.results \subseteq DOMAIN b.calls
    /\ \A i \in DOMAIN b.results : b.results[i] \in {i} \X {"ok", "error"}

Commits == [turn: Nat, answer: Answers]

Machines(b) ==
    [cursor: Cursors, inFlight: BOOLEAN, batch: {b}, session: Refs, tools: ToolSets,
     queued: SUBSET ToolSets, cleanup: BOOLEAN, loops: Nat, turn: Nat,
     committed: Seq(Commits), nextId: Nat \ {0}, limit: Nat,
     stopOnError: BOOLEAN, toolIds: BOOLEAN]

IsMachine(x) == x \in Machines(x.batch) /\ IsBatch(x.batch)

(* The cursor, the turn and the batch tell the same story. *)
Coherent(x) ==
    /\ IsMachine(x)
    /\ x.inFlight <=> has_outstanding_requirement(x)
    /\ x.inFlight <=> x.turn # 0
    /\ x.cursor.at = "AwaitingTool" <=> x.batch # NoBatch

Machinery ==
    /\ Coherent(m)
    /\ Coherent(saved) /\ ~saved.inFlight
    /\ asked \subseteq Requests \cup Others

Operation ==
    /\ op = NoOp \/ IsOperation(op)
    /\ op.pc \in {"charge", "sweep", "done"} => op.got \in Results
    /\ op.pc = "read" => op.got \in Seq(Events)
    /\ op.pc \in {"begin", "register", "advance", "read", "sweep"} => op.h \in Handles
    /\ op.pc \in {"fulfill", "prepare", "launch"} => op.h = 0
    /\ op.pc = "charge" => op.got.kind = "Completed"

Stock ==
    /\ sessions \in Seq(Sessions)
    /\ live \subseteq Handles /\ sweep \subseteq Handles /\ live \cap sweep = {}
    /\ dropped \subseteq Handles

Accounts ==
    /\ config \in Configs
    /\ spent \in 0..Budget /\ cancelled \in BOOLEAN
    /\ ledger \in [prompts: Nat, frames: Nat, troubles: Nat, trees: Nat]
    /\ trees \subseteq 1..ledger.trees

Types == Machinery /\ Operation /\ Stock /\ Accounts

(* Whatever is asked or answered belongs to the turn in flight. *)
Asking == asked # {} \/ op # NoOp => m.inFlight

(* Frames are of a kind the runtime writes, and name the session. *)
Fit(s, h) ==
    \A i \in DOMAIN s.out : s.out[i].kind \in FrameKinds(config.flavor) /\ s.out[i].sid = h

FramesFit == \A h \in Handles : Fit(sessions[h], h)

(* An id is the handle of the session that was the first to have it. *)
Names(id) == id = 0 \/ (id \in Handles /\ sessions[id].sid = id)

NamesFit ==
    /\ \A h \in Handles : Names(sessions[h].sid)
    /\ Names(m.session.id) /\ Names(saved.session.id)
    /\ \A r \in asked : r.kind = "ExternalSession" => Names(r.session.id)
    /\ op # NoOp => Names(op.req.session.id)
    /\ op.pc \in {"charge", "sweep", "done"} => Names(op.got.session.id)

(* Sessions the registry does not hold yet. *)
Coming == IF op.pc \in {"begin", "register"} THEN {op.h} ELSE {}

(* No two of the registry's sessions have one id. *)
OneEach ==
    /\ \A h, k \in live \cup Coming : sessions[h].sid = sessions[k].sid /\ sessions[h].sid # 0 => h = k
    /\ op.pc \in {"prepare", "launch"} => Entry(op.req.session) = {}
    /\ Coming \cap (live \cup sweep \cup dropped) = {}
    /\ op.pc = "sweep" => op.h \notin live \cup sweep

(* Every tree has been prepared for one session. *)
TreesFit ==
    /\ \A h \in Handles : sessions[h].tree \in 0..ledger.trees
    /\ \A h, k \in Handles : sessions[h].tree = sessions[k].tree /\ sessions[h].tree # 0 => h = k
    /\ op.pc \in {"fulfill", "prepare", "charge", "sweep", "done"} => op.tree = 0
    /\ op.pc = "launch" => op.tree \in 0..ledger.trees /\ \A h \in Handles : op.tree # 0 => sessions[h].tree # op.tree
    /\ op.pc \in {"begin", "register"} => op.tree = sessions[op.h].tree

(* The session the handler has taken out of the registry to close it. *)
Closing == IF op.pc = "sweep" THEN {op.h} ELSE {}

(* What is still to be closed knows that its tree was spoiled. *)
SpoilsKnown ==
    /\ op.pc \in {"launch", "begin", "register"} => op.tree \notin spoiled
    /\ \A h \in live \cup sweep \cup Closing :
          sessions[h].tree \in spoiled => config.flavor \in OneShot /\ sessions[h].worst # "Graceful"

CleanIInv ==
    /\ Types /\ Asking /\ FramesFit /\ NamesFit /\ OneEach /\ TreesFit /\ SpoilsKnown
    /\ TakenTurnsAreOwedASweep /\ NoTreeForgotten /\ SpoiledTreesStay

-----------------------------------------------------------------------------
(***************************************************************************)
(* Sessions, as functions.                                                 *)
(***************************************************************************)

(* What a line does not touch. *)
Reader(t, s) ==
    /\ t \in Sessions
    /\ t.tree = s.tree /\ t.worst = s.worst /\ t.run = s.run /\ t.out = s.out /\ t.busy = s.busy
    /\ t.asks = s.asks /\ t.mixed = s.mixed /\ t.told = s.told
    /\ t.carried = s.carried /\ t.decision = s.decision /\ t.first = s.first

(* What a frame may make of name and text. *)
Heeds(t, s, f, flavor) ==
    /\ t.sid = s.sid \/ (s.sid = 0 /\ t.sid = f.sid)
    /\ t.text \subseteq s.text \cup {f.for}
    /\ flavor \in {"claude", "scripted"} => t.text = s.text
    /\ f.kind \in {"Completed", "Failed"} /\ flavor \notin {"claude", "scripted"} => t.text = {}

(* A decision is what the frame says, an answer is made of the text so far. *)
Decides(decision, s, f) ==
    /\ decision \in Decisions
    /\ decision.kind = "Completed" =>
          /\ f.kind = "Completed"
          /\ decision.of \subseteq s.text \cup {f.for}
    /\ decision.kind \in PauseKinds => decision = Paused(f)

(* Observations are numbered on from what the session has seen. *)
Observes(d, s, f) ==
    /\ d.events \in Seq(Events) /\ Len(d.events) <= 2
    /\ d.s.seq = s.seq + Len(d.events)
    /\ \A i \in DOMAIN d.events : d.events[i] = [seq |-> s.seq + i, n |-> 2 * f.n + i]

Decoding(d, s, f, flavor) ==
    /\ Reader(d.s, s) /\ Heeds(d.s, s, f, flavor)
    /\ d.ok \in BOOLEAN /\ Decides(d.decision, s, f) /\ Observes(d, s, f)

LEMMA SilentDecision ==
    ASSUME NEW s, NEW f
    PROVE  Decides(NoDecision, s, f) /\ Decides(Broken, s, f)
BY DEF Decides, Decisions, NoDecision, Broken, PauseKinds

LEMMA LineDecodes ==
    ASSUME NEW flavor, NEW s \in Sessions, NEW f \in Frames, NEW k \in 0..2,
           NEW t, Reader(t, s), Heeds(t, s, f, flavor), t.seq = s.seq,
           NEW decision, Decides(decision, s, f)
    PROVE  Decoding(Line(t, f, k, decision), s, f, flavor)
<1>1. s.seq \in Nat /\ f.n \in Nat
  BY DEF Sessions, Frames
<1>2. s.seq + k \in Nat
  BY <1>1
<1> DEFINE a == s.seq + k
           u == [t EXCEPT !.seq = a, !.noise = 0]
           d == Line(t, f, k, decision)
<1>3. a \in Nat
  BY <1>2
<1> HIDE DEF a
<1>4. Reader(u, s) /\ u.sid = t.sid /\ u.text = t.text /\ u.seq = a
  <2>1. t \in Sessions
    BY DEF Reader
  <2>2. u \in Sessions
    BY <2>1, <1>3 DEF Sessions
  <2> QED BY <2>1, <2>2 DEF Reader, Sessions
<1>5. [i \in 1..k |-> [seq |-> s.seq + i, n |-> 2 * f.n + i]] \in Seq(Events)
  <2>1. ASSUME NEW i \in 1..k PROVE [seq |-> s.seq + i, n |-> 2 * f.n + i] \in Events
    <3>1. s.seq + i \in Nat /\ 2 * f.n + i \in Nat
      BY <1>1
    <3> QED BY <3>1 DEF Events
  <2> QED BY <2>1
<1>6. /\ d.s = u /\ d.ok = TRUE /\ d.decision = decision
      /\ d.events = [i \in 1..k |-> [seq |-> s.seq + i, n |-> 2 * f.n + i]]
  BY DEF Line, a
<1> HIDE DEF u, d
<1>7. Observes(d, s, f)
  <2>1. Len(d.events) = k /\ DOMAIN d.events = 1..k
    BY <1>6
  <2>2. d.s.seq = s.seq + Len(d.events)
    BY <1>4, <1>6, <2>1 DEF a
  <2> QED BY <1>5, <1>6, <2>1, <2>2 DEF Observes
<1>8. Heeds(d.s, s, f, flavor)
  BY <1>4, <1>6 DEF Heeds
<1>9. Decoding(d, s, f, flavor)
  BY <1>4, <1>6, <1>7, <1>8 DEF Decoding
<1> QED BY <1>9 DEF d

LEMMA ToleratedDecodes ==
    ASSUME NEW flavor, NEW s \in Sessions, NEW f \in Frames, f.kind = "Noise"
    PROVE  /\ Decoding(tolerate_non_json_line(s), s, f, flavor)
           /\ Decoding([tolerate_non_json_line(s) EXCEPT !.ok = FALSE], s, f, flavor)
<1>1. s.noise + 1 \in Nat /\ s.seq \in Nat
  BY DEF Sessions
<1> DEFINE a == s.noise + 1
           d == tolerate_non_json_line(s)
           e == [d EXCEPT !.ok = FALSE]
           u == [s EXCEPT !.noise = a]
<1>2. a \in Nat
  BY <1>1
<1>3. d.s = u /\ d.ok \in BOOLEAN /\ d.decision = NoDecision /\ d.events = << >>
      /\ e.s = u /\ e.ok = FALSE /\ e.decision = NoDecision /\ e.events = << >>
  BY DEF tolerate_non_json_line, a
<1> HIDE DEF a
<1>4. u \in Sessions
  BY <1>2 DEF Sessions
<1>5. Reader(u, s) /\ u.sid = s.sid /\ u.text = s.text /\ u.seq = s.seq
  BY <1>4 DEF Reader, Sessions
<1> HIDE DEF d, e, u
<1>6. Observes(d, s, f) /\ Observes(e, s, f)
  <2>1. << >> \in Seq(Events) /\ Len(<< >>) = 0 /\ s.seq + 0 = s.seq /\ DOMAIN << >> = {}
    BY <1>1
  <2> QED BY <1>3, <1>5, <2>1 DEF Observes
<1>7. Heeds(u, s, f, flavor)
  BY <1>5 DEF Heeds
<1>8. Decoding(d, s, f, flavor) /\ Decoding(e, s, f, flavor)
  BY <1>3, <1>5, <1>6, <1>7, SilentDecision DEF Decoding
<1> QED BY <1>8 DEF d, e

LEMMA CompletedDecides ==
    ASSUME NEW s \in Sessions, NEW f \in Frames, f.kind = "Completed",
           NEW of, of \subseteq s.text \cup {f.for}
    PROVE  Decides(Completed(of), s, f)
<1>1. s.text \subseteq Nat /\ f.for \in Nat
  BY DEF Sessions, Frames
<1>2. Completed(of) \in Completing
  BY <1>1 DEF Completed, Completing
<1>3. Completed(of).kind = "Completed" /\ Completed(of).of = of
  BY DEF Completed
<1> QED BY <1>2, <1>3 DEF Decides, Decisions, PauseKinds

LEMMA PausedDecides ==
    ASSUME NEW s \in Sessions, NEW f \in Frames, f.kind \in PauseKinds
    PROVE  Decides(Paused(f), s, f)
<1>1. Paused(f) \in Pausing
  BY DEF Paused, Pausing, Frames
<1>2. Paused(f).kind # "Completed"
  BY DEF Paused, PauseKinds
<1> QED BY <1>1, <1>2 DEF Decides, Decisions

(* The sessions Line is given. *)
LEMMA TextHeeds ==
    ASSUME NEW flavor, NEW s \in Sessions, NEW f \in Frames, NEW x, x \subseteq s.text \cup {f.for},
           flavor \notin {"claude", "scripted"},
           f.kind \in {"Completed", "Failed"} => x = {}
    PROVE  LET t == [s EXCEPT !.text = x] IN Reader(t, s) /\ Heeds(t, s, f, flavor) /\ t.seq = s.seq
<1> DEFINE t == [s EXCEPT !.text = x]
<1>1. x \subseteq Nat
  BY DEF Sessions, Frames
<1>2. t \in Sessions
  BY <1>1 DEF Sessions
<1>3. Reader(t, s) /\ t.text = x /\ t.sid = s.sid /\ t.seq = s.seq
  BY <1>2 DEF Reader, Sessions
<1> HIDE DEF t
<1>4. Heeds(t, s, f, flavor)
  BY <1>3 DEF Heeds
<1> QED BY <1>3, <1>4 DEF t

LEMMA NamedHeeds ==
    ASSUME NEW flavor, NEW s \in Sessions, NEW f \in Frames, f.kind \notin {"Completed", "Failed"}
    PROVE  LET t == Named(s, f) IN Reader(t, s) /\ Heeds(t, s, f, flavor) /\ t.seq = s.seq
<1> DEFINE t == Named(s, f)
           n == IF s.sid = 0 THEN f.sid ELSE s.sid
<1>1. n \in Nat
  BY DEF Sessions, Frames
<1>2. t = [s EXCEPT !.sid = n, !.known = TRUE]
  BY DEF Named
<1> HIDE DEF n
<1>3. t \in Sessions
  BY <1>1, <1>2 DEF Sessions
<1>4. Reader(t, s) /\ t.text = s.text /\ t.sid = n /\ t.seq = s.seq
  BY <1>2, <1>3 DEF Reader, Sessions
<1> HIDE DEF t
<1>5. Heeds(t, s, f, flavor)
  BY <1>4 DEF Heeds, n
<1> QED BY <1>4, <1>5 DEF t

LEMMA NamedTextHeeds ==
    ASSUME NEW flavor, NEW s \in Sessions, NEW f \in Frames, NEW x, x \subseteq s.text \cup {f.for},
           flavor \notin {"claude", "scripted"},
           f.kind \in {"Completed", "Failed"} => x = {}
    PROVE  LET t == [Named(s, f) EXCEPT !.text = x]
           IN  Reader(t, s) /\ Heeds(t, s, f, flavor) /\ t.seq = s.seq
<1> DEFINE n == IF s.sid = 0 THEN f.sid ELSE s.sid
           t == [Named(s, f) EXCEPT !.text = x]
<1>1. n \in Nat /\ x \subseteq Nat
  BY DEF Sessions, Frames
<1>2. t = [s EXCEPT !.sid = n, !.known = TRUE, !.text = x]
  BY DEF Named, Sessions
<1> HIDE DEF n
<1>3. t \in Sessions
  BY <1>1, <1>2 DEF Sessions
<1>4. Reader(t, s) /\ t.text = x /\ t.sid = n /\ t.seq = s.seq
  BY <1>2, <1>3 DEF Reader, Sessions
<1> HIDE DEF t
<1>5. Heeds(t, s, f, flavor)
  BY <1>4 DEF Heeds, n
<1> QED BY <1>4, <1>5 DEF t

LEMMA SameHeeds ==
    ASSUME NEW flavor, NEW s \in Sessions, NEW f \in Frames,
           f.kind \in {"Completed", "Failed"} => flavor \in {"claude", "scripted"}
    PROVE  /\ Reader(s, s) /\ Heeds(s, s, f, flavor)
           /\ LET t == [s EXCEPT !.perm = f.n]
              IN  Reader(t, s) /\ Heeds(t, s, f, flavor) /\ t.seq = s.seq
<1> DEFINE t == [s EXCEPT !.perm = f.n]
<1>1. f.n \in Nat
  BY DEF Frames
<1>2. t \in Sessions
  BY <1>1 DEF Sessions
<1>3. Reader(t, s) /\ t.text = s.text /\ t.sid = s.sid /\ t.seq = s.seq
  BY <1>2 DEF Reader, Sessions
<1> HIDE DEF t
<1>4. Reader(s, s) /\ Heeds(s, s, f, flavor) /\ Heeds(t, s, f, flavor)
  BY <1>3 DEF Heeds, Reader
<1> QED BY <1>3, <1>4 DEF t

LEMMA OneshotDecodes ==
    ASSUME NEW s \in Sessions, NEW f \in Frames
    PROVE  /\ f.kind \in {"Init", "Event", "Completed", "Failed"} =>
                Decoding(codex_push_line(s, f), s, f, "codex")
           /\ f.kind \in {"Event", "Completed", "Failed"} =>
                Decoding(opencode_push_line(s, f), s, f, "opencode")
<1> DEFINE u == Named(s, f)
           new == IF s.known THEN 0 ELSE 1
<1>1. 0 \in 0..2 /\ 1 \in 0..2 /\ new \in 0..2 /\ new + 1 \in 0..2
  OBVIOUS
<1>2. /\ "codex" \notin {"claude", "scripted"} /\ "opencode" \notin {"claude", "scripted"}
      /\ s.text \subseteq s.text \cup {f.for} /\ {} \subseteq s.text \cup {f.for}
      /\ {f.for} \subseteq s.text \cup {f.for}
  OBVIOUS
<1>3. u.text = s.text /\ u.mixed = s.mixed
  BY DEF Named, Sessions
<1> HIDE DEF u, new
<1>4. CASE f.kind = "Init"
  <2>1. Decoding(Line(Named(s, f), f, 1, NoDecision), s, f, "codex")
    <3> DEFINE t == Named(s, f)
    <3>1. Reader(t, s) /\ Heeds(t, s, f, "codex") /\ t.seq = s.seq
      BY <1>4, NamedHeeds
    <3> HIDE DEF t
    <3>2. Decoding(Line(t, f, 1, NoDecision), s, f, "codex")
      BY <1>1, <3>1, SilentDecision, LineDecodes
    <3> QED BY <3>2 DEF t
  <2> QED BY <1>4, <2>1 DEF codex_push_line
<1>5. CASE f.kind = "Event"
  <2>1. Decoding(codex_handle_item(s, f), s, f, "codex")
    <3> DEFINE x == {f.for}
               t == [s EXCEPT !.text = x]
    <3>0. x \subseteq s.text \cup {f.for} /\ (f.kind \in {"Completed", "Failed"} => x = {})
      BY <1>5
    <3> HIDE DEF x
    <3>1. Reader(t, s) /\ Heeds(t, s, f, "codex") /\ t.seq = s.seq
      BY <1>2, <3>0, TextHeeds
    <3> HIDE DEF t
    <3>2. Decoding(Line(t, f, 1, NoDecision), s, f, "codex")
      BY <1>1, <3>1, SilentDecision, LineDecodes
    <3> QED BY <3>2 DEF t, x, codex_handle_item
  <2>2. Decoding(opencode_handle_part(u, f, new), s, f, "opencode")
    <3> DEFINE t == [u EXCEPT !.text = {f.for}]
    <3>1. Reader(t, s) /\ Heeds(t, s, f, "opencode") /\ t.seq = s.seq
      BY <1>2, <1>5, NamedTextHeeds DEF u
    <3> HIDE DEF t
    <3>2. Decoding(Line(t, f, new + 1, NoDecision), s, f, "opencode")
      BY <1>1, <3>1, SilentDecision, LineDecodes
    <3> QED BY <3>2 DEF t, opencode_handle_part
  <2> QED BY <1>5, <2>1, <2>2 DEF codex_push_line, opencode_push_line, u, new
<1>6. CASE f.kind \in {"Completed", "Failed"}
  <2>1. Decoding(codex_handle_turn_end(s, f), s, f, "codex")
    <3> DEFINE t == TextTaken(s)
    <3>1. Reader(t, s) /\ Heeds(t, s, f, "codex") /\ t.seq = s.seq
      BY <1>2, <1>6, TextHeeds DEF TextTaken
    <3> HIDE DEF t
    <3>2. Decoding(Line(t, f, 0, Broken), s, f, "codex")
      BY <1>1, <3>1, SilentDecision, LineDecodes
    <3>3. f.kind = "Completed" => Decoding(Line(t, f, 1, Completed(s.text)), s, f, "codex")
      <4> HAVE f.kind = "Completed"
      <4>1. Decides(Completed(s.text), s, f)
        BY <1>2, CompletedDecides
      <4> QED BY <1>1, <3>1, <4>1, LineDecodes
    <3> QED BY <1>6, <3>2, <3>3 DEF t, codex_handle_turn_end
  <2>2. Decoding(opencode_handle_step_finish(u, f, new), s, f, "opencode")
    <3> DEFINE x == {}
               t == [u EXCEPT !.text = x]
    <3>0. x \subseteq s.text \cup {f.for} /\ (f.kind \in {"Completed", "Failed"} => x = {})
      OBVIOUS
    <3> HIDE DEF x
    <3>1. Reader(t, s) /\ Heeds(t, s, f, "opencode") /\ t.seq = s.seq
      BY <1>2, <1>6, <3>0, NamedTextHeeds DEF u
    <3> HIDE DEF t
    <3>2. Decoding(Line(t, f, new, Broken), s, f, "opencode")
      BY <1>1, <3>1, SilentDecision, LineDecodes
    <3>3. f.kind = "Completed" => Decoding(Line(t, f, new + 1, Completed(u.text)), s, f, "opencode")
      <4> HAVE f.kind = "Completed"
      <4>1. Completed(u.text) = Completed(s.text)
        BY <1>3 DEF Completed
      <4>2. Decides(Completed(u.text), s, f)
        BY <1>2, <4>1, CompletedDecides
      <4> QED BY <1>1, <3>1, <4>2, LineDecodes
    <3> QED BY <1>6, <3>2, <3>3 DEF t, x, TextTaken, opencode_handle_step_finish
  <2> QED BY <1>6, <2>1, <2>2 DEF codex_push_line, opencode_push_line, u, new
<1> QED BY <1>4, <1>5, <1>6

LEMMA ClaudeDecodes ==
    ASSUME NEW flavor \in {"claude", "scripted"}, NEW s \in Sessions, NEW f \in Frames,
           f.kind # "Noise"
    PROVE  Decoding(claude_push_line(s, f), s, f, flavor)
<1>1. 0 \in 0..2 /\ 1 \in 0..2
  OBVIOUS
<1>2. Reader(s, s) /\ Heeds(s, s, f, flavor)
  BY SameHeeds
<1>3. CASE f.kind = "Init"
  <2> DEFINE t == Named(s, f)
  <2>1. Reader(t, s) /\ Heeds(t, s, f, flavor) /\ t.seq = s.seq
    BY <1>3, NamedHeeds
  <2> HIDE DEF t
  <2>2. Decoding(Line(t, f, 1, NoDecision), s, f, flavor)
    BY <1>1, <2>1, SilentDecision, LineDecodes
  <2> QED BY <1>3, <2>2 DEF t, claude_push_line
<1>4. CASE f.kind = "Event"
  <2>1. Decoding(Line(s, f, 1, NoDecision), s, f, flavor)
    BY <1>1, <1>2, SilentDecision, LineDecodes
  <2> QED BY <1>4, <2>1 DEF claude_push_line, claude_handle_message
<1>5. CASE f.kind = "Completed"
  <2>1. Decides(Completed({f.for}), s, f)
    BY <1>5, CompletedDecides
  <2>2. Decoding(Line(s, f, 1, Completed({f.for})), s, f, flavor)
    BY <1>1, <1>2, <2>1, LineDecodes
  <2> QED BY <1>5, <2>2 DEF claude_push_line, claude_handle_result
<1>6. CASE f.kind = "Failed"
  <2>1. Decoding(Line(s, f, 0, Broken), s, f, flavor)
    BY <1>1, <1>2, SilentDecision, LineDecodes
  <2> QED BY <1>6, <2>1 DEF claude_push_line, claude_handle_result
<1>7. CASE f.kind \in PauseKinds
  <2>1. Decides(Paused(f), s, f)
    BY <1>7, PausedDecides
  <2>2. Decoding(Line(s, f, 0, Paused(f)), s, f, flavor) /\ Decoding(Line(s, f, 1, Paused(f)), s, f, flavor)
    BY <1>1, <1>2, <2>1, LineDecodes
  <2> QED BY <1>7, <2>2 DEF claude_push_line, claude_handle_result, PauseKinds
<1> QED BY <1>3, <1>4, <1>5, <1>6, <1>7 DEF Frames

LEMMA AcpDecodes ==
    ASSUME NEW s \in Sessions, NEW f \in Frames,
           f.kind \in {"Noise", "Init", "Event", "Completed", "Failed", "Interaction"}
    PROVE  Decoding(push_jsonrpc_line(s, f), s, f, "acp")
<1>1. 0 \in 0..2 /\ 1 \in 0..2
  OBVIOUS
<1>2. /\ "acp" \notin {"claude", "scripted"}
      /\ s.text \subseteq s.text \cup {f.for} /\ {} \subseteq s.text \cup {f.for}
      /\ s.text \cup {f.for} \subseteq s.text \cup {f.for}
  OBVIOUS
<1>3. CASE f.kind = "Noise"
  BY <1>3, ToleratedDecodes DEF push_jsonrpc_line
<1>4. CASE f.kind = "Init"
  <2> DEFINE t == Named(s, f)
  <2>1. Reader(t, s) /\ Heeds(t, s, f, "acp") /\ t.seq = s.seq
    BY <1>4, NamedHeeds
  <2> HIDE DEF t
  <2>2. Decoding(Line(t, f, 1, NoDecision), s, f, "acp")
    BY <1>1, <2>1, SilentDecision, LineDecodes
  <2> QED BY <1>4, <2>2 DEF t, push_jsonrpc_line
<1>5. CASE f.kind = "Event"
  <2> DEFINE x == s.text \cup {f.for}
             t == [s EXCEPT !.text = x]
  <2>0. x \subseteq s.text \cup {f.for} /\ (f.kind \in {"Completed", "Failed"} => x = {})
    BY <1>5
  <2> HIDE DEF x
  <2>1. Reader(t, s) /\ Heeds(t, s, f, "acp") /\ t.seq = s.seq
    BY <1>2, <2>0, TextHeeds
  <2> HIDE DEF t
  <2>2. Decoding(Line(t, f, 1, NoDecision), s, f, "acp")
    BY <1>1, <2>1, SilentDecision, LineDecodes
  <2> QED BY <1>5, <2>2 DEF t, x, push_jsonrpc_line, on_session_update
<1>6. CASE f.kind \in {"Completed", "Failed"}
  <2> DEFINE t == TextTaken(s)
  <2>1. Reader(t, s) /\ Heeds(t, s, f, "acp") /\ t.seq = s.seq
    BY <1>2, <1>6, TextHeeds DEF TextTaken
  <2> HIDE DEF t
  <2>2. Decoding(Line(t, f, 0, Broken), s, f, "acp")
    BY <1>1, <2>1, SilentDecision, LineDecodes
  <2>3. f.kind = "Completed" => Decoding(Line(t, f, 1, Completed(s.text)), s, f, "acp")
    <3> HAVE f.kind = "Completed"
    <3>1. Decides(Completed(s.text), s, f)
      BY <1>2, CompletedDecides
    <3> QED BY <1>1, <2>1, <3>1, LineDecodes
  <2> QED BY <1>6, <2>2, <2>3 DEF t, push_jsonrpc_line
<1>7. CASE f.kind = "Interaction"
  <2> DEFINE t == [s EXCEPT !.perm = f.n]
  <2>1. Reader(t, s) /\ Heeds(t, s, f, "acp") /\ t.seq = s.seq
    BY <1>7, SameHeeds
  <2>2. Decides(Paused(f), s, f)
    BY <1>7, PausedDecides DEF PauseKinds
  <2> HIDE DEF t
  <2>3. Decoding(Line(t, f, 1, Paused(f)), s, f, "acp")
    BY <1>1, <2>1, <2>2, LineDecodes
  <2> QED BY <1>7, <2>3 DEF t, push_jsonrpc_line, cache_permission_request
<1> QED BY <1>3, <1>4, <1>5, <1>6, <1>7

(* Every adapter decodes what its runtime may write. *)
LEMMA PushLine ==
    ASSUME NEW flavor \in Flavors, NEW s \in Sessions, NEW f \in Frames,
           f.kind \in FrameKinds(flavor)
    PROVE  Decoding(push_line(flavor, s, f), s, f, flavor)
<1>1. CASE flavor = "acp"
  <2>1. f.kind \in {"Noise", "Init", "Event", "Completed", "Failed", "Interaction"}
    BY <1>1 DEF FrameKinds, Pauses, OneShot
  <2> QED BY <1>1, <2>1, AcpDecodes DEF push_line
<1>2. CASE flavor # "acp" /\ f.kind = "Noise"
  BY <1>2, ToleratedDecodes DEF push_line
<1>3. CASE flavor = "codex" /\ f.kind # "Noise"
  <2>1. f.kind \in {"Init", "Event", "Completed", "Failed"}
    BY <1>3 DEF FrameKinds, Pauses, OneShot
  <2> QED BY <1>3, <2>1, OneshotDecodes DEF push_line
<1>4. CASE flavor = "opencode" /\ f.kind # "Noise"
  <2>1. f.kind \in {"Event", "Completed", "Failed"}
    BY <1>4 DEF FrameKinds, Pauses, OneShot
  <2> QED BY <1>4, <2>1, OneshotDecodes DEF push_line
<1>5. CASE flavor \in {"claude", "scripted"} /\ f.kind # "Noise"
  BY <1>5, ClaudeDecodes DEF push_line
<1> QED BY <1>1, <1>2, <1>3, <1>4, <1>5 DEF Flavors

-----------------------------------------------------------------------------
(***************************************************************************)
(* The machine, as functions.                                              *)
(***************************************************************************)

(* A batch is answered call by call. *)
InOrder(input) == \A i \in DOMAIN input.results : input.results[i][1] = i

(* A step keeps the story straight, asks only in a turn, and takes no session but *)
(* the one the result names.                                                      *)
Asks(o) ==
    /\ o.reqs \subseteq Requests \cup Others
    /\ o.m.inFlight \/ o.reqs = {}
    /\ \A r \in o.reqs : r.kind = "ExternalSession" => r.session = o.m.session /\ InOrder(r.input)

MachineStep(x, o, session) ==
    /\ Coherent(o.m) /\ Asks(o)
    /\ o.m.cleanup = x.cleanup
    /\ o.m.session \in {x.session, session}

LEMMA NoBatchFits == IsBatch(NoBatch)
<1>1. << >> \in Seq(CallKinds) /\ DOMAIN << >> = {}
  OBVIOUS
<1>2. 0 \in Nat
  OBVIOUS
<1> QED BY <1>1, <1>2 DEF IsBatch, NoBatch

LEMMA SettledFits ==
    ASSUME NEW x, IsMachine(x), NEW where \in {"Idle", "Done", "Error"}
    PROVE  /\ Coherent(Settled(x, where))
           /\ Settled(x, where).cleanup = x.cleanup /\ Settled(x, where).session = x.session
           /\ ~Settled(x, where).inFlight
<1> DEFINE y == Settled(x, where)
           c == At(where)
<1>1. c \in Cursors /\ c.at = where
  BY DEF At, Cursors
<1> HIDE DEF c
<1>2. y = [x EXCEPT !.turn = 0, !.inFlight = FALSE, !.batch = NoBatch, !.cursor = c]
  BY DEF Settled, c
<1>3. x \in Machines(x.batch)
  BY DEF IsMachine
<1>4. y \in Machines(NoBatch)
  <2>1. 0 \in Nat
    OBVIOUS
  <2> HIDE DEF y
  <2> QED BY <1>1, <1>2, <1>3, <2>1 DEF Machines
<1>5. /\ y.batch = NoBatch /\ y.cursor = c /\ y.turn = 0 /\ y.inFlight = FALSE
      /\ y.cleanup = x.cleanup /\ y.session = x.session
  BY <1>2, <1>3 DEF Machines
<1> HIDE DEF y
<1>6. IsMachine(y)
  BY <1>4, <1>5, NoBatchFits DEF IsMachine
<1>7. Coherent(y)
  BY <1>1, <1>5, <1>6 DEF Coherent, has_outstanding_requirement
<1> QED BY <1>5, <1>7 DEF y

LEMMA FailFits ==
    ASSUME NEW x, IsMachine(x), NEW notes, NEW session
    PROVE  MachineStep(x, fail_with(x, notes), session) /\ MachineStep(x, fail(x), session)
<1>1. MachineStep(x, Outcome(Settled(x, "Error"), notes, {}), session)
  BY SettledFits DEF MachineStep, Asks, Outcome
<1>2. MachineStep(x, Outcome(Settled(x, "Error"), << >>, {}), session)
  BY SettledFits DEF MachineStep, Asks, Outcome
<1> QED BY <1>1, <1>2 DEF fail, fail_with

LEMMA BlockFits ==
    ASSUME NEW x, IsMachine(x), x.inFlight, x.turn # 0, x.batch = NoBatch, NEW input \in Inputs,
           InOrder(input)
    PROVE  MachineStep(x, block_on_session(x, input), x.session)
<1> DEFINE n == x.loops + 1
           y == [x EXCEPT !.loops = n]
           k == x.nextId + 1
           c == [at |-> "AwaitingSession", req |-> x.nextId, asks |-> 0]
           z == [y EXCEPT !.nextId = k, !.cursor = c]
           req == [id |-> x.nextId, kind |-> "ExternalSession", session |-> x.session,
                   input |-> input, tools |-> x.tools]
           o == block_on_session(x, input)
<1>1. x \in Machines(x.batch) /\ IsBatch(x.batch)
  BY DEF IsMachine
<1>2. x.loops \in Nat /\ x.nextId \in Nat \ {0} /\ x.session \in Refs /\ x.tools \in ToolSets
  BY <1>1 DEF Machines
<1>3. n \in Nat /\ k \in Nat \ {0}
  BY <1>2
<1>4. c \in Cursors /\ c.at = "AwaitingSession"
  BY <1>2 DEF Cursors
<1>5. record_decision_loop(x) = y
  BY DEF record_decision_loop
<1> HIDE DEF n
<1>6. y \in Machines(x.batch)
  BY <1>1, <1>3 DEF Machines
<1>7. /\ y.batch = x.batch /\ y.cleanup = x.cleanup /\ y.session = x.session /\ y.nextId = x.nextId
      /\ y.tools = x.tools /\ y.inFlight = x.inFlight /\ y.turn = x.turn
  BY <1>1 DEF Machines
<1> HIDE DEF y
<1>8. [At("AwaitingSession") EXCEPT !.req = y.nextId] = c
  BY <1>7 DEF At
<1> HIDE DEF c, k
<1>9. z \in Machines(x.batch)
  BY <1>3, <1>4, <1>6 DEF Machines
<1>10. /\ z.batch = x.batch /\ z.cleanup = x.cleanup /\ z.session = x.session
       /\ z.inFlight = x.inFlight /\ z.turn = x.turn /\ z.cursor = c
  BY <1>6, <1>7 DEF Machines
<1>11. o = (IF y.loops > y.limit \/ y.nextId > MaxIds THEN fail(y) ELSE Outcome(z, << >>, {req}))
  <2>1. [y EXCEPT !.nextId = @ + 1, !.cursor = [At("AwaitingSession") EXCEPT !.req = y.nextId]] = z
    BY <1>6, <1>7, <1>8 DEF k, Machines
  <2> QED BY <1>5, <1>7, <2>1 DEF block_on_session
<1> HIDE DEF z, o
<1>12. IsMachine(z) /\ IsMachine(y)
  BY <1>1, <1>6, <1>7, <1>9, <1>10 DEF IsMachine
<1>13. Coherent(z)
  BY <1>4, <1>10, <1>12 DEF Coherent, has_outstanding_requirement
<1>14. req \in Requests /\ req.session = z.session /\ req.input = input
  BY <1>2, <1>10 DEF Requests
<1> HIDE DEF req
<1>15. MachineStep(x, Outcome(z, << >>, {req}), x.session)
  BY <1>10, <1>13, <1>14 DEF MachineStep, Asks, Outcome
<1>16. MachineStep(x, fail(y), x.session)
  BY <1>7, <1>12, FailFits DEF MachineStep
<1> QED BY <1>11, <1>15, <1>16 DEF o

(* A message opens a turn. *)
LEMMA StepFits ==
    ASSUME NEW x, Coherent(x), ~x.inFlight, NEW pivot \in BOOLEAN, NEW prompt \in Nat \ {0}
    PROVE  MachineStep(x, step(x, [pivot |-> pivot, prompt |-> prompt]), x.session)
<1> DEFINE tools == IF x.queued = {} THEN x.tools ELSE CHOOSE t \in x.queued : TRUE
           y == IF x.queued = {} THEN x
                ELSE [x EXCEPT !.tools = CHOOSE t \in x.queued : TRUE, !.queued = {}]
           z == [y EXCEPT !.turn = prompt, !.inFlight = TRUE]
           kind == IF y.session.id # 0 THEN "Continue" ELSE "Start"
           input == [kind |-> kind, prompt |-> prompt, asks |-> 0, results |-> << >>]
<1>1. x \in Machines(x.batch) /\ IsBatch(x.batch) /\ x.turn = 0 /\ x.batch = NoBatch
  <2>1. IsMachine(x) /\ x.turn = 0 /\ x.cursor.at # "AwaitingTool"
    BY DEF Coherent, has_outstanding_requirement
  <2> QED BY <2>1 DEF Coherent, IsMachine
<1>2. tools \in ToolSets
  BY <1>1 DEF Machines
<1> HIDE DEF tools
<1>3. y \in Machines(x.batch) /\ y.batch = x.batch /\ y.cleanup = x.cleanup /\ y.session = x.session
      /\ y.turn = x.turn
  <2>1. CASE x.queued = {}
    BY <1>1, <2>1
  <2>2. CASE x.queued # {}
    <3>1. y = [x EXCEPT !.tools = tools, !.queued = {}]
      BY <2>2 DEF tools
    <3> HIDE DEF y
    <3>2. y \in Machines(x.batch)
      BY <1>1, <1>2, <3>1 DEF Machines
    <3> QED BY <1>1, <3>1, <3>2 DEF Machines
  <2> QED BY <2>1, <2>2
<1> HIDE DEF y
<1>4. z \in Machines(x.batch) /\ z.batch = x.batch /\ z.cleanup = x.cleanup /\ z.session = x.session
      /\ z.turn = prompt /\ z.inFlight = TRUE
  <2>1. z \in Machines(x.batch)
    BY <1>3 DEF Machines
  <2> QED BY <1>3, <2>1 DEF Machines
<1>5. input \in Inputs /\ InOrder(input)
  <2>1. << >> \in Seq(Nat \X {"ok", "error"}) /\ 0 \in Nat /\ DOMAIN << >> = {}
    OBVIOUS
  <2> QED BY <2>1 DEF Inputs, InOrder
<1>6. begin_user_turn(x, prompt) = block_on_session(z, input)
  <2>1. Input(IF z.session.id # 0 THEN "Continue" ELSE "Start", prompt) = input
    BY <1>3, <1>4 DEF Input
  <2>2. y.turn = 0
    BY <1>1, <1>3
  <2>3. begin_user_turn(x, prompt) =
           IF y.turn # 0 THEN fail(y)
           ELSE block_on_session(z, Input(IF y.session.id # 0 THEN "Continue" ELSE "Start", prompt))
    BY DEF begin_user_turn, y
  <2> QED BY <1>3, <1>4, <2>1, <2>2, <2>3
<1> HIDE DEF z, input
<1>7. MachineStep(x, begin_user_turn(x, prompt), x.session)
  <2>1. IsMachine(z)
    BY <1>1, <1>4 DEF IsMachine
  <2>2. MachineStep(z, block_on_session(z, input), z.session)
    BY <1>1, <1>4, <1>5, <2>1, BlockFits
  <2> QED BY <1>4, <1>6, <2>2 DEF MachineStep
<1>8. MachineStep(x, fail(x), x.session)
  BY FailFits DEF Coherent
<1> QED BY <1>7, <1>8 DEF step

LEMMA ReconfigureFits ==
    ASSUME NEW x, Coherent(x), NEW tools \in ToolSets, NEW hot \in BOOLEAN
    PROVE  LET y == reconfigure(x, tools, hot)
           IN  /\ Coherent(y) /\ y.cleanup = x.cleanup /\ y.session = x.session
               /\ y.inFlight = x.inFlight
<1> DEFINE y == reconfigure(x, tools, hot)
<1>1. x \in Machines(x.batch)
  BY DEF Coherent, IsMachine
<1>2. /\ y \in Machines(x.batch) /\ y.batch = x.batch /\ y.cleanup = x.cleanup /\ y.session = x.session
      /\ y.turn = x.turn /\ y.inFlight = x.inFlight /\ y.cursor = x.cursor
  <2>1. CASE ~x.inFlight
    <3>1. y = [x EXCEPT !.queued = {}, !.tools = tools]
      BY <2>1 DEF reconfigure
    <3> HIDE DEF y
    <3>2. y \in Machines(x.batch)
      BY <1>1, <3>1 DEF Machines
    <3> QED BY <1>1, <3>1, <3>2 DEF Machines
  <2>2. CASE x.inFlight /\ hot
    <3>1. y = x
      BY <2>2 DEF reconfigure
    <3> QED BY <1>1, <3>1
  <2>3. CASE x.inFlight /\ ~hot
    <3>1. y = [x EXCEPT !.queued = {tools}]
      BY <2>3 DEF reconfigure
    <3> HIDE DEF y
    <3>2. y \in Machines(x.batch)
      BY <1>1, <3>1 DEF Machines
    <3> QED BY <1>1, <3>1, <3>2 DEF Machines
  <2> QED BY <2>1, <2>2, <2>3
<1> HIDE DEF y
<1>3. Coherent(y)
  BY <1>2 DEF Coherent, IsMachine, has_outstanding_requirement
<1> QED BY <1>2, <1>3 DEF y

(* One requirement, raised by a pause. *)
LEMMA PauseFits ==
    ASSUME NEW x, Coherent(x), NEW session \in Refs, NEW result, result.session = session, result.asks \in Nat,
           NEW kind \in {"Interaction", "Subagent"},
           NEW where \in {"AwaitingInteraction", "AwaitingSubagent"},
           NEW notes, NEW ifFailed, x.cursor.at # "AwaitingTool"
    PROVE  MachineStep(x, pause_for(x, result, kind, where, notes, ifFailed), session)
<1> DEFINE n == [x EXCEPT !.session = session]
           c == [at |-> where, req |-> x.nextId, asks |-> result.asks]
           k == x.nextId + 1
           z == [n EXCEPT !.nextId = k, !.cursor = c]
           r == [id |-> x.nextId, kind |-> kind]
           o == pause_for(x, result, kind, where, notes, ifFailed)
<1>1. x \in Machines(x.batch) /\ IsBatch(x.batch) /\ x.batch = NoBatch
  BY DEF Coherent, IsMachine
<1>2. x.nextId \in Nat \ {0}
  BY <1>1 DEF Machines
<1>3. k \in Nat \ {0} /\ c \in Cursors /\ c.at = where
  BY <1>2 DEF Cursors
<1> HIDE DEF k, c
<1>4. n \in Machines(x.batch)
  BY <1>1 DEF Machines
<1>5. /\ n.batch = x.batch /\ n.cleanup = x.cleanup /\ n.session = session /\ n.nextId = x.nextId
      /\ n.inFlight = x.inFlight /\ n.turn = x.turn
  BY <1>1 DEF Machines
<1>6. o = (IF ~x.inFlight THEN fail_with(x, ifFailed)
           ELSE IF n.nextId > MaxIds THEN fail_with(n, ifFailed)
           ELSE Outcome([n EXCEPT !.nextId = @ + 1,
                                  !.cursor = [at |-> where, req |-> n.nextId, asks |-> result.asks]],
                        notes, {[id |-> n.nextId, kind |-> kind]}))
  BY DEF pause_for
<1> HIDE DEF n, o
<1>7. [n EXCEPT !.nextId = @ + 1,
                !.cursor = [at |-> where, req |-> n.nextId, asks |-> result.asks]] = z
  BY <1>4, <1>5 DEF k, c, Machines
<1>8. z \in Machines(x.batch)
  BY <1>3, <1>4 DEF Machines
<1>9. /\ z.batch = x.batch /\ z.cleanup = x.cleanup /\ z.session = session
      /\ z.inFlight = x.inFlight /\ z.turn = x.turn /\ z.cursor = c
  BY <1>4, <1>5 DEF Machines
<1>10. n.nextId = x.nextId
  BY <1>5
<1> HIDE DEF z
<1>11. IsMachine(z) /\ IsMachine(n)
  BY <1>1, <1>4, <1>5, <1>8, <1>9 DEF IsMachine
<1>12. r \in Others
  BY <1>2 DEF Others
<1>13. ASSUME x.inFlight
       PROVE  MachineStep(x, Outcome(z, notes, {r}), session)
  <2>1. Coherent(z)
    BY <1>1, <1>3, <1>9, <1>11, <1>13 DEF Coherent, has_outstanding_requirement
  <2>2. r.kind # "ExternalSession"
    OBVIOUS
  <2> HIDE DEF r
  <2> QED BY <1>9, <1>12, <1>13, <2>1, <2>2 DEF MachineStep, Asks, Outcome
<1>14. MachineStep(x, fail_with(x, ifFailed), session)
  BY FailFits DEF Coherent
<1>15. MachineStep(x, fail_with(n, ifFailed), session)
  BY <1>5, <1>11, FailFits DEF MachineStep
<1> QED BY <1>6, <1>7, <1>10, <1>13, <1>14, <1>15 DEF o

LEMMA RespondFits ==
    ASSUME NEW x, IsMachine(x), x.inFlight, x.turn # 0, NEW b, IsBatch(b)
    PROVE  MachineStep(x, respond_with_tool_batch(x, b), x.session)
<1> DEFINE y == [x EXCEPT !.batch = NoBatch]
           results == [i \in DOMAIN b.calls |-> b.results[i]]
           input == [kind |-> "RespondToolResults", prompt |-> 0, asks |-> b.id, results |-> results]
<1>1. x \in Machines(x.batch)
  BY DEF IsMachine
<1>2. /\ y \in Machines(NoBatch) /\ y.batch = NoBatch /\ y.cleanup = x.cleanup /\ y.session = x.session
      /\ y.inFlight = x.inFlight /\ y.turn = x.turn
  BY <1>1 DEF Machines
<1>3. IsMachine(y)
  BY <1>2, NoBatchFits DEF IsMachine
<1>4. ASSUME DOMAIN b.results = DOMAIN b.calls
      PROVE  MachineStep(x, block_on_session(y, input), x.session)
  <2>1. b.calls \in Seq(CallKinds) /\ b.id \in Nat
    BY DEF IsBatch
  <2>2. DOMAIN b.calls = 1..Len(b.calls) /\ Len(b.calls) \in Nat
    BY <2>1
  <2>3. ASSUME NEW i \in DOMAIN b.calls PROVE b.results[i] \in Nat \X {"ok", "error"} /\ b.results[i][1] = i
    <3>1. b.results[i] \in {i} \X {"ok", "error"}
      BY <1>4 DEF IsBatch
    <3>2. i \in Nat
      BY <2>2
    <3> QED BY <3>1, <3>2
  <2>4. results \in Seq(Nat \X {"ok", "error"})
    BY <2>2, <2>3
  <2>5. \A i \in DOMAIN results : results[i][1] = i
    BY <2>3
  <2> HIDE DEF results
  <2>6. input \in Inputs /\ input.results = results
    BY <2>1, <2>4 DEF Inputs
  <2> HIDE DEF input, y
  <2>7. InOrder(input)
    BY <2>5, <2>6 DEF InOrder
  <2>8. MachineStep(y, block_on_session(y, input), y.session)
    BY <1>2, <1>3, <2>6, <2>7, BlockFits
  <2> QED BY <1>2, <2>8 DEF MachineStep
<1>5. MachineStep(x, fail(x), x.session)
  BY FailFits
<1> QED BY <1>4, <1>5 DEF respond_with_tool_batch

(* The ids a pause for tool calls gives out, one for each call it asks about. *)
LEMMA IdsOfCalls ==
    ASSUME NEW n \in Nat, NEW m0 \in Nat \ {0}, NEW S, S \subseteq 1..n
    PROVE  LET id(i) == m0 + Cardinality({j \in S : j < i})
           IN  /\ \A i \in S : id(i) \in Nat \ {0} /\ id(i) >= m0 /\ id(i) < m0 + Cardinality(S)
               /\ Cardinality(S) \in Nat
<1> DEFINE below(i) == {j \in S : j < i}
<1>1. IsFiniteSet(S) /\ Cardinality(S) \in Nat
  <2>1. 1 \in Int /\ n \in Int
    OBVIOUS
  <2>2. IsFiniteSet(1..n)
    BY <2>1, FS_Interval
  <2>3. IsFiniteSet(S)
    BY <2>2, FS_Subset
  <2> QED BY <2>3, FS_CardinalityType
<1>2. ASSUME NEW i \in S
      PROVE  /\ m0 + Cardinality(below(i)) \in Nat \ {0} /\ m0 + Cardinality(below(i)) >= m0
             /\ m0 + Cardinality(below(i)) < m0 + Cardinality(S)
  <2>1. below(i) \subseteq S /\ i \notin below(i) /\ i \in S
    OBVIOUS
  <2> HIDE DEF below
  <2>2. below(i) # S
    BY <2>1
  <2>3. Cardinality(below(i)) \in Nat /\ Cardinality(below(i)) < Cardinality(S)
    BY <1>1, <2>1, <2>2, FS_Subset, FS_CardinalityType
  <2> QED BY <1>1, <2>3
<1> QED BY <1>1, <1>2

LEMMA ToolCallsFit ==
    ASSUME NEW x, Coherent(x), NEW session \in Refs, x.cursor.at # "AwaitingTool",
           NEW result, result.session = session, result.asks \in Nat, result.calls \in Seq(CallKinds), NEW notes
    PROVE  MachineStep(x, pause_for_tool_calls(x, result, notes), session)
<1> DEFINE calls == result.calls
           asked0 == {i \in DOMAIN calls : calls[i] # "BadSpawn"}
           id(i) == x.nextId + Cardinality({j \in asked0 : j < i})
           next == x.nextId + Cardinality(asked0)
           pending == [r \in {id(i) : i \in asked0} |-> CHOOSE i \in asked0 : id(i) = r]
           results == [i \in DOMAIN calls \ asked0 |-> <<i, "error">>]
           b == [id |-> result.asks, calls |-> calls, pending |-> pending, results |-> results]
           c == [at |-> "AwaitingTool", req |-> 0, asks |-> result.asks]
           n == [x EXCEPT !.session = session]
           z == [n EXCEPT !.nextId = next, !.batch = b, !.cursor = c]
           reqs == {[id |-> r, kind |-> IF calls[b.pending[r]] = "Spawn" THEN "Subagent" ELSE "Tool"] :
                        r \in DOMAIN b.pending}
           o == pause_for_tool_calls(x, result, notes)
<1>1. x \in Machines(x.batch) /\ IsBatch(x.batch) /\ x.batch = NoBatch
  BY DEF Coherent, IsMachine
<1>2. x.nextId \in Nat \ {0}
  BY <1>1 DEF Machines
<1>3. n \in Machines(x.batch) /\ n.batch = x.batch /\ n.cleanup = x.cleanup /\ n.session = session
      /\ n.nextId = x.nextId /\ n.inFlight = x.inFlight /\ n.turn = x.turn
  <2>1. n \in Machines(x.batch)
    BY <1>1 DEF Machines
  <2> QED BY <1>1, <2>1 DEF Machines
<1>4. asked0 \subseteq 1..Len(calls) /\ Len(calls) \in Nat /\ DOMAIN calls = 1..Len(calls)
  OBVIOUS
<1>5. /\ \A i \in asked0 : id(i) \in Nat \ {0}
      /\ next \in Nat \ {0}
  <2> HIDE DEF asked0
  <2>1. /\ \A i \in asked0 : id(i) \in Nat \ {0}
        /\ Cardinality(asked0) \in Nat
    BY <1>2, <1>4, IdsOfCalls
  <2>2. next \in Nat \ {0}
    BY <1>2, <2>1
  <2> QED BY <2>1, <2>2
<1>6. IsBatch(b)
  <2>1. /\ DOMAIN pending = {id(i) : i \in asked0}
        /\ \A r \in DOMAIN pending : pending[r] \in asked0 /\ id(pending[r]) = r
    OBVIOUS
  <2>2. DOMAIN pending \subseteq Nat \ {0}
    BY <1>5, <2>1
  <2>3. DOMAIN results = DOMAIN calls \ asked0 /\ \A i \in DOMAIN results : results[i] \in {i} \X {"ok", "error"}
    OBVIOUS
  <2>4. asked0 \subseteq DOMAIN calls
    OBVIOUS
  <2>5. calls \in Seq(CallKinds)
    OBVIOUS
  <2> HIDE DEF pending, results, calls, id, asked0
  <2>6. b.pending = pending /\ b.results = results /\ b.calls = calls
        /\ b \in [id: Nat, calls: Seq(CallKinds), pending: {pending}, results: {results}]
    BY <2>5
  <2> QED BY <2>1, <2>2, <2>3, <2>4, <2>6 DEF IsBatch
<1>7. o = (IF ~n.inFlight \/ calls = << >> THEN fail_with(x, notes)
           ELSE IF asked0 # {} /\ (~n.toolIds \/ next > MaxIds + 1) THEN fail_with(n, notes)
           ELSE IF asked0 = {} THEN respond_with_tool_batch(n, b)
           ELSE Outcome(z, notes, reqs))
  <2> DEFINE p == [r \in {n.nextId + Cardinality({j \in asked0 : j < i}) : i \in asked0} |->
                      CHOOSE i \in asked0 : n.nextId + Cardinality({j \in asked0 : j < i}) = r]
             bb == [id |-> result.asks, calls |-> calls, pending |-> p, results |-> results]
  <2>1. n.nextId + Cardinality(asked0) = next
    BY <1>3
  <2>2. p = pending
    <3>1. n.nextId = x.nextId
      BY <1>3
    <3> HIDE DEF n, asked0
    <3> QED BY <3>1
  <2>3. [At("AwaitingTool") EXCEPT !.asks = bb.id] = c
    BY DEF At
  <2>4. n = [x EXCEPT !.session = result.session]
    OBVIOUS
  <2>5. o = (IF ~n.inFlight \/ calls = << >> THEN fail_with(x, notes)
             ELSE IF asked0 # {} /\ (~n.toolIds \/ n.nextId + Cardinality(asked0) > MaxIds + 1) THEN fail_with(n, notes)
             ELSE IF asked0 = {} THEN respond_with_tool_batch(n, bb)
             ELSE Outcome([n EXCEPT !.nextId = n.nextId + Cardinality(asked0), !.batch = bb,
                                    !.cursor = [At("AwaitingTool") EXCEPT !.asks = bb.id]],
                          notes,
                          {[id |-> r, kind |-> IF calls[bb.pending[r]] = "Spawn" THEN "Subagent" ELSE "Tool"] :
                             r \in DOMAIN bb.pending}))
    <3> HIDE DEF n
    <3> QED BY <2>4 DEF pause_for_tool_calls
  <2>6. bb = b
    BY <2>2
  <2> HIDE DEF n, p, bb, o, asked0, next, results, b, c, calls
  <2>7. o = (IF ~n.inFlight \/ calls = << >> THEN fail_with(x, notes)
             ELSE IF asked0 # {} /\ (~n.toolIds \/ next > MaxIds + 1) THEN fail_with(n, notes)
             ELSE IF asked0 = {} THEN respond_with_tool_batch(n, b)
             ELSE Outcome([n EXCEPT !.nextId = next, !.batch = b, !.cursor = c], notes, reqs))
    BY <2>1, <2>3, <2>5, <2>6
  <2> QED BY <2>7
<1>8. b # NoBatch \/ asked0 = {}
  <2>1. NoBatch.calls = << >> /\ DOMAIN << >> = {}
    BY DEF NoBatch
  <2> QED BY <2>1
<1>9. reqs \subseteq Others /\ \A r \in reqs : r.kind # "ExternalSession"
  <2>1. DOMAIN b.pending \subseteq Nat
    BY <1>6 DEF IsBatch
  <2> HIDE DEF b, calls
  <2> QED BY <2>1 DEF Others
<1>10. next \in Nat \ {0} /\ c \in Cursors /\ c.at = "AwaitingTool"
  BY <1>5 DEF Cursors
<1> HIDE DEF b, next, c, reqs, asked0, calls, o, n
<1>11. z \in Machines(b)
  BY <1>3, <1>10 DEF Machines
<1>12. /\ z.batch = b /\ z.cleanup = x.cleanup /\ z.session = session
       /\ z.inFlight = x.inFlight /\ z.turn = x.turn /\ z.cursor = c
  BY <1>3 DEF Machines
<1> HIDE DEF z
<1>13. IsMachine(z) /\ IsMachine(n)
  BY <1>1, <1>3, <1>6, <1>11, <1>12 DEF IsMachine
<1>14. ASSUME x.inFlight, asked0 # {}
       PROVE  MachineStep(x, Outcome(z, notes, reqs), session)
  <2>1. Coherent(z)
    BY <1>8, <1>10, <1>12, <1>13, <1>14 DEF Coherent, has_outstanding_requirement
  <2> QED BY <1>9, <1>12, <1>14, <2>1 DEF MachineStep, Asks, Outcome
<1>15. MachineStep(x, fail_with(x, notes), session)
  BY FailFits DEF Coherent
<1>16. MachineStep(x, fail_with(n, notes), session)
  <2>1. MachineStep(n, fail_with(n, notes), session)
    BY <1>13, FailFits
  <2> QED BY <1>3, <2>1 DEF MachineStep
<1>17. n.inFlight => MachineStep(x, respond_with_tool_batch(n, b), session)
  <2> HAVE n.inFlight
  <2>1. x.turn # 0
    BY <1>3 DEF Coherent
  <2>2. MachineStep(n, respond_with_tool_batch(n, b), n.session)
    BY <1>3, <1>6, <1>13, <2>1, RespondFits
  <2> QED BY <1>3, <2>2 DEF MachineStep
<1> QED BY <1>3, <1>7, <1>14, <1>15, <1>16, <1>17 DEF o

LEMMA CompleteFits ==
    ASSUME NEW x, Coherent(x), NEW result \in Results, result.kind = "Completed", NEW notes,
           x.cursor.at # "AwaitingTool"
    PROVE  MachineStep(x, complete_session(x, result, notes), result.session)
<1> DEFINE commit == [turn |-> x.turn, answer |-> result.answer]
           committed == Append(x.committed, commit)
           c == At("Done")
           y == [x EXCEPT !.inFlight = FALSE, !.session = result.session, !.turn = 0,
                          !.committed = committed, !.cursor = c]
<1>1. x \in Machines(x.batch) /\ IsBatch(x.batch) /\ x.batch = NoBatch
  BY DEF Coherent, IsMachine
<1>2. result.session \in Refs /\ result.answer \in Answers
  BY DEF Results, PauseKinds
<1>3. committed \in Seq(Commits)
  <2>1. x.turn \in Nat /\ x.committed \in Seq(Commits)
    BY <1>1 DEF Machines
  <2>2. commit \in Commits
    BY <1>2, <2>1 DEF Commits
  <2> HIDE DEF commit
  <2> QED BY <2>1, <2>2, AppendProperties
<1>4. c \in Cursors /\ c.at = "Done" /\ 0 \in Nat
  BY DEF At, Cursors
<1> HIDE DEF committed, c
<1>5. y \in Machines(x.batch)
  BY <1>1, <1>2, <1>3, <1>4 DEF Machines
<1>6. /\ y.batch = x.batch /\ y.cleanup = x.cleanup /\ y.session = result.session
      /\ y.inFlight = FALSE /\ y.turn = 0 /\ y.cursor = c
  BY <1>1 DEF Machines
<1> HIDE DEF y
<1>7. Coherent(y)
  BY <1>1, <1>4, <1>5, <1>6 DEF Coherent, IsMachine, has_outstanding_requirement
<1>8. MachineStep(x, Outcome(y, notes, {}), result.session)
  BY <1>6, <1>7 DEF MachineStep, Asks, Outcome
<1>9. MachineStep(x, fail(x), result.session)
  BY FailFits DEF Coherent
<1> QED BY <1>8, <1>9 DEF complete_session, y, c, committed

LEMMA FoldFits ==
    ASSUME NEW x, Coherent(x), NEW result \in Results, x.cursor.at # "AwaitingTool"
    PROVE  MachineStep(x, fold_session_result(x, result), result.session)
<1> DEFINE notes == observe(x, result.events)
<1> HIDE DEF notes
<1>1. result.session \in Refs /\ result.kind \in {"Failed", "Completed"} \cup PauseKinds
  BY DEF Results
<1>2. result.kind \in PauseKinds => result.asks \in Nat /\ result.calls \in Seq(CallKinds)
  BY DEF Results, PauseKinds
<1>3. CASE result.kind = "Completed"
  <2>1. MachineStep(x, complete_session(x, result, notes), result.session)
    BY <1>3, CompleteFits
  <2> QED BY <1>3, <2>1 DEF fold_session_result, notes
<1>4. CASE result.kind = "Interaction"
  <2>1. result.asks \in Nat
    BY <1>2, <1>4 DEF PauseKinds
  <2>2. MachineStep(x, pause_for(x, result, "Interaction", "AwaitingInteraction", notes, << >>), result.session)
    BY <1>1, <2>1, PauseFits
  <2> QED BY <1>4, <2>2 DEF fold_session_result, notes, pause_for_interaction
<1>5. CASE result.kind = "Subagent"
  <2>1. result.asks \in Nat
    BY <1>2, <1>5 DEF PauseKinds
  <2>2. MachineStep(x, pause_for(x, result, "Subagent", "AwaitingSubagent", notes, notes), result.session)
    BY <1>1, <2>1, PauseFits
  <2> QED BY <1>5, <2>2 DEF fold_session_result, notes, pause_for_subagent
<1>6. CASE result.kind = "ToolCalls"
  <2>1. result.asks \in Nat /\ result.calls \in Seq(CallKinds)
    BY <1>2, <1>6 DEF PauseKinds
  <2>2. MachineStep(x, pause_for_tool_calls(x, result, notes), result.session)
    BY <1>1, <2>1, ToolCallsFit
  <2> QED BY <1>6, <2>2 DEF fold_session_result, notes
<1>7. CASE result.kind = "Failed"
  <2> DEFINE n == [x EXCEPT !.session = result.session]
             y == IF result.session.id = 0 THEN x ELSE n
  <2>1. IsMachine(x)
    BY DEF Coherent
  <2>2. IsMachine(n) /\ n.cleanup = x.cleanup /\ n.session = result.session
    <3>1. x \in Machines(x.batch)
      BY <2>1 DEF IsMachine
    <3>2. n \in Machines(x.batch)
      BY <1>1, <3>1 DEF Machines
    <3>3. n.batch = x.batch /\ n.cleanup = x.cleanup /\ n.session = result.session
      BY <3>1 DEF Machines
    <3> HIDE DEF n
    <3> QED BY <2>1, <3>2, <3>3 DEF IsMachine
  <2> HIDE DEF n
  <2>3. MachineStep(n, fail_with(n, notes), result.session) /\ MachineStep(x, fail_with(x, notes), result.session)
    BY <2>1, <2>2, FailFits
  <2>4. MachineStep(x, fail_with(n, notes), result.session)
    BY <2>2, <2>3 DEF MachineStep
  <2>5. MachineStep(x, fail_with(y, notes), result.session)
    BY <2>3, <2>4
  <2> QED BY <1>7, <2>5 DEF fold_session_result, notes, n
<1> QED BY <1>1, <1>3, <1>4, <1>5, <1>6, <1>7 DEF PauseKinds

Resolutions ==
    [id: Nat, kind: {"ExternalSession"}, result: Results]
    \cup [id: Nat, kind: {"Interaction", "Tool", "Subagent"}, result: {"ok", "error"}]

(* The session a resolution names, if it brings one. *)
Bringing(x, resolution) ==
    IF resolution.kind = "ExternalSession" THEN resolution.result.session ELSE x.session

(* An answer for the session's question. *)
LEMMA AnswerFits ==
    ASSUME NEW x, Coherent(x), x.inFlight, x.cursor.at # "AwaitingTool",
           NEW kind \in {"RespondInteraction", "RespondSubagent"}, NEW session
    PROVE  MachineStep(x, block_on_session(x, [Input(kind, 0) EXCEPT !.asks = x.cursor.asks]), session)
<1> DEFINE input == [kind |-> kind, prompt |-> 0, asks |-> x.cursor.asks, results |-> << >>]
<1>1. x \in Machines(x.batch) /\ x.batch = NoBatch /\ x.turn # 0 /\ IsMachine(x)
  BY DEF Coherent, IsMachine
<1>2. x.cursor.asks \in Nat
  BY <1>1 DEF Machines, Cursors
<1>3. input \in Inputs /\ InOrder(input)
  <2>1. << >> \in Seq(Nat \X {"ok", "error"}) /\ 0 \in Nat /\ DOMAIN << >> = {}
    OBVIOUS
  <2> QED BY <1>2, <2>1 DEF Inputs, InOrder
<1>4. [Input(kind, 0) EXCEPT !.asks = x.cursor.asks] = input
  BY DEF Input
<1> HIDE DEF input
<1>5. MachineStep(x, block_on_session(x, input), x.session)
  BY <1>1, <1>3, BlockFits
<1> QED BY <1>4, <1>5 DEF MachineStep

LEMMA CollectFits ==
    ASSUME NEW x, Coherent(x), x.inFlight, NEW call \in DOMAIN x.batch.calls, call \notin DOMAIN x.batch.results,
           NEW status \in {"ok", "error"}, x.batch # NoBatch
    PROVE  LET b == x.batch
               collected == [b EXCEPT !.results = [i \in DOMAIN b.results \cup {call} |->
                                IF i = call THEN <<call, status>> ELSE b.results[i]]]
               y == [x EXCEPT !.batch = collected]
           IN  /\ IsBatch(collected) /\ Coherent(y)
               /\ y.cleanup = x.cleanup /\ y.session = x.session /\ y.inFlight
<1> DEFINE b == x.batch
           results == [i \in DOMAIN b.results \cup {call} |->
                          IF i = call THEN <<call, status>> ELSE b.results[i]]
           collected == [b EXCEPT !.results = results]
           y == [x EXCEPT !.batch = collected]
<1>1. x \in Machines(b) /\ IsBatch(b)
  BY DEF Coherent, IsMachine
<1>2. b \in [id: Nat, calls: Seq(CallKinds), pending: {b.pending}, results: {b.results}]
  BY <1>1 DEF IsBatch
<1>3. DOMAIN results \subseteq DOMAIN b.calls /\ \A i \in DOMAIN results : results[i] \in {i} \X {"ok", "error"}
  BY <1>1 DEF IsBatch
<1>4. call \in DOMAIN results
  OBVIOUS
<1> HIDE DEF results
<1>5. /\ collected.id = b.id /\ collected.calls = b.calls
      /\ collected.pending = b.pending /\ collected.results = results
      /\ collected \in [id: Nat, calls: Seq(CallKinds), pending: {b.pending}, results: {results}]
  <2> HIDE DEF b
  <2> QED BY <1>2
<1> HIDE DEF collected
<1>6. IsBatch(collected)
  BY <1>1, <1>3, <1>5 DEF IsBatch
<1>7. collected # NoBatch
  <2>1. NoBatch.results = << >> /\ DOMAIN << >> = {}
    BY DEF NoBatch
  <2> QED BY <1>4, <1>5, <2>1
<1>8. y \in Machines(collected) /\ y.batch = collected /\ y.cleanup = x.cleanup /\ y.session = x.session
      /\ y.inFlight = x.inFlight /\ y.turn = x.turn /\ y.cursor = x.cursor
  <2>1. y \in Machines(collected)
    BY <1>1 DEF Machines
  <2> QED BY <1>1, <2>1 DEF Machines
<1> HIDE DEF y, b
<1>9. Coherent(y)
  BY <1>6, <1>7, <1>8 DEF Coherent, IsMachine, has_outstanding_requirement
<1> QED BY <1>6, <1>8, <1>9 DEF y, collected, results, b

LEMMA ResumeToolFits ==
    ASSUME NEW x, Coherent(x), NEW resolution \in Resolutions
    PROVE  MachineStep(x, resume_tool(x, resolution), Bringing(x, resolution))
<1> DEFINE b == x.batch
           call == b.pending[resolution.id]
           session == Bringing(x, resolution)
           collected == [b EXCEPT !.results = [i \in DOMAIN b.results \cup {call} |->
                            IF i = call THEN <<call, resolution.result>> ELSE b.results[i]]]
           y == [x EXCEPT !.batch = collected]
           taken == /\ b # NoBatch /\ x.inFlight /\ resolution.id \in DOMAIN b.pending
                    /\ call \notin DOMAIN b.results
                    /\ resolution.kind = (IF b.calls[call] = "Spawn" THEN "Subagent" ELSE "Tool")
<1> HIDE DEF session
<1>1. MachineStep(x, fail(x), session)
  BY FailFits DEF Coherent
<1>2. \/ resume_tool(x, resolution) = fail(x)
      \/ taken /\ resume_tool(x, resolution) = Outcome(y, << >>, {})
      \/ taken /\ resume_tool(x, resolution) = respond_with_tool_batch(x, collected)
  BY DEF resume_tool
<1>3. ASSUME taken
      PROVE  /\ MachineStep(x, Outcome(y, << >>, {}), session)
             /\ MachineStep(x, respond_with_tool_batch(x, collected), session)
  <2>1. resolution.result \in {"ok", "error"}
    BY <1>3 DEF Resolutions
  <2>2. call \in DOMAIN b.calls
    <3>1. IsBatch(b)
      BY DEF Coherent, IsMachine
    <3> QED BY <1>3, <3>1 DEF IsBatch
  <2>3. /\ IsBatch(collected) /\ Coherent(y)
        /\ y.cleanup = x.cleanup /\ y.session = x.session /\ y.inFlight
    <3> DEFINE k == call
               status == resolution.result
    <3>1. k \in DOMAIN x.batch.calls /\ k \notin DOMAIN x.batch.results /\ x.batch # NoBatch
      BY <1>3, <2>2
    <3>2. status \in {"ok", "error"}
      BY <2>1
    <3> HIDE DEF k, status
    <3>3. LET bb == x.batch
              cc == [bb EXCEPT !.results = [i \in DOMAIN bb.results \cup {k} |->
                                IF i = k THEN <<k, status>> ELSE bb.results[i]]]
              yy == [x EXCEPT !.batch = cc]
          IN  /\ IsBatch(cc) /\ Coherent(yy)
              /\ yy.cleanup = x.cleanup /\ yy.session = x.session /\ yy.inFlight
      BY <1>3, <3>1, <3>2, CollectFits
    <3> QED BY <3>3 DEF k, status
  <2> HIDE DEF collected, y
  <2>4. MachineStep(x, Outcome(y, << >>, {}), session)
    BY <2>3 DEF MachineStep, Asks, Outcome
  <2>5. IsMachine(x) /\ x.turn # 0
    BY <1>3 DEF Coherent
  <2>6. MachineStep(x, respond_with_tool_batch(x, collected), x.session)
    BY <1>3, <2>3, <2>5, RespondFits
  <2> QED BY <2>4, <2>6 DEF MachineStep
<1> HIDE DEF taken, collected, y
<1> QED BY <1>1, <1>2, <1>3 DEF session

LEMMA ResumeFits ==
    ASSUME NEW x, Coherent(x), NEW resolution \in Resolutions
    PROVE  MachineStep(x, resume(x, resolution), Bringing(x, resolution))
<1> DEFINE session == Bringing(x, resolution)
<1>1. MachineStep(x, fail(x), session)
  BY FailFits DEF Coherent
<1>2. CASE x.cursor.at = "AwaitingSession"
  <2>1. CASE Addressed(x, resolution, "ExternalSession")
    <3>1. resolution.result \in Results /\ session = resolution.result.session
      BY <2>1 DEF Resolutions, Addressed, Bringing
    <3>2. MachineStep(x, fold_session_result(x, resolution.result), session)
      BY <1>2, <3>1, FoldFits
    <3> QED BY <1>2, <2>1, <3>2 DEF resume, resume_session
  <2>2. CASE ~Addressed(x, resolution, "ExternalSession")
    BY <1>1, <1>2, <2>2 DEF resume, resume_session
  <2> QED BY <2>1, <2>2
<1>3. CASE x.cursor.at = "AwaitingInteraction"
  <2> HIDE DEF session
  <2>1. x.inFlight => MachineStep(x, block_on_session(x, [Input("RespondInteraction", 0) EXCEPT !.asks = x.cursor.asks]), session)
    BY <1>3, AnswerFits
  <2> QED BY <1>1, <1>3, <2>1 DEF resume, resume_interaction, session
<1>4. CASE x.cursor.at = "AwaitingSubagent"
  <2> HIDE DEF session
  <2>1. x.inFlight => MachineStep(x, block_on_session(x, [Input("RespondSubagent", 0) EXCEPT !.asks = x.cursor.asks]), session)
    BY <1>4, AnswerFits
  <2> QED BY <1>1, <1>4, <2>1 DEF resume, resume_subagent, session
<1>5. CASE x.cursor.at = "AwaitingTool"
  BY <1>5, ResumeToolFits DEF resume
<1>6. CASE x.cursor.at \notin {"AwaitingSession", "AwaitingInteraction", "AwaitingSubagent", "AwaitingTool"}
  BY <1>1, <1>6 DEF resume
<1> QED BY <1>2, <1>3, <1>4, <1>5, <1>6

(* A turn ended from outside is owed a sweep. *)
LEMMA TakenFits ==
    ASSUME NEW x, Coherent(x), NEW where \in {"Idle", "Done"}
    PROVE  LET y == Settled(Owed(x), where)
           IN  /\ Coherent(y) /\ ~y.inFlight /\ y.session = x.session
               /\ y.cleanup = (x.cleanup \/ x.inFlight)
<1> DEFINE owed == x.cleanup \/ has_outstanding_requirement(x)
           y == [x EXCEPT !.cleanup = owed]
<1>1. x \in Machines(x.batch) /\ IsBatch(x.batch)
  BY DEF Coherent, IsMachine
<1>2. owed \in BOOLEAN
  OBVIOUS
<1>3. Owed(x) = y
  BY <1>1 DEF Owed, Machines
<1>4. owed = (x.cleanup \/ x.inFlight)
  BY <1>1 DEF Coherent, Machines
<1> HIDE DEF owed
<1>5. y \in Machines(x.batch) /\ y.batch = x.batch /\ y.session = x.session /\ y.cleanup = owed
  <2>1. y \in Machines(x.batch)
    BY <1>1, <1>2 DEF Machines
  <2> QED BY <1>1, <2>1 DEF Machines
<1> HIDE DEF y
<1>6. IsMachine(y)
  BY <1>1, <1>5 DEF IsMachine
<1>7. Coherent(Settled(y, where)) /\ ~Settled(y, where).inFlight
      /\ Settled(y, where).session = y.session /\ Settled(y, where).cleanup = y.cleanup
  BY <1>6, SettledFits
<1> QED BY <1>3, <1>4, <1>5, <1>7

LEMMA RecordFits ==
    ASSUME NEW x, Coherent(x), ~x.inFlight, NEW n \in Nat \ {0}
    PROVE  LET y == [from_record(x) EXCEPT !.nextId = n]
           IN  Coherent(y) /\ ~y.inFlight /\ y.session = x.session
<1> DEFINE y == [x EXCEPT !.inFlight = FALSE, !.batch = NoBatch, !.nextId = n]
<1>1. x \in Machines(x.batch) /\ IsBatch(x.batch)
  BY DEF Coherent, IsMachine
<1>2. y = [from_record(x) EXCEPT !.nextId = n]
  BY <1>1 DEF from_record, Machines
<1>3. y \in Machines(NoBatch)
  BY <1>1 DEF Machines
<1>4. y.batch = NoBatch /\ y.session = x.session /\ y.inFlight = FALSE /\ y.turn = x.turn /\ y.cursor = x.cursor
  BY <1>1 DEF Machines
<1> HIDE DEF y
<1>5. Coherent(y)
  BY <1>3, <1>4, NoBatchFits DEF Coherent, IsMachine, has_outstanding_requirement
<1> QED BY <1>2, <1>4, <1>5

-----------------------------------------------------------------------------
(***************************************************************************)
(* A session that starts, goes on or ends.                                 *)
(***************************************************************************)

(* What a session keeps for as long as it lives. *)
Keeps(t, s) == t \in Sessions /\ t.sid = s.sid /\ t.tree = s.tree /\ t.carried = s.carried

LEMMA NewSessionFits ==
    ASSUME NEW sid \in Nat, NEW seq \in Nat, NEW tree \in Nat
    PROVE  LET s == NewSession(sid, seq, tree)
           IN  /\ s \in Sessions /\ s.sid = sid /\ s.tree = tree /\ s.worst = "Graceful" /\ s.out = << >>
               /\ s.seq = seq /\ s.carried = << >>
<1> DEFINE s == NewSession(sid, seq, tree)
<1>1. << >> \in Seq(Events) /\ << >> \in Seq(Frames) /\ << >> \in Seq(Nat) /\ 0 \in Nat
  OBVIOUS
<1>2. NoDecision \in Decisions /\ "Graceful" \in Dispositions
  BY DEF Decisions, Dispositions
<1>3. s \in Sessions
  BY <1>1, <1>2 DEF NewSession, Sessions
<1> QED BY <1>3 DEF NewSession

LEMMA GivePromptFits ==
    ASSUME NEW s \in Sessions, NEW prompt \in Nat
    PROVE  LET t == GivePrompt(s, prompt)
           IN  Keeps(t, s) /\ t.worst = s.worst /\ t.out = s.out /\ t.seq = s.seq
<1> DEFINE busy == Append(s.busy, prompt)
           mixed == s.mixed \/ s.busy # << >> \/ s.out # << >>
           t == [s EXCEPT !.busy = busy, !.mixed = mixed]
<1>1. s.busy \in Seq(Nat)
  BY DEF Sessions
<1>2. busy \in Seq(Nat) /\ mixed \in BOOLEAN
  BY <1>1, AppendProperties
<1>3. GivePrompt(s, prompt) = t
  BY DEF GivePrompt, Sessions
<1> HIDE DEF busy, mixed
<1>4. t \in Sessions
  BY <1>2 DEF Sessions
<1>5. /\ t.sid = s.sid /\ t.tree = s.tree /\ t.worst = s.worst /\ t.out = s.out /\ t.seq = s.seq
      /\ t.carried = s.carried
  BY DEF Sessions
<1> QED BY <1>3, <1>4, <1>5 DEF Keeps

LEMMA StartFits ==
    ASSUME NEW flavor \in Flavors, NEW s \in Sessions, s.out = << >>, NEW input \in Inputs, NEW tools \in ToolSets
    PROVE  LET begun == start(flavor, s, input, tools)
           IN  /\ Keeps(begun.s, s) /\ begun.s.worst = s.worst /\ begun.s.out = << >> /\ begun.s.seq = s.seq
               /\ begun.ok \in BOOLEAN /\ begun.prelude \in BOOLEAN
<1> DEFINE given == GivePrompt(s, input.prompt)
           first == [given EXCEPT !.first = input.prompt]
           Fine(begun) == /\ Keeps(begun.s, s) /\ begun.s.worst = s.worst /\ begun.s.out = << >>
                          /\ begun.s.seq = s.seq
                          /\ begun.ok \in BOOLEAN /\ begun.prelude \in BOOLEAN
           Like(t) == Keeps(t, s) /\ t.worst = s.worst /\ t.out = << >> /\ t.seq = s.seq
<1>1. input.prompt \in Nat
  BY DEF Inputs
<1>2. Keeps(given, s) /\ given.worst = s.worst /\ given.out = s.out /\ given.seq = s.seq
  BY <1>1, GivePromptFits
<1> HIDE DEF given
<1>3. Like(first)
  <2>1. given \in Sessions
    BY <1>2 DEF Keeps
  <2>2. first \in Sessions
    BY <1>1, <2>1 DEF Sessions
  <2>3. first.sid = given.sid /\ first.tree = given.tree /\ first.worst = given.worst
        /\ first.out = given.out /\ first.seq = given.seq /\ first.carried = given.carried
    BY <2>1 DEF Sessions
  <2> HIDE DEF first
  <2> QED BY <1>2, <2>2, <2>3 DEF Keeps
<1>4. Like(s)
  BY DEF Keeps
<1> HIDE DEF first, Like
<1>5. \A ok, prelude \in BOOLEAN : Fine(Begun(ok, s, prelude)) /\ Fine(Begun(ok, first, prelude))
  BY <1>3, <1>4 DEF Like, Begun
<1>6. oneshot_begin(s, input.prompt) = first
  BY DEF oneshot_begin, given, first
<1>7. claude_begin(s, input) \in {s, first}
  BY DEF claude_begin, given, first
<1>8. (s.sid = 0) \in BOOLEAN /\ reject_unsupported_tools(tools) \in BOOLEAN /\ IsPrompt(input) \in BOOLEAN
  BY DEF reject_unsupported_tools, IsPrompt
<1> HIDE DEF Fine
<1>9. Fine(codex_start(s, input, tools)) /\ Fine(opencode_start(s, input, tools))
  <2> DEFINE ok == reject_unsupported_tools(tools) /\ IsPrompt(input)
  <2>1. ok \in BOOLEAN
    BY <1>8
  <2> HIDE DEF ok
  <2>2. Fine(Begun(ok, first, TRUE))
    BY <1>5, <2>1
  <2> QED BY <1>6, <2>2 DEF codex_start, opencode_start, ok
<1>10. Fine(claude_start(s, input, tools)) /\ Fine(scripted_start(s, input)) /\ Fine(acp_start(s, tools))
  <2> DEFINE ok == reject_unsupported_tools(tools)
             none == s.sid = 0
             t == claude_begin(s, input)
  <2>1. ok \in BOOLEAN /\ none \in BOOLEAN /\ t \in {s, first}
    BY <1>7, <1>8
  <2> HIDE DEF ok, none, t
  <2>2. Fine(Begun(ok, t, none)) /\ Fine(Begun(TRUE, t, none)) /\ Fine(Begun(ok, s, TRUE))
    BY <1>5, <2>1
  <2> QED BY <2>2 DEF claude_start, scripted_start, acp_start, ok, none, t
<1>11. Fine(start(flavor, s, input, tools))
  BY <1>9, <1>10 DEF start, Flavors
<1> QED BY <1>11 DEF Fine

(* How a session stands after it was told to go on. *)
Way(way, s, flavor) ==
    /\ Keeps(way.s, s) /\ way.s.out \in {s.out, << >>} /\ way.s.seq = s.seq
    /\ way.reads \in BOOLEAN /\ way.error \in {NoSession, session_ref(s)}
    /\ s.worst # "Graceful" => way.s.worst # "Graceful"
    /\ way.end # "Graceful" => flavor \in OneShot /\ way.s.worst # "Graceful"

LEMMA PlainWay ==
    ASSUME NEW s, NEW t, Keeps(t, s), t.out \in {s.out, << >>}, t.seq = s.seq, t.worst = s.worst, NEW flavor
    PROVE  Way(Reads(t), s, flavor) /\ Way(Fails(t, NoSession), s, flavor) /\ Way(Fails(t, session_ref(s)), s, flavor)
BY DEF Way, Reads, Fails, Unknown, NoSession

LEMMA WrittenWays ==
    ASSUME NEW s, NEW old, session_ref(old) = session_ref(s), NEW t, Keeps(t, s), t.out \in {s.out, << >>},
           t.seq = s.seq, t.worst = s.worst,
           NEW flavor
    PROVE  \A way \in Written(old, t) : Way(way, s, flavor)
<1>1. session_ref(t) = session_ref(s)
  BY DEF Keeps, session_ref
<1>2. Way(Reads(t), s, flavor) /\ Way(Fails(t, session_ref(t)), s, flavor)
  BY <1>1, PlainWay
<1> QED BY <1>2 DEF Written

LEMMA HeardFits ==
    ASSUME NEW s \in Sessions, NEW asks \in Nat
    PROVE  LET t == Heard(s, asks)
           IN  Keeps(t, s) /\ t.out = s.out /\ t.worst = s.worst /\ t.seq = s.seq
<1> DEFINE a == IF s.asks = asks THEN 0 ELSE s.asks
           t == [s EXCEPT !.asks = a]
<1>1. a \in Nat
  BY DEF Sessions
<1>2. Heard(s, asks) = t
  BY DEF Heard, Sessions
<1> HIDE DEF a
<1>3. t \in Sessions
  BY <1>1 DEF Sessions
<1>4. /\ t.sid = s.sid /\ t.tree = s.tree /\ t.out = s.out /\ t.worst = s.worst /\ t.seq = s.seq
      /\ t.carried = s.carried
  BY DEF Sessions
<1> QED BY <1>2, <1>3, <1>4 DEF Keeps

LEMMA MergeFits ==
    ASSUME NEW worst \in Dispositions, NEW end \in Dispositions
    PROVE  /\ merge(worst, end) \in Dispositions
           /\ merge(worst, end) = "Graceful" <=> worst = "Graceful" /\ end = "Graceful"
BY DEF merge, Dispositions

LEMMA OneshotWays ==
    ASSUME NEW flavor \in OneShot, NEW s \in Sessions, NEW input \in Inputs, NEW there \in BOOLEAN
    PROVE  \A way \in oneshot_advance(s, input, there) : Way(way, s, flavor)
<1> DEFINE closed(end) == [s EXCEPT !.worst = merge(@, end), !.run = FALSE]
           fails(end) == [Fails(closed(end), session_ref(s)) EXCEPT !.end = end]
           reads(end) == [Reads(Relaunch(closed(end), input.prompt)) EXCEPT !.end = end]
<1>1. ASSUME NEW end \in Endings
      PROVE  Way(fails(end), s, flavor) /\ Way(reads(end), s, flavor)
  <2> DEFINE w == merge(s.worst, end)
             t == [s EXCEPT !.worst = w, !.run = FALSE]
             busy == <<input.prompt>>
             mixed == s.mixed \/ s.busy # << >> \/ s.out # << >>
             u == [t EXCEPT !.run = TRUE, !.told = FALSE, !.out = << >>, !.busy = busy, !.asks = 0, !.mixed = mixed]
  <2>1. s.worst \in Dispositions /\ end \in Dispositions
    BY EndingsAssumption DEF Sessions
  <2>2. w \in Dispositions /\ (w = "Graceful" => s.worst = "Graceful" /\ end = "Graceful")
    BY <2>1, MergeFits
  <2>3. closed(end) = t
    BY DEF Sessions
  <2> HIDE DEF w
  <2>4. t \in Sessions
    BY <2>2 DEF Sessions
  <2>5. /\ t.sid = s.sid /\ t.tree = s.tree /\ t.out = s.out /\ t.worst = w /\ t.seq = s.seq
        /\ t.busy = s.busy /\ t.mixed = s.mixed /\ t.carried = s.carried
    BY DEF Sessions
  <2>6. Relaunch(t, input.prompt) = u
    BY <2>4, <2>5 DEF Relaunch, Sessions
  <2> HIDE DEF t
  <2>7. busy \in Seq(Nat) /\ mixed \in BOOLEAN /\ << >> \in Seq(Frames) /\ 0 \in Nat
    <3>1. input.prompt \in Nat
      BY DEF Inputs
    <3>2. s.mixed \in BOOLEAN
      BY DEF Sessions
    <3> QED BY <3>1, <3>2
  <2> HIDE DEF busy, mixed
  <2>8. u \in Sessions
    BY <2>4, <2>7 DEF Sessions
  <2>9. /\ u.sid = s.sid /\ u.tree = s.tree /\ u.out = << >> /\ u.worst = w /\ u.seq = s.seq
        /\ u.carried = s.carried
    BY <2>4, <2>5 DEF Sessions
  <2> HIDE DEF u
  <2> HIDE DEF closed
  <2>10. /\ fails(end).s = t /\ fails(end).reads = FALSE
         /\ fails(end).error = session_ref(s) /\ fails(end).end = end
    <3>1. fails(end) = [Fails(t, session_ref(s)) EXCEPT !.end = end]
      BY <2>3
    <3> QED BY <3>1 DEF Fails
  <2>11. /\ reads(end).s = u /\ reads(end).reads = TRUE
         /\ reads(end).error = NoSession /\ reads(end).end = end
    <3>1. reads(end) = [Reads(u) EXCEPT !.end = end]
      BY <2>3, <2>6
    <3> QED BY <3>1 DEF Reads, Unknown, NoSession
  <2>12. Keeps(t, s) /\ Keeps(u, s)
    BY <2>4, <2>5, <2>8, <2>9 DEF Keeps
  <2> HIDE DEF fails, reads
  <2>13. Way(fails(end), s, flavor)
    BY <2>2, <2>5, <2>10, <2>12 DEF Way
  <2>14. Way(reads(end), s, flavor)
    BY <2>2, <2>9, <2>11, <2>12 DEF Way
  <2> QED BY <2>13, <2>14
<1>2. Way(Fails(s, NoSession), s, flavor)
  BY PlainWay DEF Keeps
<1>3. ASSUME NEW way \in oneshot_advance(s, input, there) PROVE Way(way, s, flavor)
  <2>1. \/ way = Fails(s, Unknown)
        \/ \E end \in Endings : way = fails(end) \/ way = reads(end)
    BY <1>3 DEF oneshot_advance
  <2>2. Unknown = NoSession
    BY DEF Unknown, NoSession
  <2> HIDE DEF fails, reads
  <2> QED BY <1>1, <1>2, <2>1, <2>2
<1> QED BY <1>3

LEMMA AdvanceWays ==
    ASSUME NEW flavor \in Flavors, NEW s \in Sessions, NEW input \in Inputs, NEW there \in BOOLEAN
    PROVE  \A way \in advance(flavor, s, input, there) : Way(way, s, flavor)
<1> DEFINE given == GivePrompt(s, input.prompt)
           heard == Heard(s, input.asks)
           taken == [s EXCEPT !.perm = 0]
           spoken == Heard(taken, input.asks)
<1>1. input.prompt \in Nat /\ input.asks \in Nat
  BY DEF Inputs
<1>2. Keeps(given, s) /\ given.out = s.out /\ given.worst = s.worst /\ given.seq = s.seq
  BY <1>1, GivePromptFits
<1>3. Keeps(heard, s) /\ heard.out = s.out /\ heard.worst = s.worst /\ heard.seq = s.seq
  BY <1>1, HeardFits
<1>4. Keeps(taken, s) /\ taken.out = s.out /\ taken.worst = s.worst /\ taken.seq = s.seq /\ taken.run = s.run
  <2>1. taken \in Sessions
    BY DEF Sessions
  <2> QED BY <2>1 DEF Keeps, Sessions
<1> HIDE DEF taken
<1>5. Keeps(spoken, s) /\ spoken.out = s.out /\ spoken.worst = s.worst /\ spoken.seq = s.seq
  <2>1. taken \in Sessions
    BY <1>4 DEF Keeps
  <2>2. Keeps(spoken, taken) /\ spoken.out = taken.out /\ spoken.worst = taken.worst /\ spoken.seq = taken.seq
    BY <1>1, <2>1, HeardFits
  <2> QED BY <1>4, <2>2 DEF Keeps
<1> HIDE DEF given, heard, spoken
<1>6. session_ref(taken) = session_ref(s) /\ Unknown = NoSession /\ Keeps(s, s)
  BY <1>4 DEF session_ref, Keeps, Unknown, NoSession
<1>7. /\ \A way \in Written(s, given) : Way(way, s, flavor)
      /\ \A way \in Written(s, heard) : Way(way, s, flavor)
      /\ \A way \in Written(taken, spoken) : Way(way, s, flavor)
  <2>1. \A way \in Written(s, given) : Way(way, s, flavor)
    BY <1>2, WrittenWays
  <2>2. \A way \in Written(s, heard) : Way(way, s, flavor)
    BY <1>3, WrittenWays
  <2>3. \A way \in Written(taken, spoken) : Way(way, s, flavor)
    BY <1>5, <1>6, WrittenWays
  <2> QED BY <2>1, <2>2, <2>3
<1>8. Way(Fails(s, Unknown), s, flavor) /\ Way(Fails(taken, Unknown), s, flavor)
  BY <1>4, <1>6, PlainWay
<1>9. \A way \in Written(s, spoken) : Way(way, s, flavor)
  BY <1>5, WrittenWays
<1>10. CASE flavor \in OneShot
  <2>1. \A way \in oneshot_advance(s, input, there) : Way(way, s, flavor)
    BY <1>10, OneshotWays
  <2>2. advance(flavor, s, input, there) = oneshot_advance(s, input, there)
    BY <1>10 DEF advance, OneShot
  <2> QED BY <2>1, <2>2
<1>11. CASE flavor = "claude"
  BY <1>7, <1>8, <1>11 DEF advance, claude_advance, given, heard, OneShot
<1>12. CASE flavor = "acp"
  <2>1. \A way \in answer_permission(s, input.asks) : Way(way, s, flavor)
    BY <1>8, <1>9 DEF answer_permission, taken, spoken
  <2> QED BY <1>7, <1>8, <1>12, <2>1 DEF advance, acp_advance, given, OneShot
<1>13. CASE flavor = "scripted"
  BY <1>7, <1>13 DEF advance, scripted_advance, given, heard, OneShot
<1> QED BY <1>10, <1>11, <1>12, <1>13 DEF Flavors, OneShot

LEMMA ShutdownFits ==
    ASSUME NEW flavor \in Flavors, NEW s \in Sessions, NEW end \in Endings
    PROVE  LET closed == shutdown(flavor, s, end)
           IN  /\ Keeps(closed.s, s) /\ closed.s.worst = s.worst /\ closed.s.out = s.out /\ closed.s.seq = s.seq
               /\ closed.disposition \in Dispositions
               /\ end # "Graceful" \/ (flavor \in OneShot /\ s.worst # "Graceful") =>
                     closed.disposition # "Graceful"
<1> DEFINE t == [s EXCEPT !.run = FALSE]
           closed == shutdown(flavor, s, end)
<1>1. t \in Sessions
  BY DEF Sessions
<1>2. Keeps(t, s) /\ t.worst = s.worst /\ t.out = s.out /\ t.seq = s.seq
  BY <1>1 DEF Keeps, Sessions
<1>3. closed.s = t /\ closed.disposition = (IF flavor \in OneShot THEN merge(s.worst, end) ELSE end)
  BY DEF shutdown
<1>4. s.worst \in Dispositions /\ end \in Dispositions
  BY EndingsAssumption DEF Sessions
<1> HIDE DEF closed, t
<1>5. closed.disposition \in Dispositions
      /\ (end # "Graceful" \/ (flavor \in OneShot /\ s.worst # "Graceful") => closed.disposition # "Graceful")
  BY <1>3, <1>4, MergeFits
<1> QED BY <1>2, <1>3, <1>5 DEF closed

LEMMA FinishFits ==
    ASSUME NEW s \in Sessions, NEW decision \in Decisions, decision # NoDecision, NEW events \in Seq(Events)
    PROVE  finish(s, decision, events) \in Results /\ finish(s, decision, events).session \in {NoSession, session_ref(s)}
<1> DEFINE ref == session_ref(s)
<1>1. ref \in Refs /\ Unknown = NoSession /\ NoSession \in Refs /\ << >> \in Seq(Events)
  BY DEF session_ref, Sessions, Refs, Unknown, NoSession
<1> HIDE DEF ref
<1>2. CASE decision = Broken
  <2>1. finish(s, decision, events) = [kind |-> "Failed", session |-> NoSession, events |-> << >>]
    BY <1>1, <1>2 DEF finish, Failed, Broken
  <2> QED BY <1>1, <2>1 DEF Results
<1>3. CASE decision \in Completing
  <2> DEFINE answer == [of |-> decision.of, sure |-> ~s.mixed, tokens |-> 0]
  <2>1. decision.kind = "Completed" /\ answer \in Answers
    BY <1>3 DEF Completing, Sessions, Answers
  <2>2. finish(s, decision, events) =
           [kind |-> "Completed", session |-> ref, events |-> events, answer |-> answer]
    BY <2>1 DEF finish, ref
  <2> HIDE DEF answer
  <2> QED BY <1>1, <2>1, <2>2 DEF Results, ref
<1>4. CASE decision \in Pausing
  <2>1. decision.kind \in PauseKinds /\ decision.asks \in Nat /\ decision.calls \in Seq(CallKinds)
    BY <1>4 DEF Pausing
  <2>2. finish(s, decision, events) =
           [kind |-> decision.kind, session |-> ref, events |-> events,
            asks |-> decision.asks, calls |-> decision.calls]
    BY <2>1 DEF finish, ref, PauseKinds
  <2>3. finish(s, decision, events) \in Results
    BY <1>1, <2>1, <2>2 DEF Results
  <2> QED BY <2>2, <2>3 DEF ref
<1> QED BY <1>2, <1>3, <1>4 DEF Decisions

-----------------------------------------------------------------------------
(***************************************************************************)
(* What the driver does to the machine.                                    *)
(***************************************************************************)
USE ConfigsAssumption, BoundsAssumption, ToolsAssumption, EndingsAssumption DEF Handles

(* The machine took an input; it may have asked for more. *)
Took(session) ==
    /\ Coherent(m') /\ m'.cleanup = m.cleanup
    /\ m'.session \in {m.session, session}
    /\ asked' \subseteq Requests \cup Others
    /\ asked' # {} => m'.inFlight
    /\ \A r \in asked' : r.kind = "ExternalSession" =>
          r \in asked \/ (r.session = m'.session /\ InOrder(r.input))

(* Its turn was taken from it. *)
Lost ==
    /\ Coherent(m') /\ ~m'.inFlight /\ m'.session = m.session /\ asked' = {}
    /\ m'.cleanup = (m.cleanup \/ m.inFlight)

LEMMA FeedTakes ==
    ASSUME Machinery, NEW resolution \in Resolutions, NEW rest, rest \subseteq asked, Feed(resolution, rest)
    PROVE  Took(Bringing(m, resolution))
<1> DEFINE o == resume(m, resolution)
           session == Bringing(m, resolution)
<1>1. MachineStep(m, o, session)
  BY ResumeFits DEF Machinery
<1>2. m' = o.m /\ asked' = IF o.m.inFlight THEN rest \cup o.reqs ELSE {}
  BY DEF Feed, Stepped
<1> HIDE DEF o, session
<1>3. Took(session)
  BY <1>1, <1>2 DEF MachineStep, Asks, Took, Machinery
<1> QED BY <1>3 DEF session

LEMMA UserMessageTakes ==
    ASSUME Machinery, Accounts, UserMessage
    PROVE  Took(m.session)
<1>1. ~m.inFlight /\ asked = {} /\ Coherent(m)
  BY DEF UserMessage, Machinery
<1>2. ledger.prompts + 1 \in Nat \ {0}
  BY DEF Accounts
<1>3. PICK pivot \in BOOLEAN :
         Stepped(step(m, [pivot |-> pivot, prompt |-> ledger.prompts + 1]))
         /\ asked' = step(m, [pivot |-> pivot, prompt |-> ledger.prompts + 1]).reqs
  BY DEF UserMessage
<1> DEFINE prompt == ledger.prompts + 1
           o == step(m, [pivot |-> pivot, prompt |-> prompt])
<1>4. prompt \in Nat \ {0}
  BY <1>2
<1>5. m' = o.m /\ asked' = o.reqs
  BY <1>3 DEF Stepped
<1> HIDE DEF prompt
<1>6. MachineStep(m, o, m.session)
  BY <1>1, <1>4, StepFits
<1> HIDE DEF o
<1> QED BY <1>5, <1>6 DEF MachineStep, Asks, Took

LEMMA TakenAway ==
    ASSUME Machinery, Abandon \/ BudgetStops
    PROVE  Lost
<1>1. m' = Settled(Owed(m), "Idle") \/ m' = Settled(Owed(m), "Done")
  BY DEF Abandon, BudgetStops, Stepped, abandon, interrupt_budget_exhausted, Outcome
<1>2. asked' = {}
  BY DEF Abandon, BudgetStops
<1> QED BY <1>1, <1>2, TakenFits DEF Lost, Machinery

(* The answer delivered, or one of somebody else. *)
LEMMA DriverTakes ==
    ASSUME Types
    PROVE  /\ Deliver => Took(op.got.session)
           /\ Resolve => Took(m.session)
           /\ LateAnswer => Took(m.session)
<1>1. ASSUME Deliver PROVE Took(op.got.session)
  <2> DEFINE resolution == [id |-> op.req.id, kind |-> "ExternalSession", result |-> op.got]
  <2>1. op.pc = "done" /\ op.got \in Results
    BY <1>1 DEF Deliver, Types, Operation
  <2>2. IsOperation(op)
    BY <2>1 DEF Types, Operation, NoOp
  <2>3. op.req \in Requests
    BY <2>2 DEF IsOperation
  <2>4. op.req.id \in Nat
    BY <2>3 DEF Requests
  <2>5. resolution \in Resolutions /\ resolution.kind = "ExternalSession" /\ resolution.result = op.got
    BY <2>1, <2>4 DEF Resolutions
  <2>6. Feed(resolution, asked)
    BY <1>1 DEF Deliver
  <2> HIDE DEF resolution
  <2>7. Took(Bringing(m, resolution))
    BY <2>5, <2>6, FeedTakes DEF Types
  <2> QED BY <2>5, <2>7 DEF Bringing
<1>2. ASSUME NEW id \in Nat, NEW kind \in {"Interaction", "Tool", "Subagent"}, NEW result \in {"ok", "error"},
             NEW rest, rest \subseteq asked, Feed([id |-> id, kind |-> kind, result |-> result], rest)
      PROVE  Took(m.session)
  <2> DEFINE resolution == [id |-> id, kind |-> kind, result |-> result]
  <2>1. resolution \in Resolutions /\ resolution.kind # "ExternalSession"
    BY DEF Resolutions
  <2>2. Feed(resolution, rest)
    BY <1>2
  <2> HIDE DEF resolution
  <2>3. Took(Bringing(m, resolution))
    BY <2>1, <2>2, <1>2, FeedTakes DEF Types
  <2> QED BY <2>1, <2>3 DEF Bringing
<1>3. ASSUME Resolve PROVE Took(m.session)
  <2>1. PICK req \in asked, result \in {"ok", "error"} :
           /\ req.kind # "ExternalSession"
           /\ Feed([id |-> req.id, kind |-> req.kind, result |-> result], asked \ {req})
    BY <1>3 DEF Resolve
  <2>2. req.id \in Nat /\ req.kind \in {"Interaction", "Tool", "Subagent"}
    <3>1. req \in Others
      BY <2>1 DEF Types, Machinery, Requests
    <3> QED BY <3>1 DEF Others
  <2>3. asked \ {req} \subseteq asked
    OBVIOUS
  <2> QED BY <1>2, <2>1, <2>2, <2>3
<1>4. ASSUME LateAnswer PROVE Took(m.session)
  <2>1. PICK id \in 1..(m.nextId - 1), kind \in {"Interaction", "Tool", "Subagent"} :
           Feed([id |-> id, kind |-> kind, result |-> "ok"], asked)
    BY <1>4 DEF LateAnswer
  <2>2. id \in Nat
    <3>1. m.nextId \in Nat
      BY DEF Types, Machinery, Coherent, IsMachine, Machines
    <3> QED BY <3>1
  <2>3. asked \subseteq asked /\ "ok" \in {"ok", "error"}
    OBVIOUS
  <2> QED BY <1>2, <2>1, <2>2, <2>3
<1> QED BY <1>1, <1>3, <1>4

(* Whatever happens, the machine is as it was, has taken an input, has lost its turn, *)
(* was reconfigured, or is that of a new process.                                     *)
Left == UNCHANGED m /\ asked' \subseteq asked

Retooled == Coherent(m') /\ m'.cleanup = m.cleanup /\ m'.session = m.session
            /\ m'.inFlight = m.inFlight /\ asked' = asked

Restored == Coherent(m') /\ ~m'.inFlight /\ m'.session = saved.session /\ asked' = {}

LEMMA HostLeaves ==
    ASSUME Types
    PROVE  /\ Reconfigure => Retooled
           /\ Restart => Restored
           /\ HostClears => Coherent(m') /\ m'.session = m.session /\ m'.inFlight = m.inFlight /\ asked' = asked
<1>1. ASSUME Reconfigure PROVE Retooled
  <2>1. PICK tools \in ToolSets, hot \in BOOLEAN : m' = reconfigure(m, tools, hot)
    BY <1>1 DEF Reconfigure
  <2>2. asked' = asked
    BY <1>1 DEF Reconfigure
  <2> QED BY <2>1, <2>2, ReconfigureFits DEF Retooled, Types, Machinery
<1>2. ASSUME Restart PROVE Restored
  <2>1. m.nextId \in Nat \ {0}
    BY DEF Types, Machinery, Coherent, IsMachine, Machines
  <2>2. m' = [from_record(saved) EXCEPT !.nextId = m.nextId] /\ asked' = {}
    BY <1>2 DEF Restart
  <2> QED BY <2>1, <2>2, RecordFits DEF Restored, Types, Machinery
<1>3. ASSUME HostClears
      PROVE  Coherent(m') /\ m'.session = m.session /\ m'.inFlight = m.inFlight /\ asked' = asked
  <2>1. m' = [m EXCEPT !.cleanup = FALSE] /\ asked' = asked
    BY <1>3 DEF HostClears
  <2>2. m \in Machines(m.batch) /\ IsBatch(m.batch) /\ Coherent(m)
    BY DEF Types, Machinery, Coherent, IsMachine
  <2>3. m' \in Machines(m.batch)
    BY <2>1, <2>2 DEF Machines
  <2>4. m'.batch = m.batch /\ m'.session = m.session /\ m'.inFlight = m.inFlight /\ m'.turn = m.turn
        /\ m'.cursor = m.cursor
    BY <2>1, <2>2 DEF Machines
  <2>5. Coherent(m')
    BY <2>2, <2>3, <2>4 DEF Coherent, IsMachine, has_outstanding_requirement
  <2> QED BY <2>1, <2>4, <2>5
<1> QED BY <1>1, <1>2, <1>3

-----------------------------------------------------------------------------
(***************************************************************************)
(* What happens to the sessions.                                           *)
(***************************************************************************)

(* What may become of a session: it gets a name once, keeps its tree, and does not *)
(* forget that a process of it came to a bad end.                                  *)
Succ(t, s, h) ==
    /\ t \in Sessions /\ t.tree = s.tree /\ Fit(t, h)
    /\ t.sid = s.sid \/ (s.sid = 0 /\ t.sid = h)
    /\ s.worst # "Graceful" => t.worst # "Graceful"

Grown ==
    /\ sessions' \in Seq(Sessions) /\ config' = config
    /\ \A h \in Handles : h \in DOMAIN sessions' /\ Succ(sessions'[h], sessions[h], h)
    /\ \A h \in DOMAIN sessions' : Fit(sessions'[h], h)

LEMMA Stays ==
    ASSUME NEW s \in Sessions, NEW h, Fit(s, h)
    PROVE  Succ(s, s, h) /\ Succ([s EXCEPT !.run = FALSE], s, h)
<1> DEFINE t == [s EXCEPT !.run = FALSE]
<1>1. t \in Sessions
  BY DEF Sessions
<1>2. t.tree = s.tree /\ t.out = s.out /\ t.sid = s.sid /\ t.worst = s.worst
  BY DEF Sessions
<1> HIDE DEF t
<1>3. Fit(t, h)
  BY <1>2 DEF Fit
<1>4. Succ(t, s, h)
  BY <1>1, <1>2, <1>3 DEF Succ
<1> QED BY <1>4 DEF Succ, t

LEMMA RunOff ==
    ASSUME NEW s, NEW h, NEW t, Succ(t, s, h)
    PROVE  Succ([t EXCEPT !.run = FALSE], s, h)
<1> DEFINE u == [t EXCEPT !.run = FALSE]
<1>1. Succ(u, t, h)
  BY Stays DEF Succ
<1> HIDE DEF u
<1>2. Succ(u, s, h)
  BY <1>1 DEF Succ
<1> QED BY <1>2 DEF u

LEMMA NobodyChanges ==
    ASSUME Stock, FramesFit, UNCHANGED <<config, sessions>>
    PROVE  Grown
<1>1. \A h \in Handles : sessions[h] \in Sessions
  BY DEF Stock
<1> QED BY <1>1, Stays DEF Grown, Stock, FramesFit, Fit

LEMMA OneChanges ==
    ASSUME Stock, FramesFit, NEW h \in Handles, NEW t, Succ(t, sessions[h], h),
           sessions' = [sessions EXCEPT ![h] = t], config' = config
    PROVE  Grown /\ DOMAIN sessions' = Handles
<1>1. \A k \in Handles : sessions[k] \in Sessions
  BY DEF Stock
<1>2. t \in Sessions /\ Fit(t, h)
  BY DEF Succ
<1>3. sessions \in Seq(Sessions)
  BY DEF Stock
<1>4. sessions' \in Seq(Sessions) /\ DOMAIN sessions' = Handles
  BY <1>2, <1>3
<1>5. \A k \in Handles : sessions'[k] = IF k = h THEN t ELSE sessions[k]
  BY <1>3
<1>6. \A k \in Handles : Succ(sessions'[k], sessions[k], k)
  BY <1>1, <1>5, Stays DEF FramesFit
<1> QED BY <1>4, <1>6 DEF Grown, Succ

(* Some processes end. *)
LEMMA SomeEnd ==
    ASSUME Stock, FramesFit, NEW S, config' = config,
           sessions' = [h \in Handles |-> IF h \in S THEN [sessions[h] EXCEPT !.run = FALSE] ELSE sessions[h]]
    PROVE  Grown /\ DOMAIN sessions' = Handles
<1>1. \A k \in Handles : sessions[k] \in Sessions /\ Fit(sessions[k], k)
  BY DEF Stock, FramesFit
<1>2. \A k \in Handles : Succ(sessions'[k], sessions[k], k)
  <2> TAKE k \in Handles
  <2> DEFINE s == sessions[k]
  <2>1. s \in Sessions /\ Fit(s, k)
    BY <1>1
  <2>2. sessions'[k] = s \/ sessions'[k] = [s EXCEPT !.run = FALSE]
    OBVIOUS
  <2> HIDE DEF s
  <2>3. Succ(sessions'[k], s, k)
    BY <2>1, <2>2, Stays
  <2> QED BY <2>3 DEF s
<1>3. Handles = 1..Len(sessions) /\ Len(sessions) \in Nat
  BY DEF Stock
<1>4. DOMAIN sessions' = Handles /\ \A k \in Handles : sessions'[k] \in Sessions
  BY <1>2 DEF Succ
<1>5. sessions' = [k \in 1..Len(sessions) |-> sessions'[k]]
  BY <1>3
<1>6. sessions' \in Seq(Sessions)
  BY <1>3, <1>4, <1>5
<1> QED BY <1>2, <1>4, <1>6 DEF Grown, Succ

(* A line of the session has been read. *)
Rest(h) == [sessions[h] EXCEPT !.out = Tail(@)]

LEMMA DecodedFits ==
    ASSUME Stock, FramesFit, Accounts, NEW h \in Handles, sessions[h].out # << >>
    PROVE  /\ Decoding(Decoded(h), Rest(h), Frame(h), config.flavor)
           /\ Succ(Decoded(h).s, sessions[h], h)
           /\ Frame(h) \in Frames /\ Rest(h) \in Sessions
<1> DEFINE s == sessions[h]
           f == Frame(h)
           u == [s EXCEPT !.out = Tail(@)]
           d == push_line(config.flavor, u, f)
<1>1. s \in Sessions /\ Fit(s, h) /\ s.out # << >>
  BY DEF Stock, FramesFit
<1>2. s.out \in Seq(Frames)
  BY <1>1 DEF Sessions
<1>3. /\ Tail(s.out) \in Seq(Frames) /\ Head(s.out) \in Frames
      /\ Head(s.out) = s.out[1] /\ 1 \in DOMAIN s.out
      /\ \A i \in DOMAIN Tail(s.out) : i + 1 \in DOMAIN s.out /\ Tail(s.out)[i] = s.out[i + 1]
  BY <1>1, <1>2
<1>4. f \in Frames /\ f.kind \in FrameKinds(config.flavor) /\ f.sid = h
  BY <1>1, <1>3 DEF Frame, Fit
<1>5. config.flavor \in Flavors
  BY DEF Accounts, SetUp
<1> HIDE DEF s, f
<1>6. u \in Sessions
  BY <1>1, <1>3 DEF Sessions
<1>7. u.tree = s.tree /\ u.sid = s.sid /\ u.worst = s.worst /\ u.out = Tail(s.out)
  BY <1>1 DEF Sessions
<1> HIDE DEF u
<1>8. Decoding(d, u, f, config.flavor)
  BY <1>4, <1>5, <1>6, PushLine
<1>9. Reader(d.s, u) /\ Heeds(d.s, u, f, config.flavor)
  BY <1>8 DEF Decoding
<1> HIDE DEF d
<1>10. Succ(d.s, s, h)
  <2>1. d.s \in Sessions /\ d.s.tree = s.tree /\ d.s.worst = s.worst /\ d.s.out = Tail(s.out)
    BY <1>7, <1>9 DEF Reader
  <2>2. d.s.sid = s.sid \/ (s.sid = 0 /\ d.s.sid = h)
    BY <1>4, <1>7, <1>9 DEF Heeds
  <2>3. Fit(d.s, h)
    BY <1>1, <1>3, <2>1 DEF Fit
  <2> QED BY <2>1, <2>2, <2>3 DEF Succ
<1>11. Decoded(h) = d /\ Rest(h) = u
  BY DEF Decoded, d, u, f, Rest, s
<1> QED BY <1>4, <1>6, <1>8, <1>10, <1>11 DEF s, f

LEMMA OneAdded ==
    ASSUME Stock, FramesFit, NEW t \in Sessions, t.out = << >>, sessions' = Append(sessions, t), config' = config
    PROVE  /\ Grown /\ Len(sessions') = Len(sessions) + 1
           /\ DOMAIN sessions' = Handles \cup {Len(sessions')} /\ Len(sessions') \notin Handles
           /\ sessions'[Len(sessions')] = t /\ \A h \in Handles : sessions'[h] = sessions[h]
<1>1. sessions \in Seq(Sessions) /\ \A h \in Handles : sessions[h] \in Sessions
  BY DEF Stock
<1>2. sessions' \in Seq(Sessions) /\ Len(sessions') = Len(sessions) + 1
  BY <1>1
<1>3. Handles = 1..Len(sessions) /\ DOMAIN sessions' = 1..Len(sessions') /\ Len(sessions) \in Nat
  BY <1>1, <1>2
<1>4. DOMAIN sessions' = Handles \cup {Len(sessions')} /\ Len(sessions') \notin Handles
  BY <1>2, <1>3
<1>5. sessions'[Len(sessions')] = t /\ \A h \in Handles : sessions'[h] = sessions[h]
  BY <1>1, <1>2, <1>3
<1>6. Fit(t, Len(sessions'))
  BY DEF Fit
<1>7. \A h \in Handles : Succ(sessions'[h], sessions[h], h)
  BY <1>1, <1>5, Stays DEF FramesFit
<1>8. \A h \in DOMAIN sessions' : Fit(sessions'[h], h)
  BY <1>4, <1>5, <1>6, <1>7 DEF Succ
<1> QED BY <1>2, <1>4, <1>5, <1>7, <1>8 DEF Grown

(* The future that stands at a point past the first one has a session and a request. *)
LEMMA OpFits ==
    ASSUME Operation, op # NoOp
    PROVE  /\ IsOperation(op) /\ op.pc \in Points /\ op.tree \in Nat /\ op.h \in Nat
           /\ op.req \in Requests
           /\ op.req.session \in Refs /\ op.req.session.id \in Nat /\ op.req.session.seq \in Nat
           /\ op.req.input \in Inputs /\ op.req.tools \in ToolSets /\ op.req.id \in Nat
<1>1. IsOperation(op)
  BY DEF Operation
<1>2. op.pc \in Points /\ op.tree \in Nat /\ op.h \in Nat /\ op.req \in Requests
  BY <1>1 DEF IsOperation
<1>3. op.req.session \in Refs /\ op.req.input \in Inputs /\ op.req.tools \in ToolSets /\ op.req.id \in Nat
  BY <1>2 DEF Requests
<1> QED BY <1>1, <1>2, <1>3 DEF Refs

Launched == start(config.flavor, NewSession(op.req.session.id, op.req.session.seq, op.tree),
                  op.req.input, op.req.tools)

LEMMA BegunFits ==
    ASSUME NEW flavor \in Flavors, NEW sid \in Nat, NEW seq \in Nat, NEW tree \in Nat,
           NEW input \in Inputs, NEW tools \in ToolSets
    PROVE  LET begun == start(flavor, NewSession(sid, seq, tree), input, tools)
           IN  /\ begun.s \in Sessions /\ begun.s.sid = sid /\ begun.s.tree = tree
               /\ begun.s.worst = "Graceful" /\ begun.s.out = << >> /\ begun.s.seq = seq /\ begun.s.carried = << >>
               /\ begun.ok \in BOOLEAN /\ begun.prelude \in BOOLEAN
<1> DEFINE n == NewSession(sid, seq, tree)
<1>1. /\ n \in Sessions /\ n.sid = sid /\ n.tree = tree /\ n.worst = "Graceful" /\ n.out = << >>
      /\ n.seq = seq /\ n.carried = << >>
  <2>0. n \in Sessions
    BY NewSessionFits
  <2>1. n.sid = sid
    BY NewSessionFits
  <2>2. n.tree = tree
    BY NewSessionFits
  <2>3. n.worst = "Graceful"
    BY NewSessionFits
  <2>4. n.out = << >>
    BY NewSessionFits
  <2>5. n.seq = seq
    BY NewSessionFits
  <2>6. n.carried = << >>
    BY NewSessionFits
  <2> QED BY <2>0, <2>1, <2>2, <2>3, <2>4, <2>5, <2>6
<1> HIDE DEF n
<1>2. LET begun == start(flavor, n, input, tools)
      IN  /\ Keeps(begun.s, n) /\ begun.s.worst = n.worst /\ begun.s.out = << >> /\ begun.s.seq = n.seq
          /\ begun.ok \in BOOLEAN /\ begun.prelude \in BOOLEAN
  BY <1>1, StartFits
<1> QED BY <1>1, <1>2 DEF Keeps, n

LEMMA LaunchFits ==
    ASSUME Types, op.pc = "launch"
    PROVE  /\ Launched.s \in Sessions /\ Launched.s.sid = op.req.session.id /\ Launched.s.tree = op.tree
           /\ Launched.s.worst = "Graceful" /\ Launched.s.out = << >> /\ Launched.s.seq = op.req.session.seq
           /\ Launched.s.carried = << >>
           /\ Launched.ok \in BOOLEAN /\ Launched.prelude \in BOOLEAN
<1> DEFINE a == op.req.session.id
           q == op.req.session.seq
           r == op.tree
           input == op.req.input
           tools == op.req.tools
           flavor == config.flavor
<1>1. op # NoOp
  BY DEF NoOp
<1>2. a \in Nat /\ q \in Nat /\ r \in Nat /\ input \in Inputs /\ tools \in ToolSets
  BY <1>1, OpFits DEF Types
<1>3. flavor \in Flavors
  BY DEF Types, Accounts, SetUp
<1> HIDE DEF a, q, r, input, tools, flavor
<1>4. LET begun == start(flavor, NewSession(a, q, r), input, tools)
      IN  /\ begun.s \in Sessions /\ begun.s.sid = a /\ begun.s.tree = r
          /\ begun.s.worst = "Graceful" /\ begun.s.out = << >> /\ begun.s.seq = q /\ begun.s.carried = << >>
          /\ begun.ok \in BOOLEAN /\ begun.prelude \in BOOLEAN
  BY <1>2, <1>3, BegunFits
<1> QED BY <1>4 DEF a, q, r, input, tools, flavor, Launched

(* The ways of Advance. *)
Readied(h) ==
    [sessions[h] EXCEPT !.carried = << >>, !.first = 0, !.decision = NoDecision,
                        !.mixed = @ \/ sessions[h].first \notin {0, op.req.input.prompt}]
Ways(h) ==
    IF sessions[h].first # 0 THEN {Reads(Readied(h))}
    ELSE advance(config.flavor, Readied(h), op.req.input, TreeThere(Readied(h)))

LEMMA ReadiedFits ==
    ASSUME Types, FramesFit, op.pc = "advance"
    PROVE  /\ op.h \in Handles /\ Readied(op.h) \in Sessions
           /\ Readied(op.h).tree = sessions[op.h].tree /\ Readied(op.h).sid = sessions[op.h].sid
           /\ Readied(op.h).worst = sessions[op.h].worst /\ Readied(op.h).out = sessions[op.h].out
           /\ Readied(op.h).seq = sessions[op.h].seq /\ Readied(op.h).carried = << >>
           /\ Succ(Readied(op.h), sessions[op.h], op.h)
           /\ \A way \in Ways(op.h) : /\ Way(way, Readied(op.h), config.flavor)
                                      /\ Succ(way.s, sessions[op.h], op.h)
<1> DEFINE h == op.h
           s == sessions[h]
           u == Readied(h)
<1>1. h \in Handles /\ s \in Sessions /\ Fit(s, h)
  BY DEF Types, Operation, Stock, FramesFit
<1>2. op.req.input \in Inputs /\ config.flavor \in Flavors
  <2>1. op # NoOp
    BY DEF NoOp
  <2> QED BY <2>1, OpFits DEF Types, Accounts, SetUp
<1> DEFINE mixed == s.mixed \/ s.first \notin {0, op.req.input.prompt}
<1>3. u = [s EXCEPT !.carried = << >>, !.first = 0, !.decision = NoDecision, !.mixed = mixed]
  BY DEF Readied
<1> HIDE DEF s, u, h
<1>4. << >> \in Seq(Events) /\ NoDecision \in Decisions /\ 0 \in Nat /\ mixed \in BOOLEAN
  BY <1>1 DEF Decisions, Sessions
<1> HIDE DEF mixed
<1>5. u \in Sessions
  BY <1>1, <1>3, <1>4 DEF Sessions
<1>6. /\ u.tree = s.tree /\ u.sid = s.sid /\ u.worst = s.worst /\ u.out = s.out /\ u.seq = s.seq
      /\ u.carried = << >>
  BY <1>1, <1>3 DEF Sessions
<1>7. Fit(u, h)
  BY <1>1, <1>6 DEF Fit
<1>8. Succ(u, s, h)
  BY <1>5, <1>6, <1>7 DEF Succ
<1>9. \A way \in Ways(h) : Way(way, u, config.flavor)
  <2>1. Way(Reads(u), u, config.flavor)
    BY <1>5, PlainWay DEF Keeps
  <2>2. TreeThere(u) \in BOOLEAN
    BY DEF TreeThere
  <2>3. \A way \in advance(config.flavor, u, op.req.input, TreeThere(u)) : Way(way, u, config.flavor)
    BY <1>2, <1>5, <2>2, AdvanceWays
  <2> QED BY <2>1, <2>3 DEF Ways, u
<1>10. ASSUME NEW way \in Ways(h) PROVE Succ(way.s, s, h)
  <2>1. Keeps(way.s, u) /\ way.s.out \in {u.out, << >>} /\ (u.worst # "Graceful" => way.s.worst # "Graceful")
    BY <1>9 DEF Way
  <2>2. Fit(way.s, h)
    BY <1>7, <2>1 DEF Fit
  <2> QED BY <1>6, <2>1, <2>2 DEF Succ, Keeps
<1> QED BY <1>1, <1>5, <1>6, <1>8, <1>9, <1>10 DEF u, s, h

LEMMA ReleasedGrows ==
    ASSUME Stock, FramesFit, op.h \in Handles, NEW t, Succ(t, sessions[op.h], op.h), NEW result,
           Released(t, result), config' = config
    PROVE  Grown /\ DOMAIN sessions' = Handles
<1> DEFINE u == IF op.h \in live \cup sweep THEN t ELSE [t EXCEPT !.run = FALSE]
<1>1. Succ(u, sessions[op.h], op.h)
  BY RunOff
<1>2. sessions' = [sessions EXCEPT ![op.h] = u]
  BY DEF Released
<1> HIDE DEF u
<1> QED BY <1>1, <1>2, OneChanges

LEMMA ReadsGrow ==
    ASSUME Types, FramesFit, BeginReads \/ AdvanceReads
    PROVE  Grown /\ DOMAIN sessions' = Handles
<1> DEFINE h == op.h
           d == Decoded(h)
<1>1. h \in Handles /\ sessions[h].out # << >>
  BY DEF Types, Operation, BeginReads, AdvanceReads
<1>2. /\ Decoding(d, Rest(h), Frame(h), config.flavor) /\ Succ(d.s, sessions[h], h)
  <2> HIDE DEF h
  <2> QED BY <1>1, DecodedFits DEF Types
<1>3. d.events \in Seq(Events) /\ d.decision \in Decisions
  BY <1>2 DEF Decoding, Observes, Decides
<1>4. ASSUME BeginReads PROVE Grown /\ DOMAIN sessions' = Handles
  <2> DEFINE carried == d.s.carried \o d.events
             decision == IF d.decision = NoDecision THEN d.s.decision ELSE d.decision
             c == [d.s EXCEPT !.carried = carried, !.decision = decision]
  <2>1. d.s \in Sessions
    BY <1>2 DEF Succ
  <2>2. d.s.carried \in Seq(Events) /\ d.s.decision \in Decisions
    BY <2>1 DEF Sessions
  <2>3. carried \in Seq(Events) /\ decision \in Decisions
    BY <1>3, <2>2
  <2>4. /\ config' = config
        /\ sessions' = [sessions EXCEPT ![h] = [d.s EXCEPT !.run = FALSE]] \/ sessions' = [sessions EXCEPT ![h] = c]
    BY <1>4, <2>1 DEF BeginReads, Sessions
  <2> HIDE DEF carried, decision, d
  <2>5. c \in Sessions
    BY <2>1, <2>3 DEF Sessions
  <2>6. c.tree = d.s.tree /\ c.sid = d.s.sid /\ c.worst = d.s.worst /\ c.out = d.s.out
    BY <2>1 DEF Sessions
  <2> HIDE DEF c, h
  <2>7. Succ(c, sessions[h], h)
    BY <1>2, <2>5, <2>6 DEF Succ, Fit
  <2>8. Succ([d.s EXCEPT !.run = FALSE], sessions[h], h)
    BY <1>2, RunOff
  <2> DEFINE e == [d.s EXCEPT !.run = FALSE]
  <2>9. CASE sessions' = [sessions EXCEPT ![h] = c]
    BY <1>1, <2>4, <2>7, <2>9, OneChanges DEF Types
  <2>10. CASE sessions' = [sessions EXCEPT ![h] = e]
    <3> HIDE DEF e
    <3>1. Succ(e, sessions[h], h)
      BY <2>8 DEF e
    <3> QED BY <1>1, <2>4, <2>10, <3>1, OneChanges DEF Types
  <2> QED BY <2>4, <2>9, <2>10
<1>5. ASSUME AdvanceReads PROVE Grown /\ DOMAIN sessions' = Handles
  <2>1. \/ \E result : Released(d.s, result)
        \/ sessions' = [sessions EXCEPT ![h] = d.s]
    BY <1>5 DEF AdvanceReads
  <2>2. config' = config
    BY <1>5 DEF AdvanceReads
  <2> HIDE DEF d
  <2>3. CASE \E result : Released(d.s, result)
    BY <1>1, <1>2, <2>2, <2>3, ReleasedGrows DEF Types
  <2>4. CASE sessions' = [sessions EXCEPT ![h] = d.s]
    BY <1>1, <1>2, <2>2, <2>4, OneChanges DEF Types
  <2> QED BY <2>1, <2>3, <2>4
<1> QED BY <1>4, <1>5

LEMMA EndsGrow ==
    ASSUME Types, FramesFit, BeginFails \/ AdvanceFails \/ Advance
    PROVE  Grown /\ DOMAIN sessions' = Handles
<1>1. op.h \in Handles /\ config' = config
  BY DEF Types, Operation, BeginFails, AdvanceFails, Advance
<1>2. sessions[op.h] \in Sessions /\ Fit(sessions[op.h], op.h)
  BY <1>1 DEF Types, Stock, FramesFit
<1>3. Succ(sessions[op.h], sessions[op.h], op.h) /\ Succ([sessions[op.h] EXCEPT !.run = FALSE], sessions[op.h], op.h)
  BY <1>2, Stays
<1>4. ASSUME BeginFails PROVE Grown /\ DOMAIN sessions' = Handles
  <2> DEFINE u == [sessions[op.h] EXCEPT !.run = FALSE]
  <2>1. sessions' = sessions \/ sessions' = [sessions EXCEPT ![op.h] = u]
    BY <1>4 DEF BeginFails, Dead
  <2>2. Succ(u, sessions[op.h], op.h)
    BY <1>3
  <2> HIDE DEF u
  <2>3. CASE sessions' = [sessions EXCEPT ![op.h] = u]
    BY <1>1, <2>2, <2>3, OneChanges DEF Types
  <2>4. CASE sessions' = sessions
    BY <1>1, <2>4, NobodyChanges DEF Types
  <2> QED BY <2>1, <2>3, <2>4
<1>5. ASSUME AdvanceFails PROVE Grown /\ DOMAIN sessions' = Handles
  <2>1. Released(sessions[op.h], Failed(session_ref(sessions[op.h]), << >>))
    BY <1>5 DEF AdvanceFails
  <2> QED BY <1>1, <1>3, <2>1, ReleasedGrows DEF Types
<1>6. ASSUME Advance PROVE Grown /\ DOMAIN sessions' = Handles
  <2>1. op.pc = "advance"
    BY <1>6 DEF Advance
  <2>2. Succ(Readied(op.h), sessions[op.h], op.h) /\ \A way \in Ways(op.h) : Succ(way.s, sessions[op.h], op.h)
    BY <2>1, ReadiedFits
  <2>3. \/ \E result : Released(Readied(op.h), result)
        \/ \E way \in Ways(op.h) : sessions' = [sessions EXCEPT ![op.h] = way.s]
        \/ \E way \in Ways(op.h) : \E result : Released(way.s, result)
    BY <1>6 DEF Advance, Readied, Ways
  <2>4. CASE \E result : Released(Readied(op.h), result)
    BY <1>1, <2>2, <2>4, ReleasedGrows DEF Types
  <2>5. CASE \E way \in Ways(op.h) : sessions' = [sessions EXCEPT ![op.h] = way.s]
    <3>1. PICK way \in Ways(op.h) : sessions' = [sessions EXCEPT ![op.h] = way.s]
      BY <2>5
    <3> QED BY <1>1, <2>2, <3>1, OneChanges DEF Types
  <2>6. CASE \E way \in Ways(op.h) : \E result : Released(way.s, result)
    BY <1>1, <2>2, <2>6, ReleasedGrows DEF Types
  <2> QED BY <2>3, <2>4, <2>5, <2>6
<1> QED BY <1>4, <1>5, <1>6

LEMMA CloseGrows ==
    ASSUME Types, FramesFit, NEW h \in Handles, NEW end \in Endings, Close(h, end), config' = config
    PROVE  Grown /\ DOMAIN sessions' = Handles
<1> DEFINE closed == shutdown(config.flavor, sessions[h], end)
<1>1. sessions[h] \in Sessions /\ Fit(sessions[h], h) /\ config.flavor \in Flavors
  BY DEF Types, Stock, FramesFit, Accounts, SetUp
<1>2. Keeps(closed.s, sessions[h]) /\ closed.s.worst = sessions[h].worst /\ closed.s.out = sessions[h].out
  BY <1>1, ShutdownFits
<1>3. sessions' = [sessions EXCEPT ![h] = closed.s]
  BY DEF Close
<1> HIDE DEF closed
<1>4. Succ(closed.s, sessions[h], h)
  BY <1>1, <1>2 DEF Succ, Keeps, Fit
<1> QED BY <1>3, <1>4, OneChanges DEF Types

LEMMA RuntimeGrows ==
    ASSUME Types, FramesFit, NEW h \in Handles, RuntimeWrites(h) \/ RuntimeExits(h)
    PROVE  Grown /\ DOMAIN sessions' = Handles
<1> DEFINE s == sessions[h]
           n == ledger.frames + 1
           who == IF s.busy = << >> THEN 0 ELSE Head(s.busy)
           frame(kind, calls) == [kind |-> kind, n |-> n, for |-> who, sid |-> h, calls |-> calls]
<1>1. s \in Sessions /\ Fit(s, h) /\ config' = config
  <2>1. config' = config
    BY DEF RuntimeWrites, RuntimeExits
  <2> QED BY <2>1 DEF Types, Stock, FramesFit
<1>2. s.busy \in Seq(Nat) /\ s.out \in Seq(Frames)
  BY <1>1 DEF Sessions
<1>3. n \in Nat /\ who \in Nat /\ h \in Nat
  <2>1. ledger.frames \in Nat
    BY DEF Types, Accounts
  <2>2. h \in 1..Len(sessions)
    BY DEF Types, Stock
  <2>3. who \in Nat
    BY <1>2
  <2> QED BY <2>1, <2>2, <2>3
<1>4. ASSUME NEW t, t \in Sessions, t.tree = s.tree, t.sid = s.sid, t.worst = s.worst, t.out = s.out,
             NEW f \in Frames, f.sid = h, f.kind \in FrameKinds(config.flavor),
             sessions' = [sessions EXCEPT ![h] = [t EXCEPT !.out = Append(@, f)]]
      PROVE  Grown /\ DOMAIN sessions' = Handles
  <2> DEFINE out == Append(t.out, f)
             u == [t EXCEPT !.out = out]
  <2>1. out \in Seq(Frames)
    BY <1>2, <1>4, AppendProperties
  <2>2. \A i \in DOMAIN out : out[i].kind \in FrameKinds(config.flavor) /\ out[i].sid = h
    <3>1. \A i \in DOMAIN out : out[i] = f \/ (i \in DOMAIN s.out /\ out[i] = s.out[i])
      BY <1>2, <1>4, AppendProperties
    <3> QED BY <1>1, <1>4, <3>1 DEF Fit
  <2>3. sessions' = [sessions EXCEPT ![h] = u]
    BY <1>4 DEF Sessions
  <2> HIDE DEF out
  <2>4. u \in Sessions
    BY <1>4, <2>1 DEF Sessions
  <2>5. u.tree = s.tree /\ u.sid = s.sid /\ u.worst = s.worst /\ u.out = out
    BY <1>4 DEF Sessions
  <2> HIDE DEF u, s
  <2>6. Succ(u, s, h)
    BY <2>2, <2>4, <2>5 DEF Succ, Fit
  <2> QED BY <1>1, <2>3, <2>6, OneChanges DEF Types, s
<1>5. << >> \in Seq(CallKinds) /\ Batches \subseteq Seq(CallKinds)
  OBVIOUS
<1>6. \A kind \in {"Init", "Event", "Completed", "Failed", "Noise"} \cup PauseKinds, calls \in Seq(CallKinds) :
         frame(kind, calls) \in Frames /\ frame(kind, calls).sid = h /\ frame(kind, calls).kind = kind
  <2> HIDE DEF n, who
  <2> QED BY <1>3 DEF Frames
<1>7. ASSUME RuntimeWrites(h)
      PROVE  Grown /\ DOMAIN sessions' = Handles
  <2> DEFINE writes(t, f) == sessions' = [sessions EXCEPT ![h] = [t EXCEPT !.out = Append(@, f)]]
             told == [s EXCEPT !.told = TRUE]
             mixed == [s EXCEPT !.mixed = TRUE]
             tail == [s EXCEPT !.busy = Tail(@)]
             asking == [s EXCEPT !.asks = n]
  <2>1. \/ config.flavor # "opencode" /\ writes(told, frame("Init", << >>))
        \/ writes(s, frame("Event", << >>))
        \/ writes(mixed, frame("Event", << >>))
        \/ s.busy # << >> /\ \E kind \in {"Completed", "Failed"} : writes(tail, frame(kind, << >>))
        \/ \E kind \in Pauses(config.flavor) : \E calls \in Seq(CallKinds) : writes(asking, frame(kind, calls))
        \/ writes(s, frame("Noise", << >>))
    <3>1. ASSUME NEW kind, NEW calls
          PROVE  [frame(kind, << >>) EXCEPT !.calls = calls] = frame(kind, calls)
      OBVIOUS
    <3>2. \/ config.flavor # "opencode" /\ writes(told, frame("Init", << >>))
          \/ writes(s, frame("Event", << >>))
          \/ writes(mixed, frame("Event", << >>))
          \/ s.busy # << >> /\ \E kind \in {"Completed", "Failed"} : writes(tail, frame(kind, << >>))
          \/ \E kind \in Pauses(config.flavor) :
                \E calls \in IF kind = "ToolCalls" THEN Batches ELSE {<< >>} :
                   writes(asking, [frame(kind, << >>) EXCEPT !.calls = calls])
          \/ writes(s, frame("Noise", << >>))
      BY <1>7, Zenon DEF RuntimeWrites
    <3> HIDE DEF frame, asking, told, tail, mixed, s, writes
    <3>3. CASE \E kind \in Pauses(config.flavor) :
                \E calls \in IF kind = "ToolCalls" THEN Batches ELSE {<< >>} :
                   writes(asking, [frame(kind, << >>) EXCEPT !.calls = calls])
      <4>1. PICK kind \in Pauses(config.flavor) :
               \E calls \in IF kind = "ToolCalls" THEN Batches ELSE {<< >>} :
                  writes(asking, [frame(kind, << >>) EXCEPT !.calls = calls])
        BY <3>3
      <4>2. PICK calls \in IF kind = "ToolCalls" THEN Batches ELSE {<< >>} :
               writes(asking, [frame(kind, << >>) EXCEPT !.calls = calls])
        BY <4>1
      <4>3. calls \in Seq(CallKinds)
        BY <1>5
      <4>4. writes(asking, frame(kind, calls))
        BY <3>1, <4>2, Zenon
      <4> QED BY <4>3, <4>4
    <3> QED BY <3>2, <3>3
  <2>2. told \in Sessions /\ mixed \in Sessions /\ asking \in Sessions
    <3> HIDE DEF n
    <3> QED BY <1>1, <1>3 DEF Sessions
  <2>3. s.busy # << >> => tail \in Sessions
    <3>1. s.busy # << >> => Tail(s.busy) \in Seq(Nat)
      BY <1>2
    <3> QED BY <1>1, <3>1 DEF Sessions
  <2> DEFINE like(t) == t.tree = s.tree /\ t.sid = s.sid /\ t.worst = s.worst /\ t.out = s.out
  <2>4. like(s) /\ like(told) /\ like(mixed) /\ like(tail) /\ like(asking)
    BY <1>1 DEF Sessions
  <2>5. ASSUME NEW t, t \in Sessions, like(t), NEW kind, kind \in FrameKinds(config.flavor),
               NEW calls \in Seq(CallKinds), writes(t, frame(kind, calls))
        PROVE  Grown /\ DOMAIN sessions' = Handles
    <3> DEFINE f == frame(kind, calls)
    <3>1. config.flavor \in Flavors
      BY DEF Types, Accounts, SetUp
    <3>2. FrameKinds(config.flavor) \subseteq {"Init", "Event", "Completed", "Failed", "Noise"} \cup PauseKinds
      BY <3>1 DEF FrameKinds, Pauses, PauseKinds, Flavors, OneShot
    <3>3. f \in Frames /\ f.sid = h /\ f.kind = kind
      BY <1>6, <2>5, <3>2
    <3>4. writes(t, f)
      BY <2>5
    <3> HIDE DEF f
    <3> QED BY <1>4, <2>5, <3>3, <3>4
  <2>6. /\ "Event" \in FrameKinds(config.flavor) /\ "Completed" \in FrameKinds(config.flavor)
        /\ "Failed" \in FrameKinds(config.flavor) /\ "Noise" \in FrameKinds(config.flavor)
        /\ config.flavor # "opencode" => "Init" \in FrameKinds(config.flavor)
        /\ Pauses(config.flavor) \subseteq FrameKinds(config.flavor)
    BY DEF FrameKinds
  <2> HIDE DEF told, mixed, tail, asking, s, writes, frame, like
  <2>7. CASE config.flavor # "opencode" /\ writes(told, frame("Init", << >>))
    BY <1>5, <2>2, <2>4, <2>5, <2>6, <2>7
  <2>8. CASE writes(s, frame("Event", << >>)) \/ writes(s, frame("Noise", << >>)) \/ writes(mixed, frame("Event", << >>))
    BY <1>1, <1>5, <2>2, <2>4, <2>5, <2>6, <2>8
  <2>9. CASE s.busy # << >> /\ \E kind \in {"Completed", "Failed"} : writes(tail, frame(kind, << >>))
    BY <1>5, <2>3, <2>4, <2>5, <2>6, <2>9
  <2>10. CASE \E kind \in Pauses(config.flavor) : \E calls \in Seq(CallKinds) : writes(asking, frame(kind, calls))
    BY <2>2, <2>4, <2>5, <2>6, <2>10
  <2> QED BY <2>1, <2>7, <2>8, <2>9, <2>10
<1>8. ASSUME RuntimeExits(h)
      PROVE  Grown /\ DOMAIN sessions' = Handles
  <2> DEFINE u == [s EXCEPT !.run = FALSE]
  <2>1. sessions' = [sessions EXCEPT ![h] = u]
    BY <1>8 DEF RuntimeExits, Dead
  <2> HIDE DEF s
  <2>2. Succ(u, s, h)
    BY <1>1, Stays
  <2> HIDE DEF u
  <2> QED BY <1>1, <2>1, <2>2, OneChanges DEF Types, s
<1> QED BY <1>7, <1>8

LEMMA LaunchGrows ==
    ASSUME Types, FramesFit, Launch
    PROVE  /\ Grown
           /\ \/ DOMAIN sessions' = Handles
              \/ /\ sessions' = Append(sessions, Launched.s) /\ Launched.ok
                 /\ DOMAIN sessions' = Handles \cup {Len(sessions')} /\ Len(sessions') \notin Handles
                 /\ sessions'[Len(sessions')] = Launched.s
                 /\ \A h \in Handles : sessions'[h] = sessions[h]
<1>1. op.pc = "launch" /\ config' = config
  BY DEF Launch
<1>2. Launched.s \in Sessions /\ Launched.s.out = << >>
  BY <1>1, LaunchFits
<1>3. UNCHANGED sessions \/ (Launched.ok /\ sessions' = Append(sessions, Launched.s))
  BY DEF Launch, Launched
<1>4. CASE UNCHANGED sessions
  BY <1>1, <1>4, NobodyChanges DEF Types
<1>5. CASE Launched.ok /\ sessions' = Append(sessions, Launched.s)
  <2> DEFINE t == Launched.s
  <2>1. t \in Sessions /\ t.out = << >> /\ sessions' = Append(sessions, t)
    BY <1>2, <1>5
  <2> HIDE DEF t
  <2>2. /\ Grown
        /\ DOMAIN sessions' = Handles \cup {Len(sessions')} /\ Len(sessions') \notin Handles
        /\ sessions'[Len(sessions')] = t /\ \A h \in Handles : sessions'[h] = sessions[h]
    BY <1>1, <2>1, OneAdded DEF Types
  <2> QED BY <1>5, <2>2 DEF t
<1> QED BY <1>3, <1>4, <1>5

(* Sessions grow whatever happens, and only Launch adds one. *)
LEMMA NextGrows ==
    ASSUME Types, FramesFit, Next
    PROVE  Grown /\ (Launch \/ DOMAIN sessions' = Handles)
<1>1. CASE Launch
  BY <1>1, LaunchGrows
<1>2. CASE BeginReads \/ AdvanceReads
  BY <1>2, ReadsGrow
<1>3. CASE BeginFails \/ AdvanceFails \/ Advance
  BY <1>3, EndsGrow
<1>4. CASE HandlerSweeps
  <2>1. op.h \in Handles /\ config' = config /\ \E end \in Endings : Close(op.h, end)
    BY <1>4 DEF HandlerSweeps, Types, Operation
  <2> QED BY <2>1, CloseGrows
<1>5. CASE \E h \in sweep : HostCloses(h)
  <2>1. PICK h \in sweep : HostCloses(h)
    BY <1>5
  <2>2. h \in Handles /\ config' = config /\ \E end \in Endings : Close(h, end)
    BY <2>1 DEF HostCloses, Types, Stock
  <2> QED BY <2>2, CloseGrows
<1>6. CASE Runtime
  BY <1>6, RuntimeGrows DEF Runtime
<1>7. CASE Abandon
  <2> DEFINE S == {h \in Handles : op.pc \in {"begin", "register", "sweep", "advance", "read"} /\ op.h = h}
                     \ (live \cup sweep)
  <2>1. /\ config' = config
        /\ sessions' = [h \in Handles |-> IF h \in S THEN [sessions[h] EXCEPT !.run = FALSE] ELSE sessions[h]]
    BY <1>7 DEF Abandon
  <2> HIDE DEF S
  <2> QED BY <2>1, SomeEnd DEF Types
<1>8. CASE Restart
  <2>1. /\ config' = config
        /\ sessions' = [h \in Handles |-> IF h \in Handles THEN [sessions[h] EXCEPT !.run = FALSE] ELSE sessions[h]]
    BY <1>8 DEF Restart
  <2> QED BY <2>1, SomeEnd DEF Types
<1>9. CASE \/ Fulfill \/ Prepare \/ Register \/ Charge
           \/ UserMessage \/ BudgetStops \/ StartHandler \/ Deliver \/ Resolve \/ LateAnswer \/ Cancel
           \/ OthersSpend \/ Reconfigure \/ HostSweeps \/ HostClears \/ Save
  <2>1. UNCHANGED <<config, sessions>>
    BY <1>9 DEF Fulfill, Prepare, Register, Charge, UserMessage, BudgetStops, StartHandler, Deliver,
                Resolve, LateAnswer, Cancel, OthersSpend, Reconfigure, HostSweeps, HostClears, Save
  <2> QED BY <2>1, NobodyChanges DEF Types
<1> QED BY <1>1, <1>2, <1>3, <1>4, <1>5, <1>6, <1>7, <1>8, <1>9 DEF Next, Handler, Driver, Host

(* How the machine may have changed. *)
LEMMA MachineChanges ==
    ASSUME Types, Next
    PROVE  \/ Left
           \/ (UserMessage \/ Resolve \/ LateAnswer) /\ Took(m.session)
           \/ Deliver /\ Took(op.got.session)
           \/ (Abandon \/ BudgetStops) /\ Lost
           \/ Reconfigure /\ Retooled
           \/ Restart /\ Restored
           \/ HostClears /\ Coherent(m') /\ m'.session = m.session /\ m'.inFlight = m.inFlight /\ asked' = asked
<1>1. CASE UserMessage
  BY <1>1, UserMessageTakes DEF Types
<1>2. CASE Deliver \/ Resolve \/ LateAnswer
  BY <1>2, DriverTakes
<1>3. CASE Abandon \/ BudgetStops
  BY <1>3, TakenAway DEF Types
<1>4. CASE Reconfigure \/ Restart \/ HostClears
  BY <1>4, HostLeaves
<1>5. CASE Handler \/ Runtime \/ StartHandler \/ Cancel
           \/ OthersSpend \/ HostSweeps \/ (\E h \in sweep : HostCloses(h)) \/ Save
  <2>1. UNCHANGED m /\ asked' \subseteq asked
    BY <1>5 DEF Handler, Runtime, StartHandler, Cancel, OthersSpend, HostSweeps, HostCloses, Save, driving,
                Fulfill, Prepare, Launch, BeginReads, BeginFails, Register, Advance, AdvanceReads,
                AdvanceFails, Charge, HandlerSweeps, RuntimeWrites, RuntimeExits
  <2> QED BY <2>1 DEF Left
<1> QED BY <1>1, <1>2, <1>3, <1>4, <1>5 DEF Next, Driver, Host

LEMMA MachineryKept ==
    ASSUME Types, Next
    PROVE  Machinery'
<1>1. Coherent(m') /\ asked' \subseteq Requests \cup Others
  BY MachineChanges DEF Types, Machinery, Left, Took, Lost, Retooled, Restored
<1>2. UNCHANGED saved \/ Save
  BY DEF Next, Handler, Driver, Runtime, Host, hosting,
         Fulfill, Prepare, Launch, BeginReads, BeginFails, Register, Advance, AdvanceReads,
         AdvanceFails, Charge, HandlerSweeps, RuntimeWrites, RuntimeExits,
         UserMessage, BudgetStops, StartHandler, Deliver, Resolve, LateAnswer, Cancel, Abandon,
         OthersSpend, Reconfigure, HostSweeps, HostCloses, HostClears, Restart
<1>3. Coherent(saved') /\ ~saved'.inFlight
  <2>1. ASSUME Save PROVE saved' = m /\ m.turn = 0
    BY <2>1 DEF Save, CanSave
  <2> QED BY <1>2, <2>1 DEF Types, Machinery, Coherent
<1> QED BY <1>1, <1>3 DEF Machinery

(* The future of the handler comes from a requirement and ends with an answer. *)
LEMMA HandlerOfATurn ==
    ASSUME Next
    PROVE  /\ op' # NoOp => op # NoOp \/ asked # {}
           /\ (UserMessage \/ Resolve \/ LateAnswer \/ Deliver \/ Abandon \/ BudgetStops \/ Restart) => op' = NoOp
           /\ (Reconfigure \/ HostClears) => op' = op
<1>1. NoOp.pc = "none"
  BY DEF NoOp
<1>2. (UserMessage \/ Resolve \/ LateAnswer \/ Deliver \/ Abandon \/ BudgetStops \/ Restart) => op' = NoOp
  BY DEF UserMessage, BudgetStops, Deliver, Resolve, LateAnswer, Abandon, Restart
<1>3. CASE Handler
  <2>1. op.pc # "none"
    BY <1>3 DEF Handler, Fulfill, Prepare, Launch, BeginReads, BeginFails, Register, Advance, AdvanceReads,
                AdvanceFails, Charge, HandlerSweeps
  <2>2. ASSUME Reconfigure \/ HostClears PROVE op' = op
    BY <2>2 DEF Reconfigure, HostClears
  <2> QED BY <1>1, <1>2, <2>1, <2>2
<1>4. CASE Driver \/ Runtime \/ Host
  <2>1. op' = op \/ op' = NoOp \/ (StartHandler /\ asked # {})
    BY <1>4 DEF Driver, Runtime, Host, RuntimeWrites, RuntimeExits,
         UserMessage, BudgetStops, StartHandler, Deliver, Resolve, LateAnswer, Cancel, Abandon,
         OthersSpend, Reconfigure, HostSweeps, HostCloses, HostClears, Restart, Save
  <2>2. ASSUME Reconfigure \/ HostClears PROVE op' = op
    BY <2>2 DEF Reconfigure, HostClears
  <2> QED BY <1>2, <2>1, <2>2
<1> QED BY <1>3, <1>4 DEF Next

LEMMA AskingKept ==
    ASSUME Types, Asking, Next
    PROVE  Asking'
BY MachineChanges, HandlerOfATurn DEF Asking, Left, Took, Lost, Retooled, Restored

LEMMA StockKept ==
    ASSUME Types, FramesFit, OneEach, Next
    PROVE  Stock'
<1>1. Grown
  BY NextGrows
<1>2. sessions' \in Seq(Sessions) /\ Handles \subseteq DOMAIN sessions'
  BY <1>1 DEF Grown
<1>3. dropped' \subseteq Handles
  <2>1. dropped' \subseteq dropped \cup live
    BY DEF Next, Handler, Driver, Runtime, Host, history, Unanswered,
         Fulfill, Prepare, Launch, BeginReads, BeginFails, Register, Advance, AdvanceReads,
         AdvanceFails, Charge, HandlerSweeps, RuntimeWrites, RuntimeExits,
         UserMessage, BudgetStops, StartHandler, Deliver, Resolve, LateAnswer, Cancel, Abandon,
         OthersSpend, Reconfigure, HostSweeps, HostCloses, HostClears, Restart, Save
  <2> QED BY <2>1 DEF Types, Stock
<1>4. live' \subseteq Handles /\ sweep' \subseteq Handles /\ live' \cap sweep' = {}
  <2>1. CASE Register
    BY <2>1 DEF Register, hosting, Types, Stock, Operation, OneEach, Coming
  <2>2. CASE HostSweeps
    BY <2>2 DEF HostSweeps, Types, Stock
  <2>3. CASE \/ Fulfill \/ Prepare \/ Launch \/ BeginReads \/ BeginFails \/ Advance \/ AdvanceReads
             \/ AdvanceFails \/ Charge \/ HandlerSweeps \/ Driver \/ Runtime \/ OthersSpend \/ Reconfigure
             \/ (\E h \in sweep : HostCloses(h)) \/ HostClears \/ Save \/ Restart
    <3>1. live' \subseteq live /\ sweep' \subseteq sweep
      BY <2>3 DEF Driver, Runtime, hosting,
         Fulfill, Prepare, Launch, BeginReads, BeginFails, Advance, AdvanceReads,
         AdvanceFails, Charge, HandlerSweeps, RuntimeWrites, RuntimeExits,
         UserMessage, BudgetStops, StartHandler, Deliver, Resolve, LateAnswer, Cancel, Abandon,
         OthersSpend, Reconfigure, HostCloses, HostClears, Restart, Save
    <3> QED BY <3>1 DEF Types, Stock
  <2> QED BY <2>1, <2>2, <2>3 DEF Next, Handler, Host
<1> QED BY <1>2, <1>3, <1>4 DEF Stock

-----------------------------------------------------------------------------
(***************************************************************************)
(* What happens to the handler's future.                                   *)
(***************************************************************************)

(* Where the session of an answer may come from. *)
Sourced(session) ==
    \/ session.id = 0 \/ session = op.req.session
    \/ op.pc \in {"charge", "sweep"} /\ session = op.got.session
    \/ op.h \in Handles /\ session.id = sessions'[op.h].sid

Moved ==
    /\ Operation' /\ op' # NoOp /\ op'.req = op.req
    /\ op'.pc \in {"charge", "sweep", "done"} => Sourced(op'.got.session)

LEMMA HandlerStands ==
    ASSUME Handler
    PROVE  op # NoOp
<1>1. op.pc # "none"
  BY DEF Handler, Fulfill, Prepare, Launch, BeginReads, BeginFails, Register, Advance, AdvanceReads,
         AdvanceFails, Charge, HandlerSweeps
<1> QED BY <1>1 DEF NoOp

LEMMA FailedFits ==
    ASSUME NEW session \in Refs, NEW events \in Seq(Events)
    PROVE  /\ Failed(session, events) \in Results /\ Failed(session, events).session = session
           /\ Failed(session, events).kind = "Failed"
           /\ NoSession \in Refs /\ << >> \in Seq(Events) /\ NoSession.id = 0
BY DEF Failed, Results, Refs, NoSession

LEMMA AnswerMoves ==
    ASSUME Operation, op # NoOp, NEW result \in Results, Sourced(result.session),
           \/ Answered(result)
           \/ op' = [Handling(IF result.kind = "Completed" THEN "charge" ELSE "done", op.req) EXCEPT !.got = result]
    PROVE  /\ Moved /\ op'.got = result /\ op'.h = 0 /\ op'.tree = 0
           /\ op'.pc \in {"charge", "done"} /\ (Answered(result) => op'.pc = "done")
<1> DEFINE o(pc) == [Handling(pc, op.req) EXCEPT !.got = result]
<1>1. op.req \in Requests
  BY OpFits
<1>2. ASSUME NEW pc \in {"charge", "done"}, op' = o(pc)
      PROVE  /\ op' \in [pc: Points, req: Requests, h: Nat, tree: Nat, got: {op'.got}]
             /\ op'.pc = pc /\ op'.got = result /\ op'.req = op.req /\ op'.h = 0 /\ op'.tree = 0 /\ op' # NoOp
  <2>1. op' = [pc |-> pc, req |-> op.req, h |-> 0, tree |-> 0, got |-> result]
    BY <1>2 DEF Handling
  <2>2. op'.pc # NoOp.pc
    BY <2>1 DEF NoOp
  <2> QED BY <1>1, <2>1, <2>2 DEF Points
<1>3. op' = o("done") \/ (result.kind = "Completed" /\ op' = o("charge"))
  BY DEF Answered
<1>4. Answered(result) => op' = o("done")
  BY DEF Answered
<1> HIDE DEF o
<1>5. op'.pc = "charge" => result.kind = "Completed"
  BY <1>2, <1>3
<1>6. op'.pc \in {"charge", "done"} /\ op'.got = result /\ op'.req = op.req /\ op'.h = 0 /\ op'.tree = 0
      /\ op' # NoOp /\ op' \in [pc: Points, req: Requests, h: Nat, tree: Nat, got: {op'.got}]
  BY <1>2, <1>3
<1>7. Operation'
  BY <1>5, <1>6 DEF Operation, IsOperation
<1> QED BY <1>2, <1>4, <1>6, <1>7 DEF Moved

LEMMA FulfillMoves ==
    ASSUME Types, Fulfill
    PROVE  /\ Moved
           /\ \/ op'.pc = "done" /\ UNCHANGED live /\ op'.tree = 0
              \/ op'.pc = "prepare" /\ UNCHANGED live /\ Entry(op.req.session) = {} /\ op'.tree = op.tree
              \/ op'.pc = "advance" /\ UNCHANGED live
              \/ op'.pc = "sweep" /\ op'.h \in live /\ live' = live \ {op'.h} /\ op'.tree = op.tree
<1> DEFINE session == op.req.session
<1>1. op.pc = "fulfill" /\ op # NoOp /\ sessions' = sessions
  <2>1. op.pc = "fulfill" /\ sessions' = sessions
    BY Zenon DEF Fulfill
  <2> QED BY <2>1 DEF NoOp
<1>2. IsOperation(op) /\ session \in Refs /\ op.h = 0
  BY <1>1, OpFits DEF Types, Operation
<1>3. << >> \in Seq(Events)
  OBVIOUS
<1>4. Failed(session, << >>) \in Results /\ Failed(session, << >>).session = session
  BY <1>2, <1>3, FailedFits
<1> DEFINE failed == Failed(session, << >>)
<1>5. \/ \E h \in live : op' = [op EXCEPT !.pc = "sweep", !.h = h, !.got = failed] /\ live' = live \ {h}
      \/ Answered(failed) /\ UNCHANGED live
      \/ (\E h \in live : op' = [op EXCEPT !.pc = "advance", !.h = h]) /\ UNCHANGED live
      \/ op' = [op EXCEPT !.pc = "prepare"] /\ UNCHANGED live /\ Entry(session) = {}
  BY DEF Fulfill, Entry
<1> HIDE DEF failed
<1>6. \A h \in live : h \in Handles /\ h \in Nat
  BY DEF Types, Stock
<1>7. CASE \E h \in live : op' = [op EXCEPT !.pc = "sweep", !.h = h, !.got = failed] /\ live' = live \ {h}
  <2>1. PICK h \in live : op' = [op EXCEPT !.pc = "sweep", !.h = h, !.got = failed] /\ live' = live \ {h}
    BY <1>7
  <2>2. op'.pc = "sweep" /\ op'.h = h /\ op'.got = failed /\ op'.req = op.req /\ op'.tree = op.tree
    BY <1>2, <2>1 DEF IsOperation
  <2>3. op' \in [pc: Points, req: Requests, h: Nat, tree: Nat, got: {op'.got}]
    BY <1>2, <1>6, <2>1, <2>2 DEF IsOperation, Points
  <2>4. Operation' /\ op' # NoOp
    BY <1>1, <1>4, <1>6, <2>2, <2>3 DEF Operation, IsOperation, NoOp, failed
  <2>5. Moved
    BY <1>4, <2>2, <2>4 DEF Moved, Sourced, failed
  <2> QED BY <2>1, <2>2, <2>5
<1>8. CASE Answered(failed) /\ UNCHANGED live
  <2>1. Moved /\ op'.pc = "done" /\ op'.tree = 0
    BY <1>1, <1>4, <1>8, AnswerMoves DEF Types, Sourced, failed
  <2> QED BY <1>8, <2>1
<1>9. CASE (\E h \in live : op' = [op EXCEPT !.pc = "advance", !.h = h]) /\ UNCHANGED live
  <2>1. PICK h \in live : op' = [op EXCEPT !.pc = "advance", !.h = h]
    BY <1>9
  <2>2. op'.pc = "advance" /\ op'.h = h /\ op'.req = op.req
    BY <1>2, <2>1 DEF IsOperation
  <2>3. op' \in [pc: Points, req: Requests, h: Nat, tree: Nat, got: {op'.got}]
    BY <1>2, <1>6, <2>1, <2>2 DEF IsOperation, Points
  <2>4. Operation' /\ op' # NoOp
    BY <1>1, <1>6, <2>2, <2>3 DEF Operation, IsOperation, NoOp
  <2> QED BY <1>9, <2>2, <2>4 DEF Moved
<1>10. CASE op' = [op EXCEPT !.pc = "prepare"] /\ UNCHANGED live /\ Entry(session) = {}
  <2>2. op'.pc = "prepare" /\ op'.h = op.h /\ op'.req = op.req /\ op'.tree = op.tree
    BY <1>2, <1>10 DEF IsOperation
  <2>3. op' \in [pc: Points, req: Requests, h: Nat, tree: Nat, got: {op'.got}]
    BY <1>2, <1>10, <2>2 DEF IsOperation, Points
  <2>4. Operation' /\ op' # NoOp
    BY <1>2, <2>2, <2>3 DEF Operation, IsOperation, NoOp
  <2> QED BY <1>10, <2>2, <2>4 DEF Moved
<1> QED BY <1>5, <1>7, <1>8, <1>9, <1>10

LEMMA PrepareMoves ==
    ASSUME Types, Prepare
    PROVE  /\ Moved
           /\ \/ op'.pc = "done" /\ op'.tree = 0 /\ UNCHANGED <<trees, ledger>>
              \/ op'.pc = "launch" /\ op'.tree = op.tree /\ UNCHANGED <<trees, ledger>>
              \/ /\ op'.pc = "launch" /\ op'.tree = ledger.trees + 1 /\ ledger'.trees = ledger.trees + 1
                 /\ trees' = trees \cup {ledger.trees + 1}
<1>1. op.pc = "prepare" /\ op # NoOp /\ sessions' = sessions
  BY DEF Prepare, NoOp
<1>2. IsOperation(op) /\ op.req.session \in Refs /\ op.h = 0
  BY <1>1, OpFits DEF Types, Operation
<1>3. CASE Answered(Failed(op.req.session, << >>)) /\ UNCHANGED <<trees, ledger>>
  <2>1. << >> \in Seq(Events)
    OBVIOUS
  <2>2. Moved /\ op'.pc = "done" /\ op'.tree = 0
    BY <1>1, <1>2, <1>3, <2>1, AnswerMoves, FailedFits DEF Types, Sourced
  <2> QED BY <1>3, <2>2
<1>4. ASSUME NEW tree \in Nat, op' = [op EXCEPT !.pc = "launch", !.tree = tree]
      PROVE  Moved /\ op'.pc = "launch" /\ op'.tree = tree
  <2>1. op'.pc = "launch" /\ op'.h = op.h /\ op'.req = op.req /\ op'.tree = tree
    BY <1>2, <1>4 DEF IsOperation
  <2>2. op' \in [pc: Points, req: Requests, h: Nat, tree: Nat, got: {op'.got}]
    BY <1>2, <1>4, <2>1 DEF IsOperation, Points
  <2>3. Operation' /\ op' # NoOp
    BY <1>2, <2>1, <2>2 DEF Operation, IsOperation, NoOp
  <2> QED BY <2>1, <2>3 DEF Moved
<1>5. ASSUME op' = [op EXCEPT !.pc = "launch"]
      PROVE  Moved /\ op'.pc = "launch" /\ op'.tree = op.tree
  <2>1. op'.pc = "launch" /\ op'.h = op.h /\ op'.req = op.req /\ op'.tree = op.tree
    BY <1>2, <1>5 DEF IsOperation
  <2>2. op' \in [pc: Points, req: Requests, h: Nat, tree: Nat, got: {op'.got}]
    BY <1>2, <1>5, <2>1 DEF IsOperation, Points
  <2>3. Operation' /\ op' # NoOp
    BY <1>2, <2>1, <2>2 DEF Operation, IsOperation, NoOp
  <2> QED BY <2>1, <2>3 DEF Moved
<1>6. ledger' = [ledger EXCEPT !.trees = @ + 1] => ledger'.trees = ledger.trees + 1 /\ ledger'.trees \in Nat
  BY DEF Types, Accounts
<1>7. \/ Answered(Failed(op.req.session, << >>)) /\ UNCHANGED <<trees, ledger>>
      \/ op' = [op EXCEPT !.pc = "launch"] /\ UNCHANGED <<trees, ledger>>
      \/ /\ op' = [op EXCEPT !.pc = "launch", !.tree = ledger'.trees]
         /\ ledger' = [ledger EXCEPT !.trees = @ + 1] /\ trees' = trees \cup {ledger'.trees}
  BY DEF Prepare
<1>8. CASE /\ op' = [op EXCEPT !.pc = "launch", !.tree = ledger'.trees]
           /\ ledger' = [ledger EXCEPT !.trees = @ + 1] /\ trees' = trees \cup {ledger'.trees}
  <2>1. Moved /\ op'.pc = "launch" /\ op'.tree = ledger'.trees
    BY <1>4, <1>6, <1>8
  <2> QED BY <1>6, <1>8, <2>1
<1>9. CASE op' = [op EXCEPT !.pc = "launch"] /\ UNCHANGED <<trees, ledger>>
  BY <1>5, <1>9
<1> QED BY <1>3, <1>7, <1>8, <1>9

LEMMA LaunchMoves ==
    ASSUME Types, FramesFit, Launch
    PROVE  Moved /\ (\/ op'.pc = "done" /\ op'.tree = 0
                     \/ op'.pc \in {"begin", "register"} /\ op'.h = Len(sessions') /\ op'.tree = op.tree
                        /\ sessions' = Append(sessions, Launched.s))
<1>1. op.pc = "launch" /\ op # NoOp
  <2>1. op.pc = "launch"
    BY Zenon DEF Launch
  <2> QED BY <2>1 DEF NoOp
<1>2. IsOperation(op) /\ op.req.session \in Refs
  BY <1>1, OpFits DEF Types
<1>3. << >> \in Seq(Events) /\ NoSession \in Refs /\ NoSession.id = 0
  BY DEF NoSession, Refs
<1>4. /\ Failed(op.req.session, << >>) \in Results /\ Failed(op.req.session, << >>).session = op.req.session
      /\ Failed(NoSession, << >>) \in Results /\ Failed(NoSession, << >>).session = NoSession
  BY <1>2, <1>3, FailedFits
<1>5. \/ /\ sessions' = Append(sessions, Launched.s)
         /\ op' = [op EXCEPT !.h = Len(sessions'), !.pc = IF Launched.prelude THEN "begin" ELSE "register"]
      \/ Answered(Failed(op.req.session, << >>))
      \/ Answered(Failed(NoSession, << >>))
  BY DEF Launch, GiveUp, Launched
<1>6. CASE \/ Answered(Failed(op.req.session, << >>))
           \/ Answered(Failed(NoSession, << >>))
  BY <1>1, <1>3, <1>4, <1>6, AnswerMoves DEF Types, Sourced
<1>7. CASE /\ sessions' = Append(sessions, Launched.s)
           /\ op' = [op EXCEPT !.h = Len(sessions'), !.pc = IF Launched.prelude THEN "begin" ELSE "register"]
  <2> DEFINE h == Len(sessions')
             pc == IF Launched.prelude THEN "begin" ELSE "register"
  <2>1. h \in Nat /\ h \in DOMAIN sessions'
    <3>1. sessions \in Seq(Sessions) /\ Launched.s \in Sessions
      BY <1>1, LaunchFits DEF Types, Stock
    <3>2. sessions' \in Seq(Sessions) /\ Len(sessions') = Len(sessions) + 1
      BY <1>7, <3>1
    <3> QED BY <3>1, <3>2
  <2>2. pc \in {"begin", "register"} /\ op' = [op EXCEPT !.h = h, !.pc = pc]
    BY <1>7
  <2> HIDE DEF h, pc
  <2>3. op'.pc = pc /\ op'.h = h /\ op'.req = op.req /\ op'.tree = op.tree
    BY <1>2, <2>2 DEF IsOperation
  <2>4. op' \in [pc: Points, req: Requests, h: Nat, tree: Nat, got: {op'.got}]
    BY <1>2, <2>1, <2>2, <2>3 DEF IsOperation, Points
  <2>5. Operation' /\ op' # NoOp
    BY <2>1, <2>2, <2>3, <2>4 DEF Operation, IsOperation, NoOp
  <2> QED BY <1>7, <2>2, <2>3, <2>5 DEF Moved, h
<1> QED BY <1>5, <1>6, <1>7

(* A step of the future that changes nothing but where it stands, or what it has read. *)
LEMMA PointMoves ==
    ASSUME Types, Handles \subseteq DOMAIN sessions', op.h \in Handles, op # NoOp,
           \/ op' = op /\ op.pc \in {"begin", "register"}
           \/ op' = [op EXCEPT !.pc = "register"] \/ op' = [op EXCEPT !.pc = "advance"]
           \/ \E got \in Seq(Events) : op' = [op EXCEPT !.got = got] /\ op.pc = "read"
           \/ \E got \in Seq(Events) : op' = [op EXCEPT !.pc = "read", !.got = got]
    PROVE  Moved /\ op'.h = op.h /\ op'.tree = op.tree /\ op'.pc \in {"begin", "register", "advance", "read"}
<1>1. IsOperation(op)
  BY DEF Types, Operation
<1>2. op'.h = op.h /\ op'.tree = op.tree /\ op'.req = op.req
  BY <1>1 DEF IsOperation
<1>3. op'.pc \in {"begin", "register", "advance", "read"} /\ (op'.pc = "read" => op'.got \in Seq(Events))
  BY <1>1 DEF IsOperation
<1>4. op' \in [pc: Points, req: Requests, h: Nat, tree: Nat, got: {op'.got}]
  <2>1. CASE op' = op
    BY <1>1, <2>1 DEF IsOperation
  <2>2. CASE op' = [op EXCEPT !.pc = "register"] \/ op' = [op EXCEPT !.pc = "advance"]
    BY <1>1, <2>2 DEF IsOperation, Points
  <2>3. CASE \E got \in Seq(Events) : op' = [op EXCEPT !.got = got]
    BY <1>1, <2>3 DEF IsOperation
  <2>4. CASE \E got \in Seq(Events) : op' = [op EXCEPT !.pc = "read", !.got = got]
    BY <1>1, <2>4 DEF IsOperation, Points
  <2> QED BY <2>1, <2>2, <2>3, <2>4
<1>5. op' # NoOp
  <2>1. op'.pc # "none"
    BY <1>3
  <2>2. NoOp.pc = "none"
    BY DEF NoOp
  <2> QED BY <2>1, <2>2, Zenon
<1>6. op'.h \in DOMAIN sessions'
  BY <1>2
<1>7. IsOperation(op')
  BY <1>4 DEF IsOperation
<1>8. Operation'
  BY <1>3, <1>6, <1>7 DEF Operation
<1> QED BY <1>2, <1>3, <1>5, <1>8 DEF Moved

LEMMA ReleasedMoves ==
    ASSUME Types, op.h \in Handles, op # NoOp, NEW t \in Sessions, NEW result \in Results,
           result.session.id \in {0, t.sid}, Released(t, result)
    PROVE  /\ Moved /\ op'.got = result /\ op'.h = 0 /\ op'.tree = 0 /\ op'.pc \in {"charge", "done"}
<1> DEFINE u == IF op.h \in live \cup sweep THEN t ELSE [t EXCEPT !.run = FALSE]
<1>1. u.sid = t.sid
  BY DEF Sessions
<1>2. sessions' = [sessions EXCEPT ![op.h] = u]
  BY DEF Released
<1> HIDE DEF u
<1>3. sessions'[op.h].sid = t.sid
  BY <1>1, <1>2 DEF Types, Stock
<1>4. Sourced(result.session)
  BY <1>3 DEF Sourced
<1>5. op' = [Handling(IF result.kind = "Completed" THEN "charge" ELSE "done", op.req) EXCEPT !.got = result]
  BY DEF Released
<1> QED BY <1>4, <1>5, AnswerMoves DEF Types

LEMMA BeginsMove ==
    ASSUME Types, FramesFit, BeginReads \/ BeginFails \/ Register
    PROVE  Moved /\ (\/ op'.pc = "done" /\ op'.tree = 0
                     \/ op'.h = op.h /\ op'.tree = op.tree
                        /\ op'.pc \in IF Register THEN {"advance"} ELSE {"begin", "register"})
<1>1. op.pc \in {"begin", "register"}
  BY DEF BeginReads, BeginFails, Register
<1>2. op.h \in Handles /\ op # NoOp
  BY <1>1 DEF Types, Operation, NoOp
<1>3. IsOperation(op) /\ op.req.session \in Refs
  BY <1>2, OpFits DEF Types
<1>4. Handles \subseteq DOMAIN sessions'
  <2>1. CASE BeginReads
    BY <2>1, ReadsGrow
  <2>2. CASE BeginFails
    BY <2>2, EndsGrow
  <2>3. CASE Register
    BY <2>3 DEF Register
  <2> QED BY <2>1, <2>2, <2>3
<1>5. << >> \in Seq(Events) /\ NoSession \in Refs /\ NoSession.id = 0
  BY DEF NoSession, Refs
<1>6. CASE BeginReads
  <2>1. \/ Answered(Failed(NoSession, << >>))
        \/ op' = [op EXCEPT !.pc = "register"] \/ (op' = op /\ op.pc = "begin")
    BY <1>6 DEF BeginReads, GiveUp
  <2>2. CASE Answered(Failed(NoSession, << >>))
    BY <1>2, <1>5, <2>2, FailedFits, AnswerMoves DEF Types, Sourced
  <2>3. CASE op' = [op EXCEPT !.pc = "register"] \/ (op' = op /\ op.pc = "begin")
    <3>1. op'.pc \in {"begin", "register"}
      BY <1>3, <2>3 DEF IsOperation
    <3>2. ~Register
      BY <1>6 DEF BeginReads, Register
    <3> QED BY <1>2, <1>4, <2>3, <3>1, <3>2, PointMoves
  <2> QED BY <2>1, <2>2, <2>3
<1>7. CASE BeginFails
  <2> DEFINE ref == session_ref(sessions[op.h])
  <2>1. \/ op' = [op EXCEPT !.pc = "register"]
        \/ sessions' = Dead(op.h)
           /\ \E session \in {NoSession, op.req.session, ref} : Answered(Failed(session, << >>))
    BY <1>7 DEF BeginFails, GiveUp
  <2>2. CASE op' = [op EXCEPT !.pc = "register"]
    <3>1. op'.pc \in {"begin", "register"}
      BY <1>3, <2>2 DEF IsOperation
    <3>2. ~Register
      BY <1>7 DEF BeginFails, Register
    <3> QED BY <1>2, <1>4, <2>2, <3>1, <3>2, PointMoves
  <2>3. CASE sessions' = Dead(op.h)
             /\ \E session \in {NoSession, op.req.session, ref} : Answered(Failed(session, << >>))
    <3>1. PICK session \in {NoSession, op.req.session, ref} : Answered(Failed(session, << >>))
      BY <2>3
    <3>2. sessions[op.h] \in Sessions
      BY <1>2 DEF Types, Stock
    <3>3. ref \in Refs /\ ref.id = sessions[op.h].sid
      BY <3>2 DEF session_ref, Refs, Sessions
    <3>4. sessions'[op.h].sid = sessions[op.h].sid
      BY <1>2, <2>3, <3>2 DEF Dead, Types, Stock, Sessions
    <3>5. session \in Refs /\ Sourced(session)
      BY <1>2, <1>3, <1>5, <3>1, <3>3, <3>4 DEF Sourced
    <3>6. Failed(session, << >>) \in Results /\ Failed(session, << >>).session = session
      BY <1>5, <3>5, FailedFits
    <3> QED BY <1>2, <3>1, <3>5, <3>6, AnswerMoves DEF Types
  <2> QED BY <2>1, <2>2, <2>3
<1>8. CASE Register
  <2>1. op' = [op EXCEPT !.pc = "advance"]
    BY <1>8 DEF Register
  <2>2. op'.pc = "advance"
    BY <1>3, <2>1 DEF IsOperation
  <2> QED BY <1>2, <1>4, <1>8, <2>1, <2>2, PointMoves
<1> QED BY <1>6, <1>7, <1>8

LEMMA AdvanceMoves ==
    ASSUME Types, FramesFit, Advance
    PROVE  Moved /\ (\/ op'.pc \in {"charge", "done"} /\ op'.tree = 0 /\ op'.h = 0
                     \/ op'.pc = "read" /\ op'.h = op.h)
<1> DEFINE old == sessions[op.h]
           s == Readied(op.h)
<1>1. op.pc = "advance" /\ op.h \in Handles /\ op # NoOp
  BY DEF Advance, Types, Operation, NoOp
<1>2. /\ s \in Sessions /\ Handles \subseteq DOMAIN sessions'
      /\ \A way \in Ways(op.h) : Way(way, s, config.flavor)
  BY <1>1, ReadiedFits, EndsGrow
<1>3. old \in Sessions
  BY <1>1 DEF Types, Stock
<1>4. old.carried \in Seq(Events) /\ old.decision \in Decisions
  BY <1>3 DEF Sessions
<1>5. \/ old.decision # NoDecision /\ Released(s, finish(s, old.decision, old.carried))
      \/ \E way \in Ways(op.h) :
            \/ op' = [op EXCEPT !.pc = "read", !.got = old.carried]
            \/ Released(way.s, Failed(way.error, << >>))
  BY DEF Advance, Readied, Ways
<1> HIDE DEF s, old
<1>6. CASE old.decision # NoDecision /\ Released(s, finish(s, old.decision, old.carried))
  <2>1. finish(s, old.decision, old.carried) \in Results
        /\ finish(s, old.decision, old.carried).session \in {NoSession, session_ref(s)}
    BY <1>2, <1>4, <1>6, FinishFits
  <2>2. finish(s, old.decision, old.carried).session.id \in {0, s.sid}
    BY <2>1 DEF session_ref, NoSession
  <2> QED BY <1>1, <1>2, <1>6, <2>1, <2>2, ReleasedMoves
<1>7. CASE op' = [op EXCEPT !.pc = "read", !.got = old.carried]
  <2>1. op'.pc = "read"
    BY <1>1, <1>7, OpFits DEF IsOperation, Types
  <2> QED BY <1>1, <1>2, <1>4, <1>7, <2>1, PointMoves
<1>8. ASSUME NEW way \in Ways(op.h), Released(way.s, Failed(way.error, << >>))
      PROVE  Moved /\ op'.pc \in {"charge", "done"} /\ op'.tree = 0 /\ op'.h = 0
  <2>1. Keeps(way.s, s) /\ way.error \in {NoSession, session_ref(s)}
    BY <1>2 DEF Way
  <2>2. way.s \in Sessions /\ way.s.sid = s.sid
    BY <2>1 DEF Keeps
  <2>3. way.error.id \in {0, s.sid} /\ way.error \in Refs /\ << >> \in Seq(Events)
    BY <1>2, <2>1 DEF session_ref, NoSession, Refs, Sessions
  <2>4. Failed(way.error, << >>) \in Results /\ Failed(way.error, << >>).session = way.error
    BY <2>3, FailedFits
  <2> QED BY <1>1, <1>8, <2>2, <2>3, <2>4, ReleasedMoves
<1> QED BY <1>5, <1>6, <1>7, <1>8

LEMMA AdvanceReadsMoves ==
    ASSUME Types, FramesFit, AdvanceReads
    PROVE  Moved /\ (\/ op'.pc \in {"charge", "done"} /\ op'.tree = 0 /\ op'.h = 0
                     \/ op'.pc = "read" /\ op'.h = op.h)
<1> DEFINE d == Decoded(op.h)
           got == op.got \o d.events
<1>1. op.pc = "read" /\ sessions[op.h].out # << >>
  BY DEF AdvanceReads
<1>2. op.h \in Handles /\ op # NoOp /\ op.got \in Seq(Events)
  BY <1>1 DEF Types, Operation, NoOp
<1>3. Handles \subseteq DOMAIN sessions' /\ Decoding(d, Rest(op.h), Frame(op.h), config.flavor)
      /\ Succ(d.s, sessions[op.h], op.h)
  BY <1>1, <1>2, ReadsGrow, DecodedFits DEF Types
<1>4. d.s \in Sessions /\ d.events \in Seq(Events) /\ d.decision \in Decisions
  BY <1>3 DEF Decoding, Decides, Observes, Succ
<1>5. got \in Seq(Events)
  BY <1>2, <1>4
<1>6. \/ Released(d.s, Failed(NoSession, << >>))
      \/ d.decision # NoDecision /\ Released(d.s, finish(d.s, d.decision, got))
      \/ op' = [op EXCEPT !.got = got]
  BY DEF AdvanceReads
<1> HIDE DEF d, got
<1>7. CASE Released(d.s, Failed(NoSession, << >>))
  <2>1. Failed(NoSession, << >>) \in Results /\ Failed(NoSession, << >>).session = NoSession
        /\ NoSession.id = 0
    <3>1. << >> \in Seq(Events) /\ NoSession \in Refs /\ NoSession.id = 0
      BY DEF NoSession, Refs
    <3> QED BY <3>1, FailedFits
  <2> QED BY <1>2, <1>4, <1>7, <2>1, ReleasedMoves
<1>8. CASE d.decision # NoDecision /\ Released(d.s, finish(d.s, d.decision, got))
  <2>1. finish(d.s, d.decision, got) \in Results
        /\ finish(d.s, d.decision, got).session \in {NoSession, session_ref(d.s)}
    BY <1>4, <1>5, <1>8, FinishFits
  <2>2. finish(d.s, d.decision, got).session.id \in {0, d.s.sid}
    BY <2>1 DEF session_ref, NoSession
  <2> QED BY <1>2, <1>4, <1>8, <2>1, <2>2, ReleasedMoves
<1>9. CASE op' = [op EXCEPT !.got = got]
  <2>1. op'.pc = "read"
    BY <1>1, <1>2, <1>9, OpFits DEF IsOperation, Types
  <2> QED BY <1>1, <1>2, <1>3, <1>5, <1>9, <2>1, PointMoves
<1> QED BY <1>6, <1>7, <1>8, <1>9

LEMMA AdvanceFailsMoves ==
    ASSUME Types, AdvanceFails
    PROVE  Moved /\ op'.pc \in {"charge", "done"} /\ op'.tree = 0 /\ op'.h = 0
<1> DEFINE s == sessions[op.h]
           ref == session_ref(s)
<1>1. op.pc = "read" /\ Released(s, Failed(ref, << >>))
  BY DEF AdvanceFails
<1>2. op.h \in Handles /\ op # NoOp
  BY <1>1 DEF Types, Operation, NoOp
<1>3. s \in Sessions
  BY <1>2 DEF Types, Stock
<1>4. ref \in Refs /\ ref.id = s.sid /\ << >> \in Seq(Events)
  <2>1. << >> \in Seq(Events)
    OBVIOUS
  <2>2. s.sid \in Nat /\ s.seq \in Nat
    BY <1>3 DEF Sessions
  <2> QED BY <2>1, <2>2 DEF session_ref, Refs
<1>5. Failed(ref, << >>) \in Results /\ Failed(ref, << >>).session = ref
  BY <1>4, FailedFits
<1> HIDE DEF s, ref
<1> QED BY <1>1, <1>2, <1>3, <1>4, <1>5, ReleasedMoves

(* Of a charge: either it was booked, or the session is out of the registry. *)
LEMMA ChargeMoves ==
    ASSUME Types, Charge
    PROVE  /\ Moved /\ op'.tree \in {op.tree, 0}
           /\ op'.got.session = op.got.session /\ op'.got.events = op.got.events
           /\ \/ UNCHANGED live /\ op'.pc = "done"
              \/ live' = live \ Entry(op.got.session) /\ Entry(op.got.session) = {} /\ op'.pc = "done"
              \/ /\ live' = live \ Entry(op.got.session) /\ op'.pc = "sweep"
                 /\ op'.h \in Entry(op.got.session) /\ op'.tree = op.tree
<1> DEFINE found == Entry(op.got.session)
           failed == Failed(op.got.session, op.got.events)
<1>1. op.pc = "charge" /\ sessions' = sessions
  BY Zenon DEF Charge
<1>2. op # NoOp /\ op.got \in Results /\ op.got.kind = "Completed"
  BY <1>1 DEF Types, Operation, NoOp
<1>3. IsOperation(op)
  BY <1>2, OpFits DEF Types
<1>4. op.got \in [kind : {"Completed"}, session : Refs, events : Seq(Events), answer : Answers]
  BY <1>2 DEF Results, PauseKinds
<1>5. failed \in Results /\ failed.session = op.got.session /\ failed.events = op.got.events
  <2>1. op.got.session \in Refs /\ op.got.events \in Seq(Events)
    BY <1>4
  <2>2. failed.events = op.got.events
    BY DEF Failed
  <2> QED BY <2>1, <2>2, FailedFits
<1>6. PICK tokens \in Costs :
         \/ UNCHANGED live /\ op' = [op EXCEPT !.pc = "done", !.got.answer.tokens = tokens]
         \/ live' = live \ found /\ found = {} /\ Answered(failed)
         \/ live' = live \ found /\ \E h \in found : op' = [op EXCEPT !.pc = "sweep", !.h = h, !.got = failed]
  BY DEF Charge
<1>7. found \subseteq live /\ \A h \in live : h \in Handles /\ h \in Nat
  BY DEF Types, Stock, Entry
<1> HIDE DEF found, failed
<1>8. CASE UNCHANGED live /\ op' = [op EXCEPT !.pc = "done", !.got.answer.tokens = tokens]
  <2> DEFINE got == [op.got EXCEPT !.answer.tokens = tokens]
             answer == [op.got.answer EXCEPT !.tokens = tokens]
  <2>1. op' = [op EXCEPT !.pc = "done", !.got = got]
    BY <1>3, <1>8 DEF IsOperation
  <2>2. tokens \in Nat /\ op.got.answer \in Answers
    BY <1>4
  <2>3. answer \in Answers
    BY <2>2 DEF Answers
  <2>4. got = [op.got EXCEPT !.answer = answer]
    BY <1>4
  <2> HIDE DEF got, answer
  <2>5. got \in Results
    BY <1>4, <2>3, <2>4 DEF Results
  <2>6. got.session = op.got.session /\ got.events = op.got.events
    BY <1>4, <2>4
  <2>7. op'.pc = "done" /\ op'.got = got /\ op'.req = op.req /\ op'.tree = op.tree
    BY <1>3, <2>1 DEF IsOperation
  <2>8. op' \in [pc: Points, req: Requests, h: Nat, tree: Nat, got: {op'.got}]
    BY <1>3, <2>1, <2>7 DEF IsOperation, Points
  <2>9. Operation' /\ op' # NoOp
    BY <2>5, <2>7, <2>8 DEF Operation, IsOperation, NoOp
  <2>10. Moved
    BY <1>1, <2>6, <2>7, <2>9 DEF Moved, Sourced
  <2> QED BY <1>8, <2>6, <2>7, <2>10
<1>9. CASE live' = live \ found /\ found = {} /\ Answered(failed)
  <2>1. Sourced(failed.session)
    BY <1>1, <1>5 DEF Sourced
  <2>2. Moved /\ op'.got = failed /\ op'.tree = 0 /\ op'.pc = "done"
    BY <1>2, <1>5, <1>9, <2>1, AnswerMoves DEF Types
  <2> QED BY <1>5, <1>9, <2>2 DEF found
<1>10. CASE live' = live \ found /\ \E h \in found : op' = [op EXCEPT !.pc = "sweep", !.h = h, !.got = failed]
  <2>1. PICK h \in found : op' = [op EXCEPT !.pc = "sweep", !.h = h, !.got = failed]
    BY <1>10
  <2>2. op'.pc = "sweep" /\ op'.h = h /\ op'.got = failed /\ op'.req = op.req /\ op'.tree = op.tree
    BY <1>3, <2>1 DEF IsOperation
  <2>3. op' \in [pc: Points, req: Requests, h: Nat, tree: Nat, got: {op'.got}]
    BY <1>3, <1>7, <2>1, <2>2 DEF IsOperation, Points
  <2>4. Operation' /\ op' # NoOp
    BY <1>1, <1>5, <1>7, <2>2, <2>3 DEF Operation, IsOperation, NoOp
  <2>5. Moved
    BY <1>1, <1>5, <2>2, <2>4 DEF Moved, Sourced
  <2> QED BY <1>5, <1>10, <2>2, <2>5 DEF found
<1> QED BY <1>6, <1>8, <1>9, <1>10

LEMMA SweepsMove ==
    ASSUME Types, HandlerSweeps
    PROVE  Moved /\ op'.got = op.got /\ op'.pc = "done" /\ op'.tree = 0
<1>1. op.pc = "sweep" /\ Answered(op.got)
  BY DEF HandlerSweeps
<1>2. op # NoOp /\ op.got \in Results
  BY <1>1 DEF Types, Operation, NoOp
<1>3. Sourced(op.got.session)
  BY <1>1 DEF Sourced
<1> QED BY <1>1, <1>2, <1>3, AnswerMoves DEF Types

LEMMA HandlerMoves ==
    ASSUME Types, FramesFit, Handler
    PROVE  Moved
<1>1. CASE Fulfill \/ Prepare \/ Launch
  BY <1>1, FulfillMoves, PrepareMoves, LaunchMoves
<1>2. CASE BeginReads \/ BeginFails \/ Register
  BY <1>2, BeginsMove
<1>3. CASE Advance \/ AdvanceReads \/ AdvanceFails
  BY <1>3, AdvanceMoves, AdvanceReadsMoves, AdvanceFailsMoves
<1>4. CASE Charge \/ HandlerSweeps
  BY <1>4, ChargeMoves, SweepsMove
<1> QED BY <1>1, <1>2, <1>3, <1>4 DEF Handler

(* Of the other steps: the driver takes up a requirement or is done with the future. *)
Taking == op = NoOp /\ \E req \in asked : req.kind = "ExternalSession" /\ op' = Handling("fulfill", req)

LEMMA OthersMove ==
    ASSUME Driver \/ Runtime \/ Host
    PROVE  \/ op' = op \/ op' = NoOp \/ (Taking /\ StartHandler)
BY DEF Driver, Runtime, Host, RuntimeWrites, RuntimeExits, Taking,
       UserMessage, BudgetStops, StartHandler, Deliver, Resolve, LateAnswer, Cancel, Abandon,
       OthersSpend, Reconfigure, HostSweeps, HostCloses, HostClears, Restart, Save

LEMMA TakingFits ==
    ASSUME Types, Taking
    PROVE  Operation' /\ op'.pc = "fulfill" /\ op'.tree = 0 /\ op'.h = 0 /\ op' # NoOp
           /\ op'.req \in asked /\ op'.req.kind = "ExternalSession"
<1>1. PICK req \in asked : req.kind = "ExternalSession" /\ op' = Handling("fulfill", req)
  BY DEF Taking
<1>2. req \in Requests
  BY <1>1 DEF Types, Machinery, Others
<1>3. op' = [pc |-> "fulfill", req |-> req, h |-> 0, tree |-> 0, got |-> << >>]
  BY <1>1 DEF Handling
<1>4. op'.pc = "fulfill" /\ op'.tree = 0 /\ op'.h = 0 /\ op'.req = req
  BY <1>3
<1>5. IsOperation(op')
  BY <1>2, <1>3 DEF IsOperation, Points
<1>6. Operation'
  BY <1>4, <1>5 DEF Operation
<1>7. op' # NoOp
  <2>1. NoOp.pc = "none"
    BY DEF NoOp
  <2> QED BY <1>4, <2>1
<1> QED BY <1>1, <1>4, <1>6, <1>7

LEMMA OperationKept ==
    ASSUME Types, FramesFit, Next
    PROVE  Operation'
<1>1. CASE Handler
  BY <1>1, HandlerMoves DEF Moved
<1>2. CASE Driver \/ Runtime \/ Host
  <2>1. Handles \subseteq DOMAIN sessions'
    BY NextGrows DEF Grown
  <2>2. CASE op' = op
    <3>1. op'.pc = op.pc /\ op'.h = op.h /\ op'.got = op.got /\ (IsOperation(op) => IsOperation(op'))
      BY <2>2
    <3> QED BY <2>1, <2>2, <3>1 DEF Types, Operation
  <2>3. CASE op' = NoOp
    <3>1. op'.pc = "none"
      BY <2>3 DEF NoOp
    <3> QED BY <2>3, <3>1 DEF Operation
  <2> QED BY <1>2, <2>2, <2>3, OthersMove, TakingFits
<1> QED BY <1>1, <1>2 DEF Next

LEMMA AccountsKept ==
    ASSUME Types, FramesFit, Next
    PROVE  Accounts' /\ ledger'.trees >= ledger.trees /\ ledger'.frames >= ledger.frames
<1>1. config' \in Configs
  BY NextGrows DEF Grown, Types, Accounts
<1>2. spent' \in 0..Budget /\ cancelled' \in BOOLEAN
  <2>1. Budget \in Nat /\ spent \in Nat /\ cancelled \in BOOLEAN /\ spent <= Budget
    BY DEF Types, Accounts
  <2>2. CASE Charge
    <3>1. cancelled' = cancelled
      BY <2>2 DEF Charge
    <3>2. \E tokens \in Costs : spent' = spent \/ (spent + tokens <= Budget /\ spent' = spent + tokens)
      BY <2>2 DEF Charge, Charged
    <3> QED BY <2>1, <3>1, <3>2
  <2>3. CASE UserMessage \/ OthersSpend \/ Cancel
    <3>1. spent' = spent \/ spent' = 0 \/ spent' = Budget
      BY <2>3 DEF UserMessage, OthersSpend, Cancel
    <3>2. cancelled' = cancelled \/ cancelled' = TRUE \/ cancelled' = FALSE
      BY <2>3 DEF UserMessage, OthersSpend, Cancel
    <3>3. cancelled' \in BOOLEAN
      BY <2>1, <3>2
    <3>4. spent' \in 0..Budget
      BY <2>1, <3>1
    <3> QED BY <3>3, <3>4
  <2>4. CASE \/ Fulfill \/ Prepare \/ Launch \/ BeginReads \/ BeginFails \/ Register \/ Advance \/ AdvanceReads
             \/ AdvanceFails \/ HandlerSweeps \/ Runtime
             \/ BudgetStops \/ StartHandler \/ Deliver \/ Resolve \/ LateAnswer \/ Abandon
             \/ Reconfigure \/ HostSweeps \/ (\E h \in sweep : HostCloses(h)) \/ HostClears \/ Save \/ Restart
    <3>1. UNCHANGED <<spent, cancelled>>
      BY <2>4 DEF Fulfill, Prepare, Launch, BeginReads, BeginFails, Register, Advance, AdvanceReads,
             AdvanceFails, HandlerSweeps, Runtime, RuntimeWrites, RuntimeExits,
             BudgetStops, StartHandler, Deliver, Resolve, LateAnswer, Abandon,
             Reconfigure, HostSweeps, HostCloses, HostClears, Save, Restart
    <3> QED BY <2>1, <3>1
  <2> QED BY <2>2, <2>3, <2>4 DEF Next, Handler, Driver, Host
<1>3. /\ ledger' \in [prompts: Nat, frames: Nat, troubles: Nat, trees: Nat] /\ ledger'.trees >= ledger.trees
      /\ ledger'.frames >= ledger.frames
      /\ trees' \subseteq 1..ledger'.trees
  <2>1. ledger \in [prompts: Nat, frames: Nat, troubles: Nat, trees: Nat] /\ trees \subseteq 1..ledger.trees
    BY DEF Types, Accounts
  <2>2. ledger.trees \in Nat /\ ledger.frames \in Nat /\ ledger.troubles + 1 \in Nat /\ ledger.frames + 1 \in Nat
        /\ ledger.prompts + 1 \in Nat /\ ledger.trees + 1 \in Nat
    BY <2>1
  <2>3. CASE Prepare
    <3>1. \/ ledger' = ledger /\ trees' = trees
          \/ ledger' = [ledger EXCEPT !.trees = @ + 1] /\ trees' = trees \cup {ledger'.trees}
      BY <2>3 DEF Prepare
    <3>2. CASE ledger' = [ledger EXCEPT !.trees = @ + 1] /\ trees' = trees \cup {ledger'.trees}
      <4> DEFINE k == ledger.trees + 1
      <4>1. ledger' = [ledger EXCEPT !.trees = k] /\ trees' = trees \cup {ledger'.trees} /\ k \in Nat
        BY <2>2, <3>2
      <4> HIDE DEF k
      <4>2. ledger' \in [prompts: Nat, frames: Nat, troubles: Nat, trees: Nat] /\ ledger'.trees = k
            /\ ledger'.frames = ledger.frames
        BY <2>1, <4>1
      <4>3. ledger.trees \in Nat /\ k = ledger.trees + 1
        BY <2>2 DEF k
      <4>5. ledger'.frames >= ledger.frames
        BY <2>2, <4>2
      <4>4. 1..ledger.trees \subseteq 1..k /\ k \in 1..k /\ k >= ledger.trees
        BY <4>3
      <4> QED BY <2>1, <4>1, <4>2, <4>4, <4>5
    <3> QED BY <2>1, <2>2, <3>1, <3>2
  <2>4. CASE ~Prepare
    <3>1. trees' \subseteq trees
      BY <2>4 DEF Next, Handler, Driver, Runtime, Host, GiveUp, cleanup_tree, Close,
             Fulfill, Launch, BeginReads, BeginFails, Register, Advance, AdvanceReads,
             AdvanceFails, Charge, HandlerSweeps, RuntimeWrites, RuntimeExits,
             UserMessage, BudgetStops, StartHandler, Deliver, Resolve, LateAnswer, Cancel, Abandon,
             OthersSpend, Reconfigure, HostSweeps, HostCloses, HostClears, Restart, Save
    <3>2. \/ ledger' = ledger
          \/ ledger' = [ledger EXCEPT !.prompts = @ + 1]
          \/ ledger' = [ledger EXCEPT !.troubles = @ + 1]
          \/ ledger' = [ledger EXCEPT !.frames = ledger.frames + 1]
          \/ ledger' = [[ledger EXCEPT !.frames = ledger.frames + 1] EXCEPT !.troubles = @ + 1]
      BY <2>4 DEF Next, Handler, Driver, Runtime, Host, Troubled,
             Fulfill, Launch, BeginReads, BeginFails, Register, Advance, AdvanceReads,
             AdvanceFails, Charge, HandlerSweeps, RuntimeWrites, RuntimeExits,
             UserMessage, BudgetStops, StartHandler, Deliver, Resolve, LateAnswer, Cancel, Abandon,
             OthersSpend, Reconfigure, HostSweeps, HostCloses, HostClears, Restart, Save
    <3>3. ledger' \in [prompts: Nat, frames: Nat, troubles: Nat, trees: Nat] /\ ledger'.trees = ledger.trees
      BY <2>1, <2>2, <3>2
    <3>6. ledger'.frames = ledger.frames \/ ledger'.frames = ledger.frames + 1
      <4> DEFINE n == ledger.frames + 1
      <4>1. \/ ledger' = ledger
            \/ ledger' = [ledger EXCEPT !.prompts = @ + 1]
            \/ ledger' = [ledger EXCEPT !.troubles = @ + 1]
            \/ ledger' = [ledger EXCEPT !.frames = n]
            \/ ledger' = [[ledger EXCEPT !.frames = n] EXCEPT !.troubles = @ + 1]
        BY <3>2
      <4> HIDE DEF n
      <4>2. ledger'.frames = ledger.frames \/ ledger'.frames = n
        BY <2>1, <4>1
      <4> QED BY <4>2 DEF n
    <3>4. ledger'.trees >= ledger.trees /\ ledger'.frames >= ledger.frames
      BY <2>2, <3>3, <3>6
    <3>5. trees' \subseteq 1..ledger'.trees
      BY <2>1, <3>1, <3>3
    <3> QED BY <3>3, <3>4, <3>5
  <2> QED BY <2>3, <2>4
<1> QED BY <1>1, <1>2, <1>3 DEF Accounts

LEMMA TypesKept ==
    ASSUME Types, FramesFit, OneEach, Next
    PROVE  Types' /\ FramesFit'
<1>1. FramesFit'
  BY NextGrows DEF Grown, FramesFit, Fit
<1> QED BY <1>1, MachineryKept, OperationKept, StockKept, AccountsKept DEF Types

-----------------------------------------------------------------------------
(***************************************************************************)
(* Names, and one session for each.                                        *)
(***************************************************************************)
WillName(id) == id = 0 \/ (id \in DOMAIN sessions' /\ sessions'[id].sid = id)

LEMMA NamesStay ==
    ASSUME Types, NamesFit, Grown
    PROVE  /\ \A id : Names(id) => WillName(id)
           /\ \A h \in Handles : WillName(sessions'[h].sid)
<1>1. \A h \in Handles : h \in DOMAIN sessions' /\ (sessions'[h].sid = sessions[h].sid \/ sessions'[h].sid = h)
  BY DEF Grown, Succ
<1>2. ASSUME NEW id, Names(id) PROVE WillName(id)
  BY <1>1, <1>2 DEF Names, WillName
<1>3. ASSUME NEW h \in Handles PROVE WillName(sessions'[h].sid)
  <2>1. WillName(sessions[h].sid)
    BY <1>2 DEF NamesFit
  <2> QED BY <1>1, <2>1 DEF WillName
<1> QED BY <1>2, <1>3

LEMMA NamesKept ==
    ASSUME Types, FramesFit, NamesFit, Next
    PROVE  NamesFit'
<1>1. /\ \A id : Names(id) => WillName(id)
      /\ \A h \in Handles : WillName(sessions'[h].sid)
  BY NextGrows, NamesStay
<1>2. \A h \in DOMAIN sessions' : WillName(sessions'[h].sid)
  <2>1. CASE DOMAIN sessions' = Handles
    BY <1>1, <2>1
  <2>2. CASE Launch
    <3>1. op.pc = "launch" /\ op # NoOp
      <4>1. op.pc = "launch"
        BY <2>2, Zenon DEF Launch
      <4> QED BY <4>1 DEF NoOp
    <3>2. Launched.s.sid = op.req.session.id
      BY <3>1, LaunchFits
    <3>3. WillName(op.req.session.id)
      BY <1>1, <3>1 DEF NamesFit
    <3>4. \/ DOMAIN sessions' = Handles
          \/ /\ DOMAIN sessions' = Handles \cup {Len(sessions')}
             /\ sessions'[Len(sessions')] = Launched.s
      BY <2>2, LaunchGrows
    <3> QED BY <1>1, <3>2, <3>3, <3>4
  <2> QED BY <2>1, <2>2, NextGrows
<1>3. op' # NoOp => WillName(op'.req.session.id)
  <2>1. CASE Handler
    <3>1. op'.req = op.req
      BY <2>1, HandlerMoves DEF Moved
    <3>2. op # NoOp
      BY <2>1, HandlerStands
    <3> QED BY <1>1, <3>1, <3>2 DEF NamesFit
  <2>2. CASE Driver \/ Runtime \/ Host
    <3>1. Taking => op'.req \in asked /\ op'.req.kind = "ExternalSession"
      BY TakingFits
    <3> QED BY <1>1, <2>2, <3>1, OthersMove DEF NamesFit
  <2> QED BY <2>1, <2>2 DEF Next
<1>4. op'.pc \in {"charge", "sweep", "done"} => WillName(op'.got.session.id)
  <2>1. CASE Handler
    <3>1. op'.pc \in {"charge", "sweep", "done"} => Sourced(op'.got.session)
      BY <2>1, HandlerMoves DEF Moved
    <3>2. op # NoOp
      BY <2>1, HandlerStands
    <3>3. ASSUME NEW session, Sourced(session) PROVE WillName(session.id)
      <4>1. CASE session.id = 0
        BY <4>1 DEF WillName
      <4>2. CASE session = op.req.session \/ (op.pc \in {"charge", "sweep"} /\ session = op.got.session)
        BY <1>1, <3>2, <4>2 DEF NamesFit
      <4>3. CASE op.h \in Handles /\ session.id = sessions'[op.h].sid
        BY <1>1, <4>3
      <4> QED BY <3>3, <4>1, <4>2, <4>3 DEF Sourced
    <3> QED BY <3>1, <3>3
  <2>2. CASE Driver \/ Runtime \/ Host
    <3>1. Taking => op'.pc = "fulfill"
      BY TakingFits
    <3>2. NoOp.pc = "none"
      BY DEF NoOp
    <3> QED BY <1>1, <2>2, <3>1, <3>2, OthersMove DEF NamesFit
  <2> QED BY <2>1, <2>2 DEF Next
<1>5. WillName(m'.session.id) /\ WillName(saved'.session.id)
  <2>1. m'.session \in {m.session, saved.session, op.got.session} /\ (m'.session = op.got.session => Deliver \/ m'.session = m.session \/ m'.session = saved.session)
    BY MachineChanges DEF Left, Took, Lost, Retooled, Restored
  <2>2. Deliver => op.pc = "done"
    BY DEF Deliver
  <2>3. WillName(m'.session.id)
    BY <1>1, <2>1, <2>2 DEF NamesFit
  <2>4. UNCHANGED saved \/ saved' = m
    BY DEF Next, Handler, Driver, Runtime, Host, hosting,
         Fulfill, Prepare, Launch, BeginReads, BeginFails, Register, Advance, AdvanceReads,
         AdvanceFails, Charge, HandlerSweeps, RuntimeWrites, RuntimeExits,
         UserMessage, BudgetStops, StartHandler, Deliver, Resolve, LateAnswer, Cancel, Abandon,
         OthersSpend, Reconfigure, HostSweeps, HostCloses, HostClears, Restart, Save
  <2> QED BY <1>1, <2>3, <2>4 DEF NamesFit
<1>6. \A r \in asked' : r.kind = "ExternalSession" => WillName(r.session.id)
  <2> TAKE r \in asked'
  <2>1. r.kind = "ExternalSession" => r \in asked \/ r.session = m'.session
    BY MachineChanges DEF Left, Took, Lost, Retooled, Restored
  <2> QED BY <1>1, <1>5, <2>1 DEF NamesFit
<1> QED BY <1>2, <1>3, <1>4, <1>5, <1>6 DEF NamesFit, Names, WillName

(* The registry takes a session in only by Register; the host takes over what it held. *)
LEMMA RegistryMoves ==
    ASSUME Next
    PROVE  /\ \/ Register /\ live' = live \cup {op.h}
              \/ ~Register /\ live' \subseteq live
           /\ sweep' \subseteq live \cup sweep /\ dropped' \subseteq dropped \cup live
           /\ Handler => UNCHANGED <<sweep, dropped>>
<1>1. CASE Register
  BY <1>1 DEF Register, hosting, history
<1>2. CASE Handler /\ ~Register
  <2>1. live' \subseteq live
    BY <1>2 DEF Handler, Fulfill, Prepare, Launch, BeginReads, BeginFails, Advance, AdvanceReads,
                AdvanceFails, Charge, HandlerSweeps
  <2>2. UNCHANGED <<sweep, dropped>>
    BY <1>2 DEF Handler, hosting, history, Fulfill, Prepare, Launch, BeginReads, BeginFails, Advance, AdvanceReads,
                AdvanceFails, Charge, HandlerSweeps
  <2> QED BY <1>2, <2>1, <2>2
<1>3. CASE ~Handler
  <2>1. live' \subseteq live /\ sweep' \subseteq live \cup sweep /\ dropped' \subseteq dropped \cup live
    BY <1>3 DEF Next, Driver, Runtime, Host, hosting, history, RuntimeWrites, RuntimeExits, Unanswered,
         UserMessage, BudgetStops, StartHandler, Deliver, Resolve, LateAnswer, Cancel, Abandon,
         OthersSpend, Reconfigure, HostSweeps, HostCloses, HostClears, Restart, Save
  <2> QED BY <1>3, <2>1 DEF Handler
<1> QED BY <1>1, <1>2, <1>3

(* Where the future goes from where it stands. *)
LEMMA PointsFollow ==
    ASSUME Types, FramesFit, Next
    PROVE  /\ op'.pc \in {"begin", "register"} =>
                 \/ op.pc \in {"begin", "register"} /\ op'.h = op.h /\ op'.tree = op.tree
                 \/ Launch /\ op'.h = Len(sessions') /\ op'.tree = op.tree /\ sessions' = Append(sessions, Launched.s)
           /\ op'.pc = "prepare" => op'.req = op.req /\ (op.pc = "prepare" \/ Entry(op.req.session) = {})
           /\ op'.pc = "launch" => op'.req = op.req /\ op.pc \in {"prepare", "launch"}
           /\ op'.pc \in {"prepare", "launch", "begin", "register"} => ~Register
<1>1. CASE Fulfill
  <2>1. ~Register
    BY <1>1 DEF Register, Fulfill
  <2> QED BY <1>1, <2>1, FulfillMoves DEF Moved
<1>2. CASE Prepare
  <2>1. op.pc = "prepare" /\ ~Register
    BY <1>2 DEF Register, Prepare
  <2> QED BY <1>2, <2>1, PrepareMoves DEF Moved
<1>3. CASE Launch
  <2>1. op.pc = "launch" /\ ~Register
    BY <1>3 DEF Register, Launch
  <2> QED BY <1>3, <2>1, LaunchMoves DEF Moved
<1>4. CASE BeginReads \/ BeginFails \/ Register
  <2>1. op.pc \in {"begin", "register"}
    BY <1>4 DEF BeginReads, BeginFails, Register
  <2> QED BY <1>4, <2>1, BeginsMove DEF Moved
<1>5. CASE Advance \/ AdvanceReads \/ AdvanceFails
  BY <1>5, AdvanceMoves, AdvanceReadsMoves, AdvanceFailsMoves
<1>6. CASE Charge \/ HandlerSweeps
  BY <1>6, ChargeMoves, SweepsMove
<1>7. CASE Driver \/ Runtime \/ Host
  <2>1. NoOp.pc = "none"
    BY DEF NoOp
  <2>2. Taking => op'.pc = "fulfill"
    BY TakingFits
  <2>3. CASE op' = op
    <3>1. op'.pc = op.pc /\ op'.h = op.h /\ op'.tree = op.tree /\ op'.req = op.req
      BY <2>3
    <3>2. ~Register
      <4>1. Register => op.pc = "register" /\ op' = [op EXCEPT !.pc = "advance"]
        BY DEF Register
      <4>2. Register => op # NoOp
        BY <2>1, <4>1
      <4>3. Register => op'.pc = "advance"
        BY <4>1, <4>2, OpFits DEF Types, IsOperation
      <4> QED BY <3>1, <4>1, <4>3
    <3> QED BY <3>1, <3>2
  <2> QED BY <1>7, <2>1, <2>2, <2>3, OthersMove
<1> QED BY <1>1, <1>2, <1>3, <1>4, <1>5, <1>6, <1>7 DEF Next, Handler

LEMMA SidsApart ==
    ASSUME Types, NamesFit, Grown, NEW h \in Handles, NEW k \in Handles,
           sessions'[h].sid = sessions'[k].sid, sessions'[h].sid # 0
    PROVE  h = k \/ (sessions[h].sid = sessions[k].sid /\ sessions[h].sid # 0)
<1>1. /\ sessions'[h].sid = sessions[h].sid \/ (sessions[h].sid = 0 /\ sessions'[h].sid = h)
      /\ sessions'[k].sid = sessions[k].sid \/ (sessions[k].sid = 0 /\ sessions'[k].sid = k)
  BY DEF Grown, Succ
<1>2. Names(sessions[h].sid) /\ Names(sessions[k].sid)
  BY DEF NamesFit
<1> QED BY <1>1, <1>2 DEF Names

LEMMA OneEachKept ==
    ASSUME Types, FramesFit, NamesFit, OneEach, Next
    PROVE  OneEach'
<1>1. Grown /\ (Launch \/ DOMAIN sessions' = Handles) /\ Handles \subseteq DOMAIN sessions'
  BY NextGrows DEF Grown
<1>2. /\ live' \subseteq live \cup Coming /\ (~Register => live' \subseteq live)
      /\ sweep' \subseteq live \cup sweep /\ dropped' \subseteq dropped \cup live
      /\ Handler => UNCHANGED <<sweep, dropped>>
  <2>1. Register => op.h \in Coming
    BY DEF Register, Coming
  <2> QED BY <2>1, RegistryMoves
<1>3. live \subseteq Handles /\ sweep \subseteq Handles /\ dropped \subseteq Handles /\ Coming \subseteq Handles
      /\ live \cap sweep = {}
  BY DEF Types, Stock, Operation, Coming
<1>4. ASSUME Launch, op'.pc \in {"begin", "register"}, op'.h = Len(sessions'), sessions' = Append(sessions, Launched.s)
      PROVE  /\ op.pc = "launch" /\ op # NoOp /\ Coming = {} /\ op'.h \notin Handles /\ live' \subseteq live
             /\ sessions'[op'.h].sid = op.req.session.id /\ \A h \in Handles : sessions'[h] = sessions[h]
             /\ sweep' = sweep /\ dropped' = dropped
  <2>1. op.pc = "launch"
    BY <1>4, Zenon DEF Launch
  <2>2. op # NoOp /\ Coming = {} /\ ~Register
    BY <2>1 DEF NoOp, Coming, Register
  <2>3. Launched.s.sid = op.req.session.id /\ Launched.s \in Sessions
    BY <2>1, LaunchFits
  <2>4. Len(sessions') \notin Handles /\ sessions'[Len(sessions')] = Launched.s
        /\ \A h \in Handles : sessions'[h] = sessions[h]
    <3> DEFINE t == Launched.s
    <3>1. t \in Sessions /\ sessions' = Append(sessions, t) /\ sessions \in Seq(Sessions)
      BY <1>4, <2>3 DEF Types, Stock
    <3> HIDE DEF t
    <3>2. Len(sessions') \notin Handles /\ sessions'[Len(sessions')] = t
          /\ \A h \in Handles : sessions'[h] = sessions[h]
      BY <3>1, AppendProperties
    <3> QED BY <3>2 DEF t
  <2>5. Handler
    BY <1>4 DEF Handler
  <2> QED BY <1>2, <1>4, <2>1, <2>2, <2>3, <2>4, <2>5
<1>5. /\ op'.pc \in {"begin", "register"} =>
            \/ op.pc \in {"begin", "register"} /\ op'.h = op.h
            \/ Launch /\ op'.h = Len(sessions') /\ sessions' = Append(sessions, Launched.s)
      /\ op'.pc \in {"prepare", "launch", "begin", "register"} => live' \subseteq live
  BY <1>2, PointsFollow
<1>6. ASSUME NEW h \in live' \cup Coming', NEW k \in live' \cup Coming',
             sessions'[h].sid = sessions'[k].sid, sessions'[h].sid # 0
      PROVE  h = k
  <2>1. CASE Coming' \subseteq Coming
    <3>1. h \in live \cup Coming /\ k \in live \cup Coming
      BY <1>2, <2>1
    <3> QED BY <1>1, <1>3, <1>6, <3>1, SidsApart DEF OneEach
  <2>2. CASE op'.pc \in {"begin", "register"} /\ Launch /\ op'.h = Len(sessions') /\ sessions' = Append(sessions, Launched.s)
    <3>1. /\ op.pc = "launch" /\ Coming = {} /\ live' \subseteq live /\ Coming' = {op'.h}
          /\ sessions'[op'.h].sid = op.req.session.id /\ \A g \in Handles : sessions'[g] = sessions[g]
      BY <1>4, <2>2 DEF Coming
    <3>2. \A g \in live : ~(op.req.session.id # 0 /\ sessions[g].sid = op.req.session.id)
      BY <3>1 DEF OneEach, Entry
    <3>3. CASE h \in live /\ k \in live
      BY <1>3, <1>6, <3>1, <3>3 DEF OneEach
    <3>4. CASE h = op'.h \/ k = op'.h
      BY <1>3, <1>6, <3>1, <3>2, <3>4
    <3> QED BY <3>1, <3>3, <3>4
  <2>3. Coming' \subseteq Coming \/ (op'.pc \in {"begin", "register"} /\ Launch /\ op'.h = Len(sessions') /\ sessions' = Append(sessions, Launched.s))
    BY <1>5 DEF Coming
  <2> QED BY <2>1, <2>2, <2>3
<1>7. op'.pc \in {"prepare", "launch"} => Entry(op.req.session) = {} /\ op'.req = op.req /\ op # NoOp
  <2>1. op'.pc \in {"prepare", "launch"} => op'.req = op.req /\ (op.pc \in {"prepare", "launch"} \/ Entry(op.req.session) = {})
    BY PointsFollow
  <2>2. op'.pc \in {"prepare", "launch"} => op # NoOp
    <3>1. CASE Handler
      BY <3>1, HandlerStands
    <3>2. CASE Driver \/ Runtime \/ Host
      <4>1. Taking => op'.pc = "fulfill"
        BY TakingFits
      <4>2. NoOp.pc = "none"
        BY DEF NoOp
      <4> QED BY <3>2, <4>1, <4>2, OthersMove
    <3> QED BY <3>1, <3>2 DEF Next
  <2> QED BY <2>1, <2>2 DEF OneEach
<1>8. ASSUME op'.pc \in {"prepare", "launch"}, NEW h \in live', op'.req.session.id # 0,
             sessions'[h].sid = op'.req.session.id
      PROVE  FALSE
  <2>1. h \in live /\ h \in Handles
    BY <1>3, <1>5, <1>8
  <2>2. Names(op.req.session.id) /\ op.req = op'.req
    BY <1>7, <1>8 DEF NamesFit
  <2>3. sessions'[h].sid = sessions[h].sid \/ (sessions[h].sid = 0 /\ sessions'[h].sid = h)
    BY <1>1, <2>1 DEF Grown, Succ
  <2>4. sessions[h].sid = op.req.session.id
    BY <1>8, <2>2, <2>3 DEF Names
  <2> QED BY <1>7, <1>8, <2>1, <2>2, <2>4 DEF Entry
<1>9. Coming' \cap (live' \cup sweep' \cup dropped') = {}
  <2>1. CASE op'.pc \notin {"begin", "register"}
    BY <2>1 DEF Coming
  <2>2. CASE op'.pc \in {"begin", "register"} /\ op.pc \in {"begin", "register"} /\ op'.h = op.h
    BY <1>2, <1>5, <2>2 DEF Coming, OneEach
  <2>3. CASE op'.pc \in {"begin", "register"} /\ Launch /\ op'.h = Len(sessions') /\ sessions' = Append(sessions, Launched.s)
    <3>1. Coming' = {op'.h} /\ op'.h \notin Handles /\ live' \subseteq live /\ sweep' = sweep /\ dropped' = dropped
      BY <1>4, <2>3 DEF Coming
    <3> QED BY <1>3, <3>1
  <2> QED BY <1>5, <2>1, <2>2, <2>3
<1>10. op'.pc = "sweep" => op'.h \notin live' \cup sweep'
  <2>1. CASE Fulfill
    BY <1>2, <1>3, <2>1, FulfillMoves DEF Handler
  <2>2. CASE Charge
    <3>1. op'.pc = "sweep" => op'.h \in live /\ live' = live \ Entry(op.got.session) /\ op'.h \in Entry(op.got.session)
      BY <2>2, ChargeMoves DEF Entry
    <3> QED BY <1>2, <1>3, <2>2, <3>1 DEF Handler
  <2>3. CASE Prepare \/ Launch
    BY <2>3, PrepareMoves, LaunchMoves
  <2>4. CASE BeginReads \/ BeginFails \/ Register
    BY <2>4, BeginsMove
  <2>5. CASE Advance \/ AdvanceReads \/ AdvanceFails \/ HandlerSweeps
    BY <2>5, AdvanceMoves, AdvanceReadsMoves, AdvanceFailsMoves, SweepsMove
  <2>6. CASE Driver \/ Runtime \/ Host
    <3>1. Taking => op'.pc = "fulfill"
      BY TakingFits
    <3>2. NoOp.pc = "none"
      BY DEF NoOp
    <3>3. CASE op' = op /\ op'.pc = "sweep"
      <4>1. op'.h = op.h /\ op.pc = "sweep" /\ ~Register
        BY <3>3 DEF Register
      <4> QED BY <1>2, <4>1 DEF OneEach
    <3> QED BY <2>6, <3>1, <3>2, <3>3, OthersMove
  <2> QED BY <2>1, <2>2, <2>3, <2>4, <2>5, <2>6 DEF Next, Handler
<1>11. op'.pc \in {"prepare", "launch"} => Entry(op.req.session)' = {}
  BY <1>8 DEF Entry
<1> QED BY <1>6, <1>9, <1>10, <1>11 DEF OneEach

LEMMA TakenTurnsKept ==
    ASSUME Types, Asking, FramesFit, OneEach, TakenTurnsAreOwedASweep, Next
    PROVE  TakenTurnsAreOwedASweep'
<1>1. CASE Abandon \/ BudgetStops
  <2>1. m.inFlight
    BY <1>1 DEF Abandon, BudgetStops, Asking
  <2>2. m'.cleanup = (m.cleanup \/ m.inFlight)
    BY <1>1, TakenAway DEF Lost, Types
  <2>3. m'.cleanup
    BY <2>1, <2>2
  <2> QED BY <2>3 DEF TakenTurnsAreOwedASweep
<1>2. CASE Restart \/ HostClears
  <2>1. live' = {}
    BY <1>2 DEF Restart, HostClears
  <2> QED BY <2>1 DEF TakenTurnsAreOwedASweep
<1>3. CASE ~(Abandon \/ BudgetStops \/ Restart \/ HostClears)
  <2>1. m'.cleanup = m.cleanup
    BY <1>3, MachineChanges DEF Left, Took, Retooled
  <2>2. dropped' = dropped
    BY <1>3 DEF Next, Handler, Driver, Runtime, Host, history, RuntimeWrites, RuntimeExits,
         Fulfill, Prepare, Launch, BeginReads, BeginFails, Register, Advance, AdvanceReads,
         AdvanceFails, Charge, HandlerSweeps,
         UserMessage, StartHandler, Deliver, Resolve, LateAnswer, Cancel,
         OthersSpend, Reconfigure, HostSweeps, HostCloses, Save
  <2>3. dropped \cap live' \subseteq live
    <3>1. Register => op.h \notin dropped
      BY DEF Register, OneEach, Coming
    <3> QED BY <3>1, RegistryMoves
  <2> QED BY <2>1, <2>2, <2>3 DEF TakenTurnsAreOwedASweep
<1> QED BY <1>1, <1>2, <1>3

-----------------------------------------------------------------------------
(***************************************************************************)
(* Worktrees.                                                              *)
(***************************************************************************)
LEMMA TreesStay ==
    ASSUME Types, FramesFit, Next
    PROVE  \A h \in Handles : h \in DOMAIN sessions' /\ sessions'[h].tree = sessions[h].tree
                              /\ (sessions[h].worst # "Graceful" => sessions'[h].worst # "Graceful")
BY NextGrows DEF Grown, Succ

LEMMA TreeOfTheFuture ==
    ASSUME Types, FramesFit, TreesFit, Next
    PROVE  /\ op'.pc \in {"fulfill", "prepare", "charge", "sweep", "done"} => op'.tree = 0
           /\ op'.pc = "launch" => \/ op'.tree = 0
                                   \/ op.pc = "launch" /\ op'.tree = op.tree /\ DOMAIN sessions' = Handles
                                   \/ Prepare /\ op'.tree = ledger.trees + 1 /\ ledger'.trees = ledger.trees + 1
                                      /\ trees' = trees \cup {ledger.trees + 1}
<1>1. CASE Fulfill
  <2>1. op.pc = "fulfill"
    BY <1>1, Zenon DEF Fulfill
  <2> QED BY <1>1, <2>1, FulfillMoves DEF TreesFit
<1>2. CASE Prepare
  <2>1. op.pc = "prepare"
    BY <1>2 DEF Prepare
  <2> QED BY <1>2, <2>1, PrepareMoves DEF TreesFit
<1>3. CASE Launch \/ BeginReads \/ BeginFails \/ Register
  BY <1>3, LaunchMoves, BeginsMove
<1>4. CASE Advance \/ AdvanceReads \/ AdvanceFails
  BY <1>4, AdvanceMoves, AdvanceReadsMoves, AdvanceFailsMoves
<1>5. CASE Charge \/ HandlerSweeps
  <2>1. op.pc \in {"charge", "sweep"}
    BY <1>5, Zenon DEF Charge, HandlerSweeps
  <2> QED BY <1>5, <2>1, ChargeMoves, SweepsMove DEF TreesFit
<1>6. CASE Driver \/ Runtime \/ Host
  <2>1. NoOp.pc = "none"
    BY DEF NoOp
  <2>2. Taking => op'.pc = "fulfill" /\ op'.tree = 0
    BY TakingFits
  <2>3. CASE op' = op
    <3>1. op'.pc = op.pc /\ op'.tree = op.tree
      BY <2>3
    <3>2. op.pc = "launch" => DOMAIN sessions' = Handles
      <4>1. CASE Launch
        <5>1. op.pc = "launch" => ~Launch
          BY <2>3, <3>1, LaunchMoves
        <5> QED BY <4>1, <5>1
      <4> QED BY <4>1, NextGrows
    <3> QED BY <3>1, <3>2 DEF TreesFit
  <2> QED BY <1>6, <2>1, <2>2, <2>3, OthersMove
<1> QED BY <1>1, <1>2, <1>3, <1>4, <1>5, <1>6 DEF Next, Handler

LEMMA TreesKept ==
    ASSUME Types, FramesFit, TreesFit, Next
    PROVE  TreesFit'
<1>1. \A h \in Handles : h \in DOMAIN sessions' /\ sessions'[h].tree = sessions[h].tree
  BY TreesStay
<1>2. ledger'.trees >= ledger.trees /\ ledger.trees \in Nat /\ ledger'.trees \in Nat
  BY AccountsKept DEF Types, Accounts
<1>3. \A h \in Handles : sessions[h].tree \in 0..ledger.trees
  BY DEF TreesFit
<1>4. \/ DOMAIN sessions' = Handles
      \/ /\ op.pc = "launch" /\ DOMAIN sessions' = Handles \cup {Len(sessions')} /\ Len(sessions') \notin Handles
         /\ sessions'[Len(sessions')].tree = op.tree
  <2>1. Launch => op.pc = "launch"
    BY Zenon DEF Launch
  <2> QED BY <2>1, NextGrows, LaunchGrows, LaunchFits
<1>5. op.pc = "launch" => op.tree \in 0..ledger.trees /\ \A h \in Handles : op.tree # 0 => sessions[h].tree # op.tree
  BY DEF TreesFit
<1>6. \A h \in DOMAIN sessions' : sessions'[h].tree \in 0..ledger'.trees
  <2>1. 0..ledger.trees \subseteq 0..ledger'.trees
    BY <1>2
  <2> QED BY <1>1, <1>3, <1>4, <1>5, <2>1
<1>7. \A h, k \in DOMAIN sessions' : sessions'[h].tree = sessions'[k].tree /\ sessions'[h].tree # 0 => h = k
  BY <1>1, <1>4, <1>5 DEF TreesFit
<1>8. op'.pc \in {"fulfill", "prepare", "charge", "sweep", "done"} => op'.tree = 0
  BY TreeOfTheFuture
<1>9. op'.pc = "launch" => op'.tree \in 0..ledger'.trees
                           /\ \A h \in DOMAIN sessions' : op'.tree # 0 => sessions'[h].tree # op'.tree
  <2>1. CASE op'.pc = "launch" /\ op'.tree = 0
    BY <1>2, <2>1
  <2>2. CASE op.pc = "launch" /\ op'.tree = op.tree /\ DOMAIN sessions' = Handles
    <3>1. 0..ledger.trees \subseteq 0..ledger'.trees
      BY <1>2
    <3> QED BY <1>1, <1>5, <2>2, <3>1
  <2>3. CASE Prepare /\ op'.tree = ledger.trees + 1 /\ ledger'.trees = ledger.trees + 1
    <3>1. DOMAIN sessions' = Handles
      BY <2>3 DEF Prepare
    <3>2. op'.tree \in 0..ledger'.trees
      BY <1>2, <2>3
    <3>3. \A h \in Handles : sessions[h].tree # ledger.trees + 1
      BY <1>2, <1>3
    <3> QED BY <1>1, <2>3, <3>1, <3>2, <3>3
  <2> QED BY <2>1, <2>2, <2>3, TreeOfTheFuture
<1>10. op'.pc \in {"begin", "register"} => op'.tree = sessions'[op'.h].tree
  <2>1. CASE op.pc \in {"begin", "register"} /\ op'.h = op.h /\ op'.tree = op.tree
    <3>1. op.h \in Handles /\ op.tree = sessions[op.h].tree
      BY <2>1 DEF Types, Operation, TreesFit
    <3> QED BY <1>1, <2>1, <3>1
  <2>2. CASE Launch /\ op'.h = Len(sessions') /\ op'.tree = op.tree /\ sessions' = Append(sessions, Launched.s)
    <3>1. op.pc = "launch"
      BY <2>2, Zenon DEF Launch
    <3>2. Launched.s \in Sessions /\ Launched.s.tree = op.tree /\ sessions \in Seq(Sessions)
      BY <3>1, LaunchFits DEF Types, Stock
    <3>3. sessions'[Len(sessions')] = Launched.s
      <4> DEFINE t == Launched.s
      <4>1. t \in Sessions /\ sessions' = Append(sessions, t)
        BY <2>2, <3>2
      <4> HIDE DEF t
      <4>2. sessions'[Len(sessions')] = t
        BY <3>2, <4>1, AppendProperties
      <4> QED BY <4>2 DEF t
    <3> QED BY <2>2, <3>2, <3>3
  <2> QED BY <2>1, <2>2, PointsFollow
<1> QED BY <1>6, <1>7, <1>8, <1>9, <1>10 DEF TreesFit

LEMMA CleanupTakes ==
    ASSUME Accounts, NEW tree, NEW disposition, cleanup_tree(tree, disposition)
    PROVE  /\ trees' \subseteq trees /\ excused \subseteq excused'
           /\ trees' \ excused' \subseteq (trees \ excused) \ {tree}
           /\ \/ trees' = trees
              \/ trees' = trees \ {tree} /\ disposition \notin {"ForcedKill", "Failed"}
<1>1. 0 \notin trees
  <2>1. trees \subseteq 1..ledger.trees /\ ledger.trees \in Nat
    BY DEF Accounts
  <2> QED BY <2>1
<1> QED BY <1>1 DEF cleanup_tree, Sweepable, leaves_residual_side_effects

(* A session is closed: a tree that goes was not spoiled, nor is it by this end. *)
LEMMA CloseTakes ==
    ASSUME Types, SpoiledTreesStay, NEW h \in Handles, NEW end \in Endings, Close(h, end),
           sessions[h].tree \in spoiled => config.flavor \in OneShot /\ sessions[h].worst # "Graceful"
    PROVE  /\ spoiled' \subseteq trees' /\ spoiled' \subseteq spoiled \cup ({sessions[h].tree} \cap trees)
           /\ trees' \subseteq trees /\ excused \subseteq excused'
           /\ trees' \ excused' \subseteq (trees \ excused) \ {sessions[h].tree}
<1> DEFINE closed == shutdown(config.flavor, sessions[h], end)
           tree == sessions[h].tree
<1>1. sessions[h] \in Sessions /\ config.flavor \in Flavors
  BY DEF Types, Stock, Accounts, SetUp
<1>2. /\ closed.disposition \in Dispositions
      /\ end # "Graceful" \/ (config.flavor \in OneShot /\ sessions[h].worst # "Graceful") =>
            closed.disposition # "Graceful"
  BY <1>1, ShutdownFits
<1>3. cleanup_tree(tree, closed.disposition) /\ spoiled' = spoiled \cup Spoils(tree, end)
  BY DEF Close
<1> HIDE DEF closed
<1>4. /\ trees' \subseteq trees /\ excused \subseteq excused'
      /\ trees' \ excused' \subseteq (trees \ excused) \ {tree}
      /\ \/ trees' = trees
         \/ trees' = trees \ {tree} /\ closed.disposition \notin {"ForcedKill", "Failed"}
  BY <1>3, CleanupTakes DEF Types
<1>5. Spoils(tree, end) \subseteq {tree} \cap trees
  BY DEF Spoils
<1>6. spoiled' \subseteq trees'
  <2>1. CASE trees' = trees
    BY <1>3, <1>5, <2>1 DEF SpoiledTreesStay
  <2>2. CASE trees' = trees \ {tree} /\ closed.disposition \notin {"ForcedKill", "Failed"}
    <3>1. closed.disposition = "Graceful"
      BY <1>2, <2>2 DEF Dispositions
    <3>2. end = "Graceful" /\ tree \notin spoiled
      BY <1>2, <3>1
    <3>3. spoiled' = spoiled
      BY <1>3, <3>2 DEF Spoils
    <3> QED BY <2>2, <3>2, <3>3 DEF SpoiledTreesStay
  <2> QED BY <1>4, <2>1, <2>2
<1> QED BY <1>3, <1>4, <1>5, <1>6

(* Trees go, are excused or are spoiled when a session does not come up, when one is closed, *)
(* and when a process is replaced by another.                                                *)
LEMMA TreesMove ==
    ASSUME Next
    PROVE  \/ Prepare /\ UNCHANGED <<excused, spoiled>>
           \/ (Launch \/ BeginReads \/ BeginFails) /\ op'.pc = "done" /\ UNCHANGED spoiled /\ cleanup_tree(op.tree, "Graceful")
           \/ Advance /\ UNCHANGED <<trees, excused>>
           \/ HandlerSweeps \/ (\E h \in sweep : HostCloses(h))
           \/ Abandon /\ UNCHANGED <<trees, spoiled>>
           \/ Restart /\ UNCHANGED <<trees, spoiled>> /\ excused' = excused \cup trees
           \/ UNCHANGED <<trees, excused, spoiled>>
<1>1. CASE Launch \/ BeginReads \/ BeginFails
  <2>1. spoiled' = spoiled
    BY <1>1 DEF Launch, BeginReads, BeginFails, history
  <2>2. UNCHANGED <<trees, excused>> \/ \E result : GiveUp(result)
    BY <1>1 DEF Launch, BeginReads, BeginFails
  <2>3. ASSUME NEW result, GiveUp(result) PROVE op'.pc = "done" /\ cleanup_tree(op.tree, "Graceful")
    BY <2>3 DEF GiveUp, Answered, Handling
  <2> QED BY <1>1, <2>1, <2>2, <2>3
<1>2. CASE Prepare \/ Advance \/ Abandon \/ Restart
  BY <1>2 DEF Prepare, Advance, Abandon, Restart, history
<1>3. CASE HandlerSweeps \/ (\E h \in sweep : HostCloses(h))
  BY <1>3
<1>4. CASE \/ Fulfill \/ Register \/ AdvanceReads \/ AdvanceFails \/ Charge \/ Runtime
           \/ UserMessage \/ BudgetStops \/ StartHandler \/ Deliver \/ Resolve \/ LateAnswer \/ Cancel
           \/ OthersSpend \/ Reconfigure \/ HostSweeps \/ HostClears \/ Save
  <2>1. UNCHANGED <<trees, excused, spoiled>>
    BY <1>4 DEF Fulfill, Register, AdvanceReads, AdvanceFails, Charge, Runtime, RuntimeWrites, RuntimeExits,
         UserMessage, BudgetStops, StartHandler, Deliver, Resolve, LateAnswer, Cancel, history,
         OthersSpend, Reconfigure, HostSweeps, HostClears, Save
  <2> QED BY <2>1
<1> QED BY <1>1, <1>2, <1>3, <1>4 DEF Next, Handler, Driver, Host

(* The process of a turn that came to a bad end is remembered by its session. *)
LEMMA AdvanceSpoils ==
    ASSUME Types, FramesFit, Advance
    PROVE  /\ op.h \in Handles /\ spoiled' \subseteq spoiled \cup ({sessions[op.h].tree} \cap trees)
           /\ spoiled' = spoiled \/ (config.flavor \in OneShot /\ sessions'[op.h].worst # "Graceful")
<1>1. op.pc = "advance"
  BY DEF Advance
<1>2. /\ op.h \in Handles /\ Readied(op.h).tree = sessions[op.h].tree
      /\ \A way \in Ways(op.h) : Way(way, Readied(op.h), config.flavor)
  BY <1>1, ReadiedFits
<1>3. \/ spoiled' = spoiled
      \/ \E way \in Ways(op.h) :
            /\ spoiled' = spoiled \cup Spoils(Readied(op.h).tree, way.end)
            /\ \/ sessions' = [sessions EXCEPT ![op.h] = way.s]
               \/ Released(way.s, Failed(way.error, << >>))
  BY DEF Advance, Readied, Ways
<1>4. ASSUME NEW way \in Ways(op.h), spoiled' = spoiled \cup Spoils(Readied(op.h).tree, way.end),
             \/ sessions' = [sessions EXCEPT ![op.h] = way.s]
             \/ Released(way.s, Failed(way.error, << >>))
      PROVE  /\ spoiled' \subseteq spoiled \cup ({sessions[op.h].tree} \cap trees)
             /\ spoiled' = spoiled \/ (config.flavor \in OneShot /\ sessions'[op.h].worst # "Graceful")
  <2>1. way.end # "Graceful" => config.flavor \in OneShot /\ way.s.worst # "Graceful"
    BY <1>2 DEF Way
  <2>2. way.s \in Sessions
    BY <1>2 DEF Way, Keeps
  <2>3. way.end = "Graceful" => spoiled' = spoiled
    BY <1>4 DEF Spoils
  <2>4. Spoils(Readied(op.h).tree, way.end) \subseteq {sessions[op.h].tree} \cap trees
    BY <1>2 DEF Spoils
  <2>5. sessions'[op.h].worst = way.s.worst
    <3> DEFINE t == way.s
    <3>1. sessions' = [sessions EXCEPT ![op.h] = t] \/ sessions' = [sessions EXCEPT ![op.h] = [t EXCEPT !.run = FALSE]]
      BY <1>4 DEF Released
    <3>2. t \in Sessions
      BY <2>2
    <3> HIDE DEF t
    <3>3. [t EXCEPT !.run = FALSE].worst = t.worst
      BY <3>2 DEF Sessions
    <3>4. sessions'[op.h] = t \/ sessions'[op.h] = [t EXCEPT !.run = FALSE]
      BY <1>2, <3>1
    <3>5. sessions'[op.h].worst = t.worst
      BY <3>3, <3>4
    <3> QED BY <3>5 DEF t
  <2> QED BY <1>4, <2>1, <2>3, <2>4, <2>5
<1> QED BY <1>2, <1>3, <1>4

LEMMA ClosesOne ==
    ASSUME Types, FramesFit, OneEach, SpoilsKnown, SpoiledTreesStay, NEW h,
           (HandlerSweeps /\ h = op.h) \/ (h \in sweep /\ HostCloses(h))
    PROVE  /\ h \in Handles /\ DOMAIN sessions' = Handles
           /\ spoiled' \subseteq trees' /\ spoiled' \subseteq spoiled \cup ({sessions[h].tree} \cap trees)
           /\ trees' \subseteq trees /\ excused \subseteq excused'
           /\ trees' \ excused' \subseteq (trees \ excused) \ {sessions[h].tree}
           /\ live' \cup sweep' \cup Closing' = (live \cup sweep \cup Closing) \ {h}
           /\ op' = op \/ (op.pc = "sweep" /\ op'.pc = "done")
           /\ h \notin Coming /\ h \in live \cup sweep \cup Closing
<1>1. CASE HandlerSweeps /\ h = op.h
  <2>1. op.pc = "sweep" /\ live' = live /\ sweep' = sweep /\ \E end \in Endings : Close(h, end)
    BY <1>1 DEF HandlerSweeps, hosting
  <2>2. op'.pc = "done"
    BY <1>1, SweepsMove
  <2>3. h \in Handles /\ Closing = {h} /\ Closing' = {} /\ Coming = {} /\ h \notin live \cup sweep /\ config' = config
    BY <1>1, <2>1, <2>2 DEF Types, Operation, Closing, Coming, OneEach, HandlerSweeps
  <2>4. sessions[h].tree \in spoiled => config.flavor \in OneShot /\ sessions[h].worst # "Graceful"
    BY <2>3 DEF SpoilsKnown
  <2> QED BY <2>1, <2>2, <2>3, <2>4, CloseTakes, CloseGrows
<1>2. CASE h \in sweep /\ HostCloses(h)
  <2>1. live' = live /\ sweep' = sweep \ {h} /\ (\E end \in Endings : Close(h, end)) /\ op' = op
    BY <1>2 DEF HostCloses
  <2>2. h \in Handles /\ h \notin live \cup Coming \cup Closing /\ Closing' = Closing /\ config' = config
    BY <1>2, <2>1 DEF Types, Stock, Closing, Coming, OneEach, HostCloses
  <2>3. sessions[h].tree \in spoiled => config.flavor \in OneShot /\ sessions[h].worst # "Graceful"
    BY <1>2 DEF SpoilsKnown
  <2> QED BY <1>2, <2>1, <2>2, <2>3, CloseTakes, CloseGrows
<1> QED BY <1>1, <1>2

(* Nobody but the future's own steps takes a session out to close it. *)
LEMMA HeldSessions ==
    ASSUME Types, FramesFit, OneEach, Next
    PROVE  /\ live' \cup sweep' \cup Closing' \subseteq live \cup sweep \cup Closing \cup (IF Register THEN {op.h} ELSE {})
           /\ Register => op.h \in Coming
<1>1. Register => op.h \in Coming
  BY DEF Register, Coming
<1>2. live' \cup sweep' \subseteq live \cup sweep \cup (IF Register THEN {op.h} ELSE {})
  BY RegistryMoves
<1>3. Closing' \subseteq live \cup Closing
  <2>1. CASE Fulfill
    BY <2>1, FulfillMoves DEF Closing
  <2>2. CASE Charge
    BY <2>2, ChargeMoves DEF Closing, Entry
  <2>3. CASE Prepare \/ Launch
    BY <2>3, PrepareMoves, LaunchMoves DEF Closing
  <2>4. CASE BeginReads \/ BeginFails \/ Register
    BY <2>4, BeginsMove DEF Closing
  <2>5. CASE Advance \/ AdvanceReads \/ AdvanceFails \/ HandlerSweeps
    BY <2>5, AdvanceMoves, AdvanceReadsMoves, AdvanceFailsMoves, SweepsMove DEF Closing
  <2>6. CASE Driver \/ Runtime \/ Host
    <3>1. Taking => op'.pc = "fulfill"
      BY TakingFits
    <3>2. NoOp.pc = "none"
      BY DEF NoOp
    <3>3. op' = op => Closing' = Closing
      BY DEF Closing
    <3> QED BY <2>6, <3>1, <3>2, <3>3, OthersMove DEF Closing
  <2> QED BY <2>1, <2>2, <2>3, <2>4, <2>5, <2>6 DEF Next, Handler
<1> QED BY <1>1, <1>2, <1>3

LEMMA SpoilsMove ==
    ASSUME Types, FramesFit, OneEach, SpoilsKnown, SpoiledTreesStay, Next
    PROVE  \/ spoiled' = spoiled
           \/ /\ Advance /\ spoiled' \subseteq spoiled \cup ({sessions[op.h].tree} \cap trees)
              /\ config.flavor \in OneShot /\ sessions'[op.h].worst # "Graceful" /\ op.h \in Handles
           \/ \E h \in Handles :
                 /\ spoiled' \subseteq spoiled \cup ({sessions[h].tree} \cap trees)
                 /\ live' \cup sweep' \cup Closing' = (live \cup sweep \cup Closing) \ {h}
                 /\ op' = op \/ (op.pc = "sweep" /\ op'.pc = "done")
                 /\ h \notin Coming /\ DOMAIN sessions' = Handles
<1>1. CASE Advance
  BY <1>1, AdvanceSpoils
<1>2. CASE HandlerSweeps
  BY <1>2, ClosesOne
<1>3. CASE \E h \in sweep : HostCloses(h)
  <2>1. PICK h \in sweep : HostCloses(h)
    BY <1>3
  <2> QED BY <2>1, ClosesOne
<1> QED BY <1>1, <1>2, <1>3, TreesMove

LEMMA SpoiledTreesKept ==
    ASSUME Types, FramesFit, OneEach, TreesFit, SpoilsKnown, SpoiledTreesStay, Next
    PROVE  SpoiledTreesStay'
<1>1. CASE Prepare
  <2>1. trees \subseteq trees' /\ spoiled' = spoiled
    BY <1>1 DEF Prepare, history
  <2> QED BY <2>1 DEF SpoiledTreesStay
<1>2. CASE (Launch \/ BeginReads \/ BeginFails) /\ UNCHANGED spoiled /\ cleanup_tree(op.tree, "Graceful")
  <2>1. op.pc \in {"launch", "begin"}
    BY <1>2 DEF Launch, BeginReads, BeginFails
  <2>2. op.tree \notin spoiled
    BY <2>1 DEF SpoilsKnown
  <2>3. trees' = trees \/ trees' = trees \ {op.tree}
    BY <1>2, CleanupTakes DEF Types
  <2> QED BY <1>2, <2>2, <2>3 DEF SpoiledTreesStay
<1>3. CASE Advance /\ UNCHANGED trees
  BY <1>3, AdvanceSpoils DEF SpoiledTreesStay
<1>4. CASE HandlerSweeps
  BY <1>4, ClosesOne DEF SpoiledTreesStay
<1>5. CASE \E h \in sweep : HostCloses(h)
  <2>1. PICK h \in sweep : HostCloses(h)
    BY <1>5
  <2> QED BY <2>1, ClosesOne DEF SpoiledTreesStay
<1>6. CASE UNCHANGED <<trees, spoiled>>
  BY <1>6 DEF SpoiledTreesStay
<1> QED BY <1>1, <1>2, <1>3, <1>4, <1>5, <1>6, TreesMove

LEMMA TreesArePositive ==
    ASSUME Accounts
    PROVE  0 \notin trees /\ ledger.trees + 1 \notin trees
<1>1. trees \subseteq 1..ledger.trees /\ ledger.trees \in Nat
  BY DEF Accounts
<1> QED BY <1>1

LEMMA SpoilsKept ==
    ASSUME Types, FramesFit, OneEach, TreesFit, SpoilsKnown, SpoiledTreesStay, Next
    PROVE  SpoilsKnown'
<1>1. 0 \notin trees /\ ledger.trees + 1 \notin trees /\ 0 \notin spoiled'
  <2>1. Accounts' /\ SpoiledTreesStay'
    BY AccountsKept, SpoiledTreesKept
  <2>2. 0 \notin trees'
    <3>1. trees' \subseteq 1..ledger'.trees /\ ledger'.trees \in Nat
      BY <2>1 DEF Accounts
    <3> QED BY <3>1
  <2> QED BY <2>1, <2>2, TreesArePositive DEF Types, SpoiledTreesStay
<1>2. \A h \in Handles : h \in DOMAIN sessions' /\ sessions'[h].tree = sessions[h].tree
                         /\ (sessions[h].worst # "Graceful" => sessions'[h].worst # "Graceful")
  BY TreesStay
<1>3. ASSUME op'.pc \in {"launch", "begin", "register"} PROVE op'.tree \notin spoiled'
  <2>1. CASE op'.tree = 0
    BY <1>1, <2>1
  <2>2. CASE Prepare /\ op'.tree = ledger.trees + 1
    <3>1. spoiled' = spoiled
      BY <2>2 DEF Prepare, history
    <3> QED BY <1>1, <2>2, <3>1 DEF SpoiledTreesStay
  <2>3. CASE op.pc \in {"launch", "begin", "register"} /\ op'.tree = op.tree
    <3>1. op.tree \notin spoiled
      BY <2>3 DEF SpoilsKnown
    <3>2. CASE spoiled' = spoiled
      BY <2>3, <3>1, <3>2
    <3>3. CASE Advance
      BY <2>3, <3>3 DEF Advance
    <3>4. ASSUME NEW h \in Handles, spoiled' \subseteq spoiled \cup ({sessions[h].tree} \cap trees), h \notin Coming
          PROVE  op'.tree \notin spoiled'
      <4>1. op.pc = "launch" => op.tree = 0 \/ op.tree # sessions[h].tree
        BY DEF TreesFit
      <4>2. op.pc \in {"begin", "register"} => op.h \in Handles /\ op.h # h /\ op.tree = sessions[op.h].tree
        BY <3>4 DEF Coming, TreesFit, Types, Operation
      <4>3. op.tree = 0 \/ op.tree # sessions[h].tree
        BY <2>3, <4>1, <4>2 DEF TreesFit
      <4> QED BY <1>1, <2>3, <3>1, <3>4, <4>3
    <3> QED BY <3>2, <3>3, <3>4, SpoilsMove
  <2>4. op'.pc \in {"begin", "register"} => op.pc \in {"launch", "begin", "register"} /\ op'.tree = op.tree
    <3>1. Launch => op.pc = "launch"
      BY Zenon DEF Launch
    <3> QED BY <3>1, PointsFollow
  <2>5. op'.pc = "launch" => op'.tree = 0 \/ (op.pc = "launch" /\ op'.tree = op.tree) \/ (Prepare /\ op'.tree = ledger.trees + 1)
    BY TreeOfTheFuture
  <2> QED BY <1>3, <2>1, <2>2, <2>3, <2>4, <2>5
<1>4. ASSUME NEW k \in live' \cup sweep' \cup Closing', sessions'[k].tree \in spoiled'
      PROVE  config.flavor \in OneShot /\ sessions'[k].worst # "Graceful"
  <2>1. k \in live \cup sweep \cup Closing \/ (Register /\ k = op.h)
    BY HeldSessions
  <2>2. CASE Register /\ k = op.h
    <3>1. op.pc = "register" /\ spoiled' = spoiled
      BY <2>2 DEF Register, history
    <3>2. op.h \in Handles /\ op.tree = sessions[op.h].tree /\ op.tree \notin spoiled
      BY <3>1 DEF Types, Operation, TreesFit, SpoilsKnown
    <3> QED BY <1>2, <1>4, <2>2, <3>1, <3>2
  <2>3. CASE k \in live \cup sweep \cup Closing
    <3>1. k \in Handles
      BY <2>3 DEF Types, Stock, Operation, Closing
    <3>2. CASE sessions[k].tree \in spoiled
      BY <1>2, <2>3, <3>1, <3>2 DEF SpoilsKnown
    <3>3. CASE sessions[k].tree \notin spoiled
      <4>1. ASSUME NEW h \in Handles, spoiled' \subseteq spoiled \cup ({sessions[h].tree} \cap trees)
            PROVE  k = h
        BY <1>1, <1>2, <1>4, <3>1, <3>3, <4>1 DEF TreesFit
      <4> QED BY <1>2, <1>4, <3>1, <3>3, <4>1, SpoilsMove
    <3> QED BY <3>2, <3>3
  <2> QED BY <2>1, <2>2, <2>3
<1>5. config' = config
  BY NextGrows DEF Grown
<1> QED BY <1>3, <1>4, <1>5 DEF SpoilsKnown

(* A tree is held by whoever is to close its session, or by the future that made it. *)
Holds(t) ==
    \/ \E h \in live \cup sweep \cup Closing : sessions[h].tree = t
    \/ op.pc \in {"launch", "begin", "register"} /\ op.tree = t

LEMMA HeldMeans ==
    ASSUME Types, TreesFit, NEW t \in Nat \ {0}
    PROVE  Holds(t) <=>
             \/ \E h \in live \cup sweep : sessions[h].tree = t
             \/ op.pc \in {"launch", "begin", "register", "sweep"}
                  /\ (op.tree = t \/ (op.h # 0 /\ sessions[op.h].tree = t))
<1>1. 0 \notin Handles
  BY DEF Types, Stock
<1>2. op.pc = "sweep" => op.tree = 0 /\ op.h # 0
  BY <1>1 DEF TreesFit, Types, Operation
<1>3. op.pc = "launch" => op.h = 0
  BY DEF Types, Operation
<1>4. op.pc \in {"begin", "register"} => op.tree = sessions[op.h].tree
  BY DEF TreesFit
<1> QED BY <1>2, <1>3, <1>4 DEF Holds, Closing

LEMMA StillHeld ==
    ASSUME Types, FramesFit, Next, NEW t, Holds(t),
           live \cup sweep \cup Closing \subseteq live' \cup sweep' \cup Closing',
           op.pc \in {"launch", "begin", "register"} => op'.pc \in {"launch", "begin", "register"} /\ op'.tree = op.tree
    PROVE  Holds(t)'
<1>1. live \cup sweep \cup Closing \subseteq Handles
  BY DEF Types, Stock, Operation, Closing
<1>2. \A h \in Handles : sessions'[h].tree = sessions[h].tree
  BY TreesStay
<1> QED BY <1>1, <1>2 DEF Holds

LEMMA GivenUp ==
    ASSUME Types, FramesFit, Launch \/ BeginReads \/ BeginFails
    PROVE  /\ \/ op'.pc = "done" /\ cleanup_tree(op.tree, "Graceful")
              \/ op'.pc \in {"begin", "register"} /\ op'.tree = op.tree /\ UNCHANGED <<trees, excused>>
           /\ UNCHANGED <<live, sweep>> /\ op.pc \in {"launch", "begin"}
<1>1. op.pc \in {"launch", "begin"} /\ UNCHANGED <<live, sweep>>
  BY DEF Launch, BeginReads, BeginFails, hosting
<1>2. IsOperation(op)
  <2>1. op # NoOp
    BY <1>1 DEF NoOp
  <2> QED BY <2>1, OpFits DEF Types
<1>3. \/ /\ UNCHANGED <<trees, excused>>
         /\ \/ op' = [op EXCEPT !.h = Len(sessions'), !.pc = IF Launched.prelude THEN "begin" ELSE "register"]
            \/ op' = [op EXCEPT !.pc = "register"]
            \/ op' = op /\ op.pc = "begin"
      \/ \E result : GiveUp(result)
  BY DEF Launch, BeginReads, BeginFails, Launched
<1>4. CASE \E result : GiveUp(result)
  BY <1>1, <1>4 DEF GiveUp, Answered, Handling
<1>5. ASSUME \/ op' = [op EXCEPT !.h = Len(sessions'), !.pc = IF Launched.prelude THEN "begin" ELSE "register"]
             \/ op' = [op EXCEPT !.pc = "register"]
             \/ op' = op /\ op.pc = "begin"
      PROVE  op'.pc \in {"begin", "register"} /\ op'.tree = op.tree
  BY <1>2, <1>5 DEF IsOperation
<1> QED BY <1>1, <1>3, <1>4, <1>5

LEMMA HeldTreesKept ==
    ASSUME Types, FramesFit, OneEach, TreesFit, SpoilsKnown, SpoiledTreesStay, Next,
           \A t \in trees \ excused : Holds(t)
    PROVE  \A t \in trees' \ excused' : Holds(t)'
<1>1. \A h \in live \cup sweep \cup Closing : sessions'[h].tree = sessions[h].tree
  BY TreesStay DEF Types, Stock, Operation, Closing
<1>2. CASE Prepare
  <2>1. op.pc = "prepare" /\ UNCHANGED <<live, sweep, excused>>
    BY <1>2 DEF Prepare, hosting
  <2>2. Closing = {}
    BY <2>1 DEF Closing
  <2>3. \A t \in trees \ excused : Holds(t)'
    BY <2>1, <2>2, StillHeld
  <2>4. CASE UNCHANGED trees
    BY <2>1, <2>3, <2>4
  <2>5. CASE op'.pc = "launch" /\ op'.tree = ledger.trees + 1 /\ trees' = trees \cup {ledger.trees + 1}
    BY <2>1, <2>3, <2>5 DEF Holds
  <2> QED BY <1>2, <2>4, <2>5, PrepareMoves
<1>3. CASE Launch \/ BeginReads \/ BeginFails
  <2>1. /\ \/ op'.pc = "done" /\ cleanup_tree(op.tree, "Graceful")
           \/ op'.pc \in {"begin", "register"} /\ op'.tree = op.tree /\ UNCHANGED <<trees, excused>>
        /\ UNCHANGED <<live, sweep>> /\ op.pc \in {"launch", "begin"}
    BY <1>3, GivenUp
  <2>2. Closing = {}
    BY <2>1 DEF Closing
  <2>3. CASE op'.pc \in {"begin", "register"} /\ op'.tree = op.tree /\ UNCHANGED <<trees, excused>>
    BY <2>1, <2>2, <2>3, StillHeld
  <2>4. CASE op'.pc = "done" /\ cleanup_tree(op.tree, "Graceful")
    <3>1. trees' \ excused' \subseteq (trees \ excused) \ {op.tree}
      BY <2>4, CleanupTakes DEF Types
    <3>2. \A t \in (trees \ excused) \ {op.tree} : \E h \in live \cup sweep : sessions[h].tree = t
      BY <2>2 DEF Holds
    <3> QED BY <1>1, <2>1, <3>1, <3>2 DEF Holds
  <2> QED BY <2>1, <2>3, <2>4
<1>4. CASE Fulfill
  <2>1. op.pc = "fulfill" /\ UNCHANGED <<sweep, trees, excused>>
    BY <1>4, Zenon DEF Fulfill, hosting
  <2>2. Closing = {} /\ live \subseteq live' \cup Closing'
    BY <1>4, <2>1, FulfillMoves DEF Closing
  <2> QED BY <2>1, <2>2, StillHeld
<1>5. CASE Register
  <2>1. op.pc = "register" /\ live' = live \cup {op.h} /\ UNCHANGED <<sweep, trees, excused>>
    BY <1>5 DEF Register, hosting
  <2>2. Closing = {} /\ op.h \in Handles /\ op.tree = sessions[op.h].tree
    BY <2>1 DEF Closing, Types, Operation, TreesFit
  <2>3. sessions'[op.h].tree = sessions[op.h].tree
    BY <2>2, TreesStay
  <2> QED BY <1>1, <2>1, <2>2, <2>3 DEF Holds
<1>6. CASE Advance \/ AdvanceReads \/ AdvanceFails
  <2>1. op.pc \in {"advance", "read"} /\ UNCHANGED <<live, sweep, trees, excused>>
    BY <1>6 DEF Advance, AdvanceReads, AdvanceFails, hosting
  <2>2. Closing = {}
    BY <2>1 DEF Closing
  <2> QED BY <2>1, <2>2, StillHeld
<1>7. CASE Charge
  <2>1. op.pc = "charge" /\ UNCHANGED <<sweep, trees, excused>>
    BY <1>7, Zenon DEF Charge, hosting
  <2>2. \A h, k \in Entry(op.got.session) : h = k
    BY DEF Entry, OneEach
  <2>3. Closing = {} /\ live \subseteq live' \cup Closing'
    BY <1>7, <2>1, <2>2, ChargeMoves DEF Closing
  <2> QED BY <2>1, <2>3, StillHeld
<1>8. ASSUME NEW h, (HandlerSweeps /\ h = op.h) \/ (h \in sweep /\ HostCloses(h))
      PROVE  \A t \in trees' \ excused' : Holds(t)'
  <2>1. /\ trees' \ excused' \subseteq (trees \ excused) \ {sessions[h].tree}
        /\ live' \cup sweep' \cup Closing' = (live \cup sweep \cup Closing) \ {h}
        /\ op' = op \/ (op.pc = "sweep" /\ op'.pc = "done")
    BY <1>8, ClosesOne
  <2>2. ASSUME NEW t \in trees' \ excused' PROVE Holds(t)'
    <3>1. Holds(t) /\ t # sessions[h].tree
      BY <2>1
    <3>2. CASE op.pc \in {"launch", "begin", "register"} /\ op.tree = t
      <4>1. op' = op
        BY <2>1, <3>2
      <4>2. op'.pc = op.pc /\ op'.tree = op.tree
        BY <4>1
      <4> QED BY <3>2, <4>2 DEF Holds
    <3>3. CASE \E k \in live \cup sweep \cup Closing : sessions[k].tree = t
      <4>1. PICK k \in live \cup sweep \cup Closing : sessions[k].tree = t
        BY <3>3
      <4>2. k \in live' \cup sweep' \cup Closing' /\ sessions'[k].tree = t
        BY <1>1, <2>1, <3>1, <4>1
      <4> QED BY <4>2 DEF Holds
    <3> QED BY <3>1, <3>2, <3>3 DEF Holds
  <2> QED BY <2>2
<1>9. CASE HandlerSweeps \/ (\E h \in sweep : HostCloses(h))
  BY <1>8, <1>9
<1>10. CASE Abandon
  <2> DEFINE held == {h \in Handles : op.pc \in {"begin", "register", "sweep", "advance", "read"} /\ op.h = h}
             gone == IF op.pc = "launch" THEN {op.tree} ELSE {sessions[h].tree : h \in held \ (live \cup sweep)}
  <2>1. UNCHANGED <<live, sweep, trees>> /\ excused' = excused \cup gone
    BY <1>10 DEF Abandon, hosting
  <2>2. op.pc = "launch" => op.tree \in gone
    OBVIOUS
  <2>3. op.pc \in {"begin", "register", "sweep"} => op.h \in held \ (live \cup sweep)
    BY DEF Types, Operation, OneEach, Coming
  <2>4. op.pc \in {"begin", "register", "sweep"} => sessions[op.h].tree \in gone
    BY <2>3
  <2> HIDE DEF held, gone
  <2>5. op.pc \in {"begin", "register"} => op.tree = sessions[op.h].tree
    BY DEF TreesFit
  <2>6. ASSUME NEW t \in trees' \ excused' PROVE Holds(t)'
    <3>1. Holds(t) /\ t \notin gone
      BY <2>1, <2>6
    <3>2. \E h \in live \cup sweep : sessions[h].tree = t
      BY <2>2, <2>4, <2>5, <3>1 DEF Holds, Closing
    <3> QED BY <1>1, <2>1, <3>2 DEF Holds
  <2> QED BY <2>6
<1>11. CASE Restart
  <2>1. trees' \ excused' = {}
    BY <1>11 DEF Restart
  <2> QED BY <2>1
<1>12. CASE \/ Runtime \/ Cancel \/ OthersSpend \/ Reconfigure \/ HostSweeps \/ HostClears \/ Save
  <2>1. UNCHANGED <<op, trees, excused>> /\ live \cup sweep \subseteq live' \cup sweep'
    BY <1>12 DEF Runtime, RuntimeWrites, RuntimeExits, Cancel, OthersSpend, Reconfigure, HostSweeps, HostClears,
         Save, hosting
  <2>2. Closing' = Closing
    BY <2>1 DEF Closing
  <2>3. op'.pc = op.pc /\ op'.tree = op.tree
    BY <2>1
  <2> QED BY <2>1, <2>2, <2>3, StillHeld
<1>13. CASE UserMessage \/ BudgetStops \/ StartHandler \/ Deliver \/ Resolve \/ LateAnswer
  <2>1. op.pc \in {"none", "done"} /\ UNCHANGED <<live, sweep, trees, excused>>
    BY <1>13 DEF UserMessage, BudgetStops, StartHandler, Deliver, Resolve, LateAnswer, hosting, NoOp
  <2>2. Closing = {}
    BY <2>1 DEF Closing
  <2> QED BY <2>1, <2>2, StillHeld
<1> QED BY <1>2, <1>3, <1>4, <1>5, <1>6, <1>7, <1>9, <1>10, <1>11, <1>12, <1>13 DEF Next, Handler, Driver, Host

LEMMA NoTreeForgottenKept ==
    ASSUME Types, FramesFit, OneEach, TreesFit, SpoilsKnown, SpoiledTreesStay, NoTreeForgotten, Next
    PROVE  NoTreeForgotten'
<1>1. trees \subseteq Nat \ {0}
  <2>1. trees \subseteq 1..ledger.trees /\ ledger.trees \in Nat
    BY DEF Types, Accounts
  <2> QED BY <2>1
<1>2. \A t \in trees \ excused : Holds(t)
  BY <1>1, HeldMeans DEF NoTreeForgotten
<1>3. \A t \in trees' \ excused' : Holds(t)'
  BY <1>2, HeldTreesKept
<1>4. Types' /\ TreesFit'
  BY TypesKept, TreesKept
<1>5. \A t \in trees' : t \in Nat \ {0}
  <2>1. trees' \subseteq 1..ledger'.trees /\ ledger'.trees \in Nat
    BY <1>4 DEF Types, Accounts
  <2> QED BY <2>1
<1>6. /\ op'.pc = "sweep" => op'.h # 0
      /\ op'.pc \in {"begin", "register"} => op'.tree = sessions'[op'.h].tree
  <2>1. 0 \notin DOMAIN sessions'
    BY <1>4 DEF Types, Stock
  <2> QED BY <1>4, <2>1 DEF TreesFit, Types, Operation
<1>7. ASSUME NEW t \in trees' \ excused'
      PROVE  \/ \E h \in live' \cup sweep' : sessions'[h].tree = t
             \/ op'.pc \in {"launch", "begin", "register", "sweep"}
                  /\ (op'.tree = t \/ (op'.h # 0 /\ sessions'[op'.h].tree = t))
  <2>1. Holds(t)'
    BY <1>3
  <2> QED BY <1>6, <2>1 DEF Holds, Closing
<1> QED BY <1>7 DEF NoTreeForgotten

-----------------------------------------------------------------------------
(***************************************************************************)
(* From the beginning on.                                                  *)
(***************************************************************************)
LEMMA NewMachineFits ==
    ASSUME NEW limit \in Nat, NEW stopOnError \in BOOLEAN, NEW toolIds \in BOOLEAN
    PROVE  LET x == NewMachine({}, limit, stopOnError, toolIds)
           IN  Coherent(x) /\ ~x.inFlight /\ x.session.id = 0
<1> DEFINE x == NewMachine({}, limit, stopOnError, toolIds)
<1>1. /\ x.cursor = At("Idle") /\ x.inFlight = FALSE /\ x.batch = NoBatch /\ x.session = NoSession
      /\ x.tools = {} /\ x.queued = {} /\ x.cleanup = FALSE /\ x.loops = 0 /\ x.turn = 0
      /\ x.committed = << >> /\ x.nextId = 1 /\ x.limit = limit /\ x.stopOnError = stopOnError
      /\ x.toolIds = toolIds
  BY DEF NewMachine
<1>2. At("Idle") \in Cursors /\ NoSession \in Refs /\ << >> \in Seq(Commits) /\ 0 \in Nat /\ 1 \in Nat \ {0}
  BY DEF At, Cursors, NoSession, Refs
<1>3. x \in Machines(NoBatch)
  BY <1>2 DEF Machines, NewMachine
<1> HIDE DEF x
<1>4. IsMachine(x)
  BY <1>1, <1>3, NoBatchFits DEF IsMachine
<1>5. Coherent(x)
  BY <1>1, <1>4 DEF Coherent, has_outstanding_requirement, At
<1>6. ~x.inFlight /\ x.session.id = 0
  BY <1>1 DEF NoSession
<1> QED BY <1>5, <1>6 DEF x

LEMMA CleanInit ==
    ASSUME Init
    PROVE  CleanIInv
<1>1. config \in Configs /\ config \in SetUp
  BY DEF Init
<1>2. config.limit \in Nat /\ config.stopOnError \in BOOLEAN /\ config.toolIds \in BOOLEAN
  BY <1>1 DEF SetUp
<1>3. Coherent(m) /\ ~m.inFlight /\ m.session.id = 0
  <2> DEFINE limit == config.limit
             stop == config.stopOnError
             ids == config.toolIds
  <2>1. limit \in Nat /\ stop \in BOOLEAN /\ ids \in BOOLEAN /\ m = NewMachine({}, limit, stop, ids)
    BY <1>2 DEF Init
  <2> HIDE DEF limit, stop, ids
  <2> QED BY <2>1, NewMachineFits
<1>4. /\ asked = {} /\ op = NoOp /\ sessions = << >> /\ live = {} /\ sweep = {} /\ trees = {} /\ saved = m
      /\ spent = 0 /\ cancelled = FALSE /\ excused = {} /\ spoiled = {} /\ refused = {} /\ dropped = {}
      /\ ledger = [prompts |-> 0, frames |-> 0, troubles |-> 0, trees |-> 0]
  BY DEF Init
<1>5. op.pc = "none" /\ DOMAIN sessions = {}
  BY <1>4 DEF NoOp
<1>6. Machinery
  BY <1>3, <1>4 DEF Machinery
<1>7. Operation
  BY <1>4, <1>5 DEF Operation
<1>8. Stock
  <2>1. << >> \in Seq(Sessions)
    OBVIOUS
  <2> QED BY <1>4, <1>5, <2>1 DEF Stock
<1>9. Accounts
  <2>1. 0 \in Nat /\ 0 \in 0..Budget
    OBVIOUS
  <2> QED BY <1>1, <1>4, <2>1 DEF Accounts
<1>10. Asking /\ FramesFit /\ NamesFit /\ OneEach /\ TreesFit /\ SpoilsKnown
  <2>1. Asking /\ FramesFit
    BY <1>4, <1>5 DEF Asking, FramesFit
  <2>2. NamesFit
    BY <1>3, <1>4, <1>5 DEF NamesFit, Names
  <2>3. OneEach /\ TreesFit /\ SpoilsKnown
    BY <1>4, <1>5 DEF OneEach, TreesFit, SpoilsKnown, Coming, Closing
  <2> QED BY <2>1, <2>2, <2>3
<1>11. TakenTurnsAreOwedASweep /\ NoTreeForgotten /\ SpoiledTreesStay
  BY <1>4 DEF TakenTurnsAreOwedASweep, NoTreeForgotten, SpoiledTreesStay
<1> QED BY <1>6, <1>7, <1>8, <1>9, <1>10, <1>11 DEF CleanIInv, Types

LEMMA CleanStutter ==
    ASSUME CleanIInv, UNCHANGED vars
    PROVE  CleanIInv'
<1>1. UNCHANGED <<config, m, asked, op, sessions, live, sweep, trees, spent, cancelled, saved,
                  excused, spoiled, refused, dropped, ledger>>
  BY DEF vars
<1> USE <1>1
<1>2. (Machinery /\ Operation /\ Stock /\ Accounts) => (Machinery /\ Operation /\ Stock /\ Accounts)'
  <2>1. Machinery => Machinery'
    BY DEF Machinery, Coherent, IsMachine, has_outstanding_requirement
  <2>2. Operation => Operation'
    BY DEF Operation, IsOperation
  <2>3. Stock /\ Accounts => Stock' /\ Accounts'
    BY DEF Stock, Accounts
  <2> QED BY <2>1, <2>2, <2>3
<1>3. Asking /\ FramesFit /\ NamesFit => Asking' /\ FramesFit' /\ NamesFit'
  BY DEF Asking, FramesFit, Fit, NamesFit, Names
<1>4. OneEach /\ TreesFit /\ SpoilsKnown => OneEach' /\ TreesFit' /\ SpoilsKnown'
  BY DEF OneEach, TreesFit, SpoilsKnown, Coming, Closing, Entry
<1>5. TakenTurnsAreOwedASweep /\ NoTreeForgotten /\ SpoiledTreesStay =>
         TakenTurnsAreOwedASweep' /\ NoTreeForgotten' /\ SpoiledTreesStay'
  BY DEF TakenTurnsAreOwedASweep, NoTreeForgotten, SpoiledTreesStay
<1> QED BY <1>2, <1>3, <1>4, <1>5 DEF CleanIInv, Types

LEMMA CleanStep ==
    ASSUME CleanIInv, Next
    PROVE  CleanIInv'
BY TypesKept, AskingKept, NamesKept, OneEachKept, TreesKept, SpoilsKept, TakenTurnsKept,
   NoTreeForgottenKept, SpoiledTreesKept DEF CleanIInv

(* A session whose turn was abandoned or stopped for its budget is marked for the host to *)
(* sweep; an ephemeral worktree nobody holds was left on purpose; one in which a process  *)
(* came to a bad end stays: whatever runtimes, driver and host do, in any order           *)
(* (registry.rs, handler.rs, worktree.rs).                                                *)
THEOREM CleanupCorrect == Spec => []CleanupInv
<1>1. Init => CleanIInv
  BY CleanInit
<1>2. CleanIInv /\ [Next]_vars => CleanIInv'
  BY CleanStep, CleanStutter
<1>3. CleanIInv => CleanupInv
  BY DEF CleanIInv, CleanupInv
<1> QED BY <1>1, <1>2, <1>3, PTL DEF Spec

-----------------------------------------------------------------------------
(***************************************************************************)
(* What a turn asks, and what comes back.                                  *)
(***************************************************************************)

(* A request of the turn.  One that is no prompt answers a question of the session. *)
Wanted(x, r) ==
    /\ r \in Requests /\ r.id = x.cursor.req /\ r.session = x.session
    /\ IF IsPrompt(r.input) THEN r.input.prompt = x.turn
       ELSE r.input.prompt = 0 /\ r.input.asks # 0 /\ r.session.id # 0 /\ InOrder(r.input)

Open(b) == {r \in DOMAIN b.pending : b.pending[r] \notin DOMAIN b.results}

(* The requirement a call of a batch becomes. *)
CallOf(b, r) == [id |-> r, kind |-> IF b.calls[b.pending[r]] = "Spawn" THEN "Subagent" ELSE "Tool"]

Waiting(x) == x.cursor.at \in {"AwaitingInteraction", "AwaitingTool", "AwaitingSubagent"}

(* What is asked is what the cursor waits for. *)
Matches(x, reqs) ==
    /\ ~x.inFlight => reqs = {}
    /\ x.cursor.at = "AwaitingSession" => \E r \in reqs : reqs = {r} /\ Wanted(x, r)
    /\ x.cursor.at = "AwaitingInteraction" => reqs = {[id |-> x.cursor.req, kind |-> "Interaction"]}
    /\ x.cursor.at = "AwaitingSubagent" => reqs = {[id |-> x.cursor.req, kind |-> "Subagent"]}
    /\ x.cursor.at = "AwaitingTool" => reqs = {CallOf(x.batch, r) : r \in Open(x.batch)} /\ x.batch.id = x.cursor.asks
    /\ Waiting(x) => x.session.id # 0 /\ x.cursor.asks # 0

TurnFits ==
    /\ op = NoOp => Matches(m, asked)
    /\ op # NoOp => asked = {} /\ m.cursor.at = "AwaitingSession" /\ Wanted(m, op.req)

(* An answer that may be committed. *)
Due(answer, turn) == answer.sure => answer.of \subseteq {turn}
Kept(x) == \A i \in DOMAIN x.committed :
    /\ Due(x.committed[i].answer, x.committed[i].turn) /\ x.committed[i].answer.tokens <= Budget

Paid ==
    /\ Kept(m) /\ Kept(saved)
    /\ op.pc = "sweep" => op.got.kind = "Failed"
    /\ op.pc \in {"charge", "done"} /\ op.got.kind = "Completed" => Due(op.got.answer, m.turn)
    /\ op.pc = "done" /\ op.got.kind = "Completed" => op.got.answer.tokens <= Budget

Ends == {"Completed", "Failed"}
Quiet(s) == \A i \in DOMAIN s.out : s.out[i].kind \notin PauseKinds

(* Of a pause only one frame is on its way, and the runtime waits for its answer. *)
PausesFit(s) ==
    /\ \A i \in DOMAIN s.out : s.out[i].kind \in PauseKinds =>
          /\ s.asks = s.out[i].n /\ s.asks # 0
          /\ \A j \in DOMAIN s.out : s.out[j].kind \in PauseKinds => j = i
    /\ s.decision.kind \in PauseKinds => s.asks = s.decision.asks /\ s.asks # 0 /\ Quiet(s)

(* Text is followed by the end of its turn. *)
EndComes(s, i) == s.busy # << >> \/ \E j \in DOMAIN s.out : j > i /\ s.out[j].kind \in Ends
TextEnds(s) ==
    ~s.mixed => /\ \A i \in DOMAIN s.out : s.out[i].kind = "Event" => EndComes(s, i)
                /\ s.text # {} => EndComes(s, 0)

(* Nothing in the session is of another prompt. *)
OwnsOnly(s, p) ==
    /\ \A i \in DOMAIN s.busy : s.busy[i] = p
    /\ \A i \in DOMAIN s.out : s.out[i].kind \in {"Event", "Completed"} => s.out[i].for = p
    /\ s.text \subseteq {p}
    /\ s.decision.kind = "Completed" => s.decision.of \subseteq {p}

LaunchFirst(s, flavor) ==
    /\ s.known => s.sid # 0
    /\ s.decision # NoDecision => s.first # 0
    /\ s.first # 0 => OwnsOnly(s, s.first)
    /\ flavor \in {"claude", "scripted"} => s.text = {}
    /\ flavor = "acp" => s.first = 0

Sound(s, flavor) == PausesFit(s) /\ TextEnds(s) /\ LaunchFirst(s, flavor)
SessionsSound == \A h \in Handles : Sound(sessions[h], config.flavor)

Registered ==
    /\ \A h \in live : sessions[h].sid # 0
    /\ op.pc \in {"register", "advance", "read"} => sessions[op.h].sid # 0
    /\ op.pc \in {"advance", "read"} => \A k \in live : sessions[k].sid = sessions[op.h].sid => k = op.h

(* A session resumed without a prompt says nothing. *)
Silent(s) ==
    /\ s.busy = << >> /\ s.asks = 0 /\ s.decision = NoDecision
    /\ \A i \in DOMAIN s.out : s.out[i].kind \notin Ends \cup PauseKinds

SilentAtFirst ==
    op.pc \in {"begin", "register"} => \/ Silent(sessions[op.h])
                                       \/ sessions[op.h].first # 0 /\ IsPrompt(op.req.input)

(* The session waits for the answer to the question a, or is a new process of it. *)
Same(s, a, turn) ==
    /\ s.asks = a \/ (s.asks = 0 /\ s.busy = << >>)
    /\ Quiet(s) /\ s.decision.kind \notin PauseKinds
    /\ ~s.mixed => OwnsOnly(s, turn)

Waits(id, a) == id # 0 /\ a # 0 /\ \A h \in live : sessions[h].sid = id => Same(sessions[h], a, m.turn)

Questions ==
    /\ Waiting(m) => Waits(m.session.id, m.cursor.asks)
    /\ \A r \in asked : r.kind = "ExternalSession" /\ ~IsPrompt(r.input) => Waits(r.session.id, r.input.asks)
    /\ op.pc = "fulfill" /\ ~IsPrompt(op.req.input) => Waits(op.req.session.id, op.req.input.asks)
    /\ op.pc = "advance" /\ ~IsPrompt(op.req.input) => Same(sessions[op.h], op.req.input.asks, m.turn)
    /\ op.pc = "done" /\ op.got.kind \in PauseKinds => Waits(op.got.session.id, op.got.asks)

Reading == op.pc = "read" /\ ~sessions[op.h].mixed => OwnsOnly(sessions[op.h], m.turn)

TurnIInv ==
    /\ TurnFits /\ Paid /\ SessionsSound /\ Registered /\ SilentAtFirst /\ Questions /\ Reading

-----------------------------------------------------------------------------
(***************************************************************************)
(* What a step of the machine asks.                                        *)
(***************************************************************************)

(* The question a step asks for, or answers. *)
Minds(o, id, a) ==
    /\ Waiting(o.m) => o.m.session.id = id /\ o.m.cursor.asks = a
    /\ \A r \in o.reqs : r.kind = "ExternalSession" /\ ~IsPrompt(r.input) => r.session.id = id /\ r.input.asks = a

Raises(x, o, id, a) ==
    /\ Matches(o.m, o.reqs) /\ Minds(o, id, a)
    /\ o.m.inFlight => o.m.turn = x.turn
    /\ Kept(x) => Kept(o.m)

Stops(x, o) == Coherent(o.m) /\ ~o.m.inFlight /\ o.reqs = {} /\ o.m.committed = x.committed

LEMMA StoppedMatches ==
    ASSUME NEW y, Coherent(y), ~y.inFlight
    PROVE  Matches(y, {}) /\ ~Waiting(y)
BY DEF Coherent, has_outstanding_requirement, Matches, Waiting

LEMMA StopsRaises ==
    ASSUME NEW x, NEW o, Stops(x, o), NEW id, NEW a
    PROVE  Raises(x, o, id, a)
BY StoppedMatches DEF Stops, Raises, Minds, Kept

LEMMA SettledKeeps ==
    ASSUME NEW x, IsMachine(x), NEW where
    PROVE  Settled(x, where).committed = x.committed
BY DEF Settled, IsMachine, Machines

LEMMA FailStops ==
    ASSUME NEW x, IsMachine(x), NEW notes
    PROVE  Stops(x, fail_with(x, notes)) /\ Stops(x, fail(x))
<1>1. Coherent(Settled(x, "Error")) /\ ~Settled(x, "Error").inFlight /\ Settled(x, "Error").committed = x.committed
  BY SettledFits, SettledKeeps
<1>2. Stops(x, Outcome(Settled(x, "Error"), notes, {})) /\ Stops(x, Outcome(Settled(x, "Error"), << >>, {}))
  BY <1>1 DEF Stops, Outcome
<1> QED BY <1>2 DEF fail, fail_with

(* What may be handed to the session. *)
Handed(x, input) ==
    IF IsPrompt(input) THEN input.prompt = x.turn
    ELSE input.prompt = 0 /\ input.asks # 0 /\ x.session.id # 0 /\ InOrder(input)

LEMMA BlockRaises ==
    ASSUME NEW x, IsMachine(x), x.inFlight, x.turn # 0, x.batch = NoBatch,
           NEW input \in Inputs, Handed(x, input), NEW id, NEW a,
           ~IsPrompt(input) => x.session.id = id /\ input.asks = a
    PROVE  Raises(x, block_on_session(x, input), id, a)
<1> DEFINE n == x.loops + 1
           y == [x EXCEPT !.loops = n]
           k == x.nextId + 1
           c == [at |-> "AwaitingSession", req |-> x.nextId, asks |-> 0]
           z == [y EXCEPT !.nextId = k, !.cursor = c]
           req == [id |-> x.nextId, kind |-> "ExternalSession", session |-> x.session,
                   input |-> input, tools |-> x.tools]
           o == block_on_session(x, input)
<1>1. x \in Machines(x.batch) /\ IsBatch(x.batch)
  BY DEF IsMachine
<1>2. x.loops \in Nat /\ x.nextId \in Nat \ {0} /\ x.session \in Refs /\ x.tools \in ToolSets
  BY <1>1 DEF Machines
<1>3. n \in Nat /\ k \in Nat \ {0}
  BY <1>2
<1>4. record_decision_loop(x) = y
  BY DEF record_decision_loop
<1> HIDE DEF n
<1>5. y \in Machines(x.batch)
  BY <1>1, <1>3 DEF Machines
<1>6. /\ y.batch = x.batch /\ y.session = x.session /\ y.nextId = x.nextId /\ y.committed = x.committed
      /\ y.tools = x.tools /\ y.inFlight = x.inFlight /\ y.turn = x.turn
  BY <1>1 DEF Machines
<1> HIDE DEF y
<1>7. [At("AwaitingSession") EXCEPT !.req = y.nextId] = c
  BY <1>6 DEF At
<1>8. c.at = "AwaitingSession" /\ c.req = x.nextId
  OBVIOUS
<1> HIDE DEF c, k
<1>9. /\ z.session = x.session /\ z.inFlight = x.inFlight /\ z.turn = x.turn /\ z.cursor = c
      /\ z.committed = x.committed
  BY <1>5, <1>6 DEF Machines
<1>10. o = (IF y.loops > y.limit \/ y.nextId > MaxIds THEN fail(y) ELSE Outcome(z, << >>, {req}))
  <2>1. [y EXCEPT !.nextId = @ + 1, !.cursor = [At("AwaitingSession") EXCEPT !.req = y.nextId]] = z
    BY <1>5, <1>6, <1>7 DEF k, Machines
  <2> QED BY <1>4, <1>6, <2>1 DEF block_on_session
<1> HIDE DEF z, o
<1>11. req \in Requests /\ req.session = x.session /\ req.input = input /\ req.id = x.nextId
  BY <1>2 DEF Requests
<1> HIDE DEF req
<1>12. Wanted(z, req)
  BY <1>8, <1>9, <1>11 DEF Wanted, Handed
<1>13. Raises(x, Outcome(z, << >>, {req}), id, a)
  <2>1. Matches(z, {req}) /\ ~Waiting(z)
    BY <1>8, <1>9, <1>12 DEF Matches, Waiting
  <2>2. Minds(Outcome(z, << >>, {req}), id, a)
    BY <1>11, <2>1 DEF Minds, Outcome
  <2>3. Kept(x) => Kept(z)
    BY <1>9 DEF Kept
  <2> QED BY <1>9, <2>1, <2>2, <2>3 DEF Raises, Outcome
<1>14. Raises(x, fail(y), id, a)
  <2>1. IsMachine(y)
    BY <1>1, <1>5, <1>6 DEF IsMachine
  <2>2. Stops(x, fail(y))
    BY <1>6, <2>1, FailStops DEF Stops
  <2> QED BY <2>2, StopsRaises
<1> QED BY <1>10, <1>13, <1>14 DEF o

(* A message opens a turn, and is all the session is asked. *)
LEMMA StepRaises ==
    ASSUME NEW x, Coherent(x), ~x.inFlight, NEW pivot \in BOOLEAN, NEW prompt \in Nat \ {0}
    PROVE  LET o == step(x, [pivot |-> pivot, prompt |-> prompt])
           IN  Matches(o.m, o.reqs) /\ Minds(o, 0, 0) /\ (Kept(x) => Kept(o.m))
<1> DEFINE tools == IF x.queued = {} THEN x.tools ELSE CHOOSE t \in x.queued : TRUE
           y == IF x.queued = {} THEN x
                ELSE [x EXCEPT !.tools = CHOOSE t \in x.queued : TRUE, !.queued = {}]
           z == [y EXCEPT !.turn = prompt, !.inFlight = TRUE]
           kind == IF y.session.id # 0 THEN "Continue" ELSE "Start"
           input == [kind |-> kind, prompt |-> prompt, asks |-> 0, results |-> << >>]
<1>1. x \in Machines(x.batch) /\ IsBatch(x.batch) /\ x.turn = 0 /\ x.batch = NoBatch
  <2>1. IsMachine(x) /\ x.turn = 0 /\ x.cursor.at # "AwaitingTool"
    BY DEF Coherent, has_outstanding_requirement
  <2> QED BY <2>1 DEF Coherent, IsMachine
<1>2. tools \in ToolSets
  BY <1>1 DEF Machines
<1> HIDE DEF tools
<1>3. y \in Machines(x.batch) /\ y.batch = x.batch /\ y.session = x.session
      /\ y.turn = x.turn /\ y.committed = x.committed
  <2>1. CASE x.queued = {}
    BY <1>1, <2>1
  <2>2. CASE x.queued # {}
    <3>1. y = [x EXCEPT !.tools = tools, !.queued = {}]
      BY <2>2 DEF tools
    <3> HIDE DEF y
    <3>2. y \in Machines(x.batch)
      BY <1>1, <1>2, <3>1 DEF Machines
    <3> QED BY <1>1, <3>1, <3>2 DEF Machines
  <2> QED BY <2>1, <2>2
<1> HIDE DEF y
<1>4. z \in Machines(x.batch) /\ z.batch = x.batch /\ z.session = x.session
      /\ z.turn = prompt /\ z.inFlight = TRUE /\ z.committed = x.committed
  <2>1. z \in Machines(x.batch)
    BY <1>3 DEF Machines
  <2> QED BY <1>3, <2>1 DEF Machines
<1>5. input \in Inputs /\ IsPrompt(input) /\ input.prompt = prompt
  <2>1. << >> \in Seq(Nat \X {"ok", "error"}) /\ 0 \in Nat
    OBVIOUS
  <2> QED BY <2>1 DEF Inputs, IsPrompt
<1>6. begin_user_turn(x, prompt) = block_on_session(z, input)
  <2>1. Input(IF z.session.id # 0 THEN "Continue" ELSE "Start", prompt) = input
    BY <1>3, <1>4 DEF Input
  <2>2. y.turn = 0
    BY <1>1, <1>3
  <2>3. begin_user_turn(x, prompt) =
           IF y.turn # 0 THEN fail(y)
           ELSE block_on_session(z, Input(IF y.session.id # 0 THEN "Continue" ELSE "Start", prompt))
    BY DEF begin_user_turn, y
  <2> QED BY <1>3, <1>4, <2>1, <2>2, <2>3
<1> HIDE DEF z, input
<1>7. Raises(z, block_on_session(z, input), 0, 0) /\ (Kept(x) => Kept(z))
  <2>1. IsMachine(z)
    BY <1>1, <1>4 DEF IsMachine
  <2>2. Handed(z, input)
    BY <1>4, <1>5 DEF Handed
  <2>3. prompt # 0
    OBVIOUS
  <2>4. Kept(x) => Kept(z)
    BY <1>4 DEF Kept
  <2> QED BY <1>1, <1>4, <1>5, <2>1, <2>2, <2>3, <2>4, BlockRaises
<1>8. Raises(x, fail(x), 0, 0)
  BY FailStops, StopsRaises DEF Coherent
<1>9. step(x, [pivot |-> pivot, prompt |-> prompt]) \in {fail(x), block_on_session(z, input)}
  BY <1>6 DEF step
<1> QED BY <1>7, <1>8, <1>9 DEF Raises

LEMMA PauseRaises ==
    ASSUME NEW x, Coherent(x), NEW session \in Refs, NEW result, result.session = session, result.asks \in Nat,
           NEW kind, NEW where,
           \/ kind = "Interaction" /\ where = "AwaitingInteraction"
           \/ kind = "Subagent" /\ where = "AwaitingSubagent",
           NEW notes, NEW ifFailed, x.cursor.at # "AwaitingTool",
           session.id # 0, result.asks # 0
    PROVE  Raises(x, pause_for(x, result, kind, where, notes, ifFailed), session.id, result.asks)
<1> DEFINE n == [x EXCEPT !.session = session]
           c == [at |-> where, req |-> x.nextId, asks |-> result.asks]
           k == x.nextId + 1
           z == [n EXCEPT !.nextId = k, !.cursor = c]
           r == [id |-> x.nextId, kind |-> kind]
           o == pause_for(x, result, kind, where, notes, ifFailed)
<1>1. x \in Machines(x.batch) /\ IsBatch(x.batch)
  BY DEF Coherent, IsMachine
<1>2. c.at = where /\ c.req = x.nextId /\ c.asks = result.asks
  OBVIOUS
<1> HIDE DEF k, c
<1>3. n \in Machines(x.batch) /\ n.batch = x.batch /\ n.session = session /\ n.nextId = x.nextId
      /\ n.inFlight = x.inFlight /\ n.turn = x.turn /\ n.committed = x.committed
  <2>1. n \in Machines(x.batch)
    BY <1>1 DEF Machines
  <2> QED BY <1>1, <2>1 DEF Machines
<1>4. o = (IF ~x.inFlight THEN fail_with(x, ifFailed)
           ELSE IF n.nextId > MaxIds THEN fail_with(n, ifFailed)
           ELSE Outcome([n EXCEPT !.nextId = @ + 1,
                                  !.cursor = [at |-> where, req |-> n.nextId, asks |-> result.asks]],
                        notes, {[id |-> n.nextId, kind |-> kind]}))
  BY DEF pause_for
<1> HIDE DEF n, o
<1>5. [n EXCEPT !.nextId = @ + 1,
                !.cursor = [at |-> where, req |-> n.nextId, asks |-> result.asks]] = z
  BY <1>3 DEF k, c, Machines
<1>6. /\ z.session = session /\ z.inFlight = x.inFlight /\ z.turn = x.turn /\ z.cursor = c
      /\ z.committed = x.committed
  BY <1>3 DEF Machines
<1>7. n.nextId = x.nextId
  BY <1>3
<1> HIDE DEF z
<1>8. ASSUME x.inFlight
      PROVE  Raises(x, Outcome(z, notes, {r}), session.id, result.asks)
  <2>1. Matches(z, {r})
    BY <1>2, <1>6, <1>8 DEF Matches, Waiting
  <2>2. Minds(Outcome(z, notes, {r}), session.id, result.asks)
    BY <1>2, <1>6 DEF Minds, Outcome
  <2>3. Kept(x) => Kept(z)
    BY <1>6 DEF Kept
  <2> HIDE DEF r
  <2> QED BY <1>6, <2>1, <2>2, <2>3 DEF Raises, Outcome
<1>9. Raises(x, fail_with(x, ifFailed), session.id, result.asks)
  BY FailStops, StopsRaises DEF Coherent
<1>10. Raises(x, fail_with(n, ifFailed), session.id, result.asks)
  <2>1. IsMachine(n)
    BY <1>1, <1>3 DEF IsMachine
  <2>2. Stops(x, fail_with(n, ifFailed))
    BY <1>3, <2>1, FailStops DEF Stops
  <2> QED BY <2>2, StopsRaises
<1> QED BY <1>4, <1>5, <1>7, <1>8, <1>9, <1>10 DEF o

LEMMA RespondRaises ==
    ASSUME NEW x, IsMachine(x), x.inFlight, x.turn # 0, x.session.id # 0, NEW b, IsBatch(b), b.id # 0
    PROVE  Raises(x, respond_with_tool_batch(x, b), x.session.id, b.id)
<1> DEFINE y == [x EXCEPT !.batch = NoBatch]
           results == [i \in DOMAIN b.calls |-> b.results[i]]
           input == [kind |-> "RespondToolResults", prompt |-> 0, asks |-> b.id, results |-> results]
<1>1. x \in Machines(x.batch)
  BY DEF IsMachine
<1>2. /\ y \in Machines(NoBatch) /\ y.batch = NoBatch /\ y.session = x.session
      /\ y.inFlight = x.inFlight /\ y.turn = x.turn /\ y.committed = x.committed
  BY <1>1 DEF Machines
<1>3. IsMachine(y)
  BY <1>2, NoBatchFits DEF IsMachine
<1>4. ASSUME DOMAIN b.results = DOMAIN b.calls
      PROVE  Raises(x, block_on_session(y, input), x.session.id, b.id)
  <2>1. b.calls \in Seq(CallKinds) /\ b.id \in Nat
    BY DEF IsBatch
  <2>2. DOMAIN b.calls = 1..Len(b.calls) /\ Len(b.calls) \in Nat
    BY <2>1
  <2>3. ASSUME NEW i \in DOMAIN b.calls PROVE b.results[i] \in Nat \X {"ok", "error"} /\ b.results[i][1] = i
    <3>1. b.results[i] \in {i} \X {"ok", "error"}
      BY <1>4 DEF IsBatch
    <3>2. i \in Nat
      BY <2>2
    <3> QED BY <3>1, <3>2
  <2>4. results \in Seq(Nat \X {"ok", "error"})
    BY <2>2, <2>3
  <2>5. \A i \in DOMAIN results : results[i][1] = i
    BY <2>3
  <2> HIDE DEF results
  <2>6. input \in Inputs /\ input.results = results /\ ~IsPrompt(input) /\ input.asks = b.id /\ input.prompt = 0
    BY <2>1, <2>4 DEF Inputs, IsPrompt
  <2> HIDE DEF input, y
  <2>7. Handed(y, input)
    BY <1>2, <2>5, <2>6 DEF Handed, InOrder
  <2>8. Raises(y, block_on_session(y, input), x.session.id, b.id)
    BY <1>2, <1>3, <2>6, <2>7, BlockRaises
  <2>9. Kept(x) => Kept(y)
    BY <1>2 DEF Kept
  <2> QED BY <1>2, <2>8, <2>9 DEF Raises
<1>5. Raises(x, fail(x), x.session.id, b.id)
  BY FailStops, StopsRaises
<1> QED BY <1>4, <1>5 DEF respond_with_tool_batch

(* The machine that waits for a batch. *)
Batched(z, x, session, b) ==
    /\ IsMachine(z) /\ z.batch = b /\ b # NoBatch /\ z.cursor = [at |-> "AwaitingTool", req |-> 0, asks |-> b.id]
    /\ z.session = session /\ z.inFlight = x.inFlight /\ z.turn = x.turn /\ z.committed = x.committed
    /\ z.cleanup = x.cleanup

(* What a pause for tool calls may come to. *)
Batching(o, x, session, result, notes) ==
    \E n, b, z :
        /\ IsMachine(n) /\ n.batch = NoBatch /\ n.session = session /\ n.inFlight = x.inFlight
        /\ n.turn = x.turn /\ n.committed = x.committed /\ n.cleanup = x.cleanup
        /\ IsBatch(b) /\ b.id = result.asks /\ Open(b) = DOMAIN b.pending
        /\ \/ o = fail_with(x, notes) \/ o = fail_with(n, notes)
           \/ x.inFlight /\ o = respond_with_tool_batch(n, b)
           \/ x.inFlight /\ Batched(z, x, session, b)
              /\ o = Outcome(z, notes, {CallOf(b, r) : r \in DOMAIN b.pending})

LEMMA ToolCallsMean ==
    ASSUME NEW x, Coherent(x), NEW session \in Refs, x.cursor.at # "AwaitingTool",
           NEW result, result.session = session, result.asks \in Nat, result.calls \in Seq(CallKinds), NEW notes
    PROVE  Batching(pause_for_tool_calls(x, result, notes), x, session, result, notes)
<1> DEFINE calls == result.calls
           asked0 == {i \in DOMAIN calls : calls[i] # "BadSpawn"}
           id(i) == x.nextId + Cardinality({j \in asked0 : j < i})
           next == x.nextId + Cardinality(asked0)
           pending == [r \in {id(i) : i \in asked0} |-> CHOOSE i \in asked0 : id(i) = r]
           results == [i \in DOMAIN calls \ asked0 |-> <<i, "error">>]
           b == [id |-> result.asks, calls |-> calls, pending |-> pending, results |-> results]
           c == [at |-> "AwaitingTool", req |-> 0, asks |-> result.asks]
           n == [x EXCEPT !.session = session]
           z == [n EXCEPT !.nextId = next, !.batch = b, !.cursor = c]
           reqs == {[id |-> r, kind |-> IF calls[b.pending[r]] = "Spawn" THEN "Subagent" ELSE "Tool"] :
                        r \in DOMAIN b.pending}
           o == pause_for_tool_calls(x, result, notes)
<1>1. x \in Machines(x.batch) /\ IsBatch(x.batch) /\ x.batch = NoBatch
  BY DEF Coherent, IsMachine
<1>2. x.nextId \in Nat \ {0}
  BY <1>1 DEF Machines
<1>3. n \in Machines(x.batch) /\ n.batch = x.batch /\ n.cleanup = x.cleanup /\ n.session = session
      /\ n.nextId = x.nextId /\ n.inFlight = x.inFlight /\ n.turn = x.turn /\ n.committed = x.committed
  <2>1. n \in Machines(x.batch)
    BY <1>1 DEF Machines
  <2> QED BY <1>1, <2>1 DEF Machines
<1>4. asked0 \subseteq 1..Len(calls) /\ Len(calls) \in Nat /\ DOMAIN calls = 1..Len(calls)
  OBVIOUS
<1>5. /\ \A i \in asked0 : id(i) \in Nat \ {0}
      /\ next \in Nat \ {0}
  <2> HIDE DEF asked0
  <2>1. /\ \A i \in asked0 : id(i) \in Nat \ {0}
        /\ Cardinality(asked0) \in Nat
    BY <1>2, <1>4, IdsOfCalls
  <2>2. next \in Nat \ {0}
    BY <1>2, <2>1
  <2> QED BY <2>1, <2>2
<1>6. IsBatch(b) /\ b.id = result.asks /\ b.calls = calls /\ Open(b) = DOMAIN b.pending
  <2>1. /\ DOMAIN pending = {id(i) : i \in asked0}
        /\ \A r \in DOMAIN pending : pending[r] \in asked0 /\ id(pending[r]) = r
    OBVIOUS
  <2>2. DOMAIN pending \subseteq Nat \ {0}
    BY <1>5, <2>1
  <2>3. DOMAIN results = DOMAIN calls \ asked0 /\ \A i \in DOMAIN results : results[i] \in {i} \X {"ok", "error"}
    OBVIOUS
  <2>4. asked0 \subseteq DOMAIN calls
    OBVIOUS
  <2>5. calls \in Seq(CallKinds)
    OBVIOUS
  <2> HIDE DEF pending, results, calls, id, asked0
  <2>6. b.pending = pending /\ b.results = results /\ b.calls = calls /\ b.id = result.asks
        /\ b \in [id: Nat, calls: Seq(CallKinds), pending: {pending}, results: {results}]
    BY <2>5
  <2> HIDE DEF b
  <2>7. Open(b) = DOMAIN b.pending
    BY <2>1, <2>3, <2>6 DEF Open
  <2> QED BY <2>1, <2>2, <2>3, <2>4, <2>6, <2>7 DEF IsBatch
<1>7. o = (IF ~n.inFlight \/ calls = << >> THEN fail_with(x, notes)
           ELSE IF asked0 # {} /\ (~n.toolIds \/ next > MaxIds + 1) THEN fail_with(n, notes)
           ELSE IF asked0 = {} THEN respond_with_tool_batch(n, b)
           ELSE Outcome(z, notes, reqs))
  <2> DEFINE p == [r \in {n.nextId + Cardinality({j \in asked0 : j < i}) : i \in asked0} |->
                      CHOOSE i \in asked0 : n.nextId + Cardinality({j \in asked0 : j < i}) = r]
             bb == [id |-> result.asks, calls |-> calls, pending |-> p, results |-> results]
  <2>1. n.nextId + Cardinality(asked0) = next
    BY <1>3
  <2>2. p = pending
    <3>1. n.nextId = x.nextId
      BY <1>3
    <3> HIDE DEF n, asked0
    <3> QED BY <3>1
  <2>3. [At("AwaitingTool") EXCEPT !.asks = bb.id] = c
    BY DEF At
  <2>4. n = [x EXCEPT !.session = result.session]
    OBVIOUS
  <2>5. o = (IF ~n.inFlight \/ calls = << >> THEN fail_with(x, notes)
             ELSE IF asked0 # {} /\ (~n.toolIds \/ n.nextId + Cardinality(asked0) > MaxIds + 1) THEN fail_with(n, notes)
             ELSE IF asked0 = {} THEN respond_with_tool_batch(n, bb)
             ELSE Outcome([n EXCEPT !.nextId = n.nextId + Cardinality(asked0), !.batch = bb,
                                    !.cursor = [At("AwaitingTool") EXCEPT !.asks = bb.id]],
                          notes,
                          {[id |-> r, kind |-> IF calls[bb.pending[r]] = "Spawn" THEN "Subagent" ELSE "Tool"] :
                             r \in DOMAIN bb.pending}))
    <3> HIDE DEF n
    <3> QED BY <2>4 DEF pause_for_tool_calls
  <2>6. bb = b
    BY <2>2
  <2> HIDE DEF n, p, bb, o, asked0, next, results, b, c, calls
  <2>7. o = (IF ~n.inFlight \/ calls = << >> THEN fail_with(x, notes)
             ELSE IF asked0 # {} /\ (~n.toolIds \/ next > MaxIds + 1) THEN fail_with(n, notes)
             ELSE IF asked0 = {} THEN respond_with_tool_batch(n, b)
             ELSE Outcome([n EXCEPT !.nextId = next, !.batch = b, !.cursor = c], notes, reqs))
    BY <2>1, <2>3, <2>5, <2>6
  <2> QED BY <2>7
<1>8. b # NoBatch \/ asked0 = {}
  <2>1. NoBatch.calls = << >> /\ DOMAIN << >> = {}
    BY DEF NoBatch
  <2> QED BY <2>1
<1>9. reqs = {CallOf(b, r) : r \in DOMAIN b.pending}
  <2>1. b.calls = calls
    OBVIOUS
  <2> HIDE DEF b, calls
  <2> QED BY <2>1 DEF CallOf
<1>10. next \in Nat \ {0} /\ c \in Cursors /\ c = [at |-> "AwaitingTool", req |-> 0, asks |-> b.id]
  BY <1>5, <1>6 DEF Cursors
<1> HIDE DEF b, next, c, reqs, asked0, calls, o, n
<1>11. z \in Machines(b)
  BY <1>3, <1>10 DEF Machines
<1>12. /\ z.batch = b /\ z.cleanup = x.cleanup /\ z.session = session
       /\ z.inFlight = x.inFlight /\ z.turn = x.turn /\ z.cursor = c /\ z.committed = x.committed
  BY <1>3 DEF Machines
<1> HIDE DEF z
<1>13. IsMachine(z) /\ IsMachine(n)
  BY <1>1, <1>3, <1>6, <1>11, <1>12 DEF IsMachine
<1>14. b # NoBatch => Batched(z, x, session, b)
  BY <1>10, <1>12, <1>13 DEF Batched
<1>15. \/ o = fail_with(x, notes) \/ o = fail_with(n, notes)
       \/ x.inFlight /\ o = respond_with_tool_batch(n, b)
       \/ x.inFlight /\ Batched(z, x, session, b)
          /\ o = Outcome(z, notes, {CallOf(b, r) : r \in DOMAIN b.pending})
  BY <1>3, <1>7, <1>8, <1>9, <1>14
<1>16. /\ IsMachine(n) /\ n.batch = NoBatch /\ n.session = session /\ n.inFlight = x.inFlight
       /\ n.turn = x.turn /\ n.committed = x.committed /\ n.cleanup = x.cleanup
  BY <1>1, <1>3, <1>13
<1>17. Batching(o, x, session, result, notes)
  BY <1>6, <1>15, <1>16 DEF Batching
<1> QED BY <1>17 DEF o

LEMMA ToolCallsRaise ==
    ASSUME NEW x, Coherent(x), NEW session \in Refs, x.cursor.at # "AwaitingTool",
           NEW result, result.session = session, result.asks \in Nat, result.calls \in Seq(CallKinds), NEW notes,
           session.id # 0, result.asks # 0
    PROVE  Raises(x, pause_for_tool_calls(x, result, notes), session.id, result.asks)
<1> DEFINE o == pause_for_tool_calls(x, result, notes)
           id == session.id
           a == result.asks
<1>0. Batching(o, x, session, result, notes)
  BY ToolCallsMean
<1> HIDE DEF o
<1>1. PICK n, b, z :
              /\ IsMachine(n) /\ n.batch = NoBatch /\ n.session = session /\ n.inFlight = x.inFlight
              /\ n.turn = x.turn /\ n.committed = x.committed /\ n.cleanup = x.cleanup
              /\ IsBatch(b) /\ b.id = a /\ Open(b) = DOMAIN b.pending
              /\ \/ o = fail_with(x, notes) \/ o = fail_with(n, notes)
                 \/ x.inFlight /\ o = respond_with_tool_batch(n, b)
                 \/ x.inFlight /\ Batched(z, x, session, b)
                    /\ o = Outcome(z, notes, {CallOf(b, r) : r \in DOMAIN b.pending})
  BY <1>0 DEF Batching
<1> DEFINE reqs == {CallOf(b, r) : r \in DOMAIN b.pending}
<1>2. Raises(x, fail_with(x, notes), id, a)
  BY FailStops, StopsRaises DEF Coherent
<1>3. Raises(x, fail_with(n, notes), id, a)
  <2>1. Stops(x, fail_with(n, notes))
    BY <1>1, FailStops DEF Stops
  <2> QED BY <2>1, StopsRaises
<1>4. x.inFlight => Raises(x, respond_with_tool_batch(n, b), id, a)
  <2> HAVE x.inFlight
  <2>1. n.inFlight /\ n.turn # 0 /\ n.session.id # 0 /\ b.id # 0
    BY <1>1 DEF Coherent
  <2>2. Raises(n, respond_with_tool_batch(n, b), id, a)
    BY <1>1, <2>1, RespondRaises
  <2>3. Kept(x) => Kept(n)
    BY <1>1 DEF Kept
  <2> QED BY <1>1, <2>2, <2>3 DEF Raises
<1>5. x.inFlight /\ Batched(z, x, session, b) => Raises(x, Outcome(z, notes, reqs), id, a)
  <2> SUFFICES ASSUME x.inFlight, Batched(z, x, session, b)
               PROVE  Raises(x, Outcome(z, notes, reqs), id, a)
    OBVIOUS
  <2>1. reqs = {CallOf(z.batch, r) : r \in Open(z.batch)} /\ z.batch.id = z.cursor.asks
    BY <1>1 DEF Batched
  <2>2. \A r \in reqs : r.kind # "ExternalSession"
    BY DEF CallOf
  <2> HIDE DEF reqs
  <2>3. Matches(z, reqs)
    BY <1>1, <2>1 DEF Matches, Waiting, Batched
  <2>4. Minds(Outcome(z, notes, reqs), id, a)
    BY <1>1, <2>2 DEF Minds, Outcome, Batched
  <2>5. Kept(x) => Kept(z)
    BY DEF Kept, Batched
  <2> QED BY <2>3, <2>4, <2>5 DEF Raises, Outcome, Batched
<1> HIDE DEF id, a, reqs
<1>6. Raises(x, o, id, a)
  <2>1. \/ o = fail_with(x, notes) \/ o = fail_with(n, notes)
        \/ x.inFlight /\ o = respond_with_tool_batch(n, b)
        \/ x.inFlight /\ Batched(z, x, session, b) /\ o = Outcome(z, notes, reqs)
    BY <1>1 DEF reqs
  <2> QED BY <1>2, <1>3, <1>4, <1>5, <2>1
<1> QED BY <1>6 DEF o, id, a

LEMMA CompleteRaises ==
    ASSUME NEW x, Coherent(x), NEW result \in Results, result.kind = "Completed", NEW notes,
           x.cursor.at # "AwaitingTool", Due(result.answer, x.turn), result.answer.tokens <= Budget,
           NEW id, NEW a
    PROVE  Raises(x, complete_session(x, result, notes), id, a)
<1> DEFINE commit == [turn |-> x.turn, answer |-> result.answer]
           committed == Append(x.committed, commit)
           c == At("Done")
           y == [x EXCEPT !.inFlight = FALSE, !.session = result.session, !.turn = 0,
                          !.committed = committed, !.cursor = c]
           o == complete_session(x, result, notes)
<1>1. x \in Machines(x.batch) /\ x.committed \in Seq(Commits)
  <2>1. x \in Machines(x.batch)
    BY DEF Coherent, IsMachine
  <2> QED BY <2>1 DEF Machines
<1>2. /\ Len(committed) = Len(x.committed) + 1 /\ DOMAIN committed = 1..(Len(x.committed) + 1)
      /\ Len(x.committed) \in Nat
      /\ \A i \in 1..Len(x.committed) : committed[i] = x.committed[i]
      /\ committed[Len(x.committed) + 1] = commit
  BY <1>1, AppendProperties
<1>3. commit.turn = x.turn /\ commit.answer = result.answer /\ c.at = "Done"
  BY DEF At
<1> HIDE DEF commit, committed, c
<1>4. y.inFlight = FALSE /\ y.committed = committed
  BY <1>1 DEF Machines
<1>5. MachineStep(x, o, result.session)
  BY CompleteFits
<1>6. o \in {fail(x), Outcome(y, notes, {})}
  BY DEF complete_session, y, committed, commit, c
<1> HIDE DEF y, o
<1>7. CASE o = Outcome(y, notes, {})
  <2>1. o.m = y /\ o.reqs = {}
    BY <1>7 DEF Outcome
  <2>2. Matches(o.m, o.reqs) /\ ~Waiting(o.m)
    BY <1>4, <1>5, <2>1, StoppedMatches DEF MachineStep
  <2>3. Kept(x) => Kept(y)
    <3> SUFFICES ASSUME Kept(x), NEW i \in DOMAIN y.committed
                 PROVE  Due(y.committed[i].answer, y.committed[i].turn) /\ y.committed[i].answer.tokens <= Budget
      BY DEF Kept
    <3>1. CASE i = Len(x.committed) + 1
      BY <1>2, <1>3, <1>4, <3>1
    <3>2. CASE i # Len(x.committed) + 1
      <4>1. i \in 1..Len(x.committed) /\ DOMAIN x.committed = 1..Len(x.committed)
        <5> DEFINE n == Len(x.committed)
        <5>1. DOMAIN x.committed = 1..n /\ n \in Nat
          BY <1>1
        <5>2. i \in 1..(n + 1) /\ i # n + 1
          BY <1>2, <1>4, <3>2
        <5> HIDE DEF n
        <5>3. i \in 1..n
          BY <5>1, <5>2
        <5> QED BY <5>1, <5>3 DEF n
      <4>2. y.committed[i] = x.committed[i]
        BY <1>2, <1>4, <4>1
      <4> QED BY <4>1, <4>2 DEF Kept
    <3> QED BY <3>1, <3>2
  <2> QED BY <1>4, <2>1, <2>2, <2>3 DEF Raises, Minds, o
<1>8. CASE o = fail(x)
  BY <1>8, FailStops, StopsRaises DEF Coherent, o
<1> QED BY <1>6, <1>7, <1>8 DEF o

(* What the session came back with: an answer that may be committed, or a question. *)
Honest(result, turn) ==
    /\ result.kind = "Completed" => Due(result.answer, turn) /\ result.answer.tokens <= Budget
    /\ result.kind \in PauseKinds => result.session.id # 0 /\ result.asks # 0

LEMMA FoldRaises ==
    ASSUME NEW x, Coherent(x), NEW result \in Results, x.cursor.at # "AwaitingTool", Honest(result, x.turn),
           NEW a, result.kind \in PauseKinds => a = result.asks
    PROVE  Raises(x, fold_session_result(x, result), result.session.id, a)
<1> DEFINE notes == observe(x, result.events)
           id == result.session.id
<1> HIDE DEF notes
<1>1. result.session \in Refs /\ result.kind \in {"Failed", "Completed"} \cup PauseKinds
  BY DEF Results
<1>2. result.kind \in PauseKinds => result.asks \in Nat /\ result.calls \in Seq(CallKinds)
  BY DEF Results, PauseKinds
<1>3. CASE result.kind = "Completed"
  <2>1. Raises(x, complete_session(x, result, notes), id, a)
    BY <1>3, CompleteRaises DEF Honest
  <2> QED BY <1>3, <2>1 DEF fold_session_result, notes
<1>4. CASE result.kind = "Interaction"
  <2>1. result.asks \in Nat /\ result.session.id # 0 /\ result.asks # 0 /\ a = result.asks
    BY <1>2, <1>4 DEF PauseKinds, Honest
  <2>2. Raises(x, pause_for(x, result, "Interaction", "AwaitingInteraction", notes, << >>), id, result.asks)
    BY <1>1, <2>1, PauseRaises
  <2> QED BY <1>4, <2>1, <2>2 DEF fold_session_result, notes, pause_for_interaction
<1>5. CASE result.kind = "Subagent"
  <2>1. result.asks \in Nat /\ result.session.id # 0 /\ result.asks # 0 /\ a = result.asks
    BY <1>2, <1>5 DEF PauseKinds, Honest
  <2>2. Raises(x, pause_for(x, result, "Subagent", "AwaitingSubagent", notes, notes), id, result.asks)
    BY <1>1, <2>1, PauseRaises
  <2> QED BY <1>5, <2>1, <2>2 DEF fold_session_result, notes, pause_for_subagent
<1>6. CASE result.kind = "ToolCalls"
  <2>1. result.asks \in Nat /\ result.calls \in Seq(CallKinds) /\ result.session.id # 0 /\ result.asks # 0
        /\ a = result.asks
    BY <1>2, <1>6 DEF PauseKinds, Honest
  <2>2. Raises(x, pause_for_tool_calls(x, result, notes), id, result.asks)
    BY <1>1, <2>1, ToolCallsRaise
  <2> QED BY <1>6, <2>1, <2>2 DEF fold_session_result, notes
<1>7. CASE result.kind = "Failed"
  <2> DEFINE n == [x EXCEPT !.session = result.session]
             y == IF result.session.id = 0 THEN x ELSE n
  <2>1. IsMachine(x) /\ x \in Machines(x.batch)
    BY DEF Coherent, IsMachine
  <2>2. IsMachine(n) /\ n.committed = x.committed
    <3>1. n \in Machines(x.batch)
      BY <1>1, <2>1 DEF Machines
    <3>2. n.batch = x.batch /\ n.committed = x.committed
      BY <2>1 DEF Machines
    <3> HIDE DEF n
    <3> QED BY <2>1, <3>1, <3>2 DEF IsMachine
  <2> HIDE DEF n
  <2>3. Stops(x, fail_with(n, notes)) /\ Stops(x, fail_with(x, notes))
    BY <2>1, <2>2, FailStops DEF Stops
  <2>4. Raises(x, fail_with(y, notes), id, a)
    BY <2>3, StopsRaises
  <2> QED BY <1>7, <2>4 DEF fold_session_result, notes, n
<1> QED BY <1>1, <1>3, <1>4, <1>5, <1>6, <1>7 DEF PauseKinds

(* An answer for the session's question. *)
LEMMA AnswerRaises ==
    ASSUME NEW x, Coherent(x), x.inFlight, x.cursor.at # "AwaitingTool", x.session.id # 0, x.cursor.asks # 0,
           NEW kind \in {"RespondInteraction", "RespondSubagent"}
    PROVE  Raises(x, block_on_session(x, [Input(kind, 0) EXCEPT !.asks = x.cursor.asks]), x.session.id, x.cursor.asks)
<1> DEFINE input == [kind |-> kind, prompt |-> 0, asks |-> x.cursor.asks, results |-> << >>]
<1>1. x \in Machines(x.batch) /\ x.batch = NoBatch /\ x.turn # 0 /\ IsMachine(x)
  BY DEF Coherent, IsMachine
<1>2. x.cursor.asks \in Nat
  BY <1>1 DEF Machines, Cursors
<1>3. input \in Inputs /\ Handed(x, input) /\ ~IsPrompt(input) /\ input.asks = x.cursor.asks
  <2>1. << >> \in Seq(Nat \X {"ok", "error"}) /\ 0 \in Nat /\ DOMAIN << >> = {}
    OBVIOUS
  <2>2. input \in Inputs /\ ~IsPrompt(input) /\ input.prompt = 0 /\ input.results = << >>
        /\ input.asks = x.cursor.asks
    BY <1>2, <2>1 DEF Inputs, IsPrompt
  <2> HIDE DEF input
  <2> QED BY <2>1, <2>2 DEF Handed, InOrder
<1>4. [Input(kind, 0) EXCEPT !.asks = x.cursor.asks] = input
  BY DEF Input
<1> HIDE DEF input
<1> QED BY <1>1, <1>3, <1>4, BlockRaises

(* One result of a batch: the requirements of the other calls are still asked, unless *)
(* it was the last one.                                                              *)
LEMMA CollectMatches ==
    ASSUME NEW x, Coherent(x), x.cursor.at = "AwaitingTool", NEW reqs, Matches(x, reqs),
           NEW k \in Open(x.batch), NEW status \in {"ok", "error"}
    PROVE  LET o == resume_tool(x, [id |-> k, kind |-> CallOf(x.batch, k).kind, result |-> status])
           IN  /\ Matches(o.m, IF o.m.inFlight THEN (reqs \ {CallOf(x.batch, k)}) \cup o.reqs ELSE {})
               /\ Minds(o, x.session.id, x.cursor.asks)
               /\ o.m.inFlight => o.m.turn = x.turn
               /\ Kept(x) => Kept(o.m)
<1> DEFINE b == x.batch
           call == b.pending[k]
           results == [i \in DOMAIN b.results \cup {call} |->
                          IF i = call THEN <<call, status>> ELSE b.results[i]]
           collected == [b EXCEPT !.results = results]
           y == [x EXCEPT !.batch = collected]
           resolution == [id |-> k, kind |-> CallOf(b, k).kind, result |-> status]
           o == resume_tool(x, resolution)
           rest == reqs \ {CallOf(b, k)}
<1>1. /\ IsMachine(x) /\ x \in Machines(b) /\ IsBatch(b) /\ b # NoBatch /\ x.inFlight /\ x.turn # 0
      /\ x.session.id # 0 /\ x.cursor.asks # 0 /\ b.id = x.cursor.asks
      /\ reqs = {CallOf(b, r) : r \in Open(b)}
  BY DEF Coherent, IsMachine, has_outstanding_requirement, Matches, Waiting
<1>2. k \in DOMAIN b.pending /\ call \in DOMAIN b.calls /\ call \notin DOMAIN b.results
  BY <1>1 DEF Open, IsBatch
<1>3. /\ IsBatch(collected) /\ Coherent(y) /\ y.inFlight
      /\ y.session = x.session
  <2> DEFINE c == call
  <2>1. c \in DOMAIN x.batch.calls /\ c \notin DOMAIN x.batch.results
    BY <1>2
  <2> HIDE DEF c
  <2>2. LET bb == x.batch
            cc == [bb EXCEPT !.results = [i \in DOMAIN bb.results \cup {c} |->
                              IF i = c THEN <<c, status>> ELSE bb.results[i]]]
            yy == [x EXCEPT !.batch = cc]
        IN  /\ IsBatch(cc) /\ Coherent(yy)
            /\ yy.cleanup = x.cleanup /\ yy.session = x.session /\ yy.inFlight
    BY <1>1, <2>1, CollectFits
  <2> QED BY <2>2 DEF c
<1>4. DOMAIN results = DOMAIN b.results \cup {call}
  OBVIOUS
<1> HIDE DEF results
<1>5. b \in [id: Nat, calls: Seq(CallKinds), pending: {b.pending}, results: {b.results}]
  BY <1>1 DEF IsBatch
<1>6. collected.id = b.id /\ collected.calls = b.calls /\ collected.pending = b.pending /\ collected.results = results
  <2> HIDE DEF b
  <2> QED BY <1>5
<1>7. Open(collected) = Open(b) \ {k}
  <2>1. \A q \in DOMAIN b.pending : b.pending[q] = call => q = k
    BY <1>1, <1>2 DEF IsBatch
  <2> HIDE DEF collected, call, b
  <2> QED BY <1>2, <1>4, <1>6, <2>1 DEF Open, call
<1>8. rest = {CallOf(collected, r) : r \in Open(collected)}
  <2>1. \A r : CallOf(collected, r) = CallOf(b, r) /\ CallOf(b, r).id = r
    BY <1>6 DEF CallOf
  <2> HIDE DEF collected, b
  <2> QED BY <1>1, <1>7, <2>1
<1>9. y.batch = collected /\ y.cursor = x.cursor /\ y.turn = x.turn /\ y.committed = x.committed
  BY <1>1 DEF Machines
<1>10. \/ o = fail(x)
       \/ o = Outcome(y, << >>, {})
       \/ o = respond_with_tool_batch(x, collected)
  BY DEF resume_tool, results
<1> HIDE DEF collected, y, o, rest
<1>11. CASE o = fail(x)
  <2>1. Stops(x, o)
    BY <1>1, <1>11, FailStops
  <2>2. Raises(x, o, x.session.id, x.cursor.asks)
    BY <2>1, StopsRaises
  <2> QED BY <2>1, <2>2 DEF Stops, Raises, o, rest
<1>12. CASE o = Outcome(y, << >>, {})
  <2>1. o.m = y /\ o.reqs = {}
    BY <1>12 DEF Outcome
  <2>2. Matches(y, rest)
    BY <1>1, <1>3, <1>6, <1>8, <1>9 DEF Matches, Waiting
  <2>3. Minds(o, x.session.id, x.cursor.asks) /\ (Kept(x) => Kept(y))
    BY <1>3, <1>9, <2>1 DEF Minds, Kept
  <2>4. Matches(o.m, IF o.m.inFlight THEN rest \cup o.reqs ELSE {})
    BY <1>3, <2>1, <2>2
  <2> QED BY <1>9, <2>1, <2>3, <2>4 DEF o, rest
<1>13. CASE o = respond_with_tool_batch(x, collected)
  <2>1. Raises(x, o, x.session.id, x.cursor.asks)
    BY <1>1, <1>3, <1>6, <1>13, RespondRaises
  <2>2. CASE DOMAIN collected.results # DOMAIN collected.calls
    <3>1. o = fail(x)
      BY <1>13, <2>2 DEF respond_with_tool_batch
    <3> QED BY <1>11, <3>1
  <2>3. CASE DOMAIN collected.results = DOMAIN collected.calls
    <3>1. Open(collected) = {}
      BY <1>3, <2>3 DEF Open, IsBatch
    <3>2. rest = {}
      BY <1>8, <3>1
    <3>3. Matches(o.m, IF o.m.inFlight THEN rest \cup o.reqs ELSE {})
      <4>1. ~o.m.inFlight => o.reqs = {}
        BY <2>1 DEF Raises, Matches
      <4> QED BY <2>1, <3>2, <4>1 DEF Raises
    <3> QED BY <2>1, <3>3 DEF Raises, o, rest
  <2> QED BY <2>2, <2>3
<1> QED BY <1>10, <1>11, <1>12, <1>13 DEF o

(* An answer nobody asked for fails the turn. *)
LEMMA LateStops ==
    ASSUME NEW x, Coherent(x), NEW reqs, Matches(x, reqs), NEW id, \A r \in reqs : r.id # id,
           NEW kind \in {"Interaction", "Tool", "Subagent"}
    PROVE  Stops(x, resume(x, [id |-> id, kind |-> kind, result |-> "ok"]))
<1> DEFINE resolution == [id |-> id, kind |-> kind, result |-> "ok"]
<1>1. Stops(x, fail(x))
  BY FailStops DEF Coherent
<1>2. CASE x.cursor.at = "AwaitingSession"
  BY <1>1, <1>2 DEF resume, resume_session, Addressed
<1>3. CASE x.cursor.at = "AwaitingInteraction"
  <2> DEFINE r == [id |-> x.cursor.req, kind |-> "Interaction"]
  <2>0. r \in reqs /\ r.id = x.cursor.req
    BY <1>3 DEF Matches
  <2> HIDE DEF r
  <2>1. id # x.cursor.req
    BY <2>0
  <2>2. ~Addressed(x, resolution, "Interaction")
    BY <2>1 DEF Addressed
  <2> HIDE DEF resolution
  <2>3. resume(x, resolution) = fail(x)
    BY <1>3, <2>2 DEF resume, resume_interaction
  <2> QED BY <1>1, <2>3 DEF resolution
<1>4. CASE x.cursor.at = "AwaitingSubagent"
  <2> DEFINE r == [id |-> x.cursor.req, kind |-> "Subagent"]
  <2>0. r \in reqs /\ r.id = x.cursor.req
    BY <1>4 DEF Matches
  <2> HIDE DEF r
  <2>1. id # x.cursor.req
    BY <2>0
  <2>2. ~Addressed(x, resolution, "Subagent")
    BY <2>1 DEF Addressed
  <2> HIDE DEF resolution
  <2>3. resume(x, resolution) = fail(x)
    BY <1>4, <2>2 DEF resume, resume_subagent
  <2> QED BY <1>1, <2>3 DEF resolution
<1>5. CASE x.cursor.at = "AwaitingTool"
  <2>1. id \notin Open(x.batch)
    <3> SUFFICES ASSUME id \in Open(x.batch) PROVE FALSE
      OBVIOUS
    <3>1. CallOf(x.batch, id) \in reqs
      BY <1>5 DEF Matches
    <3> QED BY <3>1 DEF CallOf
  <2>2. resume_tool(x, resolution) = fail(x)
    BY <2>1 DEF resume_tool, Open
  <2> QED BY <1>1, <1>5, <2>2 DEF resume
<1>6. CASE x.cursor.at \notin {"AwaitingSession", "AwaitingInteraction", "AwaitingSubagent", "AwaitingTool"}
  BY <1>1, <1>6 DEF resume
<1> QED BY <1>2, <1>3, <1>4, <1>5, <1>6

-----------------------------------------------------------------------------
(* What the driver fed the machine, and the question that is about. *)
Fed(id, a) ==
    /\ op' = NoOp /\ Matches(m', asked')
    /\ Waiting(m') => m'.session.id = id /\ m'.cursor.asks = a
    /\ \A r \in asked' : r.kind = "ExternalSession" /\ ~IsPrompt(r.input) => r.session.id = id /\ r.input.asks = a
    /\ Kept(m) /\ Kept(saved) => Kept(m')

SameTurn == m'.inFlight => m'.turn = m.turn

LEMMA RaisesFeeds ==
    ASSUME NEW o, NEW id, NEW a, Raises(m, o, id, a), op' = NoOp, m' = o.m,
           asked' = (IF o.m.inFlight THEN o.reqs ELSE {})
    PROVE  Fed(id, a) /\ SameTurn
<1>1. asked' = o.reqs
  BY DEF Raises, Matches
<1> QED BY <1>1 DEF Raises, Fed, SameTurn, Minds

LEMMA StopsFeeds ==
    ASSUME NEW o, Stops(m, o), op' = NoOp, m' = o.m, asked' = {}
    PROVE  Fed(0, 0)
<1>1. Raises(m, o, 0, 0)
  BY StopsRaises
<1>2. asked' = (IF o.m.inFlight THEN o.reqs ELSE {})
  BY DEF Stops
<1> QED BY <1>1, <1>2, RaisesFeeds

LEMMA DeliverFeeds ==
    ASSUME Types, TurnFits, Deliver, Honest(op.got, m.turn)
    PROVE  Fed(op.got.session.id, IF op.got.kind \in PauseKinds THEN op.got.asks ELSE 0) /\ SameTurn
<1> DEFINE resolution == [id |-> op.req.id, kind |-> "ExternalSession", result |-> op.got]
           a == IF op.got.kind \in PauseKinds THEN op.got.asks ELSE 0
           o == fold_session_result(m, op.got)
<1>1. op.pc = "done" /\ op.got \in Results /\ op # NoOp /\ op' = NoOp /\ Coherent(m)
  BY DEF Deliver, Types, Operation, NoOp, Machinery
<1>2. asked = {} /\ m.cursor.at = "AwaitingSession" /\ op.req.id = m.cursor.req
  BY <1>1 DEF TurnFits, Wanted
<1>3. resume(m, resolution) = o
  BY <1>2 DEF resume, resume_session, Addressed
<1>4. m' = o.m /\ asked' = (IF o.m.inFlight THEN {} \cup o.reqs ELSE {})
  BY <1>2, <1>3 DEF Deliver, Feed, Stepped
<1>5. op.got.kind \in PauseKinds => a = op.got.asks
  OBVIOUS
<1> HIDE DEF a
<1>6. Raises(m, o, op.got.session.id, a)
  BY <1>1, <1>2, <1>5, FoldRaises
<1> HIDE DEF o
<1>7. Fed(op.got.session.id, a) /\ SameTurn
  BY <1>1, <1>4, <1>6, RaisesFeeds
<1> QED BY <1>7 DEF a

LEMMA ResolveFeeds ==
    ASSUME Types, TurnFits, Resolve
    PROVE  Waiting(m) /\ Fed(m.session.id, m.cursor.asks) /\ SameTurn
<1>1. PICK req \in asked, result \in {"ok", "error"} :
         /\ req.kind # "ExternalSession"
         /\ Feed([id |-> req.id, kind |-> req.kind, result |-> result], asked \ {req})
  BY DEF Resolve
<1>2. op = NoOp /\ op' = NoOp /\ Coherent(m) /\ Matches(m, asked)
  BY DEF Resolve, Types, Machinery, TurnFits
<1>3. m.inFlight
  BY <1>1, <1>2 DEF Matches
<1>4. Waiting(m)
  <2>1. m.cursor.at # "AwaitingSession"
    BY <1>1, <1>2 DEF Matches, Wanted, Requests
  <2> QED BY <1>2, <1>3, <2>1 DEF Coherent, has_outstanding_requirement, Waiting
<1>5. m.session.id # 0 /\ m.cursor.asks # 0
  BY <1>2, <1>4 DEF Matches
<1> DEFINE resolution == [id |-> req.id, kind |-> req.kind, result |-> result]
           o == resume(m, resolution)
           id == m.session.id
           a == m.cursor.asks
<1>6. m' = o.m /\ asked' = (IF o.m.inFlight THEN (asked \ {req}) \cup o.reqs ELSE {})
  BY <1>1 DEF Feed, Stepped
<1>7. Raises(m, fail(m), id, a)
  BY <1>2, FailStops, StopsRaises DEF Coherent
<1>8. CASE m.cursor.at \in {"AwaitingInteraction", "AwaitingSubagent"}
  <2>1. asked \ {req} = {}
    BY <1>1, <1>2, <1>8 DEF Matches
  <2>2. \/ o = fail(m)
        \/ o = block_on_session(m, [Input("RespondInteraction", 0) EXCEPT !.asks = m.cursor.asks])
        \/ o = block_on_session(m, [Input("RespondSubagent", 0) EXCEPT !.asks = m.cursor.asks])
    BY <1>8 DEF resume, resume_interaction, resume_subagent
  <2> HIDE DEF o
  <2>3. m.cursor.at # "AwaitingTool"
    BY <1>8
  <2>4. Raises(m, o, id, a)
    BY <1>2, <1>3, <1>5, <1>7, <2>2, <2>3, AnswerRaises
  <2>5. asked' = (IF o.m.inFlight THEN o.reqs ELSE {})
    BY <1>6, <2>1
  <2> HIDE DEF id, a
  <2>6. Fed(id, a) /\ SameTurn
    BY <1>2, <1>6, <2>4, <2>5, RaisesFeeds
  <2> QED BY <1>4, <2>6 DEF id, a
<1>9. CASE m.cursor.at = "AwaitingTool"
  <2>1. PICK k \in Open(m.batch) : req = CallOf(m.batch, k)
    BY <1>1, <1>2, <1>9 DEF Matches
  <2>2. req.id = k /\ req.kind = CallOf(m.batch, k).kind
    BY <2>1 DEF CallOf
  <2>3. o = resume_tool(m, [id |-> k, kind |-> CallOf(m.batch, k).kind, result |-> result])
    BY <1>9, <2>2 DEF resume
  <2> HIDE DEF o
  <2>4. /\ Matches(o.m, IF o.m.inFlight THEN (asked \ {CallOf(m.batch, k)}) \cup o.reqs ELSE {})
        /\ Minds(o, m.session.id, m.cursor.asks)
        /\ o.m.inFlight => o.m.turn = m.turn
        /\ Kept(m) => Kept(o.m)
    BY <1>2, <1>9, <2>3, CollectMatches
  <2>5. Matches(m', asked')
    BY <1>6, <2>1, <2>4
  <2>6. \A r \in asked' : r.kind = "ExternalSession" => r \in o.reqs
    <3>1. \A r \in asked : r.kind # "ExternalSession"
      BY <1>2, <1>9 DEF Matches, CallOf
    <3> QED BY <1>6, <3>1
  <2> QED BY <1>2, <1>4, <1>6, <2>4, <2>5, <2>6 DEF Fed, Minds, SameTurn
<1> QED BY <1>4, <1>8, <1>9 DEF Waiting

(* Inputs after which no question is open. *)
LEMMA OthersFeed ==
    ASSUME Types, TurnFits, UserMessage \/ LateAnswer \/ BudgetStops \/ Abandon \/ Restart
    PROVE  Fed(0, 0)
<1>1. Coherent(m) /\ Coherent(saved) /\ op' = NoOp
  BY HandlerOfATurn DEF Types, Machinery, UserMessage, LateAnswer, BudgetStops, Abandon, Restart
<1>2. CASE UserMessage
  <2>1. ~m.inFlight
    BY <1>2 DEF UserMessage
  <2>2. ledger.prompts + 1 \in Nat \ {0}
    BY DEF Types, Accounts
  <2>3. PICK pivot \in BOOLEAN :
           Stepped(step(m, [pivot |-> pivot, prompt |-> ledger.prompts + 1]))
           /\ asked' = step(m, [pivot |-> pivot, prompt |-> ledger.prompts + 1]).reqs
    BY <1>2 DEF UserMessage
  <2> DEFINE prompt == ledger.prompts + 1
             o == step(m, [pivot |-> pivot, prompt |-> prompt])
  <2>4. prompt \in Nat \ {0}
    BY <2>2
  <2>5. m' = o.m /\ asked' = o.reqs
    BY <2>3 DEF Stepped
  <2> HIDE DEF prompt
  <2>6. Matches(o.m, o.reqs) /\ Minds(o, 0, 0) /\ (Kept(m) => Kept(o.m))
    BY <1>1, <2>1, <2>4, StepRaises
  <2> HIDE DEF o
  <2> QED BY <1>1, <2>5, <2>6 DEF Fed, Minds
<1>3. CASE LateAnswer
  <2>1. PICK id \in 1..(m.nextId - 1), kind \in {"Interaction", "Tool", "Subagent"} :
           /\ \A req \in asked : req.id # id
           /\ Feed([id |-> id, kind |-> kind, result |-> "ok"], asked)
    BY <1>3 DEF LateAnswer
  <2> DEFINE o == resume(m, [id |-> id, kind |-> kind, result |-> "ok"])
  <2>2. Matches(m, asked)
    BY <1>3 DEF LateAnswer, TurnFits
  <2>3. Stops(m, o)
    BY <1>1, <2>1, <2>2, LateStops
  <2>4. m' = o.m /\ asked' = (IF o.m.inFlight THEN asked \cup o.reqs ELSE {})
    BY <2>1 DEF Feed, Stepped
  <2> HIDE DEF o
  <2>5. asked' = {}
    BY <2>3, <2>4 DEF Stops
  <2> QED BY <1>1, <2>3, <2>4, <2>5, StopsFeeds
<1>4. CASE BudgetStops \/ Abandon
  <2>1. m' = Settled(Owed(m), "Idle") \/ m' = Settled(Owed(m), "Done")
    BY <1>4 DEF Abandon, BudgetStops, Stepped, abandon, interrupt_budget_exhausted, Outcome
  <2>2. Owed(m).committed = m.committed /\ Settled(Owed(m), "Idle").committed = Owed(m).committed
        /\ Settled(Owed(m), "Done").committed = Owed(m).committed
    BY <1>1 DEF Owed, Settled, Coherent, IsMachine, Machines
  <2>3. Coherent(m') /\ ~m'.inFlight /\ asked' = {} /\ m'.committed = m.committed
    BY <1>1, <1>4, <2>1, <2>2, TakenFits DEF Abandon, BudgetStops
  <2>4. Stops(m, Outcome(m', << >>, {}))
    BY <2>3 DEF Stops, Outcome
  <2> QED BY <1>1, <2>3, StoppedMatches DEF Fed, Kept
<1>5. CASE Restart
  <2>1. Coherent(m') /\ ~m'.inFlight /\ asked' = {}
    BY <1>5, HostLeaves DEF Restored
  <2>2. m'.committed = saved.committed
    <3>1. m' = [from_record(saved) EXCEPT !.nextId = m.nextId]
      BY <1>5 DEF Restart
    <3> QED BY <1>1, <3>1 DEF from_record, Coherent, IsMachine, Machines
  <2> QED BY <1>1, <2>1, <2>2, StoppedMatches DEF Fed, Kept
<1> QED BY <1>2, <1>3, <1>4, <1>5

(* The machine waits on. *)
Stands ==
    /\ m'.cursor = m.cursor /\ m'.session = m.session /\ m'.turn = m.turn /\ m'.batch = m.batch
    /\ m'.inFlight = m.inFlight /\ m'.committed = m.committed /\ asked' = asked
    /\ op' = op \/ (Handler /\ op # NoOp /\ op' # NoOp /\ op'.req = op.req)

Question(result) == IF result.kind \in PauseKinds THEN result.asks ELSE 0

LEMMA TurnChanges ==
    ASSUME Types, FramesFit, TurnFits, op.pc = "done" => Honest(op.got, m.turn), Next
    PROVE  \/ Stands
           \/ StartHandler /\ Taking /\ m' = m
           \/ Fed(0, 0)
           \/ Resolve /\ Waiting(m) /\ Fed(m.session.id, m.cursor.asks) /\ SameTurn
           \/ Deliver /\ op.pc = "done" /\ Fed(op.got.session.id, Question(op.got)) /\ SameTurn
<1>1. CASE UserMessage \/ LateAnswer \/ BudgetStops \/ Abandon \/ Restart
  BY <1>1, OthersFeed
<1>2. CASE Resolve
  BY <1>2, ResolveFeeds
<1>3. CASE Deliver
  <2>1. op.pc = "done"
    BY <1>3 DEF Deliver
  <2> QED BY <1>3, <2>1, DeliverFeeds DEF Question
<1>4. CASE StartHandler
  BY <1>4 DEF StartHandler, Taking
<1>5. CASE Reconfigure \/ HostClears
  <2>1. m \in Machines(m.batch)
    BY DEF Types, Machinery, Coherent, IsMachine
  <2>2. op' = op /\ asked' = asked
    BY <1>5 DEF Reconfigure, HostClears
  <2>3. CASE HostClears
    <3>1. m' = [m EXCEPT !.cleanup = FALSE]
      BY <2>3 DEF HostClears
    <3> QED BY <2>1, <2>2, <3>1 DEF Stands, Machines
  <2>4. CASE Reconfigure
    <3>1. PICK tools \in ToolSets, hot \in BOOLEAN : m' = reconfigure(m, tools, hot)
      BY <2>4 DEF Reconfigure
    <3>2. m' \in {m, [m EXCEPT !.queued = {}, !.tools = tools], [m EXCEPT !.queued = {tools}]}
      BY <3>1 DEF reconfigure
    <3> QED BY <2>1, <2>2, <3>2 DEF Stands, Machines
  <2> QED BY <1>5, <2>3, <2>4
<1>6. CASE Handler
  <2>1. UNCHANGED m /\ asked' = asked
    BY <1>6 DEF Handler, driving,
                Fulfill, Prepare, Launch, BeginReads, BeginFails, Register, Advance, AdvanceReads,
                AdvanceFails, Charge, HandlerSweeps
  <2>2. op # NoOp /\ op' # NoOp /\ op'.req = op.req
    BY <1>6, HandlerMoves, HandlerStands DEF Moved
  <2> QED BY <1>6, <2>1, <2>2 DEF Stands
<1>7. CASE Runtime \/ Cancel \/ OthersSpend \/ HostSweeps \/ (\E h \in sweep : HostCloses(h)) \/ Save
  <2>1. UNCHANGED m /\ asked' = asked /\ op' = op
    BY <1>7 DEF Runtime, Cancel, OthersSpend, HostSweeps, HostCloses, Save, driving, RuntimeWrites, RuntimeExits
  <2> QED BY <2>1 DEF Stands
<1> QED BY <1>1, <1>2, <1>3, <1>4, <1>5, <1>6, <1>7 DEF Next, Driver, Host

LEMMA TurnFitsKept ==
    ASSUME Types, FramesFit, TurnFits, op.pc = "done" => Honest(op.got, m.turn), Next
    PROVE  TurnFits'
<1>1. CASE Stands
  <2>1. ASSUME op = NoOp PROVE Matches(m', asked')
    <3>1. Matches(m, asked)
      BY <2>1 DEF TurnFits
    <3> QED BY <1>1, <3>1 DEF Stands, Matches, Wanted, Waiting
  <2>2. ASSUME op # NoOp PROVE asked' = {} /\ m'.cursor.at = "AwaitingSession" /\ Wanted(m', op'.req)
    BY <1>1, <2>2 DEF Stands, TurnFits, Wanted
  <2>3. op' = NoOp <=> op = NoOp
    BY <1>1 DEF Stands
  <2> QED BY <2>1, <2>2, <2>3 DEF TurnFits
<1>2. CASE StartHandler /\ Taking /\ m' = m
  <2>1. PICK req \in asked : /\ req.kind = "ExternalSession"
                             /\ asked' = asked \ {req} /\ op' = Handling("fulfill", req)
    BY <1>2 DEF StartHandler
  <2>2. op' # NoOp /\ op'.req = req /\ Matches(m, asked) /\ Coherent(m)
    BY <1>2, <2>1 DEF TurnFits, Taking, Handling, NoOp, Types, Machinery
  <2>3. m.cursor.at = "AwaitingSession"
    <3>1. m.inFlight
      BY <2>1, <2>2 DEF Matches
    <3> QED BY <2>1, <2>2, <3>1 DEF Matches, Coherent, has_outstanding_requirement, CallOf
  <2>4. asked' = {} /\ Wanted(m, req)
    BY <2>1, <2>2, <2>3 DEF Matches
  <2> QED BY <1>2, <2>2, <2>3, <2>4 DEF TurnFits
<1>3. ASSUME NEW id, NEW a, Fed(id, a) PROVE TurnFits'
  BY <1>3 DEF Fed, TurnFits
<1> QED BY <1>1, <1>2, <1>3, TurnChanges

LEMMA KeptKept ==
    ASSUME Types, FramesFit, TurnFits, op.pc = "done" => Honest(op.got, m.turn), Next, Kept(m), Kept(saved)
    PROVE  Kept(m') /\ Kept(saved')
<1>1. Kept(m')
  BY TurnChanges DEF Stands, Fed, Kept
<1>2. UNCHANGED saved \/ saved' = m
  BY DEF Next, Handler, Driver, Runtime, Host, hosting,
         Fulfill, Prepare, Launch, BeginReads, BeginFails, Register, Advance, AdvanceReads,
         AdvanceFails, Charge, HandlerSweeps, RuntimeWrites, RuntimeExits,
         UserMessage, BudgetStops, StartHandler, Deliver, Resolve, LateAnswer, Cancel, Abandon,
         OthersSpend, Reconfigure, HostSweeps, HostCloses, HostClears, Restart, Save
<1> QED BY <1>1, <1>2

(* So the cursor waits for exactly what is asked. *)
LEMMA MatchesWaits ==
    ASSUME Types, Asking, TurnFits
    PROVE  WaitsForWhatIsAsked
<1> DEFINE under == {r.id : r \in asked} \cup (IF op = NoOp THEN {} ELSE {op.req.id})
           open == {r \in DOMAIN m.batch.pending : m.batch.pending[r] \notin DOMAIN m.batch.results}
<1>1. Coherent(m)
  BY DEF Types, Machinery
<1>2. open = Open(m.batch)
  BY DEF Open
<1>3. CASE op # NoOp
  <2>1. m.cursor.at = "AwaitingSession" /\ asked = {} /\ op.req.id = m.cursor.req /\ m.inFlight
    BY <1>1, <1>3 DEF TurnFits, Wanted, Coherent, has_outstanding_requirement
  <2>2. under = {m.cursor.req}
    BY <1>3, <2>1
  <2> HIDE DEF under, open
  <2> QED BY <1>1, <2>1, <2>2 DEF WaitsForWhatIsAsked, Coherent, under, open
<1>4. CASE op = NoOp
  <2>1. Matches(m, asked)
    BY <1>4 DEF TurnFits
  <2>2. under = {r.id : r \in asked}
    BY <1>4
  <2>3. m.cursor.at \in {"AwaitingSession", "AwaitingInteraction", "AwaitingSubagent"} => under = {m.cursor.req}
    <3> DEFINE r(kind) == [id |-> m.cursor.req, kind |-> kind]
    <3>1. \A kind : r(kind).id = m.cursor.req
      OBVIOUS
    <3>2. ASSUME NEW kind, asked = {r(kind)} PROVE under = {m.cursor.req}
      <4> HIDE DEF r
      <4> QED BY <2>2, <3>1, <3>2
    <3>3. CASE m.cursor.at = "AwaitingSession"
      <4>1. PICK q \in asked : asked = {q} /\ q.id = m.cursor.req
        BY <2>1, <3>3 DEF Matches, Wanted
      <4> QED BY <2>2, <4>1
    <3>4. CASE m.cursor.at = "AwaitingInteraction"
      <4>1. asked = {r("Interaction")}
        BY <2>1, <3>4 DEF Matches
      <4> QED BY <3>2, <4>1
    <3>5. CASE m.cursor.at = "AwaitingSubagent"
      <4>1. asked = {r("Subagent")}
        BY <2>1, <3>5 DEF Matches
      <4> QED BY <3>2, <4>1
    <3> HIDE DEF under, r
    <3> QED BY <3>3, <3>4, <3>5
  <2>4. m.cursor.at = "AwaitingTool" => under = open
    <3>1. \A r : CallOf(m.batch, r).id = r
      BY DEF CallOf
    <3> HIDE DEF under, open
    <3> QED BY <1>2, <2>1, <2>2, <3>1 DEF Matches
  <2>5. ~m.inFlight => under = {}
    BY <2>1, <2>2 DEF Matches
  <2> HIDE DEF under, open
  <2> QED BY <1>1, <2>3, <2>4, <2>5 DEF WaitsForWhatIsAsked, Coherent, has_outstanding_requirement, under, open
<1> QED BY <1>3, <1>4

-----------------------------------------------------------------------------
(***************************************************************************)
(* What the runtime, and a reader of its frames, make of a session.        *)
(***************************************************************************)
LEMMA TailOf ==
    ASSUME NEW S, NEW q \in Seq(S), q # << >>
    PROVE  /\ 1 \in DOMAIN q /\ Head(q) = q[1]
           /\ \A i \in DOMAIN Tail(q) : i \in Nat /\ i # 0 /\ i + 1 \in DOMAIN q /\ Tail(q)[i] = q[i + 1]
           /\ \A i \in DOMAIN q : i \in Nat /\ (i = 1 \/ (i - 1 \in DOMAIN Tail(q) /\ Tail(q)[i - 1] = q[i]))
OBVIOUS

LEMMA LastOf ==
    ASSUME NEW S, NEW q \in Seq(S), NEW e \in S
    PROVE  LET r == Append(q, e)
           IN  /\ \A i \in DOMAIN r : \/ i \in DOMAIN q /\ r[i] = q[i]
                                      \/ i = Len(q) + 1 /\ r[i] = e
               /\ \A i \in DOMAIN q : i \in DOMAIN r /\ r[i] = q[i] /\ i < Len(q) + 1
               /\ Len(q) + 1 \in DOMAIN r /\ r[Len(q) + 1] = e /\ Len(q) + 1 > 0
               /\ DOMAIN q \subseteq Nat
OBVIOUS

(* The session is the same but for its process and its observations. *)
Alike(t, s) ==
    /\ t.out = s.out /\ t.busy = s.busy /\ t.asks = s.asks /\ t.decision = s.decision /\ t.text = s.text
    /\ t.first = s.first /\ t.known = s.known /\ t.sid = s.sid /\ t.mixed = s.mixed

(* It is the same but for its process. *)
Rests(t, s) == Alike(t, s) /\ t.carried = s.carried /\ t.seq = s.seq

LEMMA AlikeStays ==
    ASSUME NEW t, NEW s, Alike(t, s), NEW flavor, NEW p, NEW a
    PROVE  /\ Sound(s, flavor) => Sound(t, flavor)
           /\ Silent(s) => Silent(t)
           /\ Same(s, a, p) => Same(t, a, p)
           /\ (~s.mixed => OwnsOnly(s, p)) => (~t.mixed => OwnsOnly(t, p))
<1>1. PausesFit(s) => PausesFit(t)
  BY DEF Alike, PausesFit, Quiet
<1>2. TextEnds(s) => TextEnds(t)
  BY DEF Alike, TextEnds, EndComes
<1>3. \A q : OwnsOnly(s, q) => OwnsOnly(t, q)
  BY DEF Alike, OwnsOnly
<1>4. LaunchFirst(s, flavor) => LaunchFirst(t, flavor)
  BY <1>3 DEF Alike, LaunchFirst
<1>5. Silent(s) => Silent(t)
  BY DEF Alike, Silent
<1>6. Same(s, a, p) => Same(t, a, p)
  BY <1>3 DEF Alike, Same, Quiet
<1> QED BY <1>1, <1>2, <1>3, <1>4, <1>5, <1>6 DEF Sound, Alike

(* A frame the runtime wrote. *)
Wrote(t, s, flavor) == \E f \in Frames :
    /\ t.out = Append(s.out, f) /\ f.n = ledger.frames + 1 /\ t.carried = s.carried /\ t.seq = s.seq
    /\ t.decision = s.decision /\ t.text = s.text /\ t.first = s.first /\ t.known = s.known /\ t.sid = s.sid
    /\ s.mixed => t.mixed
    /\ f.kind = "Event" => \/ s.busy # << >> /\ f.for = Head(s.busy)
                           \/ t.mixed /\ flavor = "acp"
    /\ IF f.kind \in Ends THEN s.asks = 0 /\ s.busy # << >> /\ t.busy = Tail(s.busy) /\ f.for = Head(s.busy)
       ELSE t.busy = s.busy
    /\ IF f.kind \in PauseKinds THEN s.asks = 0 /\ s.busy # << >> /\ t.asks = f.n /\ f.n # 0
       ELSE t.asks = s.asks

LEMMA WroteOwns ==
    ASSUME NEW s \in Sessions, NEW t, NEW flavor, Wrote(t, s, flavor), NEW p, OwnsOnly(s, p),
           flavor = "acp" => ~t.mixed
    PROVE  OwnsOnly(t, p)
<1>1. PICK f \in Frames : Wrote(t, s, flavor)!(f)
  BY DEF Wrote
<1>2. s.out \in Seq(Frames) /\ s.busy \in Seq(Nat)
  BY DEF Sessions
<1>3. s.busy # << >> => Head(s.busy) = p
  <2>1. s.busy # << >> => 1 \in DOMAIN s.busy /\ Head(s.busy) = s.busy[1]
    BY <1>2, TailOf
  <2> QED BY <2>1 DEF OwnsOnly
<1>4. \A i \in DOMAIN t.busy : t.busy[i] = p
  <2>1. CASE f.kind \in Ends
    <3>1. s.busy # << >> /\ t.busy = Tail(s.busy)
      BY <1>1, <2>1
    <3>2. \A i \in DOMAIN t.busy : i + 1 \in DOMAIN s.busy /\ t.busy[i] = s.busy[i + 1]
      BY <1>2, <3>1, TailOf
    <3> QED BY <3>2 DEF OwnsOnly
  <2>2. CASE f.kind \notin Ends
    BY <1>1, <2>2 DEF OwnsOnly
  <2> QED BY <2>1, <2>2
<1>5. \A i \in DOMAIN t.out : (i \in DOMAIN s.out /\ t.out[i] = s.out[i]) \/ t.out[i] = f
  BY <1>1, <1>2, LastOf
<1>6. f.kind \in {"Event", "Completed"} => f.for = p
  BY <1>1, <1>3 DEF Ends
<1>7. \A i \in DOMAIN t.out : t.out[i].kind \in {"Event", "Completed"} => t.out[i].for = p
  BY <1>5, <1>6 DEF OwnsOnly
<1> QED BY <1>1, <1>4, <1>7 DEF OwnsOnly

LEMMA WroteSound ==
    ASSUME NEW s \in Sessions, NEW t, NEW flavor, Wrote(t, s, flavor), Sound(s, flavor)
    PROVE  Sound(t, flavor)
<1>1. PICK f \in Frames : Wrote(t, s, flavor)!(f)
  BY DEF Wrote
<1>2. s.out \in Seq(Frames) /\ s.busy \in Seq(Nat)
  BY DEF Sessions
<1> DEFINE n == Len(s.out) + 1
<1>3. \A i \in DOMAIN t.out : (i \in DOMAIN s.out /\ t.out[i] = s.out[i]) \/ (i = n /\ t.out[i] = f)
  BY <1>1, <1>2, LastOf
<1>4. /\ \A i \in DOMAIN s.out : i \in DOMAIN t.out /\ t.out[i] = s.out[i] /\ i < n
      /\ n \in DOMAIN t.out /\ t.out[n] = f /\ n > 0 /\ DOMAIN s.out \subseteq Nat /\ n \in Nat
  BY <1>1, <1>2, LastOf
<1> HIDE DEF n
<1>5. PausesFit(t)
  <2>1. CASE f.kind \in PauseKinds
    <3>1. s.asks = 0 /\ t.asks = f.n /\ f.n # 0
      BY <1>1, <2>1
    <3>2. Quiet(s) /\ s.decision.kind \notin PauseKinds
      BY <3>1 DEF Sound, PausesFit, Quiet
    <3>3. t.decision.kind \notin PauseKinds
      BY <1>1, <3>2
    <3>4. \A i \in DOMAIN t.out : t.out[i].kind \in PauseKinds => i = n /\ t.out[i] = f
      BY <1>3, <3>2 DEF Quiet
    <3> QED BY <3>1, <3>3, <3>4 DEF PausesFit
  <2>2. CASE f.kind \notin PauseKinds
    <3>1. t.asks = s.asks /\ t.decision = s.decision
      BY <1>1, <2>2
    <3>2. \A i \in DOMAIN t.out : t.out[i].kind \in PauseKinds => i \in DOMAIN s.out /\ t.out[i] = s.out[i]
      BY <1>3, <2>2
    <3>3. Quiet(s) => Quiet(t)
      BY <3>2 DEF Quiet
    <3> QED BY <3>1, <3>2, <3>3 DEF Sound, PausesFit
  <2> QED BY <2>1, <2>2
<1>6. TextEnds(t)
  <2>1. SUFFICES ASSUME ~t.mixed PROVE TextEnds(t)
    BY DEF TextEnds
  <2>2. ~s.mixed /\ t.text = s.text
    BY <1>1, <2>1
  <2>3. ASSUME NEW i \in Nat, i < n, EndComes(s, i) PROVE EndComes(t, i)
    <3>1. CASE f.kind \in Ends
      BY <1>4, <2>3, <3>1 DEF EndComes
    <3>2. CASE f.kind \notin Ends
      BY <1>1, <1>4, <2>3, <3>2 DEF EndComes
    <3> QED BY <3>1, <3>2
  <2>4. f.kind = "Event" => EndComes(t, n)
    BY <1>1, <2>1 DEF EndComes, Ends
  <2>5. ASSUME NEW i \in DOMAIN t.out, t.out[i].kind = "Event" PROVE EndComes(t, i)
    <3>1. CASE i \in DOMAIN s.out /\ t.out[i] = s.out[i]
      BY <1>4, <2>2, <2>3, <2>5, <3>1 DEF Sound, TextEnds
    <3>2. CASE i = n /\ t.out[i] = f
      BY <2>4, <2>5, <3>2
    <3> QED BY <1>3, <3>1, <3>2
  <2>6. t.text # {} => EndComes(t, 0)
    BY <1>4, <2>2, <2>3 DEF Sound, TextEnds
  <2> QED BY <2>5, <2>6 DEF TextEnds
<1>7. LaunchFirst(t, flavor)
  <2>1. t.first # 0 => OwnsOnly(t, t.first)
    <3>1. SUFFICES ASSUME t.first # 0 PROVE OwnsOnly(t, t.first)
      OBVIOUS
    <3>2. t.first = s.first /\ flavor # "acp" /\ OwnsOnly(s, t.first)
      BY <1>1, <3>1 DEF Sound, LaunchFirst
    <3> QED BY <3>2, WroteOwns
  <2> QED BY <1>1, <2>1 DEF Sound, LaunchFirst
<1> QED BY <1>5, <1>6, <1>7 DEF Sound

LEMMA WroteStays ==
    ASSUME NEW s \in Sessions, NEW t, NEW flavor, Wrote(t, s, flavor), NEW p, NEW a
    PROVE  /\ Silent(s) => Silent(t)
           /\ a # 0 /\ Same(s, a, p) => Same(t, a, p)
           /\ (~s.mixed => OwnsOnly(s, p)) => (~t.mixed => OwnsOnly(t, p))
<1>1. PICK f \in Frames : Wrote(t, s, flavor)!(f)
  BY DEF Wrote
<1>2. s.out \in Seq(Frames) /\ s.busy \in Seq(Nat)
  BY DEF Sessions
<1>3. \A i \in DOMAIN t.out : (i \in DOMAIN s.out /\ t.out[i] = s.out[i]) \/ t.out[i] = f
  BY <1>1, <1>2, LastOf
<1>4. Silent(s) => Silent(t)
  <2>1. SUFFICES ASSUME Silent(s) PROVE Silent(t)
    OBVIOUS
  <2>2. s.busy = << >> /\ s.asks = 0 /\ s.decision = NoDecision
    BY <2>1 DEF Silent
  <2>3. f.kind \notin Ends /\ f.kind \notin PauseKinds
    BY <1>1, <2>2
  <2>4. t.busy = << >> /\ t.asks = 0 /\ t.decision = NoDecision
    BY <1>1, <2>2, <2>3
  <2>5. \A i \in DOMAIN t.out : t.out[i].kind \notin Ends \cup PauseKinds
    BY <1>3, <2>1, <2>3 DEF Silent
  <2> QED BY <2>4, <2>5 DEF Silent
<1>5. (~s.mixed => OwnsOnly(s, p)) => (~t.mixed => OwnsOnly(t, p))
  BY <1>1, WroteOwns
<1>6. a # 0 /\ Same(s, a, p) => Same(t, a, p)
  <2>1. SUFFICES ASSUME a # 0, Same(s, a, p) PROVE Same(t, a, p)
    OBVIOUS
  <2>2. f.kind \notin Ends /\ f.kind \notin PauseKinds
    BY <1>1, <2>1 DEF Same
  <2>3. t.asks = s.asks /\ t.busy = s.busy /\ t.decision = s.decision
    BY <1>1, <2>2
  <2>4. Quiet(t)
    BY <1>3, <2>1, <2>2 DEF Same, Quiet
  <2> QED BY <1>5, <2>1, <2>3, <2>4 DEF Same
<1> QED BY <1>4, <1>5, <1>6

LEMMA WritesMean ==
    ASSUME Types, NEW h \in Handles, RuntimeWrites(h)
    PROVE  /\ sessions' = [sessions EXCEPT ![h] = sessions'[h]]
           /\ Wrote(sessions'[h], sessions[h], config.flavor)
<1> DEFINE s == sessions[h]
           n == ledger.frames + 1
           who == IF s.busy = << >> THEN 0 ELSE Head(s.busy)
           frame(kind, calls) == [kind |-> kind, n |-> n, for |-> who, sid |-> h, calls |-> calls]
           writes(t, f) == sessions' = [sessions EXCEPT ![h] = [t EXCEPT !.out = Append(@, f)]]
           told == [s EXCEPT !.told = TRUE]
           mixed == [s EXCEPT !.mixed = TRUE]
           tail == [s EXCEPT !.busy = Tail(@)]
           asking == [s EXCEPT !.asks = n]
<1>1. s \in Sessions /\ h \in Nat /\ sessions \in Seq(Sessions)
  BY DEF Types, Stock
<1>2. s.busy \in Seq(Nat) /\ s.out \in Seq(Frames)
  BY <1>1 DEF Sessions
<1>3. n \in Nat /\ n # 0 /\ who \in Nat
  <2>1. ledger.frames \in Nat
    BY DEF Types, Accounts
  <2>2. who \in Nat
    BY <1>2
  <2> QED BY <2>1, <2>2
<1>4. \A kind \in {"Init", "Event", "Completed", "Failed", "Noise"} \cup PauseKinds, calls \in Seq(CallKinds) :
         frame(kind, calls) \in Frames /\ frame(kind, calls).kind = kind
         /\ frame(kind, calls).for = who /\ frame(kind, calls).n = n
  <2> HIDE DEF n, who
  <2> QED BY <1>1, <1>3 DEF Frames
<1>5. \/ writes(told, frame("Init", << >>))
      \/ s.busy # << >> /\ writes(s, frame("Event", << >>))
      \/ config.flavor = "acp" /\ writes(mixed, frame("Event", << >>))
      \/ s.busy # << >> /\ s.asks = 0 /\ \E kind \in {"Completed", "Failed"} : writes(tail, frame(kind, << >>))
      \/ s.busy # << >> /\ s.asks = 0
         /\ \E kind \in PauseKinds : \E calls \in Seq(CallKinds) : writes(asking, frame(kind, calls))
      \/ writes(s, frame("Noise", << >>))
  <2>1. ASSUME NEW kind, NEW calls
        PROVE  [frame(kind, << >>) EXCEPT !.calls = calls] = frame(kind, calls)
    OBVIOUS
  <2>2. \/ writes(told, frame("Init", << >>))
        \/ s.busy # << >> /\ writes(s, frame("Event", << >>))
        \/ config.flavor = "acp" /\ writes(mixed, frame("Event", << >>))
        \/ s.busy # << >> /\ s.asks = 0 /\ \E kind \in {"Completed", "Failed"} : writes(tail, frame(kind, << >>))
        \/ s.busy # << >> /\ s.asks = 0 /\ \E kind \in Pauses(config.flavor) :
              \E calls \in IF kind = "ToolCalls" THEN Batches ELSE {<< >>} :
                 writes(asking, [frame(kind, << >>) EXCEPT !.calls = calls])
        \/ writes(s, frame("Noise", << >>))
    BY Zenon DEF RuntimeWrites
  <2>3. Pauses(config.flavor) \subseteq PauseKinds
    <3>1. config.flavor \in Flavors
      BY DEF Types, Accounts, SetUp
    <3> QED BY <3>1 DEF Pauses, PauseKinds, Flavors, OneShot
  <2>4. << >> \in Seq(CallKinds) /\ Batches \subseteq Seq(CallKinds)
    OBVIOUS
  <2> HIDE DEF frame, asking, told, tail, mixed, s, writes
  <2>5. CASE s.busy # << >> /\ s.asks = 0 /\ \E kind \in Pauses(config.flavor) :
              \E calls \in IF kind = "ToolCalls" THEN Batches ELSE {<< >>} :
                 writes(asking, [frame(kind, << >>) EXCEPT !.calls = calls])
    <3>1. PICK kind \in Pauses(config.flavor) :
             \E calls \in IF kind = "ToolCalls" THEN Batches ELSE {<< >>} :
                writes(asking, [frame(kind, << >>) EXCEPT !.calls = calls])
      BY <2>5
    <3>2. PICK calls \in IF kind = "ToolCalls" THEN Batches ELSE {<< >>} :
             writes(asking, [frame(kind, << >>) EXCEPT !.calls = calls])
      BY <3>1
    <3>3. calls \in Seq(CallKinds) /\ kind \in PauseKinds
      BY <2>3, <2>4
    <3>4. writes(asking, frame(kind, calls))
      BY <2>1, <3>2, Zenon
    <3> QED BY <2>5, <3>3, <3>4
  <2> QED BY <2>2, <2>5
<1>6. ASSUME NEW t, NEW f, writes(t, f), t.out = s.out
      PROVE  /\ sessions' = [sessions EXCEPT ![h] = sessions'[h]]
             /\ sessions'[h] = [t EXCEPT !.out = Append(s.out, f)]
  BY <1>1, <1>6
<1> DEFINE like(t) == t \in Sessions /\ t.out = s.out /\ t.decision = s.decision /\ t.text = s.text /\ t.first = s.first
                      /\ t.known = s.known /\ t.sid = s.sid /\ t.carried = s.carried /\ t.seq = s.seq
<1>7. like(s) /\ s.mixed = s.mixed /\ s.busy = s.busy /\ s.asks = s.asks
  BY <1>1
<1>8. like(told) /\ told.mixed = s.mixed /\ told.busy = s.busy /\ told.asks = s.asks
  BY <1>1 DEF Sessions
<1>9. like(mixed) /\ mixed.mixed /\ mixed.busy = s.busy /\ mixed.asks = s.asks
  BY <1>1 DEF Sessions
<1>10. s.busy # << >> => like(tail) /\ tail.mixed = s.mixed /\ tail.busy = Tail(s.busy) /\ tail.asks = s.asks
  <2>1. s.busy # << >> => Tail(s.busy) \in Seq(Nat)
    BY <1>2
  <2> QED BY <1>1, <2>1 DEF Sessions
<1>11. like(asking) /\ asking.mixed = s.mixed /\ asking.busy = s.busy /\ asking.asks = n
  <2> HIDE DEF n
  <2> QED BY <1>1, <1>3 DEF Sessions
<1>12. ASSUME NEW t, like(t), NEW f, f \in Frames, f.n = n, writes(t, f),
              s.mixed => t.mixed,
              f.kind = "Event" => \/ s.busy # << >> /\ f.for = Head(s.busy)
                                  \/ t.mixed /\ config.flavor = "acp",
              IF f.kind \in Ends THEN s.asks = 0 /\ s.busy # << >> /\ t.busy = Tail(s.busy) /\ f.for = Head(s.busy)
              ELSE t.busy = s.busy,
              IF f.kind \in PauseKinds THEN s.asks = 0 /\ s.busy # << >> /\ t.asks = f.n /\ f.n # 0
              ELSE t.asks = s.asks
       PROVE  /\ sessions' = [sessions EXCEPT ![h] = sessions'[h]]
              /\ Wrote(sessions'[h], sessions[h], config.flavor)
  <2> DEFINE out == Append(s.out, f)
             u == [t EXCEPT !.out = out]
  <2>1. t \in Sessions /\ t.out = s.out
    BY <1>12
  <2>2. sessions' = [sessions EXCEPT ![h] = sessions'[h]] /\ sessions'[h] = u
    BY <1>6, <1>12, <2>1
  <2>3. /\ u.out = out /\ u.decision = t.decision /\ u.text = t.text /\ u.first = t.first /\ u.known = t.known
        /\ u.sid = t.sid /\ u.mixed = t.mixed /\ u.busy = t.busy /\ u.asks = t.asks
        /\ u.carried = t.carried /\ u.seq = t.seq
    <3> HIDE DEF out
    <3> QED BY <2>1 DEF Sessions
  <2> HIDE DEF u
  <2>4. Wrote(u, s, config.flavor)
    BY <1>12, <2>3 DEF Wrote
  <2> QED BY <2>2, <2>4
<1>13. << >> \in Seq(CallKinds)
  OBVIOUS
<1> DEFINE goal == /\ sessions' = [sessions EXCEPT ![h] = sessions'[h]]
                   /\ Wrote(sessions'[h], sessions[h], config.flavor)
<1>14. s.busy # << >> => who = Head(s.busy)
  OBVIOUS
<1> HIDE DEF frame, asking, told, tail, mixed, s, writes, n, who, like
<1>15. CASE writes(told, frame("Init", << >>))
  <2> DEFINE f == frame("Init", << >>)
  <2>1. f \in Frames /\ f.kind = "Init" /\ f.n = n /\ writes(told, f)
    BY <1>4, <1>13, <1>15
  <2> HIDE DEF f
  <2>2. f.kind \notin Ends /\ f.kind \notin PauseKinds /\ f.kind # "Event"
    BY <2>1 DEF Ends, PauseKinds
  <2> QED BY <1>8, <1>12, <2>1, <2>2
<1>16. CASE s.busy # << >> /\ writes(s, frame("Event", << >>))
  <2> DEFINE f == frame("Event", << >>)
  <2>1. f \in Frames /\ f.kind = "Event" /\ f.for = who /\ f.n = n /\ writes(s, f)
    BY <1>4, <1>13, <1>16
  <2> HIDE DEF f
  <2>2. f.kind \notin Ends /\ f.kind \notin PauseKinds
    BY <2>1 DEF Ends, PauseKinds
  <2> QED BY <1>7, <1>12, <1>14, <1>16, <2>1, <2>2
<1>17. CASE config.flavor = "acp" /\ writes(mixed, frame("Event", << >>))
  <2> DEFINE f == frame("Event", << >>)
  <2>1. f \in Frames /\ f.kind = "Event" /\ f.n = n /\ writes(mixed, f)
    BY <1>4, <1>13, <1>17
  <2> HIDE DEF f
  <2>2. f.kind \notin Ends /\ f.kind \notin PauseKinds
    BY <2>1 DEF Ends, PauseKinds
  <2> QED BY <1>9, <1>12, <1>17, <2>1, <2>2
<1>18. CASE s.busy # << >> /\ s.asks = 0 /\ \E kind \in {"Completed", "Failed"} : writes(tail, frame(kind, << >>))
  <2>1. PICK kind \in {"Completed", "Failed"} : writes(tail, frame(kind, << >>))
    BY <1>18
  <2>2. kind \in Ends /\ kind \notin PauseKinds /\ kind # "Event"
    BY DEF Ends, PauseKinds
  <2> DEFINE f == frame(kind, << >>)
  <2>3. kind \in {"Init", "Event", "Completed", "Failed", "Noise"} \cup PauseKinds
    OBVIOUS
  <2>4. f \in Frames /\ f.kind = kind /\ f.for = who /\ f.n = n /\ writes(tail, f)
    BY <1>4, <1>13, <2>1, <2>3
  <2> HIDE DEF f
  <2> QED BY <1>10, <1>12, <1>14, <1>18, <2>2, <2>4
<1>19. CASE s.busy # << >> /\ s.asks = 0
            /\ \E kind \in PauseKinds : \E calls \in Seq(CallKinds) : writes(asking, frame(kind, calls))
  <2>1. PICK kind \in PauseKinds : \E calls \in Seq(CallKinds) : writes(asking, frame(kind, calls))
    BY <1>19
  <2>2. PICK calls \in Seq(CallKinds) : writes(asking, frame(kind, calls))
    BY <2>1
  <2>3. kind \notin Ends /\ kind # "Event"
    BY DEF Ends, PauseKinds
  <2> DEFINE f == frame(kind, calls)
  <2>4. f \in Frames /\ f.kind = kind /\ f.n = n /\ writes(asking, f)
    BY <1>4, <2>2
  <2> HIDE DEF f
  <2> QED BY <1>3, <1>11, <1>12, <1>19, <2>3, <2>4
<1>20. CASE writes(s, frame("Noise", << >>))
  <2> DEFINE f == frame("Noise", << >>)
  <2>1. f \in Frames /\ f.kind = "Noise" /\ f.n = n /\ writes(s, f)
    BY <1>4, <1>13, <1>20
  <2> HIDE DEF f
  <2>2. f.kind \notin Ends /\ f.kind \notin PauseKinds /\ f.kind # "Event"
    BY <2>1 DEF Ends, PauseKinds
  <2> QED BY <1>7, <1>12, <2>1, <2>2
<1> QED BY <1>5, <1>15, <1>16, <1>17, <1>18, <1>19, <1>20

(* What a line says: only an update brings text, only an end or a pause decides, and who *)
(* is known has a name.                                                                  *)
Saying(d, s, f) ==
    /\ f.kind # "Event" => d.s.text \subseteq s.text
    /\ d.decision # NoDecision => f.kind \in Ends \cup PauseKinds
    /\ d.s.known => s.known \/ (f.sid # 0 => d.s.sid # 0)

LEMMA LineSays ==
    ASSUME NEW s \in Sessions, NEW f \in Frames, NEW k, NEW decision, NEW t \in Sessions,
           f.kind # "Event" => t.text \subseteq s.text,
           decision # NoDecision => f.kind \in Ends \cup PauseKinds,
           t.known => s.known \/ (f.sid # 0 => t.sid # 0)
    PROVE  Saying(Line(t, f, k, decision), s, f)
<1> DEFINE q == t.seq + k
           u == [t EXCEPT !.seq = q, !.noise = 0]
<1>1. u.text = t.text /\ u.known = t.known /\ u.sid = t.sid
  <2> HIDE DEF q
  <2> QED BY DEF Sessions
<1>2. Line(t, f, k, decision).s = u /\ Line(t, f, k, decision).decision = decision
  BY DEF Line, Sessions
<1> HIDE DEF u
<1> QED BY <1>1, <1>2 DEF Saying

LEMMA PushSays ==
    ASSUME NEW flavor \in Flavors, NEW s \in Sessions, NEW f \in Frames, f.kind \in FrameKinds(flavor)
    PROVE  Saying(push_line(flavor, s, f), s, f)
<1> DEFINE named == Named(s, f)
           texted(x) == [s EXCEPT !.text = x]
           both(x) == [named EXCEPT !.text = x]
<1>1. f.for \in Nat /\ f.sid \in Nat /\ f.n \in Nat /\ s.text \in SUBSET Nat
  BY DEF Frames, Sessions
<1>2. named \in Sessions /\ named.text = s.text /\ (f.sid # 0 => named.sid # 0)
  BY <1>1 DEF Named, Sessions
<1> HIDE DEF named
<1>3. \A x \in SUBSET Nat : texted(x) \in Sessions /\ texted(x).text = x /\ texted(x).known = s.known
  BY DEF Sessions
<1>4. \A x \in SUBSET Nat : both(x) \in Sessions /\ both(x).text = x /\ both(x).sid = named.sid
  BY <1>2 DEF Sessions
<1>5. {} \in SUBSET Nat /\ {f.for} \in SUBSET Nat /\ s.text \cup {f.for} \in SUBSET Nat
  BY <1>1
<1> HIDE DEF texted, both
<1>6. ASSUME NEW k, NEW decision, decision # NoDecision => f.kind \in Ends \cup PauseKinds
      PROVE  Saying(Line(s, f, k, decision), s, f) /\ Saying(Line(named, f, k, decision), s, f)
             /\ Saying(Line(texted({}), f, k, decision), s, f) /\ Saying(Line(both({}), f, k, decision), s, f)
  <2>1. Saying(Line(s, f, k, decision), s, f)
    BY <1>6, LineSays
  <2>2. Saying(Line(named, f, k, decision), s, f)
    BY <1>2, <1>6, LineSays
  <2>3. Saying(Line(texted({}), f, k, decision), s, f)
    BY <1>3, <1>5, <1>6, LineSays
  <2>4. Saying(Line(both({}), f, k, decision), s, f)
    BY <1>2, <1>4, <1>5, <1>6, LineSays
  <2> QED BY <2>1, <2>2, <2>3, <2>4
<1>7. ASSUME NEW k, f.kind = "Event"
      PROVE  Saying(Line(texted({f.for}), f, k, NoDecision), s, f) /\ Saying(Line(both({f.for}), f, k, NoDecision), s, f)
             /\ Saying(Line(texted(s.text \cup {f.for}), f, k, NoDecision), s, f)
  <2>1. Saying(Line(texted({f.for}), f, k, NoDecision), s, f)
    BY <1>3, <1>5, <1>7, LineSays
  <2>2. Saying(Line(both({f.for}), f, k, NoDecision), s, f)
    BY <1>2, <1>4, <1>5, <1>7, LineSays
  <2>3. Saying(Line(texted(s.text \cup {f.for}), f, k, NoDecision), s, f)
    BY <1>3, <1>5, <1>7, LineSays
  <2> QED BY <2>1, <2>2, <2>3
<1>9. ASSUME f.kind \in {"Init", "Event", "Completed", "Failed"}
      PROVE  Saying(codex_push_line(s, f), s, f)
  <2>1. f.kind = "Init" => codex_push_line(s, f) = Line(named, f, 1, NoDecision)
    BY DEF codex_push_line, named
  <2>2. f.kind = "Event" => codex_push_line(s, f) = Line(texted({f.for}), f, 1, NoDecision)
    BY DEF codex_push_line, codex_handle_item, texted
  <2>3. f.kind = "Completed" => codex_push_line(s, f) = Line(texted({}), f, 1, Completed(s.text))
    BY DEF codex_push_line, codex_handle_turn_end, TextTaken, texted
  <2>4. f.kind = "Failed" => codex_push_line(s, f) = Line(texted({}), f, 0, Broken)
    BY DEF codex_push_line, codex_handle_turn_end, TextTaken, texted
  <2> QED BY <1>6, <1>7, <1>9, <2>1, <2>2, <2>3, <2>4 DEF Ends
<1>10. ASSUME f.kind \in {"Event", "Completed", "Failed"}
       PROVE  Saying(opencode_push_line(s, f), s, f)
  <2> DEFINE new == IF s.known THEN 0 ELSE 1
  <2>1. f.kind = "Event" => opencode_push_line(s, f) = Line(both({f.for}), f, new + 1, NoDecision)
    BY DEF opencode_push_line, opencode_handle_part, both, named
  <2>2. f.kind = "Completed" => opencode_push_line(s, f) = Line(both({}), f, new + 1, Completed(named.text))
    BY DEF opencode_push_line, opencode_handle_step_finish, TextTaken, both, named
  <2>3. f.kind = "Failed" => opencode_push_line(s, f) = Line(both({}), f, new, Broken)
    BY DEF opencode_push_line, opencode_handle_step_finish, TextTaken, both, named
  <2> QED BY <1>6, <1>7, <1>10, <2>1, <2>2, <2>3 DEF Ends
<1>11. ASSUME f.kind \in {"Init", "Event", "Completed", "Failed"} \cup PauseKinds
       PROVE  Saying(claude_push_line(s, f), s, f)
  <2>1. f.kind = "Init" => claude_push_line(s, f) = Line(named, f, 1, NoDecision)
    BY DEF claude_push_line, named
  <2>2. f.kind = "Event" => claude_push_line(s, f) = Line(s, f, 1, NoDecision)
    BY DEF claude_push_line, claude_handle_message
  <2>3. f.kind \notin {"Init", "Event"} =>
           claude_push_line(s, f) \in {Line(s, f, 1, Completed({f.for})), Line(s, f, 0, Broken),
                                       Line(s, f, 1, Paused(f)), Line(s, f, 0, Paused(f))}
    BY DEF claude_push_line, claude_handle_result
  <2> QED BY <1>6, <1>11, <2>1, <2>2, <2>3 DEF Ends
<1>12. Saying(tolerate_non_json_line(s), s, f) /\ Saying([tolerate_non_json_line(s) EXCEPT !.ok = FALSE], s, f)
  <2> DEFINE k == s.noise + 1
             t == [s EXCEPT !.noise = k]
             d == tolerate_non_json_line(s)
             e == [d EXCEPT !.ok = FALSE]
  <2>1. t.text = s.text /\ t.known = s.known
    <3> HIDE DEF k
    <3> QED BY DEF Sessions
  <2>2. t = [s EXCEPT !.noise = @ + 1]
    BY DEF Sessions
  <2>3. d.s = t /\ d.decision = NoDecision /\ e.s = t /\ e.decision = NoDecision
    BY <2>2 DEF tolerate_non_json_line
  <2> HIDE DEF t, d, e
  <2>4. Saying(d, s, f) /\ Saying(e, s, f)
    BY <2>1, <2>3 DEF Saying
  <2> QED BY <2>4 DEF d, e
<1>13. ASSUME f.kind \in {"Noise", "Init", "Event", "Completed", "Failed", "Interaction"}
       PROVE  Saying(push_jsonrpc_line(s, f), s, f)
  <2>1. f.kind = "Noise" => push_jsonrpc_line(s, f) = [tolerate_non_json_line(s) EXCEPT !.ok = FALSE]
    BY DEF push_jsonrpc_line
  <2>2. f.kind = "Init" => push_jsonrpc_line(s, f) = Line(named, f, 1, NoDecision)
    BY DEF push_jsonrpc_line, named
  <2>3. f.kind = "Event" => push_jsonrpc_line(s, f) = Line(texted(s.text \cup {f.for}), f, 1, NoDecision)
    BY DEF push_jsonrpc_line, on_session_update, texted, Sessions
  <2>4. f.kind = "Completed" => push_jsonrpc_line(s, f) = Line(texted({}), f, 1, Completed(s.text))
    BY DEF push_jsonrpc_line, TextTaken, texted
  <2>5. f.kind = "Failed" => push_jsonrpc_line(s, f) = Line(texted({}), f, 0, Broken)
    BY DEF push_jsonrpc_line, TextTaken, texted
  <2> DEFINE asking == [s EXCEPT !.perm = f.n]
  <2>6. f.kind = "Interaction" => push_jsonrpc_line(s, f) = Line(asking, f, 1, Paused(f))
    BY DEF push_jsonrpc_line, cache_permission_request
  <2>7. asking \in Sessions /\ asking.text = s.text /\ asking.known = s.known
    BY <1>1 DEF Sessions
  <2> HIDE DEF asking
  <2>8. CASE f.kind = "Interaction"
    <3>1. f.kind \in Ends \cup PauseKinds
      BY <2>8 DEF PauseKinds
    <3>2. Saying(Line(asking, f, 1, Paused(f)), s, f)
      BY <2>7, <3>1, LineSays
    <3> QED BY <2>6, <2>8, <3>2
  <2> QED BY <1>6, <1>7, <1>12, <1>13, <2>1, <2>2, <2>3, <2>4, <2>5, <2>8 DEF Ends
<1>14. CASE flavor = "acp"
  <2>1. f.kind \in {"Noise", "Init", "Event", "Completed", "Failed", "Interaction"}
    BY <1>14 DEF FrameKinds, Pauses, OneShot
  <2> QED BY <1>13, <1>14, <2>1 DEF push_line
<1>15. CASE flavor # "acp" /\ f.kind = "Noise"
  BY <1>12, <1>15 DEF push_line
<1>16. CASE flavor = "codex" /\ f.kind # "Noise"
  <2>1. f.kind \in {"Init", "Event", "Completed", "Failed"}
    BY <1>16 DEF FrameKinds, Pauses, OneShot
  <2> QED BY <1>9, <1>16, <2>1 DEF push_line
<1>17. CASE flavor = "opencode" /\ f.kind # "Noise"
  <2>1. f.kind \in {"Event", "Completed", "Failed"}
    BY <1>17 DEF FrameKinds, Pauses, OneShot
  <2> QED BY <1>10, <1>17, <2>1 DEF push_line
<1>18. CASE flavor \in {"claude", "scripted"} /\ f.kind # "Noise"
  <2>1. f.kind \in {"Init", "Event", "Completed", "Failed"} \cup PauseKinds
    BY <1>18 DEF FrameKinds, Pauses, OneShot, PauseKinds
  <2> QED BY <1>11, <1>18, <2>1 DEF push_line
<1> QED BY <1>14, <1>15, <1>16, <1>17, <1>18 DEF Flavors

(* A frame of the session has been read. *)
LEMMA ReadMeans ==
    ASSUME NEW s \in Sessions, s.out # << >>
    PROVE  LET rest == [s EXCEPT !.out = Tail(@)]
           IN  /\ rest \in Sessions /\ Head(s.out) \in Frames /\ rest.out = Tail(s.out)
               /\ rest.busy = s.busy /\ rest.asks = s.asks /\ rest.decision = s.decision /\ rest.text = s.text
               /\ rest.first = s.first /\ rest.known = s.known /\ rest.sid = s.sid /\ rest.mixed = s.mixed
<1> DEFINE q == Tail(s.out)
           rest == [s EXCEPT !.out = q]
<1>1. s.out \in Seq(Frames)
  BY DEF Sessions
<1>2. q \in Seq(Frames) /\ Head(s.out) \in Frames
  BY <1>1
<1>3. [s EXCEPT !.out = Tail(@)] = rest
  OBVIOUS
<1> HIDE DEF q
<1>4. /\ rest \in Sessions /\ rest.out = q
      /\ rest.busy = s.busy /\ rest.asks = s.asks /\ rest.decision = s.decision /\ rest.text = s.text
      /\ rest.first = s.first /\ rest.known = s.known /\ rest.sid = s.sid /\ rest.mixed = s.mixed
  BY <1>2 DEF Sessions
<1> HIDE DEF rest
<1> QED BY <1>2, <1>3, <1>4 DEF q

(* What a session is after a frame of it was read, and what was decided. *)
HasRead(t, decision, s, flavor) ==
    LET f == s.out[1]
    IN  /\ s.out # << >> /\ t.out = Tail(s.out)
        /\ t.busy = s.busy /\ t.asks = s.asks /\ t.decision = s.decision /\ t.first = s.first /\ t.mixed = s.mixed
        /\ t.text \subseteq s.text \cup {f.for}
        /\ f.kind # "Event" => t.text \subseteq s.text
        /\ flavor \in {"claude", "scripted"} => t.text = s.text
        /\ f.kind \in Ends /\ flavor \notin {"claude", "scripted"} => t.text = {}
        /\ decision.kind = "Completed" => f.kind = "Completed" /\ decision.of \subseteq s.text \cup {f.for}
        /\ decision.kind \in PauseKinds => f.kind \in PauseKinds /\ decision.asks = f.n
        /\ decision # NoDecision => f.kind \in Ends \cup PauseKinds
        /\ t.known => t.sid # 0

LEMMA DecodedReads ==
    ASSUME Stock, FramesFit, Accounts, SessionsSound, NEW h \in Handles, sessions[h].out # << >>
    PROVE  HasRead(Decoded(h).s, Decoded(h).decision, sessions[h], config.flavor)
<1> DEFINE s == sessions[h]
           d == Decoded(h)
           rest == Rest(h)
           f == s.out[1]
           flavor == config.flavor
<1>1. s \in Sessions /\ h # 0 /\ Fit(s, h) /\ s.out \in Seq(Frames) /\ Sound(s, flavor)
  <2>1. h \in 1..Len(sessions)
    BY DEF Stock
  <2>2. s \in Sessions
    BY DEF Stock
  <2> QED BY <2>1, <2>2 DEF FramesFit, Sessions, SessionsSound
<1>2. f = Frame(h) /\ 1 \in DOMAIN s.out
  BY <1>1, TailOf DEF Frame
<1>3. Decoding(d, rest, f, flavor)
  BY <1>2, DecodedFits
<1>4. /\ rest \in Sessions /\ f \in Frames /\ rest.out = Tail(s.out)
      /\ rest.busy = s.busy /\ rest.asks = s.asks /\ rest.decision = s.decision /\ rest.text = s.text
      /\ rest.first = s.first /\ rest.known = s.known /\ rest.sid = s.sid /\ rest.mixed = s.mixed
  <2>1. s.out # << >> /\ f = Head(s.out)
    BY <1>2 DEF Frame
  <2> QED BY <1>1, <2>1, ReadMeans DEF Rest
<1>5. Saying(d, rest, f)
  <2>1. flavor \in Flavors
    BY DEF Accounts, SetUp
  <2>2. f.kind \in FrameKinds(flavor)
    BY <1>1, <1>2 DEF Fit
  <2>3. d = push_line(flavor, rest, f)
    BY <1>2 DEF Decoded, Rest
  <2> HIDE DEF d, rest, f, flavor
  <2> QED BY <1>4, <2>1, <2>2, <2>3, PushSays
<1>6. f.sid # 0
  BY <1>1, <1>2 DEF Fit
<1> HIDE DEF s, d, rest, f, flavor
<1>7. d.s.known => d.s.sid # 0
  <2>1. d.s.sid = rest.sid \/ d.s.sid = f.sid
    BY <1>3 DEF Decoding, Heeds
  <2>2. s.known => s.sid # 0
    BY <1>1 DEF Sound, LaunchFirst
  <2> QED BY <1>4, <1>5, <1>6, <2>1, <2>2 DEF Saying
<1>8. d.decision.kind \in PauseKinds => f.kind \in PauseKinds /\ d.decision.asks = f.n
  BY <1>3 DEF Decoding, Decides, Paused
<1>9. d.decision.kind = "Completed" => f.kind = "Completed" /\ d.decision.of \subseteq s.text \cup {f.for}
  BY <1>3, <1>4 DEF Decoding, Decides
<1>10. HasRead(d.s, d.decision, s, flavor)
  <2>1. s.out # << >>
    BY DEF s
  <2>2. s.out[1] = f
    BY DEF f
  <2>3. /\ d.s.out = rest.out /\ d.s.busy = rest.busy /\ d.s.asks = rest.asks /\ d.s.decision = rest.decision
        /\ d.s.first = rest.first /\ d.s.mixed = rest.mixed
    BY <1>3 DEF Decoding, Reader
  <2>4. /\ d.s.text \subseteq rest.text \cup {f.for}
        /\ flavor \in {"claude", "scripted"} => d.s.text = rest.text
        /\ f.kind \in Ends /\ flavor \notin {"claude", "scripted"} => d.s.text = {}
    BY <1>3 DEF Decoding, Heeds, Ends
  <2>5. /\ f.kind # "Event" => d.s.text \subseteq rest.text
        /\ d.decision # NoDecision => f.kind \in Ends \cup PauseKinds
    BY <1>5 DEF Saying
  <2> QED BY <1>4, <1>7, <1>8, <1>9, <2>1, <2>2, <2>3, <2>4, <2>5 DEF HasRead
<1> QED BY <1>10 DEF d, s, flavor

LEMMA ReadOwns ==
    ASSUME NEW s \in Sessions, NEW t, NEW decision, NEW flavor, HasRead(t, decision, s, flavor),
           NEW p, OwnsOnly(s, p)
    PROVE  OwnsOnly(t, p) /\ (decision.kind = "Completed" => decision.of \subseteq {p})
<1> DEFINE f == s.out[1]
<1>1. s.out \in Seq(Frames) /\ s.out # << >>
  BY DEF Sessions, HasRead
<1>2. f.kind \in {"Event", "Completed"} => f.for = p
  <2>1. 1 \in DOMAIN s.out
    BY <1>1, TailOf
  <2> QED BY <2>1 DEF OwnsOnly
<1>3. \A i \in DOMAIN t.out : i + 1 \in DOMAIN s.out /\ t.out[i] = s.out[i + 1]
  BY <1>1, TailOf DEF HasRead
<1>4. t.text \subseteq {p}
  <2>1. CASE f.kind = "Event"
    BY <1>2, <2>1 DEF HasRead, OwnsOnly
  <2>2. CASE f.kind # "Event"
    BY <2>2 DEF HasRead, OwnsOnly
  <2> QED BY <2>1, <2>2
<1>5. decision.kind = "Completed" => decision.of \subseteq {p}
  BY <1>2 DEF HasRead, OwnsOnly
<1>6. \A i \in DOMAIN t.out : t.out[i].kind \in {"Event", "Completed"} => t.out[i].for = p
  BY <1>3 DEF OwnsOnly
<1>7. t.busy = s.busy /\ t.decision = s.decision
  BY DEF HasRead
<1> QED BY <1>4, <1>5, <1>6, <1>7 DEF OwnsOnly

LEMMA ReadSound ==
    ASSUME NEW s \in Sessions, NEW t, NEW decision, NEW flavor, HasRead(t, decision, s, flavor), Sound(s, flavor)
    PROVE  /\ Sound(t, flavor)
           /\ decision.kind \in PauseKinds =>
                 t.asks = decision.asks /\ t.asks # 0 /\ Quiet(t) /\ t.decision.kind \notin PauseKinds
           /\ Silent(s) => Silent(t) /\ decision = NoDecision
<1> DEFINE f == s.out[1]
<1>1. s.out \in Seq(Frames) /\ s.out # << >>
  BY DEF Sessions, HasRead
<1>2. 1 \in DOMAIN s.out
  BY <1>1, TailOf
<1>3. \A i \in DOMAIN t.out : i \in Nat /\ i # 0 /\ i + 1 \in DOMAIN s.out /\ t.out[i] = s.out[i + 1]
  BY <1>1, TailOf DEF HasRead
<1>4. \A i \in DOMAIN s.out : i \in Nat /\ (i = 1 \/ (i - 1 \in DOMAIN t.out /\ t.out[i - 1] = s.out[i]))
  BY <1>1, TailOf DEF HasRead
<1>5. t.busy = s.busy /\ t.asks = s.asks /\ t.decision = s.decision /\ t.first = s.first /\ t.mixed = s.mixed
  BY DEF HasRead
<1>6. PausesFit(s)
  BY DEF Sound
<1>7. Quiet(s) => Quiet(t)
  BY <1>3 DEF Quiet
<1>8. PausesFit(t)
  <2>1. ASSUME NEW i \in DOMAIN t.out, t.out[i].kind \in PauseKinds
        PROVE  /\ t.asks = t.out[i].n /\ t.asks # 0
               /\ \A j \in DOMAIN t.out : t.out[j].kind \in PauseKinds => j = i
    <3>1. i + 1 \in DOMAIN s.out /\ t.out[i] = s.out[i + 1]
      BY <1>3
    <3>2. \A j \in DOMAIN t.out : t.out[j].kind \in PauseKinds => j + 1 = i + 1
      BY <1>3, <1>6, <2>1, <3>1 DEF PausesFit
    <3> QED BY <1>3, <1>5, <1>6, <2>1, <3>1, <3>2 DEF PausesFit
  <2> QED BY <1>5, <1>6, <1>7, <2>1 DEF PausesFit
<1>9. TextEnds(t)
  <2>1. SUFFICES ASSUME ~t.mixed PROVE TextEnds(t)
    BY DEF TextEnds
  <2>2. /\ \A i \in DOMAIN s.out : s.out[i].kind = "Event" => EndComes(s, i)
        /\ s.text # {} => EndComes(s, 0)
    BY <1>5, <2>1 DEF Sound, TextEnds
  <2>3. ASSUME NEW i \in Nat, EndComes(s, i + 1) PROVE EndComes(t, i)
    <3>1. CASE s.busy # << >>
      BY <1>5, <3>1 DEF EndComes
    <3>2. CASE \E j \in DOMAIN s.out : j > i + 1 /\ s.out[j].kind \in Ends
      <4>1. PICK j \in DOMAIN s.out : j > i + 1 /\ s.out[j].kind \in Ends
        BY <3>2
      <4>2. j - 1 \in DOMAIN t.out /\ t.out[j - 1] = s.out[j] /\ j - 1 > i
        BY <1>4, <4>1
      <4> QED BY <4>1, <4>2 DEF EndComes
    <3> QED BY <2>3, <3>1, <3>2 DEF EndComes
  <2>4. ASSUME NEW i \in DOMAIN t.out, t.out[i].kind = "Event" PROVE EndComes(t, i)
    BY <1>3, <2>2, <2>3, <2>4
  <2>5. t.text # {} => EndComes(t, 0)
    <3>1. SUFFICES ASSUME t.text # {} PROVE EndComes(t, 0)
      OBVIOUS
    <3>2. CASE f.kind = "Event"
      <4>1. EndComes(s, 0 + 1)
        BY <1>2, <2>2, <3>2
      <4> QED BY <2>3, <4>1
    <3>3. CASE f.kind # "Event"
      <4>1. s.text # {} /\ f.kind \notin Ends
        BY <3>1, <3>3 DEF HasRead, Sound, LaunchFirst
      <4>2. EndComes(s, 0)
        BY <2>2, <4>1
      <4>3. CASE s.busy # << >>
        BY <1>5, <4>3 DEF EndComes
      <4>4. CASE \E j \in DOMAIN s.out : j > 0 /\ s.out[j].kind \in Ends
        <5>1. PICK j \in DOMAIN s.out : j > 0 /\ s.out[j].kind \in Ends
          BY <4>4
        <5>2. j # 1
          BY <4>1, <5>1
        <5>3. j - 1 \in DOMAIN t.out /\ t.out[j - 1] = s.out[j] /\ j - 1 > 0
          BY <1>4, <5>1, <5>2
        <5> QED BY <5>1, <5>3 DEF EndComes
      <4> QED BY <4>2, <4>3, <4>4 DEF EndComes
    <3> QED BY <3>2, <3>3
  <2> QED BY <2>4, <2>5 DEF TextEnds
<1>10. LaunchFirst(t, flavor)
  <2>1. t.first # 0 => OwnsOnly(t, t.first)
    BY <1>5, ReadOwns DEF Sound, LaunchFirst
  <2>2. t.known => t.sid # 0
    BY DEF HasRead
  <2>3. flavor \in {"claude", "scripted"} => t.text = {}
    BY DEF HasRead, Sound, LaunchFirst
  <2> QED BY <1>5, <2>1, <2>2, <2>3 DEF Sound, LaunchFirst
<1>11. ASSUME decision.kind \in PauseKinds
       PROVE  t.asks = decision.asks /\ t.asks # 0 /\ Quiet(t) /\ t.decision.kind \notin PauseKinds
  <2>1. f.kind \in PauseKinds /\ decision.asks = f.n
    BY <1>11 DEF HasRead
  <2>2. s.asks = f.n /\ s.asks # 0 /\ \A j \in DOMAIN s.out : s.out[j].kind \in PauseKinds => j = 1
    BY <1>2, <1>6, <2>1 DEF PausesFit
  <2>3. ~Quiet(s)
    BY <1>2, <2>1 DEF Quiet
  <2>4. s.decision.kind \notin PauseKinds
    BY <1>6, <2>3 DEF PausesFit
  <2>5. Quiet(t)
    <3>1. ASSUME NEW i \in DOMAIN t.out, t.out[i].kind \in PauseKinds PROVE FALSE
      <4>1. i \in Nat /\ i # 0 /\ i + 1 = 1
        BY <1>3, <2>2, <3>1
      <4> QED BY <4>1
    <3> QED BY <3>1 DEF Quiet
  <2> QED BY <1>5, <2>1, <2>2, <2>4, <2>5
<1>12. ASSUME Silent(s) PROVE Silent(t) /\ decision = NoDecision
  <2>1. f.kind \notin Ends \cup PauseKinds
    BY <1>2, <1>12 DEF Silent
  <2>2. decision = NoDecision
    BY <2>1 DEF HasRead
  <2>3. \A i \in DOMAIN t.out : t.out[i].kind \notin Ends \cup PauseKinds
    BY <1>3, <1>12 DEF Silent
  <2> QED BY <1>5, <1>12, <2>2, <2>3 DEF Silent
<1> QED BY <1>8, <1>9, <1>10, <1>11, <1>12 DEF Sound

-----------------------------------------------------------------------------
(***************************************************************************)
(* What starting and advancing make of a session.                          *)
(***************************************************************************)
LEMMA OnlyOne ==
    ASSUME NEW p \in Nat
    PROVE  LET q == Append(<< >>, p)
           IN  q \in Seq(Nat) /\ q # << >> /\ q = <<p>> /\ \A i \in DOMAIN q : q[i] = p
OBVIOUS

LEMMA FreshSound ==
    ASSUME NEW s, s.out = << >>, s.decision = NoDecision, s.known = FALSE, s.text = {}, s.asks = 0,
           NEW flavor, flavor = "acp" => s.first = 0,
           s.first # 0 => \A i \in DOMAIN s.busy : s.busy[i] = s.first
    PROVE  Sound(s, flavor) /\ (s.busy = << >> => Silent(s))
<1>1. DOMAIN s.out = {} /\ NoDecision.kind = "None"
  BY DEF NoDecision
<1>2. PausesFit(s)
  BY <1>1 DEF PausesFit, PauseKinds
<1>3. TextEnds(s)
  BY <1>1 DEF TextEnds
<1>4. LaunchFirst(s, flavor)
  BY <1>1 DEF LaunchFirst, OwnsOnly
<1>5. s.busy = << >> => Silent(s)
  BY <1>1 DEF Silent
<1> QED BY <1>2, <1>3, <1>4, <1>5 DEF Sound

LEMMA BegunSound ==
    ASSUME NEW flavor \in Flavors, NEW sid \in Nat, NEW seq \in Nat, NEW tree \in Nat,
           NEW input \in Inputs, NEW tools \in ToolSets
    PROVE  LET begun == start(flavor, NewSession(sid, seq, tree), input, tools)
           IN  /\ Sound(begun.s, flavor)
               /\ begun.prelude \/ sid # 0
               /\ begun.ok => \/ Silent(begun.s)
                              \/ begun.s.first = input.prompt /\ (IsPrompt(input) \/ sid = 0)
<1> DEFINE s == NewSession(sid, seq, tree)
           p == input.prompt
           busy == Append(s.busy, p)
           mixed == s.mixed \/ s.busy # << >> \/ s.out # << >>
           t == [s EXCEPT !.busy = busy, !.mixed = mixed]
           g == [t EXCEPT !.first = p]
           begun == start(flavor, s, input, tools)
<1>1. p \in Nat
  BY DEF Inputs
<1>2. s \in Sessions
  BY NewSessionFits
<1>3. /\ s.out = << >> /\ s.decision = NoDecision /\ s.known = FALSE /\ s.text = {} /\ s.asks = 0
      /\ s.first = 0 /\ s.busy = << >> /\ s.sid = sid
  BY DEF NewSession
<1>4. GivePrompt(s, p) = t
  BY DEF GivePrompt
<1> HIDE DEF s
<1>5. busy \in Seq(Nat) /\ \A i \in DOMAIN busy : busy[i] = p
  BY <1>1, <1>3, OnlyOne
<1>6. mixed \in BOOLEAN
  BY <1>2 DEF Sessions
<1> HIDE DEF busy, mixed
<1>7. t \in Sessions
  BY <1>2, <1>5, <1>6 DEF Sessions
<1>8. /\ t.out = << >> /\ t.decision = NoDecision /\ t.known = FALSE /\ t.text = {} /\ t.asks = 0
      /\ t.busy = busy
  BY <1>2, <1>3 DEF Sessions
<1> HIDE DEF t
<1>9. /\ g.out = << >> /\ g.decision = NoDecision /\ g.known = FALSE /\ g.text = {} /\ g.asks = 0
      /\ g.busy = busy /\ g.first = p
  BY <1>1, <1>7, <1>8 DEF Sessions
<1>10. oneshot_begin(s, p) = g /\ claude_begin(s, input) \in {s, g} /\ (sid # 0 => claude_begin(s, input) = s)
  BY <1>3, <1>4 DEF oneshot_begin, claude_begin
<1> HIDE DEF g
<1>11. Sound(s, flavor) /\ Silent(s)
  BY <1>3, FreshSound
<1>12. flavor # "acp" => Sound(g, flavor)
  <2>1. SUFFICES ASSUME flavor # "acp" PROVE Sound(g, flavor)
    OBVIOUS
  <2>2. \A i \in DOMAIN g.busy : g.busy[i] = g.first
    BY <1>5, <1>9
  <2> QED BY <1>9, <2>1, <2>2, FreshSound
<1> DEFINE good(b) == /\ Sound(b.s, flavor)
                      /\ b.prelude \/ sid # 0
                      /\ b.ok => \/ Silent(b.s)
                                 \/ b.s.first = p /\ (IsPrompt(input) \/ sid = 0)
<1>13. ASSUME flavor # "acp", NEW ok, ok => IsPrompt(input)
       PROVE  good(Begun(ok, g, TRUE))
  <2>1. Begun(ok, g, TRUE).s = g /\ Begun(ok, g, TRUE).prelude = TRUE /\ Begun(ok, g, TRUE).ok = ok
    BY DEF Begun
  <2> QED BY <1>9, <1>12, <1>13, <2>1
<1>14. ASSUME NEW ok, NEW prelude PROVE sid # 0 \/ prelude => good(Begun(ok, s, prelude))
  <2>1. Begun(ok, s, prelude).s = s /\ Begun(ok, s, prelude).prelude = prelude
    BY DEF Begun
  <2> QED BY <1>11, <2>1
<1>15. ASSUME flavor # "acp", NEW ok, sid = 0 PROVE good(Begun(ok, g, TRUE))
  <2>1. Begun(ok, g, TRUE).s = g /\ Begun(ok, g, TRUE).prelude = TRUE
    BY DEF Begun
  <2> QED BY <1>9, <1>12, <1>15, <2>1
<1> HIDE DEF good, begun, p
<1>16. ASSUME flavor = "codex" PROVE good(begun)
  <2>1. begun = Begun(reject_unsupported_tools(tools) /\ IsPrompt(input), g, TRUE)
    BY <1>10, <1>16 DEF start, codex_start, begun, p
  <2> QED BY <1>13, <1>16, <2>1
<1>17. ASSUME flavor = "opencode" PROVE good(begun)
  <2>1. begun = Begun(reject_unsupported_tools(tools) /\ IsPrompt(input), g, TRUE)
    BY <1>10, <1>17 DEF start, opencode_start, begun, p
  <2> QED BY <1>13, <1>17, <2>1
<1>18. ASSUME flavor = "acp" PROVE good(begun)
  <2>1. begun = Begun(reject_unsupported_tools(tools), s, TRUE)
    BY <1>18 DEF start, acp_start, begun
  <2> QED BY <1>14, <2>1
<1>19. ASSUME flavor \in {"claude", "scripted"} PROVE good(begun)
  <2>1. PICK ok : begun = Begun(ok, claude_begin(s, input), s.sid = 0)
    BY <1>19 DEF start, claude_start, scripted_start, begun
  <2>2. CASE sid = 0
    <3>1. claude_begin(s, input) = g
      BY <1>3, <1>4, <2>2 DEF claude_begin, g, p
    <3>2. (s.sid = 0) = TRUE
      BY <1>3, <2>2
    <3> QED BY <1>15, <1>19, <2>1, <2>2, <3>1, <3>2
  <2>3. CASE sid # 0
    <3>1. claude_begin(s, input) = s
      BY <1>10, <2>3
    <3> QED BY <1>14, <2>1, <2>3, <3>1
  <2> QED BY <2>2, <2>3
<1>20. good(begun)
  BY <1>16, <1>17, <1>18, <1>19 DEF Flavors
<1> QED BY <1>20 DEF good, begun, s, p

(* The session with the runtime told something. *)
Fine(s, flavor, p) == Sound(s, flavor) /\ (~s.mixed => OwnsOnly(s, p))

LEMMA GivePromptFine ==
    ASSUME NEW s \in Sessions, NEW flavor, Sound(s, flavor), s.first = 0, s.decision = NoDecision, NEW p \in Nat
    PROVE  Fine(GivePrompt(s, p), flavor, p)
<1> DEFINE busy == Append(s.busy, p)
           mixed == s.mixed \/ s.busy # << >> \/ s.out # << >>
           t == [s EXCEPT !.busy = busy, !.mixed = mixed]
<1>1. GivePrompt(s, p) = t
  BY DEF GivePrompt
<1>2. s.busy \in Seq(Nat) /\ s.out \in Seq(Frames) /\ s.mixed \in BOOLEAN
  BY DEF Sessions
<1>3. busy # << >> /\ (s.busy = << >> => \A i \in DOMAIN busy : busy[i] = p)
  BY <1>2, OnlyOne
<1>4. ~mixed => s.busy = << >> /\ s.out = << >> /\ ~s.mixed
  OBVIOUS
<1> HIDE DEF busy, mixed
<1>5. /\ t.out = s.out /\ t.asks = s.asks /\ t.decision = s.decision /\ t.text = s.text /\ t.first = s.first
      /\ t.known = s.known /\ t.sid = s.sid /\ t.busy = busy /\ t.mixed = mixed
  BY DEF Sessions
<1> HIDE DEF t
<1>6. PausesFit(t)
  BY <1>5 DEF Sound, PausesFit, Quiet
<1>7. TextEnds(t)
  BY <1>3, <1>5 DEF TextEnds, EndComes
<1>8. LaunchFirst(t, flavor)
  BY <1>5 DEF Sound, LaunchFirst
<1>9. ASSUME ~t.mixed PROVE OwnsOnly(t, p)
  <2>1. s.busy = << >> /\ s.out = << >> /\ ~s.mixed
    BY <1>4, <1>5, <1>9
  <2>2. DOMAIN s.out = {}
    BY <2>1
  <2>3. s.text = {}
    BY <2>1, <2>2 DEF Sound, TextEnds, EndComes
  <2>4. NoDecision.kind # "Completed"
    BY DEF NoDecision
  <2> QED BY <1>3, <1>5, <2>1, <2>2, <2>3, <2>4 DEF OwnsOnly
<1> QED BY <1>1, <1>6, <1>7, <1>8, <1>9 DEF Fine, Sound

LEMMA RelaunchFine ==
    ASSUME NEW s \in Sessions, NEW flavor, Sound(s, flavor), s.first = 0, s.decision = NoDecision, NEW p \in Nat
    PROVE  Fine(Relaunch(s, p), flavor, p)
<1> DEFINE mixed == s.mixed \/ s.busy # << >> \/ s.out # << >>
           busy == <<p>>
           t == [s EXCEPT !.run = TRUE, !.told = FALSE, !.out = << >>, !.busy = busy, !.asks = 0, !.mixed = mixed]
<1>1. Relaunch(s, p) = t
  BY DEF Relaunch
<1>2. s.busy \in Seq(Nat) /\ s.out \in Seq(Frames) /\ s.mixed \in BOOLEAN
  BY DEF Sessions
<1>3. busy # << >> /\ \A i \in DOMAIN busy : busy[i] = p
  OBVIOUS
<1>4. ~mixed => s.busy = << >> /\ s.out = << >> /\ ~s.mixed
  OBVIOUS
<1> HIDE DEF busy, mixed
<1>5. /\ t.out = << >> /\ t.asks = 0 /\ t.decision = s.decision /\ t.text = s.text /\ t.first = s.first
      /\ t.known = s.known /\ t.sid = s.sid /\ t.busy = busy /\ t.mixed = mixed
  BY DEF Sessions
<1>6. DOMAIN << >> = {} /\ NoDecision.kind = "None"
  BY DEF NoDecision
<1> HIDE DEF t
<1>7. PausesFit(t)
  BY <1>5, <1>6 DEF PausesFit, PauseKinds
<1>8. TextEnds(t)
  BY <1>3, <1>5, <1>6 DEF TextEnds, EndComes
<1>9. LaunchFirst(t, flavor)
  BY <1>5 DEF Sound, LaunchFirst
<1>10. ASSUME ~t.mixed PROVE OwnsOnly(t, p)
  <2>1. s.busy = << >> /\ s.out = << >> /\ ~s.mixed
    BY <1>4, <1>5, <1>10
  <2>2. s.text = {}
    BY <1>6, <2>1 DEF Sound, TextEnds, EndComes
  <2> QED BY <1>3, <1>5, <1>6, <2>2 DEF OwnsOnly
<1> QED BY <1>1, <1>7, <1>8, <1>9, <1>10 DEF Fine, Sound

LEMMA HeardFine ==
    ASSUME NEW s \in Sessions, NEW flavor, NEW asks, NEW p, s.asks = asks => Quiet(s), s.decision = NoDecision,
           Fine(s, flavor, p)
    PROVE  Fine(Heard(s, asks), flavor, p)
<1> DEFINE n == IF s.asks = asks THEN 0 ELSE s.asks
           t == [s EXCEPT !.asks = n]
<1>1. Heard(s, asks) = t
  BY DEF Heard
<1>2. n = s.asks \/ Quiet(s)
  OBVIOUS
<1> HIDE DEF n
<1>3. /\ t.out = s.out /\ t.busy = s.busy /\ t.decision = s.decision /\ t.text = s.text
      /\ t.first = s.first /\ t.known = s.known /\ t.sid = s.sid /\ t.mixed = s.mixed /\ t.asks = n
  BY DEF Sessions
<1> HIDE DEF t
<1>4. PausesFit(t)
  <2>1. s.decision.kind \notin PauseKinds
    BY DEF NoDecision, PauseKinds
  <2>2. CASE Quiet(s)
    BY <1>3, <2>1, <2>2 DEF PausesFit, Quiet
  <2>3. CASE n = s.asks
    BY <1>3, <2>3 DEF Fine, Sound, PausesFit, Quiet
  <2> QED BY <1>2, <2>2, <2>3
<1>5. TextEnds(t)
  BY <1>3 DEF Fine, Sound, TextEnds, EndComes
<1>6. \A q : OwnsOnly(s, q) => OwnsOnly(t, q)
  BY <1>3 DEF OwnsOnly
<1>7. LaunchFirst(t, flavor)
  BY <1>3, <1>6 DEF Fine, Sound, LaunchFirst
<1> QED BY <1>1, <1>3, <1>4, <1>5, <1>6, <1>7 DEF Fine, Sound

(* However the session goes on, it is as sound as it was, and if it is read from nothing *)
(* of another prompt is in it.                                                          *)
LEMMA AdvanceFine ==
    ASSUME NEW flavor \in Flavors, NEW s \in Sessions, Sound(s, flavor), s.first = 0, s.decision = NoDecision,
           NEW input \in Inputs, NEW there \in BOOLEAN, NEW p \in Nat,
           IF IsPrompt(input) THEN input.prompt = p
           ELSE (s.asks = input.asks => Quiet(s)) /\ (~s.mixed => OwnsOnly(s, p))
    PROVE  \A way \in advance(flavor, s, input, there) :
              Sound(way.s, flavor) /\ (way.reads /\ ~way.s.mixed => OwnsOnly(way.s, p))
<1> DEFINE good(way) == Sound(way.s, flavor) /\ (way.reads /\ ~way.s.mixed => OwnsOnly(way.s, p))
           heard == Heard(s, input.asks)
           given == GivePrompt(s, input.prompt)
           unperm == [s EXCEPT !.perm = 0]
<1>1. ASSUME NEW t, Fine(t, flavor, p) PROVE good(Reads(t))
  BY <1>1 DEF Reads, Fine
<1>2. ASSUME NEW t, Sound(t, flavor), NEW session PROVE good(Fails(t, session))
  BY <1>2 DEF Fails
<1>3. ASSUME NEW t, Fine(t, flavor, p), NEW old, NEW way \in Written(old, t) PROVE good(way)
  <2>1. Sound(t, flavor)
    BY <1>3 DEF Fine
  <2> HIDE DEF good
  <2> QED BY <1>1, <1>2, <1>3, <2>1 DEF Written
<1>4. IsPrompt(input) => Fine(given, flavor, p)
  BY GivePromptFine
<1>5. ~IsPrompt(input) => Fine(heard, flavor, p)
  <2>1. SUFFICES ASSUME ~IsPrompt(input) PROVE Fine(heard, flavor, p)
    OBVIOUS
  <2>2. Fine(s, flavor, p) /\ (s.asks = input.asks => Quiet(s))
    BY <2>1 DEF Fine
  <2> QED BY <2>2, HeardFine
<1>6. unperm \in Sessions /\ Alike(unperm, s)
  <2>1. 0 \in Nat
    OBVIOUS
  <2> QED BY <2>1 DEF Sessions, Alike
<1>7. ~IsPrompt(input) => Sound(unperm, flavor) /\ Fine(Heard(unperm, input.asks), flavor, p)
  <2>1. SUFFICES ASSUME ~IsPrompt(input)
                 PROVE  Sound(unperm, flavor) /\ Fine(Heard(unperm, input.asks), flavor, p)
    OBVIOUS
  <2> HIDE DEF unperm
  <2>2. Sound(unperm, flavor) /\ (~unperm.mixed => OwnsOnly(unperm, p))
    BY <1>6, <2>1, AlikeStays
  <2>3. (unperm.asks = input.asks => Quiet(unperm)) /\ unperm.decision = NoDecision
    BY <1>6, <2>1 DEF Alike, Quiet
  <2>4. Fine(unperm, flavor, p)
    BY <2>2 DEF Fine
  <2> QED BY <1>6, <2>2, <2>3, <2>4, HeardFine
<1>8. Sound(s, flavor) => \A session : good(Fails(s, session))
  <2> HIDE DEF good
  <2> QED BY <1>2
<1> HIDE DEF good, given, heard, unperm
<1>9. ASSUME flavor = "claude", NEW way \in advance(flavor, s, input, there) PROVE good(way)
  <2>1. advance(flavor, s, input, there) = claude_advance(s, input)
    BY <1>9 DEF advance, OneShot
  <2>2. IsPrompt(input) => way \in Written(s, given)
    BY <1>9, <2>1 DEF claude_advance, given, IsPrompt
  <2>3. ~IsPrompt(input) => way = Fails(s, Unknown) \/ way \in Written(s, heard)
    BY <1>9, <2>1 DEF claude_advance, heard
  <2> QED BY <1>3, <1>4, <1>5, <1>8, <2>2, <2>3
<1>10. ASSUME flavor = "scripted", NEW way \in advance(flavor, s, input, there) PROVE good(way)
  <2>1. advance(flavor, s, input, there) = scripted_advance(s, input)
    BY <1>10 DEF advance, OneShot
  <2>2. way \in Written(s, IF IsPrompt(input) THEN given ELSE heard)
    BY <1>10, <2>1 DEF scripted_advance, given, heard
  <2> QED BY <1>3, <1>4, <1>5, <2>2
<1>11. ASSUME flavor = "acp", NEW way \in advance(flavor, s, input, there) PROVE good(way)
  <2>1. advance(flavor, s, input, there) = acp_advance(s, input)
    BY <1>11 DEF advance, OneShot
  <2>2. CASE IsPrompt(input)
    <3>1. way \in Written(s, given)
      BY <1>11, <2>1, <2>2 DEF acp_advance, given, IsPrompt
    <3> QED BY <1>3, <1>4, <2>2, <3>1
  <2>3. CASE ~IsPrompt(input)
    <3>1. way = Fails(s, Unknown) \/ way = Fails(unperm, Unknown) \/ way \in Written(s, Heard(unperm, input.asks))
      BY <1>11, <2>1, <2>3 DEF acp_advance, answer_permission, unperm
    <3> QED BY <1>2, <1>3, <1>7, <1>8, <2>3, <3>1
  <2> QED BY <2>2, <2>3
<1>12. ASSUME flavor \in OneShot, NEW way \in advance(flavor, s, input, there) PROVE good(way)
  <2> DEFINE worst(end) == merge(s.worst, end)
             closed(end) == [s EXCEPT !.worst = worst(end), !.run = FALSE]
  <2>1. advance(flavor, s, input, there) = oneshot_advance(s, input, there)
    BY <1>12 DEF advance, OneShot
  <2>2. \/ way = Fails(s, Unknown)
        \/ \E end \in Endings : way = [Fails(closed(end), session_ref(s)) EXCEPT !.end = end]
        \/ \E end \in Endings : IsPrompt(input) /\ way = [Reads(Relaunch(closed(end), input.prompt)) EXCEPT !.end = end]
    <3> DEFINE failed == {[Fails(closed(end), session_ref(s)) EXCEPT !.end = end] : end \in Endings}
               read == {[Reads(Relaunch(closed(end), input.prompt)) EXCEPT !.end = end] :
                           end \in IF there THEN Endings ELSE {}}
    <3>1. oneshot_advance(s, input, there) = IF ~IsPrompt(input) THEN {Fails(s, Unknown)} ELSE failed \cup read
      BY Zenon DEF oneshot_advance
    <3>2. way \in read => \E end \in Endings : way = [Reads(Relaunch(closed(end), input.prompt)) EXCEPT !.end = end]
      <4> HIDE DEF closed
      <4> QED OBVIOUS
    <3>3. way \in failed => \E end \in Endings : way = [Fails(closed(end), session_ref(s)) EXCEPT !.end = end]
      <4> HIDE DEF closed
      <4> QED OBVIOUS
    <3> HIDE DEF failed, read
    <3> QED BY <1>12, <2>1, <3>1, <3>2, <3>3, Zenon
  <2>3. ASSUME NEW end \in Endings
        PROVE  closed(end) \in Sessions /\ Alike(closed(end), s)
    <3>1. worst(end) \in Dispositions
      BY MergeFits DEF Sessions
    <3> HIDE DEF worst
    <3> QED BY <3>1 DEF Sessions, Alike
  <2> HIDE DEF closed
  <2>4. ASSUME NEW end \in Endings PROVE Sound(closed(end), flavor)
    BY <2>3, AlikeStays
  <2>5. ASSUME NEW end \in Endings, IsPrompt(input)
        PROVE  Fine(Relaunch(closed(end), input.prompt), flavor, p)
    <3>1. closed(end).first = 0 /\ closed(end).decision = NoDecision
      BY <2>3 DEF Alike
    <3> QED BY <2>3, <2>4, <2>5, <3>1, RelaunchFine
  <2>6. \A t, session, end : /\ [Fails(t, session) EXCEPT !.end = end].s = t
                             /\ [Fails(t, session) EXCEPT !.end = end].reads = FALSE
                             /\ [Reads(t) EXCEPT !.end = end].s = t
    BY DEF Fails, Reads
  <2>7. CASE \E end \in Endings : way = [Fails(closed(end), session_ref(s)) EXCEPT !.end = end]
    <3>1. PICK end \in Endings : way = [Fails(closed(end), session_ref(s)) EXCEPT !.end = end]
      BY <2>7
    <3>2. way.s = closed(end) /\ way.reads = FALSE
      BY <2>6, <3>1
    <3> QED BY <2>4, <3>2 DEF good
  <2>8. CASE \E end \in Endings : IsPrompt(input) /\ way = [Reads(Relaunch(closed(end), input.prompt)) EXCEPT !.end = end]
    <3>1. PICK end \in Endings : IsPrompt(input) /\ way = [Reads(Relaunch(closed(end), input.prompt)) EXCEPT !.end = end]
      BY <2>8
    <3>2. way.s = Relaunch(closed(end), input.prompt)
      BY <2>6, <3>1
    <3> QED BY <2>5, <3>1, <3>2 DEF good, Fine
  <2> QED BY <1>8, <2>2, <2>7, <2>8
<1>13. \A way \in advance(flavor, s, input, there) : good(way)
  BY <1>9, <1>10, <1>11, <1>12 DEF Flavors, OneShot
<1> QED BY <1>13 DEF good

-----------------------------------------------------------------------------
(***************************************************************************)
(* What a step makes of the sessions.                                      *)
(***************************************************************************)
Idly == DOMAIN sessions' = Handles /\ \A h \in Handles : Rests(sessions'[h], sessions[h])

One(h) ==
    /\ h \in Handles /\ DOMAIN sessions' = Handles
    /\ \A k \in Handles : k # h => sessions'[k] = sessions[k]

LEMMA RunsOff ==
    ASSUME NEW s \in Sessions
    PROVE  LET t == [s EXCEPT !.run = FALSE] IN t \in Sessions /\ Alike(t, s) /\ Rests(t, s)
<1>1. FALSE \in BOOLEAN
  OBVIOUS
<1> QED BY <1>1 DEF Sessions, Alike, Rests

LEMMA AlikeSelf ==
    ASSUME NEW s
    PROVE  Alike(s, s) /\ Rests(s, s)
BY DEF Alike, Rests

LEMMA OneMoves ==
    ASSUME Stock, NEW h \in Handles, NEW t, sessions' = [sessions EXCEPT ![h] = t]
    PROVE  One(h) /\ sessions'[h] = t
BY DEF Stock, One

LEMMA ReleasedAlike ==
    ASSUME Stock, op.h \in Handles, NEW t \in Sessions, NEW result, Released(t, result)
    PROVE  One(op.h) /\ Alike(sessions'[op.h], t) /\ Rests(sessions'[op.h], t)
<1> DEFINE u == IF op.h \in live \cup sweep THEN t ELSE [t EXCEPT !.run = FALSE]
<1>1. sessions' = [sessions EXCEPT ![op.h] = u]
  BY DEF Released
<1>2. Alike(u, t) /\ Rests(u, t)
  BY RunsOff, AlikeSelf
<1> HIDE DEF u
<1> QED BY <1>1, <1>2, OneMoves

LEMMA OneIdles ==
    ASSUME NEW h, One(h), Rests(sessions'[h], sessions[h])
    PROVE  Idly
BY AlikeSelf DEF One, Idly

LEMMA CloseIdles ==
    ASSUME Types, NEW h \in Handles, NEW end, Close(h, end)
    PROVE  Idly
<1> DEFINE t == [sessions[h] EXCEPT !.run = FALSE]
<1>1. sessions[h] \in Sessions /\ Stock
  BY DEF Types, Stock
<1>2. sessions' = [sessions EXCEPT ![h] = t]
  BY DEF Close, shutdown
<1>3. Rests(t, sessions[h])
  BY <1>1, RunsOff
<1> HIDE DEF t
<1> QED BY <1>1, <1>2, <1>3, OneMoves, OneIdles

LEMMA DeadIdles ==
    ASSUME Types, NEW h \in Handles, sessions' = Dead(h)
    PROVE  Idly
<1> DEFINE t == [sessions[h] EXCEPT !.run = FALSE]
<1>1. sessions[h] \in Sessions /\ Stock
  BY DEF Types, Stock
<1>2. sessions' = [sessions EXCEPT ![h] = t]
  BY DEF Dead
<1>3. Rests(t, sessions[h])
  BY <1>1, RunsOff
<1> HIDE DEF t
<1> QED BY <1>1, <1>2, <1>3, OneMoves, OneIdles

LEMMA SomeIdle ==
    ASSUME Types, NEW S,
           sessions' = [h \in Handles |-> IF h \in S THEN [sessions[h] EXCEPT !.run = FALSE] ELSE sessions[h]]
    PROVE  Idly
<1>1. \A h \in Handles : sessions[h] \in Sessions
  BY DEF Types, Stock
<1>2. DOMAIN sessions' = Handles
  OBVIOUS
<1>3. ASSUME NEW h \in Handles PROVE Rests(sessions'[h], sessions[h])
  <2>1. sessions'[h] = sessions[h] \/ sessions'[h] = [sessions[h] EXCEPT !.run = FALSE]
    OBVIOUS
  <2> QED BY <1>1, <2>1, RunsOff, AlikeSelf
<1> QED BY <1>2, <1>3 DEF Idly

(* The steps that give a session anything to tell or to ask. *)
Stirs == Launch \/ BeginReads \/ Advance \/ AdvanceReads \/ \E h \in Handles : RuntimeWrites(h)

LEMMA OthersIdle ==
    ASSUME Types, Next
    PROVE  Stirs \/ Idly
<1>1. UNCHANGED sessions => Idly
  BY AlikeSelf DEF Idly
<1>2. CASE Fulfill \/ Prepare \/ Register \/ Charge
  BY <1>1, <1>2 DEF Fulfill, Prepare, Register, Charge
<1>3. CASE BeginFails
  <2>1. op.h \in Handles
    BY <1>3 DEF BeginFails, Types, Operation
  <2>2. UNCHANGED sessions \/ sessions' = Dead(op.h)
    BY <1>3 DEF BeginFails
  <2> QED BY <1>1, <2>1, <2>2, DeadIdles
<1>4. CASE AdvanceFails
  <2>1. op.h \in Handles /\ Stock
    BY <1>4 DEF AdvanceFails, Types, Operation
  <2>2. sessions[op.h] \in Sessions
    BY <2>1 DEF Stock
  <2>3. One(op.h) /\ Rests(sessions'[op.h], sessions[op.h])
    BY <1>4, <2>1, <2>2, ReleasedAlike DEF AdvanceFails
  <2> QED BY <2>3, OneIdles
<1>5. CASE HandlerSweeps
  <2>1. op.h \in Handles
    BY <1>5 DEF HandlerSweeps, Types, Operation
  <2> QED BY <1>5, <2>1, CloseIdles DEF HandlerSweeps
<1>6. CASE \E h \in sweep : HostCloses(h)
  <2>1. sweep \subseteq Handles
    BY DEF Types, Stock
  <2> QED BY <1>6, <2>1, CloseIdles DEF HostCloses
<1>7. CASE \E h \in Handles : RuntimeExits(h)
  BY <1>7, DeadIdles DEF RuntimeExits
<1>8. CASE Abandon
  <2> DEFINE held == {h \in Handles : op.pc \in {"begin", "register", "sweep", "advance", "read"} /\ op.h = h}
             S == held \ (live \cup sweep)
  <2>1. sessions' = [h \in Handles |-> IF h \in S THEN [sessions[h] EXCEPT !.run = FALSE] ELSE sessions[h]]
    BY <1>8 DEF Abandon
  <2> HIDE DEF S
  <2> QED BY <2>1, SomeIdle
<1>9. CASE Restart
  <2>1. sessions' = [h \in Handles |-> IF h \in Handles THEN [sessions[h] EXCEPT !.run = FALSE] ELSE sessions[h]]
    BY <1>9 DEF Restart
  <2> QED BY <2>1, SomeIdle
<1>10. CASE UserMessage \/ BudgetStops \/ StartHandler \/ Deliver \/ Resolve \/ LateAnswer \/ Cancel
            \/ OthersSpend \/ Reconfigure \/ HostSweeps \/ HostClears \/ Save
  BY <1>1, <1>10 DEF UserMessage, BudgetStops, StartHandler, Deliver, Resolve, LateAnswer, Cancel,
                     OthersSpend, Reconfigure, HostSweeps, HostClears, Save
<1> QED BY <1>2, <1>3, <1>4, <1>5, <1>6, <1>7, <1>8, <1>9, <1>10
        DEF Next, Handler, Driver, Runtime, Host, Stirs

LEMMA DecodedSession ==
    ASSUME Types, FramesFit, NEW h \in Handles, sessions[h].out # << >>
    PROVE  Decoded(h).s \in Sessions /\ Decoded(h).decision \in Decisions
<1>1. Decoding(Decoded(h), Rest(h), Frame(h), config.flavor)
  BY DecodedFits DEF Types
<1>2. Succ(Decoded(h).s, sessions[h], h)
  BY DecodedFits DEF Types
<1> QED BY <1>1, <1>2 DEF Decoding, Decides, Succ

LEMMA BeginReadsStirs ==
    ASSUME Types, FramesFit, SessionsSound, SilentAtFirst, BeginReads
    PROVE  /\ One(op.h) /\ Sound(sessions'[op.h], config.flavor)
           /\ sessions'[op.h].first = sessions[op.h].first
           /\ Silent(sessions[op.h]) => Silent(sessions'[op.h])
           /\ op'.pc = "register" => sessions'[op.h].sid # 0
           /\ op'.pc \notin {"advance", "read"}
<1> DEFINE h == op.h
           s == sessions[h]
           d == Decoded(h)
           flavor == config.flavor
           carried == d.s.carried \o d.events
           decision == IF d.decision = NoDecision THEN d.s.decision ELSE d.decision
           t == [d.s EXCEPT !.carried = carried, !.decision = decision]
           u == [d.s EXCEPT !.run = FALSE]
<1>1. op.pc = "begin" /\ h \in Handles /\ s.out # << >>
  BY DEF BeginReads, Types, Operation
<1>2. s \in Sessions /\ Sound(s, flavor)
  BY <1>1 DEF Types, Stock, SessionsSound
<1>3. HasRead(d.s, d.decision, s, flavor) /\ d.s \in Sessions
  BY <1>1, DecodedReads, DecodedSession DEF Types
<1>4. \/ /\ sessions' = [sessions EXCEPT ![h] = u] /\ op'.pc = "done"
      \/ /\ sessions' = [sessions EXCEPT ![h] = t]
         /\ ~(d.decision # NoDecision /\ d.s.sid = 0)
         /\ op' = IF d.s.known \/ d.decision # NoDecision THEN [op EXCEPT !.pc = "register"] ELSE op
  <2>1. [d.s EXCEPT !.carried = @ \o d.events,
                    !.decision = IF d.decision = NoDecision THEN @ ELSE d.decision] = t
    OBVIOUS
  <2>2. \/ /\ sessions' = [sessions EXCEPT ![h] = u] /\ GiveUp(Failed(NoSession, << >>))
        \/ /\ ~(d.decision # NoDecision /\ d.s.sid = 0)
           /\ sessions' = [sessions EXCEPT ![h] =
                 [d.s EXCEPT !.carried = @ \o d.events,
                             !.decision = IF d.decision = NoDecision THEN @ ELSE d.decision]]
           /\ op' = IF d.s.known \/ d.decision # NoDecision THEN [op EXCEPT !.pc = "register"] ELSE op
    BY Zenon DEF BeginReads
  <2>3. GiveUp(Failed(NoSession, << >>)) => op'.pc = "done"
    BY DEF GiveUp, Answered, Handling
  <2> HIDE DEF t, u, d, s
  <2> QED BY <2>1, <2>2, <2>3
<1>5. /\ t.out = d.s.out /\ t.busy = d.s.busy /\ t.asks = d.s.asks /\ t.decision = decision /\ t.text = d.s.text
      /\ t.first = d.s.first /\ t.known = d.s.known /\ t.sid = d.s.sid /\ t.mixed = d.s.mixed
  <2> HIDE DEF carried, decision, d
  <2> QED BY <1>3 DEF Sessions
<1>6. Alike(u, d.s)
  <2> HIDE DEF d
  <2> QED BY <1>3, RunsOff
<1> HIDE DEF u, t, d, flavor, s
<1>7. d.s.first = s.first
  BY <1>3 DEF HasRead
<1>8. /\ Sound(d.s, flavor)
      /\ d.decision.kind \in PauseKinds => d.s.asks = d.decision.asks /\ d.s.asks # 0 /\ Quiet(d.s)
      /\ Silent(s) => Silent(d.s) /\ d.decision = NoDecision
  BY <1>2, <1>3, ReadSound
<1>9. d.decision # NoDecision => s.first # 0
  <2>1. Silent(s) \/ s.first # 0
    BY <1>1 DEF SilentAtFirst, s
  <2> QED BY <1>8, <2>1
<1>10. s.first # 0 /\ d.decision.kind = "Completed" => d.decision.of \subseteq {s.first}
  <2>1. s.first # 0 => OwnsOnly(s, s.first)
    BY <1>2 DEF Sound, LaunchFirst
  <2> QED BY <1>2, <1>3, <2>1, ReadOwns
<1>11. Sound(t, flavor) /\ (Silent(d.s) /\ d.decision = NoDecision => Silent(t))
  <2>1. CASE d.decision = NoDecision
    <3>1. Alike(t, d.s)
      BY <1>5, <2>1 DEF Alike
    <3> QED BY <1>8, <3>1, AlikeStays
  <2>2. CASE d.decision # NoDecision
    <3>1. t.decision = d.decision /\ t.first # 0 /\ t.first = s.first
      BY <1>5, <1>7, <1>9, <2>2
    <3>2. PausesFit(t)
      BY <1>5, <1>8, <3>1 DEF Sound, PausesFit, Quiet
    <3>3. TextEnds(t)
      BY <1>5, <1>8 DEF Sound, TextEnds, EndComes
    <3>4. OwnsOnly(t, t.first)
      <4>1. OwnsOnly(d.s, t.first)
        BY <1>5, <1>8, <3>1 DEF Sound, LaunchFirst
      <4> QED BY <1>5, <1>10, <3>1, <4>1 DEF OwnsOnly
    <3>5. LaunchFirst(t, flavor)
      BY <1>5, <1>8, <3>1, <3>4 DEF Sound, LaunchFirst
    <3> QED BY <2>2, <3>2, <3>3, <3>5 DEF Sound
  <2> QED BY <2>1, <2>2
<1>12. Stock /\ op # NoOp
  BY <1>1 DEF Types, NoOp
<1>13. CASE sessions' = [sessions EXCEPT ![h] = u] /\ op'.pc = "done"
  <2>1. One(h) /\ sessions'[h] = u
    BY <1>1, <1>12, <1>13, OneMoves
  <2>2. Sound(u, flavor) /\ u.first = s.first /\ (Silent(s) => Silent(u))
    BY <1>6, <1>7, <1>8, AlikeStays DEF Alike
  <2> QED BY <1>13, <2>1, <2>2 DEF s, flavor
<1>14. CASE /\ sessions' = [sessions EXCEPT ![h] = t]
            /\ ~(d.decision # NoDecision /\ d.s.sid = 0)
            /\ op' = IF d.s.known \/ d.decision # NoDecision THEN [op EXCEPT !.pc = "register"] ELSE op
  <2>1. One(h) /\ sessions'[h] = t
    BY <1>1, <1>12, <1>14, OneMoves
  <2>2. t.first = s.first /\ (Silent(s) => Silent(t))
    BY <1>5, <1>7, <1>8, <1>11
  <2>3. op'.pc = "register" => t.sid # 0
    <3>1. SUFFICES ASSUME op'.pc = "register" PROVE d.s.sid # 0
      BY <1>5
    <3>2. d.s.known \/ d.decision # NoDecision
      BY <1>1, <1>14, <3>1
    <3> QED BY <1>3, <1>14, <3>2 DEF HasRead
  <2>4. op'.pc \in {"register", "begin"}
    <3>1. op'.pc = "register" \/ op' = op
      BY <1>12, <1>14 DEF Types, Operation, IsOperation
    <3> QED BY <1>1, <3>1
  <2> QED BY <1>11, <2>1, <2>2, <2>3, <2>4 DEF s, flavor
<1> QED BY <1>4, <1>13, <1>14

(* The session has handed back an answer, a question or a failure. *)
Comes(turn, h) ==
    /\ op'.pc \in {"charge", "done"}
    /\ op'.got.kind = "Completed" => op'.pc = "charge" /\ Due(op'.got.answer, turn)
    /\ op'.got.kind \in PauseKinds =>
          /\ op'.got.session.id = sessions'[h].sid
          /\ op'.got.asks # 0 /\ Same(sessions'[h], op'.got.asks, turn)

LEMMA ReleasedHands ==
    ASSUME NEW t, NEW result, Released(t, result)
    PROVE  op'.got = result /\ op'.pc = IF result.kind = "Completed" THEN "charge" ELSE "done"
BY DEF Released, Handling

LEMMA FailedComes ==
    ASSUME NEW t, NEW session, NEW events, Released(t, Failed(session, events)), NEW turn, NEW h
    PROVE  Comes(turn, h)
<1>1. Failed(session, events).kind = "Failed"
  BY DEF Failed
<1>2. op'.got = Failed(session, events) /\ op'.pc = "done"
  BY <1>1, ReleasedHands
<1> QED BY <1>1, <1>2 DEF Comes, PauseKinds

LEMMA ReleasedComes ==
    ASSUME Stock, op.h \in Handles, NEW t \in Sessions, NEW decision \in Decisions, decision # NoDecision,
           NEW events, NEW turn, Released(t, finish(t, decision, events)),
           decision.kind = "Completed" /\ ~t.mixed => decision.of \subseteq {turn},
           decision.kind \in PauseKinds => /\ t.asks = decision.asks /\ t.asks # 0 /\ Quiet(t)
                                           /\ t.decision.kind \notin PauseKinds
                                           /\ ~t.mixed => OwnsOnly(t, turn)
    PROVE  Comes(turn, op.h)
<1> DEFINE result == finish(t, decision, events)
<1>1. op'.got = result /\ op'.pc = IF result.kind = "Completed" THEN "charge" ELSE "done"
  BY ReleasedHands
<1>2. Alike(sessions'[op.h], t)
  BY ReleasedAlike
<1>3. decision.kind \in {"Failed", "Completed"} \cup PauseKinds
  BY DEF Decisions, Broken, Completing, Pausing
<1>4. CASE decision.kind = "Failed"
  <2>1. result.kind = "Failed"
    BY <1>4 DEF finish, Failed
  <2> HIDE DEF result
  <2> QED BY <1>1, <2>1 DEF Comes, PauseKinds
<1>5. CASE decision.kind = "Completed"
  <2>1. result.kind = "Completed" /\ result.answer = [of |-> decision.of, sure |-> ~t.mixed, tokens |-> 0]
    BY <1>5 DEF finish
  <2>2. Due(result.answer, turn)
    <3> DEFINE sure == ~t.mixed
               answer == [of |-> decision.of, sure |-> sure, tokens |-> 0]
    <3>1. result.answer = answer
      BY <2>1
    <3>2. sure => decision.of \subseteq {turn}
      BY <1>5
    <3> HIDE DEF sure, result
    <3>3. answer.of = decision.of /\ answer.sure = sure
      OBVIOUS
    <3> HIDE DEF answer
    <3> QED BY <3>1, <3>2, <3>3 DEF Due
  <2> HIDE DEF result
  <2> QED BY <1>1, <2>1, <2>2 DEF Comes, PauseKinds
<1>6. CASE decision.kind \in PauseKinds
  <2>1. decision.kind \notin {"Failed", "Completed"}
    BY <1>6 DEF PauseKinds
  <2>2. result.kind = decision.kind /\ result.session.id = t.sid /\ result.asks = decision.asks
    BY <2>1 DEF finish, session_ref
  <2>3. sessions'[op.h].sid = t.sid
    BY <1>2 DEF Alike
  <2>4. Same(t, decision.asks, turn)
    BY <1>6 DEF Same
  <2>5. Same(sessions'[op.h], decision.asks, turn)
    BY <1>2, <2>4, AlikeStays
  <2> HIDE DEF result
  <2> QED BY <1>1, <1>6, <2>1, <2>2, <2>3, <2>5 DEF Comes
<1> QED BY <1>3, <1>4, <1>5, <1>6

LEMMA AdvanceReadsStirs ==
    ASSUME Types, FramesFit, SessionsSound, Reading, AdvanceReads
    PROVE  /\ One(op.h) /\ Sound(sessions'[op.h], config.flavor)
           /\ ~sessions'[op.h].mixed => OwnsOnly(sessions'[op.h], m.turn)
           /\ Comes(m.turn, op.h) \/ (op'.pc = "read" /\ op'.h = op.h)
<1> DEFINE h == op.h
           s == sessions[h]
           d == Decoded(h)
           t == d.s
           flavor == config.flavor
           got == op.got \o d.events
<1>1. op.pc = "read" /\ h \in Handles /\ s.out # << >> /\ Stock
  BY DEF AdvanceReads, Types, Operation
<1>2. s \in Sessions /\ Sound(s, flavor) /\ (~s.mixed => OwnsOnly(s, m.turn))
  BY <1>1 DEF Stock, SessionsSound, Reading
<1>3. HasRead(t, d.decision, s, flavor) /\ t \in Sessions /\ d.decision \in Decisions
  BY <1>1, DecodedReads, DecodedSession DEF Types
<1>4. \/ Released(t, Failed(NoSession, << >>))
      \/ d.decision # NoDecision /\ Released(t, finish(t, d.decision, got))
      \/ sessions' = [sessions EXCEPT ![h] = t] /\ op' = [op EXCEPT !.got = got]
  BY Zenon DEF AdvanceReads
<1> HIDE DEF d, s, flavor, got
<1>5. /\ Sound(t, flavor)
      /\ d.decision.kind \in PauseKinds =>
            t.asks = d.decision.asks /\ t.asks # 0 /\ Quiet(t) /\ t.decision.kind \notin PauseKinds
  BY <1>2, <1>3, ReadSound
<1>6. t.mixed = s.mixed
  BY <1>3 DEF HasRead
<1>7. ~t.mixed => OwnsOnly(t, m.turn) /\ (d.decision.kind = "Completed" => d.decision.of \subseteq {m.turn})
  BY <1>2, <1>3, <1>6, ReadOwns
<1> HIDE DEF t
<1>8. ASSUME Alike(sessions'[h], t)
      PROVE  Sound(sessions'[h], flavor) /\ (~sessions'[h].mixed => OwnsOnly(sessions'[h], m.turn))
  BY <1>5, <1>7, <1>8, AlikeStays
<1>9. ASSUME NEW result, Released(t, result) PROVE One(h) /\ Alike(sessions'[h], t)
  BY <1>1, <1>3, <1>9, ReleasedAlike
<1>10. CASE Released(t, Failed(NoSession, << >>))
  <2>1. Comes(m.turn, h)
    BY <1>10, FailedComes
  <2> QED BY <1>8, <1>9, <1>10, <2>1 DEF flavor
<1>11. CASE d.decision # NoDecision /\ Released(t, finish(t, d.decision, got))
  <2>1. Comes(m.turn, h)
    BY <1>1, <1>3, <1>5, <1>7, <1>11, ReleasedComes
  <2> QED BY <1>8, <1>9, <1>11, <2>1 DEF flavor
<1>12. CASE sessions' = [sessions EXCEPT ![h] = t] /\ op' = [op EXCEPT !.got = got]
  <2>1. One(h) /\ sessions'[h] = t
    BY <1>1, <1>12, OneMoves
  <2>2. op'.pc = "read" /\ op'.h = h
    <3>1. op # NoOp
      BY <1>1 DEF NoOp
    <3> QED BY <1>1, <1>12, <3>1 DEF Types, Operation, IsOperation
  <2> QED BY <1>8, <2>1, <2>2, AlikeSelf DEF flavor
<1> QED BY <1>4, <1>10, <1>11, <1>12

(* The session made ready to go on: what was launched with it is known to be of this prompt, *)
(* or of another.                                                                            *)
LEMMA ReadiedSound ==
    ASSUME Types, FramesFit, SessionsSound, op.pc = "advance"
    PROVE  LET s == sessions[op.h]
               r == Readied(op.h)
           IN  /\ r \in Sessions /\ Sound(r, config.flavor) /\ r.first = 0 /\ r.decision = NoDecision
               /\ r.out = s.out /\ r.busy = s.busy /\ r.asks = s.asks /\ r.text = s.text
               /\ r.mixed = (s.mixed \/ s.first \notin {0, op.req.input.prompt})
<1> DEFINE s == sessions[op.h]
           r == Readied(op.h)
           mixed == s.mixed \/ s.first \notin {0, op.req.input.prompt}
           flavor == config.flavor
<1>1. s \in Sessions /\ Sound(s, flavor) /\ r \in Sessions
  BY ReadiedFits DEF Types, Operation, Stock, SessionsSound
<1>2. r = [s EXCEPT !.carried = << >>, !.first = 0, !.decision = NoDecision, !.mixed = mixed]
  BY DEF Readied
<1>3. mixed = (s.mixed \/ s.first \notin {0, op.req.input.prompt})
  OBVIOUS
<1> HIDE DEF s, r, mixed, flavor
<1>4. /\ r.first = 0 /\ r.decision = NoDecision /\ r.out = s.out /\ r.busy = s.busy /\ r.asks = s.asks
      /\ r.text = s.text /\ r.known = s.known /\ r.sid = s.sid /\ r.mixed = mixed
  BY <1>1, <1>2 DEF Sessions
<1>5. PausesFit(r)
  BY <1>1, <1>4 DEF Sound, PausesFit, Quiet, NoDecision, PauseKinds
<1>6. TextEnds(r)
  BY <1>1, <1>3, <1>4 DEF Sound, TextEnds, EndComes
<1>7. LaunchFirst(r, flavor)
  BY <1>1, <1>4 DEF Sound, LaunchFirst
<1> QED BY <1>1, <1>3, <1>4, <1>5, <1>6, <1>7 DEF s, r, flavor, Sound

LEMMA AdvanceStirs ==
    ASSUME Types, FramesFit, SessionsSound, TurnFits, Questions, Advance
    PROVE  /\ One(op.h) /\ Sound(sessions'[op.h], config.flavor)
           /\ op'.pc = "read" /\ ~sessions'[op.h].mixed => OwnsOnly(sessions'[op.h], m.turn)
           /\ Comes(m.turn, op.h) \/ (op'.pc = "read" /\ op'.h = op.h)
<1> DEFINE h == op.h
           s == sessions[h]
           r == Readied(h)
           input == op.req.input
           flavor == config.flavor
<1>1. op.pc = "advance" /\ h \in Handles /\ Stock /\ op # NoOp
  BY DEF Advance, Types, Operation, NoOp
<1>2. /\ s \in Sessions /\ Sound(s, flavor)
      /\ r \in Sessions /\ Sound(r, flavor) /\ r.first = 0 /\ r.decision = NoDecision
      /\ r.out = s.out /\ r.busy = s.busy /\ r.asks = s.asks /\ r.text = s.text
      /\ r.mixed = (s.mixed \/ s.first \notin {0, input.prompt})
  BY <1>1, ReadiedSound DEF Stock, SessionsSound
<1>3. /\ input \in Inputs /\ flavor \in Flavors
      /\ IF IsPrompt(input) THEN input.prompt = m.turn ELSE input.prompt = 0 /\ Same(s, input.asks, m.turn)
  <2>1. input \in Inputs /\ flavor \in Flavors
    BY <1>1, OpFits DEF Types, Accounts, SetUp
  <2>2. Wanted(m, op.req)
    BY <1>1 DEF TurnFits
  <2> QED BY <1>1, <2>1, <2>2 DEF Wanted, Questions
<1>4. m.turn \in Nat /\ TreeThere(r) \in BOOLEAN
  BY DEF Types, Machinery, Coherent, IsMachine, Machines, TreeThere
<1>5. \/ s.decision # NoDecision /\ Released(r, finish(r, s.decision, s.carried))
      \/ \E way \in Ways(h) :
            \/ /\ way.reads /\ sessions' = [sessions EXCEPT ![h] = way.s]
               /\ op' = [op EXCEPT !.pc = "read", !.got = s.carried]
            \/ ~way.reads /\ Released(way.s, Failed(way.error, << >>))
  BY Zenon DEF Advance, Readied, Ways
<1>6. /\ s.first # 0 => \A way \in Ways(h) : way = Reads(r)
      /\ s.first = 0 => Ways(h) = advance(flavor, r, input, TreeThere(r))
      /\ \A way \in Ways(h) : way.s \in Sessions
  <2>1. \A way \in Ways(h) : Way(way, Readied(op.h), flavor)
    BY <1>1, ReadiedFits
  <2> QED BY <2>1 DEF Ways, Way, Keeps
<1>7. s.first # 0 /\ ~r.mixed => OwnsOnly(s, m.turn)
  <2>1. s.first # 0 /\ ~r.mixed => s.first = input.prompt /\ OwnsOnly(s, s.first)
    BY <1>2 DEF Sound, LaunchFirst
  <2> QED BY <1>3, <2>1
<1> HIDE DEF s, r, input, flavor
<1>8. s.first # 0 /\ ~r.mixed => OwnsOnly(r, m.turn)
  <2>1. ASSUME OwnsOnly(s, m.turn) PROVE OwnsOnly(r, m.turn)
    BY <1>2, <2>1 DEF OwnsOnly, NoDecision
  <2> QED BY <1>7, <2>1
<1>9. ASSUME NEW t, Fine(t, flavor, m.turn), Alike(sessions'[h], t)
      PROVE  Sound(sessions'[h], flavor) /\ (~sessions'[h].mixed => OwnsOnly(sessions'[h], m.turn))
  BY <1>9, AlikeStays DEF Fine
<1>10. CASE s.decision # NoDecision /\ Released(r, finish(r, s.decision, s.carried))
  <2>1. s.first # 0 /\ s.decision \in Decisions
    BY <1>2, <1>10 DEF Sound, LaunchFirst, Sessions
  <2>2. s.decision.kind = "Completed" /\ ~r.mixed => s.decision.of \subseteq {m.turn}
    BY <1>7, <2>1 DEF OwnsOnly
  <2>3. s.decision.kind \in PauseKinds => s.asks = s.decision.asks /\ s.asks # 0 /\ Quiet(s)
    BY <1>2 DEF Sound, PausesFit
  <2>4. Quiet(s) <=> Quiet(r)
    BY <1>2 DEF Quiet
  <2>5. r.decision.kind \notin PauseKinds
    BY <1>2 DEF NoDecision, PauseKinds
  <2>6. Comes(m.turn, h)
    BY <1>1, <1>2, <1>8, <1>10, <2>1, <2>2, <2>3, <2>4, <2>5, ReleasedComes
  <2>7. One(h) /\ Alike(sessions'[h], r)
    BY <1>1, <1>2, <1>10, ReleasedAlike
  <2>8. Fine(r, flavor, m.turn)
    BY <1>2, <1>8, <2>1 DEF Fine
  <2> QED BY <1>9, <2>6, <2>7, <2>8 DEF flavor
<1>11. ASSUME NEW way \in Ways(h)
       PROVE  Sound(way.s, flavor) /\ (way.reads /\ ~way.s.mixed => OwnsOnly(way.s, m.turn))
  <2>1. CASE s.first # 0
    <3>1. way.s = r
      BY <1>6, <2>1 DEF Reads
    <3> QED BY <1>2, <1>8, <2>1, <3>1
  <2>2. CASE s.first = 0
    <3>1. ASSUME ~IsPrompt(input)
          PROVE  (r.asks = input.asks => Quiet(r)) /\ (~r.mixed => OwnsOnly(r, m.turn))
      <4>1. Quiet(s) /\ (~s.mixed => OwnsOnly(s, m.turn))
        BY <1>3, <3>1 DEF Same
      <4>2. Quiet(r)
        BY <1>2, <4>1 DEF Quiet
      <4>3. ASSUME OwnsOnly(s, m.turn) PROVE OwnsOnly(r, m.turn)
        BY <1>2, <4>3 DEF OwnsOnly, NoDecision
      <4> QED BY <1>2, <4>1, <4>2, <4>3
    <3>2. \A w \in advance(flavor, r, input, TreeThere(r)) :
              Sound(w.s, flavor) /\ (w.reads /\ ~w.s.mixed => OwnsOnly(w.s, m.turn))
      BY <1>2, <1>3, <1>4, <3>1, AdvanceFine
    <3> QED BY <1>6, <2>2, <3>2
  <2> QED BY <2>1, <2>2
<1>12. ASSUME NEW way \in Ways(h), way.reads, sessions' = [sessions EXCEPT ![h] = way.s],
              op' = [op EXCEPT !.pc = "read", !.got = s.carried]
       PROVE  /\ One(h) /\ Fine(sessions'[h], flavor, m.turn) /\ op'.pc = "read" /\ op'.h = h
  <2>1. One(h) /\ sessions'[h] = way.s
    BY <1>1, <1>12, OneMoves
  <2>2. op'.pc = "read" /\ op'.h = h
    BY <1>1, <1>12, OpFits DEF Types, IsOperation
  <2> QED BY <1>11, <1>12, <2>1, <2>2 DEF Fine
<1>13. ASSUME NEW way \in Ways(h), Released(way.s, Failed(way.error, << >>))
       PROVE  One(h) /\ Sound(sessions'[h], flavor) /\ Comes(m.turn, h)
  <2>1. Comes(m.turn, h)
    BY <1>13, FailedComes
  <2>2. One(h) /\ Alike(sessions'[h], way.s)
    BY <1>1, <1>6, <1>13, ReleasedAlike
  <2>3. Sound(sessions'[h], flavor)
    BY <1>11, <2>2, AlikeStays
  <2> QED BY <2>1, <2>2, <2>3
<1>14. Comes(m.turn, h) => op'.pc # "read"
  BY DEF Comes
<1> QED BY <1>5, <1>10, <1>12, <1>13, <1>14 DEF flavor, Fine

(* A session that came up: it has been given the prompt, or says nothing. *)
CameUp ==
    LET h == op'.h
        s == sessions'[h]
    IN  /\ sessions' = Append(sessions, Launched.s) /\ DOMAIN sessions' = Handles \cup {h} /\ h \notin Handles
        /\ \A k \in Handles : sessions'[k] = sessions[k]
        /\ Sound(s, config.flavor)
        /\ op'.pc = "begin" \/ (op'.pc = "register" /\ s.sid # 0)
        /\ op'.req = op.req
        /\ Silent(s) \/ (s.first # 0 /\ IsPrompt(op.req.input))

LEMMA LaunchStirs ==
    ASSUME Types, FramesFit, TurnFits, Launch
    PROVE  CameUp \/ (Idly /\ op'.pc = "done")
<1>1. op.pc = "launch" /\ op # NoOp
  <2>1. op.pc = "launch"
    BY Zenon DEF Launch
  <2> QED BY <2>1 DEF NoOp
<1> DEFINE s == Launched.s
<1>2. /\ op.req.session.id \in Nat /\ op.req.session.seq \in Nat /\ op.tree \in Nat /\ op.req.input \in Inputs
      /\ op.req.tools \in ToolSets /\ config.flavor \in Flavors /\ IsOperation(op)
  BY <1>1, OpFits DEF Types, Accounts, SetUp
<1>3. /\ Sound(s, config.flavor)
      /\ Launched.prelude \/ op.req.session.id # 0
      /\ Launched.ok => \/ Silent(s)
                        \/ s.first = op.req.input.prompt /\ (IsPrompt(op.req.input) \/ op.req.session.id = 0)
  BY <1>2, BegunSound DEF Launched
<1>4. s.sid = op.req.session.id
  BY <1>1, LaunchFits
<1>5. Wanted(m, op.req) /\ m.turn # 0
  <2>1. Wanted(m, op.req) /\ m.cursor.at = "AwaitingSession"
    BY <1>1 DEF TurnFits
  <2> QED BY <2>1 DEF Types, Machinery, Coherent, has_outstanding_requirement
<1>6. Launched.ok => Silent(s) \/ (s.first # 0 /\ IsPrompt(op.req.input))
  BY <1>3, <1>5 DEF Wanted
<1>7. \/ /\ Launched.ok /\ sessions' = Append(sessions, s)
         /\ op' = [op EXCEPT !.h = Len(sessions'), !.pc = IF Launched.prelude THEN "begin" ELSE "register"]
      \/ UNCHANGED sessions /\ op'.pc = "done"
  <2>1. \A result : GiveUp(result) => op'.pc = "done"
    BY DEF GiveUp, Answered, Handling
  <2> QED BY <2>1 DEF Launch, Launched
<1>8. CASE UNCHANGED sessions /\ op'.pc = "done"
  BY <1>8, AlikeSelf DEF Idly
<1>9. CASE /\ Launched.ok /\ sessions' = Append(sessions, s)
           /\ op' = [op EXCEPT !.h = Len(sessions'), !.pc = IF Launched.prelude THEN "begin" ELSE "register"]
  <2>1. /\ op'.h = Len(sessions') /\ op'.req = op.req
        /\ op'.pc = IF Launched.prelude THEN "begin" ELSE "register"
    BY <1>2, <1>9 DEF IsOperation
  <2>2. /\ DOMAIN sessions' = Handles \cup {Len(sessions')} /\ Len(sessions') \notin Handles
        /\ sessions'[Len(sessions')] = s /\ \A h \in Handles : sessions'[h] = sessions[h]
    <3>1. s \in Sessions /\ s.out = << >>
      BY <1>1, LaunchFits
    <3>2. config' = config
      BY DEF Launch
    <3> HIDE DEF s
    <3> QED BY <1>9, <3>1, <3>2, OneAdded DEF Types
  <2> HIDE DEF s
  <2> QED BY <1>3, <1>4, <1>6, <1>9, <2>1, <2>2 DEF CameUp, s
<1> QED BY <1>7, <1>8, <1>9

LEMMA SessionsSoundKept ==
    ASSUME Types, FramesFit, TurnFits, SessionsSound, SilentAtFirst, Questions, Reading, Next
    PROVE  SessionsSound'
<1> DEFINE flavor == config.flavor
<1>1. config' = config
  BY NextGrows DEF Grown
<1>2. \A h \in Handles : Sound(sessions[h], flavor)
  BY DEF SessionsSound
<1> SUFFICES \A h \in DOMAIN sessions' : Sound(sessions'[h], flavor)
  BY <1>1 DEF SessionsSound
<1> HIDE DEF flavor
<1>3. CASE Idly
  BY <1>2, <1>3, AlikeStays DEF Idly, Rests
<1>4. ASSUME NEW h, One(h), Sound(sessions'[h], flavor)
      PROVE  \A k \in DOMAIN sessions' : Sound(sessions'[k], flavor)
  BY <1>2, <1>4 DEF One
<1>5. CASE Launch
  <2>1. ASSUME CameUp PROVE \A h \in DOMAIN sessions' : Sound(sessions'[h], flavor)
    BY <1>2, <2>1 DEF CameUp, flavor
  <2> QED BY <1>3, <1>5, <2>1, LaunchStirs
<1>6. CASE BeginReads
  BY <1>4, <1>6, BeginReadsStirs DEF flavor
<1>7. CASE Advance
  BY <1>4, <1>7, AdvanceStirs DEF flavor
<1>8. CASE AdvanceReads
  BY <1>4, <1>8, AdvanceReadsStirs DEF flavor
<1>9. ASSUME NEW h \in Handles, RuntimeWrites(h)
      PROVE  \A k \in DOMAIN sessions' : Sound(sessions'[k], flavor)
  <2>1. /\ sessions' = [sessions EXCEPT ![h] = sessions'[h]]
        /\ Wrote(sessions'[h], sessions[h], flavor) /\ sessions[h] \in Sessions
    BY <1>9, WritesMean DEF Types, Stock, flavor
  <2>2. Sound(sessions'[h], flavor)
    BY <1>2, <2>1, WroteSound
  <2>3. One(h)
    BY <2>1, OneMoves DEF Types
  <2> QED BY <1>4, <2>2, <2>3
<1> QED BY <1>3, <1>5, <1>6, <1>7, <1>8, <1>9, OthersIdle DEF Stirs

-----------------------------------------------------------------------------
(***************************************************************************)
(* What a step of the handler comes to.                                    *)
(***************************************************************************)

(* A session found in the registry. *)
Finds ==
    /\ op.pc = "fulfill" /\ op'.pc = "advance" /\ op'.h \in Entry(op.req.session)
    /\ op'.req = op.req /\ UNCHANGED <<live, sessions>>

(* A process that ended without a word, for a session that has a name. *)
EndsQuietly ==
    /\ op.pc = "begin" /\ op'.pc = "register" /\ op'.h = op.h /\ sessions[op.h].sid # 0
    /\ op'.req = op.req /\ UNCHANGED <<live, sessions>>

(* A session taken into the registry. *)
Enters ==
    /\ op.pc = "register" /\ op'.pc = "advance" /\ op'.h = op.h /\ live' = live \cup {op.h}
    /\ op'.req = op.req /\ UNCHANGED sessions

(* An answer paid for. *)
Books ==
    /\ op.pc = "charge" /\ op'.pc = "done" /\ UNCHANGED <<live, sessions>>
    /\ op'.got.kind = "Completed" /\ op'.got.answer.of = op.got.answer.of
    /\ op'.got.answer.sure = op.got.answer.sure /\ op'.got.answer.tokens <= Budget

(* On the way to a new session, or to a failure. *)
Passes ==
    \/ op'.pc \in {"prepare", "launch"}
    \/ op'.pc \in {"sweep", "done"} /\ op'.got.kind = "Failed"

LEMMA AnsweredPasses ==
    ASSUME NEW session, NEW events, Answered(Failed(session, events))
    PROVE  Passes
BY DEF Answered, Handling, Failed, Passes

LEMMA FulfillTurns ==
    ASSUME Types, Fulfill
    PROVE  Finds \/ Passes
<1> DEFINE session == op.req.session
           failed == Failed(session, << >>)
<1>1. op.pc = "fulfill" /\ op # NoOp
  <2>1. op.pc = "fulfill"
    BY DEF Fulfill
  <2> QED BY <2>1 DEF NoOp
<1>2. IsOperation(op)
  BY <1>1, OpFits DEF Types
<1>3. \/ \E h \in live : op' = [op EXCEPT !.pc = "sweep", !.h = h, !.got = failed]
      \/ Answered(failed)
      \/ (\E h \in Entry(session) : op' = [op EXCEPT !.pc = "advance", !.h = h]) /\ UNCHANGED <<live, sessions>>
      \/ op' = [op EXCEPT !.pc = "prepare"]
  BY DEF Fulfill, Entry
<1>4. failed.kind = "Failed"
  BY DEF Failed
<1> HIDE DEF failed
<1>5. CASE \E h \in live : op' = [op EXCEPT !.pc = "sweep", !.h = h, !.got = failed]
  BY <1>2, <1>4, <1>5 DEF IsOperation, Passes
<1>6. CASE Answered(failed)
  BY <1>6, AnsweredPasses DEF failed
<1>7. CASE (\E h \in Entry(session) : op' = [op EXCEPT !.pc = "advance", !.h = h]) /\ UNCHANGED <<live, sessions>>
  BY <1>1, <1>2, <1>7 DEF IsOperation, Finds
<1>8. CASE op' = [op EXCEPT !.pc = "prepare"]
  BY <1>2, <1>8 DEF IsOperation, Passes
<1> QED BY <1>3, <1>5, <1>6, <1>7, <1>8

LEMMA PrepareTurns ==
    ASSUME Types, Prepare
    PROVE  Passes
<1>1. op.pc = "prepare" /\ op # NoOp
  BY DEF Prepare, NoOp
<1>2. IsOperation(op)
  BY <1>1, OpFits DEF Types
<1>3. \/ Answered(Failed(op.req.session, << >>))
      \/ op' = [op EXCEPT !.pc = "launch"]
      \/ op' = [op EXCEPT !.pc = "launch", !.tree = ledger'.trees]
  BY DEF Prepare
<1> QED BY <1>2, <1>3, AnsweredPasses DEF IsOperation, Passes

LEMMA BeginFailsTurns ==
    ASSUME Types, BeginFails
    PROVE  EndsQuietly \/ Passes
<1>1. op.pc = "begin" /\ op # NoOp /\ UNCHANGED live
  BY DEF BeginFails, NoOp
<1>2. IsOperation(op)
  BY <1>1, OpFits DEF Types
<1>3. \/ op' = [op EXCEPT !.pc = "register"] /\ UNCHANGED sessions /\ sessions[op.h].sid # 0
      \/ \E session : Answered(Failed(session, << >>))
  BY DEF BeginFails, GiveUp
<1>4. CASE op' = [op EXCEPT !.pc = "register"] /\ UNCHANGED sessions /\ sessions[op.h].sid # 0
  BY <1>1, <1>2, <1>4 DEF IsOperation, EndsQuietly
<1> QED BY <1>3, <1>4, AnsweredPasses

LEMMA RegisterTurns ==
    ASSUME Types, Register
    PROVE  Enters
<1>1. op.pc = "register" /\ op # NoOp
  BY DEF Register, NoOp
<1>2. IsOperation(op)
  BY <1>1, OpFits DEF Types
<1> QED BY <1>1, <1>2 DEF Register, Enters, IsOperation

LEMMA ChargeTurns ==
    ASSUME Types, Charge
    PROVE  Books \/ Passes
<1> DEFINE result == op.got
           failed == Failed(result.session, result.events)
<1>1. op.pc = "charge" /\ op # NoOp /\ UNCHANGED sessions
  <2>1. op.pc = "charge" /\ UNCHANGED sessions
    BY DEF Charge
  <2> QED BY <2>1 DEF NoOp
<1>2. IsOperation(op) /\ result \in Results /\ result.kind = "Completed"
  BY <1>1, OpFits DEF Types, Operation
<1>3. result \in [kind: {"Completed"}, session: Refs, events: Seq(Events), answer: Answers]
  BY <1>2 DEF Results, PauseKinds
<1>4. failed.kind = "Failed"
  BY DEF Failed
<1>5. \/ \E tokens \in Costs : Charged(tokens) /\ op' = [op EXCEPT !.pc = "done", !.got.answer.tokens = tokens] /\ UNCHANGED live
      \/ Answered(failed)
      \/ \E h : op' = [op EXCEPT !.pc = "sweep", !.h = h, !.got = failed]
  BY DEF Charge
<1>6. ASSUME NEW tokens \in Costs, Charged(tokens), op' = [op EXCEPT !.pc = "done", !.got.answer.tokens = tokens],
             UNCHANGED live
      PROVE  Books
  <2> DEFINE answer == [result.answer EXCEPT !.tokens = tokens]
             got == [result EXCEPT !.answer = answer]
  <2>1. op'.pc = "done" /\ op'.got = got
    BY <1>2, <1>6 DEF IsOperation
  <2>2. got.kind = "Completed" /\ got.answer = answer
    BY <1>3
  <2>3. answer.of = result.answer.of /\ answer.sure = result.answer.sure /\ answer.tokens = tokens
    BY <1>3 DEF Answers
  <2>4. tokens <= Budget
    <3>1. spent + tokens <= Budget /\ spent \in Nat /\ tokens \in Nat /\ Budget \in Nat
      BY <1>6 DEF Charged, Types, Accounts
    <3> QED BY <3>1
  <2> HIDE DEF answer, got
  <2> QED BY <1>1, <1>6, <2>1, <2>2, <2>3, <2>4 DEF Books
<1> HIDE DEF failed
<1>7. CASE Answered(failed)
  BY <1>7, AnsweredPasses DEF failed
<1>8. CASE \E h : op' = [op EXCEPT !.pc = "sweep", !.h = h, !.got = failed]
  BY <1>2, <1>4, <1>8 DEF IsOperation, Passes
<1> QED BY <1>5, <1>6, <1>7, <1>8

LEMMA HandlerTurns ==
    ASSUME Types, FramesFit, Paid, Handler
    PROVE  \/ Launch \/ BeginReads \/ Advance \/ AdvanceReads
           \/ Finds \/ EndsQuietly \/ Enters \/ Books \/ Passes
<1>1. AdvanceFails => Passes
  <2>1. ASSUME AdvanceFails PROVE Passes
    <3>1. PICK t, session : Released(t, Failed(session, << >>))
      BY <2>1 DEF AdvanceFails
    <3>2. op'.got = Failed(session, << >>) /\ op'.pc = "done"
      BY <3>1, ReleasedHands DEF Failed
    <3> QED BY <3>2 DEF Passes, Failed
  <2> QED BY <2>1
<1>2. HandlerSweeps => Passes
  <2>1. ASSUME HandlerSweeps PROVE Passes
    <3>1. op.pc = "sweep" /\ Answered(op.got)
      BY <2>1 DEF HandlerSweeps
    <3>2. op'.pc = "done" /\ op'.got = op.got
      BY <3>1 DEF Answered, Handling
    <3> QED BY <3>1, <3>2 DEF Paid, Passes
  <2> QED BY <2>1
<1> QED BY <1>1, <1>2, FulfillTurns, PrepareTurns, BeginFailsTurns, RegisterTurns, ChargeTurns, Zenon DEF Handler

LEMMA RegisteredKept ==
    ASSUME Types, FramesFit, NamesFit, OneEach, TurnFits, SessionsSound, SilentAtFirst, Questions, Reading, Paid,
           Registered, Next
    PROVE  Registered'
<1>1. Grown /\ live \subseteq Handles
  BY NextGrows DEF Types, Stock
<1>2. \A h \in Handles : h \in DOMAIN sessions' /\ (sessions[h].sid # 0 => sessions'[h].sid = sessions[h].sid)
  BY <1>1 DEF Grown, Succ
<1>3. \/ Register /\ live' = live \cup {op.h}
      \/ ~Register /\ live' \subseteq live
  BY RegistryMoves
<1>4. Register => op.pc = "register" /\ op.h \in Handles
  BY DEF Register, Types, Operation
<1>5. \A h \in live' : sessions'[h].sid # 0
  BY <1>1, <1>2, <1>3, <1>4 DEF Registered
<1> DEFINE Stand(h) == sessions[h].sid # 0
           Alone(h) == \A k \in live : sessions[k].sid = sessions[h].sid => k = h
<1>6. ASSUME NEW h \in Handles, Stand(h), Alone(h), live' \subseteq live \cup {h}
      PROVE  sessions'[h].sid # 0 /\ \A k \in live' : sessions'[k].sid = sessions'[h].sid => k = h
  BY <1>1, <1>2, <1>6, SidsApart
<1> SUFFICES /\ op'.pc = "register" => sessions'[op'.h].sid # 0
             /\ op'.pc \in {"advance", "read"} =>
                   /\ sessions'[op'.h].sid # 0
                   /\ \A k \in live' : sessions'[k].sid = sessions'[op'.h].sid => k = op'.h
  BY <1>5 DEF Registered
<1>7. op.pc \in {"register", "advance", "read"} => op.h \in Handles /\ Stand(op.h)
  BY DEF Types, Operation, Registered
<1>8. op.pc \in {"advance", "read"} => Alone(op.h)
  BY DEF Registered
<1>9. op.pc = "register" => Alone(op.h)
  <2>1. op.pc = "register" => op.h \in Coming
    BY DEF Coming
  <2> QED BY <1>7, <2>1 DEF OneEach
<1> HIDE DEF Stand, Alone
<1>10. CASE op' = op /\ ~Register
  BY <1>2, <1>3, <1>6, <1>7, <1>8, <1>10 DEF Stand
<1>11. CASE Launch
  <2>1. ASSUME CameUp PROVE op'.pc \in {"begin", "register"} /\ (op'.pc = "register" => sessions'[op'.h].sid # 0)
    BY <2>1 DEF CameUp
  <2> QED BY <1>11, <2>1, LaunchStirs
<1>12. CASE BeginReads
  <2>1. op'.pc = "register" => op'.h = op.h
    <3>1. op'.pc = "register" => ~Launch
      BY <1>12 DEF BeginReads, Launch
    <3> QED BY <3>1, PointsFollow
  <2> QED BY <1>12, <2>1, BeginReadsStirs
<1>13. CASE Advance \/ AdvanceReads
  <2>1. Comes(m.turn, op.h) \/ (op'.pc = "read" /\ op'.h = op.h)
    BY <1>13, AdvanceStirs, AdvanceReadsStirs
  <2>2. op.pc \in {"advance", "read"}
    BY <1>13 DEF Advance, AdvanceReads
  <2>3. live' \subseteq live
    BY <1>3, <1>4, <2>2
  <2>4. op'.pc = "read" /\ op'.h = op.h => sessions'[op'.h].sid # 0 /\ \A k \in live' : sessions'[k].sid = sessions'[op'.h].sid => k = op'.h
    BY <1>6, <1>7, <1>8, <2>2, <2>3
  <2> QED BY <2>1, <2>4 DEF Comes
<1>14. CASE Finds
  <2>1. op'.h \in live /\ sessions[op'.h].sid # 0 /\ op'.pc = "advance"
    BY <1>14 DEF Finds, Entry
  <2>2. Stand(op'.h) /\ Alone(op'.h)
    BY <2>1 DEF OneEach, Stand, Alone
  <2>3. live' \subseteq live
    BY <1>14 DEF Finds
  <2> QED BY <1>1, <1>6, <2>1, <2>2, <2>3
<1>15. CASE EndsQuietly
  BY <1>15 DEF EndsQuietly
<1>16. CASE Enters
  <2>1. op.pc = "register" /\ op'.h = op.h /\ op'.pc = "advance" /\ live' = live \cup {op.h}
    BY <1>16 DEF Enters
  <2> QED BY <1>6, <1>7, <1>9, <2>1
<1>17. CASE Books \/ Passes
  BY <1>17 DEF Books, Passes
<1>18. CASE Handler
  BY <1>11, <1>12, <1>13, <1>14, <1>15, <1>16, <1>17, <1>18, HandlerTurns
<1>19. CASE ~Handler
  <2>1. ~Register
    BY <1>19 DEF Handler
  <2>2. op' = op \/ op' = NoOp \/ (Taking /\ StartHandler)
    BY <1>19, OthersMove DEF Next
  <2>3. NoOp.pc = "none"
    BY DEF NoOp
  <2>4. CASE Taking
    <3>1. op'.pc = "fulfill"
      BY <2>4, TakingFits
    <3> QED BY <3>1
  <2>5. op' = NoOp => op'.pc = "none"
    BY <2>3, Zenon
  <2> QED BY <1>10, <2>1, <2>2, <2>4, <2>5
<1> QED BY <1>18, <1>19

(* What a session keeps while nobody reads it or tells it anything. *)
Undisturbed(t, s, p) ==
    /\ t.first = s.first /\ t.sid = s.sid
    /\ Silent(s) => Silent(t)
    /\ \A a : a # 0 /\ Same(s, a, p) => Same(t, a, p)
    /\ (~s.mixed => OwnsOnly(s, p)) => (~t.mixed => OwnsOnly(t, p))

LEMMA Undisturb ==
    ASSUME Types, Idly \/ \E h \in Handles : RuntimeWrites(h), NEW k \in Handles, NEW p
    PROVE  DOMAIN sessions' = Handles /\ Undisturbed(sessions'[k], sessions[k], p)
<1>1. CASE Idly
  <2>1. Alike(sessions'[k], sessions[k]) /\ DOMAIN sessions' = Handles
    BY <1>1 DEF Idly, Rests
  <2>2. \A a : Same(sessions[k], a, p) => Same(sessions'[k], a, p)
    BY <2>1, AlikeStays
  <2>3. /\ Silent(sessions[k]) => Silent(sessions'[k])
        /\ (~sessions[k].mixed => OwnsOnly(sessions[k], p)) => (~sessions'[k].mixed => OwnsOnly(sessions'[k], p))
    BY <2>1, AlikeStays
  <2>4. sessions'[k].first = sessions[k].first /\ sessions'[k].sid = sessions[k].sid
    BY <2>1 DEF Alike
  <2> QED BY <2>1, <2>2, <2>3, <2>4 DEF Undisturbed
<1>2. ASSUME NEW h \in Handles, RuntimeWrites(h)
      PROVE  DOMAIN sessions' = Handles /\ Undisturbed(sessions'[k], sessions[k], p)
  <2>1. sessions' = [sessions EXCEPT ![h] = sessions'[h]] /\ Wrote(sessions'[h], sessions[h], config.flavor)
    BY <1>2, WritesMean
  <2>2. One(h) /\ sessions[k] \in Sessions
    BY <2>1, OneMoves DEF Types, Stock
  <2>3. CASE k = h
    <3>1. \A a : a # 0 /\ Same(sessions[k], a, p) => Same(sessions'[k], a, p)
      BY <2>1, <2>2, <2>3, WroteStays
    <3>2. /\ Silent(sessions[k]) => Silent(sessions'[k])
          /\ (~sessions[k].mixed => OwnsOnly(sessions[k], p)) => (~sessions'[k].mixed => OwnsOnly(sessions'[k], p))
      BY <2>1, <2>2, <2>3, WroteStays
    <3>3. sessions'[k].first = sessions[k].first /\ sessions'[k].sid = sessions[k].sid
      BY <2>1, <2>3 DEF Wrote
    <3> QED BY <2>2, <3>1, <3>2, <3>3 DEF Undisturbed, One
  <2>4. CASE k # h
    BY <2>2, <2>4 DEF One, Undisturbed
  <2> QED BY <2>3, <2>4
<1> QED BY <1>1, <1>2

LEMMA ReqStays ==
    ASSUME Types, FramesFit, Next, op'.pc \notin {"none", "fulfill"}
    PROVE  op'.req = op.req /\ op # NoOp
<1>1. CASE Handler
  BY <1>1, HandlerMoves, HandlerStands DEF Moved
<1>2. CASE ~Handler
  <2>1. op' = op \/ op' = NoOp \/ (Taking /\ StartHandler)
    BY <1>2, OthersMove DEF Next
  <2>2. Taking => op'.pc = "fulfill"
    BY TakingFits
  <2>3. op' = op
    BY <2>1, <2>2 DEF NoOp
  <2> QED BY <2>3 DEF NoOp
<1> QED BY <1>1, <1>2

LEMMA SilentAtFirstKept ==
    ASSUME Types, FramesFit, TurnFits, SessionsSound, SilentAtFirst, Next
    PROVE  SilentAtFirst'
<1> SUFFICES ASSUME op'.pc \in {"begin", "register"}
             PROVE  \/ Silent(sessions'[op'.h])
                    \/ sessions'[op'.h].first # 0 /\ IsPrompt(op'.req.input)
  BY DEF SilentAtFirst, Silent, IsPrompt
<1>1. CASE Launch
  <2>1. CameUp
    BY <1>1, LaunchStirs
  <2> QED BY <2>1 DEF CameUp
<1>2. ASSUME ~Launch
      PROVE  /\ op.pc \in {"begin", "register"} /\ op'.h = op.h /\ op'.req = op.req /\ op.h \in Handles
             /\ Silent(sessions[op.h]) \/ (sessions[op.h].first # 0 /\ IsPrompt(op.req.input))
  <2>1. op.pc \in {"begin", "register"} /\ op'.h = op.h
    BY <1>2, PointsFollow
  <2>2. op.h \in Handles
    BY <2>1 DEF Types, Operation
  <2> QED BY <2>1, <2>2, ReqStays DEF SilentAtFirst
<1>3. CASE ~Launch /\ (Idly \/ \E h \in Handles : RuntimeWrites(h))
  BY <1>2, <1>3, Undisturb DEF Undisturbed
<1>4. CASE BeginReads
  <2>1. ~Launch
    BY <1>4 DEF BeginReads, Launch
  <2> QED BY <1>2, <1>4, <2>1, BeginReadsStirs
<1>5. CASE Advance \/ AdvanceReads
  <2>1. op.pc \in {"advance", "read"}
    BY <1>5 DEF Advance, AdvanceReads
  <2>2. ~Launch
    BY <2>1 DEF Launch
  <2> QED BY <1>2, <2>1, <2>2
<1> QED BY <1>1, <1>3, <1>4, <1>5, OthersIdle DEF Stirs

LEMMA ReadingKept ==
    ASSUME Types, FramesFit, TurnFits, SessionsSound, Questions, Reading, SilentAtFirst, Paid, Next
    PROVE  Reading'
<1> SUFFICES ASSUME op'.pc = "read" PROVE ~sessions'[op'.h].mixed => OwnsOnly(sessions'[op'.h], m'.turn)
  BY DEF Reading, OwnsOnly
<1>1. op # NoOp /\ op' # NoOp
  BY ReqStays DEF NoOp
<1>2. m'.turn = m.turn
  <2>1. op.pc # "done"
    <3>1. op.pc = "done" => ~Handler
      BY DEF Handler, Fulfill, Prepare, Launch, BeginReads, BeginFails, Register, Advance, AdvanceReads, AdvanceFails,
             Charge, HandlerSweeps
    <3>2. ~Handler => op' = op \/ op' = NoOp \/ (Taking /\ StartHandler)
      BY OthersMove DEF Next
    <3> QED BY <1>1, <3>1, <3>2 DEF Taking
  <2>2. op' # NoOp /\ ~StartHandler
    BY <1>1 DEF StartHandler
  <2> QED BY <2>1, <2>2, TurnChanges DEF Stands, Fed
<1>3. CASE Advance
  <2>1. op'.h = op.h
    BY <1>3, AdvanceStirs DEF Comes
  <2> QED BY <1>2, <1>3, <2>1, AdvanceStirs
<1>4. CASE AdvanceReads
  <2>1. op'.h = op.h
    BY <1>4, AdvanceReadsStirs DEF Comes
  <2> QED BY <1>2, <1>4, <2>1, AdvanceReadsStirs
<1>5. CASE Launch
  BY <1>5, LaunchStirs DEF CameUp
<1>6. CASE BeginReads
  BY <1>6, BeginReadsStirs
<1>7. CASE Idly \/ \E h \in Handles : RuntimeWrites(h)
  <2>1. CASE op' = op
    <3>1. op.pc = "read" /\ op.h \in Handles
      BY <2>1 DEF Types, Operation
    <3> QED BY <1>2, <1>7, <2>1, <3>1, Undisturb DEF Reading, Undisturbed
  <2>2. CASE op' # op
    <3>1. Handler
      <4>1. ~Handler => op' = op \/ op' = NoOp \/ (Taking /\ StartHandler)
        BY OthersMove DEF Next
      <4>2. Taking => op'.pc = "fulfill"
        BY TakingFits
      <4> QED BY <1>1, <2>2, <4>1, <4>2
    <3>2. ~(Finds \/ EndsQuietly \/ Enters \/ Books \/ Passes)
      BY DEF Finds, EndsQuietly, Enters, Books, Passes
    <3> QED BY <1>3, <1>4, <1>5, <1>6, <3>1, <3>2, HandlerTurns
  <2> QED BY <2>1, <2>2
<1> QED BY <1>3, <1>4, <1>5, <1>6, <1>7, OthersIdle DEF Stirs

-----------------------------------------------------------------------------
(***************************************************************************)
(* Who asked what.                                                         *)
(***************************************************************************)
WillWait(id, a) == id # 0 /\ a # 0 /\ \A h \in live' : sessions'[h].sid = id => Same(sessions'[h], a, m'.turn)

LEMMA WaitsOn ==
    ASSUME Types, Idly \/ \E h \in Handles : RuntimeWrites(h), live' \subseteq live, m'.turn = m.turn,
           NEW id, NEW a, Waits(id, a)
    PROVE  WillWait(id, a)
<1>1. id # 0 /\ a # 0 /\ \A h \in live : sessions[h].sid = id => Same(sessions[h], a, m.turn)
  BY DEF Waits
<1>2. ASSUME NEW h \in live', sessions'[h].sid = id
      PROVE  Same(sessions'[h], a, m'.turn)
  <2>1. h \in live /\ h \in Handles
    BY <1>2 DEF Types, Stock
  <2>2. Undisturbed(sessions'[h], sessions[h], m.turn)
    BY <2>1, Undisturb
  <2> QED BY <1>1, <1>2, <2>1, <2>2 DEF Undisturbed
<1> QED BY <1>1, <1>2 DEF WillWait

(* A question that is open has been asked. *)
LEMMA FedAsks ==
    ASSUME Machinery', NEW id, NEW a, Fed(id, a)
    PROVE  /\ Waiting(m') => m'.inFlight /\ m'.session.id = id /\ m'.cursor.asks = a /\ a # 0
           /\ \A r \in asked' : r.kind = "ExternalSession" /\ ~IsPrompt(r.input) =>
                 m'.inFlight /\ r.session.id = id /\ r.input.asks = a /\ a # 0
<1>1. Coherent(m') /\ Matches(m', asked')
  BY DEF Machinery, Fed
<1>2. m'.inFlight <=> m'.cursor.at \in {"AwaitingSession", "AwaitingInteraction", "AwaitingTool", "AwaitingSubagent"}
  BY <1>1 DEF Coherent, has_outstanding_requirement
<1>3. ASSUME Waiting(m')
      PROVE  m'.inFlight /\ m'.session.id = id /\ m'.cursor.asks = a /\ a # 0
  <2>1. m'.session.id = id /\ m'.cursor.asks = a
    BY <1>3 DEF Fed
  <2>2. m'.cursor.asks # 0
    BY <1>1, <1>3 DEF Matches
  <2>3. m'.inFlight
    BY <1>2, <1>3 DEF Waiting
  <2> QED BY <2>1, <2>2, <2>3
<1>4. ASSUME NEW r \in asked', r.kind = "ExternalSession", ~IsPrompt(r.input)
      PROVE  m'.inFlight /\ r.session.id = id /\ r.input.asks = a /\ a # 0
  <2>1. r.session.id = id /\ r.input.asks = a
    BY <1>4 DEF Fed
  <2>2. m'.inFlight
    BY <1>1, <1>4 DEF Matches
  <2>3. m'.cursor.at = "AwaitingSession"
    BY <1>1, <1>2, <1>4, <2>2 DEF Matches, CallOf
  <2>4. Wanted(m', r)
    BY <1>1, <1>4, <2>3 DEF Matches
  <2> QED BY <1>4, <2>1, <2>2, <2>4 DEF Wanted
<1> QED BY <1>3, <1>4

(* A session that says nothing waits for any answer. *)
LEMMA SilentSame ==
    ASSUME NEW s, NEW flavor, Sound(s, flavor), Silent(s), NEW a, NEW p
    PROVE  Same(s, a, p)
<1>1. s.busy = << >> /\ s.asks = 0 /\ s.decision = NoDecision
      /\ \A i \in DOMAIN s.out : s.out[i].kind \notin Ends \cup PauseKinds
  BY DEF Silent
<1>2. Quiet(s) /\ s.decision.kind \notin PauseKinds /\ s.decision.kind # "Completed"
  BY <1>1 DEF Quiet, NoDecision, PauseKinds
<1>3. ASSUME ~s.mixed PROVE OwnsOnly(s, p)
  <2>1. \A i : ~EndComes(s, i)
    BY <1>1 DEF EndComes
  <2>2. s.text = {} /\ \A i \in DOMAIN s.out : s.out[i].kind # "Event"
    BY <1>3, <2>1 DEF Sound, TextEnds
  <2>3. \A i \in DOMAIN s.out : s.out[i].kind \notin {"Event", "Completed"}
    BY <1>1, <2>2 DEF Ends
  <2>4. \A i \in DOMAIN s.busy : s.busy[i] = p
    BY <1>1
  <2> QED BY <1>2, <2>2, <2>3, <2>4 DEF OwnsOnly
<1> QED BY <1>1, <1>2, <1>3 DEF Same

(* Whoever gives up says so. *)
LEMMA GivesUp ==
    ASSUME Types, FramesFit, TurnFits, Launch \/ BeginReads
    PROVE  op'.pc \in {"begin", "register"} \/ Passes
<1>1. CASE Launch
  <2>1. ASSUME NEW session, GiveUp(Failed(session, << >>)) PROVE Passes
    BY <2>1, AnsweredPasses DEF GiveUp
  <2>2. op'.pc \in {"begin", "register"} \/ op'.pc = "done"
    BY <1>1, LaunchStirs DEF CameUp
  <2>3. CASE op'.pc = "done"
    <3>1. \/ op' = [op EXCEPT !.h = Len(sessions'), !.pc = IF Launched.prelude THEN "begin" ELSE "register"]
          \/ GiveUp(Failed(op.req.session, << >>)) \/ GiveUp(Failed(NoSession, << >>))
      BY <1>1 DEF Launch, Launched
    <3>2. op \in [pc: Points, req: Requests, h: Nat, tree: Nat, got: {op.got}]
      <4>1. op.pc = "launch"
        BY <1>1, Zenon DEF Launch
      <4>2. op # NoOp
        BY <4>1 DEF NoOp
      <4> QED BY <4>2, OpFits DEF Types, IsOperation
    <3>3. op' # [op EXCEPT !.h = Len(sessions'), !.pc = IF Launched.prelude THEN "begin" ELSE "register"]
      BY <2>3, <3>2
    <3> QED BY <2>1, <3>1, <3>3
  <2> QED BY <2>2, <2>3
<1>2. CASE BeginReads
  <2>1. op.pc = "begin" /\ op # NoOp
    <3>1. op.pc = "begin"
      BY <1>2 DEF BeginReads
    <3> QED BY <3>1 DEF NoOp
  <2>2. IsOperation(op)
    BY <2>1, OpFits DEF Types
  <2>3. \/ GiveUp(Failed(NoSession, << >>))
        \/ op' = [op EXCEPT !.pc = "register"] \/ op' = op
    BY <1>2 DEF BeginReads
  <2> QED BY <2>1, <2>2, <2>3, AnsweredPasses DEF GiveUp, IsOperation
<1> QED BY <1>1, <1>2

(* The question an answer of the session brings is its own. *)
LEMMA ComesWaits ==
    ASSUME Types, FramesFit, NamesFit, Registered, Advance \/ AdvanceReads, Next,
           Comes(m.turn, op.h), op'.got.kind \in PauseKinds, m'.turn = m.turn
    PROVE  WillWait(op'.got.session.id, op'.got.asks)
<1>1. op.pc \in {"advance", "read"} /\ op.h \in Handles /\ live' = live
  <2>1. op.pc \in {"advance", "read"} /\ live' = live
    BY Zenon DEF Advance, AdvanceReads
  <2> QED BY <2>1 DEF Types, Operation
<1>2. sessions[op.h].sid # 0 /\ \A k \in live : sessions[k].sid = sessions[op.h].sid => k = op.h
  BY <1>1 DEF Registered
<1>3. /\ op'.got.session.id = sessions'[op.h].sid
      /\ op'.got.asks # 0 /\ Same(sessions'[op.h], op'.got.asks, m.turn)
  BY DEF Comes
<1>4. Grown
  BY NextGrows
<1>5. sessions'[op.h].sid # 0
  BY <1>1, <1>2, <1>4 DEF Grown, Succ
<1>6. ASSUME NEW h \in live', sessions'[h].sid = sessions'[op.h].sid PROVE h = op.h
  <2>1. h \in live /\ h \in Handles
    BY <1>1, <1>6 DEF Types, Stock
  <2> QED BY <1>1, <1>2, <1>4, <1>5, <1>6, <2>1, SidsApart
<1> QED BY <1>3, <1>5, <1>6 DEF WillWait

(* While the handler is at work. *)
LEMMA QuestionsAtWork ==
    ASSUME Types, FramesFit, NamesFit, TurnFits, SessionsSound, Registered, SilentAtFirst, Questions, Reading, Paid,
           Handler, Next, m'.turn = m.turn
    PROVE  /\ op'.pc = "advance" /\ ~IsPrompt(op'.req.input) => Same(sessions'[op'.h], op'.req.input.asks, m'.turn)
           /\ op'.pc = "done" /\ op'.got.kind \in PauseKinds => WillWait(op'.got.session.id, op'.got.asks)
           /\ op'.pc # "fulfill"
<1>1. CASE Advance \/ AdvanceReads
  <2>1. Comes(m.turn, op.h) \/ op'.pc = "read"
    BY <1>1, AdvanceStirs, AdvanceReadsStirs
  <2>2. Comes(m.turn, op.h) => op'.pc \in {"charge", "done"}
    BY DEF Comes
  <2> QED BY <1>1, <2>1, <2>2, ComesWaits
<1>2. CASE Passes
  BY <1>2 DEF Passes, PauseKinds
<1>3. CASE Launch \/ BeginReads
  <2>1. op'.pc \in {"begin", "register"} \/ Passes
    BY <1>3, GivesUp
  <2> QED BY <1>2, <2>1
<1>4. CASE Finds
  <2>1. /\ op.pc = "fulfill" /\ op'.pc = "advance" /\ op'.h \in live /\ op'.req = op.req /\ sessions' = sessions
        /\ op.req.session.id # 0 /\ sessions[op'.h].sid = op.req.session.id
    BY <1>4 DEF Finds, Entry
  <2> QED BY <2>1 DEF Questions, Waits
<1>5. CASE EndsQuietly \/ Books
  BY <1>5 DEF EndsQuietly, Books, PauseKinds
<1>6. CASE Enters
  <2>1. op.pc = "register" /\ op'.pc = "advance" /\ op'.h = op.h /\ op'.req = op.req /\ sessions' = sessions
        /\ op.h \in Handles
    BY <1>6 DEF Enters, Types, Operation
  <2>2. ~IsPrompt(op.req.input) => Silent(sessions[op.h])
    BY <2>1 DEF SilentAtFirst
  <2>3. Sound(sessions[op.h], config.flavor)
    BY <2>1 DEF SessionsSound
  <2> QED BY <2>1, <2>2, <2>3, SilentSame
<1> QED BY <1>1, <1>2, <1>3, <1>4, <1>5, <1>6, HandlerTurns

LEMMA QuestionsKept ==
    ASSUME Types, FramesFit, NamesFit, TurnFits, SessionsSound, Registered, SilentAtFirst, Questions, Reading, Paid,
           op.pc = "done" => Honest(op.got, m.turn), Next
    PROVE  Questions'
<1> SUFFICES /\ Waiting(m') => WillWait(m'.session.id, m'.cursor.asks)
             /\ \A r \in asked' : r.kind = "ExternalSession" /\ ~IsPrompt(r.input) => WillWait(r.session.id, r.input.asks)
             /\ op'.pc = "fulfill" /\ ~IsPrompt(op'.req.input) => WillWait(op'.req.session.id, op'.req.input.asks)
             /\ op'.pc = "advance" /\ ~IsPrompt(op'.req.input) => Same(sessions'[op'.h], op'.req.input.asks, m'.turn)
             /\ op'.pc = "done" /\ op'.got.kind \in PauseKinds => WillWait(op'.got.session.id, op'.got.asks)
  BY DEF Questions, Waiting, Waits, WillWait, Same, Quiet, OwnsOnly, IsPrompt
<1>1. Machinery'
  BY MachineryKept
<1>2. NoOp.pc = "none"
  BY DEF NoOp
<1>3. ASSUME op' = op, Stands
      PROVE  /\ Waiting(m') => WillWait(m'.session.id, m'.cursor.asks)
             /\ \A r \in asked' : r.kind = "ExternalSession" /\ ~IsPrompt(r.input) => WillWait(r.session.id, r.input.asks)
             /\ op'.pc = "fulfill" /\ ~IsPrompt(op'.req.input) => WillWait(op'.req.session.id, op'.req.input.asks)
             /\ op'.pc = "advance" /\ ~IsPrompt(op'.req.input) => Same(sessions'[op'.h], op'.req.input.asks, m'.turn)
             /\ op'.pc = "done" /\ op'.got.kind \in PauseKinds => WillWait(op'.got.session.id, op'.got.asks)
  <2>1. m'.cursor = m.cursor /\ m'.session = m.session /\ m'.turn = m.turn /\ asked' = asked
    BY <1>3 DEF Stands
  <2>2. live' \subseteq live
    <3>1. ~Register
      BY <1>3, RegisterTurns DEF Enters
    <3> QED BY <3>1, RegistryMoves
  <2>3. CASE Idly \/ \E h \in Handles : RuntimeWrites(h)
    <3>1. \A id, a : Waits(id, a) => WillWait(id, a)
      BY <2>1, <2>2, <2>3, WaitsOn
    <3>2. ASSUME op.pc = "advance", ~IsPrompt(op.req.input)
          PROVE  Same(sessions'[op.h], op.req.input.asks, m.turn)
      <4>1. op.h \in Handles /\ Same(sessions[op.h], op.req.input.asks, m.turn)
        BY <3>2 DEF Types, Operation, Questions
      <4>2. op.req.input.asks # 0
        BY <1>2, <3>2, Zenon DEF TurnFits, Wanted
      <4> QED BY <2>3, <4>1, <4>2, Undisturb DEF Undisturbed
    <3> QED BY <1>3, <2>1, <3>1, <3>2 DEF Questions, Waiting
  <2>4. CASE op.pc \in {"begin", "read"}
    <3>1. op # NoOp
      BY <1>2, <2>4
    <3>2. asked' = {} /\ ~Waiting(m')
      BY <2>1, <3>1 DEF TurnFits, Waiting
    <3> QED BY <1>3, <2>4, <3>2
  <2>5. Launch => op'.pc # op.pc
    <3>1. Launch => op.pc = "launch"
      BY Zenon DEF Launch
    <3> QED BY <3>1, LaunchStirs DEF CameUp
  <2>6. Advance => op'.pc # op.pc
    <3>1. Advance => op.pc = "advance"
      BY Zenon DEF Advance
    <3> QED BY <3>1, AdvanceStirs DEF Comes
  <2>7. (BeginReads => op.pc = "begin") /\ (AdvanceReads => op.pc = "read")
    BY Zenon DEF BeginReads, AdvanceReads
  <2> QED BY <1>3, <2>3, <2>4, <2>5, <2>6, <2>7, OthersIdle DEF Stirs
<1>4. CASE Stands /\ op' # op
  <2>1. Handler /\ op # NoOp /\ m'.cursor = m.cursor /\ m'.turn = m.turn /\ asked' = asked
    BY <1>4 DEF Stands
  <2>2. asked' = {} /\ ~Waiting(m')
    BY <2>1 DEF TurnFits, Waiting
  <2> QED BY <2>1, <2>2, QuestionsAtWork
<1>5. ASSUME UNCHANGED <<sessions, live>>, m'.turn = m.turn, NEW id, NEW a, Waits(id, a)
      PROVE  WillWait(id, a)
  BY <1>5 DEF Waits, WillWait
<1>6. CASE StartHandler /\ Taking /\ m' = m
  <2>1. UNCHANGED <<sessions, live>> /\ asked' \subseteq asked
    BY <1>6 DEF StartHandler
  <2>2. op'.pc = "fulfill" /\ op'.req \in asked /\ op'.req.kind = "ExternalSession"
    BY <1>6, TakingFits
  <2> QED BY <1>5, <1>6, <2>1, <2>2 DEF Questions
<1>7. ASSUME NEW id, NEW a, Fed(id, a), a # 0 /\ m'.inFlight => WillWait(id, a)
      PROVE  /\ Waiting(m') => WillWait(m'.session.id, m'.cursor.asks)
             /\ \A r \in asked' : r.kind = "ExternalSession" /\ ~IsPrompt(r.input) => WillWait(r.session.id, r.input.asks)
             /\ op'.pc = "none"
  <2>1. op'.pc = "none"
    BY <1>2, <1>7, Zenon DEF Fed
  <2> QED BY <1>1, <1>7, <2>1, FedAsks
<1>8. CASE Fed(0, 0)
  BY <1>7, <1>8
<1>9. CASE Resolve /\ Waiting(m) /\ Fed(m.session.id, m.cursor.asks) /\ SameTurn
  <2>1. UNCHANGED <<sessions, live>>
    BY <1>9, Zenon DEF Resolve
  <2>2. Waits(m.session.id, m.cursor.asks)
    BY <1>9 DEF Questions
  <2>3. m'.inFlight => WillWait(m.session.id, m.cursor.asks)
    BY <1>5, <1>9, <2>1, <2>2 DEF SameTurn
  <2> QED BY <1>7, <1>9, <2>3
<1>10. CASE Deliver /\ op.pc = "done" /\ Fed(op.got.session.id, Question(op.got)) /\ SameTurn
  <2>1. UNCHANGED <<sessions, live>>
    BY <1>10, Zenon DEF Deliver
  <2>2. Question(op.got) # 0 => Waits(op.got.session.id, Question(op.got))
    BY <1>10 DEF Questions, Question
  <2>3. Question(op.got) # 0 /\ m'.inFlight => WillWait(op.got.session.id, Question(op.got))
    BY <1>5, <1>10, <2>1, <2>2 DEF SameTurn
  <2> QED BY <1>7, <1>10, <2>3
<1> QED BY <1>3, <1>4, <1>6, <1>8, <1>9, <1>10, TurnChanges

LEMMA PaidKept ==
    ASSUME Types, FramesFit, TurnFits, SessionsSound, Questions, Reading, Paid,
           op.pc = "done" => Honest(op.got, m.turn), Next
    PROVE  Paid'
<1>1. Kept(m') /\ Kept(saved')
  BY KeptKept DEF Paid
<1> SUFFICES /\ op'.pc = "sweep" => op'.got.kind = "Failed"
             /\ op'.pc \in {"charge", "done"} /\ op'.got.kind = "Completed" => Due(op'.got.answer, m'.turn)
             /\ op'.pc = "done" /\ op'.got.kind = "Completed" => op'.got.answer.tokens <= Budget
  BY <1>1 DEF Paid, Kept, Due
<1>2. CASE Handler
  <2>1. m' = m
    BY <1>2, Zenon DEF Handler, Fulfill, Prepare, Launch, BeginReads, BeginFails, Register, Advance, AdvanceReads,
           AdvanceFails, Charge, HandlerSweeps, driving
  <2>2. CASE Launch \/ BeginReads
    BY <2>2, GivesUp DEF Passes
  <2>3. CASE Advance \/ AdvanceReads
    <3>1. Comes(m.turn, op.h) \/ op'.pc = "read"
      BY <2>3, AdvanceStirs, AdvanceReadsStirs
    <3> QED BY <2>1, <3>1 DEF Comes
  <2>4. CASE Books
    <3>1. op.got.kind = "Completed"
      BY <2>4 DEF Books, Types, Operation
    <3> QED BY <2>1, <2>4, <3>1 DEF Books, Paid, Due
  <2>5. CASE Finds \/ EndsQuietly \/ Enters \/ Passes
    BY <2>5 DEF Finds, EndsQuietly, Enters, Passes
  <2> QED BY <1>2, <2>2, <2>3, <2>4, <2>5, HandlerTurns
<1>3. CASE ~Handler
  <2>1. op' = op \/ op' = NoOp \/ (Taking /\ StartHandler)
    BY <1>3, OthersMove DEF Next
  <2>2. CASE op' # op
    <3>1. op'.pc \in {"none", "fulfill"}
      BY <2>1, <2>2, TakingFits DEF NoOp
    <3> QED BY <3>1
  <2>3. CASE op' = op /\ op.pc \in {"charge", "done", "sweep"}
    <3>1. op # NoOp
      BY <2>3 DEF NoOp
    <3>2. m'.turn = m.turn
      BY <2>3, <3>1, TurnChanges DEF Stands, Fed, StartHandler
    <3> QED BY <2>3, <3>2 DEF Paid
  <2> QED BY <2>2, <2>3
<1> QED BY <1>2, <1>3

-----------------------------------------------------------------------------
(***************************************************************************)
(* A turn, from the beginning on.                                          *)
(***************************************************************************)
LEMMA DoneHonest ==
    ASSUME Paid, Questions
    PROVE  op.pc = "done" => Honest(op.got, m.turn)
BY DEF Paid, Questions, Waits, Honest

LEMMA TurnInit ==
    ASSUME Init
    PROVE  TurnIInv
<1>1. /\ asked = {} /\ op = NoOp /\ sessions = << >> /\ live = {} /\ saved = m
  BY DEF Init
<1>2. op.pc = "none" /\ DOMAIN sessions = {}
  BY <1>1 DEF NoOp
<1>3. Coherent(m) /\ ~m.inFlight
  BY CleanInit DEF CleanIInv, Types, Machinery, Init
<1>4. Matches(m, asked) /\ ~Waiting(m)
  BY <1>1, <1>3, StoppedMatches
<1>5. Kept(m) /\ Kept(saved)
  <2>1. m.committed = << >>
    BY DEF Init, NewMachine
  <2> QED BY <1>1, <2>1 DEF Kept
<1>6. TurnFits /\ Paid
  BY <1>1, <1>2, <1>4, <1>5 DEF TurnFits, Paid
<1>7. SessionsSound /\ Registered /\ SilentAtFirst /\ Reading
  BY <1>1, <1>2 DEF SessionsSound, Registered, SilentAtFirst, Reading
<1>8. Questions
  BY <1>1, <1>2, <1>4 DEF Questions
<1> QED BY <1>6, <1>7, <1>8 DEF TurnIInv

LEMMA TurnStutter ==
    ASSUME TurnIInv, UNCHANGED vars
    PROVE  TurnIInv'
<1>1. UNCHANGED <<config, m, asked, op, sessions, live, saved>>
  BY DEF vars
<1> USE <1>1
<1>2. TurnFits => TurnFits'
  BY DEF TurnFits, Matches, Wanted, InOrder, IsPrompt, CallOf, Open, Waiting
<1>3. Paid => Paid'
  BY DEF Paid, Kept, Due
<1>4. SessionsSound => SessionsSound'
  BY DEF SessionsSound, Sound, PausesFit, Quiet, TextEnds, EndComes, LaunchFirst, OwnsOnly
<1>5. Registered => Registered'
  BY DEF Registered
<1>6. SilentAtFirst => SilentAtFirst'
  BY DEF SilentAtFirst, Silent, IsPrompt
<1>7. Questions => Questions'
  BY DEF Questions, Waiting, Waits, Same, Quiet, OwnsOnly, IsPrompt
<1>8. Reading => Reading'
  BY DEF Reading, OwnsOnly
<1> QED BY <1>2, <1>3, <1>4, <1>5, <1>6, <1>7, <1>8 DEF TurnIInv

LEMMA TurnStep ==
    ASSUME CleanIInv, TurnIInv, Next
    PROVE  TurnIInv'
<1>1. /\ Types /\ FramesFit /\ NamesFit /\ OneEach
      /\ TurnFits /\ Paid /\ SessionsSound /\ Registered /\ SilentAtFirst /\ Questions /\ Reading
  BY DEF CleanIInv, TurnIInv
<1>2. op.pc = "done" => Honest(op.got, m.turn)
  BY <1>1, DoneHonest
<1> QED BY <1>1, <1>2, TurnFitsKept, PaidKept, SessionsSoundKept, RegisteredKept, SilentAtFirstKept,
          QuestionsKept, ReadingKept DEF TurnIInv

(* What the invariant says of one state. *)
LEMMA TurnMeans ==
    ASSUME CleanIInv, TurnIInv
    PROVE  TurnInv
<1>1. /\ Types /\ Asking /\ TurnFits /\ Paid /\ Questions
  BY DEF CleanIInv, TurnIInv
<1>2. TypeOK
  <2>1. m.loops \in Nat /\ m.inFlight \in BOOLEAN /\ m.queued \subseteq ToolSets /\ m.tools \in ToolSets
    BY <1>1 DEF Types, Machinery, Coherent, IsMachine, Machines
  <2>2. op.pc \in {"none", "fulfill", "prepare", "launch", "begin", "register", "advance", "read",
                   "charge", "sweep", "done"}
    <3>1. CASE op = NoOp
      BY <3>1 DEF NoOp
    <3>2. CASE op # NoOp
      BY <1>1, <3>2, OpFits DEF Types, Points
    <3> QED BY <3>1, <3>2
  <2> QED BY <1>1, <2>1, <2>2 DEF TypeOK, Types, Stock, Accounts
<1>3. WaitsForWhatIsAsked
  BY <1>1, MatchesWaits
<1>4. AnswerFitsItsQuestion
  <2>1. ASSUME op.pc = "advance", ~IsPrompt(op.req.input)
        PROVE  /\ sessions[op.h].asks \in {0, op.req.input.asks}
               /\ \A i \in DOMAIN op.req.input.results : op.req.input.results[i][1] = i
    <3>1. Same(sessions[op.h], op.req.input.asks, m.turn)
      BY <1>1, <2>1 DEF Questions
    <3>2. InOrder(op.req.input)
      BY <1>1, <2>1 DEF TurnFits, Wanted, NoOp
    <3> QED BY <3>1, <3>2 DEF Same, InOrder
  <2> QED BY <2>1 DEF AnswerFitsItsQuestion, IsPrompt
<1>5. AnswersItsPrompt /\ OverBudgetNeverCommitted
  BY <1>1 DEF Paid, Kept, Due, AnswersItsPrompt, OverBudgetNeverCommitted
<1> QED BY <1>2, <1>3, <1>4, <1>5 DEF TurnInv

(* Machine, driver, handler and runtime agree on what is asked and what is answered: an answer *)
(* goes to the session that asked, a batch is answered call by call, and what becomes part of  *)
(* the conversation is made of text about its own prompt, unless the session owed something    *)
(* when it was prompted, and is paid for: whatever is cancelled, swept, lost or restarted on   *)
(* the way (machine.rs, handler.rs, registry.rs, budget.rs and the adapters).                  *)
THEOREM TurnCorrect == Spec => []TurnInv
<1>1. Init => CleanIInv /\ TurnIInv
  BY CleanInit, TurnInit
<1>2. CleanIInv /\ TurnIInv /\ [Next]_vars => CleanIInv' /\ TurnIInv'
  BY CleanStep, CleanStutter, TurnStep, TurnStutter
<1>3. CleanIInv /\ TurnIInv => TurnInv
  BY TurnMeans
<1> QED BY <1>1, <1>2, <1>3, PTL DEF Spec
=============================================================================
