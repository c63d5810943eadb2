-------------------------- MODULE ExternalSession --------------------------
(***************************************************************************)
(* An agent that runs elsewhere: the machine of one external agent         *)
(* (ExternalMachine), the driver that feeds it, the handler that fulfils   *)
(* its session requirements by way of the budget and the registry of live  *)
(* sessions (budget.rs, handler.rs, registry.rs), the worktrees prepared   *)
(* for them (worktree.rs), the sessions and the runtimes behind them       *)
(* (RuntimeSession), and a host that sweeps, saves and restarts.           *)
(*                                                                         *)
(* The handler's future is a process of its own: it may stand at any of    *)
(* its awaits while the host sweeps, and a cancelled driver drops it       *)
(* there.                                                                  *)
(*                                                                         *)
(* Operators under a comment "Fault:" are not part of the model; each is a *)
(* plausible mistake in the operator that follows it.                      *)
(***************************************************************************)
EXTENDS ExternalMachine, RuntimeSession

CONSTANTS
    Configs,      \* what the host may have set up: see SetUp
    ToolSets,     \* tool sets to reconfigure to; the empty one is the first
    Batches,      \* the calls of a PausedForToolCalls
    Costs,        \* what an answer may cost, in tokens
    Budget,       \* token limit of a run
    MaxPrompts,   \* bound: user messages
    MaxSessions,  \* bound: sessions started or resumed
    MaxUnread,    \* bound: frames of a session nobody has read
    MaxTroubles   \* bound: cancellations, sweeps, restarts, late answers, exits, noise together

SetUp == [flavor: Flavors, resume: BOOLEAN, ephemeral: BOOLEAN, toolIds: BOOLEAN,
          stopOnError: BOOLEAN, limit: Nat,
          frames: Nat]   \* bound: frames the runtimes write, but for those that say who they are

ASSUME ConfigsAssumption ==
    Configs \subseteq SetUp /\ Costs \subseteq Nat
ASSUME ToolsAssumption ==
    {} \in ToolSets /\ Batches \subseteq Seq(CallKinds)
ASSUME BoundsAssumption ==
    {Budget, MaxPrompts, MaxSessions, MaxUnread, MaxTroubles, MaxIds, NoiseLimit} \subseteq Nat

VARIABLES
    config,     \* what the host set up
    m,          \* the ExternalAgentMachine
    asked,      \* requirements the driver has yet to resolve
    op,         \* the future of the session handler
    sessions,   \* every session made so far, in order
    live,       \* ExternalSessionRegistry: the entries, by session
    sweep,      \* entries the host took out of the registry and has yet to close
    trees,      \* ephemeral worktrees that exist
    spent,      \* tokens of the run
    cancelled,  \* the run's cancellation token
    saved,      \* the state the host saved last
    noted,      \* the observation notified last, and whether all came in order
    excused,    \* worktrees that may stay behind
    spoiled,    \* worktrees in which a process of a session that had come up came to a bad end
    refused,    \* worktrees in which a process was killed because its session did not come up
    dropped,    \* sessions whose turn was taken from them
    ledger      \* counters of the bounds

vars == <<config, m, asked, op, sessions, live, sweep, trees, spent, cancelled, saved, noted,
          excused, spoiled, refused, dropped, ledger>>

driving == <<m, asked, noted>>
hosting == <<saved, sweep>>
history == <<spoiled, refused, dropped>>

NoOp == [pc |-> "none"]
Handling(pc, req) == [pc |-> pc, req |-> req, h |-> 0, tree |-> 0, got |-> << >>]

Handles == DOMAIN sessions

\* The handle's lock is held while the session advances.
Locked(h) == op.pc = "read" /\ op.h = h

TypeOK ==
    /\ config \in Configs
    /\ m.loops \in Nat /\ m.inFlight \in BOOLEAN /\ m.queued \subseteq ToolSets /\ m.tools \in ToolSets
    /\ op.pc \in {"none", "fulfill", "prepare", "launch", "begin", "register", "advance", "read",
                  "charge", "sweep", "done"}
    /\ live \subseteq Handles /\ sweep \subseteq Handles /\ live \cap sweep = {}
    /\ spent \in 0..Budget /\ cancelled \in BOOLEAN
    /\ trees \subseteq 1..ledger.trees

Init ==
    /\ config \in Configs
    /\ m = NewMachine({}, config.limit, config.stopOnError, config.toolIds)
    /\ asked = {} /\ op = NoOp /\ sessions = << >> /\ live = {} /\ sweep = {} /\ trees = {}
    /\ spent = 0 /\ cancelled = FALSE /\ saved = m /\ noted = [last |-> 0, ordered |-> TRUE] /\ excused = {}
    /\ spoiled = {} /\ refused = {} /\ dropped = {}
    /\ ledger = [prompts |-> 0, frames |-> 0, troubles |-> 0, trees |-> 0]

Trouble == ledger.troubles < MaxTroubles
Troubled == ledger' = [ledger EXCEPT !.troubles = @ + 1]

\* The machine took a step.
Stepped(outcome) ==
    /\ m' = outcome.m
    /\ LET seen == <<noted.last>> \o [i \in DOMAIN outcome.notes |-> outcome.notes[i].n]
       IN  noted' = [last |-> seen[Len(seen)],
                     ordered |-> noted.ordered /\ \A i \in 2..Len(seen) : seen[i - 1] < seen[i]]

-----------------------------------------------------------------------------
(***************************************************************************)
(* The worktree manager, and ending a session.                             *)
(***************************************************************************)

\* Only an ephemeral tree goes, and only after a clean end.
Sweepable(tree, disposition) == tree # 0 /\ ~leaves_residual_side_effects(disposition)

\* WorktreeManager::cleanup; git may fail.
cleanup_tree(tree, disposition) ==
    \/ /\ Sweepable(tree, disposition) /\ trees' = trees \ {tree} /\ UNCHANGED excused
    \/ /\ tree # 0 /\ trees' = trees /\ excused' = excused \cup {tree}
    \/ /\ tree = 0 /\ UNCHANGED <<trees, excused>>

\* The tree a process that came to a bad end leaves, if it is still there.
Spoils(tree, disposition) == IF disposition = "Graceful" THEN {} ELSE {tree} \cap trees

\* shutdown and sweep_worktree for a session that is out of the registry.
Close(h, disposition) ==
    LET closed == shutdown(config.flavor, sessions[h], disposition)
    IN  /\ sessions' = [sessions EXCEPT ![h] = closed.s]
        /\ cleanup_tree(sessions[h].tree, closed.disposition)
        /\ spoiled' = spoiled \cup Spoils(sessions[h].tree, disposition)

-----------------------------------------------------------------------------
(***************************************************************************)
(* The handler: ExternalUsageChargingHandler around the registry's.        *)
(***************************************************************************)
Answered(result) == op' = [Handling("done", op.req) EXCEPT !.got = result]

Exhausted == spent >= Budget

Entry(session) == {h \in live : session.id # 0 /\ sessions[h].sid = session.id}

\* fulfill up to the first await, with get_or_start's choice between starting,
\* attaching and resuming.  An exhausted budget sweeps the session instead.
Fulfill ==
    LET session == op.req.session
        found == Entry(session)
    IN  /\ op.pc = "fulfill"
        /\ \/ /\ Exhausted /\ found # {}
              /\ \E h \in found :
                    /\ live' = live \ {h}
                    /\ op' = [op EXCEPT !.pc = "sweep", !.h = h, !.got = Failed(session, << >>)]
           \/ /\ Exhausted /\ found = {} /\ Answered(Failed(session, << >>)) /\ UNCHANGED live
           \/ /\ ~Exhausted /\ found # {} /\ UNCHANGED live
              /\ \E h \in found : op' = [op EXCEPT !.pc = "advance", !.h = h]
           \/ /\ ~Exhausted /\ found = {} /\ UNCHANGED live
              /\ IF session.id = 0 \/ config.resume THEN op' = [op EXCEPT !.pc = "prepare"]
                 ELSE Answered(Failed(session, << >>))
        /\ UNCHANGED <<config, driving, hosting, sessions, trees, spent, cancelled, excused, ledger, history>>

\* prepare: a tree of its own for the session, if the policy says so; git may fail.
Prepare ==
    /\ op.pc = "prepare"
    /\ \/ /\ config.ephemeral
          /\ ledger' = [ledger EXCEPT !.trees = @ + 1]
          /\ trees' = trees \cup {ledger'.trees}
          /\ op' = [op EXCEPT !.pc = "launch", !.tree = ledger'.trees]
       \/ /\ ~config.ephemeral /\ op' = [op EXCEPT !.pc = "launch"] /\ UNCHANGED <<trees, ledger>>
       \/ /\ config.ephemeral /\ Answered(Failed(op.req.session, << >>)) /\ UNCHANGED <<trees, ledger>>
    /\ UNCHANGED <<config, driving, hosting, sessions, live, spent, cancelled, excused, history>>

\* Fault: the tree of a session that did not come up is forgotten.
GiveUp_KeepsTree(result) == Answered(result) /\ UNCHANGED <<trees, excused>>

\* The adapter refused: discard_prepared.
GiveUp(result) == Answered(result) /\ cleanup_tree(op.tree, "Graceful")

\* start and resume up to the process, which may not come up.
Launch ==
    LET begun == start(config.flavor, NewSession(op.req.session.id, op.req.session.seq, op.tree),
                       op.req.input, op.req.tools)
    IN  /\ op.pc = "launch"
        /\ \/ /\ begun.ok /\ Len(sessions) < MaxSessions
              /\ sessions' = Append(sessions, begun.s)
              /\ op' = [op EXCEPT !.h = Len(sessions'),
                                  !.pc = IF begun.prelude THEN "begin" ELSE "register"]
              /\ UNCHANGED <<trees, excused>>
           \/ /\ begun.ok /\ GiveUp(Failed(op.req.session, << >>)) /\ UNCHANGED sessions
           \/ /\ ~begun.ok /\ GiveUp(Failed(NoSession, << >>)) /\ UNCHANGED sessions
        /\ UNCHANGED <<config, driving, hosting, live, spent, cancelled, ledger, history>>

Dead(h) == [sessions EXCEPT ![h].run = FALSE]

\* kill_on_drop: the tree of a process that still runs when its child is dropped.
Killed(h) == IF sessions[h].run THEN {sessions[h].tree} \cap trees ELSE {}

Frame(h) == Head(sessions[h].out)
Decoded(h) ==
    push_line(config.flavor, [sessions[h] EXCEPT !.out = Tail(@)], Frame(h))

\* One line of the prelude: until the runtime has said who it is.  A decision
\* that comes first is kept for advance.
BeginReads ==
    LET d == Decoded(op.h)
        carrying == [d.s EXCEPT !.carried = @ \o d.events,
                                !.decision = IF d.decision = NoDecision THEN @ ELSE d.decision]
    IN  /\ op.pc = "begin" /\ sessions[op.h].out # << >>
        /\ cancelled => config.flavor = "acp"
        /\ IF ~d.ok \/ (d.decision # NoDecision /\ d.s.sid = 0)
           THEN /\ sessions' = [sessions EXCEPT ![op.h] = [d.s EXCEPT !.run = FALSE]]
                /\ refused' = refused \cup Killed(op.h) /\ GiveUp(Failed(NoSession, << >>))
           ELSE /\ sessions' = [sessions EXCEPT ![op.h] = carrying]
                /\ op' = IF d.s.known \/ d.decision # NoDecision
                         THEN [op EXCEPT !.pc = "register"] ELSE op
                /\ UNCHANGED <<trees, excused, refused>>
        /\ UNCHANGED <<config, driving, hosting, live, spent, cancelled, ledger, spoiled, dropped>>

\* The prelude times out, finds the end of the stream, or finds the run
\* cancelled.  A one-shot process that resumes may end without a word.
BeginFails ==
    LET names == IF op.req.session.id = 0 THEN {NoSession}
                 ELSE {op.req.session, session_ref(sessions[op.h])}
        ended == ~sessions[op.h].run /\ sessions[op.h].out = << >>
    IN  /\ op.pc = "begin"
        /\ IF ended /\ config.flavor \in OneShot /\ sessions[op.h].sid # 0
           THEN op' = [op EXCEPT !.pc = "register"] /\ UNCHANGED <<sessions, trees, excused, refused>>
           ELSE /\ sessions' = Dead(op.h) /\ refused' = refused \cup Killed(op.h)
                /\ \E session \in names : GiveUp(Failed(session, << >>))
        /\ UNCHANGED <<config, driving, hosting, live, spent, cancelled, ledger, spoiled, dropped>>

\* The session is found again under its id.
Register ==
    /\ op.pc = "register"
    /\ live' = live \cup {op.h} /\ op' = [op EXCEPT !.pc = "advance"]
    /\ UNCHANGED <<config, driving, hosting, sessions, trees, spent, cancelled, excused, ledger, history>>

\* The handler lets go of the session; one the registry does not hold ends.
Released(s, result) ==
    /\ sessions' = [sessions EXCEPT ![op.h] =
                        IF op.h \in live \cup sweep THEN s ELSE [s EXCEPT !.run = FALSE]]
    /\ op' = [Handling(IF result.kind = "Completed" THEN "charge" ELSE "done", op.req)
                EXCEPT !.got = result]

\* Whether a process can come up where the session works.
TreeThere(s) == s.tree = 0 \/ s.tree \in trees

\* advance up to the first read: a decision that was carried over from the
\* prelude comes first, and a first prompt is not sent twice: if the future that
\* launched the process was dropped, it works on another prompt than this one.
Advance ==
    LET old == sessions[op.h]
        s == [old EXCEPT !.carried = << >>, !.first = 0, !.decision = NoDecision,
                         !.mixed = @ \/ old.first \notin {0, op.req.input.prompt}]
        ways == IF old.first # 0 THEN {Reads(s)} ELSE advance(config.flavor, s, op.req.input, TreeThere(s))
    IN  /\ op.pc = "advance"
        /\ \/ /\ old.decision # NoDecision /\ UNCHANGED spoiled
              /\ Released(s, finish(s, old.decision, old.carried))
           \/ /\ old.decision = NoDecision
              /\ \E way \in ways :
                    /\ spoiled' = spoiled \cup Spoils(s.tree, way.end)
                    /\ \/ /\ way.reads
                          /\ sessions' = [sessions EXCEPT ![op.h] = way.s]
                          /\ op' = [op EXCEPT !.pc = "read", !.got = old.carried]
                       \/ ~way.reads /\ Released(way.s, Failed(way.error, << >>))
        /\ UNCHANGED <<config, driving, hosting, live, trees, spent, cancelled, excused, ledger, refused, dropped>>

\* One line of the turn; a cancellation wins over a line that is there.
AdvanceReads ==
    LET d == Decoded(op.h)
        got == op.got \o d.events
    IN  /\ op.pc = "read" /\ ~cancelled /\ sessions[op.h].out # << >>
        /\ IF ~d.ok THEN Released(d.s, Failed(NoSession, << >>))
           ELSE IF d.decision # NoDecision THEN Released(d.s, finish(d.s, d.decision, got))
           ELSE sessions' = [sessions EXCEPT ![op.h] = d.s] /\ op' = [op EXCEPT !.got = got]
        /\ UNCHANGED <<config, driving, hosting, live, trees, spent, cancelled, excused, ledger, history>>

\* Fault: nobody counts how long the runtime has been silent.
AdvanceFails_NoTimeout ==
    /\ op.pc = "read" /\ (cancelled \/ (sessions[op.h].out = << >> /\ ~sessions[op.h].run))
    /\ Released(sessions[op.h], Failed(session_ref(sessions[op.h]), << >>))
    /\ UNCHANGED <<config, driving, hosting, live, trees, spent, cancelled, excused, ledger, history>>

\* Cancelled, silent for too long, or at the end of the stream.
AdvanceFails ==
    /\ op.pc = "read" /\ (cancelled \/ sessions[op.h].out = << >>)
    /\ Released(sessions[op.h], Failed(session_ref(sessions[op.h]), << >>))
    /\ UNCHANGED <<config, driving, hosting, live, trees, spent, cancelled, excused, ledger, history>>

\* A charge beyond the limit is not booked.
Charged(tokens) == spent + tokens <= Budget /\ spent' = spent + tokens

\* The answer is paid for, in tokens the runtime may not report.  What cannot
\* be paid is swept and reported as failed, with its observations.
Charge ==
    LET result == op.got
        found == Entry(result.session)
    IN  /\ op.pc = "charge"
        /\ \E tokens \in Costs :
              \/ /\ Charged(tokens) /\ UNCHANGED live
                 /\ op' = [op EXCEPT !.pc = "done", !.got.answer.tokens = tokens]
              \/ /\ spent + tokens > Budget /\ UNCHANGED spent
                 /\ live' = live \ found
                 /\ \/ /\ found = {} /\ Answered(Failed(result.session, result.events))
                    \/ \E h \in found :
                        op' = [op EXCEPT !.pc = "sweep", !.h = h,
                                         !.got = Failed(result.session, result.events)]
        /\ UNCHANGED <<config, driving, hosting, sessions, trees, cancelled, excused, ledger, history>>

\* ExternalSessionRegistry::cleanup, after it took the entry out.
HandlerSweeps ==
    /\ op.pc = "sweep"
    /\ \E disposition \in Endings : Close(op.h, disposition)
    /\ Answered(op.got)
    /\ UNCHANGED <<config, driving, hosting, live, spent, cancelled, ledger, refused, dropped>>

-----------------------------------------------------------------------------
(***************************************************************************)
(* The runtimes.                                                           *)
(***************************************************************************)

\* A running process writes a frame: who it is, an update, a decision about
\* the prompt it works on, or noise.  A resumed ACP session may be told its
\* history first.
RuntimeWrites(h) ==
    LET s == sessions[h]
        n == ledger.frames + 1
        f(kind) == [kind |-> kind, n |-> n, for |-> IF s.busy = << >> THEN 0 ELSE Head(s.busy),
                    sid |-> h, calls |-> << >>]
        writes(t, frame) == sessions' = [sessions EXCEPT ![h] = [t EXCEPT !.out = Append(@, frame)]]
        counted == [ledger EXCEPT !.frames = n]
    IN  /\ s.run /\ ledger.frames < config.frames + Cardinality({k \in Handles : sessions[k].told}) /\ Len(s.out) < MaxUnread
        /\ \/ ledger' = counted /\ ~s.told /\ config.flavor # "opencode" /\ writes([s EXCEPT !.told = TRUE], f("Init"))
           \/ ledger' = counted /\ s.busy # << >> /\ writes(s, f("Event"))
           \/ /\ ledger' = counted /\ config.flavor = "acp" /\ ~s.told /\ s.sid # 0
              /\ writes([s EXCEPT !.mixed = TRUE], f("Event"))
           \/ /\ ledger' = counted /\ s.busy # << >> /\ s.asks = 0
              /\ \E kind \in {"Completed", "Failed"} : writes([s EXCEPT !.busy = Tail(@)], f(kind))
           \/ /\ ledger' = counted /\ s.busy # << >> /\ s.asks = 0
              /\ \E kind \in Pauses(config.flavor) :
                    \E calls \in IF kind = "ToolCalls" THEN Batches ELSE {<< >>} :
                        writes([s EXCEPT !.asks = n], [f(kind) EXCEPT !.calls = calls])
           \/ /\ Trouble /\ ledger' = [counted EXCEPT !.troubles = @ + 1] /\ writes(s, f("Noise"))
        /\ UNCHANGED <<config, driving, hosting, op, live, trees, spent, cancelled, excused, history>>

RuntimeExits(h) ==
    /\ sessions[h].run /\ Trouble /\ Troubled
    /\ sessions' = Dead(h)
    /\ UNCHANGED <<config, driving, hosting, op, live, trees, spent, cancelled, excused, history>>

-----------------------------------------------------------------------------
(***************************************************************************)
(* The driver.                                                             *)
(***************************************************************************)

\* A run of its own for every message; pivots are refused.
UserMessage ==
    /\ ~m.inFlight /\ asked = {} /\ op = NoOp /\ ledger.prompts < MaxPrompts
    /\ \E pivot \in BOOLEAN :
        LET outcome == step(m, [pivot |-> pivot, prompt |-> ledger.prompts + 1])
        IN  Stepped(outcome) /\ asked' = outcome.reqs
    /\ ledger' = [ledger EXCEPT !.prompts = @ + 1]
    /\ spent' = 0 /\ cancelled' = FALSE
    /\ UNCHANGED <<config, hosting, op, sessions, live, trees, excused, history>>

Unanswered == {h \in live : sessions[h].busy # << >>}

\* The driver stops before a batch it has no budget for.
BudgetStops ==
    /\ asked # {} /\ op = NoOp /\ Exhausted
    /\ Stepped(interrupt_budget_exhausted(m)) /\ asked' = {}
    /\ dropped' = dropped \cup Unanswered
    /\ UNCHANGED <<config, hosting, op, sessions, live, trees, spent, cancelled, excused, ledger, spoiled, refused>>

StartHandler ==
    /\ op = NoOp
    /\ \E req \in asked :
        /\ req.kind = "ExternalSession"
        /\ asked' = asked \ {req} /\ op' = Handling("fulfill", req)
    /\ UNCHANGED <<config, m, noted, hosting, sessions, live, trees, spent, cancelled, excused, ledger, history>>

Feed(resolution, rest) ==
    LET outcome == resume(m, resolution)
    IN  Stepped(outcome) /\ asked' = IF outcome.m.inFlight THEN rest \cup outcome.reqs ELSE {}

Deliver ==
    /\ op.pc = "done"
    /\ Feed([id |-> op.req.id, kind |-> "ExternalSession", result |-> op.got], asked)
    /\ op' = NoOp
    /\ UNCHANGED <<config, hosting, sessions, live, trees, spent, cancelled, excused, ledger, history>>

\* Tools, subagents and the user answer, well or badly.
Resolve ==
    /\ op = NoOp
    /\ \E req \in asked, result \in {"ok", "error"} :
        /\ req.kind # "ExternalSession"
        /\ Feed([id |-> req.id, kind |-> req.kind, result |-> result], asked \ {req})
    /\ UNCHANGED <<config, hosting, op, sessions, live, trees, spent, cancelled, excused, ledger, history>>

\* An answer nobody asked for any more.
LateAnswer ==
    /\ op = NoOp /\ Trouble /\ Troubled
    /\ \E id \in 1..(m.nextId - 1), kind \in {"Interaction", "Tool", "Subagent"} :
        /\ \A req \in asked : req.id # id
        /\ Feed([id |-> id, kind |-> kind, result |-> "ok"], asked)
    /\ UNCHANGED <<config, hosting, op, sessions, live, trees, spent, cancelled, excused, history>>

Cancel ==
    /\ m.inFlight /\ ~cancelled /\ Trouble /\ Troubled
    /\ cancelled' = TRUE
    /\ UNCHANGED <<config, driving, hosting, op, sessions, live, trees, spent, excused, history>>

\* The driver drops the handler's future wherever it stands and abandons what
\* is outstanding.  A session only the future held ends with it, and nobody
\* removes the tree made for it.
Abandon ==
    LET held == {h \in Handles : op.pc \in {"begin", "register", "sweep", "advance", "read"} /\ op.h = h}
    IN  /\ cancelled /\ m.inFlight
        /\ Stepped(abandon(m)) /\ asked' = {} /\ op' = NoOp
        /\ sessions' = [h \in Handles |-> IF h \in held \ (live \cup sweep)
                                          THEN [sessions[h] EXCEPT !.run = FALSE] ELSE sessions[h]]
        /\ excused' = excused \cup (IF op.pc = "launch" THEN {op.tree}
                                    ELSE {sessions[h].tree : h \in held \ (live \cup sweep)})
        /\ dropped' = dropped \cup Unanswered
        /\ UNCHANGED <<config, hosting, live, trees, spent, cancelled, ledger, spoiled, refused>>

-----------------------------------------------------------------------------
(***************************************************************************)
(* The host.                                                               *)
(***************************************************************************)

\* Tokens of others who share the budget.
OthersSpend ==
    /\ m.inFlight /\ spent < Budget /\ Trouble /\ Troubled
    /\ spent' = Budget
    /\ UNCHANGED <<config, driving, hosting, op, sessions, live, trees, cancelled, excused, history>>

Reconfigure ==
    /\ Trouble /\ Troubled
    /\ \E tools \in ToolSets, hot \in BOOLEAN : m' = reconfigure(m, tools, hot)
    /\ UNCHANGED <<config, asked, noted, hosting, op, sessions, live, trees, spent, cancelled, excused, history>>

\* cleanup_agent takes all entries out at once, and closes them one by one.
HostSweeps ==
    /\ live # {} /\ Trouble /\ Troubled
    /\ live' = {} /\ sweep' = sweep \cup live
    /\ UNCHANGED <<config, driving, saved, op, sessions, trees, spent, cancelled, excused, history>>

\* The host waits for the lock.
HostCloses(h) ==
    /\ h \in sweep /\ ~Locked(h)
    /\ \E disposition \in Endings : Close(h, disposition)
    /\ sweep' = sweep \ {h}
    /\ UNCHANGED <<config, driving, saved, op, live, spent, cancelled, ledger, refused, dropped>>

\* clear_cleanup_required, once everything is swept.
HostClears ==
    /\ m.cleanup /\ live = {} /\ sweep = {}
    /\ m' = [m EXCEPT !.cleanup = FALSE]
    /\ UNCHANGED <<config, asked, noted, hosting, op, sessions, live, trees, spent, cancelled, excused, ledger, history>>

Save ==
    /\ CanSave(m) /\ saved # m /\ Trouble
    /\ saved' = m
    /\ UNCHANGED <<config, driving, sweep, op, sessions, live, trees, spent, cancelled, excused, ledger, history>>

\* The host's process ends, and the runtimes with it; what was saved is all there is.
Restart ==
    /\ Trouble /\ Troubled
    /\ m' = [from_record(saved) EXCEPT !.nextId = m.nextId]
    /\ asked' = {} /\ op' = NoOp /\ live' = {} /\ sweep' = {}
    /\ sessions' = [h \in Handles |-> [sessions[h] EXCEPT !.run = FALSE]]
    /\ excused' = excused \cup trees
    /\ UNCHANGED <<config, noted, saved, trees, spent, cancelled, history>>

-----------------------------------------------------------------------------
Handler ==
    \/ Fulfill \/ Prepare \/ Launch \/ BeginReads \/ BeginFails \/ Register
    \/ Advance \/ AdvanceReads \/ AdvanceFails \/ Charge \/ HandlerSweeps

Driver ==
    \/ UserMessage \/ BudgetStops \/ StartHandler \/ Deliver \/ Resolve \/ LateAnswer
    \/ Cancel \/ Abandon

Runtime == \E h \in Handles : RuntimeWrites(h) \/ RuntimeExits(h)

Host ==
    \/ OthersSpend \/ Reconfigure \/ HostSweeps \/ (\E h \in sweep : HostCloses(h)) \/ HostClears
    \/ Save \/ Restart

Next == Handler \/ Driver \/ Runtime \/ Host

\* The handler has a timeout for everything it waits for; the driver polls the
\* handler and feeds what it gets; tools, subagents and users answer in the end.
Fairness == WF_vars(Handler \/ StartHandler \/ Deliver \/ Resolve)

Spec == Init /\ [][Next]_vars /\ Fairness

-----------------------------------------------------------------------------
(***************************************************************************)
(* Properties.                                                             *)
(***************************************************************************)

\* The cursor, the turn and the pending batch tell the same story, and what the
\* cursor waits for is under way: exactly the one session request, or the
\* unanswered calls of the batch (machine.rs, settle and resume_tool).
WaitsForWhatIsAsked ==
    /\ m.inFlight <=> has_outstanding_requirement(m)
    /\ m.inFlight <=> m.turn # 0
    /\ m.cursor.at = "AwaitingTool" <=> m.batch # NoBatch
    /\ LET under == {r.id : r \in asked} \cup (IF op = NoOp THEN {} ELSE {op.req.id})
           open == {r \in DOMAIN m.batch.pending : m.batch.pending[r] \notin DOMAIN m.batch.results}
       IN  under = CASE m.cursor.at = "AwaitingTool" -> open
                     [] m.inFlight /\ m.cursor.at # "AwaitingTool" -> {m.cursor.req}
                     [] OTHER -> {}

\* Nothing a runtime did is notified twice or out of order, and nothing new is
\* taken for a repetition, however often the session is resumed, swept or
\* restored from an old state (observe, with_resume_high_water).
NotifiedOnceInOrder ==
    /\ noted.ordered
    /\ op.pc = "done" => \A e \in Range(op.got.events) : e.seq > m.session.seq

\* An answer goes to the session that asked, or to a new process of it that has
\* asked nothing, but never to another question; a batch is answered call by
\* call, in order (respond_with_tool_batch, resume_interaction).
AnswerFitsItsQuestion ==
    op.pc = "advance" /\ op.req.input.kind \notin {"Start", "Continue"} =>
        /\ sessions[op.h].asks \in {0, op.req.input.asks}
        /\ \A i \in DOMAIN op.req.input.results : op.req.input.results[i][1] = i

\* A committed answer is made of text about its own prompt, if the session owed
\* nothing when the prompt was sent.  (A session that is not swept after a
\* failed or abandoned turn does owe something: see the README.)
AnswersItsPrompt ==
    \A i \in DOMAIN m.committed :
        m.committed[i].answer.sure => m.committed[i].answer.of \subseteq {m.committed[i].turn}

\* No answer is committed that the budget did not cover.
OverBudgetNeverCommitted == \A i \in DOMAIN m.committed : m.committed[i].answer.tokens <= Budget

\* A live session whose turn was abandoned or stopped for its budget is marked
\* for the host to sweep, even one the machine never learned the name of.
TakenTurnsAreOwedASweep == dropped \cap live # {} => m.cleanup

\* An ephemeral worktree nobody holds any more was left on purpose: its session
\* did not end cleanly, git could not remove it, or the future that held it was
\* dropped (registry.rs, discard_prepared and sweep_worktree).
NoTreeForgotten ==
    \A t \in trees \ excused :
        \/ \E h \in live \cup sweep : sessions[h].tree = t
        \/ op.pc \in {"launch", "begin", "register", "sweep"}
             /\ (op.tree = t \/ (op.h # 0 /\ sessions[op.h].tree = t))

\* Of a session that came up: the worktree stays once one of its processes was
\* ended by force or failed, between two turns or when it was closed, however
\* cleanly the last one ended (note_close, worst_close, sweep_worktree).
SpoiledTreesStay == spoiled \subseteq trees

\* "An ephemeral worktree is removed only when the session closed without
\* residual side effects" (registry.rs), be it a session that came up or one
\* whose process was launched and killed in its prelude.  The code removes the
\* tree of the latter as if no runtime had run in it (discard_prepared).
KilledProcessKeepsItsTree == spoiled \cup refused \subseteq trees

\* Every turn ends, in an answer, an error or an abandonment.
TurnEnds == m.inFlight ~> ~m.inFlight

\* Machine, handler and runtime agree on what is asked and what is answered, and
\* what becomes part of the conversation is an answer to its own prompt, paid for.
TurnInv ==
    /\ TypeOK
    /\ WaitsForWhatIsAsked /\ AnswerFitsItsQuestion
    /\ AnswersItsPrompt /\ OverBudgetNeverCommitted

\* What is left of sessions: a process that runs on is owed a sweep, a worktree
\* stays only if somebody holds it or for a reason, and the one a session soiled
\* after it had come up does stay.
CleanupInv == TakenTurnsAreOwedASweep /\ NoTreeForgotten /\ SpoiledTreesStay
=============================================================================
