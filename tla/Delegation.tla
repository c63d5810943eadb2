----------------------------- MODULE Delegation -----------------------------
(***************************************************************************)
(* Handing work to delegates.                                              *)
(*                                                                         *)
(* Three ways lead to a delegate of the facade Agent: the model calls its  *)
(* tool in a turn, a rule routes the whole task to it, or the dispatcher   *)
(* runs a worker, a verifier and, on a rejection, a stronger worker        *)
(* (src/src/facade/agent/dispatch.rs, delegate/handler.rs, approval.rs,    *)
(* external/delegate.rs).  A fourth way is a host that uses Dispatcher and *)
(* Escalator itself (src/src/agent/external/dispatch.rs, escalation.rs).   *)
(*                                                                         *)
(* A delegate is local, and runs as a subagent, or external, and runs a    *)
(* session of a process.  An external start is subject to approval, which  *)
(* may have to wait for a person; a session that does not end committed is *)
(* swept in the background.  What a delegate does is reduced to how it     *)
(* ends.                                                                   *)
(*                                                                         *)
(* Operators under a comment "Fault:" are not part of the model; each is a *)
(* plausible mistake in the operator that follows it.                      *)
(***************************************************************************)
EXTENDS WorkerDispatch, Sequences

CONSTANTS
    Workers,      \* names of registered delegates, as numbers
    External,     \* those that are managed external agents
    Primary, Verifier, Strong,  \* DispatcherConfig; Verifier and Strong may be Nobody
    MaxAttempts,  \* DispatcherConfig.max_attempts
    Modes,        \* the ways that are considered
    AgentPolicies,  \* the approval policies that are considered
    Rosters,      \* rosters of a host
    HostTasks,    \* tasks of a host
    StepLimit,    \* BudgetLimits.max_steps of a host's context
    Headroom,     \* min_budget_headroom_percent of Dispatcher and Escalator
    MaxRuns,      \* bound: runs of the agent
    MaxCalls      \* bound: delegations the model asks for in a turn

ASSUME WorkersAssumption ==
    /\ Workers \subseteq Nat \ {0}
    /\ External \subseteq Workers
    /\ Primary \in Workers /\ {Verifier, Strong} \subseteq Workers \cup {Nobody}
ASSUME ModesAssumption == Modes \subseteq {"model", "rules", "dispatcher", "host"}
ASSUME RostersAssumption ==
    \A r \in Rosters : r \in [DOMAIN r -> Profiles(Nat)] /\ DOMAIN r \subseteq Nat \ {Nobody}
ASSUME LimitsAssumption ==
    /\ MaxAttempts \in Nat \ {0} /\ StepLimit \in Nat \ {0}
    /\ Headroom \in 0..100 /\ MaxRuns \in Nat \ {0} /\ MaxCalls \in Nat

VARIABLES
    plan,       \* how the agent is built: mode, approval policy, hooks, roster, task
    run,        \* runs so far, whether one is active or streamed, its cancel token, its result
    job,        \* the delegation in progress
    recorder,   \* DelegationRecorder: what has ended in this run, in order
    retained,   \* last_external_sessions: the drive whose facts are kept
    sessions,   \* external drives: opened, committed, swept, and left by a drop
    used,       \* steps charged to a host's budget
    grants,     \* history: how external starts were allowed
    before      \* history: what was retained when the last run began

Tiers4 == {"AutoAllow", "AutoDeny", "AskHandler", "AskDefault"}

Policies ==
    [own: Tiers4 \cup {"none"}, default: Tiers4, askExternal: BOOLEAN, parent: BOOLEAN]

ASSUME PoliciesAssumption == AgentPolicies \subseteq Policies

delegationVars == <<plan, run, job, recorder, retained, sessions, used, grants, before>>

NoJob == [who |-> Nobody, role |-> "none", st |-> "none", drive |-> 0, attempt |-> 0,
          prev |-> Nobody, why |-> "none"]

DelegationTypeOK ==
    /\ plan.mode \in Modes /\ plan.policy \in Policies
    /\ run.n \in 0..MaxRuns
    /\ {run.active, run.streamed, run.cancelled} \subseteq BOOLEAN
    /\ job.st \in {"none", "between", "choose", "start", "asking", "running", "rejected"}
    /\ job.attempt \in 0..MaxAttempts
    /\ retained \in [External -> {0} \cup sessions.opened]
    /\ sessions.swept \subseteq sessions.opened /\ sessions.committed \subseteq sessions.opened
    /\ used \in 0..StepLimit

NoPolicy == [own |-> "none", default |-> "AutoAllow", askExternal |-> FALSE, parent |-> FALSE]

DelegationInit ==
    /\ plan \in
         [mode: Modes \ {"host"}, policy: AgentPolicies, evaluator: BOOLEAN, verifier: BOOLEAN,
          roster: {<< >>}, task: {"none"}]
         \cup [mode: Modes \cap {"host"}, policy: {NoPolicy}, evaluator: {TRUE},
               verifier: {TRUE}, roster: Rosters, task: HostTasks]
    /\ plan.mode \in {"model", "rules"} => ~ plan.evaluator /\ ~ plan.verifier
    /\ run = [n |-> 0, active |-> FALSE, streamed |-> FALSE, cancelled |-> FALSE, result |-> "none"]
    /\ job = NoJob
    /\ recorder = << >>
    /\ retained = [w \in External |-> 0]
    /\ sessions = [opened |-> {}, committed |-> {}, swept |-> {}, left |-> {}]
    /\ used = 0 /\ grants = {}
    /\ before = retained

-----------------------------------------------------------------------------
(***************************************************************************)
(* FacadeApproval.  A tool's own tier (an override or per_tool) comes      *)
(* first; an Ask without a handler takes the handler of the default tier.  *)
(***************************************************************************)
Explicit == plan.policy.own # "none"

\* The answers: a handler may say either.
decide_ask_deferred == IF plan.policy.default = "AskHandler" THEN {TRUE, FALSE} ELSE {FALSE}

decide_tier(tier) ==
    CASE tier = "AutoAllow" -> {TRUE}
      [] tier = "AutoDeny" -> {FALSE}
      [] tier = "AskHandler" -> {TRUE, FALSE}
      [] tier = "AskDefault" -> decide_ask_deferred

\* Fault: ask_external_agents goes before the delegate's own tier.
resolve_external_start_AskFirst ==
    IF plan.policy.askExternal THEN decide_ask_deferred
    ELSE decide_tier(IF Explicit THEN plan.policy.own ELSE plan.policy.default)

resolve_external_start ==
    IF Explicit THEN decide_tier(plan.policy.own)
    ELSE IF plan.policy.askExternal THEN decide_ask_deferred
    ELSE decide_tier(plan.policy.default)

IsAsk(tier) == tier \in {"AskHandler", "AskDefault"}

external_start_requires_ask ==
    IF Explicit THEN IsAsk(plan.policy.own)
    ELSE plan.policy.askExternal \/ IsAsk(plan.policy.default)

\* The select is biased: a cancelled run denies.
ParentSays == IF run.cancelled THEN {FALSE} ELSE {TRUE, FALSE}

-----------------------------------------------------------------------------
(***************************************************************************)
(* The end of a run of the agent.                                          *)
(***************************************************************************)

\* The drives of delegate w among records.
DrivesOf(recs, w) == {recs[i].drive : i \in {j \in DOMAIN recs : recs[j].who = w}} \ {0}

Kept(rec) == rec.who \in External

RecordsOf(recs, w) == {i \in DOMAIN recs : recs[i].who = w /\ Kept(recs[i])}

\* Fault: facts of a delegate that are there already are not replaced.
RetainedInOrder_FirstWins(recs) ==
    [w \in External |->
        IF RecordsOf(recs, w) = {} THEN retained[w]
        ELSE recs[CHOOSE i \in RecordsOf(recs, w) : \A j \in RecordsOf(recs, w) : i <= j].drive]

\* run_rules_routed and run_dispatcher_routed keep the records in their order.
RetainedInOrder(recs) ==
    [w \in External |->
        IF RecordsOf(recs, w) = {} THEN retained[w]
        ELSE recs[CHOOSE i \in RecordsOf(recs, w) : \A j \in RecordsOf(recs, w) : j <= i].drive]

\* collect_traces goes through a HashMap keyed by call id: of several records
\* of one delegate any may be written last.
RetainedInAnyOrder(recs) ==
    {f \in [External -> {retained[w] : w \in External} \cup {recs[i].drive : i \in DOMAIN recs}] :
        \A w \in External :
            f[w] \in IF RecordsOf(recs, w) = {} THEN {retained[w]}
                     ELSE {recs[i].drive : i \in RecordsOf(recs, w)}}

\* Fault: a routed run keeps the facts before it returns the error.
FactsAreKept_OnError(result) ==
    ~ run.streamed /\ IF plan.mode = "model" THEN result # "Failed" ELSE result # "Denied"

\* run_full keeps them once the drive itself has not failed, also of a turn
\* that was cancelled or denied; a routed run returns early with any error;
\* a streamed run keeps none.
FactsAreKept(result) ==
    ~ run.streamed /\ IF plan.mode = "model" THEN result # "Failed" ELSE result = "ok"

ReturnBecause(result, recs, why) ==
    /\ run' = [run EXCEPT !.active = FALSE, !.result = result]
    /\ job' = [NoJob EXCEPT !.why = why, !.prev = job.who]
    /\ recorder' = recs
    /\ retained' \in IF ~ FactsAreKept(result) THEN {retained}
                     ELSE IF plan.mode = "model" THEN RetainedInAnyOrder(recs)
                     ELSE {RetainedInOrder(recs)}
    /\ UNCHANGED before

Return(result, recs) == ReturnBecause(result, recs, "none")

GoesOn(j, recs) ==
    /\ job' = j
    /\ recorder' = recs
    /\ UNCHANGED <<run, retained, before>>

-----------------------------------------------------------------------------
(***************************************************************************)
(* The dispatcher.                                                         *)
(***************************************************************************)

\* The primary is registered last: it wins when both names are the same.
build_dispatcher_roster ==
    [w \in {Primary, Strong} |->
        [capable |-> TRUE, tier |-> IF w = Primary THEN 1 ELSE 3,
         on |-> IF w = Primary THEN Upward ELSE {},
         to |-> IF w = Primary THEN Strong ELSE Nobody, human |-> FALSE]]

dispatcher_task_descriptor ==
    [impact |-> 0, risk |-> 0, uncertainty |-> "Clear", preference |-> "Balanced"]

\* The next worker, with why there is none; an injected evaluator may name
\* any registered delegate but the current one.
EscalationTargets ==
    IF Strong = Nobody THEN {Choice("Exhausted", Nobody)}
    ELSE IF plan.evaluator
    THEN {Choice("Escalation", w) : w \in {Primary, Strong, Verifier} \ {job.who, Nobody}}
         \cup {Choice("Evaluator", Nobody)}
    ELSE {assess(dispatcher_task_descriptor, build_dispatcher_roster, job.who,
                 {"ReviewRejected"}, "none", FALSE, run.cancelled)}

LastAttempt == job.attempt = MaxAttempts

\* The attempt was rejected.
Escalate ==
    /\ job.st = "rejected"
    /\ IF LastAttempt
       THEN Return("ok", recorder)
       ELSE \E c \in EscalationTargets :
             CASE c.outcome = "Error" -> Return("Err", recorder)
               [] c.worker = Nobody /\ c.outcome # "Error" ->
                    ReturnBecause("ok", recorder, c.outcome)
               [] OTHER ->
                    GoesOn([NoJob EXCEPT !.who = c.worker, !.role = "worker", !.st = "start",
                                         !.attempt = job.attempt + 1], recorder)
    /\ UNCHANGED <<plan, sessions, used, grants>>

Rejected(who, recs) ==
    GoesOn([NoJob EXCEPT !.who = who, !.role = "worker", !.st = "rejected",
                         !.attempt = job.attempt], recs)

\* The verdicts of the injected verifier; without one there is no rejection.
InjectedVerdicts == IF plan.verifier THEN {TRUE, FALSE} ELSE {FALSE}

\* A worker's record, or the verifier's.
Judged(rec, recs) ==
    IF rec.denied THEN Return("Denied", recs)
    ELSE IF job.role = "worker" /\ rec.status = "Failed" THEN Rejected(job.who, recs)
    ELSE IF job.role = "worker" /\ Verifier # Nobody
    THEN GoesOn([NoJob EXCEPT !.who = Verifier, !.role = "verifier", !.st = "start",
                              !.attempt = job.attempt, !.prev = job.who], recs)
    ELSE LET worker == IF job.role = "verifier" THEN job.prev ELSE job.who
             own == IF job.role = "worker" THEN {FALSE}
                    ELSE IF rec.status = "Failed" THEN {TRUE} ELSE {TRUE, FALSE}
         IN  \E no \in own, also \in InjectedVerdicts :
                IF no \/ also THEN Rejected(worker, recs) ELSE Return("ok", recs)

-----------------------------------------------------------------------------
(***************************************************************************)
(* One delegation.                                                         *)
(***************************************************************************)
AgentRuns == run.active /\ plan.mode # "host"

Record(status, denied, drive) ==
    [who |-> job.who, status |-> status, denied |-> denied, drive |-> drive]

\* What a record means for the run that asked for the delegation.
Ended(rec) ==
    LET recs == Append(recorder, rec)
    IN  CASE plan.mode = "model" -> GoesOn([NoJob EXCEPT !.st = "between"], recs)
          [] plan.mode = "rules" -> Return(IF rec.denied THEN "Denied" ELSE "ok", recs)
          [] plan.mode = "dispatcher" -> Judged(rec, recs)

\* A start of the agent: clear of the earlier run.
Begin ==
    /\ ~ run.active /\ run.n < MaxRuns /\ plan.mode # "host"
    /\ \E streamed \in BOOLEAN :
        run' = [n |-> run.n + 1, active |-> TRUE, streamed |-> streamed, cancelled |-> FALSE,
                result |-> "none"]
    /\ recorder' = << >>
    /\ job' = CASE plan.mode = "model" -> [NoJob EXCEPT !.st = "between"]
                [] plan.mode = "rules" -> [NoJob EXCEPT !.st = "choose"]
                [] plan.mode = "dispatcher" ->
                     [NoJob EXCEPT !.who = Primary, !.role = "worker", !.st = "start", !.attempt = 1]
    /\ before' = retained
    /\ UNCHANGED <<plan, retained, sessions, used, grants>>

\* The model calls a delegate, or the first matching rule names one.
Call ==
    /\ AgentRuns
    /\ \/ job.st = "between" /\ Len(recorder) < MaxCalls /\ ~ run.cancelled
       \/ job.st = "choose"
    /\ \E w \in Workers :
        job' = [NoJob EXCEPT !.who = w, !.role = "worker", !.st = "start"]
    /\ UNCHANGED <<plan, run, recorder, retained, sessions, used, grants, before>>

\* The turn of the model comes to its end, or the drive fails.
FinishTurn ==
    /\ AgentRuns /\ job.st = "between"
    /\ LET denied == \E i \in DOMAIN recorder : recorder[i].denied
       IN  \/ Return(IF denied THEN "Denied" ELSE IF run.cancelled THEN "Err" ELSE "ok", recorder)
          \/ Return("Failed", recorder)
    /\ UNCHANGED <<plan, sessions, used, grants>>

NewDrive == Cardinality(sessions.opened) + 1

Open(by) ==
    /\ GoesOn([job EXCEPT !.st = "running", !.drive = NewDrive], recorder)
    /\ sessions' = [sessions EXCEPT !.opened = @ \cup {NewDrive}]
    /\ grants' = grants \cup {[by |-> by, cancelled |-> run.cancelled]}
    /\ UNCHANGED <<plan, used>>

Deny ==
    /\ Ended(Record("Failed", TRUE, 0))
    /\ UNCHANGED <<plan, sessions, used, grants>>

\* drive_delegation: a child is spawned at once.
StartLocal ==
    /\ AgentRuns /\ job.st = "start" /\ job.who \notin External
    /\ GoesOn([job EXCEPT !.st = "running"], recorder)
    /\ UNCHANGED <<plan, sessions, used, grants>>

\* drive_external_delegation: a person is asked, or the policy decides.
StartExternal ==
    /\ AgentRuns /\ job.st = "start" /\ job.who \in External
    /\ IF external_start_requires_ask /\ plan.policy.parent
       THEN /\ GoesOn([job EXCEPT !.st = "asking"], recorder)
            /\ UNCHANGED <<plan, sessions, used, grants>>
       ELSE \/ TRUE \in resolve_external_start
               /\ Open(IF FALSE \in resolve_external_start THEN "asked" ELSE "policy")
            \/ FALSE \in resolve_external_start /\ Deny

\* resolve_external_start_with_parent.
Answer ==
    /\ AgentRuns /\ job.st = "asking"
    /\ \/ TRUE \in ParentSays /\ Open("asked")
       \/ FALSE \in ParentSays /\ Deny

\* Fault: only an abandoned drive is swept, not one that failed.
Swept_AbandonedOnly(end) == end = "abandoned"

\* A drive that did not commit its session is swept.
Swept(end) == end # "committed"

\* A local child's drain ends normally also on an Error cursor and when it is
\* cancelled; only its own failure is one.
LocalEnds ==
    /\ AgentRuns /\ job.st = "running" /\ job.who \notin External
    /\ \E status \in {"Completed", "Failed"} : Ended(Record(status, FALSE, 0))
    /\ UNCHANGED <<plan, sessions, used, grants>>

\* An external drive has completed when its cursor is Done.
ExternalEnds ==
    /\ AgentRuns /\ job.st = "running" /\ job.who \in External
    /\ \E end \in {"committed", "abandoned", "error"} :
        /\ run.cancelled => end # "committed"
        /\ Ended(Record(IF end = "committed" THEN "Completed" ELSE "Failed", FALSE, job.drive))
        /\ sessions' =
             [sessions EXCEPT
               !.committed = IF end = "committed" THEN @ \cup {job.drive} ELSE @,
               !.swept = IF Swept(end) THEN @ \cup {job.drive} ELSE @]
    /\ UNCHANGED <<plan, used, grants>>

Cancel ==
    /\ run.active /\ ~ run.cancelled
    /\ run' = [run EXCEPT !.cancelled = TRUE]
    /\ UNCHANGED <<plan, job, recorder, retained, sessions, used, grants, before>>

\* The caller drops the future of the run, or the grace of a cancelled batch
\* ends: a session in progress is left to its registry.
Drop ==
    /\ AgentRuns
    /\ run' = [run EXCEPT !.active = FALSE, !.result = "Dropped"]
    /\ job' = NoJob
    /\ sessions' = [sessions EXCEPT !.left = IF job.st = "running" THEN @ \cup ({job.drive} \ {0})
                                             ELSE @]
    /\ UNCHANGED <<plan, recorder, retained, used, grants, before>>

-----------------------------------------------------------------------------
(***************************************************************************)
(* A host that dispatches a task and escalates on its workers' reports.    *)
(***************************************************************************)
Low == budget_is_low(StepLimit, used, Headroom)

HostSettled(outcome) ==
    /\ run' = [run EXCEPT !.active = FALSE, !.result = outcome]
    /\ job' = [job EXCEPT !.st = "none", !.why = outcome]

HostAssigned(c, st) ==
    /\ job' = [job EXCEPT !.prev = job.who, !.who = c.worker, !.why = c.outcome, !.st = st]
    /\ UNCHANGED run

HostBegin ==
    /\ plan.mode = "host" /\ ~ run.active /\ run.n = 0
    /\ run' = [run EXCEPT !.n = 1, !.active = TRUE]
    /\ job' = [NoJob EXCEPT !.st = "choose"]
    /\ UNCHANGED <<plan, recorder, retained, sessions, used, grants, before>>

HostDispatch ==
    /\ plan.mode = "host" /\ run.active /\ job.st = "choose"
    /\ \E says \in DOMAIN plan.roster \cup {Nobody} :
        LET c == dispatch(plan.task, plan.roster, StepLimit, used, Headroom, run.cancelled, says)
        IN  IF c.outcome = "Error" THEN HostSettled("Error") ELSE HostAssigned(c, "running")
    /\ used' = IF AsksEvaluator(plan.task, plan.roster, StepLimit, used, Headroom, run.cancelled)
               THEN used + 1 ELSE used
    /\ UNCHANGED <<plan, recorder, retained, sessions, grants, before>>

\* A worker reports, having charged steps or not, and the verifier looks at
\* the report.
HostReport ==
    /\ plan.mode = "host" /\ run.active /\ job.st = "running"
    /\ \E charged \in {0, 1}, report \in {{}} \cup {{t} : t \in Triggers},
          verdict \in {"none", "ReviewRejected"} :
        LET now == IF used + charged > StepLimit THEN used ELSE used + charged
            c == assess(plan.task, plan.roster, job.who, report, verdict,
                        budget_is_low(StepLimit, now, Headroom), run.cancelled)
            down == \/ budget_is_low(StepLimit, now, Headroom)
                    \/ "BudgetExhausted" \in effective_triggers(plan.task, report, verdict)
        IN  /\ used' = now
            /\ IF c.outcome \in {"Escalation", "BudgetDowngrade"}
               THEN HostAssigned(c, "running")
               ELSE HostSettled(IF c.outcome = "Human" /\ down THEN "HumanForBudget"
                                ELSE c.outcome)
    /\ UNCHANGED <<plan, recorder, retained, sessions, grants, before>>

DelegationNext ==
    \/ Begin \/ Call \/ FinishTurn \/ StartLocal \/ StartExternal \/ Answer
    \/ LocalEnds \/ ExternalEnds \/ Escalate
    \/ Cancel \/ Drop
    \/ HostBegin \/ HostDispatch \/ HostReport

DelegationSpec == DelegationInit /\ [][DelegationNext]_delegationVars

\* The host keeps working on its task.
FairDelegationSpec ==
    /\ DelegationSpec
    /\ WF_delegationVars(HostBegin) /\ WF_delegationVars(HostDispatch \/ HostReport)

-----------------------------------------------------------------------------
(***************************************************************************)
(* Properties.                                                             *)
(***************************************************************************)

\* An external agent is started only on the authority the policy names: its
\* own tier before ask_external_agents before the default, a yes of a person
\* where that says ask, and never on a yes that a cancelled run got.
ExternalStartIsAuthorised ==
    \A g \in grants :
        /\ plan.policy.own # "AutoDeny"
        /\ g.by = "policy" =>
            IF Explicit THEN plan.policy.own = "AutoAllow"
            ELSE ~ plan.policy.askExternal /\ plan.policy.default = "AutoAllow"
        /\ g.by = "asked" => ~ g.cancelled \/ ~ plan.policy.parent

\* No session of an ended delegation is left running unless it is committed:
\* failed, denied and cancelled drives are swept.  A drop of the run leaves
\* its session to the registry.
EndedSessionIsSwept ==
    job.st # "running" =>
        sessions.opened \subseteq sessions.committed \cup sessions.swept \cup sessions.left

\* What is kept of an external delegate is the last drive of the last run that
\* drove it and kept anything: a routed task's newest drive, however often the
\* dispatcher came back to the delegate; one of the turn's drives when the model
\* called it several times, or nothing after a denial.  A run that was dropped
\* or streamed, whose drive failed, or a routed one with an error, leaves what
\* was kept before it.
RetainedIsOfLastRun ==
    ~ run.active =>
        \A w \in External :
            LET own == DrivesOf(recorder, w)
                denied == \E i \in DOMAIN recorder : recorder[i].who = w /\ recorder[i].denied
            IN  IF \/ run.streamed \/ run.result \in {"none", "Dropped", "Failed"}
                   \/ plan.mode # "model" /\ run.result \in {"Denied", "Err"}
                   \/ own = {} /\ ~ denied
                THEN retained[w] = before[w]
                ELSE IF plan.mode = "model"
                THEN retained[w] \in own \cup (IF denied THEN {0} ELSE {})
                ELSE retained[w] \in own /\ \A d \in own : d <= retained[w]

\* The stronger form for turns of the model, as RetainedExternalSession says it
\* (collect_traces does not keep it).
LastDriveIsRetained ==
    ~ run.active /\ ~ run.streamed /\ run.result = "ok" =>
        \A w \in External : \A d \in DrivesOf(recorder, w) : d <= retained[w]

\* The dispatcher never gives up on a rejected worker while another, stronger
\* one is registered, unless an injected evaluator says so.
PrimaryIsEscalated ==
    ~ run.active /\ run.result = "ok" /\ job.why = "Exhausted" =>
        Strong \in {Nobody, Primary} \/ job.prev # Primary

\* A task of a host is given to nobody, or to a person, only when no able
\* worker of a higher tier is left, or when the budget forbids it.
NoStrongerWorkerLeft ==
    plan.mode = "host" /\ run.result \in {"Human", "Exhausted"} =>
        \A w \in Capable(plan.roster) : plan.roster[w].tier <= plan.roster[job.who].tier

\* A host's task is not passed around for ever, whatever the workers report,
\* unless they go on to report an exhausted budget that the context still
\* has and, in turn, failures: assess keeps no memory, so an upgrade undoes a
\* downgrade.
TaskIsSettled ==
    \/ <>(plan.mode # "host" \/ run.result # "none")
    \/ []<>(job.why = "BudgetDowngrade") /\ []<>(job.why = "Escalation")

\* Every session an external delegate opened is accounted for: committed and
\* kept for the next run, swept, or left to the registry by a drop.
SessionInv == DelegationTypeOK /\ EndedSessionIsSwept /\ RetainedIsOfLastRun

\* Neither a facade's dispatcher nor a host gives up too early.
StrongestWorkerIsTried == PrimaryIsEscalated /\ NoStrongerWorkerLeft
=============================================================================
