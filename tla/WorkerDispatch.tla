--------------------------- MODULE WorkerDispatch ---------------------------
(***************************************************************************)
(* Choosing a worker for a task and escalating from one to the next        *)
(* (src/src/agent/external/profile.rs, dispatch.rs and escalation.rs), as  *)
(* functions.  Delegation is the state machine that uses them.             *)
(*                                                                         *)
(* Workers are numbers: their order is the order of the profile ids, which *)
(* breaks ties.  A roster maps each worker to its profile; the profile     *)
(* says whether the worker has the capability of the task at hand.         *)
(*                                                                         *)
(* Operators under a comment "Fault:" are not part of the model; each is a *)
(* plausible mistake in the operator that follows it.                      *)
(***************************************************************************)
EXTENDS Naturals, FiniteSets

Tiers == 1..3     \* Cheap, Standard, Premium

\* BudgetExhausted stands apart: it never leads upwards.
Upward == {"ReviewRejected", "TestFailure", "Timeout", "LowConfidence"}
Triggers == Upward \cup {"BudgetExhausted"}

Nobody == 0

\* WorkerProfile with its EscalationRules.
Profiles(workers) ==
    [capable: BOOLEAN, tier: Tiers, on: SUBSET Triggers,
     to: workers \cup {Nobody}, human: BOOLEAN]

\* TaskDescriptor: impact SingleFile..Architectural as 0..3, risk Low..Critical
\* as 0..3.
Tasks ==
    [impact: 0..3, risk: 0..3, uncertainty: {"Clear", "Exploratory", "Ambiguous"},
     preference: {"Balanced", "CostFirst", "SpeedFirst", "QualityFirst"}]

-----------------------------------------------------------------------------
(***************************************************************************)
(* WorkerRoster.                                                           *)
(***************************************************************************)
Capable(r) == {w \in DOMAIN r : r[w].capable}

LeastId(ws) == IF ws = {} THEN Nobody ELSE CHOOSE w \in ws : \A v \in ws : w <= v

cheapest_capable(r) ==
    LeastId({w \in Capable(r) : \A v \in Capable(r) : r[w].tier <= r[v].tier})

strongest_capable(r) ==
    LeastId({w \in Capable(r) : \A v \in Capable(r) : r[v].tier <= r[w].tier})

-----------------------------------------------------------------------------
(***************************************************************************)
(* Dispatcher and RuleRouter.                                              *)
(***************************************************************************)

\* An obvious task has a worker; the others are for the evaluator.
route(t, r) ==
    LET heavy == \/ t.impact = 3
                 \/ t.risk >= 2
                 \/ t.preference = "QualityFirst" /\ t.impact >= 2
        light == \/ t.uncertainty = "Clear" /\ t.risk = 0 /\ t.impact <= 1
                 \/ t.preference = "CostFirst" /\ t.risk <= 1
    IN  IF t.uncertainty = "Ambiguous" THEN Nobody
        ELSE IF heavy THEN strongest_capable(r)
        ELSE IF light THEN cheapest_capable(r)
        ELSE Nobody

\* Less than `headroom` percent of the limit is left; no limit is limit 0.
budget_is_low(limit, used, headroom) ==
    /\ headroom > 0
    /\ limit > 0
    /\ (IF used >= limit THEN 0 ELSE limit - used) * 100 < limit * headroom

Choice(outcome, worker) == [outcome |-> outcome, worker |-> worker]

\* A reference that is not in the roster is an error.
finish(r, w, outcome) ==
    IF w \in DOMAIN r THEN Choice(outcome, w) ELSE Choice("Error", Nobody)

downgrade(r) == finish(r, cheapest_capable(r), "BudgetDowngrade")

\* dispatch, with what the evaluator would say; only a task that gets as far
\* as the evaluator is charged a step.
dispatch(t, r, limit, used, headroom, isCancelled, says) ==
    IF isCancelled \/ (limit > 0 /\ used >= limit) THEN Choice("Error", Nobody)
    ELSE IF budget_is_low(limit, used, headroom) THEN downgrade(r)
    ELSE IF route(t, r) # Nobody THEN finish(r, route(t, r), "RuleRoute")
    ELSE finish(r, says, "Evaluator")

AsksEvaluator(t, r, limit, used, headroom, isCancelled) ==
    /\ ~ isCancelled
    /\ ~ (limit > 0 /\ used >= limit)
    /\ ~ budget_is_low(limit, used, headroom)
    /\ route(t, r) = Nobody

-----------------------------------------------------------------------------
(***************************************************************************)
(* Escalator.                                                              *)
(***************************************************************************)
warrants_verification(t) == t.risk >= 2 \/ t.impact >= 2 \/ t.uncertainty = "Ambiguous"

\* What the report raised and what the verifier adds to it.
effective_triggers(t, report, verdict) ==
    report \cup (IF warrants_verification(t) /\ verdict # "none" THEN {verdict} ELSE {})

primary_upward(triggers) ==
    IF "ReviewRejected" \in triggers THEN "ReviewRejected"
    ELSE IF "TestFailure" \in triggers THEN "TestFailure"
    ELSE IF "Timeout" \in triggers THEN "Timeout"
    ELSE "LowConfidence"

\* Fault: a worker of the same tier counts as an upgrade.
upgrade_target_SameTier(r, cur, trigger) ==
    LET to == r[cur].to
        best == strongest_capable(r)
    IN  IF trigger \in r[cur].on /\ to \in Capable(r) /\ r[to].tier >= r[cur].tier THEN to
        ELSE IF best # Nobody /\ r[best].tier > r[cur].tier THEN best
        ELSE Nobody

\* Fault: only the target the rules name is considered.
upgrade_target_RulesOnly(r, cur, trigger) ==
    LET to == r[cur].to
    IN  IF trigger \in r[cur].on /\ to \in Capable(r) /\ r[to].tier > r[cur].tier THEN to
        ELSE Nobody

\* The target of the worker's own rules when it is able and stronger, else
\* the strongest worker when that is stronger.
upgrade_target(r, cur, trigger) ==
    LET to == r[cur].to
        best == strongest_capable(r)
    IN  IF trigger \in r[cur].on /\ to \in Capable(r) /\ r[to].tier > r[cur].tier THEN to
        ELSE IF best # Nobody /\ r[best].tier > r[cur].tier THEN best
        ELSE Nobody

upward_action(r, cur, trigger) ==
    IF upgrade_target(r, cur, trigger) # Nobody
    THEN Choice("Escalation", upgrade_target(r, cur, trigger))
    ELSE Choice(IF r[cur].human THEN "Human" ELSE "Exhausted", Nobody)

\* Down to a cheaper worker, or ask the user.
budget_action(r, cur) ==
    LET w == cheapest_capable(r)
    IN  IF w = Nobody THEN Choice("Error", Nobody)
        ELSE IF r[w].tier < r[cur].tier THEN Choice("BudgetDowngrade", w)
        ELSE Choice("Human", Nobody)

assess(t, r, cur, report, verdict, low, isCancelled) ==
    LET triggers == effective_triggers(t, report, verdict)
    IN  IF isCancelled THEN Choice("Error", Nobody)
        ELSE IF triggers = {} THEN Choice("Accept", Nobody)
        ELSE IF cur \notin DOMAIN r THEN Choice("Unknown", Nobody)
        ELSE IF "BudgetExhausted" \in triggers \/ low THEN budget_action(r, cur)
        ELSE upward_action(r, cur, primary_upward(triggers))
=============================================================================
