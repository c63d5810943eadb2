-------------------------- MODULE DelegationProofs --------------------------
(***************************************************************************)
(* Delegation, for any delegates, approval policies, rosters, attempts and *)
(* runs: no external agent starts without authority, no session is left    *)
(* running and unaccounted for, and no task is given up too early.         *)
(*                                                                         *)
(* And, at the end, the cancellation tokens that a delegated run inherits: *)
(* no wake-up is lost, for every token tree and any number of tasks.       *)
(***************************************************************************)
EXTENDS Delegation, Cancellation, FiniteSetTheorems, WellFoundedInduction, TLAPS

-----------------------------------------------------------------------------
(***************************************************************************)
(* Numbers.                                                                *)
(***************************************************************************)

(* A set of numbers has a least one. *)
LEMMA LeastNumber ==
    ASSUME NEW T, T \subseteq Nat, T # {}
    PROVE  \E m \in T : \A n \in T : m <= n
<1>1. IsWellFoundedOn(OpToRel(<, Nat), Nat)
  BY NatLessThanWellFounded, Zenon
<1>2. PICK m \in T : \A n \in T : ~(<<n, m>> \in OpToRel(<, Nat))
  BY <1>1, WFMin, Zenon
<1>3. \A n \in T : ~(n < m)
  BY <1>2 DEF OpToRel
<1> QED BY <1>3

(* Positions in a sequence have a last one. *)
LEMMA LastPosition ==
    ASSUME NEW n \in Nat, NEW T, T \subseteq 1..n, T # {}
    PROVE  \E i \in T : \A j \in T : j <= i
<1> DEFINE Rest == {m \in 0..n : \E i \in T : m = n - i}
<1>1. Rest \subseteq Nat
  OBVIOUS
<1>2. Rest # {}
  <2>1. PICK i \in T : TRUE
    OBVIOUS
  <2>2. n - i \in 0..n
    BY <2>1
  <2> QED BY <2>1, <2>2
<1>3. PICK m \in Rest : \A k \in Rest : m <= k
  <2> HIDE DEF Rest
  <2> QED BY <1>1, <1>2, LeastNumber
<1>4. PICK i \in T : m = n - i
  BY <1>3
<1>5. ASSUME NEW j \in T PROVE j <= i
  <2>1. n - j \in Rest
    <3>1. n - j \in 0..n
      OBVIOUS
    <3> QED BY <3>1
  <2>2. m <= n - j
    BY <1>3, <2>1
  <2> QED BY <1>4, <2>2
<1> QED BY <1>5

-----------------------------------------------------------------------------
(***************************************************************************)
(* Choosing a worker.                                                      *)
(***************************************************************************)
LEMMA LeastIdChosen ==
    ASSUME NEW ws, ws \subseteq Nat \ {Nobody}
    PROVE  \/ ws = {} /\ LeastId(ws) = Nobody
           \/ LeastId(ws) \in ws /\ LeastId(ws) # Nobody
<1>1. CASE ws = {}
  BY <1>1 DEF LeastId
<1>2. CASE ws # {}
  <2>1. \E w \in ws : \A v \in ws : w <= v
    BY <1>2, LeastNumber
  <2>2. LeastId(ws) \in ws
    BY <1>2, <2>1 DEF LeastId
  <2> QED BY <2>2
<1> QED BY <1>1, <1>2

Roster(r) == r \in [DOMAIN r -> Profiles(Nat)] /\ DOMAIN r \subseteq Nat \ {Nobody}

(* The strongest worker is nobody only when nobody is able, and no able      *)
(* worker is of a higher tier.                                               *)
LEMMA StrongestIsStrongest ==
    ASSUME NEW r, Roster(r)
    PROVE  \/ Capable(r) = {} /\ strongest_capable(r) = Nobody
           \/ /\ strongest_capable(r) # Nobody /\ strongest_capable(r) \in Capable(r)
              /\ \A w \in Capable(r) : r[w].tier <= r[strongest_capable(r)].tier
<1> DEFINE ws == {w \in Capable(r) : \A v \in Capable(r) : r[v].tier <= r[w].tier}
<1>1. /\ Capable(r) \subseteq Nat \ {Nobody} /\ Capable(r) \subseteq DOMAIN r
      /\ \A w \in Capable(r) : r[w].tier \in 1..3
  BY DEF Roster, Capable, Profiles, Tiers
<1>2. ws \subseteq Nat \ {Nobody}
  BY <1>1
<1>3. strongest_capable(r) = LeastId(ws)
  BY DEF strongest_capable
<1>4. Capable(r) # {} => ws # {}
  <2> SUFFICES ASSUME NEW w \in Capable(r) PROVE ws # {}
    OBVIOUS
  <2>1. CASE \E v \in Capable(r) : r[v].tier = 3
    BY <1>1, <2>1
  <2>2. CASE (\A v \in Capable(r) : r[v].tier # 3) /\ \E v \in Capable(r) : r[v].tier = 2
    <3>1. \A v \in Capable(r) : r[v].tier <= 2
      BY <1>1, <2>2
    <3> QED BY <2>2, <3>1
  <2>3. CASE \A v \in Capable(r) : r[v].tier # 3 /\ r[v].tier # 2
    <3>1. \A v \in Capable(r) : r[v].tier = 1
      BY <1>1, <2>3
    <3>2. \A v \in Capable(r) : r[v].tier <= r[w].tier
      BY <3>1
    <3> QED BY <3>2
  <2> QED BY <2>1, <2>2, <2>3
<1> HIDE DEF ws
<1>5. \/ ws = {} /\ LeastId(ws) = Nobody
      \/ LeastId(ws) \in ws /\ LeastId(ws) # Nobody
  BY <1>2, LeastIdChosen
<1> QED BY <1>3, <1>4, <1>5 DEF ws

(* There is no upgrade only when no able worker is stronger. *)
LEMMA NoUpgrade ==
    ASSUME NEW r, Roster(r), NEW cur \in DOMAIN r, NEW trigger,
           upgrade_target(r, cur, trigger) = Nobody
    PROVE  \A w \in Capable(r) : r[w].tier <= r[cur].tier
<1> DEFINE best == strongest_capable(r)
<1>1. /\ Capable(r) \subseteq Nat \ {Nobody} /\ Capable(r) \subseteq DOMAIN r
      /\ \A w \in DOMAIN r : r[w].tier \in 1..3
  BY DEF Roster, Capable, Profiles, Tiers
<1>2. ~(best # Nobody /\ r[best].tier > r[cur].tier)
  BY <1>1 DEF upgrade_target
<1>3. \/ Capable(r) = {} /\ best = Nobody
      \/ /\ best # Nobody /\ best \in Capable(r)
         /\ \A w \in Capable(r) : r[w].tier <= r[best].tier
  BY StrongestIsStrongest
<1> HIDE DEF best
<1>4. CASE Capable(r) = {}
  BY <1>4
<1>5. CASE best # Nobody /\ best \in Capable(r) /\ \A w \in Capable(r) : r[w].tier <= r[best].tier
  <2>1. r[best].tier <= r[cur].tier
    BY <1>1, <1>2, <1>5
  <2> QED BY <1>1, <1>5, <2>1
<1> QED BY <1>3, <1>4, <1>5

Outcomes ==
    {"Accept", "Unknown", "Error", "Escalation", "BudgetDowngrade", "Human", "Exhausted",
     "RuleRoute", "Evaluator"}

Choices == [outcome: Outcomes, worker: Nat]

LEMMA AssessType ==
    ASSUME NEW r, Roster(r), NEW t, NEW cur, NEW report, NEW verdict, NEW low, NEW isCancelled
    PROVE  assess(t, r, cur, report, verdict, low, isCancelled) \in Choices
<1> DEFINE triggers == effective_triggers(t, report, verdict)
           up == primary_upward(triggers)
           target == upgrade_target(r, cur, up)
           cheap == cheapest_capable(r)
           c == assess(t, r, cur, report, verdict, low, isCancelled)
<1>1. Capable(r) \subseteq Nat \ {Nobody}
  BY DEF Roster, Capable
<1>2. cheap \in Nat
  <2> DEFINE ws == {w \in Capable(r) : \A v \in Capable(r) : r[w].tier <= r[v].tier}
  <2>1. ws \subseteq Nat \ {Nobody}
    BY <1>1
  <2>2. cheap = LeastId(ws)
    BY DEF cheapest_capable
  <2> HIDE DEF ws, cheap
  <2>3. \/ ws = {} /\ LeastId(ws) = Nobody
        \/ LeastId(ws) \in ws /\ LeastId(ws) # Nobody
    BY <2>1, LeastIdChosen
  <2>4. Nobody \in Nat
    BY DEF Nobody
  <2>5. LeastId(ws) \in Nat
    BY <2>1, <2>3, <2>4
  <2> QED BY <2>2, <2>5
<1>3. target \in Nat
  <2>1. strongest_capable(r) \in Nat
    BY <1>1, StrongestIsStrongest DEF Nobody
  <2> QED BY <1>1, <2>1 DEF upgrade_target, Nobody
<1> HIDE DEF triggers, up, target, cheap
<1>4. budget_action(r, cur) \in Choices
  BY <1>2 DEF budget_action, Choice, Choices, Outcomes, cheap, Nobody
<1>5. upward_action(r, cur, up) \in Choices
  BY <1>3 DEF upward_action, Choice, Choices, Outcomes, target, Nobody
<1>6. Choice("Error", Nobody) \in Choices /\ Choice("Accept", Nobody) \in Choices
      /\ Choice("Unknown", Nobody) \in Choices
  BY DEF Choice, Choices, Outcomes, Nobody
<1> QED BY <1>4, <1>5, <1>6 DEF assess, triggers, up

-----------------------------------------------------------------------------
(***************************************************************************)
(* The inductive invariant.                                                *)
(***************************************************************************)
Ends == Outcomes \cup {"none", "ok", "Err", "Denied", "Failed", "Dropped", "HumanForBudget"}

Runs ==
    [n: 0..MaxRuns, active: BOOLEAN, streamed: BOOLEAN, cancelled: BOOLEAN, result: Ends]

JobStates == {"none", "between", "choose", "start", "asking", "running", "rejected"}

Jobs ==
    [who: Nat, role: {"none", "worker", "verifier"}, st: JobStates, drive: Nat,
     attempt: 0..MaxAttempts, prev: Nat, why: Ends]

Records == [who: Nat, status: {"Completed", "Failed"}, denied: BOOLEAN, drive: Nat]

PlanOK ==
    /\ plan.mode \in Modes /\ plan.policy \in Policies
    /\ plan.mode = "host" => Roster(plan.roster)

RunOK ==
    /\ run \in Runs
    /\ run.active => run.n # 0 /\ run.result = "none"
    /\ run.n = 0 => run.result = "none"

\* Only the dispatcher rejects a worker, and only a policy that asks makes a
\* start wait for an answer.
JobOK ==
    /\ job \in Jobs
    /\ ~ run.active => job.st = "none"
    /\ job.st = "rejected" => plan.mode = "dispatcher"
    /\ job.st = "asking" => external_start_requires_ask /\ job.who \in External

\* A record names a drive that was opened, and an external delegate that was
\* let start has one.
Sound(rec) ==
    /\ rec.drive \in {0} \cup sessions.opened
    /\ rec.who \in External /\ ~ rec.denied => rec.drive # 0

\* Drives are recorded in the order they were opened.
Growing(recs) ==
    \A i, j \in DOMAIN recs :
        i < j /\ recs[i].drive # 0 /\ recs[j].drive # 0 => recs[i].drive < recs[j].drive

SoundRecords(recs) ==
    /\ recs \in Seq(Records)
    /\ \A i \in DOMAIN recs : Sound(recs[i])
    /\ Growing(recs)

NoDenial(recs) == \A i \in DOMAIN recs : ~ recs[i].denied

\* A denial ends a routed task and a dispatch; a turn of the model goes on.
RecorderOK ==
    /\ SoundRecords(recorder)
    /\ run.active /\ plan.mode \in {"rules", "dispatcher"} => NoDenial(recorder)

\* A run changes what is kept only when it ends.
RetainedOK ==
    /\ retained \in [External -> {0} \cup sessions.opened]
    /\ run.active \/ run.n = 0 => retained = before

\* The drive in progress, if there is one.
InProgress ==
    IF plan.mode # "host" /\ job.st = "running" /\ job.who \in External THEN {job.drive} ELSE {}

Sessions ==
    [opened: SUBSET (Nat \ {0}), committed: SUBSET Nat, swept: SUBSET Nat, left: SUBSET Nat]

SessionsOK ==
    /\ sessions \in Sessions /\ IsFiniteSet(sessions.opened)
    /\ sessions.committed \subseteq sessions.opened /\ sessions.swept \subseteq sessions.opened
    /\ InProgress \subseteq sessions.opened
    /\ sessions.opened \subseteq
         sessions.committed \cup sessions.swept \cup sessions.left \cup InProgress
    /\ sessions.opened = 1..Cardinality(sessions.opened)
    /\ \A d \in InProgress : \A i \in DOMAIN recorder : recorder[i].drive < d

HostOK ==
    /\ used \in 0..StepLimit
    /\ plan.mode = "host" => sessions.opened = {} /\ recorder = << >>

IInv ==
    /\ PlanOK /\ RunOK /\ JobOK /\ RecorderOK /\ RetainedOK /\ SessionsOK /\ HostOK
    /\ ExternalStartIsAuthorised /\ RetainedIsOfLastRun
    /\ PrimaryIsEscalated /\ NoStrongerWorkerLeft

(* The invariant covers what the runs check. *)
LEMMA InvariantImplies ==
    ASSUME IInv
    PROVE  ExternalStartIsAuthorised /\ SessionInv /\ StrongestWorkerIsTried
<1>1. plan.mode \in Modes /\ plan.policy \in Policies /\ used \in 0..StepLimit
  BY DEF IInv, PlanOK, HostOK
<1>2. run.n \in 0..MaxRuns /\ run.active \in BOOLEAN /\ run.cancelled \in BOOLEAN
  BY DEF IInv, RunOK, Runs
<1>7. {run.active, run.streamed, run.cancelled} \subseteq BOOLEAN
  BY DEF IInv, RunOK, Runs
<1>3. job.st \in JobStates /\ job.attempt \in 0..MaxAttempts
  BY DEF IInv, JobOK, Jobs
<1>4. /\ retained \in [External -> {0} \cup sessions.opened]
      /\ sessions.swept \subseteq sessions.opened /\ sessions.committed \subseteq sessions.opened
  BY DEF IInv, RetainedOK, SessionsOK
<1>5. DelegationTypeOK
  BY <1>1, <1>2, <1>3, <1>4, <1>7 DEF DelegationTypeOK, JobStates
<1>6. EndedSessionIsSwept
  <2>1. job.st # "running" => InProgress = {}
    BY DEF InProgress
  <2> QED BY <2>1 DEF IInv, SessionsOK, EndedSessionIsSwept
<1> QED BY <1>5, <1>6 DEF IInv, SessionInv, StrongestWorkerIsTried

LEMMA NoJobIsAJob == NoJob \in Jobs
BY LimitsAssumption DEF NoJob, Jobs, JobStates, Ends, Nobody

(* The initial states. *)
LEMMA InitHolds ==
    ASSUME DelegationInit PROVE IInv
<1>1. /\ plan.mode \in Modes /\ plan.policy \in AgentPolicies \cup {NoPolicy}
      /\ plan.mode = "host" => plan.roster \in Rosters
  <2>1. CASE plan \in [mode: Modes \ {"host"}, policy: AgentPolicies, evaluator: BOOLEAN,
                       verifier: BOOLEAN, roster: {<< >>}, task: {"none"}]
    BY <2>1
  <2>2. CASE plan \in [mode: Modes \cap {"host"}, policy: {NoPolicy}, evaluator: {TRUE},
                       verifier: {TRUE}, roster: Rosters, task: HostTasks]
    BY <2>2
  <2> QED BY <2>1, <2>2 DEF DelegationInit
<1>2. PlanOK
  <2>1. NoPolicy \in Policies
    BY DEF NoPolicy, Policies, Tiers4
  <2>2. plan.policy \in Policies
    BY <1>1, <2>1, PoliciesAssumption
  <2>3. plan.mode = "host" => Roster(plan.roster)
    BY <1>1, RostersAssumption DEF Roster
  <2> QED BY <1>1, <2>2, <2>3 DEF PlanOK
<1>3. /\ run = [n |-> 0, active |-> FALSE, streamed |-> FALSE, cancelled |-> FALSE,
                result |-> "none"]
      /\ job = NoJob /\ recorder = << >> /\ retained = [w \in External |-> 0]
      /\ before = retained
      /\ sessions = [opened |-> {}, committed |-> {}, swept |-> {}, left |-> {}]
      /\ used = 0 /\ grants = {}
  BY DEF DelegationInit
<1>4. RunOK
  BY <1>3, LimitsAssumption DEF RunOK, Runs, Ends
<1>5. JobOK
  <2>1. NoJob \in Jobs
    BY NoJobIsAJob
  <2> QED BY <1>3, <2>1 DEF JobOK, NoJob
<1>6. RecorderOK
  <2>1. << >> \in Seq(Records) /\ DOMAIN << >> = {}
    OBVIOUS
  <2> QED BY <1>3, <2>1 DEF RecorderOK, SoundRecords, Growing, NoDenial
<1>7. RetainedOK
  BY <1>3 DEF RetainedOK
<1>8. SessionsOK
  <2>1. IsFiniteSet({})
    BY FS_EmptySet
  <2>2. InProgress = {}
    BY <1>3 DEF InProgress, NoJob
  <2>3. sessions.opened = {} /\ sessions.committed = {} /\ sessions.swept = {}
    BY <1>3
  <2>4. sessions \in Sessions
    BY <1>3 DEF Sessions
  <2>5. sessions.opened = 1..Cardinality(sessions.opened)
    BY <2>3, FS_EmptySet
  <2> QED BY <2>1, <2>2, <2>3, <2>4, <2>5 DEF SessionsOK
<1>9. HostOK
  BY <1>3, LimitsAssumption DEF HostOK
<1>10. ExternalStartIsAuthorised /\ RetainedIsOfLastRun /\ PrimaryIsEscalated
       /\ NoStrongerWorkerLeft
  BY <1>3 DEF ExternalStartIsAuthorised, RetainedIsOfLastRun, PrimaryIsEscalated,
              NoStrongerWorkerLeft
<1> QED BY <1>2, <1>4, <1>5, <1>6, <1>7, <1>8, <1>9, <1>10 DEF IInv

-----------------------------------------------------------------------------
(***************************************************************************)
(* The end of a run.                                                       *)
(***************************************************************************)
(* Of a delegate with a record the last one is kept. *)
LEMMA LastIsMine ==
    ASSUME NEW recs \in Seq(Records), NEW w, RecordsOf(recs, w) # {}
    PROVE  LET last == CHOOSE i \in RecordsOf(recs, w) : \A j \in RecordsOf(recs, w) : j <= i
           IN  last \in RecordsOf(recs, w) /\ \A j \in RecordsOf(recs, w) : j <= last
<1>1. Len(recs) \in Nat /\ DOMAIN recs = 1..Len(recs)
  OBVIOUS
<1>2. RecordsOf(recs, w) \subseteq 1..Len(recs)
  BY <1>1 DEF RecordsOf
<1>3. \E i \in RecordsOf(recs, w) : \A j \in RecordsOf(recs, w) : j <= i
  BY <1>1, <1>2, LastPosition
<1> QED BY <1>3

(* What a run keeps of an external delegate is what it kept before, or the   *)
(* drive of one of its records: of the last one when they are kept in order. *)
LEMMA KeepsARecordsDrive ==
    ASSUME NEW recs \in Seq(Records), NEW f,
           f = RetainedInOrder(recs) \/ f \in RetainedInAnyOrder(recs),
           NEW w \in External
    PROVE  /\ RecordsOf(recs, w) = {} => f[w] = retained[w]
           /\ RecordsOf(recs, w) # {} =>
                \E i \in RecordsOf(recs, w) :
                    /\ f[w] = recs[i].drive
                    /\ f = RetainedInOrder(recs) => \A j \in RecordsOf(recs, w) : j <= i
<1>1. CASE f = RetainedInOrder(recs)
  <2> DEFINE last == CHOOSE i \in RecordsOf(recs, w) : \A j \in RecordsOf(recs, w) : j <= i
  <2>1. f[w] = IF RecordsOf(recs, w) = {} THEN retained[w] ELSE recs[last].drive
    BY <1>1, Zenon DEF RetainedInOrder
  <2>2. RecordsOf(recs, w) # {} =>
          last \in RecordsOf(recs, w) /\ \A j \in RecordsOf(recs, w) : j <= last
    BY LastIsMine
  <2> HIDE DEF last
  <2> QED BY <2>1, <2>2
<1>2. CASE f # RetainedInOrder(recs)
  <2>1. f[w] \in
          IF RecordsOf(recs, w) = {} THEN {retained[w]}
          ELSE {recs[i].drive : i \in RecordsOf(recs, w)}
    BY <1>2 DEF RetainedInAnyOrder
  <2> QED BY <1>2, <2>1
<1> QED BY <1>1, <1>2

\* What ending a delegation, or a run, has to establish.
EndOK ==
    /\ RunOK /\ JobOK /\ RecorderOK /\ RetainedOK
    /\ RetainedIsOfLastRun /\ PrimaryIsEscalated
    /\ job.st # "running"

\* In which state it happens.
Ending ==
    /\ PlanOK /\ RunOK /\ JobOK /\ RetainedOK
    /\ AgentRuns /\ job.st # "none"
    /\ UNCHANGED plan /\ sessions'.opened = sessions.opened

LEMMA ReturnEnds ==
    ASSUME Ending, NEW result \in {"ok", "Err", "Denied", "Failed"}, NEW recs, NEW why \in Ends,
           SoundRecords(recs), ReturnBecause(result, recs, why),
           result = "ok" => NoDenial(recs),
           why = "Exhausted" => Strong \in {Nobody, Primary} \/ job.who # Primary
    PROVE  EndOK'
<1>1. /\ run' = [run EXCEPT !.active = FALSE, !.result = result]
      /\ job' = [NoJob EXCEPT !.why = why, !.prev = job.who]
      /\ recorder' = recs
      /\ plan' = plan /\ sessions'.opened = sessions.opened /\ before' = before
  BY DEF ReturnBecause, Ending
<1>2. run \in Runs /\ run.active /\ run.n # 0 /\ job \in Jobs
  BY DEF Ending, RunOK, JobOK, AgentRuns
<1>3. RunOK'
  BY <1>1, <1>2 DEF RunOK, Runs, Ends
<1>4. job' \in Jobs /\ job'.st = "none" /\ job'.why = why /\ job'.prev = job.who
  <2>1. NoJob \in Jobs
    BY NoJobIsAJob
  <2>2. job' \in Jobs
    BY <1>1, <1>2, <2>1 DEF Jobs
  <2> QED BY <1>1, <2>1, <2>2 DEF Jobs, NoJob
<1>5. JobOK'
  BY <1>4 DEF JobOK
<1>6. run'.active = FALSE /\ run'.result = result /\ run'.streamed = run.streamed /\ run'.n = run.n
  BY <1>1, <1>2 DEF Runs
<1>7. RecorderOK'
  <2>1. SoundRecords(recs)'
    BY <1>1 DEF SoundRecords, Sound
  <2> QED BY <1>1, <1>6, <2>1 DEF RecorderOK, SoundRecords, Sound
<1>8. /\ retained \in [External -> {0} \cup sessions.opened] /\ retained = before
      /\ recs \in Seq(Records)
  BY <1>2 DEF Ending, RetainedOK, SoundRecords
<1>9. \/ ~ FactsAreKept(result) /\ retained' = retained
      \/ /\ FactsAreKept(result)
         /\ IF plan.mode = "model" THEN retained' \in RetainedInAnyOrder(recs)
                                   ELSE retained' = RetainedInOrder(recs)
  BY DEF ReturnBecause
<1>10. ASSUME NEW w \in External, FactsAreKept(result)
       PROVE  /\ RecordsOf(recs, w) = {} => retained'[w] = retained[w]
              /\ RecordsOf(recs, w) # {} =>
                   \E i \in RecordsOf(recs, w) :
                       /\ retained'[w] = recs[i].drive
                       /\ plan.mode # "model" => \A j \in RecordsOf(recs, w) : j <= i
  <2>1. /\ retained' = RetainedInOrder(recs) \/ retained' \in RetainedInAnyOrder(recs)
        /\ plan.mode # "model" => retained' = RetainedInOrder(recs)
    BY <1>9, <1>10
  <2> QED BY <1>8, <2>1, KeepsARecordsDrive
<1>11. RetainedOK'
  <2>1. CASE ~ FactsAreKept(result)
    BY <1>1, <1>2, <1>6, <1>8, <1>9, <2>1 DEF RetainedOK
  <2>2. CASE FactsAreKept(result)
    <3>1. \A i \in DOMAIN recs : recs[i].drive \in {0} \cup sessions.opened
      BY DEF SoundRecords, Sound
    <3>2. \A w \in External : RecordsOf(recs, w) \subseteq DOMAIN recs
      BY DEF RecordsOf
    <3>3. \A w \in External : retained'[w] \in {0} \cup sessions.opened
      BY <1>8, <1>10, <2>2, <3>1, <3>2
    <3>4. retained' = [w \in External |-> retained'[w]]
      <4>1. retained' \in RetainedInAnyOrder(recs) => retained' = [w \in External |-> retained'[w]]
        BY DEF RetainedInAnyOrder
      <4>2. retained' = RetainedInOrder(recs) => retained' = [w \in External |-> retained'[w]]
        BY DEF RetainedInOrder
      <4> QED BY <1>9, <2>2, <4>1, <4>2, Zenon
    <3> QED BY <1>1, <1>2, <1>6, <3>3, <3>4 DEF RetainedOK
  <2> QED BY <2>1, <2>2
<1>12. RetainedIsOfLastRun'
  <2> SUFFICES ASSUME NEW w \in External
               PROVE  LET own == DrivesOf(recs, w)
                          denied == \E i \in DOMAIN recs : recs[i].who = w /\ recs[i].denied
                      IN  IF \/ run.streamed \/ result \in {"none", "Dropped", "Failed"}
                             \/ plan.mode # "model" /\ result \in {"Denied", "Err"}
                             \/ own = {} /\ ~ denied
                          THEN retained'[w] = before[w]
                          ELSE IF plan.mode = "model"
                          THEN retained'[w] \in own \cup (IF denied THEN {0} ELSE {})
                          ELSE retained'[w] \in own /\ \A d \in own : d <= retained'[w]
    BY <1>1, <1>6 DEF RetainedIsOfLastRun
  <2> DEFINE own == DrivesOf(recs, w)
             denied == \E i \in DOMAIN recs : recs[i].who = w /\ recs[i].denied
  <2>1. CASE ~ FactsAreKept(result)
    <3>1. retained'[w] = before[w]
      BY <1>8, <1>9, <2>1
    <3>2. run.streamed \/ result = "Failed" \/ (plan.mode # "model" /\ result \in {"Denied", "Err"})
      BY <2>1 DEF FactsAreKept
    <3> QED BY <3>1, <3>2
  <2>2. CASE FactsAreKept(result)
    <3>1. /\ ~ run.streamed /\ result \notin {"none", "Dropped", "Failed"}
          /\ plan.mode # "model" => result = "ok"
      BY <2>2 DEF FactsAreKept
    <3>2. ASSUME NEW i \in RecordsOf(recs, w)
          PROVE  /\ i \in DOMAIN recs /\ recs[i].who = w
                 /\ ~ recs[i].denied => recs[i].drive # 0
                 /\ recs[i].drive # 0 => recs[i].drive \in own
                 /\ recs[i].drive \in Nat
      <4>1. i \in DOMAIN recs /\ recs[i].who = w
        BY DEF RecordsOf
      <4>2. recs[i] \in Records /\ Sound(recs[i])
        BY <1>8, <4>1 DEF SoundRecords
      <4>3. recs[i].drive # 0 => recs[i].drive \in own
        BY <4>1 DEF DrivesOf
      <4> QED BY <4>1, <4>2, <4>3 DEF Sound, Records
    <3>3. \A d \in own : d # 0 /\ \E j \in RecordsOf(recs, w) : d = recs[j].drive
      BY DEF DrivesOf, RecordsOf, Kept
    <3>4. CASE own = {} /\ ~ denied
      <4>1. RecordsOf(recs, w) = {}
        BY <3>2, <3>4
      <4> QED BY <1>8, <1>10, <2>2, <3>4, <4>1
    <3>5. CASE ~(own = {} /\ ~ denied)
      <4>1. RecordsOf(recs, w) # {}
        <5>1. denied => RecordsOf(recs, w) # {}
          BY DEF RecordsOf, Kept
        <5> QED BY <3>3, <3>5, <5>1
      <4>2. PICK i \in RecordsOf(recs, w) :
              /\ retained'[w] = recs[i].drive
              /\ plan.mode # "model" => \A j \in RecordsOf(recs, w) : j <= i
        BY <1>10, <2>2, <4>1
      <4>3. recs[i].drive \in own \cup (IF denied THEN {0} ELSE {})
        BY <3>2
      <4>4. CASE plan.mode = "model"
        BY <3>1, <3>5, <4>2, <4>3, <4>4
      <4>5. CASE plan.mode # "model"
        <5>1. NoDenial(recs) /\ Growing(recs) /\ ~ denied
          BY <3>1, <4>5 DEF NoDenial, SoundRecords
        <5>2. recs[i].drive \in own /\ recs[i].drive # 0
          BY <3>2, <5>1 DEF NoDenial
        <5>3. ASSUME NEW d \in own PROVE d <= recs[i].drive
          <6>1. PICK j \in RecordsOf(recs, w) : d = recs[j].drive
            BY <3>3
          <6>2. j <= i /\ d # 0 /\ i \in Nat /\ j \in Nat
            BY <1>8, <3>2, <3>3, <4>2, <4>5
          <6>3. CASE j = i
            BY <3>2, <6>1, <6>3
          <6>4. CASE j < i
            BY <3>2, <5>1, <5>2, <6>1, <6>2, <6>4 DEF Growing
          <6> QED BY <6>2, <6>3, <6>4
        <5> QED BY <3>1, <3>5, <4>2, <4>5, <5>2, <5>3
      <4> QED BY <4>4, <4>5
    <3> QED BY <3>4, <3>5
  <2> QED BY <2>1, <2>2
<1>13. PrimaryIsEscalated'
  BY <1>4 DEF PrimaryIsEscalated
<1> QED BY <1>3, <1>4, <1>5, <1>7, <1>11, <1>12, <1>13 DEF EndOK

LEMMA GoingOn ==
    ASSUME Ending, NEW j \in Jobs, NEW recs, SoundRecords(recs), GoesOn(j, recs),
           j.st \in {"between", "start", "rejected"},
           j.st = "rejected" => plan.mode = "dispatcher",
           plan.mode \in {"rules", "dispatcher"} => NoDenial(recs)
    PROVE  EndOK'
<1>1. /\ job' = j /\ recorder' = recs /\ run' = run /\ retained' = retained
      /\ plan' = plan /\ sessions'.opened = sessions.opened /\ before' = before
  BY DEF GoesOn, Ending
<1>2. run.active
  BY DEF Ending, AgentRuns
<1>3. RunOK'
  BY <1>1 DEF Ending, RunOK
<1>4. JobOK'
  BY <1>1, <1>2 DEF JobOK
<1>5. RecorderOK'
  BY <1>1 DEF RecorderOK, SoundRecords, Sound, NoDenial
<1>6. RetainedOK'
  BY <1>1 DEF Ending, RetainedOK
<1>7. RetainedIsOfLastRun' /\ PrimaryIsEscalated'
  BY <1>1, <1>2 DEF RetainedIsOfLastRun, PrimaryIsEscalated
<1> QED BY <1>1, <1>3, <1>4, <1>5, <1>6, <1>7 DEF EndOK

\* The drive of a new record, if it has one, is the newest.
Newest(rec) == rec.drive # 0 => \A i \in DOMAIN recorder : recorder[i].drive < rec.drive

(* One more record. *)
LEMMA OneMoreRecord ==
    ASSUME RecorderOK, NEW rec \in Records, Sound(rec), Newest(rec)
    PROVE  /\ SoundRecords(Append(recorder, rec))
           /\ NoDenial(recorder) /\ ~ rec.denied => NoDenial(Append(recorder, rec))
<1> DEFINE recs == Append(recorder, rec)
<1>1. /\ recorder \in Seq(Records) /\ \A i \in DOMAIN recorder : Sound(recorder[i])
      /\ Growing(recorder)
  BY DEF RecorderOK, SoundRecords
<1>2. recs \in Seq(Records) /\ Len(recs) = Len(recorder) + 1
  BY <1>1
<1>3. \A i \in DOMAIN recs :
        \/ i \in DOMAIN recorder /\ recs[i] = recorder[i] /\ i <= Len(recorder)
        \/ recs[i] = rec /\ i = Len(recorder) + 1
  BY <1>1
<1> HIDE DEF recs
<1>4. \A i \in DOMAIN recs : Sound(recs[i])
  BY <1>1, <1>3
<1>5. NoDenial(recorder) /\ ~ rec.denied => NoDenial(recs)
  BY <1>3 DEF NoDenial
<1>6. Growing(recs)
  <2> SUFFICES ASSUME NEW i \in DOMAIN recs, NEW j \in DOMAIN recs, i < j,
                      recs[i].drive # 0, recs[j].drive # 0
               PROVE  recs[i].drive < recs[j].drive
    BY DEF Growing
  <2>1. i \in Nat /\ j \in Nat /\ Len(recorder) \in Nat /\ j <= Len(recorder) + 1
    BY <1>1, <1>2
  <2>2. i \in DOMAIN recorder /\ recs[i] = recorder[i]
    BY <1>3, <2>1
  <2>3. CASE j \in DOMAIN recorder /\ recs[j] = recorder[j]
    BY <1>1, <2>2, <2>3 DEF Growing
  <2>4. CASE recs[j] = rec
    BY <2>2, <2>4 DEF Newest
  <2> QED BY <1>3, <2>3, <2>4
<1> QED BY <1>2, <1>4, <1>5, <1>6 DEF SoundRecords, recs

(* A worker was rejected. *)
LEMMA RejectionEnds ==
    ASSUME Ending, plan.mode = "dispatcher", NEW recs, SoundRecords(recs), NoDenial(recs),
           NEW who \in Nat, Rejected(who, recs)
    PROVE  EndOK'
<1> DEFINE j == [NoJob EXCEPT !.who = who, !.role = "worker", !.st = "rejected",
                              !.attempt = job.attempt]
<1>1. job.attempt \in 0..MaxAttempts
  BY DEF Ending, JobOK, Jobs
<1>2. j \in Jobs /\ j.st = "rejected"
  BY <1>1, NoJobIsAJob DEF Jobs, JobStates, NoJob
<1>3. GoesOn(j, recs)
  BY DEF Rejected
<1> HIDE DEF j
<1> QED BY <1>2, <1>3, GoingOn

(* A delegation has ended. *)
LEMMA EndedEnds ==
    ASSUME Ending, RecorderOK, NEW rec \in Records, Sound(rec), Newest(rec), Ended(rec)
    PROVE  EndOK'
<1> DEFINE recs == Append(recorder, rec)
<1>1. /\ SoundRecords(recs)
      /\ NoDenial(recorder) /\ ~ rec.denied => NoDenial(recs)
  BY OneMoreRecord
<1>2. /\ job \in Jobs /\ run.active /\ plan.mode \in {"model", "rules", "dispatcher"}
      /\ plan.mode \in {"rules", "dispatcher"} => NoDenial(recorder)
      /\ rec.denied \in BOOLEAN /\ rec.status \in {"Completed", "Failed"}
  BY ModesAssumption DEF Ending, PlanOK, JobOK, AgentRuns, RecorderOK, Records
<1>3. "none" \in Ends
  BY DEF Ends
<1> HIDE DEF recs
<1>4. CASE plan.mode = "model"
  <2> DEFINE j == [NoJob EXCEPT !.st = "between"]
  <2>1. GoesOn(j, recs)
    BY <1>4 DEF Ended, recs
  <2>2. j \in Jobs /\ j.st = "between"
    BY NoJobIsAJob DEF Jobs, JobStates, NoJob
  <2> HIDE DEF j
  <2> QED BY <1>1, <1>4, <2>1, <2>2, GoingOn
<1>5. CASE plan.mode = "rules"
  <2> DEFINE result == IF rec.denied THEN "Denied" ELSE "ok"
  <2>1. ReturnBecause(result, recs, "none")
    BY <1>5 DEF Ended, Return, recs
  <2>2. result \in {"ok", "Err", "Denied", "Failed"} /\ (result = "ok" => NoDenial(recs))
    BY <1>1, <1>2, <1>5
  <2> HIDE DEF result
  <2> QED BY <1>1, <1>3, <2>1, <2>2, ReturnEnds
<1>6. CASE plan.mode = "dispatcher"
  <2>1. Judged(rec, recs)
    BY <1>6 DEF Ended, recs
  <2>2. CASE rec.denied
    <3>1. ReturnBecause("Denied", recs, "none")
      BY <2>1, <2>2 DEF Judged, Return
    <3> QED BY <1>1, <1>3, <3>1, ReturnEnds
  <2>3. CASE ~ rec.denied
    <3>1. NoDenial(recs)
      BY <1>1, <1>2, <1>6, <2>3
    <3>2. job.who \in Nat /\ job.prev \in Nat /\ job.attempt \in 0..MaxAttempts
      BY <1>2 DEF Jobs
    <3>3. CASE job.role = "worker" /\ rec.status = "Failed"
      <4>1. Rejected(job.who, recs)
        BY <2>1, <2>3, <3>3 DEF Judged
      <4> QED BY <1>1, <1>6, <3>1, <3>2, <4>1, RejectionEnds
    <3>4. CASE job.role = "worker" /\ rec.status # "Failed" /\ Verifier # Nobody
      <4> DEFINE j == [NoJob EXCEPT !.who = Verifier, !.role = "verifier", !.st = "start",
                                    !.attempt = job.attempt, !.prev = job.who]
      <4>1. GoesOn(j, recs)
        BY <2>1, <2>3, <3>4 DEF Judged
      <4>2. Verifier \in Nat
        BY <3>4, WorkersAssumption
      <4>3. j \in Jobs /\ j.st = "start"
        BY <3>2, <4>2, NoJobIsAJob DEF Jobs, JobStates, NoJob
      <4> HIDE DEF j
      <4> QED BY <1>1, <3>1, <4>1, <4>3, GoingOn
    <3>5. CASE /\ ~(job.role = "worker" /\ rec.status = "Failed")
               /\ ~(job.role = "worker" /\ rec.status # "Failed" /\ Verifier # Nobody)
      <4> DEFINE worker == IF job.role = "verifier" THEN job.prev ELSE job.who
      <4>1. Rejected(worker, recs) \/ Return("ok", recs)
        BY <2>1, <2>3, <3>5 DEF Judged
      <4>2. worker \in Nat
        BY <3>2
      <4> HIDE DEF worker
      <4>3. CASE Rejected(worker, recs)
        BY <1>1, <1>6, <3>1, <4>2, <4>3, RejectionEnds
      <4>4. CASE Return("ok", recs)
        <5>1. ReturnBecause("ok", recs, "none")
          BY <4>4 DEF Return
        <5> QED BY <1>1, <1>3, <3>1, <5>1, ReturnEnds
      <4> QED BY <4>1, <4>3, <4>4
    <3> QED BY <3>3, <3>4, <3>5
  <2> QED BY <2>2, <2>3
<1> QED BY <1>2, <1>4, <1>5, <1>6

-----------------------------------------------------------------------------
(***************************************************************************)
(* Every step preserves the invariant.                                     *)
(***************************************************************************)

(* A step that ends a delegation or a run with no drive in progress.         *)
LEMMA EndKeeps ==
    ASSUME IInv, AgentRuns, InProgress = {}, EndOK', UNCHANGED <<plan, sessions, used, grants>>
    PROVE  IInv'
<1>1. /\ plan' = plan /\ sessions' = sessions /\ used' = used /\ grants' = grants
      /\ plan.mode # "host"
  BY DEF AgentRuns
<1>2. PlanOK' /\ HostOK'
  BY <1>1 DEF IInv, PlanOK, HostOK
<1>3. RunOK' /\ JobOK' /\ RecorderOK' /\ RetainedOK' /\ RetainedIsOfLastRun' /\ PrimaryIsEscalated'
  BY DEF EndOK
<1>4. SessionsOK'
  <2>1. InProgress' = {}
    BY DEF EndOK, InProgress
  <2> QED BY <1>1, <2>1 DEF IInv, SessionsOK
<1>5. ExternalStartIsAuthorised' /\ NoStrongerWorkerLeft'
  BY <1>1 DEF IInv, ExternalStartIsAuthorised, NoStrongerWorkerLeft, Explicit
<1> QED BY <1>2, <1>3, <1>4, <1>5 DEF IInv

LEMMA IsEnding ==
    ASSUME IInv, AgentRuns, job.st # "none", UNCHANGED plan, sessions'.opened = sessions.opened
    PROVE  Ending
BY DEF IInv, Ending

LEMMA DenyKeeps ==
    ASSUME IInv, AgentRuns, job.st \in {"start", "asking"}, Deny
    PROVE  IInv'
<1> DEFINE rec == Record("Failed", TRUE, 0)
<1>1. Ended(rec) /\ UNCHANGED <<plan, sessions, used, grants>>
  BY DEF Deny
<1>2. Ending
  <2>1. sessions'.opened = sessions.opened
    BY <1>1
  <2> QED BY <1>1, <2>1, IsEnding
<1>3. RecorderOK /\ job \in Jobs
  BY DEF IInv, JobOK
<1>4. rec \in Records /\ Sound(rec) /\ Newest(rec)
  BY <1>3 DEF Jobs, Records, Record, Sound, Newest
<1> HIDE DEF rec
<1>5. EndOK'
  BY <1>1, <1>2, <1>3, <1>4, EndedEnds
<1>6. InProgress = {}
  BY DEF InProgress
<1> QED BY <1>1, <1>5, <1>6, EndKeeps

\* Both questions a policy leaves open: whether a start is allowed by itself,
\* or because it was asked for.
Authority(by) ==
    /\ plan.policy.own # "AutoDeny"
    /\ by = "policy" => IF Explicit THEN plan.policy.own = "AutoAllow"
                        ELSE ~ plan.policy.askExternal /\ plan.policy.default = "AutoAllow"
    /\ by = "asked" => ~ run.cancelled \/ ~ plan.policy.parent

(* A session is opened.                                                      *)
LEMMA OpenKeeps ==
    ASSUME IInv, AgentRuns, job.st \in {"start", "asking"}, job.who \in External,
           NEW by, Authority(by), Open(by)
    PROVE  IInv'
<1> DEFINE d == NewDrive
<1>1. d \in Nat \ {0}
  <2>1. Cardinality(sessions.opened) \in Nat
    BY FS_CardinalityType DEF IInv, SessionsOK
  <2> QED BY <2>1 DEF NewDrive
<1>13. /\ d \notin sessions.opened /\ sessions.opened \cup {d} = 1..d
       /\ Cardinality(sessions.opened \cup {d}) = d
       /\ \A e \in {0} \cup sessions.opened : e < d
  <2>1. Cardinality(sessions.opened) \in Nat /\ IsFiniteSet(sessions.opened)
    BY FS_CardinalityType DEF IInv, SessionsOK
  <2>2. sessions.opened = 1..Cardinality(sessions.opened)
    BY DEF IInv, SessionsOK
  <2>3. d = Cardinality(sessions.opened) + 1
    BY DEF NewDrive
  <2> HIDE DEF d
  <2>4. /\ d \notin sessions.opened /\ sessions.opened \cup {d} = 1..d
        /\ \A e \in {0} \cup sessions.opened : e < d
    BY <2>1, <2>2, <2>3
  <2>5. Cardinality(sessions.opened \cup {d}) = d
    BY <2>1, <2>3, <2>4, FS_AddElement
  <2> QED BY <2>4, <2>5
<1> HIDE DEF d
<1>2. /\ job' = [job EXCEPT !.st = "running", !.drive = d]
      /\ recorder' = recorder /\ run' = run /\ retained' = retained /\ before' = before
      /\ sessions' = [sessions EXCEPT !.opened = @ \cup {d}]
      /\ grants' = grants \cup {[by |-> by, cancelled |-> run.cancelled]}
      /\ plan' = plan /\ used' = used
  BY DEF Open, GoesOn, d
<1>3. /\ job \in Jobs /\ run.active /\ plan.mode # "host"
  BY DEF IInv, JobOK, AgentRuns
<1>4. job' \in Jobs /\ job'.st = "running" /\ job'.drive = d /\ job'.who = job.who
  BY <1>1, <1>2, <1>3 DEF Jobs, JobStates
<1>5. PlanOK' /\ RunOK' /\ JobOK'
  BY <1>2, <1>3, <1>4 DEF IInv, PlanOK, RunOK, JobOK
<1>6. /\ sessions' \in Sessions
      /\ sessions'.opened = sessions.opened \cup {d}
      /\ sessions'.committed = sessions.committed /\ sessions'.swept = sessions.swept
      /\ sessions'.left = sessions.left
  <2>1. sessions \in Sessions
    BY DEF IInv, SessionsOK
  <2> QED BY <1>1, <1>2, <2>1 DEF Sessions
<1>7. RecorderOK'
  BY <1>2, <1>6 DEF IInv, RecorderOK, SoundRecords, Sound, NoDenial
<1>8. RetainedOK'
  BY <1>2, <1>6 DEF IInv, RetainedOK
<1>9. SessionsOK'
  <2>1. IsFiniteSet(sessions'.opened)
    BY <1>6, FS_AddElement DEF IInv, SessionsOK
  <2>2. InProgress = {} /\ InProgress' = {d}
    BY <1>2, <1>3, <1>4 DEF InProgress
  <2>3. sessions'.opened = 1..Cardinality(sessions'.opened)
    BY <1>6, <1>13
  <2>4. \A i \in DOMAIN recorder' : recorder'[i].drive < d
    BY <1>2, <1>13 DEF IInv, RecorderOK, SoundRecords, Sound
  <2> QED BY <1>6, <2>1, <2>2, <2>3, <2>4 DEF IInv, SessionsOK
<1>10. HostOK'
  BY <1>2, <1>3 DEF IInv, HostOK
<1>11. ExternalStartIsAuthorised'
  BY <1>2 DEF IInv, ExternalStartIsAuthorised, Authority, Explicit
<1>12. RetainedIsOfLastRun' /\ PrimaryIsEscalated' /\ NoStrongerWorkerLeft'
  BY <1>2, <1>3 DEF RetainedIsOfLastRun, PrimaryIsEscalated, NoStrongerWorkerLeft
<1> QED BY <1>5, <1>7, <1>8, <1>9, <1>10, <1>11, <1>12 DEF IInv

\* The records stay, or are cleared with no drive in progress.
RecordsStay == recorder' = recorder \/ (InProgress = {} /\ plan.mode # "host")

(* A step of an active run that ends nothing and opens no session.           *)
LEMMA QuietKeeps ==
    ASSUME IInv, run'.active, RunOK', JobOK', RecorderOK', InProgress' = InProgress,
           UNCHANGED <<plan, retained, sessions, used, grants>>, retained = before',
           RecordsStay
    PROVE  IInv'
<1> USE DEF RecordsStay
<1>1. PlanOK' /\ RetainedOK' /\ SessionsOK' /\ HostOK'
  BY DEF IInv, PlanOK, RetainedOK, SessionsOK, HostOK
<1>2. ExternalStartIsAuthorised'
  BY DEF IInv, ExternalStartIsAuthorised, Explicit
<1>3. RetainedIsOfLastRun' /\ PrimaryIsEscalated'
  BY DEF RetainedIsOfLastRun, PrimaryIsEscalated
<1>4. NoStrongerWorkerLeft'
  BY DEF RunOK, NoStrongerWorkerLeft
<1> QED BY <1>1, <1>2, <1>3, <1>4 DEF IInv

LEMMA BeginKeeps == ASSUME IInv, Begin PROVE IInv'
<1>1. /\ ~ run.active /\ run.n < MaxRuns /\ plan.mode # "host"
      /\ recorder' = << >> /\ before' = retained
      /\ UNCHANGED <<plan, retained, sessions, used, grants>>
  BY DEF Begin
<1>2. RunOK' /\ run'.active
  <2>1. PICK streamed \in BOOLEAN :
          run' = [n |-> run.n + 1, active |-> TRUE, streamed |-> streamed, cancelled |-> FALSE,
                  result |-> "none"]
    BY DEF Begin
  <2> QED BY <1>1, <2>1, LimitsAssumption DEF IInv, RunOK, Runs, Ends
<1>3. plan.mode \in {"model", "rules", "dispatcher"}
  BY <1>1, ModesAssumption DEF IInv, PlanOK
<1>4. job' \in Jobs /\ job'.st \in {"between", "choose", "start"}
  <2>1. CASE plan.mode = "model"
    BY <2>1, NoJobIsAJob DEF Begin, Jobs, JobStates, NoJob
  <2>2. CASE plan.mode = "rules"
    BY <2>2, NoJobIsAJob DEF Begin, Jobs, JobStates, NoJob
  <2>3. CASE plan.mode = "dispatcher"
    <3>1. Primary \in Nat /\ 1 \in 0..MaxAttempts
      BY WorkersAssumption, LimitsAssumption
    <3> QED BY <2>3, <3>1, NoJobIsAJob DEF Begin, Jobs, JobStates, NoJob
  <2> QED BY <1>3, <2>1, <2>2, <2>3
<1>5. JobOK'
  BY <1>2, <1>4 DEF JobOK
<1>6. RecorderOK'
  <2>1. << >> \in Seq(Records) /\ DOMAIN << >> = {}
    OBVIOUS
  <2> QED BY <1>1, <2>1 DEF RecorderOK, SoundRecords, Growing, NoDenial
<1>7. InProgress' = InProgress /\ InProgress = {}
  <2>1. job.st = "none"
    BY <1>1 DEF IInv, JobOK
  <2> QED BY <1>4, <2>1 DEF InProgress
<1>8. RecordsStay
  BY <1>1, <1>7 DEF RecordsStay
<1> QED BY <1>1, <1>2, <1>5, <1>6, <1>7, <1>8, QuietKeeps

LEMMA CallKeeps == ASSUME IInv, Call PROVE IInv'
<1>1. /\ AgentRuns /\ job.st \in {"between", "choose"}
      /\ UNCHANGED <<plan, run, recorder, retained, sessions, used, grants, before>>
  BY DEF Call
<1>2. PICK w \in Workers : job' = [NoJob EXCEPT !.who = w, !.role = "worker", !.st = "start"]
  BY DEF Call
<1>3. job' \in Jobs /\ job'.st = "start"
  <2>1. w \in Nat
    BY WorkersAssumption
  <2> QED BY <1>2, <2>1, NoJobIsAJob DEF Jobs, JobStates, NoJob
<1>4. run'.active /\ RunOK' /\ RecorderOK'
  BY <1>1 DEF IInv, AgentRuns, RunOK, RecorderOK, SoundRecords, Sound, NoDenial
<1>5. JobOK'
  BY <1>3, <1>4 DEF JobOK
<1>6. InProgress' = InProgress
  BY <1>1, <1>3 DEF InProgress
<1>9. retained = before' /\ RecordsStay
  BY <1>1 DEF IInv, RetainedOK, AgentRuns, RecordsStay
<1> QED BY <1>1, <1>9, <1>4, <1>5, <1>6, QuietKeeps

LEMMA CancelKeeps == ASSUME IInv, Cancel PROVE IInv'
<1>1. /\ run.active /\ run' = [run EXCEPT !.cancelled = TRUE]
      /\ UNCHANGED <<plan, job, recorder, retained, sessions, used, grants, before>>
  BY DEF Cancel
<1>2. RunOK' /\ run'.active
  BY <1>1 DEF IInv, RunOK, Runs
<1>3. JobOK' /\ RecorderOK' /\ InProgress' = InProgress
  BY <1>1, <1>2 DEF IInv, JobOK, RecorderOK, SoundRecords, Sound, NoDenial, InProgress,
                    external_start_requires_ask, Explicit, IsAsk
<1>9. retained = before' /\ RecordsStay
  BY <1>1 DEF IInv, RetainedOK, AgentRuns, RecordsStay
<1> QED BY <1>1, <1>9, <1>2, <1>3, QuietKeeps

LEMMA StartLocalKeeps == ASSUME IInv, StartLocal PROVE IInv'
<1>1. /\ AgentRuns /\ job.st = "start" /\ job.who \notin External
      /\ job' = [job EXCEPT !.st = "running"]
      /\ UNCHANGED <<plan, run, recorder, retained, sessions, used, grants, before>>
  BY DEF StartLocal, GoesOn
<1>2. job' \in Jobs /\ job'.st = "running" /\ job'.who = job.who
  BY <1>1 DEF IInv, JobOK, Jobs, JobStates
<1>3. run'.active /\ RunOK' /\ RecorderOK'
  BY <1>1 DEF IInv, AgentRuns, RunOK, RecorderOK, SoundRecords, Sound, NoDenial
<1>4. JobOK'
  BY <1>2, <1>3 DEF JobOK
<1>5. InProgress' = InProgress
  BY <1>1, <1>2 DEF InProgress
<1>9. retained = before' /\ RecordsStay
  BY <1>1 DEF IInv, RetainedOK, AgentRuns, RecordsStay
<1> QED BY <1>1, <1>9, <1>3, <1>4, <1>5, QuietKeeps

LEMMA HostBeginKeeps == ASSUME IInv, HostBegin PROVE IInv'
<1>1. /\ plan.mode = "host" /\ ~ run.active /\ run.n = 0
      /\ run' = [run EXCEPT !.n = 1, !.active = TRUE]
      /\ job' = [NoJob EXCEPT !.st = "choose"]
      /\ UNCHANGED <<plan, recorder, retained, sessions, used, grants, before>>
  BY DEF HostBegin
<1>2. RunOK' /\ run'.active
  <2>1. run \in Runs /\ run.result = "none"
    BY <1>1 DEF IInv, RunOK
  <2>2. 1 \in 0..MaxRuns
    BY LimitsAssumption
  <2>3. run' \in Runs /\ run'.n = 1 /\ run'.active /\ run'.result = "none"
    BY <1>1, <2>1, <2>2 DEF Runs
  <2> QED BY <2>3 DEF RunOK
<1>3. job' \in Jobs /\ job'.st = "choose"
  BY <1>1, NoJobIsAJob DEF Jobs, JobStates, NoJob
<1>4. JobOK'
  BY <1>2, <1>3 DEF JobOK
<1>5. RecorderOK'
  BY <1>1 DEF IInv, RecorderOK, SoundRecords, Sound, NoDenial
<1>6. InProgress' = InProgress
  BY <1>1 DEF InProgress
<1>9. retained = before' /\ RecordsStay
  BY <1>1 DEF IInv, RetainedOK, AgentRuns, RecordsStay
<1> QED BY <1>1, <1>9, <1>2, <1>4, <1>5, <1>6, QuietKeeps

LEMMA FinishTurnKeeps == ASSUME IInv, FinishTurn PROVE IInv'
<1> DEFINE denied == \E i \in DOMAIN recorder : recorder[i].denied
           end == IF denied THEN "Denied" ELSE IF run.cancelled THEN "Err" ELSE "ok"
<1>1. /\ AgentRuns /\ job.st = "between"
      /\ UNCHANGED <<plan, sessions, used, grants>>
  BY DEF FinishTurn
<1>2. /\ end \in {"ok", "Err", "Denied", "Failed"} /\ (end = "ok" => NoDenial(recorder))
      /\ ReturnBecause(end, recorder, "none") \/ ReturnBecause("Failed", recorder, "none")
  BY DEF NoDenial, FinishTurn, Return
<1> HIDE DEF end
<1>3. SoundRecords(recorder) /\ "none" \in Ends
  BY DEF IInv, RecorderOK, Ends
<1>4. Ending
  <2>1. UNCHANGED plan /\ sessions'.opened = sessions.opened /\ job.st # "none"
    BY <1>1
  <2> QED BY <1>1, <2>1, IsEnding
<1>5. EndOK'
  <2>1. CASE ReturnBecause(end, recorder, "none")
    BY <1>2, <1>3, <1>4, <2>1, ReturnEnds
  <2>2. CASE ReturnBecause("Failed", recorder, "none")
    BY <1>3, <1>4, <2>2, ReturnEnds
  <2> QED BY <1>2, <2>1, <2>2
<1>6. InProgress = {}
  BY <1>1 DEF InProgress
<1> QED BY <1>1, <1>5, <1>6, EndKeeps

LEMMA StartExternalKeeps == ASSUME IInv, StartExternal PROVE IInv'
<1>1. AgentRuns /\ job.st = "start" /\ job.who \in External
  BY DEF StartExternal
<1>2. plan.policy \in Policies
  BY DEF IInv, PlanOK
<1>3. CASE external_start_requires_ask /\ plan.policy.parent
  <2>1. /\ job' = [job EXCEPT !.st = "asking"]
        /\ UNCHANGED <<plan, run, recorder, retained, sessions, used, grants, before>>
    BY <1>3 DEF StartExternal, GoesOn
  <2>2. job' \in Jobs /\ job'.st = "asking" /\ job'.who = job.who
    BY <2>1 DEF IInv, JobOK, Jobs, JobStates
  <2>3. run'.active /\ RunOK' /\ RecorderOK'
    BY <1>1, <2>1 DEF IInv, AgentRuns, RunOK, RecorderOK, SoundRecords, Sound, NoDenial
  <2>4. external_start_requires_ask'
    BY <1>3, <2>1 DEF external_start_requires_ask, Explicit, IsAsk
  <2>5. JobOK'
    BY <1>1, <2>2, <2>3, <2>4 DEF JobOK
  <2>6. InProgress' = InProgress
    BY <1>1, <2>2 DEF InProgress
  <2>7. plan.mode # "host"
    BY <1>1 DEF AgentRuns
  <2>8. retained = before' /\ RecordsStay
    BY <1>1, <2>1 DEF IInv, RetainedOK, AgentRuns, RecordsStay
  <2> QED BY <2>1, <2>3, <2>5, <2>6, <2>7, <2>8, QuietKeeps
<1>4. CASE ~(external_start_requires_ask /\ plan.policy.parent)
  <2> DEFINE by == IF FALSE \in resolve_external_start THEN "asked" ELSE "policy"
  <2>1. \/ TRUE \in resolve_external_start /\ Open(by)
        \/ Deny
    BY <1>4, Zenon DEF StartExternal
  <2>2. CASE Deny
    BY <1>1, <2>2, DenyKeeps
  <2>3. CASE TRUE \in resolve_external_start /\ Open(by)
    <3>1. Authority(by)
      <4>1. plan.policy.own \in Tiers4 \cup {"none"} /\ plan.policy.default \in Tiers4
            /\ plan.policy.askExternal \in BOOLEAN /\ plan.policy.parent \in BOOLEAN
        BY <1>2 DEF Policies
      <4> QED BY <1>4, <2>3, <4>1 DEF Authority, resolve_external_start, decide_tier,
                  decide_ask_deferred, external_start_requires_ask, IsAsk, Explicit, Tiers4
    <3> HIDE DEF by
    <3> QED BY <1>1, <2>3, <3>1, OpenKeeps
  <2> QED BY <2>1, <2>2, <2>3
<1> QED BY <1>3, <1>4

LEMMA AnswerKeeps == ASSUME IInv, Answer PROVE IInv'
<1>1. /\ AgentRuns /\ job.st = "asking"
      /\ (TRUE \in ParentSays /\ Open("asked")) \/ Deny
  BY DEF Answer
<1>2. CASE Deny
  BY <1>1, <1>2, DenyKeeps
<1>3. CASE TRUE \in ParentSays /\ Open("asked")
  <2>1. external_start_requires_ask /\ job.who \in External
    BY <1>1 DEF IInv, JobOK
  <2>2. ~ run.cancelled
    BY <1>3 DEF ParentSays
  <2>3. Authority("asked")
    BY <2>1, <2>2 DEF Authority, external_start_requires_ask, IsAsk, Explicit
  <2> DEFINE by == "asked"
  <2>4. Authority(by) /\ Open(by)
    BY <1>3, <2>3
  <2> HIDE DEF by
  <2> QED BY <1>1, <2>1, <2>4, OpenKeeps
<1> QED BY <1>1, <1>2, <1>3

LEMMA LocalEndsKeeps == ASSUME IInv, LocalEnds PROVE IInv'
<1>1. /\ AgentRuns /\ job.st = "running" /\ job.who \notin External
      /\ UNCHANGED <<plan, sessions, used, grants>>
  BY DEF LocalEnds
<1>2. PICK status \in {"Completed", "Failed"} : Ended(Record(status, FALSE, 0))
  BY DEF LocalEnds
<1> DEFINE rec == Record(status, FALSE, 0)
<1>3. RecorderOK /\ job \in Jobs
  BY DEF IInv, JobOK
<1>4. rec \in Records /\ Sound(rec) /\ Newest(rec) /\ Ended(rec)
  BY <1>1, <1>2, <1>3 DEF Jobs, Records, Record, Sound, Newest
<1>5. Ending
  <2>1. UNCHANGED plan /\ sessions'.opened = sessions.opened /\ job.st # "none"
    BY <1>1
  <2> QED BY <1>1, <2>1, IsEnding
<1> HIDE DEF rec
<1>6. EndOK'
  BY <1>3, <1>4, <1>5, EndedEnds
<1>7. InProgress = {}
  BY <1>1 DEF InProgress
<1> QED BY <1>1, <1>6, <1>7, EndKeeps

LEMMA ExternalEndsKeeps == ASSUME IInv, ExternalEnds PROVE IInv'
<1>1. /\ AgentRuns /\ job.st = "running" /\ job.who \in External
      /\ UNCHANGED <<plan, used, grants>>
  BY DEF ExternalEnds
<1>2. PICK end \in {"committed", "abandoned", "error"} :
        /\ Ended(Record(IF end = "committed" THEN "Completed" ELSE "Failed", FALSE, job.drive))
        /\ sessions' =
             [sessions EXCEPT
               !.committed = IF end = "committed" THEN @ \cup {job.drive} ELSE @,
               !.swept = IF Swept(end) THEN @ \cup {job.drive} ELSE @]
  BY DEF ExternalEnds
<1> DEFINE status == IF end = "committed" THEN "Completed" ELSE "Failed"
           rec == Record(status, FALSE, job.drive)
<1>3. RecorderOK /\ job \in Jobs /\ sessions \in Sessions
  BY DEF IInv, JobOK, SessionsOK
<1>4. InProgress = {job.drive} /\ plan.mode # "host"
  BY <1>1 DEF InProgress, AgentRuns
<1>5. job.drive \in sessions.opened /\ job.drive \in Nat \ {0}
  BY <1>3, <1>4 DEF IInv, SessionsOK, Sessions
<1>6. /\ sessions' \in Sessions
      /\ sessions'.opened = sessions.opened /\ sessions'.left = sessions.left
      /\ sessions'.committed =
           IF end = "committed" THEN sessions.committed \cup {job.drive} ELSE sessions.committed
      /\ sessions'.swept =
           IF end # "committed" THEN sessions.swept \cup {job.drive} ELSE sessions.swept
  BY <1>2, <1>3, <1>5 DEF Sessions, Swept
<1>7. rec \in Records /\ Sound(rec) /\ Newest(rec) /\ Ended(rec)
  <2>1. status \in {"Completed", "Failed"}
    OBVIOUS
  <2> HIDE DEF status
  <2>2. rec \in Records /\ Sound(rec)
    BY <1>3, <1>5, <2>1 DEF Jobs, Records, Record, Sound
  <2>3. Newest(rec)
    BY <1>4 DEF IInv, SessionsOK, Newest, Record
  <2> QED BY <1>2, <2>2, <2>3 DEF status
<1>8. Ending
  <2>1. UNCHANGED plan /\ sessions'.opened = sessions.opened /\ job.st # "none"
    BY <1>1, <1>6
  <2> QED BY <1>1, <2>1, IsEnding
<1> HIDE DEF rec, status
<1>9. EndOK'
  BY <1>3, <1>7, <1>8, EndedEnds
<1>10. PlanOK' /\ HostOK'
  BY <1>1, <1>4 DEF IInv, PlanOK, HostOK
<1>11. SessionsOK'
  <2>1. InProgress' = {}
    BY <1>9 DEF EndOK, InProgress
  <2>2. IsFiniteSet(sessions'.opened)
    BY <1>6 DEF IInv, SessionsOK
  <2>3. /\ sessions.committed \subseteq sessions.opened /\ sessions.swept \subseteq sessions.opened
        /\ sessions.opened \subseteq
             sessions.committed \cup sessions.swept \cup sessions.left \cup {job.drive}
    BY <1>4 DEF IInv, SessionsOK
  <2>4. sessions'.opened = 1..Cardinality(sessions'.opened)
    BY <1>6 DEF IInv, SessionsOK
  <2> QED BY <1>5, <1>6, <2>1, <2>2, <2>3, <2>4 DEF SessionsOK
<1>12. ExternalStartIsAuthorised' /\ NoStrongerWorkerLeft'
  BY <1>1, <1>4 DEF IInv, ExternalStartIsAuthorised, NoStrongerWorkerLeft, Explicit
<1> QED BY <1>9, <1>10, <1>11, <1>12 DEF IInv, EndOK

LEMMA DropKeeps == ASSUME IInv, Drop PROVE IInv'
<1>1. /\ AgentRuns /\ plan.mode # "host"
      /\ run' = [run EXCEPT !.active = FALSE, !.result = "Dropped"]
      /\ job' = NoJob
      /\ sessions' = [sessions EXCEPT !.left = IF job.st = "running" THEN @ \cup ({job.drive} \ {0})
                                               ELSE @]
      /\ UNCHANGED <<plan, recorder, retained, used, grants, before>>
  BY DEF Drop, AgentRuns
<1>2. run \in Runs /\ run.active /\ run.n # 0 /\ job \in Jobs /\ sessions \in Sessions
  BY <1>1 DEF IInv, RunOK, JobOK, SessionsOK, AgentRuns
<1>3. run' \in Runs /\ run'.active = FALSE /\ run'.result = "Dropped" /\ run'.n = run.n
  BY <1>1, <1>2 DEF Runs, Ends
<1>4. RunOK'
  BY <1>2, <1>3 DEF RunOK
<1>5. job' \in Jobs /\ job'.st = "none" /\ job'.why = "none"
  BY <1>1, NoJobIsAJob DEF NoJob
<1>6. JobOK'
  BY <1>5 DEF JobOK
<1>7. /\ sessions' \in Sessions
      /\ sessions'.opened = sessions.opened
      /\ sessions'.committed = sessions.committed /\ sessions'.swept = sessions.swept
      /\ sessions'.left =
           IF job.st = "running" THEN sessions.left \cup ({job.drive} \ {0}) ELSE sessions.left
  BY <1>1, <1>2 DEF Sessions, Jobs
<1>8. PlanOK' /\ HostOK' /\ RetainedOK' /\ retained' = before'
  BY <1>1, <1>2, <1>3, <1>7 DEF IInv, PlanOK, HostOK, RetainedOK
<1>9. RecorderOK'
  BY <1>1, <1>3, <1>7 DEF IInv, RecorderOK, SoundRecords, Sound
<1>10. SessionsOK'
  <2>1. InProgress' = {}
    BY <1>5 DEF InProgress
  <2>2. InProgress \subseteq sessions'.left
    <3>1. ASSUME InProgress # {} PROVE InProgress = {job.drive} /\ job.st = "running"
      BY <3>1 DEF InProgress
    <3>2. InProgress \subseteq Nat \ {0}
      BY <1>2 DEF IInv, SessionsOK, Sessions
    <3> QED BY <1>7, <3>1, <3>2
  <2>3. sessions.left \subseteq sessions'.left
    BY <1>7
  <2>4. IsFiniteSet(sessions'.opened)
    BY <1>7 DEF IInv, SessionsOK
  <2>5. /\ sessions.committed \subseteq sessions.opened /\ sessions.swept \subseteq sessions.opened
        /\ sessions.opened \subseteq
             sessions.committed \cup sessions.swept \cup sessions.left \cup InProgress
        /\ sessions.opened = 1..Cardinality(sessions.opened)
    BY DEF IInv, SessionsOK
  <2>6. /\ sessions'.opened = sessions.opened /\ sessions'.committed = sessions.committed
        /\ sessions'.swept = sessions.swept /\ sessions' \in Sessions
    BY <1>7
  <2> QED BY <2>1, <2>2, <2>3, <2>4, <2>5, <2>6 DEF SessionsOK
<1>11. ExternalStartIsAuthorised' /\ NoStrongerWorkerLeft'
  BY <1>1 DEF IInv, ExternalStartIsAuthorised, NoStrongerWorkerLeft, Explicit
<1>12. RetainedIsOfLastRun' /\ PrimaryIsEscalated'
  BY <1>3, <1>8 DEF RetainedIsOfLastRun, PrimaryIsEscalated
<1> QED BY <1>4, <1>6, <1>8, <1>9, <1>10, <1>11, <1>12 DEF IInv

(* What follows a rejection is well-formed, and it is the end only when there *)
(* is no other worker, when the evaluator says so, or at the strong worker.  *)
LEMMA EscalationTargetsType ==
    ASSUME IInv, NEW c \in EscalationTargets
    PROVE  /\ c \in Choices
           /\ c.outcome = "Exhausted" => Strong \in {Nobody, Primary} \/ job.who # Primary
<1>1. Nobody \in Nat /\ Primary \in Nat \ {Nobody} /\ {Strong, Verifier} \subseteq Nat
  <2>1. Nobody = 0
    BY DEF Nobody
  <2>2. Workers \subseteq Nat \ {Nobody} /\ Primary \in Workers
    BY <2>1, WorkersAssumption
  <2>3. Strong \in Workers \cup {Nobody} /\ Verifier \in Workers \cup {Nobody}
    BY WorkersAssumption
  <2>4. Nobody \in Nat
    BY <2>1
  <2> QED BY <2>2, <2>3, <2>4
<1>2. CASE Strong = Nobody
  <2>1. c = Choice("Exhausted", Nobody)
    BY <1>2 DEF EscalationTargets
  <2> QED BY <1>1, <1>2, <2>1 DEF Choice, Choices, Outcomes
<1>3. CASE Strong # Nobody /\ plan.evaluator
  <2>1. \/ \E w \in {Primary, Strong, Verifier} : c = Choice("Escalation", w)
        \/ c = Choice("Evaluator", Nobody)
    BY <1>3 DEF EscalationTargets
  <2>2. \E w \in Nat : c = Choice("Escalation", w) \/ c = Choice("Evaluator", w)
    BY <1>1, <2>1
  <2> QED BY <2>2 DEF Choice, Choices, Outcomes
<1>4. CASE Strong # Nobody /\ ~ plan.evaluator
  <2> DEFINE r == build_dispatcher_roster
             t == dispatcher_task_descriptor
  <2>1. c = assess(t, r, job.who, {"ReviewRejected"}, "none", FALSE, run.cancelled)
    BY <1>4 DEF EscalationTargets
  <2>2. /\ DOMAIN r = {Primary, Strong}
        /\ r[Primary] = [capable |-> TRUE, tier |-> 1, on |-> Upward, to |-> Strong, human |-> FALSE]
        /\ Strong # Primary =>
             r[Strong] = [capable |-> TRUE, tier |-> 3, on |-> {}, to |-> Nobody, human |-> FALSE]
    BY DEF build_dispatcher_roster
  <2>3. Roster(r)
    <3>1. /\ [capable |-> TRUE, tier |-> 1, on |-> Upward, to |-> Strong, human |-> FALSE]
               \in Profiles(Nat)
          /\ [capable |-> TRUE, tier |-> 3, on |-> {}, to |-> Nobody, human |-> FALSE]
               \in Profiles(Nat)
      BY <1>1 DEF Profiles, Tiers, Triggers
    <3>2. \A w \in {Primary, Strong} : r[w] \in Profiles(Nat)
      BY <2>2, <3>1
    <3>3. r = [w \in {Primary, Strong} |-> r[w]]
      BY DEF build_dispatcher_roster
    <3> HIDE DEF r
    <3>4. r \in [{Primary, Strong} -> Profiles(Nat)]
      BY <3>2, <3>3
    <3> QED BY <1>1, <1>4, <2>2, <3>4 DEF Roster
  <2> HIDE DEF r, t
  <2>4. c \in Choices
    BY <2>1, <2>3, AssessType
  <2>5. ASSUME Strong # Primary, job.who = Primary PROVE c.outcome # "Exhausted"
    <3> DEFINE triggers == effective_triggers(t, {"ReviewRejected"}, "none")
    <3>1. triggers = {"ReviewRejected"}
      BY DEF effective_triggers
    <3>2. primary_upward(triggers) = "ReviewRejected"
      BY <3>1 DEF primary_upward
    <3>3. Primary \in DOMAIN r /\ Strong \in Capable(r)
      BY <2>2, <2>5 DEF Capable
    <3>4. upgrade_target(r, Primary, "ReviewRejected") = Strong
      BY <2>2, <2>5, <3>3 DEF upgrade_target, Upward
    <3>5. upward_action(r, Primary, "ReviewRejected") = Choice("Escalation", Strong)
      BY <1>4, <3>4 DEF upward_action
    <3>6. c = Choice("Error", Nobody) \/ c = Choice("Escalation", Strong)
      <4>1. c = IF run.cancelled THEN Choice("Error", Nobody)
                ELSE IF triggers = {} THEN Choice("Accept", Nobody)
                ELSE IF Primary \notin DOMAIN r THEN Choice("Unknown", Nobody)
                ELSE IF "BudgetExhausted" \in triggers \/ FALSE THEN budget_action(r, Primary)
                ELSE upward_action(r, Primary, primary_upward(triggers))
        BY <2>1, <2>5, Zenon DEF assess
      <4>2. triggers # {} /\ "BudgetExhausted" \notin triggers
        BY <3>1
      <4> HIDE DEF triggers
      <4> QED BY <3>2, <3>3, <3>5, <4>1, <4>2
    <3> QED BY <3>6 DEF Choice
  <2> QED BY <2>4, <2>5
<1> QED BY <1>2, <1>3, <1>4

LEMMA EscalateKeeps == ASSUME IInv, Escalate PROVE IInv'
<1>1. job.st = "rejected" /\ UNCHANGED <<plan, sessions, used, grants>>
  BY DEF Escalate
<1>2. /\ run.active /\ plan.mode = "dispatcher" /\ job \in Jobs
      /\ SoundRecords(recorder) /\ NoDenial(recorder)
  BY <1>1 DEF IInv, JobOK, RecorderOK
<1>3. AgentRuns /\ InProgress = {}
  BY <1>1, <1>2 DEF AgentRuns, InProgress
<1>4. Ending
  <2>1. UNCHANGED plan /\ sessions'.opened = sessions.opened /\ job.st # "none"
    BY <1>1
  <2> QED BY <1>3, <2>1, IsEnding
<1>5. EndOK'
  <2>1. CASE LastAttempt
    <3>1. ReturnBecause("ok", recorder, "none")
      BY <2>1 DEF Escalate, Return
    <3>2. "none" \in Ends
      BY DEF Ends
    <3> QED BY <1>2, <1>4, <3>1, <3>2, ReturnEnds
  <2>2. CASE ~ LastAttempt
    <3>1. PICK c \in EscalationTargets :
            \/ c.outcome = "Error" /\ Return("Err", recorder)
            \/ c.worker = Nobody /\ c.outcome # "Error" /\ ReturnBecause("ok", recorder, c.outcome)
            \/ GoesOn([NoJob EXCEPT !.who = c.worker, !.role = "worker", !.st = "start",
                                    !.attempt = job.attempt + 1], recorder)
      BY <2>2 DEF Escalate
    <3>2. /\ c \in Choices
          /\ c.outcome = "Exhausted" => Strong \in {Nobody, Primary} \/ job.who # Primary
      BY EscalationTargetsType
    <3>3. c.outcome \in Ends /\ c.worker \in Nat /\ "none" \in Ends
      BY <3>2 DEF Choices, Ends
    <3>4. CASE Return("Err", recorder)
      <4>1. ReturnBecause("Err", recorder, "none")
        BY <3>4 DEF Return
      <4> QED BY <1>2, <1>4, <3>3, <4>1, ReturnEnds
    <3>5. CASE ReturnBecause("ok", recorder, c.outcome)
      <4> DEFINE why == c.outcome
      <4>1. /\ why \in Ends /\ ReturnBecause("ok", recorder, why)
            /\ why = "Exhausted" => Strong \in {Nobody, Primary} \/ job.who # Primary
        BY <3>2, <3>3, <3>5
      <4> HIDE DEF why
      <4> QED BY <1>2, <1>4, <4>1, ReturnEnds
    <3>6. CASE GoesOn([NoJob EXCEPT !.who = c.worker, !.role = "worker", !.st = "start",
                                    !.attempt = job.attempt + 1], recorder)
      <4> DEFINE j == [NoJob EXCEPT !.who = c.worker, !.role = "worker", !.st = "start",
                                    !.attempt = job.attempt + 1]
      <4>1. job.attempt + 1 \in 0..MaxAttempts
        BY <1>2, <2>2, LimitsAssumption DEF Jobs, LastAttempt
      <4>2. j \in Jobs /\ j.st = "start"
        BY <3>3, <4>1, NoJobIsAJob DEF Jobs, JobStates, NoJob
      <4>3. GoesOn(j, recorder)
        BY <3>6
      <4> HIDE DEF j
      <4> QED BY <1>2, <1>4, <4>2, <4>3, GoingOn
    <3> QED BY <3>1, <3>4, <3>5, <3>6
  <2> QED BY <2>1, <2>2
<1> QED BY <1>1, <1>3, <1>5, EndKeeps

(* A step of a host.                                                         *)
LEMMA HostKeeps ==
    ASSUME IInv, plan.mode = "host", run.active, RunOK', JobOK', used' \in 0..StepLimit,
           run'.result \notin {"ok", "Err"}, NoStrongerWorkerLeft',
           UNCHANGED <<plan, recorder, retained, sessions, grants, before>>
    PROVE  IInv'
<1>1. PlanOK' /\ RetainedOK' /\ HostOK' /\ retained' = before'
  BY DEF IInv, PlanOK, RetainedOK, HostOK
<1>2. RecorderOK'
  BY DEF IInv, RecorderOK, SoundRecords, Sound, NoDenial
<1>3. SessionsOK'
  <2>1. InProgress = {} /\ InProgress' = {}
    BY DEF InProgress
  <2> QED BY <2>1 DEF IInv, SessionsOK
<1>4. ExternalStartIsAuthorised'
  BY DEF IInv, ExternalStartIsAuthorised, Explicit
<1>5. RetainedIsOfLastRun' /\ PrimaryIsEscalated'
  <2>1. DOMAIN recorder' = {}
    BY DEF IInv, HostOK
  <2>2. \A w : DrivesOf(recorder', w) = {}
    BY <2>1 DEF DrivesOf
  <2> QED BY <1>1, <2>1, <2>2 DEF RetainedIsOfLastRun, PrimaryIsEscalated
<1> QED BY <1>1, <1>2, <1>3, <1>4, <1>5 DEF IInv

(* The host's task goes on with another worker.                              *)
LEMMA AssignedKeeps ==
    ASSUME IInv, plan.mode = "host", run.active, NEW c \in Choices, HostAssigned(c, "running"),
           used' \in 0..StepLimit,
           UNCHANGED <<plan, recorder, retained, sessions, grants, before>>
    PROVE  IInv'
<1>1. /\ job' = [job EXCEPT !.prev = job.who, !.who = c.worker, !.why = c.outcome, !.st = "running"]
      /\ run' = run
  BY DEF HostAssigned
<1>2. job \in Jobs /\ run.result = "none"
  BY DEF IInv, JobOK, RunOK
<1>3. c.worker \in Nat /\ c.outcome \in Ends
  BY DEF Choices, Ends
<1>4. job' \in Jobs /\ job'.st = "running"
  BY <1>1, <1>2, <1>3 DEF Jobs, JobStates
<1>5. JobOK' /\ RunOK'
  BY <1>1, <1>4 DEF IInv, JobOK, RunOK
<1>6. NoStrongerWorkerLeft' /\ run'.result \notin {"ok", "Err"}
  BY <1>1, <1>2 DEF NoStrongerWorkerLeft
<1> QED BY <1>5, <1>6, HostKeeps

(* The host's task is settled.                                               *)
LEMMA SettledKeeps ==
    ASSUME IInv, plan.mode = "host", run.active, NEW outcome \in Ends \ {"ok", "Err"},
           HostSettled(outcome), used' \in 0..StepLimit,
           outcome \in {"Human", "Exhausted"} =>
              \A w \in Capable(plan.roster) : plan.roster[w].tier <= plan.roster[job.who].tier,
           UNCHANGED <<plan, recorder, retained, sessions, grants, before>>
    PROVE  IInv'
<1>1. /\ run' = [run EXCEPT !.active = FALSE, !.result = outcome]
      /\ job' = [job EXCEPT !.st = "none", !.why = outcome]
  BY DEF HostSettled
<1>2. job \in Jobs /\ run \in Runs /\ run.n # 0
  BY DEF IInv, JobOK, RunOK
<1>3. job' \in Jobs /\ job'.st = "none" /\ job'.who = job.who
  BY <1>1, <1>2 DEF Jobs, JobStates
<1>4. run' \in Runs /\ ~ run'.active /\ run'.n = run.n /\ run'.result = outcome
  BY <1>1, <1>2 DEF Runs
<1>5. JobOK' /\ RunOK'
  BY <1>2, <1>3, <1>4 DEF JobOK, RunOK
<1>6. NoStrongerWorkerLeft'
  BY <1>3, <1>4 DEF NoStrongerWorkerLeft
<1>7. run'.result \notin {"ok", "Err"}
  BY <1>4
<1> QED BY <1>5, <1>6, <1>7, HostKeeps

LEMMA DispatchType ==
    ASSUME NEW r, Roster(r), NEW t, NEW limit, NEW u, NEW headroom, NEW isCancelled, NEW says
    PROVE  dispatch(t, r, limit, u, headroom, isCancelled, says) \in Choices
<1>1. \A w : finish(r, w, "BudgetDowngrade") \in Choices /\ finish(r, w, "RuleRoute") \in Choices
             /\ finish(r, w, "Evaluator") \in Choices
  BY DEF Roster, finish, Choice, Choices, Outcomes, Nobody
<1>2. Choice("Error", Nobody) \in Choices
  BY DEF Choice, Choices, Outcomes, Nobody
<1> QED BY <1>1, <1>2, Zenon DEF dispatch, downgrade

LEMMA HostDispatchKeeps == ASSUME IInv, HostDispatch PROVE IInv'
<1>1. /\ plan.mode = "host" /\ run.active
      /\ used' = IF AsksEvaluator(plan.task, plan.roster, StepLimit, used, Headroom, run.cancelled)
                 THEN used + 1 ELSE used
      /\ UNCHANGED <<plan, recorder, retained, sessions, grants, before>>
  BY DEF HostDispatch
<1>2. Roster(plan.roster) /\ used \in 0..StepLimit
  BY <1>1 DEF IInv, PlanOK, HostOK
<1>3. used' \in 0..StepLimit
  <2>1. AsksEvaluator(plan.task, plan.roster, StepLimit, used, Headroom, run.cancelled)
          => used < StepLimit
    BY <1>2, LimitsAssumption DEF AsksEvaluator
  <2> QED BY <1>1, <1>2, <2>1, LimitsAssumption
<1>4. PICK says \in DOMAIN plan.roster \cup {Nobody} :
        LET c == dispatch(plan.task, plan.roster, StepLimit, used, Headroom, run.cancelled, says)
        IN  IF c.outcome = "Error" THEN HostSettled("Error") ELSE HostAssigned(c, "running")
  BY DEF HostDispatch
<1> DEFINE c == dispatch(plan.task, plan.roster, StepLimit, used, Headroom, run.cancelled, says)
<1>5. c \in Choices
  BY <1>2, DispatchType
<1>6. HostSettled("Error") \/ HostAssigned(c, "running")
  BY <1>4
<1> HIDE DEF c
<1>7. CASE HostSettled("Error")
  <2> DEFINE outcome == "Error"
  <2>1. outcome \in Ends \ {"ok", "Err"} /\ HostSettled(outcome)
        /\ outcome \notin {"Human", "Exhausted"}
    BY <1>7 DEF Ends, Outcomes
  <2> HIDE DEF outcome
  <2> QED BY <1>1, <1>3, <2>1, SettledKeeps
<1>8. CASE HostAssigned(c, "running")
  BY <1>1, <1>3, <1>5, <1>8, AssignedKeeps
<1> QED BY <1>6, <1>7, <1>8

(* Nobody else is assigned only when the budget forbids it or no able worker *)
(* is stronger.                                                              *)
LEMMA AssessGivesUp ==
    ASSUME NEW r, Roster(r), NEW t, NEW cur, NEW report, NEW verdict, NEW low, NEW isCancelled,
           LET c == assess(t, r, cur, report, verdict, low, isCancelled)
               down == low \/ "BudgetExhausted" \in effective_triggers(t, report, verdict)
           IN  c.outcome = "Exhausted" \/ (c.outcome = "Human" /\ ~ down)
    PROVE  \A w \in Capable(r) : r[w].tier <= r[cur].tier
<1> DEFINE triggers == effective_triggers(t, report, verdict)
           up == primary_upward(triggers)
           down == low \/ "BudgetExhausted" \in triggers
           c == assess(t, r, cur, report, verdict, low, isCancelled)
<1>1. c.outcome = "Exhausted" \/ (c.outcome = "Human" /\ ~ down)
  OBVIOUS
<1>2. \/ c = Choice("Error", Nobody) \/ c = Choice("Accept", Nobody)
      \/ c = Choice("Unknown", Nobody)
      \/ down /\ c = budget_action(r, cur)
      \/ cur \in DOMAIN r /\ c = upward_action(r, cur, up)
  BY Zenon DEF assess
<1> HIDE DEF c, down, triggers, up
<1>3. cur \in DOMAIN r /\ c = upward_action(r, cur, up)
  <2>1. budget_action(r, cur).outcome # "Exhausted"
    BY DEF budget_action, Choice
  <2> QED BY <1>1, <1>2, <2>1 DEF Choice
<1>4. upgrade_target(r, cur, up) = Nobody
  BY <1>1, <1>3 DEF upward_action, Choice
<1> QED BY <1>3, <1>4, NoUpgrade

LEMMA HostReportKeeps == ASSUME IInv, HostReport PROVE IInv'
<1>1. /\ plan.mode = "host" /\ run.active
      /\ UNCHANGED <<plan, recorder, retained, sessions, grants, before>>
  BY DEF HostReport
<1>2. Roster(plan.roster) /\ used \in 0..StepLimit
  BY <1>1 DEF IInv, PlanOK, HostOK
<1>3. PICK charged \in {0, 1}, report \in {{}} \cup {{t} : t \in Triggers},
           verdict \in {"none", "ReviewRejected"} :
        LET now == IF used + charged > StepLimit THEN used ELSE used + charged
            c == assess(plan.task, plan.roster, job.who, report, verdict,
                        budget_is_low(StepLimit, now, Headroom), run.cancelled)
            down == \/ budget_is_low(StepLimit, now, Headroom)
                    \/ "BudgetExhausted" \in effective_triggers(plan.task, report, verdict)
        IN  /\ used' = now
            /\ IF c.outcome \in {"Escalation", "BudgetDowngrade"}
               THEN HostAssigned(c, "running")
               ELSE HostSettled(IF c.outcome = "Human" /\ down THEN "HumanForBudget"
                                ELSE c.outcome)
  BY Zenon DEF HostReport
<1> DEFINE now == IF used + charged > StepLimit THEN used ELSE used + charged
           low == budget_is_low(StepLimit, now, Headroom)
           c == assess(plan.task, plan.roster, job.who, report, verdict, low, run.cancelled)
           down == \/ low
                   \/ "BudgetExhausted" \in effective_triggers(plan.task, report, verdict)
           outcome == IF c.outcome = "Human" /\ down THEN "HumanForBudget" ELSE c.outcome
<1>4. /\ used' = now
      /\ HostAssigned(c, "running") \/ HostSettled(outcome)
  BY <1>3, Zenon
<1>5. used' \in 0..StepLimit
  <2>1. charged \in Nat /\ now \in 0..StepLimit
    BY <1>2, LimitsAssumption
  <2> QED BY <1>4, <2>1
<1>6. c \in Choices
  BY <1>2, AssessType
<1>7. outcome \in {"Human", "Exhausted"} =>
        \A w \in Capable(plan.roster) : plan.roster[w].tier <= plan.roster[job.who].tier
  <2> SUFFICES ASSUME outcome \in {"Human", "Exhausted"}
               PROVE  \A w \in Capable(plan.roster) : plan.roster[w].tier <= plan.roster[job.who].tier
    OBVIOUS
  <2> HIDE DEF low
  <2>1. ~(c.outcome = "Human" /\ down)
    <3>1. CASE c.outcome = "Human" /\ down
      <4>1. outcome = "HumanForBudget"
        BY <3>1, Zenon
      <4> HIDE DEF outcome
      <4> QED BY <4>1
    <3> QED BY <3>1
  <2>2. outcome = c.outcome
    BY <2>1, Zenon
  <2>3. c.outcome = "Exhausted" \/ (c.outcome = "Human" /\ ~ down)
    <3> HIDE DEF c, down, outcome
    <3>1. c.outcome = "Human" \/ c.outcome = "Exhausted"
      BY <2>2
    <3> QED BY <2>1, <3>1, Zenon
  <2> QED BY <1>2, <2>3, AssessGivesUp
<1> HIDE DEF now, low, c, down
<1>8. outcome \in Ends \ {"ok", "Err"}
  <2>1. c.outcome \in Outcomes
    BY <1>6 DEF Choices
  <2> QED BY <2>1 DEF Ends, Outcomes
<1> HIDE DEF outcome
<1> QED BY <1>1, <1>4, <1>5, <1>6, <1>7, <1>8, AssignedKeeps, SettledKeeps

LEMMA StepKeeps == ASSUME IInv, [DelegationNext]_delegationVars PROVE IInv'
<1>1. CASE Begin
  BY <1>1, BeginKeeps
<1>2. CASE Call
  BY <1>2, CallKeeps
<1>3. CASE FinishTurn
  BY <1>3, FinishTurnKeeps
<1>4. CASE StartLocal
  BY <1>4, StartLocalKeeps
<1>5. CASE StartExternal
  BY <1>5, StartExternalKeeps
<1>6. CASE Answer
  BY <1>6, AnswerKeeps
<1>7. CASE LocalEnds
  BY <1>7, LocalEndsKeeps
<1>8. CASE ExternalEnds
  BY <1>8, ExternalEndsKeeps
<1>9. CASE Escalate
  BY <1>9, EscalateKeeps
<1>10. CASE Cancel
  BY <1>10, CancelKeeps
<1>11. CASE Drop
  BY <1>11, DropKeeps
<1>12. CASE HostBegin
  BY <1>12, HostBeginKeeps
<1>13. CASE HostDispatch
  BY <1>13, HostDispatchKeeps
<1>14. CASE HostReport
  BY <1>14, HostReportKeeps
<1>15. CASE UNCHANGED delegationVars
  <2>1. /\ plan' = plan /\ run' = run /\ job' = job /\ recorder' = recorder
        /\ retained' = retained /\ sessions' = sessions /\ used' = used
        /\ grants' = grants /\ before' = before
    BY <1>15 DEF delegationVars
  <2>2. PlanOK' /\ RunOK' /\ RetainedOK' /\ HostOK'
    BY <2>1 DEF IInv, PlanOK, RunOK, RetainedOK, HostOK
  <2>3. JobOK'
    BY <2>1 DEF IInv, JobOK, external_start_requires_ask, Explicit, IsAsk
  <2>4. RecorderOK'
    BY <2>1 DEF IInv, RecorderOK, SoundRecords, Sound, NoDenial
  <2>5. SessionsOK'
    BY <2>1 DEF IInv, SessionsOK, InProgress
  <2>6. ExternalStartIsAuthorised' /\ PrimaryIsEscalated'
    BY <2>1 DEF IInv, ExternalStartIsAuthorised, PrimaryIsEscalated, Explicit
  <2>8. RetainedIsOfLastRun'
    BY <2>1 DEF IInv, RetainedIsOfLastRun
  <2>7. NoStrongerWorkerLeft'
    BY <2>1 DEF IInv, NoStrongerWorkerLeft
  <2> QED BY <2>2, <2>3, <2>4, <2>5, <2>6, <2>7, <2>8 DEF IInv
<1> QED BY <1>1, <1>2, <1>3, <1>4, <1>5, <1>6, <1>7, <1>8, <1>9, <1>10, <1>11, <1>12, <1>13,
           <1>14, <1>15 DEF DelegationNext

-----------------------------------------------------------------------------
(***************************************************************************)
(* What the module is for.                                                 *)
(***************************************************************************)

LEMMA InvariantHolds == DelegationSpec => []IInv
<1>1. DelegationInit => IInv
  BY InitHolds
<1>2. IInv /\ [DelegationNext]_delegationVars => IInv'
  BY StepKeeps
<1> QED BY <1>1, <1>2, PTL DEF DelegationSpec

(* An external agent starts only on the authority that the approval policy   *)
(* names, whatever the policy, and never on a yes that a cancelled run got:  *)
(* FacadeApproval::resolve_external_start and its parent's answer.           *)
THEOREM AuthorityCorrect == DelegationSpec => []ExternalStartIsAuthorised
<1>1. IInv => ExternalStartIsAuthorised
  BY InvariantImplies
<1> QED BY <1>1, InvariantHolds, PTL

(* Every session an external delegate opened is committed, swept or left to  *)
(* the registry by a drop, and what is kept between runs is a drive of the   *)
(* last run, for any number of delegates, calls, attempts and runs: the      *)
(* recording machine, the sweep and last_external_sessions.                  *)
THEOREM SessionsCorrect == DelegationSpec => []SessionInv
<1>1. IInv => SessionInv
  BY InvariantImplies
<1> QED BY <1>1, InvariantHolds, PTL

(* Neither the facade's dispatcher nor a host gives a task up while a        *)
(* stronger able worker is left, whatever the roster and its escalation      *)
(* rules: Escalator::assess, with its upgrade and downgrade targets.         *)
THEOREM StrongestCorrect == DelegationSpec => []StrongestWorkerIsTried
<1>1. IInv => StrongestWorkerIsTried
  BY InvariantImplies
<1> QED BY <1>1, InvariantHolds, PTL
-----------------------------------------------------------------------------
(***************************************************************************)
(* Cancellation tokens (Cancellation), a specification of its own.         *)
(***************************************************************************)

(* Parents are older than their children, so a chain never changes. *)
ChainInv ==
    \A t \in Tokens :
        /\ t \in ancestry[t]
        /\ t \notin live => parent[t] = NoToken
        /\ parent[t] # NoToken => parent[t] \in live /\ ancestry[t] = ancestry[parent[t]] \cup {t}
        /\ parent[t] = NoToken => ancestry[t] = {t}

(* A notification in the making is for a flag that is set. *)
StoringInv == \A c \in Cancellers : storing[c] # NoToken => flag[storing[c]]

(* The futures made so far, and what they were notified of. *)
ArmedInv ==
    \A w \in Waiters :
        phase[w] # "Idle" =>
            /\ token[w] \in live
            /\ armed[w] \subseteq ancestry[token[w]]
            /\ \A link \in woken[w] : link \in armed[w] /\ flag[link]

(* How far the walk along the chain has got. *)
WalkInv ==
    \A w \in Waiters :
        /\ phase[w] \in {"Arming", "Checking"} =>
               at[w] \in live /\ ancestry[at[w]] \subseteq ancestry[token[w]]
        /\ phase[w] = "Arming" => ancestry[token[w]] \ ancestry[at[w]] \subseteq armed[w]
        /\ phase[w] \in {"Checking", "Parked"} => ancestry[token[w]] \subseteq armed[w]

(* The part of NoLostWakeup that holds while the flags are being read. *)
CheckedInv ==
    \A w \in Waiters :
        phase[w] = "Checking" =>
            \A link \in ancestry[token[w]] \ ancestry[at[w]] : flag[link] => WakeDue(w, link)

TokensInv ==
    /\ TokensTypeOK /\ ChainInv /\ StoringInv /\ ArmedInv /\ WalkInv /\ CheckedInv
    /\ NoLostWakeup /\ ReturnsOnlyIfCancelled

LEMMA InitTokens == TokensInit => TokensInv
  BY RootAssumption, NoTokenAssumption
  DEF TokensInit, TokensInv, TokensTypeOK, ChainInv, StoringInv, ArmedInv, WalkInv, CheckedInv,
      NoLostWakeup, ReturnsOnlyIfCancelled, MaybeToken, Phases

(* A link read as unset and stored to later is still to be notified. *)
LEMMA StoreStep ==
    ASSUME TokensInv, NEW c \in Cancellers, NEW t \in Tokens, StoreFlag(c, t)
    PROVE  TokensInv'
<1> USE NoTokenAssumption DEF TokensInv, StoreFlag, waiterVars
<1>1. TokensTypeOK'
  BY DEF TokensTypeOK, MaybeToken
<1>2. ChainInv' /\ WalkInv'
  BY DEF ChainInv, WalkInv
<1>3. StoringInv'
  BY DEF StoringInv, TokensTypeOK, MaybeToken
<1>4. ArmedInv'
  BY DEF ArmedInv, TokensTypeOK
<1>5. ASSUME NEW w \in Waiters, NEW link \in Tokens, flag'[link], flag[link] => WakeDue(w, link)
      PROVE  WakeDue(w, link)'
  <2>1. CASE link = t
    BY <1>5, <2>1 DEF WakeDue, TokensTypeOK
  <2>2. CASE link # t
    <3>1. flag[link]
      BY <1>5, <2>2 DEF TokensTypeOK
    <3>2. WakeDue(w, link)
      BY <1>5, <3>1
    <3> QED BY <3>2 DEF WakeDue, TokensTypeOK
  <2> QED BY <2>1, <2>2
<1>6. CheckedInv'
  BY <1>5 DEF CheckedInv, TokensTypeOK, ArmedInv
<1>7. NoLostWakeup'
  BY <1>5 DEF NoLostWakeup, TokensTypeOK, ArmedInv
<1>8. ReturnsOnlyIfCancelled'
  BY DEF ReturnsOnlyIfCancelled, IsCancelled, TokensTypeOK
<1> QED BY <1>1, <1>2, <1>3, <1>4, <1>6, <1>7, <1>8

(* Every link a parked task depends on has a future, so a notification *)
(* reaches it.                                                         *)
LEMMA NotifyStep ==
    ASSUME TokensInv, NEW c \in Cancellers, NotifyWaiters(c)
    PROVE  TokensInv'
<1> USE NoTokenAssumption DEF TokensInv, NotifyWaiters
<1>0. storing[c] \in Tokens /\ flag[storing[c]]
  BY DEF TokensTypeOK, MaybeToken, StoringInv
<1>1. TokensTypeOK'
  BY <1>0 DEF TokensTypeOK, MaybeToken
<1>2. ChainInv' /\ WalkInv'
  BY DEF ChainInv, WalkInv
<1>3. StoringInv'
  BY DEF StoringInv, TokensTypeOK
<1>4. ArmedInv'
  BY <1>0 DEF ArmedInv, TokensTypeOK, Notified
<1>5. ASSUME NEW w \in Waiters, NEW link \in armed[w], phase[w] \in {"Checking", "Parked"},
             WakeDue(w, link)
      PROVE  WakeDue(w, link)'
  <2>1. CASE link = storing[c]
    BY <1>5, <2>1 DEF WakeDue, Notified, TokensTypeOK
  <2>2. CASE link # storing[c]
    BY <1>5, <2>2 DEF WakeDue, TokensTypeOK
  <2> QED BY <2>1, <2>2
<1>6. CheckedInv'
  BY <1>5 DEF CheckedInv, WalkInv
<1>7. NoLostWakeup'
  BY <1>5 DEF NoLostWakeup, WalkInv
<1>8. ReturnsOnlyIfCancelled'
  BY DEF ReturnsOnlyIfCancelled, IsCancelled
<1> QED BY <1>1, <1>2, <1>3, <1>4, <1>6, <1>7, <1>8

(* The chains in use belong to live tokens and do not change. *)
LEMMA DeriveStep ==
    ASSUME TokensInv, NEW t \in Tokens, NEW child \in Tokens, derive_child(t, child)
    PROVE  TokensInv'
<1> USE NoTokenAssumption DEF TokensInv, derive_child, waiterVars
<1>1. TokensTypeOK'
  BY DEF TokensTypeOK, MaybeToken
<1>2. \A x \in live : ancestry'[x] = ancestry[x] /\ parent'[x] = parent[x] /\ x \in live'
  BY DEF TokensTypeOK
<1>3. ChainInv'
  <2> SUFFICES ASSUME NEW x \in Tokens
               PROVE  /\ x \in ancestry'[x]
                      /\ x \notin live' => parent'[x] = NoToken
                      /\ parent'[x] # NoToken =>
                             parent'[x] \in live' /\ ancestry'[x] = ancestry'[parent'[x]] \cup {x}
                      /\ parent'[x] = NoToken => ancestry'[x] = {x}
    BY DEF ChainInv
  <2>1. CASE x = child
    BY <2>1, <1>2 DEF TokensTypeOK
  <2>2. CASE x # child
    BY <2>2, <1>2 DEF TokensTypeOK, ChainInv
  <2> QED BY <2>1, <2>2
<1>4. \A w \in Waiters : phase[w] # "Idle" => ancestry'[token[w]] = ancestry[token[w]]
  BY <1>2 DEF ArmedInv
<1>5. \A w \in Waiters : phase[w] \in {"Arming", "Checking"} => ancestry'[at[w]] = ancestry[at[w]]
  BY <1>2 DEF WalkInv
<1>6. StoringInv' /\ ArmedInv' /\ WalkInv'
  BY <1>2, <1>4, <1>5 DEF StoringInv, ArmedInv, WalkInv
<1>7. CheckedInv' /\ NoLostWakeup' /\ ReturnsOnlyIfCancelled'
  BY <1>4, <1>5 DEF CheckedInv, NoLostWakeup, ReturnsOnlyIfCancelled, WakeDue, IsCancelled
<1> QED BY <1>1, <1>3, <1>6, <1>7

(* A wait begins with nothing armed and nothing read. *)
LEMMA StartStep ==
    ASSUME TokensInv, NEW w \in Waiters, NEW t \in Tokens, StartWait(w, t)
    PROVE  TokensInv'
<1> USE NoTokenAssumption DEF TokensInv, StartWait, FirstPhase
<1>1. TokensTypeOK'
  BY DEF TokensTypeOK, MaybeToken, Phases
<1>2. ChainInv' /\ StoringInv'
  BY DEF ChainInv, StoringInv
<1>3. ArmedInv' /\ WalkInv'
  BY DEF ArmedInv, WalkInv, TokensTypeOK
<1>4. CheckedInv' /\ NoLostWakeup' /\ ReturnsOnlyIfCancelled'
  BY DEF CheckedInv, NoLostWakeup, ReturnsOnlyIfCancelled, WakeDue, IsCancelled, TokensTypeOK
<1> QED BY <1>1, <1>2, <1>3, <1>4

(* The links behind the walk are armed; at the end of it, all are. *)
LEMMA ArmStep ==
    ASSUME TokensInv, NEW w \in Waiters, ArmLink(w)
    PROVE  TokensInv'
<1> USE NoTokenAssumption DEF TokensInv, ArmLink, NextLink
<1>0. at[w] \in Tokens /\ at[w] \in live /\ token[w] \in live /\ token[w] \in Tokens
  BY DEF WalkInv, ArmedInv, TokensTypeOK
<1>1. TokensTypeOK'
  BY <1>0 DEF TokensTypeOK, MaybeToken, Phases
<1>2. ChainInv' /\ StoringInv'
  BY DEF ChainInv, StoringInv
<1>3. at[w] \in ancestry[at[w]] /\ ancestry[at[w]] \subseteq ancestry[token[w]]
  BY <1>0 DEF ChainInv, WalkInv
<1>4. ArmedInv'
  BY <1>0, <1>3 DEF ArmedInv, TokensTypeOK
<1>5. CASE parent[at[w]] = NoToken
  <2>1. ancestry[at[w]] = {at[w]}
    BY <1>0, <1>5 DEF ChainInv
  <2>2. ancestry[token[w]] \subseteq armed'[w]
    BY <2>1 DEF WalkInv, TokensTypeOK
  <2>3. WalkInv'
    BY <1>0, <1>5, <2>2 DEF WalkInv, TokensTypeOK
  <2>4. CheckedInv' /\ NoLostWakeup' /\ ReturnsOnlyIfCancelled'
    BY <1>5 DEF CheckedInv, NoLostWakeup, ReturnsOnlyIfCancelled, WakeDue, IsCancelled, TokensTypeOK
  <2> QED BY <1>1, <1>2, <1>4, <2>3, <2>4
<1>6. CASE parent[at[w]] # NoToken
  <2>1. ancestry[at[w]] = ancestry[parent[at[w]]] \cup {at[w]} /\ parent[at[w]] \in live
    BY <1>0, <1>6 DEF ChainInv
  <2>2. ancestry[token[w]] \ ancestry[parent[at[w]]] \subseteq armed'[w]
    BY <2>1 DEF WalkInv, TokensTypeOK
  <2>3. WalkInv'
    BY <1>0, <1>3, <1>6, <2>1, <2>2 DEF WalkInv, TokensTypeOK
  <2>4. CheckedInv' /\ NoLostWakeup' /\ ReturnsOnlyIfCancelled'
    BY <1>6 DEF CheckedInv, NoLostWakeup, ReturnsOnlyIfCancelled, WakeDue, IsCancelled, TokensTypeOK
  <2> QED BY <1>1, <1>2, <1>4, <2>3, <2>4
<1> QED BY <1>5, <1>6

(* The links behind the walk were read unset, or a wake-up for them is due. *)
LEMMA CheckStep ==
    ASSUME TokensInv, NEW w \in Waiters, CheckLink(w)
    PROVE  TokensInv'
<1> USE NoTokenAssumption DEF TokensInv, CheckLink, NextLink
<1>0. at[w] \in Tokens /\ at[w] \in live /\ token[w] \in live /\ token[w] \in Tokens
  BY DEF WalkInv, ArmedInv, TokensTypeOK
<1>1. TokensTypeOK'
  BY <1>0 DEF TokensTypeOK, MaybeToken, Phases
<1>2. ChainInv' /\ StoringInv'
  BY DEF ChainInv, StoringInv
<1>3. at[w] \in ancestry[at[w]] /\ ancestry[at[w]] \subseteq ancestry[token[w]]
  BY <1>0 DEF ChainInv, WalkInv
<1>4. ArmedInv'
  BY DEF ArmedInv, TokensTypeOK
<1>5. CASE flag[at[w]]
  <2>1. IsCancelled(token[w])
    BY <1>3, <1>5 DEF IsCancelled
  <2>2. WalkInv' /\ CheckedInv' /\ NoLostWakeup'
    BY <1>5 DEF WalkInv, CheckedInv, NoLostWakeup, WakeDue, TokensTypeOK
  <2>3. ReturnsOnlyIfCancelled'
    BY <1>5, <2>1 DEF ReturnsOnlyIfCancelled, IsCancelled, TokensTypeOK
  <2> QED BY <1>1, <1>2, <1>4, <2>2, <2>3
<1>6. CASE ~flag[at[w]] /\ parent[at[w]] = NoToken
  <2>1. ancestry[at[w]] = {at[w]}
    BY <1>0, <1>6 DEF ChainInv
  <2>2. \A link \in ancestry[token[w]] : flag[link] => WakeDue(w, link)
    BY <1>6, <2>1 DEF CheckedInv
  <2>3. WalkInv' /\ CheckedInv' /\ ReturnsOnlyIfCancelled'
    BY <1>6 DEF WalkInv, CheckedInv, ReturnsOnlyIfCancelled, WakeDue, IsCancelled, TokensTypeOK
  <2>4. NoLostWakeup'
    BY <1>6, <2>2 DEF NoLostWakeup, WakeDue, TokensTypeOK
  <2> QED BY <1>1, <1>2, <1>4, <2>3, <2>4
<1>7. CASE ~flag[at[w]] /\ parent[at[w]] # NoToken
  <2>1. ancestry[at[w]] = ancestry[parent[at[w]]] \cup {at[w]} /\ parent[at[w]] \in live
    BY <1>0, <1>7 DEF ChainInv
  <2>2. \A link \in ancestry[token[w]] \ ancestry[parent[at[w]]] : flag[link] => WakeDue(w, link)
    BY <1>7, <2>1 DEF CheckedInv
  <2>3. WalkInv'
    BY <1>0, <1>3, <1>7, <2>1 DEF WalkInv, TokensTypeOK
  <2>4. CheckedInv'
    BY <1>7, <2>2 DEF CheckedInv, WakeDue, TokensTypeOK
  <2>5. NoLostWakeup' /\ ReturnsOnlyIfCancelled'
    BY <1>7 DEF NoLostWakeup, ReturnsOnlyIfCancelled, WakeDue, IsCancelled, TokensTypeOK
  <2> QED BY <1>1, <1>2, <1>4, <2>3, <2>4, <2>5
<1> QED BY <1>5, <1>6, <1>7

(* A notified future is one of the chain, and its flag is set. *)
LEMMA EndStep ==
    ASSUME TokensInv, NEW w \in Waiters, Wake(w) \/ DropWait(w)
    PROVE  TokensInv'
<1> USE NoTokenAssumption DEF TokensInv
<1>1. CASE Wake(w)
  <2>1. IsCancelled(token[w])
    BY <1>1 DEF Wake, ArmedInv, IsCancelled
  <2>2. TokensTypeOK' /\ ChainInv' /\ StoringInv' /\ ArmedInv' /\ WalkInv'
    BY <1>1 DEF Wake, TokensTypeOK, ChainInv, StoringInv, ArmedInv, WalkInv, Phases
  <2>3. CheckedInv' /\ NoLostWakeup'
    BY <1>1 DEF Wake, CheckedInv, NoLostWakeup, WakeDue, TokensTypeOK
  <2>4. ReturnsOnlyIfCancelled'
    BY <1>1, <2>1 DEF Wake, ReturnsOnlyIfCancelled, IsCancelled, TokensTypeOK
  <2> QED BY <2>2, <2>3, <2>4
<1>2. CASE DropWait(w)
  <2>1. TokensTypeOK' /\ ChainInv' /\ StoringInv' /\ ArmedInv' /\ WalkInv'
    BY <1>2 DEF DropWait, TokensTypeOK, ChainInv, StoringInv, ArmedInv, WalkInv, Phases
  <2>2. CheckedInv' /\ NoLostWakeup' /\ ReturnsOnlyIfCancelled'
    BY <1>2 DEF DropWait, CheckedInv, NoLostWakeup, ReturnsOnlyIfCancelled, WakeDue,
                IsCancelled, TokensTypeOK
  <2> QED BY <2>1, <2>2
<1> QED BY <1>1, <1>2

LEMMA NextTokens == TokensInv /\ [TokensNext]_tokenVars => TokensInv'
<1> SUFFICES ASSUME TokensInv, [TokensNext]_tokenVars PROVE TokensInv'
  OBVIOUS
<1>1. CASE \E t, child \in Tokens : derive_child(t, child)
  BY <1>1, DeriveStep
<1>2. CASE \E c \in Cancellers, t \in Tokens : StoreFlag(c, t)
  BY <1>2, StoreStep
<1>3. CASE \E c \in Cancellers : NotifyWaiters(c)
  BY <1>3, NotifyStep
<1>4. CASE \E w \in Waiters, t \in Tokens : StartWait(w, t)
  BY <1>4, StartStep
<1>5. CASE \E w \in Waiters : ArmLink(w) \/ CheckLink(w) \/ Wake(w) \/ DropWait(w)
  BY <1>5, ArmStep, CheckStep, EndStep
<1>6. CASE UNCHANGED tokenVars
  BY <1>6 DEF tokenVars, TokensInv, TokensTypeOK, ChainInv, StoringInv, ArmedInv, WalkInv, CheckedInv,
              NoLostWakeup, ReturnsOnlyIfCancelled, WakeDue, IsCancelled
<1> QED BY <1>1, <1>2, <1>3, <1>4, <1>5, <1>6 DEF TokensNext

LEMMA TokensInvHolds == TokensSpec => []TokensInv
  BY InitTokens, NextTokens, PTL DEF TokensSpec

(* No wake-up is lost: whatever the tree, however many tasks wait and     *)
(* cancel, and wherever cancel() falls between the steps of cancelled(),  *)
(* a parked task whose chain is cancelled has been or will be notified.   *)
THEOREM WakeupCorrect == TokensSpec => []NoLostWakeup
<1>1. TokensInv => NoLostWakeup
  BY DEF TokensInv
<1> QED BY <1>1, TokensInvHolds, PTL

(* cancelled() resolves only on a cancelled token, for every token tree. *)
THEOREM ReturnCorrect == TokensSpec => []ReturnsOnlyIfCancelled
<1>1. TokensInv => ReturnsOnlyIfCancelled
  BY DEF TokensInv
<1> QED BY <1>1, TokensInvHolds, PTL
=============================================================================
