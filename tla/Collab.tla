------------------------------- MODULE Collab -------------------------------
(***************************************************************************)
(* What agents that work together share: the plan, the mailbox and the     *)
(* blackboard (src/src/agent/collab/), and how the facade provisions,      *)
(* fills and restores them (src/src/facade/collab.rs).                     *)
(*                                                                         *)
(* A local agent calls tools; each call is one operation under the mutex   *)
(* of the part it changes.  What an external agent reports is reflected by *)
(* a bridge, which takes the mutex of the plan several times for one       *)
(* report, and other threads may work on the plan in between.              *)
(*                                                                         *)
(* The text of messages is left out; a call with arguments that do not     *)
(* parse changes nothing and is left out too.                              *)
(*                                                                         *)
(* Operators under a comment "Fault:" are not part of the model; each is a *)
(* plausible mistake in the operator that follows it.                      *)
(***************************************************************************)
EXTENDS Naturals, Sequences, FiniteSets

CONSTANTS
    Tasks,       \* task ids
    Locals,      \* agents with a CollabToolHandler
    Externals,   \* delegates whose events a CollabBridge absorbs
    Configs,     \* the Collaborations a builder may be given
    PageLimit,   \* the limit argument of the read tools
    MaxWrites,   \* bound: changes of the plan and messages together
    MaxRestores  \* bound: restarts from a snapshot

Parts == {"plan", "mailbox", "blackboard", "artifacts"}
Agents == Locals \cup Externals
Nobody == "nobody"

ASSUME AgentsAssumption == Nobody \notin Agents /\ Locals \cap Externals = {}
ASSUME ConfigsAssumption == Configs \subseteq SUBSET Parts
ASSUME BoundsAssumption == PageLimit \in Nat /\ MaxWrites \in Nat /\ MaxRestores \in Nat

VARIABLES
    config,   \* Collaboration: the enabled parts
    plan,     \* PlanSnapshot behind the mutex
    mail,     \* MailboxState: next_seq, and the sequence numbers in each inbox
    board,    \* the log of the default channel: who posted
    bridge,   \* reflect_plan_update in progress, one for each external agent
    known,    \* what each local agent has read: plan, cursors, and what came with them
    restores

vars == <<config, plan, mail, board, bridge, known, restores>>

Statuses == {"Todo", "InProgress", "Completed", "Blocked", "Cancelled"}
Final == {"Completed", "Cancelled"}

Quiet == [pc |-> "quiet"]

NewPlan == [version |-> 0, order |-> << >>, tasks |-> << >>]
NewMailbox == [next |-> 0, inbox |-> [a \in Locals |-> << >>]]
NothingKnown ==
    [version |-> 0, tasks |-> << >>, mailAt |-> 0, mail |-> << >>, boardAt |-> 0, board |-> << >>]

Writes == plan.version + mail.next + Len(board)

TypeOK ==
    /\ config \subseteq Parts
    /\ plan.version \in Nat /\ mail.next \in Nat
    /\ DOMAIN plan.tasks = {plan.order[i] : i \in DOMAIN plan.order}
    /\ Cardinality(DOMAIN plan.tasks) = Len(plan.order)
    /\ \A t \in DOMAIN plan.tasks :
        plan.tasks[t] \in [status: Statuses, owner: Agents \cup {Nobody}, deps: SUBSET Tasks]
    /\ \A x \in Externals : bridge[x].pc \in {"quiet", "look", "add", "read", "claim", "reread", "update"}
    /\ restores \in 0..MaxRestores

\* What is enabled when the builder says nothing.
derive_default(dispatcher, locals, externals) ==
    (IF locals + externals = 0 THEN {}
     ELSE IF dispatcher THEN {"plan", "blackboard", "mailbox"}
     ELSE IF locals + externals >= 2 THEN {"mailbox"} ELSE {})
    \cup (IF externals > 0 THEN {"artifacts"} ELSE {})

Init ==
    /\ config \in Configs
         \cup {derive_default(d, Cardinality(Locals), Cardinality(Externals)) : d \in BOOLEAN}
    /\ plan = NewPlan /\ mail = NewMailbox /\ board = << >>
    /\ bridge = [x \in Externals |-> Quiet]
    /\ known = [a \in Locals |-> NothingKnown]
    /\ restores = 0

-----------------------------------------------------------------------------
(***************************************************************************)
(* Plan.                                                                   *)
(***************************************************************************)
can_transition_to(from, to) ==
    \/ from = to
    \/ from = "Todo" /\ to \in {"InProgress", "Blocked", "Cancelled"}
    \/ from = "InProgress" /\ to \in {"Completed", "Blocked", "Cancelled"}
    \/ from = "Blocked" /\ to \in {"Todo", "InProgress", "Cancelled"}

unfinished_dependencies(p, deps) ==
    {d \in deps : d \notin DOMAIN p.tasks \/ p.tasks[d].status # "Completed"}

Put(p, t, task) ==
    [version |-> p.version + 1,
     order |-> p.order,
     tasks |-> [u \in DOMAIN p.tasks \cup {t} |-> IF u = t THEN task ELSE p.tasks[u]]]

Owned(task, who) == [status |-> "InProgress", owner |-> who, deps |-> task.deps]

\* A new task depends on tasks of the plan only, so no cycle can come up; the
\* check for one comes last and never fires.
AddAccepted(p, t, deps) == t \notin DOMAIN p.tasks /\ deps \subseteq DOMAIN p.tasks

add_task(p, t, deps) ==
    IF AddAccepted(p, t, deps)
    THEN [Put(p, t, [status |-> "Todo", owner |-> Nobody, deps |-> deps])
            EXCEPT !.order = Append(@, t)]
    ELSE p

\* Fault: what the task depends on is left to claim_first_available.
ClaimAccepted_NoDeps(p, t, who, expected) ==
    /\ p.version = expected /\ t \in DOMAIN p.tasks
    /\ p.tasks[t].owner \in {who, Nobody}
    /\ can_transition_to(p.tasks[t].status, "InProgress")

\* Fault: the claim of a task that has an owner takes it over.
ClaimAccepted_TakesOver(p, t, who, expected) ==
    /\ p.version = expected /\ t \in DOMAIN p.tasks
    /\ can_transition_to(p.tasks[t].status, "InProgress")
    /\ unfinished_dependencies(p, p.tasks[t].deps) = {}

ClaimAccepted(p, t, who, expected) ==
    /\ p.version = expected /\ t \in DOMAIN p.tasks
    /\ p.tasks[t].owner \in {who, Nobody}
    /\ can_transition_to(p.tasks[t].status, "InProgress")
    /\ unfinished_dependencies(p, p.tasks[t].deps) = {}

claim(p, t, who, expected) ==
    IF ClaimAccepted(p, t, who, expected)
    THEN Put(p, t, Owned(p.tasks[t], who))
    ELSE p

\* The first task of the stable order that can be had.
Available(p) ==
    {i \in DOMAIN p.order :
        LET task == p.tasks[p.order[i]]
        IN  task.status = "Todo" /\ task.owner = Nobody
            /\ unfinished_dependencies(p, task.deps) = {}}

claim_first_available(p, who, expected) ==
    IF p.version # expected \/ Available(p) = {} THEN p
    ELSE LET t == p.order[CHOOSE i \in Available(p) : \A j \in Available(p) : i <= j]
         IN  Put(p, t, Owned(p.tasks[t], who))

UpdateAccepted(p, t, who, status, expected) ==
    /\ p.version = expected /\ t \in DOMAIN p.tasks
    /\ p.tasks[t].owner = who
    /\ can_transition_to(p.tasks[t].status, status)

update_status(p, t, who, status, expected) ==
    IF UpdateAccepted(p, t, who, status, expected)
    THEN Put(p, t, [p.tasks[t] EXCEPT !.status = status])
    ELSE p

-----------------------------------------------------------------------------
(***************************************************************************)
(* Mailbox, Blackboard and the read tools.                                 *)
(***************************************************************************)
send(m, to) ==
    [next |-> m.next + 1,
     inbox |-> [m.inbox EXCEPT ![to] = Append(@, m.next)]]

\* Fault: next_seq is taken as it is stored.
mailbox_from_snapshot_AsStored(m) == m

\* A snapshot that was written without next_seq is read with 0.
mailbox_from_snapshot(m) ==
    LET seqs == UNION {{m.inbox[a][i] : i \in DOMAIN m.inbox[a]} : a \in Locals}
    IN  [m EXCEPT !.next = IF seqs = {} THEN m.next
                           ELSE LET top == CHOOSE n \in seqs : \A k \in seqs : k <= n
                                IN  IF m.next > top THEN m.next ELSE top + 1]

\* The elements of a sequence that are in the set S, in their order.
Among(s, S) ==
    LET kept[i \in 0..Len(s)] ==
            IF i = 0 THEN << >>
            ELSE IF s[i] \in S THEN Append(kept[i - 1], s[i]) ELSE kept[i - 1]
    IN  kept[Len(s)]

mailbox_read_from(m, a, from) == Among(m.inbox[a], {n \in Nat : n >= from})

\* The offsets of a channel are 0, 1, 2, ...
blackboard_read_from(log, from) == [i \in 1..(Len(log) - from) |-> from + i - 1]

\* A page of entries, and where the next one begins: behind the last entry
\* of this one.
format_read_page(entries, from) ==
    LET shown == IF Len(entries) < PageLimit THEN Len(entries) ELSE PageLimit
    IN  [page |-> SubSeq(entries, 1, shown),
         next |-> IF shown = 0 THEN from ELSE entries[shown] + 1]

-----------------------------------------------------------------------------
(***************************************************************************)
(* CollabToolHandler: one tool call of local agent a.  Tools of a part are *)
(* declared only when the part is enabled.                                 *)
(***************************************************************************)
\* A reflection in progress is no longer alone with the plan.
Disturbed(b) == IF b.pc = "quiet" THEN b ELSE [b EXCEPT !.alone = FALSE]

Learn(a, p) == known' = [known EXCEPT ![a] = [@ EXCEPT !.version = p.version, !.tasks = p.tasks]]

\* An answer tells the new version when the call changed the plan.
ChangesPlan(a, p) ==
    /\ "plan" \in config /\ Writes < MaxWrites /\ p # plan
    /\ plan' = p
    /\ Learn(a, p)
    /\ bridge' = [x \in Externals |-> Disturbed(bridge[x])]
    /\ UNCHANGED <<config, mail, board, restores>>

\* The version an agent believes in, or has just been told by an error.
Expected(a) == {known[a].version, plan.version}

plan_add_task(a) ==
    \E t \in Tasks, deps \in SUBSET Tasks : ChangesPlan(a, add_task(plan, t, deps))

plan_read(a) ==
    /\ "plan" \in config /\ known[a].version # plan.version
    /\ Learn(a, plan)
    /\ UNCHANGED <<config, plan, mail, board, bridge, restores>>

plan_claim(a) ==
    \E t \in Tasks, v \in Expected(a) : ChangesPlan(a, claim(plan, t, a, v))

plan_claim_first_available(a) ==
    \E v \in Expected(a) : ChangesPlan(a, claim_first_available(plan, a, v))

plan_update(a) ==
    \E t \in Tasks, s \in Statuses, v \in Expected(a) :
        ChangesPlan(a, update_status(plan, t, a, s, v))

blackboard_post(a) ==
    /\ "blackboard" \in config /\ Writes < MaxWrites
    /\ board' = Append(board, a)
    /\ UNCHANGED <<config, plan, mail, bridge, known, restores>>

blackboard_read(a) ==
    LET read == format_read_page(blackboard_read_from(board, known[a].boardAt), known[a].boardAt)
    IN  /\ "blackboard" \in config /\ read.page # << >>
        /\ known' = [known EXCEPT ![a] =
              [@ EXCEPT !.boardAt = read.next, !.board = known[a].board \o read.page]]
        /\ UNCHANGED <<config, plan, mail, board, bridge, restores>>

send_message(a) ==
    /\ "mailbox" \in config /\ Writes < MaxWrites
    /\ \E to \in Locals : mail' = send(mail, to)
    /\ UNCHANGED <<config, plan, board, bridge, known, restores>>

mailbox_read(a) ==
    LET read == format_read_page(mailbox_read_from(mail, a, known[a].mailAt), known[a].mailAt)
    IN  /\ "mailbox" \in config /\ read.page # << >>
        /\ known' = [known EXCEPT ![a] =
              [@ EXCEPT !.mailAt = read.next, !.mail = known[a].mail \o read.page]]
        /\ UNCHANGED <<config, plan, mail, board, bridge, restores>>

-----------------------------------------------------------------------------
(***************************************************************************)
(* CollabBridge: absorb_event for delegate x.  A message and a post are    *)
(* one operation; a task update is reflect_plan_update, step by step.      *)
(***************************************************************************)
BridgeAt(x, pc) == bridge[x].pc = pc

To(x, b) == bridge' = [bridge EXCEPT ![x] = b]

Unread == UNCHANGED <<config, mail, board, known, restores>>

absorb_message(x) ==
    /\ "mailbox" \in config /\ BridgeAt(x, "quiet") /\ Writes < MaxWrites
    /\ \E to \in Locals : mail' = send(mail, to)
    /\ UNCHANGED <<config, plan, board, bridge, known, restores>>

absorb_post(x) ==
    /\ "blackboard" \in config /\ BridgeAt(x, "quiet") /\ Writes < MaxWrites
    /\ board' = Append(board, x)
    /\ UNCHANGED <<config, plan, mail, bridge, known, restores>>

\* A label that parses (parse_task_status); others end the reflection at once.
absorb_task(x) ==
    /\ "plan" \in config /\ BridgeAt(x, "quiet") /\ Writes + 1 < MaxWrites
    /\ \E t \in Tasks, s \in Statuses :
        To(x, [pc |-> "look", task |-> t, status |-> s, snap |-> NewPlan, alone |-> TRUE])
    /\ UNCHANGED plan /\ Unread

ReflectLook(x) ==
    /\ BridgeAt(x, "look")
    /\ To(x, [bridge[x] EXCEPT !.pc = IF bridge[x].task \in DOMAIN plan.tasks
                                      THEN "read" ELSE "add"])
    /\ UNCHANGED plan /\ Unread

Change(x, b) == bridge' = [y \in Externals |-> IF y = x THEN b ELSE Disturbed(bridge[y])]

\* The answer of add_task is not looked at: another may have been faster.
ReflectAdd(x) ==
    /\ BridgeAt(x, "add")
    /\ plan' = add_task(plan, bridge[x].task, {})
    /\ Change(x, [bridge[x] EXCEPT !.pc = "read"])
    /\ Unread

ReflectRead(x) ==
    /\ BridgeAt(x, "read")
    /\ LET b == bridge[x]
           task == plan.tasks[b.task]
       IN  To(x, IF task.status = b.status THEN Quiet
                 ELSE IF task.owner = x THEN [b EXCEPT !.pc = "reread"]
                 ELSE IF task.owner = Nobody /\ b.status # "Todo"
                      THEN [b EXCEPT !.pc = "claim", !.snap = plan]
                 ELSE Quiet)
    /\ UNCHANGED plan /\ Unread

ReflectClaim(x) ==
    LET b == bridge[x]
    IN  /\ BridgeAt(x, "claim")
        /\ plan' = claim(plan, b.task, x, b.snap.version)
        /\ Change(x, IF plan' = plan THEN Quiet ELSE [b EXCEPT !.pc = "reread"])
        /\ Unread

\* Fault: the version from before the claim is used on.
ReflectReread_Stale(x) ==
    LET b == bridge[x]
        now == plan.tasks[b.task].status
    IN  /\ BridgeAt(x, "reread")
        /\ To(x, IF now # b.status /\ can_transition_to(now, b.status)
                 THEN [b EXCEPT !.pc = "update"] ELSE Quiet)
        /\ UNCHANGED plan /\ Unread

\* Fault: whether the transition is legal is judged by the copy from before the
\* claim, so "completed" for a task that was just claimed is dropped.
ReflectReread_BeforeClaim(x) ==
    LET b == bridge[x]
        now == plan.tasks[b.task].status
        before == IF b.task \in DOMAIN b.snap.tasks THEN b.snap.tasks[b.task].status ELSE now
    IN  /\ BridgeAt(x, "reread")
        /\ To(x, IF now # b.status /\ can_transition_to(before, b.status)
                 THEN [b EXCEPT !.pc = "update", !.snap = plan] ELSE Quiet)
        /\ UNCHANGED plan /\ Unread

ReflectReread(x) ==
    LET b == bridge[x]
        now == plan.tasks[b.task].status
    IN  /\ BridgeAt(x, "reread")
        /\ To(x, IF now # b.status /\ can_transition_to(now, b.status)
                 THEN [b EXCEPT !.pc = "update", !.snap = plan] ELSE Quiet)
        /\ UNCHANGED plan /\ Unread

ReflectUpdate(x) ==
    LET b == bridge[x]
    IN  /\ BridgeAt(x, "update")
        /\ plan' = update_status(plan, b.task, x, b.status, b.snap.version)
        /\ Change(x, Quiet)
        /\ Unread

-----------------------------------------------------------------------------
(***************************************************************************)
(* A restart of the facade agent from the snapshot of its last rest.       *)
(* Agents come back with what they knew then; going back further leads to  *)
(* a state that was reached before.                                        *)
(***************************************************************************)

\* A part that comes with state is enabled whatever the configuration says.
RestoredConfig(given, had) == given \cup (had \ {"artifacts"})

restore ==
    /\ restores < MaxRestores /\ \A x \in Externals : BridgeAt(x, "quiet")
    /\ \E given \in Configs, stored \in {mail.next, 0} :
        /\ config' = RestoredConfig(given, config)
        /\ mail' = mailbox_from_snapshot([mail EXCEPT !.next = stored])
    /\ restores' = restores + 1
    /\ UNCHANGED <<plan, board, bridge, known>>

ByTool(a) ==
    \/ plan_add_task(a) \/ plan_claim(a) \/ plan_claim_first_available(a) \/ plan_update(a)

Next ==
    \/ \E a \in Locals :
        \/ ByTool(a) \/ plan_read(a)
        \/ blackboard_post(a) \/ blackboard_read(a)
        \/ send_message(a) \/ mailbox_read(a)
    \/ \E x \in Externals :
        \/ absorb_message(x) \/ absorb_post(x) \/ absorb_task(x)
        \/ ReflectLook(x) \/ ReflectAdd(x) \/ ReflectRead(x) \/ ReflectClaim(x)
        \/ ReflectReread(x) \/ ReflectUpdate(x)
    \/ restore

Spec == Init /\ [][Next]_vars

-----------------------------------------------------------------------------
(***************************************************************************)
(* Properties.                                                             *)
(***************************************************************************)

\* Nobody gets at a task, by whatever way, before everything it depends on is
\* completed (claim, claim_first_available; update_status does not look).
OwnedTasksHadTheirTurn ==
    \A t \in DOMAIN plan.tasks :
        plan.tasks[t].owner # Nobody =>
            unfinished_dependencies(plan, plan.tasks[t].deps) = {}

\* A task that has an owner keeps it, and one that is completed or cancelled
\* stays so, whatever agents and bridges do on stale versions.
NobodyTakesATaskOver ==
    [][restores' = restores =>
        \A t \in DOMAIN plan.tasks :
            /\ plan.tasks[t].owner # Nobody => plan'.tasks[t].owner = plan.tasks[t].owner
            /\ plan.tasks[t].status \in Final => plan'.tasks[t].status = plan.tasks[t].status]_vars

\* The version check is enough: whoever holds a copy of the plan's version
\* holds a copy of the plan.
VersionIdentifiesPlan ==
    /\ \A a \in Locals : known[a].version = plan.version => known[a].tasks = plan.tasks
    /\ \A x \in Externals :
        bridge[x].pc \in {"claim", "update"} /\ bridge[x].snap.version = plan.version =>
            bridge[x].snap.tasks = plan.tasks

Below(n) == {k \in Nat : k < n}

Offsets(n) == [i \in 1..n |-> i - 1]

\* A reader that goes from page to page as the tool tells it gets every
\* message before its cursor, once and in order, also over a restart.
ReadersMissNothing ==
    \A a \in Locals :
        /\ known[a].mail = Among(mail.inbox[a], Below(known[a].mailAt))
        /\ known[a].board = Offsets(known[a].boardAt)

\* What the agents have put into a part stays within their reach after a
\* restart, under whatever configuration.
PartsInUseAreEnabled ==
    /\ plan # NewPlan => "plan" \in config
    /\ mail.next > 0 => "mailbox" \in config
    /\ board # << >> => "blackboard" \in config

\* A reflection that is alone with the plan ends with the plan saying what was
\* reported, in whichever of its rounds under the mutex it ends, unless the task
\* is over, has another owner, waits for others, or is the reporter's own and
\* the plan knows no such transition (Blocked to Completed, say).
ReportsReachThePlan ==
    [][restores' = restores =>
        \A x \in Externals :
            LET task == plan.tasks[bridge[x].task]
            IN  bridge[x].pc # "quiet" /\ bridge[x].alone /\ bridge'[x].pc = "quiet" =>
                    \/ plan'.tasks[bridge[x].task].status = bridge[x].status
                    \/ task.status \in Final
                    \/ task.owner \notin {x, Nobody}
                    \/ unfinished_dependencies(plan, task.deps) # {}
                    \/ task.owner = x /\ ~can_transition_to(task.status, bridge[x].status)]_vars

\* Claims by version check and by mutex respect the order of the plan.
PlanInv == TypeOK /\ OwnedTasksHadTheirTurn /\ VersionIdentifiesPlan

\* What agents tell each other arrives, over pages, restarts and changes of the
\* configuration.
MessageInv == ReadersMissNothing /\ PartsInUseAreEnabled
=============================================================================
