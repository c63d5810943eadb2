------------------------------ MODULE DriveLoop -------------------------------
(***************************************************************************)
(* The reference driver: drain and fulfill_batch (src/src/agent/drive.rs), *)
(* nested drains for subagents (src/src/agent/drive/subagent.rs) and the   *)
(* machine tree they drive (src/src/agent/machine/nested.rs).              *)
(*                                                                         *)
(* A layer is one drain; layer 0 drives the tree of Tree, layer d + 1 the  *)
(* subagent a handler of layer d spawned.  All layers are one task, so     *)
(* only the deepest runs; handlers complete in any order or never, and     *)
(* another task may cancel the run or charge the shared budget at any      *)
(* point.  A requirement's id is its place in reqs.  A machine of the tree *)
(* is seen through its cursor: at rest, or busy with outstanding ids (the  *)
(* module AgentMachine has the rest of it).  Grace periods are not timed:  *)
(* once the run is cancelled, any layer's may expire next.                 *)
(*                                                                         *)
(* Operators under a comment "Fault:" are not part of the model.           *)
(***************************************************************************)
EXTENDS Naturals, Sequences, FiniteSets, SequencesExt, FiniteSetsExt

CONSTANTS
    Tree,          \* the machines of the root tree: its own and then its children
    MaxDepth,      \* DrivingSubagentHandler.max_depth
    Handled,       \* per layer: the kinds its HandlerScope has a handler for
    ToolBatches,   \* what an LLM reply may ask for: sequences of kinds
    MaxSteps,      \* BudgetLimits.max_steps
    MaxTokens,     \* BudgetLimits.max_tokens
    Usages,        \* tokens an LLM reply may report
    MaxReqs,       \* bound on the requirements emitted
    MaxSibling     \* bound on what another context charges to the same budget

Layers == 0 .. MaxDepth

(* The families of requirements; a reconfiguration is fulfilled as a tool is. *)
Kinds == {"Llm", "Tool", "Interaction", "Subagent"}

ASSUME DepthAssumption == MaxDepth \in Nat
ASSUME HandledAssumption == Handled \in [Layers -> SUBSET Kinds]
ASSUME TreeAssumption == Tree # <<>> /\ Tree \in Seq(Range(Tree))
ASSUME RepliesAssumption == ToolBatches \subseteq Seq(Kinds) /\ Usages \subseteq Nat
ASSUME BoundsAssumption ==
    MaxSteps \in Nat /\ MaxTokens \in Nat /\ MaxReqs \in Nat /\ MaxSibling \in Nat

VARIABLES
    pc,         \* per layer: where its drain is
    result,     \* per layer: what its drain returned
    since,      \* per layer: the requirements emitted before its drain began
    chain,      \* per layer: its scope and the scopes it pops to, innermost first
    pending,    \* per layer: drain's `pending`
    running,    \* per layer: fulfill_batch's `local`
    serial,     \* per layer: fulfill_batch's `serial`
    resolved,   \* per layer: the resolutions of the batch, in completion order
    rest,       \* per layer and machine: its cursor
    out,        \* per layer and machine: the ids its cursor waits for
    reqs,       \* every requirement emitted
    trace,      \* per requirement: its records on the trace
    used,       \* BudgetUsage
    sibling,    \* tokens another context charged
    cancelled   \* the cancellation token

driverVars == <<pc, result, since, chain, pending, running, serial, resolved>>
treeVars == <<rest, out, reqs>>
vars == <<driverVars, treeVars, trace, used, sibling, cancelled>>

Machines == Range(Tree)
Own == Tree[1]

Requirement == [kind : Kinds, layer : Layers, machine : Machines]
Resolution == [id : 1 .. MaxReqs, ok : BOOLEAN, usage : Usages \cup {0}]
Dispositions == {"Resumed", "NeverResumed"}

TypeOK ==
    /\ pc \in [Layers -> {"Off", "Loop", "Batch", "Feed", "Usage", "Return"}]
    /\ result \in [Layers -> {"None", "Ok", "Cancelled", "Err", "Quiesced"}]
    /\ since \in [Layers -> 0 .. MaxReqs]
    /\ \A d \in Layers :
        /\ \A id \in Range(pending[d]) \cup Range(serial[d]) \cup running[d] : id \in 1 .. Len(reqs)
        /\ \A r \in Range(resolved[d]) : r \in Resolution
        /\ Range(chain[d]) \subseteq Layers
    /\ rest \in [Layers -> [Machines -> {"Idle", "Busy", "Done", "Error"}]]
    /\ out \in [Layers -> [Machines -> SUBSET (1 .. Len(reqs))]]
    /\ Len(reqs) <= MaxReqs /\ Range(reqs) \subseteq Requirement
    /\ Len(trace) = Len(reqs)
    /\ used.steps \in 0 .. MaxSteps /\ used.tokens \in 0 .. MaxTokens
    /\ sibling \in 0 .. MaxSibling
    /\ cancelled \in BOOLEAN

(* The elements of a sequence that are in the set S, in their order. *)
Among(s, S) ==
    LET kept[i \in 0 .. Len(s)] ==
            IF i = 0 THEN <<>>
            ELSE IF s[i] \in S THEN Append(kept[i - 1], s[i]) ELSE kept[i - 1]
    IN  kept[Len(s)]

-----------------------------------------------------------------------------
(* The budget and the trace *)

exhausted_dimension == used.steps >= MaxSteps \/ used.tokens >= MaxTokens

(* Fault: a charge over the limit is cut to it and succeeds. *)
Charged_Saturating(current, charge, limit) == {Min({current + charge, limit})}

(* try_charge in one dimension: the new counter, or nothing. *)
Charged(current, charge, limit) == {c \in {current + charge} : c <= limit}

Record(how, usage) == [how |-> how, usage |-> usage]

(* The trace after a record for each of the ids. *)
Recorded(ids, how) ==
    [i \in DOMAIN trace |-> IF i \in ids THEN Append(trace[i], Record(how, 0)) ELSE trace[i]]

-----------------------------------------------------------------------------
(* The machine tree *)

(* The requirements a machine of layer d emits, and their ids. *)
NewReqs(d, m, kinds) == [i \in 1 .. Len(kinds) |-> [kind |-> kinds[i], layer |-> d, machine |-> m]]
NewIds(k) == [i \in 1 .. k |-> Len(reqs) + i]

(* route_by_id finds the machine that waits for the id, if one does. *)
Waiting(d, id) == {m \in Machines : id \in out[d][m]}

(* What a machine may emit when it is resumed with an answer: nothing when *)
(* it comes to rest.  A reply ends the turn or asks for a batch or for an  *)
(* approval; an approval lets the tool run or not; the last result of a    *)
(* batch leads to the next LLM request or to the step limit.               *)
Replies(d, m, r) ==
    LET kind == reqs[r.id].kind
        more == CASE kind = "Llm" /\ r.ok -> ToolBatches
                  [] kind = "Llm" /\ ~r.ok -> {}
                  [] kind = "Interaction" -> {<<"Tool">>, <<"Llm">>}
                  [] kind \in {"Tool", "Subagent"} /\ out[d][m] = {r.id} -> {<<"Llm">>}
                  [] kind \in {"Tool", "Subagent"} /\ out[d][m] # {r.id} -> {}
    IN  {<<>>} \cup {kinds \in more : Len(reqs) + Len(kinds) <= MaxReqs}

RestAfter(d, m, r, kinds) ==
    IF reqs[r.id].kind = "Llm" /\ ~r.ok THEN "Error"
    ELSE IF kinds # <<>> \/ out[d][m] \ {r.id} # {} THEN "Busy"
    ELSE "Done"

(* Abandon for every id of the set: each machine that waits for one closes *)
(* its turn and goes idle.                                                 *)
AbandonAll(d, ids) ==
    LET hit == {m \in Machines : out[d][m] \cap ids # {}} IN
    /\ rest' = [rest EXCEPT ![d] = [m \in Machines |-> IF m \in hit THEN "Idle" ELSE rest[d][m]]]
    /\ out' = [out EXCEPT ![d] = [m \in Machines |-> IF m \in hit THEN {} ELSE out[d][m]]]
    /\ UNCHANGED reqs

Interrupted(d) == {m \in Machines : rest[d][m] \notin {"Done", "Error"}}

interrupt_budget_exhausted(d) ==
    /\ rest' = [rest EXCEPT ![d] =
                    [m \in Machines |-> IF m \in Interrupted(d) THEN "Done" ELSE rest[d][m]]]
    /\ out' = [out EXCEPT ![d] = [m \in Machines |-> IF m \in Interrupted(d) THEN {} ELSE out[d][m]]]
    /\ UNCHANGED reqs

-----------------------------------------------------------------------------
(* drain *)

Init ==
    /\ pc = [d \in Layers |-> "Off"]
    /\ result = [d \in Layers |-> "None"]
    /\ since = [d \in Layers |-> 0]
    /\ chain = [d \in Layers |-> <<d>>]
    /\ pending = [d \in Layers |-> <<>>]
    /\ running = [d \in Layers |-> {}]
    /\ serial = [d \in Layers |-> <<>>]
    /\ resolved = [d \in Layers |-> <<>>]
    /\ rest = [d \in Layers |-> [m \in Machines |-> "Idle"]]
    /\ out = [d \in Layers |-> [m \in Machines |-> {}]]
    /\ reqs = <<>>
    /\ trace = <<>>
    /\ used = [steps |-> 0, tokens |-> 0]
    /\ sibling = 0
    /\ cancelled = FALSE

(* The machines the opening input starts: the own machine and the children *)
(* attached to it; a spawned subagent is a single machine.                 *)
Started(d) == IF d = 0 THEN Tree ELSE <<Own>>

(* drain begins: the opening step.  A machine of `failed` ends in an error *)
(* at once, the others emit their first LLM request.                       *)
Begin(d, scopes, failed) ==
    LET fresh == Among(Started(d), Machines \ failed)
        new == [i \in 1 .. Len(fresh) |-> [kind |-> "Llm", layer |-> d, machine |-> fresh[i]]]
    IN
    /\ failed \subseteq Range(Started(d))
    /\ Len(reqs) + Len(fresh) <= MaxReqs
    /\ pc' = [pc EXCEPT ![d] = "Loop"]
    /\ result' = [result EXCEPT ![d] = "None"]
    /\ since' = [since EXCEPT ![d] = Len(reqs)]
    /\ chain' = [chain EXCEPT ![d] = scopes]
    /\ pending' = [pending EXCEPT ![d] = NewIds(Len(fresh))]
    /\ rest' = [rest EXCEPT ![d] = [m \in Machines |->
                    IF m \in failed THEN "Error"
                    ELSE IF m \in Range(fresh) THEN "Busy" ELSE "Idle"]]
    /\ out' = [out EXCEPT ![d] = [m \in Machines |->
                    {Len(reqs) + i : i \in {j \in 1 .. Len(fresh) : fresh[j] = m}}]]
    /\ reqs' = reqs \o new
    /\ trace' = trace \o [i \in 1 .. Len(new) |-> <<>>]
    /\ UNCHANGED <<running, serial, resolved, used, sibling, cancelled>>

DriveRoot == pc[0] = "Off" /\ result[0] = "None" /\ \E failed \in SUBSET Machines : Begin(0, <<0>>, failed)

(* drain returns; what was in flight in its layer, and every deeper layer, *)
(* is dropped with the batch future.                                       *)
Return(d, how) ==
    /\ pc' = [e \in Layers |-> IF e = d THEN "Return" ELSE IF e > d THEN "Off" ELSE pc[e]]
    /\ result' = [result EXCEPT ![d] = how]
    /\ pending' = [e \in Layers |-> IF e >= d THEN <<>> ELSE pending[e]]
    /\ running' = [e \in Layers |-> IF e >= d THEN {} ELSE running[e]]
    /\ serial' = [e \in Layers |-> IF e >= d THEN <<>> ELSE serial[e]]
    /\ resolved' = [e \in Layers |-> IF e >= d THEN <<>> ELSE resolved[e]]
    /\ UNCHANGED <<since, chain>>

(* The deepest live layer: the only one whose drain is not inside its batch. *)
Deepest(d) == pc[d] # "Off" /\ \A e \in Layers : e > d => pc[e] = "Off"

is_terminal(d) == rest[d][Own] \in {"Done", "Error"}

LoopEnds(d) ==
    /\ pc[d] = "Loop" /\ pending[d] = <<>>
    /\ Return(d, IF is_terminal(d) THEN "Ok" ELSE "Quiesced")
    /\ UNCHANGED <<treeVars, trace, used, sibling, cancelled>>

settle_cancelled(d, ids) ==
    /\ trace' = Recorded(ids, "NeverResumed")
    /\ AbandonAll(d, ids)
    /\ Return(d, "Cancelled")
    /\ UNCHANGED <<used, sibling, cancelled>>

LoopCancelled(d) ==
    /\ pc[d] = "Loop" /\ pending[d] # <<>> /\ cancelled
    /\ settle_cancelled(d, Range(pending[d]))

budget_precheck_exhausted(d) ==
    exhausted_dimension /\ \E id \in Range(pending[d]) : reqs[id].kind = "Llm"

LoopExhausted(d) ==
    /\ pc[d] = "Loop" /\ pending[d] # <<>> /\ ~cancelled /\ budget_precheck_exhausted(d)
    /\ trace' = Recorded(Range(pending[d]), "NeverResumed")
    /\ interrupt_budget_exhausted(d)
    /\ Return(d, "Ok")
    /\ UNCHANGED <<used, sibling, cancelled>>

(* Kinds run concurrently: all the layer's scope handles but subagents. *)
scope_handles(d, kind) == kind # "Subagent" /\ kind \in Handled[d]

Concurrent(d) == {id \in Range(pending[d]) : scope_handles(d, reqs[id].kind)}

(* fulfill_batch begins. *)
LoopFulfils(d) ==
    /\ pc[d] = "Loop" /\ pending[d] # <<>> /\ ~cancelled /\ ~budget_precheck_exhausted(d)
    /\ pc' = [pc EXCEPT ![d] = "Batch"]
    /\ running' = [running EXCEPT ![d] = Concurrent(d)]
    /\ serial' = [serial EXCEPT ![d] = Among(pending[d], Range(pending[d]) \ Concurrent(d))]
    /\ UNCHANGED <<result, since, chain, pending, resolved,
                   treeVars, trace, used, sibling, cancelled>>

-----------------------------------------------------------------------------
(* fulfill_batch *)

(* What a handler may answer. *)
Answers(id) ==
    IF reqs[id].kind = "Llm"
    THEN {[id |-> id, ok |-> TRUE, usage |-> u] : u \in Usages} \cup
         {[id |-> id, ok |-> FALSE, usage |-> 0]}
    ELSE {[id |-> id, ok |-> TRUE, usage |-> 0]}

(* A handler of the concurrent set completes. *)
HandlerReturns(d, id) ==
    /\ pc[d] = "Batch" /\ id \in running[d]
    /\ \E r \in Answers(id) : resolved' = [resolved EXCEPT ![d] = Append(@, r)]
    /\ running' = [running EXCEPT ![d] = @ \ {id}]
    /\ UNCHANGED <<pc, result, since, chain, pending, serial,
                   treeVars, trace, used, sibling, cancelled>>

(* Its result is of the wrong family: validate fails and so does drain. *)
HandlerMisaligned(d, id) ==
    /\ pc[d] = "Batch" /\ id \in running[d]
    /\ Return(d, "Err")
    /\ UNCHANGED <<treeVars, trace, used, sibling, cancelled>>

(* The serial requirements are resolved one by one after the others. *)
AtSerial(d) == Deepest(d) /\ pc[d] = "Batch" /\ running[d] = {} /\ serial[d] # <<>>

(* The places in the layer's scope chain that have a handler for the kind. *)
Servers(d, kind) == {k \in 1 .. Len(chain[d]) : kind \in Handled[chain[d][k]]}

(* The requirement at the head of the serial ones is answered. *)
SerialResolved(d, r) ==
    /\ resolved' = [resolved EXCEPT ![d] = Append(@, r)]
    /\ serial' = [serial EXCEPT ![d] = Tail(@)]
    /\ UNCHANGED <<result, since, chain, pending, running,
                   treeVars, trace, used, sibling, cancelled>>

(* A requirement popped to an outer scope is answered there. *)
PoppedReturns(d) ==
    /\ AtSerial(d)
    /\ LET id == Head(serial[d]) IN
        /\ reqs[id].kind # "Subagent" /\ Servers(d, reqs[id].kind) # {}
        /\ \E r \in Answers(id) : SerialResolved(d, r)
    /\ UNCHANGED pc

(* No scope has a handler (UnhandledRequirement), or the outer handler's   *)
(* result is of the wrong family.                                          *)
SerialFails(d) ==
    /\ AtSerial(d)
    /\ LET kind == reqs[Head(serial[d])].kind IN Servers(d, kind) = {} \/ kind # "Subagent"
    /\ Return(d, "Err")
    /\ UNCHANGED <<treeVars, trace, used, sibling, cancelled>>

AtSubagent(d) ==
    /\ AtSerial(d) /\ reqs[Head(serial[d])].kind = "Subagent"
    /\ Servers(d, "Subagent") # {}

(* The depth guard, or a spawner that gives no child. *)
SubagentRefused(d) ==
    /\ AtSubagent(d)
    /\ SerialResolved(d, [id |-> Head(serial[d]), ok |-> FALSE, usage |-> 0])
    /\ UNCHANGED pc

(* DrivingSubagentHandler::fulfill: the child drain pops to the scope that *)
(* served the requirement and the scopes beyond it.                        *)
SpawnSubagent(d) ==
    /\ AtSubagent(d) /\ d < MaxDepth
    /\ LET k == Min(Servers(d, "Subagent"))
       IN  \E failed \in SUBSET {Own} :
            Begin(d + 1, <<d + 1>> \o SubSeq(chain[d], k, Len(chain[d])), failed)

SubagentReturns(d) ==
    /\ pc[d] = "Batch" /\ d < MaxDepth /\ pc[d + 1] = "Return"
    /\ SerialResolved(d, [id |-> Head(serial[d]),
                          ok |-> result[d + 1] \in {"Ok", "Cancelled"}, usage |-> 0])
    /\ pc' = [pc EXCEPT ![d + 1] = "Off"]

-----------------------------------------------------------------------------
(* drain again: what becomes of the batch *)

(* Fault: the grace waits for the handlers that are still running. *)
GraceExpires_Joins(d) ==
    /\ pc[d] = "Batch" /\ cancelled /\ running[d] = {}
    /\ settle_cancelled(d, Range(pending[d]))

(* Preempted: cancelled, and the unwind grace is over. *)
GraceExpires(d) ==
    /\ pc[d] = "Batch" /\ cancelled
    /\ settle_cancelled(d, Range(pending[d]))

BatchDone(d) == Deepest(d) /\ pc[d] = "Batch" /\ running[d] = {} /\ serial[d] = <<>>

BatchCancelled(d) ==
    /\ BatchDone(d) /\ cancelled
    /\ settle_cancelled(d, {r.id : r \in Range(resolved[d])})

(* Fault: the batch stays pending while it is fed back. *)
BatchCompleted_KeepsPending(d) ==
    /\ BatchDone(d) /\ ~cancelled
    /\ pc' = [pc EXCEPT ![d] = "Feed"]
    /\ UNCHANGED <<result, since, chain, pending, running, serial, resolved,
                   treeVars, trace, used, sibling, cancelled>>

BatchCompleted(d) ==
    /\ BatchDone(d) /\ ~cancelled
    /\ pc' = [pc EXCEPT ![d] = "Feed"]
    /\ pending' = [pending EXCEPT ![d] = <<>>]
    /\ UNCHANGED <<result, since, chain, running, serial, resolved,
                   treeVars, trace, used, sibling, cancelled>>

FeedEnds(d) ==
    /\ pc[d] = "Feed" /\ resolved[d] = <<>>
    /\ pc' = [pc EXCEPT ![d] = "Loop"]
    /\ UNCHANGED <<result, since, chain, pending, running, serial, resolved,
                   treeVars, trace, used, sibling, cancelled>>

Extended(d, ids) == pending[d] \o ids

(* The head of the resolutions is recorded and fed back.  An id no machine *)
(* waits for is rejected and changes nothing.                              *)
Resume(d) ==
    LET r == Head(resolved[d])
        to == Waiting(d, r.id)
        recorded == [trace EXCEPT ![r.id] = Append(@, Record("Resumed", r.usage))]
    IN
    /\ resolved' = [resolved EXCEPT ![d] = Tail(@)]
    /\ pc' = [pc EXCEPT ![d] = "Feed"]
    /\ \/ /\ to = {} /\ trace' = recorded
          /\ UNCHANGED <<pending, treeVars>>
       \/ \E m \in to : \E kinds \in Replies(d, m, r) :
            LET failed == reqs[r.id].kind = "Llm" /\ ~r.ok IN
            /\ rest' = [rest EXCEPT ![d][m] = RestAfter(d, m, r, kinds)]
            /\ out' = [out EXCEPT ![d][m] =
                        IF failed THEN {} ELSE (@ \ {r.id}) \cup Range(NewIds(Len(kinds)))]
            /\ reqs' = reqs \o NewReqs(d, m, kinds)
            /\ trace' = recorded \o [i \in 1 .. Len(kinds) |-> <<>>]
            /\ pending' = [pending EXCEPT ![d] = Extended(d, NewIds(Len(kinds)))]
    /\ UNCHANGED <<result, since, chain, running, serial, sibling, cancelled>>

(* A charge failed: this resolution and the rest are dropped, the machine *)
(* is interrupted and the inner loop ends.                                *)
BudgetStop(d) ==
    /\ trace' = Recorded({r.id : r \in Range(resolved[d])}, "NeverResumed")
    /\ interrupt_budget_exhausted(d)
    /\ resolved' = [resolved EXCEPT ![d] = <<>>]
    /\ pc' = [pc EXCEPT ![d] = "Loop"]
    /\ UNCHANGED <<result, since, chain, pending, running, serial, used, sibling, cancelled>>

ConsumesBudget(r) == reqs[r.id].kind = "Llm" /\ r.ok

FeedFree(d) ==
    /\ pc[d] = "Feed" /\ resolved[d] # <<>> /\ ~ConsumesBudget(Head(resolved[d]))
    /\ Resume(d) /\ UNCHANGED used

(* charge_resolution_budget charges the step and then, separately, the usage. *)
ChargeStep(d) ==
    /\ pc[d] = "Feed" /\ resolved[d] # <<>> /\ ConsumesBudget(Head(resolved[d]))
    /\ \/ \E c \in Charged(used.steps, 1, MaxSteps) :
            /\ used' = [used EXCEPT !.steps = c]
            /\ pc' = [pc EXCEPT ![d] = "Usage"]
            /\ UNCHANGED <<result, since, chain, pending, running, serial, resolved,
                           treeVars, trace, sibling, cancelled>>
       \/ Charged(used.steps, 1, MaxSteps) = {} /\ BudgetStop(d)

ChargeUsage(d) ==
    LET charged == Charged(used.tokens, Head(resolved[d]).usage, MaxTokens) IN
    /\ pc[d] = "Usage"
    /\ \/ \E c \in charged : used' = [used EXCEPT !.tokens = c] /\ Resume(d)
       \/ charged = {} /\ BudgetStop(d)

-----------------------------------------------------------------------------
(* Other tasks *)

Cancel ==
    /\ ~cancelled /\ cancelled' = TRUE
    /\ UNCHANGED <<driverVars, treeVars, trace, used, sibling>>

SiblingCharges ==
    /\ sibling < MaxSibling
    /\ \E c \in Charged(used.tokens, 1, MaxTokens) : used' = [used EXCEPT !.tokens = c]
    /\ sibling' = sibling + 1
    /\ UNCHANGED <<driverVars, treeVars, trace, cancelled>>

(* What the drain of a layer does without waiting for a handler. *)
DriverStep(d) ==
    \/ LoopEnds(d) \/ LoopCancelled(d) \/ LoopExhausted(d) \/ LoopFulfils(d)
    \/ GraceExpires(d) \/ BatchCancelled(d) \/ BatchCompleted(d)
    \/ SubagentReturns(d)
    \/ FeedEnds(d) \/ FeedFree(d) \/ ChargeStep(d) \/ ChargeUsage(d)

HandlerStep(d) ==
    \/ \E id \in running[d] : HandlerReturns(d, id) \/ HandlerMisaligned(d, id)
    \/ PoppedReturns(d) \/ SerialFails(d) \/ SubagentRefused(d) \/ SpawnSubagent(d)

Next ==
    \/ DriveRoot
    \/ \E d \in Layers : DriverStep(d) \/ HandlerStep(d)
    \/ Cancel \/ SiblingCharges

Spec == Init /\ [][Next]_vars

(* The driver's task is polled whenever it is woken, and timers fire.  No *)
(* fairness for handlers: one may never return.                           *)
FairSpec == Spec /\ \A d \in Layers : WF_vars(DriverStep(d))

-----------------------------------------------------------------------------
(* Properties *)

(* A requirement is settled at most once: resumed or given up, never both *)
(* and never twice, whatever cancellation, budget and completion order do *)
(* to the batch it is in.                                                 *)
SettledAtMostOnce == \A id \in DOMAIN trace : Len(trace[id]) <= 1

(* The requirements the drain of layer d has emitted. *)
Emitted(d) == {id \in DOMAIN reqs : id > since[d] /\ reqs[id].layer = d}

(* A drain that returns a TurnDone, finished, cancelled or out of budget, *)
(* has settled every requirement it emitted and leaves no machine of its  *)
(* tree waiting for one.                                                  *)
DriveSettlesAll ==
    \A d \in Layers :
        pc[d] = "Return" /\ result[d] \in {"Ok", "Cancelled"} =>
            /\ \A id \in Emitted(d) : trace[id] # <<>>
            /\ \A m \in Machines : out[d][m] = {}

(* drain never finds its machine without a requirement and short of a     *)
(* terminal cursor.                                                       *)
NeverQuiesces == \A d \in Layers : result[d] # "Quiesced"

(* The sum of fee[1] .. fee[n]. *)
SumTo(fee, n) ==
    LET sum[i \in 0 .. n] == IF i = 0 THEN 0 ELSE sum[i - 1] + fee[i]
    IN  sum[n]

(* The replies that reached a machine, and what each requirement cost. *)
FedReplies == {id \in DOMAIN trace :
                 reqs[id].kind = "Llm" /\ \E i \in DOMAIN trace[id] : trace[id][i].usage > 0}

Fees == [id \in DOMAIN trace |-> IF id \in FedReplies THEN trace[id][1].usage ELSE 0]

(* The shared ledger accounts for exactly the replies that reached a      *)
(* machine and what other contexts charged: each fed reply is paid for in *)
(* full, at every depth, and a reply that is dropped costs no tokens.     *)
LedgerMatchesFeeds ==
    /\ used.tokens = sibling + SumTo(Fees, Len(trace))
    /\ Cardinality(FedReplies) <= used.steps

(* A cancelled run ends although handlers may never return: the unwind    *)
(* grace bounds the wait in every layer.                                  *)
CancelStopsDrive == (cancelled /\ pc[0] # "Off") ~> pc[0] = "Return"

(* What becomes of requirements: each is settled once, by the drain that  *)
(* emitted it, and none is lost between the machines of a tree.           *)
SettlementInv == TypeOK /\ SettledAtMostOnce /\ DriveSettlesAll /\ NeverQuiesces
=============================================================================
