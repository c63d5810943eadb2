----------------------------- MODULE AgentLife ------------------------------
(***************************************************************************)
(* The life of a facade Agent around its runs: it is built, reconfigured   *)
(* between runs, snapshotted, and restored in another process that injects *)
(* its own tools, delegates and handlers                                   *)
(* (src/src/facade/agent/builder.rs, reconfig.rs, snapshot.rs,             *)
(* src/src/facade/external.rs, ids.rs).                                    *)
(*                                                                         *)
(* What an agent is made of lives in two places.  The runtime handles      *)
(* (executable tools, delegates, session handlers) belong to the process   *)
(* and are never saved; the declarations shown to the model, and the       *)
(* reconfigurations queued for them, are data of AgentState and are saved. *)
(* Every run needs the two to agree.                                       *)
(*                                                                         *)
(* A run is reduced to what the agent is left with: AgentRun is the        *)
(* detailed one.  Descriptions, schemas, models, prompts, loop policies    *)
(* and approval policies are left out: no decision here depends on them.   *)
(*                                                                         *)
(* Operators under a comment "Fault:" are not part of the model; each is a *)
(* plausible mistake in the operator that follows it.                      *)
(***************************************************************************)
EXTENDS Naturals, Sequences

CONSTANTS
    ToolNames,     \* names of tools, those of delegation tools among them
    Locals,        \* names of local subagents
    Externals,     \* names of managed external agents
    AskName,       \* delegation_tool_name: the tool of a delegate
    SingleName,    \* the tool of single-tool delegation
    Routings,      \* Delegation: its mode and the delegates its rules name
    BaseSets,      \* tools a host may inject: typed, declared, custom registry
    SetIds,        \* identities of tool sets
    ToolSetRequests, \* reconfigurations a caller asks for
    Recipes,       \* external agents a host may build
    MaxQueue,      \* bound: reconfigurations queued
    MaxIds,        \* bound: ids minted in one process
    MaxRestores    \* bound: restorations

ToolSets == [id: SetIds, names: SUBSET ToolNames]
RequestType == [op: {"ReplaceToolSet", "PatchToolSet"}, expected: SetIds, id: SetIds,
                remove: SUBSET ToolNames, add: SUBSET ToolNames]

ASSUME LifeAssumption ==
    /\ AskName \in [Locals \cup Externals -> ToolNames]
    /\ SingleName \in ToolNames
    /\ Locals \cap Externals = {}
    /\ BaseSets \subseteq SUBSET ToolNames
    /\ SetIds \subseteq Nat \ {0} /\ SetIds # {}
    /\ ToolSetRequests \subseteq RequestType
    /\ Routings \subseteq [kind: {"PerSubagentTool", "SingleTool", "Rules"},
                           refs: SUBSET (Locals \cup Externals)]
    /\ MaxQueue \in Nat /\ MaxIds \in Nat /\ MaxRestores \in Nat

VARIABLES
    host,      \* runtime handles: tools, routing, delegates
    tools,     \* AgentState: initial and current tool set, queued reconfigurations
    ids,       \* FacadeIds: the counter; the ids of the log and of the run's turn
    retained,  \* last_external_sessions
    saved,     \* the snapshot, or NoSnapshot
    run,       \* the run: "none", "unpolled" or "driving"
    waiting,   \* the machine still waits: the drive of a stream failed
    restores   \* restorations so far

lifeVars == <<host, tools, ids, retained, saved, run, waiting, restores>>

-----------------------------------------------------------------------------
(***************************************************************************)
(* External agents.                                                        *)
(***************************************************************************)
Capabilities == {"Streaming", "HostTools", "Resume"}
RunModes == {"BlackBox", "Managed", "ManagedWithTools", "Attachable"}

required_capabilities(mode) ==
    CASE mode = "BlackBox" -> {}
      [] mode = "Managed" -> {"Streaming"}
      [] mode = "ManagedWithTools" -> {"Streaming", "HostTools"}
      [] mode = "Attachable" -> {"Streaming", "Resume"}

validate_external_mode(mode, capabilities) == required_capabilities(mode) \subseteq capabilities

\* A recipe of the host: the requested mode, the capabilities declared (or
\* supplied) for the runtime, what a probe finds, and where the session
\* handler comes from: "none", "own", or "default" (probed and attached).
RecipeType == [mode: RunModes, declared: SUBSET Capabilities, probed: SUBSET Capabilities,
               handler: {"none", "own", "default"}]

ASSUME RecipeAssumption == Recipes \subseteq RecipeType

Absent == [handle |-> "absent", mode |-> "BlackBox", capabilities |-> {}]

\* Fault: the probe replaces the capabilities, and nobody looks at the mode again.
MayBuild_DeclaredOnly(recipe) == validate_external_mode(recipe.mode, recipe.declared)

\* build, and build_with_default_session_handler, accept the recipe.
MayBuild(recipe) ==
    /\ validate_external_mode(recipe.mode, recipe.declared)
    /\ recipe.handler = "default" => validate_external_mode(recipe.mode, recipe.probed)

build_external(recipe) ==
    [handle |-> IF recipe.handler = "none" THEN "bare" ELSE "attached",
     mode |-> recipe.mode,
     capabilities |-> IF recipe.handler = "default" THEN recipe.probed ELSE recipe.declared]

\* What Claude Code, Codex and OpenCode are taken to support unprobed.
declared_capabilities == {"Streaming", "Resume"}

\* The mode is kept, the capabilities are the declared ones again.
from_restored_parts(mode) ==
    [handle |-> "bare", mode |-> mode, capabilities |-> declared_capabilities]

-----------------------------------------------------------------------------
(***************************************************************************)
(* The tools an agent can execute and declares.                            *)
(***************************************************************************)
Registered(h) == h.locals \cup {e \in Externals : h.externals[e].handle # "absent"}

\* Delegation::declarations.
delegation_declarations(h) ==
    CASE h.routing.kind = "PerSubagentTool" -> {AskName[d] : d \in Registered(h)}
      [] h.routing.kind = "SingleTool" -> {SingleName}
      [] h.routing.kind = "Rules" -> {}

\* ensure_unique_tool_names and ensure_unique_declaration_names.
NamesAreUnique(h) ==
    /\ h.base \cap delegation_declarations(h) = {}
    /\ h.routing.kind = "PerSubagentTool" =>
           \A d, e \in Registered(h) : AskName[d] = AskName[e] => d = e

\* A rule names only delegates that exist.
validate_delegation_references(h) == h.routing.refs \subseteq Registered(h)

\* build_agent_tool_declarations succeeds.
MayAssemble(h) == NamesAreUnique(h) /\ validate_delegation_references(h)

available_names(h) == h.base \cup delegation_declarations(h)

\* FacadeToolRegistryResolver::resolve_tool_set succeeds.
resolve_tool_set(h, set) == set.names \subseteq available_names(h)

-----------------------------------------------------------------------------
(***************************************************************************)
(* Reconfiguration of the tool set.                                        *)
(***************************************************************************)

\* A plan that conflicts: not one of the ToolSets.
Unplannable == [id |-> 0, names |-> {}]

\* apply_reconfig_request, apply_tool_set_patch.
apply_reconfig_request(set, r) ==
    CASE set = Unplannable -> Unplannable
      [] set # Unplannable /\ r.op = "ReplaceToolSet" -> [id |-> r.id, names |-> r.add]
      [] set # Unplannable /\ r.op = "PatchToolSet" ->
             IF r.expected = set.id /\ r.remove \subseteq set.names
             THEN [id |-> r.id, names |-> (set.names \ r.remove) \cup r.add]
             ELSE Unplannable

\* plan_reconfig_requests, from the current set.
Planned(set, queue) ==
    LET plan[n \in 0..Len(queue)] ==
            IF n = 0 THEN set ELSE apply_reconfig_request(plan[n - 1], queue[n])
    IN  plan[Len(queue)]

\* Fault: the caller's set is taken as it is.
merge_delegation_declarations_Verbatim(h, r) == r

\* merge_facade_delegation_declarations: a replacement keeps the delegates.
merge_delegation_declarations(h, r) ==
    IF r.op = "ReplaceToolSet" THEN [r EXCEPT !.add = @ \cup delegation_declarations(h)] ELSE r

\* A caller does not manage the tools of delegates.
MayMerge(h, r) ==
    /\ r.add \cap delegation_declarations(h) = {}
    /\ r.op = "PatchToolSet" => r.remove \cap delegation_declarations(h) = {}

\* Agent::reconfigure; a request that is not admitted queues nothing.
Reconfigure(r) ==
    /\ run = "none" /\ ~ waiting
    /\ Len(tools.queue) < MaxQueue
    /\ MayMerge(host, r)
    /\ LET queue == Append(tools.queue, merge_delegation_declarations(host, r))
           plan == Planned(tools.current, queue)
       IN  /\ plan \in ToolSets
           /\ plan # tools.current => resolve_tool_set(host, plan)
           /\ tools' = [tools EXCEPT !.queue = queue]
    /\ UNCHANGED <<host, ids, retained, saved, run, waiting, restores>>

-----------------------------------------------------------------------------
(***************************************************************************)
(* Building.                                                               *)
(***************************************************************************)

\* The delegates a host registers, with the external agents it could build.
Delegations ==
    [locals: SUBSET Locals,
     externals: [Externals -> {Absent} \cup {build_external(r) : r \in {x \in Recipes : MayBuild(x)}}]]

NoSession == [status |-> "Pending", session |-> FALSE]
NoSnapshot == [taken |-> FALSE]

\* AgentBuilder::build: the declared tools are those the process has.
Built(h) ==
    LET all == [id |-> CHOOSE i \in SetIds : TRUE, names |-> available_names(h)]
    IN  [initial |-> all, current |-> all, queue |-> << >>]

\* Minted behind the ids of the agent and of its tool set.
ConversationId == 3

LifeInit ==
    /\ \E base \in BaseSets, routing \in Routings, d \in Delegations :
          LET h == [base |-> base, routing |-> routing,
                    locals |-> d.locals, externals |-> d.externals]
          IN  /\ MayAssemble(h)
              /\ host = h
              /\ tools = Built(h)
    /\ ids = [counter |-> ConversationId + 1, log |-> {}, turn |-> {}]
    /\ retained = [e \in Externals |-> NoSession]
    /\ saved = NoSnapshot
    /\ run = "none" /\ waiting = FALSE
    /\ restores = 0

-----------------------------------------------------------------------------
(***************************************************************************)
(* Runs.                                                                   *)
(***************************************************************************)
MayMint == ids.counter < MaxIds

\* tool_handlers_for_run resolves the current set before the run exists, and
\* the ids of the user's message and its turn are minted.
StartRun ==
    /\ run = "none"
    /\ resolve_tool_set(host, tools.current)
    /\ MayMint
    /\ run' = "unpolled"
    /\ ids' = [ids EXCEPT !.counter = @ + 1, !.turn = {ids.counter}]
    /\ UNCHANGED <<host, tools, retained, saved, waiting, restores>>

\* The first poll crosses the turn boundary: what is queued is planned again,
\* its registry is resolved and swapped in.
TurnBoundary ==
    /\ run = "unpolled" /\ ~ waiting
    /\ LET plan == Planned(tools.current, tools.queue)
       IN  /\ resolve_tool_set(host, plan)
           /\ tools' = [tools EXCEPT !.current = plan, !.queue = << >>]
    /\ run' = "driving"
    /\ UNCHANGED <<host, ids, retained, saved, waiting, restores>>

\* Tool calls, their results and pivots get their ids as the turn goes on.
Mint ==
    /\ run = "driving" /\ MayMint
    /\ ids' = [ids EXCEPT !.counter = @ + 1, !.turn = @ \cup {ids.counter}]
    /\ UNCHANGED <<host, tools, retained, saved, run, waiting, restores>>

\* What the records of a driven delegate say.  The map they are collected
\* from has no order, so of several drives of one delegate any may stay.
Driven(e) == {[status |-> "Failed", session |-> FALSE]}
             \cup IF host.externals[e].handle = "attached"
                  THEN {[status |-> "Completed", session |-> TRUE]} ELSE {}

\* run_full, behind a drive that returned, keeps the session facts of the
\* delegates it drove.
Retain ==
    \/ UNCHANGED retained
    \/ /\ run = "driving" /\ host.routing.kind # "Rules"
       /\ \E e \in Externals \cap Registered(host) : \E facts \in Driven(e) :
              retained' = [retained EXCEPT ![e] = facts]

\* A turn that completes is committed with its ids.
Commit ==
    /\ run = "driving"
    /\ run' = "none"
    /\ ids' = [ids EXCEPT !.log = @ \cup ids.turn, !.turn = {}]
    /\ Retain
    /\ UNCHANGED <<host, tools, saved, waiting, restores>>

\* Every other turn is discarded, and the machine rests.
Discard ==
    /\ run # "none"
    /\ run' = "none" /\ waiting' = FALSE
    /\ ids' = [ids EXCEPT !.turn = {}]
    /\ Retain
    /\ UNCHANGED <<host, tools, saved, restores>>

\* The drive of a stream fails: its Drop leaves the machine where it waits,
\* which refuses the message of the next run.
DriveErr ==
    /\ run = "driving" \/ (run = "unpolled" /\ waiting)
    /\ run' = "none" /\ waiting' = TRUE
    /\ ids' = [ids EXCEPT !.turn = {}]
    /\ UNCHANGED <<host, tools, retained, saved, restores>>

\* A task that a rule routes never reaches the machine: the delegate is
\* resolved by its name, and its session facts are retained.
run_rules_routed(d) ==
    /\ run = "none"
    /\ host.routing.kind = "Rules" /\ d \in host.routing.refs
    /\ resolve_tool_set(host, tools.current)
    /\ d \in Registered(host) \cap Externals
    /\ \E facts \in Driven(d) : retained' = [retained EXCEPT ![d] = facts]
    /\ UNCHANGED <<host, tools, ids, saved, run, waiting, restores>>

-----------------------------------------------------------------------------
(***************************************************************************)
(* Snapshot and restoration.                                               *)
(***************************************************************************)

\* AgentStateRecord: a current set equal to the initial one is not written.
Recorded(t) == [t EXCEPT !.current = IF t.current = t.initial THEN Unplannable ELSE @]
from_record(t) == [t EXCEPT !.current = IF @ = Unplannable THEN t.initial ELSE @]

\* Refused while a turn is pending; handles are dropped.
snapshot ==
    /\ run = "none" /\ ~ waiting
    /\ saved' = [taken |-> TRUE, tools |-> Recorded(tools), routing |-> host.routing,
                 log |-> ids.log, locals |-> host.locals,
                 externals |-> [e \in Externals \cap Registered(host) |-> host.externals[e].mode],
                 sessions |-> retained]
    /\ UNCHANGED <<host, tools, ids, retained, run, waiting, restores>>

\* The persisted delegates, with what the host registers again in their place.
Merged(base, again) ==
    [base |-> base, routing |-> saved.routing,
     locals |-> saved.locals \cup again.locals,
     externals |-> [e \in Externals |->
         IF again.externals[e] = Absent /\ e \in DOMAIN saved.externals
         THEN from_restored_parts(saved.externals[e])
         ELSE again.externals[e]]]

\* prune_unregistered_delegates keeps exactly what is registered again.
Pruned(h, again) == [h EXCEPT !.locals = again.locals, !.externals = again.externals]

\* drop_tool_declarations: the tools of pruned delegates leave both sets.
Without(set, names) == [id |-> set.id, names |-> set.names \ names]
Cut(t, names) == [initial |-> Without(t.initial, names), current |-> Without(t.current, names),
                  queue |-> t.queue]

\* Fault: the sets queued for later are not looked at.
ensure_restored_tool_surface_CurrentOnly(h, t) == resolve_tool_set(h, t.current)

\* The injected tools execute the current set and the one that is queued.
ensure_restored_tool_surface(h, t) ==
    /\ resolve_tool_set(h, t.current)
    /\ t.queue # << >> => /\ Planned(t.current, t.queue) \in ToolSets
                          /\ resolve_tool_set(h, Planned(t.current, t.queue))

\* Fault: a fresh counter.
continuing_after_Fresh(log) == ConversationId + 1

\* FacadeIds::continuing_after: past every id of the restored history.
continuing_after(log) ==
    LET known == log \cup {ConversationId}
    IN  (CHOOSE i \in known : \A j \in known : j <= i) + 1

\* restore_external: what becomes of a recorded session.
RestoredSession(policy, facts) ==
    CASE policy = "MarkInterrupted" -> [facts EXCEPT !.status = "Interrupted"]
      [] policy = "RestartFromBrief" -> NoSession
      [] policy = "AttachOrFail" -> facts

RestorePolicies == {"MarkInterrupted", "RestartFromBrief", "AttachOrFail"}

\* AgentRestoreBuilder::build.  The agent that was saved, if it still exists,
\* is dropped; the host may have changed what it injects.
restore(base, again, prune, policy) ==
    LET merged == Merged(base, again)
        h == IF prune THEN Pruned(merged, again) ELSE merged
        read == from_record(saved.tools)
        t == IF prune
             THEN Cut(read, delegation_declarations(merged) \ delegation_declarations(h))
             ELSE read
        kept == {e \in DOMAIN saved.externals : ~ prune \/ again.externals[e] # Absent}
    IN  /\ run = "none"
        /\ MayAssemble(h)
        /\ ensure_restored_tool_surface(h, t)
        /\ policy = "AttachOrFail" =>
               \A e \in kept : h.externals[e].handle = "attached" /\ saved.sessions[e].session
        /\ host' = h
        /\ tools' = t
        /\ ids' = [counter |-> continuing_after(saved.log), log |-> saved.log, turn |-> {}]
        /\ retained' = [e \in Externals |->
                            IF e \in kept THEN RestoredSession(policy, saved.sessions[e]) ELSE NoSession]
        /\ waiting' = FALSE
        /\ restores' = restores + 1
        /\ UNCHANGED <<saved, run>>

Restore ==
    /\ saved.taken /\ restores < MaxRestores
    /\ \E base \in BaseSets, again \in Delegations, prune \in BOOLEAN, policy \in RestorePolicies :
           restore(base, again, prune, policy)

LifeNext ==
    \/ StartRun \/ TurnBoundary \/ Mint \/ Commit \/ Discard \/ DriveErr
    \/ \E d \in Locals \cup Externals : run_rules_routed(d)
    \/ \E r \in ToolSetRequests : Reconfigure(r)
    \/ snapshot \/ Restore

LifeSpec == LifeInit /\ [][LifeNext]_lifeVars

-----------------------------------------------------------------------------
(***************************************************************************)
(* Properties.                                                             *)
(***************************************************************************)
Sessions == [status: {"Pending", "Completed", "Failed", "Interrupted"}, session: BOOLEAN]
ExternalType == [handle: {"absent", "bare", "attached"}, mode: RunModes,
                 capabilities: SUBSET Capabilities]

LifeTypeOK ==
    /\ host \in [base: SUBSET ToolNames, routing: Routings, locals: SUBSET Locals,
                 externals: [Externals -> ExternalType]]
    /\ tools \in [initial: ToolSets, current: ToolSets, queue: Seq(RequestType)]
    /\ ids \in [counter: Nat, log: SUBSET Nat, turn: SUBSET Nat]
    /\ retained \in [Externals -> Sessions]
    /\ run \in {"none", "unpolled", "driving"}
    /\ waiting \in BOOLEAN
    /\ restores \in Nat

\* Every tool set the agent can come to show the model can be executed: the
\* current one, so that no run is refused, and the one that is queued, so that
\* no turn boundary fails, whatever was reconfigured, saved, pruned or left
\* uninjected (tool_handlers_for_run, ensure_restored_tool_surface).
ShownToolsAreExecutable ==
    /\ resolve_tool_set(host, tools.current)
    /\ Planned(tools.current, tools.queue) \in ToolSets
    /\ resolve_tool_set(host, Planned(tools.current, tools.queue))

\* A rule routes only to delegates that are there (resolve_rules_target).
RoutesResolve == host.routing.refs \subseteq Registered(host)

\* An external agent that can be driven has what its mode needs, by the best
\* knowledge of its capabilities (validate_external_mode).
DrivenModeIsServed ==
    \A e \in Externals : host.externals[e].handle = "attached" =>
        validate_external_mode(host.externals[e].mode, host.externals[e].capabilities)

\* What the agent offers, to the model and to its rules, it can do.
OffersInv == LifeTypeOK /\ ShownToolsAreExecutable /\ RoutesResolve /\ DrivenModeIsServed

\* No id that is minted is one that the history has, in this process or after
\* a restoration of any snapshot, so no commit is refused for a duplicate
\* (continuing_after).
FreshIdsInv ==
    /\ \A i \in ids.log \cup ids.turn \cup {ConversationId} : i < ids.counter
    /\ ids.turn \cap ids.log = {}

\* No host injects a plain tool under the name that a delegate's tool has, or
\* had in another process.
DelegateNames == {AskName[d] : d \in Locals \cup Externals} \cup {SingleName}
NamesKeepTheirMeaning == \A base \in BaseSets : base \cap DelegateNames = {}

\* No step takes the tool of a registered delegate away from the model: not a
\* replacement of the tool set, and not a restoration that prunes others
\* (merge_facade_delegation_declarations, drop_tool_declarations).  A queued
\* replacement keeps the tools of the delegates there were when it was made.
ToolsAreKept ==
    [][NamesKeepTheirMeaning =>
       LET before == IF restores' = restores THEN tools ELSE from_record(saved.tools)
       IN  before.current.names \cap delegation_declarations(host') \subseteq tools'.current.names
      ]_lifeVars
=============================================================================
