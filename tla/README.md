# A TLA+ verification project for agent-lib

agent-lib is a Rust library for building LLM agents. This directory holds TLA+
models of it, the TLC configurations that check them on small instances, and
TLAPS proofs of the most important invariants for every instance. Paths below
are relative to the crate's sources (`conversation/mod.rs` is
`src/src/conversation/mod.rs` in the repository).

## 1. The system

| component | state it keeps | operations | what makes it correct |
|---|---|---|---|
| **Turn transaction** (`conversation/mod.rs`, `conversation/pending/`) | the pending turn: phase, messages, tool calls, unmapped provider ids, the assistant message being received | begin, start/push/finish assistant, register calls, append result, inject user, commit; cancel by discard, resume or commit | ids are unique over log and draft; the phase says which calls are open; what is ready to commit is valid; a cancellation can always close the turn |
| **Closed-turn validator** (`conversation/validation/`) | none | `validate_turn_data` | the same notion of a legal turn as the transaction's |
| **History, head, forks, tokens** (`conversation/history*`, `boundary*`) | append-only raw log, lineage shared between forks, ceiling, head, version, derived tool-call index | append, revert/redo, fork, issue and resolve tokens | a conversation addresses only its own parent chain; the index shows the active turns; a stale token never resolves |
| **Compaction projection** (`conversation/projection/`) | spans over the lineage, artifacts | plan, apply, extend on commit, view | the view stands for exactly the active turns |
| **Persistence** (`conversation/persistence/`) | snapshots, row records | snapshot, checked restore, row mapping | what was saved can be loaded, and then behaves the same; a read is an exported state or is refused |
| **Agent machine** (`agent/machine/default/`) | the loop cursor, the non-persistent turn scratch, the tool phase | one `step` per input: user message, pivot, resume, abandon; reconfigure; budget interrupt | cursor, scratch and pending turn agree; no call is lost or run without approval; every turn comes to rest |
| **Agent state** (`agent/state*`) | conversation, cursor, reconfiguration queue, tool set, model, policy | queue, plan and apply reconfigurations, save, restore | reconfigurations are applied once, in order |
| **Nested machine, subagents** (`agent/machine/nested.rs`, `agent/drive/subagent.rs`) | a parent and its child machines | route requirements and answers | an answer reaches the machine that asked |
| **Drive loop** (`agent/drive.rs`) | outstanding requirements, running handlers | fulfil, cancel, interrupt | every requirement is answered or abandoned exactly once |
| **Run context** (`agent/context/`) | a budget ledger and a cancellation tree shared by concurrent runs | charge, cancel, wait, trace | no overspending, cancellation reaches every child |
| **Facade runs** (`facade/agent.rs`, `facade/agent/stream.rs`) | the agent's machine, a run's future, a stream's event queue and pivot window, recorded approvals | run, stream, poll, interject a pivot, cancel, drop | a reply answers what the user was told is accepted; a run leaves nothing behind; a cancelled run ends |
| **Delegation** (`facade/delegate/`, `facade/agent/dispatch.rs`, `facade/approval.rs`, `facade/external/`) | delegation records, retained sessions, the approval policy | delegate by model, rules or dispatcher; approve external starts; verify, escalate | no external start without authority; no session forgotten; no task given up too early, or passed on for ever |
| **Worker choice** (`agent/external/profile.rs`, `dispatch.rs`, `escalation.rs`) | a roster of profiles | route, assess, upgrade, downgrade | the cheapest able worker, then a stronger one |
| **Collaboration** (`agent/collab/`, `facade/collab.rs`) | plan, blackboard and mailboxes shared by agents | add, claim, update, post, send, read by pages; reflect reports; save and restore | one owner per task, the order of the plan, no lost or repeated mail |
| **External agents** (`agent/external/machine.rs`, `registry.rs`, `handler.rs`, `budget.rs`, `worktree.rs`) | the machine's session and turn, a registry of live sessions, worktrees | start, advance, pause, answer, charge, abandon, sweep, restore | an answer belongs to its prompt; nothing is notified twice; no process or worktree is forgotten |
| **External runtimes** (`agent/external/process/`, `acp/`, `claude_code/`, `codex/`, `opencode/`) | a decoder and a process or connection | launch, resume, read to a decision, answer, close | the same |
| **Stream accumulator** (`stream/`) | blocks being assembled, usage | push, finish, collect | the blocks of a message, each complete, or an error |
| **Provider streams** (`adapter/*/stream/`, `adapter/common/sse.rs`) | a normalizer per stream | a wire frame to stream events | what the consumer gets is what the provider said |
| **Clients, request and response conversion** (`client/`, `adapter/`, `model/`) | none | HTTP and JSON conversion | conversion only |
| **agent-testkit** (`crates/`) | — | test support | — |

How they interact. A host feeds an *agent machine* one input at a time; the
machine does no I/O, it answers each input with the *requirements* it now waits
for (an LLM reply, a tool result, an approval, a tool registry, a session of an
external agent) and parks its cursor on their ids. A *driver* fulfils them,
concurrently and in any order, and resumes or abandons the machine by
requirement id. The machine keeps its turn in a *Conversation*, whose pending
transaction becomes a committed turn only through the validator. Conversations
are forked, reverted, compacted and saved by the host between turns; a save is
refused while a turn is pending. An LLM requirement is fulfilled by a *client*,
whose stream of frames is normalized and accumulated into one response. The
*facade* packs a machine, its driver, approvals, delegates and the shared
collaboration parts into an `Agent` with runs and streams; a delegate is a
subagent driven in the same way, or an external agent: a machine of its own
kind whose only requirement is a *session*, served by a registry of processes.

What is hard here. Nothing in the conversation and machine layers is
concurrent in itself; there the difficulties are long sequences of legal calls that
reach a state nobody tested (cancel, revert, fork, restore in some order),
derived state kept by hand next to the facts it is derived from, tokens and
plans that are used long after they were issued, answers that come late, twice
or out of order, failures half-way through a step, and restarts. The driver, the
run context, the facade's streams, the collaboration parts and the external
sessions are concurrent: handlers that complete in any order or never, a cancel or a
drop at any await, a budget several contexts share, drains nested in a batch of
another drain, agents on stale copies of a plan, processes that outlive the turn
that started them. The streams of the providers are unreliable: frames that are
late, repeated, missing or malformed. The hazards are listed line by line
under `hazards` in `PROJECT.json`.

## 2. Modules

```
TurnValidation <- PendingTurn                               StreamEvents <- Accumulator
ConversationTree <- RowStore                                StreamEvents <- AnthropicStream,
TurnProtocol   <= AgentMachine (refinement)                   ChatStream, ResponsesStream
Cancellation                                                ReplyStream composes the five
DriveLoop                                                  WorkerDispatch  <- Delegation
AgentRun, AgentLife                                        ExternalMachine, RuntimeSession
Collab                                                       <- ExternalSession
```

`MC<module>` is an instance TLC checks, `<module>Proofs` the theorems about it
(section 4). Three runs check components that have nothing to do with each other
side by side: `MCAgentRun` has `AgentMachine`, `AgentRun` and `AgentLife`,
`MCDriveAndTokens` has `DriveLoop` and `Cancellation`, `MCDelegationAndReply` has
`Delegation` and `ReplyStream`. A variable `view`, which no step changes, says
which component a behaviour is about; the others stay in an initial state, so the
states of such a run are the sum of those of its parts and not the product.

### TurnValidation
Operators only: `validate_turn_data` and the three checks it is made of
(`ValidIdentity`, `ValidRoleSequence`, `ValidPairings`). A message is reduced to
its id, its role, the provider ids of its tool-use and tool-result blocks and a
flag `wellFormed` that stands for the block grammar. `RoleStateAfter` runs the
role automaton of `validation/sequence.rs` as a recursive function. Which error
is reported is not modelled, only whether the turn is accepted.

### PendingTurn
One Conversation and its turn transaction. The variables are the fields of
`Conversation`, `History`, `PendingTurn` and `PendingTurnState`; the two caches
(`History.message_ids` and the pending half of the `ToolCallIndex`) are
variables of their own, because the code keeps them by hand. One action per
method; a call that is refused and leaves no trace is not an action, the two
failures that do leave one (`PushAssistantEvent`, `FinishAssistantRejected`) are.
The caller is arbitrary: it may supply ids that are already taken.

### ConversationTree
Several Conversations that fork from each other. A turn is atomic here and has
at most one tool call, which is enough to tell right from wrong in the index.
`conv[c]` holds raw log, backing lineage, ceiling, head, version, committed
index with its visible scope, projection and fork origin. One token
(`held`) and one compaction plan (`plan`) can be kept by a caller and used at
any later time. `SnapshotAndRestore` is a restart: everything derived is
rebuilt as `restore_v1` does it.

### RowStore
The row mapping of `persistence/rows.rs` over the conversations of
`ConversationTree`, whose operations it takes as they are (`Evolve`). A snapshot
becomes nine tables (`from_snapshot`); rows of tables that evolve have the
structural version in their key, as their generation. `Export` diffs against the
rows the caller knows to be stored, its own last export or its parent's, and
inserts the rest. `Read` fetches the rows of one conversation with the facts of
the turns it retains and runs both `into_snapshot` functions; `RestoresFrom` adds
what restore checks. The database is outside the crate: `TornExport` leaves out
any set of tables or any single row of an insert, `Reload` starts a conversation
again from what is read, and `ReloadOlder` from an older export that was kept, so
that two lines of evolution store under the same generations. A message is its
place in its turn, and a turn has two or four of them. Ids are never used twice;
that is left to the caller by the code too. `attempts`, `torn` and `diverged` are
history for the properties.

Two things the model shows beside the properties: what is left of an insert that
stored only facts and raw membership is read as a raw turn outside the lineage,
which is harmless; and other leftovers make reads fail until the export is
repeated or a later one finishes.

### TurnProtocol, AgentMachine
`TurnProtocol` is what `trait AgentMachine` promises to a driver. The machine hands
out requirements in batches, under ids that are never used twice. An answer
(`Answer`) names something awaited; there is a new batch only after the last answer
of the one before. A turn ends with an answer, with an `Abandon` or with the interrupt
for an exhausted budget, and `outcome` says which, so that an `Abandon` cannot pass
for an answer; what is over awaits nothing. Nothing else changes anything: an input
that names an id of an earlier batch or turn is rejected. `DocumentedSpec` says the
same of every settled id, as the documentation does; `Spec` allows the one exception
the code makes, an `Abandon` of a requirement of the current batch that has been
answered (`AbandonAnswered`, section 5, item 3).

`AgentMachine` is `DefaultAgentMachine` with its cursor, scratch, tool phase and
reconfiguration queue. Every action is a whole `step`; `LegalPath` checks each
cursor move a step makes against `can_transition_to`, and a refused move, a
missing tool phase or a closure the Conversation would refuse ends in
`fail("Internal")` as in the code, so `NoInternalFailure` says these never
happen. The Conversation is seen through the phase and the open calls of its
pending turn. The driver is the environment: any known requirement id with a
right, a failed or a wrong answer, abandonment, budget interrupts, and stopping
and restarting. `failure` classifies why the machine failed: "Driver" (the
answer was bad), "Host" (an id source gave no id), "Restored" (a restored
machine had nothing parked), "Internal" (the machine's own fault).
`KeepsTurnProtocol` and `SettledIdsAreStale` are the two specifications of
`TurnProtocol`, instantiated with the ids of the cursor as the batch, those of them
without an answer as what is awaited, and an outcome read off cursor and reason.

### DriveLoop
`drain`, `fulfill_batch` and their cancellable wrapper, with the drains a
subagent handler nests inside a batch. A layer is one activation of `drain`;
its local variables (`pending`, `local`, `serial`, the resolutions) are variables
indexed by the layer, and `pc` says where it is: at the head of the loop, in the
batch, feeding a resolution back, between the two charges of a reply, returned.
`chain` is the scope chain a layer pops along, which is not the stack of
layers: a subagent served by an outer scope pops to that scope. The root layer
drives a tree (`Tree`), a machine with attached children, as `NestedMachine`
does: answers are routed by id, an interrupt ends every machine. A machine is
seen through its cursor only, at rest or waiting for ids; what it may emit when
it is resumed is `Replies`, an abstraction of `AgentMachine`. `reqs` holds every
requirement ever emitted and `trace` its records. The usage kept in a record is
not in the code's record: it says which reply was fed. Other tasks
cancel the run (`Cancel`) or charge its budget (`SiblingCharges`).
Time is not modelled: after a cancel the grace of any layer may expire, an outer
one before an inner one too, which can happen because the outer wait may notice
the cancel a moment earlier and start its timer first.

### Cancellation
Cancellation tokens. `cancel()` is two steps (store the flag, notify),
`cancelled()` is a step per link of the chain for arming its futures, a step per
link for reading the flags, and a wake-up. tokio's `Notify` is external: a
future made before a `notify_waiters` receives it, one made later does not.
`DriveLoop` uses a single flag for the whole run, which is what these properties
justify.

### AgentRun
The runs of a facade `Agent`, one after another: `run_full` and `stream`. One
action is what one poll of the run's future does, up to its next suspension
point; between two polls the consumer may take events, interject a pivot, or
drop the stream, and another task may cancel. `machine` is reduced to what
`TurnProtocol` shows of it and to which of the user's messages its request carries;
`control` is the pivot window and queue of `StreamControl`, `stream` the state of
`AgentRunStream`, `approvals` what the run recorded. A batch of tool calls
counts as one requirement.

### AgentLife
What an agent is between its runs. `host` is what lives in the process: the plain
tools (`BaseSets`), the routing and the delegates, the external ones built from
`Recipes` (`facade/agent/builder.rs`, `facade/external.rs`). `tools` is what the
state declares to the model: the current tool set and the queued requests of
`facade/agent/reconfig.rs`, which wait until a run begins. `saved` is one snapshot
(`facade/agent/snapshot.rs`), which may be much older than the agent when it is
restored, by a host that need not inject what the first one did. Ids of turns are
numbers minted from a counter that a restoration has to set again. It shares no
variable with `AgentRun`: a run is one action here.

### WorkerDispatch, Delegation
`WorkerDispatch` holds the functions that choose and change workers: roster,
`route`, `assess` with its upgrade and downgrade targets. `Delegation` is the state
machine around them: the delegations of an agent by model call, by rule or by the
dispatcher with its verifier, and a host that uses dispatcher and escalator
itself. An external start goes through the approval policy, before it is asked
for and after the answer; a session is opened, committed, swept or left by a
dropped run. What a delegate does is reduced to how it ends. `retained` is
`Agent::last_external_sessions`, the session of each delegate that a snapshot would
save. It is written at the end of a run, if the run gets that far (`FactsAreKept`): a turn
of the model writes it once the drive has not failed, even when it was cancelled or
denied; a run by rule or dispatcher returns any error with `?` before; a streamed run
writes nothing. A dispatcher goes through its records in their order
(`RetainedInOrder`), a turn of the model in that of a `HashMap` (`RetainedInAnyOrder`).
`before` is history: what was retained when the run began.

### Collab
Plan, mailbox and blackboard. `Locals` are agents with tools: each call is one
operation under the mutex of the part, based on the copy (`known`) the agent
read at some earlier time. `Externals` have a bridge that reflects a report in
several rounds (`bridge[x].pc`), with other threads working in between. A restart
goes through snapshot and restore under any configuration. Texts are left out:
messages are their numbers.

### ExternalMachine, RuntimeSession, ExternalSession
`ExternalMachine` gives the steps of `ExternalAgentMachine` as functions: what a
step makes of the machine, what it notifies, what it asks for. `RuntimeSession`
gives the sessions the adapters keep, one kind per runtime family (the one-shot
processes of Codex and OpenCode, Claude Code's process, an ACP connection, and
the scripted session of the test kit, which shows every pause): how frames are
numbered, when a read ends, what a timeout, an exit or noise does, what resume
and close do. A session holds the runtime's own state too, because what matters
is how the two fall out of step. `ExternalSession` composes them with the driver, the
handler's future standing at any of its awaits (`op.pc`), the budget charge, the
registry of live sessions, worktrees with failures of git, a host that sweeps, and
restarts from an older state. Two history variables say what became of worktrees:
`spoiled` those in which a process of a session that had come up was killed or
failed, `refused` those whose process was killed because its session did not come up.

### StreamEvents, Accumulator, AnthropicStream, ChatStream, ResponsesStream, ReplyStream
A streamed reply from wire frames to a `Response`. The three normalizers are
functions from a frame to the normalizer it leaves and the events it yields or
the error; each module also holds the provider, which writes the orderly frames
of a message (external, from the shape the normalizers parse) and disorderly ones.
`Accumulator` is `push` and `finish`. `ReplyStream` is the pipeline: read a frame,
queue its events, hand them over one at a time, with frames lost and the
connection broken at any point. Text is a sequence of numbered pieces, so that
what is concatenated in the wrong order, twice, or without its separator is
seen. Token counts keep their additions; they stay below the end of u32, where
the code saturates.

### The modules of proofs
`ConversationTreeProofs`, `DriveLoopProofs`, `CollabProofs` and `ExternalSessionProofs`
each extend one module with its theorems, and `ObservationProofs` extends
`ExternalSessionProofs`; `TurnProofs` extends `PendingTurn` and `AgentMachine`,
`AgentProofs` extends `AgentRun`, `AgentLife` and `ReplyStream`, `DelegationProofs`
extends `Delegation` and `Cancellation`; see section 4.

### Faults
Operators under a comment `Fault:` are wrong versions of the definition they
precede (a dropped guard, a missing reset, an off-by-one). They are used by no
specification; each is put in place of its definition once to see that a
property notices (`mutants` in `PROJECT.json`).

## 3. What TLC checks

| run | instance and bounds | shows |
|---|---|---|
| `pending_turn` | 3 turn ids, few message, call and provider ids, well-formed, ill-formed, tool-calling and wrong-role responses, `MaxVersion` 2 | `PhaseInv`, `IdentityInv`: the phase matches the calls, ids are unique, caches exact; `ClosingTurnValidates`: a ready turn and every cancelled turn are valid; a broken message is never committed |
| `conversation_tree` | a parent and a child, 3 turns, 1 call, 2 artifacts; versions up to 3 and 4 changes together in a behaviour with a fork, `MaxVersion` 5 in one with compactions; with rows, versions up to 3 around one unfinished insert, up to 2 with a fork, up to 4 beside an older snapshot, and 3 finished exports | lineage, ids, index and tokens under commit, revert, redo, fork and restore; with plans that are stale when applied, the projection tiles the lineage and the view stands for the active turns; a read gives the last export exactly, no later export is refused, and leftovers of different states are never put together |
| `agent` | `AgentMachine`: replies with 2 free calls, 2 gated calls or all 4, 2 LLM steps, 2 turns, 2 reconfigurations, 1 pivot. `AgentRun`: 3 runs or streams of an agent, of up to 4 LLM steps and 3 events each, with a pivot and an approval at any of them. `AgentLife`: 2 tools, a local and an external delegate, 6 ids, 1 restoration | `MachineInv` against an arbitrary driver; no call runs without its approval; reconfigurations in order; the machine implements `TurnProtocol`; every turn comes to rest. `RunInv`: a request that is answered carries every pivot that was accepted, an accepted pivot is legal, nothing of a run outlives it; a cancelled run ends. `OffersInv`: what an agent offers it can do; `FreshIdsInv`: no kept id is minted again; tools are not lost by a reconfiguration or a restart |
| `drive_and_tokens` | `DriveLoop`: a machine and its attached child, subagents 2 deep, 8 requirements, limits of 4 steps and 4 tokens, replies of 1 or 2 tokens, 1 token charged elsewhere. `Cancellation`: every tree of 4 tokens, 1 waiting and 2 cancelling tasks | `SettlementInv`: requirements are settled once and all, none is lost between two machines; the ledger matches what was fed; a cancelled run ends. No wake-up is lost, none is spurious; a wait on a cancelled token ends |
| `delegation_and_reply` | `Delegation`: a local worker, an external verifier, an external strong worker; every policy (two of them for a dispatcher, whose runs are long); 2 runs, full or streamed, with up to 2 model calls; a host's task on four rosters. `ReplyStream`: a message of each protocol of up to 8 events, 2 blocks or items of 2 parts, 4 pieces of text (2 where events are numbered); frames in any order, 1 lost, a broken connection | external starts are authorised; `SessionInv`: sessions are swept or kept, and what is retained is of the last drive that should be; `StrongestWorkerIsTried`; a task is settled. `ResponseInv`: a response is what the provider said, with its tokens, normalizer and accumulator agree and one item ends the stream; no loss goes unnoticed where events are numbered |
| `collab` | 2 agents with tools and a bridge, 2 tasks, pages of 1 message, 4 writes to all parts together, 1 restart under a full or a smaller configuration | `PlanInv`: tasks are taken in the order of the plan, versions identify plans; nobody takes a task over; a report reaches the plan, in whichever round its reflection ends; `MessageInv`: readers miss nothing |
| `external_session` | five kinds of runtime, 2 prompts, 2 sessions, batches of calls, 1 trouble (failed launch, noise, exit, silence, cancel, drop), a budget of 1 token | `TurnInv`: machine, handler and runtime agree on what is asked; events are notified once, in order; an answer is about its prompt and paid for; `CleanupInv`: no process or worktree is forgotten; every turn ends |
| `tree_redo_after_restore`, `tree_saved_not_loaded`, `stale_abandon` | small instances | findings 1 to 3 of section 5 |
| `last_drive`, `killed_tree` | `Delegation` as in `delegation_and_reply`, and the instance of `external_session` | findings 4 and 5 of section 5 |

Several invariants are conjunctions of named parts (`MachineInv` of five); each
part is a definition with its own comment.

Why the bounds are enough. A version bound of 2 lets a turn be committed, a
second one be built on it and the overflow guard be reached. Three turns are
what a revert needs to leave a suffix of two, and a new suffix to replace part
of it; a child next to its parent shows every sharing between forks. A
behaviour of `conversation_tree` is about a fork, about compactions, or about rows
with one kind of trouble, chosen in the initial state, which keeps the product of
them small; nothing of a projection is shared between forks, and a fork has its
own rows except for facts. Three versions are an export, an unfinished one and a
later one over its leftovers; four let two lines that went on from one export
meet in the same generation by different steps. Two steps
and two turns let a machine pass through the whole loop, through the step
limit, and start again over what the first turn left behind; two calls of each
kind give every order of results and approvals. `StopRun` is TRUE: with
`ReturnErrorToModel` a failed call is answered like a successful one. Four tokens
are a chain with middle links or two branches; waiting tasks do not affect each
other, so one is enough. Eight requirements let two machines of a
tree get out of step (one through an approval, the other not), a subagent spawn
a subagent, and a token limit be hit, exactly or by a reply too large, at each of
these points. Two runs of an agent show what the first leaves to the second.
Two prompts and two sessions show what a turn leaves in a session, and a session
in its successor; one trouble at any point is what the code's recovery is
written for. Two agents and a bridge are three parties with different ways to a
task. One message with each kind of block, interleaved where the protocol allows
it, meets every pair of neighbouring frames; more of the same kind repeat it.

Fairness. `EveryTurnComesToRest` assumes weak fairness of
`DriverAnswers`, some accepted answer to a requirement. The driver
loops of `agent/drive.rs` await the handlers of the outstanding requirements
until the machine rests, so as long as handlers return, an answer is fed. The
machine itself needs no fairness: a step is a function call. `CancelledWaitEnds`
assumes that a runnable task is polled and that `cancel()` runs to its end.
`CancelStopsDrive` assumes weak fairness of what a drain does by itself, the expiry
of the grace included (the task is polled when woken, timers fire), and none
for handlers: it has to hold with handlers that never return. `CancelEndsRun`
assumes that the owner of a run polls it or drops it, and none for handlers.
`TaskIsSettled` assumes that a host goes on with its task; workers may report
anything. `TurnEnds` assumes that the handler's future is polled and its timeouts
fire, and that the driver answers what is asked; none for the runtime, which may
be silent for ever.

`CHECK_DEADLOCK FALSE` is set where the caller may have nothing left to do:
every bound used up (turns, versions, ids), or the root run returned. A task of
`Cancellation` that waits for ever shows as a violation of `CancelledWaitEnds`.

## 4. What TLAPS proves

Every theorem holds for all values of the constants that satisfy the named
assumptions of its module. The assumptions say what kind of thing a constant is
(bounds are numbers, absent values are no ids, replies have the type of replies,
every gated call is a call) and nothing about sizes.

**Turn transaction** (`TurnProofs`, first part), for every set of ids and of responses.

* `PhaseCorrect`: the inductive invariant
  `PhaseInv == TurnTypeOK /\ Started /\ PhaseMatchesCalls`. The phase is needed for
  the types: a cancellation in `AwaitingToolCallMappings` reads the last message
  of the draft, which exists because a pending turn is never empty (`Started`);
  and that no call stays open after a cancellation needs that the expected ids
  are exactly those of the open calls, which the phase says.
* `IdentityCorrect`: `IdentityInv == CachesAreExact /\ IdsInv`, inductive relative
  to `PhaseInv`. `FreshMessageId` looks the id up in the cache, so uniqueness is
  inductive only together with `CachesAreExact`; the commit step uses the
  validator's own identity check.
* `PoisonCorrect`: the action property `PoisonedMessageNeverCommitted`, from
  `PhaseInv`.
* `ClosingCorrect`: `ClosingTurnValidates`. The pending protocol and the validator
  define a legal turn independently, one message by message and one over the whole
  list, so the invariant says in the validator's words what the draft is in each
  phase (`DraftInv`): its blocks are legal; each registered call and each unmapped
  id is a tool use of its messages, each once, and each result there is that of an
  answered call (`Linked`); and the role automaton run over the messages is in the
  state the phase stands for (`RoleState`). The automaton is a recursive function
  over the list: `RoleConcat` says that it goes on from where it was when messages
  are put behind others, and needs an induction (see below). A cancellation in any
  phase puts one synthetic result behind the messages for each awaited call, which
  takes the automaton to "the assistant speaks next" (`RoleCancelled`).

**Cancellation** (`DelegationProofs`, last part), for every tree of tokens and any number
of waiting and cancelling tasks: `WakeupCorrect` (`NoLostWakeup`) and
`ReturnCorrect` (`ReturnsOnlyIfCancelled`). The inductive invariant `TokensInv`: the
chain of a token is itself and the chain of its parent (`ChainInv`); a flag to be
notified is set (`StoringInv`); a waiter has futures, and wake-ups, only for links
of its chain (`ArmedInv`); while it arms, the links it has passed are armed
(`WalkInv`), and while it reads flags all are, and a link it has passed whose flag
is set has a wake-up due (`CheckedInv`). The last part is the argument of the
code's comment: whoever sets a flag after it was read notifies a future that
exists.

**Agent machine** (`TurnProofs`, second part), for any calls, approval policy, replies
and limits, and any driver: `MachineCorrect`, `ApprovalCorrect`, `ReconfigCorrect`,
and `ProtocolCorrect`, the refinement of `TurnProtocol` by `AgentMachine`: each input
is followed to the abstract action it stands for, and one that names no id of the
current batch to a stutter. The
invariant `IInv` is, beside the types, `Shape`: the state is one of five (resting,
streaming, in a batch of tools, asking for approvals, reconfiguring), and each says
what cursor, scratch, pending turn and tool phase are; `AwaitInv` relates the ids
awaited to the slots of the tool phase; `RunInv` says that what runs is recorded as
run. The proof follows the code's structure: each internal transition ends at rest
or on a batch of new requirements (`Landed`), and a landing keeps `IInv`
(`LandedInv`). `NoInternalFailure` is where every `can_transition_to` and every
closure of a turn has to be shown to succeed.

**Drive loop** (`DriveLoopProofs`): `SettlementCorrect`, for any tree of machines,
nesting depth, scopes, replies and budget. `SettlementInv` says nothing of what a
drain still holds, so `IInv` says it of every layer: where its requirements are at
each point of the drain, each in one queue (`Queues`); that they are its own and
unsettled (`Held`); that everything it emitted is settled or among them
(`Covered`); that its machines wait for these and nothing else, each for its own
(`Awaits`); and that below a subagent there stands the batch that waits for it
(`Stacked`). That a drain never stalls (`NeverQuiesces`) then follows: a machine
that is busy waits for something, which is held, so the loop has a batch to fulfil.
The proof was also a test of the model: two arms of a CASE in `RestAfter`
overlapped with different values, which TLC resolves by order and TLA+ does not.

`LedgerCorrect` (`LedgerMatchesFeeds`) goes on from there. `Books` adds that only an
answer that is charged for reports a usage (`GoodAnswers`) and that each layer
between its two charges has paid a step for a reply that is not fed yet; every
action then leaves the ledger alone, books one fed reply (`PaidFees`), or moves
between these accounts (`ShiftedKeeps`). What the replies cost is a sum over all
requirements, a recursive function; `SumsExist` shows that it has a value, and
`SumRaised` that it grows by what one of its terms grows by.

**Facade runs** (`AgentProofs`): `RunCorrect`, for any number of runs, steps and
events. `RunIInv` adds to `RunInv`, for each suspension point of the run's future,
what there is to drive (`Places`), how many messages the machine has taken and the
user was told of (`Contexts`, `Messages`), that an event is delivered or in the sink
(`Events`), and how the run ended (`Endings`).

**An agent's life** (`AgentProofs`): `OffersCorrect`, `FreshIdsCorrect` and
`ToolsKept`, for any tools, delegates, recipes, requests and restorations. For the
first two the invariant adds only that a snapshot is a recorded agent with finitely
bounded ids: everything else is built anew, and checked, by the restoration.
`ToolsKept`, the action property `ToolsAreKept`, needs one of the queue (`KeepInv`):
every request queued, here or in the snapshot, keeps each delegate's tool that is
shown. A request is merged with what the host declares then, and what is shown is
declared (`ShownIsDeclared`, from `OffersInv`); later steps only shrink what is
shown, until the boundary plans the queue, which therefore keeps it too (`PlanKeeps`,
by induction over the plan). `Planned` is a recursive function, not a fold, so that
its steps can be named (`PlanTrace`).

**Delegation** (`DelegationProofs`): `AuthorityCorrect`, `SessionsCorrect` and
`StrongestCorrect`, for any delegates, approval policies, rosters, attempts, calls
and runs. `IInv` adds to the three properties that a start waits for an answer only
under a policy that asks (`JobOK`); that every record names a drive that was opened,
and an external one that was not denied names one (`Sound`), which is what makes a
session that is kept one of the run's records (`KeepsARecordsDrive`); that drives are
recorded in the order in which they were opened (`Growing`), so that the last record
of a routed run is its newest drive; that no denied record stays
in a run by rule or dispatcher (`RecorderOK`); that nothing is retained before a run ends
(`RetainedOK`); and that the drive in progress is the only one opened and not yet
accounted for, and the newest (`SessionsOK`). A record ends the run or
leads to the next delegation: `ReturnEnds` and `GoingOn` are those two cases,
`EndedEnds` follows the three ways of delegating to them. That nobody stronger is
left comes from `StrongestIsStrongest`, `NoUpgrade` and `AssessGivesUp`, about the
functions of `WorkerDispatch` and any roster whose worker names are numbers. The
proof was a test of model and property: the property was false of a dispatcher
whose strong worker is its primary, which the builder accepts and which has nobody to
escalate to, and two CASEs had overlapping arms.

**Collaboration** (`CollabProofs`): `PlanCorrect`, `MessagesCorrect`,
`OwnershipCorrect`, `ReportsCorrect`, for any agents, delegates, tasks and
restarts. Every change of the plan is one of four operations under its mutex, and
all do what `Advances` says (the version grows by one, nobody loses a task, what is
over stays over); `KnownInv` and `BridgeInv` say what a stale version in an agent's
or a bridge's hands still tells about the plan. `ReportsCorrect` looks at each of the
rounds in which a reflection can end; a task without an owner is still to be done
(`HadTheirTurn`), so that a report is never lost for want of a transition before the
claim. For the messages, inboxes are
increasing sequences of numbers (`InboxInv`) and no cursor is ahead of what was sent
(`CursorInv`); that a page takes the cursor exactly past what it holds is an
induction over the filter that makes it.

**External agents** (`ExternalSessionProofs`): `CleanupCorrect` (`CleanupInv`) and
`TurnCorrect` (`TurnInv`), for any kind of runtime, tool sets, batches, costs, budget
and bounds. `CleanupInv` speaks of sessions, trees and one flag, and is far from
inductive. `CleanIInv` adds
that something is asked or handled only in a turn, which is what lets a driver that
takes the turn away count on the machine to mark it (`Asking`); that an id is the
handle of the first session that had it (`NamesFit`), so that the registry, which
looks sessions up by id, never holds two of one (`OneEach`); that each tree was
prepared for one session (`TreesFit`), so that whoever removes a tree removes his
own; and that whoever is still to be closed knows that its tree was spoiled
(`SpoilsKnown`), which is what `worst_close` is for.
It says nothing of `refused`: a session that did not come up has no close to
remember (section 5, item 5). The names come to the handler through frames of the
runtime, therefore `FramesFit`: what a process writes carries its own id. What may
become of a session in a step is one relation (`Succ`: the tree stays, an id once
had stays, a close that was not graceful is not forgotten), and one lemma per action
shows that all sessions are related so (`Grown`), from which each part of the
invariant follows.

`TurnCorrect` (`TurnInv`) needs, on top of `CleanIInv`, what makes the two sides of
a turn agree. On the machine's side what is asked is exactly what the cursor waits
for, and a session request is either the prompt of the turn or the answer to a
question (`TurnFits`). On the session's side a pause is on the wire at most once and
the runtime waits for its answer (`PausesFit`), text is followed by the end of its
turn (`TextEnds`), and what was read before the first advance is of the prompt the
process was launched with (`LaunchFirst`). The two meet in `Questions`: wherever the
question is, on the way to the machine, with the user, in the batch or on the way
back, every live session of that name still waits for its answer or is a new process
that has asked nothing (`Same`). `Registered` keeps a second session of the name out
while one advances, `SilentAtFirst` and `Reading` say what a session that comes up, or
is read from, may hold, and `Paid` carries a decision from the frame to the commit: made
of text of the turn's own prompt, and within the budget. `TurnChanges` sorts the steps
by what they do to the machine, `Undisturb` shows that a runtime's step or an idle one
disturbs none of this, and one lemma per handler action does the rest. Preparing this
proof found a way to commit an old answer that the run is too small to reach (section
5, item 14).

`NotifiedCorrect` (`NotifiedOnceInOrder`, in `ObservationProofs`) speaks of numbers the
machine never sees: it compares `seq`, which a runtime that is started again counts
anew from the mark it was resumed with, while the order that has to hold is that in
which things happened. `NewsIInv` connects the two. In every session what was read
is in order and older than what is on the wire (`InLine`); what a session has yet to
tell, on the wire or kept from a drive that ended early, is past the mark of the
machine that knows it and newer than all that was notified (`Beyond`); an answer on
its way to the machine is past the mark, in order, and older than what its session
still holds (`News`, `Follows`). Then each way of taking an answer notifies its
observations once or not at all. The proof needs `CleanIInv` for one session per name
and `TurnIInv` for what a session holds when it comes up. `observe` is written with
CHOOSE and not with `SelectSeq`, which the provers cannot expand.

**Conversations** (`ConversationTreeProofs`), for any number of conversations, ids
and versions: `LineageCorrect`, `TokenCorrect` and `ProjectionCorrect`. Each
operation is a function from one conversation to another, so the invariant is a
predicate of one conversation, `Good`: its lineage is a parent chain
(`Chained`), ids occur once in the raw log and once in the backing lineage
(`Unique`), the index is what `push_turn` makes of a prefix of the lineage that
reaches the head (`IndexFits`; not the whole lineage, after a restore), and the
spans tile the lineage, with an artifact of the right sources for each compacted
one (`Projected`). A kept token (`HeldInv`) or plan (`PlannedInv`) is never ahead
of its conversation, and as long as the versions agree what it says is true; a
step keeps the structure or moves the version (`Succeeds`). One lemma per
operation shows that it keeps `Good`, `StoreKeeps` what that means for everybody
else, whoever shares the backing.

Six definitions are folds over sequences (`rebuild`, `active_projection_spans`,
`MatchingArtifacts`, `overlapping_spans`, `append_source_segment`, and
`effective_view` with its expansion). `FoldTrace` shows once that such a fold goes
through the values the step function makes of the prefixes, and `TraceInvariant`
that what holds of the first value and is kept by a step holds of the last; each
fold then needs only its step. That what is shown stands for the active turns
(`ViewShowsTurns`) is such an invariant: shown so far are the turns up to the end
of the last span, or to the head.

**A streamed reply** (`AgentProofs`), for any indices, parts, pieces, token
counts and number of losses, and a provider of any of the three protocols that
writes what it likes: `NoLossCorrect` (`NoLossUnnoticed`) and `OneEndCorrect`
(`NothingFollowsTheEnd`, the last part of `ResponseInv`). The inductive invariant
`ReplyIInv`: what was written is what was counted and what was lost, so that after
a loss the count never catches up (`LossesCounted`); of the pending events only the
last may end the stream, and only when the normalizer is terminal (`StreamEnds`);
and a stop reason, without which `collect` gives no response, comes from that event
(`ResponseNeedsItsEnd`). The work is in the operators: each handler of each
protocol is shown to yield such events only (`Translated`), from what all frames of
a provider have in common (`ResponsesFrames`, `AnthropicFrames`, `ChatFrames`: their
kinds, the form of their texts, a bounded number of calls); and an event of the
Responses protocol that is taken moves the count by one (`ResponsesTranslate`).

Induction. The induction theorems of the library take an operator as a
parameter, which the provers cannot instantiate; where a proof needs induction
over numbers it is stated as a fact about sets (`LEMMA Induction`: a set of
numbers that contains 0 and with each number its successor is all of them),
which follows from the well-foundedness of the order, and the set is given by
comprehension.

Only model-checked. `EveryTurnComesToRest`, `CancelledWaitEnds`,
`CancelStopsDrive`, `CancelEndsRun`, `TaskIsSettled` and `TurnEnds` are liveness
properties, out of the prover's reach.
The invariants of `RowStore` (`StoredIsLastExport`, `ReadNeverMixes`) and the parts
of `ResponseInv` that say what a `Response` is (its content, its tokens, the blocks open on both sides, that
the accumulator takes what is yielded) have no theorem: they are checked on the
instances of section 3 only.

## 5. Findings

Checked, as runs that TLC refutes:

1. **A redo after a restore panics.** `restore_v1` rebuilds the tool-call index
   over the active turns only; moving the head forward again, or forking above
   it, then panics in `scope_committed_turns` after the head has moved
   (`tree_redo_after_restore`).
2. **A saved conversation may not load.** Reverting to the empty boundary and
   committing gives the raw log a second turn without parent; `snapshot` accepts
   that, `restore` refuses it (`tree_saved_not_loaded`). A fork reverted below its
   fork point that commits again is refused in the same way, by `validate_origin`.
3. **A late Abandon cancels a turn.** The cursor of a tool batch keeps the ids of
   results that already arrived (`pending_requirement_ids`,
   `agent/state/cursor.rs:264`), so abandoning one of them cancels the turn while another
   call of the batch is open (`stale_abandon`); `agent/machine/mod.rs:162` says that an
   id "already settled" is rejected. `TurnProtocol!Spec` allows this one case.
4. **Another drive than the last is retained.** When the model called an external
   delegate several times in a turn, the order of a `HashMap` decides which session
   is retained (`facade/agent/dispatch.rs:95`, run `last_drive`), where
   `facade/external/delegate.rs:192` says the last. `SessionInv` asks for the last of a
   routed run and for any of such a turn.
5. **The worktree of a killed process is removed.** A start or resume that fails in
   its prelude has launched a process; dropping it kills it
   (`agent/external/process/mod.rs:159`), and `discard_prepared`
   (`agent/external/registry.rs:344`) removes the worktree as after a graceful close.
   The comments there say that "no runtime ever ran in the prepared tree" (`:338`) and
   that a worktree is removed "only when the session closed without residual side
   effects" (`:47`; also `worktree.rs:22`). `KilledProcessKeepsItsTree` fails in
   `killed_tree`; `SpoiledTreesStay`, a part of `CleanupInv`, is about sessions that came
   up.

Observed while modelling. The models follow the code in these points, and the
properties are worded so that they leave them out or allow for them:

6. *A restored start-of-turn reconfiguration.* It has no pending turn, so it can
   be saved; a machine built on it has no scratch under an `AwaitingReconfig`
   cursor and fails the `debug_assert!` at `agent/machine/default/mod.rs:746`,
   whose comment says the two "can no longer drift".
7. *Work after a budget stop.* When a charge fails in the middle of a batch,
   `drain` (`agent/drive.rs:558`) keeps what earlier resolutions of the batch
   emitted and fulfils it in the next round: an LLM request for a machine that
   has ended. `agent/machine/default/mod.rs:1098`: "no further budgeted work may
   run in this feed segment".
8. *Unrecorded requirements.* When `fulfill_batch` fails (`agent/drive.rs:508`)
   nothing of the batch is recorded; for a subagent the failure is an ordinary
   result of its parent. `agent/context/trace.rs:48`: "Every requirement is settled
   in exactly one of two ways, and both are recorded".
9. *Streams.* An error of a streamed run is returned before events emitted in
   the same poll (`facade/agent/stream.rs:857`); a drive error leaves the machine
   waiting, so that the next run is refused (doc at `:694`). `AgentUsableAgain`
   excludes the latter.
10. *Delegation.* A local worker that ends in an Error cursor, or is cancelled, is
    recorded as completed (`facade/delegate/handler.rs:713`); a cancelled run by
    rules or dispatcher returns `Ok` (`facade/agent.rs:446`); a verifier whose start
    is denied makes the run return before sessions are retained (`:972`).
11. *Escalation.* `assess` has no memory, so budget downgrades and upgrades can
    alternate for ever; `TaskIsSettled` excludes that case.
12. *Plan.* A task that goes from Blocked back to Todo keeps its owner
    (`agent/collab/plan.rs:102`, `:543`), so nobody can claim it, although `:44`
    describes Todo as not yet claimed.
13. *Registry.* `register` drops a prepared worktree without removing it when the
    key is taken or the id is missing (`agent/external/registry.rs:363`); a
    worktree also stays when the handler's future is dropped during a start or a
    sweep. `NoTreeForgotten` excuses these.
14. *External turns.* A session that stays live after a failed, cancelled or
    abandoned advance and is not swept may deliver the old answer as the next
    turn's (`agent/external/acp/decoder.rs:293`, `:373`); `fail_with` never asks for
    a sweep. `AnswersItsPrompt` is about sessions that owed nothing. The same
    happens to a session launched with its prompt on the command line whose future
    is dropped at the lock before its first advance: the next advance skips its own
    prompt (`first_turn_pending`), which the comment there takes to be "the same
    input". It needs a third prompt, more than the run has; preparing
    an inductive invariant for `TurnInv` found it, and `first` of a session holds
    the prompt it was launched with, so that `mixed` notices. The history
    that ACP replays on `session/load` is numbered as new events
    (`acp/adapter.rs:346`). The observations of a batch that holds nothing but
    unparsable `spawn_agent` calls are dropped (`agent/external/machine.rs:997`).
15. *Provider streams.* Content is ordered by the start of blocks, not by their
    index. The separators between the parts of a reasoning text differ between
    streaming and replay when an earlier part is empty. A Chat tool call without
    arguments, and an Anthropic one with only an empty `partial_json`, end in an
    error.
16. *Names that change their meaning.* A queued replacement of the tool set is
    merged with the tools of the delegates there are when it is queued
    (`facade/agent/builder.rs:868`). If a plain tool is shown under the name that a
    delegate's tool has in the process that restores the agent, the next turn
    boundary drops the tool of that delegate, which is registered.
    `NamesKeepTheirMeaning` excludes this; the proof of `ToolsKept` found it.

## 6. Not modelled, and why

* Conversion and I/O: requests and whole responses of the provider adapters,
  HTTP, credentials, the model catalogue; command lines, JSON and probes of the
  external runtimes; git commands; rendering, logging and metadata. There is no
  state to relate; tests on recorded data fit better.
* The schema version columns of rows and snapshots, which are constants of a
  build, and partial loss of more than one row inside a table.
* Compaction plans of several steps, the provenance of artifacts and the planning
  strategies, which choose among plans the model takes in any order.
* Chats of the facade, and its file and http tools.
* Saving and restoring a tree of nested machines.
* Cost and wall-clock limits of the budget: steps and tokens stand for them.
* The test kit.
