---------------------------- MODULE AgentProofs ----------------------------
(***************************************************************************)
(* The facade Agent: its runs, its life between runs, and the streamed     *)
(* replies it reads.                                                       *)
(*                                                                         *)
(* Runs: every request of a run that is answered was rendered from all     *)
(* messages the user was told are accepted, and nothing of a run outlives  *)
(* it, for any bounds on steps, runs and events.  RunInv is not inductive: *)
(* what a pivot needs when the window closes was decided when it opened,   *)
(* and what a run leaves behind by how it ended.  RunIInv adds, for each   *)
(* suspension point, what holds there.                                     *)
(*                                                                         *)
(* Life: what an agent offers it can do, and its ids stay fresh, for any   *)
(* tools, delegates and recipes, and any number of runs, reconfigurations, *)
(* snapshots and restorations.  A restoration builds everything anew from  *)
(* the snapshot, which may be much older than the agent: LifeInv says of   *)
(* the snapshot what the restoration needs of it (SavedOK), and no more.   *)
(*                                                                         *)
(* Replies, of any of the three protocols and with any bounds: a Response  *)
(* is only given for a message the provider ended, nothing is given after  *)
(* the end, and where events have numbers a lost one never goes unnoticed. *)
(* No loss is noticed by the events themselves: what was lost may carry    *)
(* nothing of the message.  It is noticed by counting, and only as long as *)
(* every event that is taken moves the count by one, whatever else it      *)
(* does; and a stream that stands still must not look as if it had ended.  *)
(* So the proof has three parts: the events a normalizer yields hold the   *)
(* end of the message only if it is terminal then (Translated), for every  *)
(* handler of every protocol; the accumulator knows a stop reason only     *)
(* from that end (PushStops); and what was sent is what was counted and    *)
(* what was lost (LossesCounted).                                          *)
(***************************************************************************)
EXTENDS AgentRun, AgentLife, ReplyStream, SequenceTheorems, WellFoundedInduction, TLAPS

(***************************************************************************)
(* Runs.                                                                   *)
(***************************************************************************)
MachineType ==
    [cur: Underway \cup Rest, steps: 0..MaxRunSteps, boundary: BOOLEAN, context: 0..MaxRunSteps]

(* Where the future is suspended says what there is to drive. *)
Places ==
    /\ kind = "none" => at = "none" /\ control = NoControl /\ stream = NoStream
    /\ kind # "none" => at # "none"
    /\ kind = "full" => at \in {"unpolled", "fulfil"} /\ control = NoControl /\ stream = NoStream
    /\ kind = "stream" => stream.state # "none" /\ (at = "returned" <=> stream.state # "Driving")
    /\ at = "unpolled" => control = NoControl /\ stream.sink = 0
    /\ at = "fulfil" => control = NoControl

(* The machine has not taken more messages than it has started steps, and *)
(* one less where it can take another.                                    *)
Contexts ==
    /\ machine.context <= machine.steps
    /\ at = "window" => /\ control.window /\ kind = "stream"
                        /\ machine.cur = "LLM" /\ machine.boundary
                        /\ machine.context < machine.steps
    /\ control.window => at = "window"

(* What the user was told is accepted, at each suspension point. *)
Messages ==
    /\ kind # "none" => seen.messages > 0
    /\ at = "unpolled" => seen.messages = 1
    /\ at = "fulfil" => seen.messages = machine.context /\ sent = machine.context
    /\ at = "window" => seen.messages = machine.context + control.queue

(* Every event of a stream is delivered or in the sink. *)
Events ==
    /\ kind = "full" => seen.emitted = 0 /\ seen.delivered = 0
    /\ kind = "stream" => seen.emitted = seen.delivered + stream.sink

(* How a run ended, and what it told last. *)
Endings ==
    /\ at \in {"fulfil", "window"} => ~ AtRest(machine)
    /\ kind # "none" /\ at # "returned" => seen.last \in {"none", "event"}
    /\ stream.state = "Draining" => seen.last \in {"none", "event"}
    /\ stream.state = "Done" /\ seen.last = "Done" => stream.sink = 0
    /\ stream.state \in {"Draining", "Done"} /\ seen.last # "DriveErr" => AtRest(machine)

RunIInv == RunInv /\ Places /\ Contexts /\ Messages /\ Events /\ Endings

-----------------------------------------------------------------------------
(***************************************************************************)
(* The parts of a state, by name, for the prover.                          *)
(***************************************************************************)

LEMMA RestAndWaiting ==
    ASSUME NEW m \in MachineType
    PROVE  /\ AtRest(m) <=> m.cur \notin Underway
           /\ abandon_in_flight_turn(m) \in MachineType
           /\ AtRest(abandon_in_flight_turn(m))
           /\ abandon_in_flight_turn(m).context = m.context
           /\ abandon_in_flight_turn(m).steps = m.steps
BY DEF MachineType, AtRest, Underway, Rest, abandon_in_flight_turn, Moved

LEMMA MovedFields ==
    ASSUME NEW m \in MachineType, NEW cur \in Underway \cup Rest
    PROVE  /\ Moved(m, cur) \in MachineType
           /\ Moved(m, cur).cur = cur /\ Moved(m, cur).boundary = FALSE
           /\ Moved(m, cur).context = m.context /\ Moved(m, cur).steps = m.steps
BY DEF MachineType, Moved

LEMMA BegunFields ==
    ASSUME NEW m
    PROVE  /\ Begun(m) \in MachineType /\ ~ AtRest(Begun(m))
           /\ Begun(m).context = 1 /\ Begun(m).steps = 1 /\ ~ Begun(m).boundary
BY RunBoundsAssumption DEF MachineType, Begun, AtRest, Rest, Underway

(* A step boundary leaves room for one more message. *)
LEMMA BoundaryFields ==
    ASSUME NEW m \in MachineType, m.context <= m.steps
    PROVE  LET b == StepBoundary(m)
           IN  /\ b \in MachineType
               /\ b.context = m.context /\ b.context <= b.steps
               /\ b.boundary => b.context < b.steps
<1>1. CASE m.steps = MaxRunSteps
  <2>1. StepBoundary(m) = Moved(m, "StepLimit")
    BY <1>1 DEF StepBoundary
  <2> DEFINE limit == Moved(m, "StepLimit")
  <2>2. "StepLimit" \in Underway \cup Rest
    BY DEF Rest
  <2>3. /\ limit \in MachineType /\ ~ limit.boundary
        /\ limit.context = m.context /\ limit.steps = m.steps
    BY <2>2, MovedFields
  <2> HIDE DEF limit
  <2>4. StepBoundary(m) = limit
    BY <2>1 DEF limit
  <2> QED BY <2>3, <2>4
<1>2. CASE m.steps # MaxRunSteps
  <2> DEFINE b == [m EXCEPT !.cur = "LLM", !.steps = @ + 1, !.boundary = TRUE]
  <2>1. m.steps \in 0..MaxRunSteps /\ m.steps + 1 \in 0..MaxRunSteps /\ m.context \in 0..MaxRunSteps
    BY <1>2, RunBoundsAssumption DEF MachineType
  <2>2. b \in MachineType /\ b.context = m.context /\ b.steps = m.steps + 1
    BY <2>1 DEF MachineType, Underway
  <2>3. StepBoundary(m) = b
    BY <1>2 DEF StepBoundary
  <2> HIDE DEF b
  <2> QED BY <2>1, <2>2, <2>3
<1> QED BY <1>1, <1>2

(* What an answer makes of the machine. *)
LEMMA ResumedFields ==
    ASSUME NEW m \in MachineType, m.context <= m.steps, ~ AtRest(m),
           NEW r \in Resumed(m)
    PROVE  /\ r \in MachineType
           /\ r.context = m.context /\ r.context <= r.steps
           /\ r.boundary => r.context < r.steps
<1>1. m.cur \in {"LLM", "Tool", "Approval"}
  BY RestAndWaiting DEF Underway
<1>2. ASSUME m.cur = "LLM" PROVE \E c \in Underway \cup Rest : r = Moved(m, c)
  BY <1>2 DEF Resumed, Underway, Rest
<1>3. ASSUME m.cur = "Approval" PROVE r = Moved(m, "Tool") \/ r = StepBoundary(m)
  BY <1>3 DEF Resumed
<1>4. ASSUME m.cur = "Tool" PROVE r = StepBoundary(m)
  BY <1>4 DEF Resumed
<1>5. ASSUME NEW c \in Underway \cup Rest, r = Moved(m, c)
      PROVE  /\ r \in MachineType
             /\ r.context = m.context /\ r.context <= r.steps
             /\ r.boundary => r.context < r.steps
  BY <1>5, MovedFields
<1>6. "Tool" \in Underway \cup Rest
  BY DEF Underway
<1> QED BY <1>1, <1>2, <1>3, <1>4, <1>5, <1>6, BoundaryFields

-----------------------------------------------------------------------------
(***************************************************************************)
(* The ends of a run.                                                      *)
(***************************************************************************)

(* run_full returns, or its future is dropped. *)
LEMMA ReturnFullKeeps ==
    ASSUME RunIInv, kind = "full",
           NEW outcome \in {"Done", "Err", "DriveErr", "Dropped"},
           NEW m \in MachineType, m.context <= m.steps,
           outcome \in {"Done", "Err"} => AtRest(m),
           ReturnFull(outcome, m)
    PROVE  RunIInv'
<1> USE DEF RunIInv, RunInv
<1>1. machine' \in MachineType /\ AtRest(machine') /\ machine'.context <= machine'.steps
  BY RestAndWaiting DEF ReturnFull, RunFullDropGuard
<1>2. /\ kind' = "none" /\ at' = "none" /\ approvals' = {} /\ sent' = 0
      /\ control' = control /\ stream' = stream /\ cancelled' = cancelled /\ runs' = runs
  BY DEF ReturnFull, Cleared
<1>3. seen' = [seen EXCEPT !.last = outcome]
  BY DEF ReturnFull
<1>4. control = NoControl /\ stream = NoStream
  BY DEF Places
<1>5. RunTypeOK'
  BY <1>1, <1>2, <1>3, RunBoundsAssumption DEF RunTypeOK, MachineType
<1>6. Places' /\ Messages' /\ Events'
  BY <1>2, <1>4 DEF Places, Messages, Events
<1>7. Contexts'
  BY <1>1, <1>2, <1>4 DEF Contexts, NoControl
<1>8. Endings'
  BY <1>1, <1>2, <1>4 DEF Endings, NoStream
<1>9. /\ ReplyAnswersAcceptedMessages' /\ AcceptedPivotIsLegal'
      /\ NoApprovalOutlivesRun' /\ DoneComesLast'
  BY <1>2 DEF ReplyAnswersAcceptedMessages, AcceptedPivotIsLegal, NoApprovalOutlivesRun,
              DoneComesLast
<1>10. AgentUsableAgain'
  BY <1>1 DEF AgentUsableAgain, AtRest
<1> QED BY <1>5, <1>6, <1>7, <1>8, <1>9, <1>10

(* The future of a stream is ready. *)
LEMMA ReturnStreamKeeps ==
    ASSUME RunIInv, kind = "stream", stream.state = "Driving",
           NEW outcome \in {"Done", "Err", "DriveErr"},
           NEW m \in MachineType, m.context <= m.steps,
           outcome \in {"Done", "Err"} => AtRest(m),
           NEW e \in {0, 1}, seen.emitted + e <= MaxEvents,
           ReturnStream(outcome, m, e)
    PROVE  RunIInv'
<1> USE DEF RunIInv, RunInv
<1>1. machine' = m /\ at' = "returned" /\ sent' = 0
      /\ kind' = kind /\ cancelled' = cancelled /\ runs' = runs
  BY DEF ReturnStream
<1>2. control' = [control EXCEPT !.window = FALSE]
  BY DEF ReturnStream
<1>3. stream' = [state |-> IF outcome = "Done" THEN "Draining" ELSE "Done",
                 sink |-> stream.sink + e]
  BY DEF ReturnStream
<1>4. seen' = [seen EXCEPT !.emitted = @ + e,
                           !.last = IF outcome = "Done" THEN @ ELSE outcome]
  BY DEF ReturnStream
<1>5. approvals' \subseteq approvals
  BY DEF ReturnStream, Cleared
<1>6. /\ seen.emitted \in Nat /\ seen.delivered \in Nat /\ stream.sink \in Nat
      /\ seen.emitted + e \in 0..MaxEvents
      /\ seen.emitted = seen.delivered + stream.sink
  BY RunBoundsAssumption DEF RunTypeOK, Events
<1>7. stream.sink + e \in 0..MaxEvents
  BY <1>6, RunBoundsAssumption
<1>8. seen.last \in {"none", "event"}
  BY DEF Endings, Places
<1>9. /\ seen'.emitted = seen.emitted + e /\ seen'.delivered = seen.delivered
      /\ seen'.last = (IF outcome = "Done" THEN seen.last ELSE outcome)
  BY <1>4 DEF RunTypeOK
<1>10. RunTypeOK'
  <2>1. seen' \in [messages: 0..MaxRunSteps, emitted: 0..MaxEvents, delivered: 0..MaxEvents,
                   last: {"none", "event", "Done", "Err", "DriveErr", "Dropped"}]
    BY <1>4, <1>6 DEF RunTypeOK
  <2>2. stream' \in [state: {"none", "Driving", "Draining", "Done"}, sink: 0..MaxEvents]
    BY <1>3, <1>7
  <2>3. control' \in [window: BOOLEAN, queue: 0..1, allowed: BOOLEAN]
    BY <1>2 DEF RunTypeOK
  <2>4. sent' \in 0..MaxRunSteps
    BY <1>1, RunBoundsAssumption
  <2> QED BY <1>1, <1>5, <2>1, <2>2, <2>3, <2>4 DEF RunTypeOK, MachineType
<1>11. Places' /\ Messages'
  BY <1>1, <1>3, <1>4 DEF Places, Messages, RunTypeOK
<1>12. Events'
  BY <1>1, <1>3, <1>6, <1>9 DEF Events
<1>13. Contexts'
  BY <1>1, <1>2 DEF Contexts, RunTypeOK
<1>14. Endings'
  BY <1>1, <1>3, <1>8, <1>9 DEF Endings, AtRest
<1>15. /\ ReplyAnswersAcceptedMessages' /\ AcceptedPivotIsLegal' /\ NoApprovalOutlivesRun'
       /\ AgentUsableAgain'
  BY <1>1 DEF ReplyAnswersAcceptedMessages, AcceptedPivotIsLegal, NoApprovalOutlivesRun,
              AgentUsableAgain
<1>16. DoneComesLast'
  BY <1>8, <1>9 DEF DoneComesLast
<1> QED BY <1>10, <1>11, <1>12, <1>13, <1>14, <1>15, <1>16

(* Whoever polls gets a result. *)
LEMMA ReturnKeeps ==
    ASSUME RunIInv, Polled,
           NEW outcome \in {"Done", "Err", "DriveErr"},
           NEW m \in MachineType, m.context <= m.steps,
           outcome \in {"Done", "Err"} => AtRest(m),
           NEW e \in {0, 1}, seen.emitted + e <= MaxEvents,
           Return(outcome, m, e)
    PROVE  RunIInv'
BY ReturnFullKeeps, ReturnStreamKeeps DEF Return, Polled

-----------------------------------------------------------------------------
(***************************************************************************)
(* The drive.                                                              *)
(***************************************************************************)

(* A batch goes out: its request has everything the user was told. *)
LEMMA FulfilKeeps ==
    ASSUME RunIInv, Polled,
           NEW m \in MachineType, m.context <= m.steps, ~ AtRest(m),
           m.context = seen.messages,
           NEW e \in {0, 1}, seen.emitted + e <= MaxEvents, kind = "full" => e = 0,
           approvals' \subseteq 1..MaxRunSteps,
           Fulfil(m, NoControl, e)
    PROVE  RunIInv'
<1> USE DEF RunIInv, RunInv
<1>1. /\ machine' = m /\ at' = "fulfil" /\ sent' = m.context /\ control' = NoControl
      /\ kind' = kind /\ cancelled' = cancelled /\ runs' = runs
  BY DEF Fulfil
<1>2. stream' = [stream EXCEPT !.sink = @ + e] /\ seen' = [seen EXCEPT !.emitted = @ + e]
  BY DEF Fulfil
<1>3. /\ seen.emitted \in Nat /\ seen.delivered \in Nat /\ stream.sink \in Nat
      /\ seen.emitted + e \in 0..MaxEvents
  BY RunBoundsAssumption DEF RunTypeOK
<1>4. CASE kind = "full"
  <2>1. stream' = stream /\ seen' = seen
    BY <1>2, <1>3, <1>4 DEF RunTypeOK
  <2>2. RunTypeOK'
    BY <1>1, <2>1 DEF RunTypeOK, MachineType, NoControl
  <2>3. Places' /\ Messages' /\ Events'
    BY <1>1, <1>4, <2>1 DEF Places, Messages, Events
  <2>4. Contexts' /\ Endings'
    BY <1>1, <1>4, <2>1 DEF Contexts, Endings, NoControl, AtRest, Places, NoStream
  <2>5. /\ ReplyAnswersAcceptedMessages' /\ AcceptedPivotIsLegal' /\ NoApprovalOutlivesRun'
        /\ AgentUsableAgain' /\ DoneComesLast'
    BY <1>1, <1>4, <2>1 DEF ReplyAnswersAcceptedMessages, AcceptedPivotIsLegal,
                            NoApprovalOutlivesRun, AgentUsableAgain, DoneComesLast
  <2> QED BY <2>2, <2>3, <2>4, <2>5
<1>5. CASE kind = "stream"
  <2>1. /\ stream.state = "Driving" /\ at # "returned"
        /\ seen.emitted = seen.delivered + stream.sink
    BY <1>5 DEF Polled, Places, Events
  <2>2. stream.sink + e \in 0..MaxEvents
    BY <1>3, <2>1, RunBoundsAssumption
  <2>3. /\ stream'.state = "Driving" /\ stream'.sink = stream.sink + e
        /\ seen'.emitted = seen.emitted + e /\ seen'.delivered = seen.delivered
        /\ seen'.last = seen.last /\ seen'.messages = seen.messages
    BY <1>2, <2>1 DEF RunTypeOK
  <2>4. seen.last \in {"none", "event"}
    BY <1>5, <2>1 DEF Endings
  <2>5. RunTypeOK'
    <3>1. seen' \in [messages: 0..MaxRunSteps, emitted: 0..MaxEvents, delivered: 0..MaxEvents,
                     last: {"none", "event", "Done", "Err", "DriveErr", "Dropped"}]
      BY <1>2, <1>3 DEF RunTypeOK
    <3>2. stream' \in [state: {"none", "Driving", "Draining", "Done"}, sink: 0..MaxEvents]
      BY <1>2, <2>2 DEF RunTypeOK
    <3> QED BY <1>1, <3>1, <3>2 DEF RunTypeOK, MachineType, NoControl
  <2>6. Places' /\ Messages'
    BY <1>1, <1>5, <2>3 DEF Places, Messages
  <2>7. Events'
    BY <1>1, <1>3, <1>5, <2>1, <2>3 DEF Events
  <2>8. Contexts' /\ Endings'
    BY <1>1, <2>3, <2>4 DEF Contexts, Endings, NoControl, AtRest
  <2>9. /\ ReplyAnswersAcceptedMessages' /\ AcceptedPivotIsLegal' /\ NoApprovalOutlivesRun'
        /\ AgentUsableAgain' /\ DoneComesLast'
    BY <1>1, <1>5, <2>3, <2>4 DEF ReplyAnswersAcceptedMessages, AcceptedPivotIsLegal,
                            NoApprovalOutlivesRun, AgentUsableAgain, DoneComesLast
  <2> QED BY <2>5, <2>6, <2>7, <2>8, <2>9
<1> QED BY <1>4, <1>5 DEF Polled

(* The pivot window opens, in a stream whose last step closed at a boundary. *)
LEMMA WindowKeeps ==
    ASSUME RunIInv, Polled, kind = "stream", control = NoControl,
           NEW m \in MachineType, m.context < m.steps, m.cur = "LLM", m.boundary,
           m.context = seen.messages,
           NEW e \in {0, 1}, seen.emitted + e <= MaxEvents,
           NEW held \in SUBSET (1..MaxRunSteps),
           at' = "window", machine' = m, approvals' = held,
           control' = [control EXCEPT !.window = TRUE, !.allowed = TRUE],
           sent' = 0,
           stream' = [stream EXCEPT !.sink = @ + e],
           seen' = [seen EXCEPT !.emitted = @ + e],
           UNCHANGED <<kind, cancelled, runs>>
    PROVE  RunIInv'
<1> USE DEF RunIInv, RunInv
<1>1. /\ seen.emitted \in Nat /\ seen.delivered \in Nat /\ stream.sink \in Nat
      /\ seen.emitted + e \in 0..MaxEvents
      /\ stream.state = "Driving" /\ at # "returned"
      /\ seen.emitted = seen.delivered + stream.sink
  BY RunBoundsAssumption DEF RunTypeOK, Polled, Places, Events
<1>2. stream.sink + e \in 0..MaxEvents
  BY <1>1, RunBoundsAssumption
<1>3. control' = [window |-> TRUE, queue |-> 0, allowed |-> TRUE]
  BY DEF NoControl
<1>4. ASSUME NEW c, c = [window |-> TRUE, queue |-> 0, allowed |-> TRUE] PROVE c.queue = 0
  BY <1>4
<1>5. control'.queue = 0
  BY <1>3, <1>4
<1>6. at' = "window" /\ at' # "fulfil" /\ control'.queue # 1
  BY <1>5
<1>7. /\ stream'.state = "Driving" /\ stream'.sink = stream.sink + e
      /\ seen'.emitted = seen.emitted + e /\ seen'.delivered = seen.delivered
      /\ seen'.last = seen.last /\ seen'.messages = seen.messages
  BY <1>1 DEF RunTypeOK
<1>8. seen.last \in {"none", "event"}
  BY <1>1 DEF Endings
<1>9. RunTypeOK'
  <2>1. seen' \in [messages: 0..MaxRunSteps, emitted: 0..MaxEvents, delivered: 0..MaxEvents,
                   last: {"none", "event", "Done", "Err", "DriveErr", "Dropped"}]
    BY <1>1 DEF RunTypeOK
  <2>2. stream' \in [state: {"none", "Driving", "Draining", "Done"}, sink: 0..MaxEvents]
    BY <1>2 DEF RunTypeOK
  <2>3. sent' \in 0..MaxRunSteps
    BY RunBoundsAssumption
  <2> QED BY <1>3, <2>1, <2>2, <2>3 DEF RunTypeOK, MachineType
<1>10. Places' /\ Events'
  BY <1>1, <1>7 DEF Places, Events
<1>11. Messages'
  <2>1. m.context \in Nat /\ m.context + 0 = m.context
    BY RunBoundsAssumption DEF MachineType
  <2>2. seen'.messages = machine'.context /\ control'.queue = 0
    BY <1>7, <1>5
  <2>3. seen'.messages = machine'.context + control'.queue
    BY <2>1, <2>2
  <2>4. at' = "window" /\ seen.messages > 0
    BY DEF Messages
  <2> QED BY <2>3, <2>4, <1>7 DEF Messages
<1>12. Contexts'
  BY <1>3 DEF Contexts, MachineType
<1>13. Endings'
  BY <1>7, <1>8 DEF Endings, AtRest, Rest
<1>14. /\ ReplyAnswersAcceptedMessages' /\ AcceptedPivotIsLegal' /\ NoApprovalOutlivesRun'
       /\ AgentUsableAgain' /\ DoneComesLast'
  <2>1. control'.queue # 1 /\ at' # "fulfil"
    BY <1>6
  <2>2. kind' = "stream"
    OBVIOUS
  <2>3. ReplyAnswersAcceptedMessages' /\ AcceptedPivotIsLegal'
    BY <2>1 DEF ReplyAnswersAcceptedMessages, AcceptedPivotIsLegal
  <2>4. NoApprovalOutlivesRun' /\ AgentUsableAgain' /\ DoneComesLast'
    BY <1>7, <1>8, <2>2 DEF NoApprovalOutlivesRun, AgentUsableAgain, DoneComesLast
  <2> QED BY <2>3, <2>4
<1> QED BY <1>9, <1>10, <1>11, <1>12, <1>13, <1>14

(* The head of the loop, behind a step. *)
LEMMA TopKeeps ==
    ASSUME RunIInv, Polled, at \in {"unpolled", "fulfil"},
           NEW m \in MachineType, m.context <= m.steps, m.boundary => m.context < m.steps,
           m.context = seen.messages,
           NEW e \in {0, 1}, seen.emitted + e <= MaxEvents, kind = "full" => e = 0,
           NEW held \in SUBSET (1..MaxRunSteps),
           Top(m, held, e)
    PROVE  RunIInv'
<1>1. control = NoControl
  BY DEF RunIInv, Places
<1>2. ASSUME AtRest(m), Return(Result(m, FALSE), m, e) PROVE RunIInv'
  BY <1>2, ReturnKeeps DEF Result
<1>3. ASSUME Return("Err", abandon_in_flight_turn(m), e) PROVE RunIInv'
  BY <1>3, ReturnKeeps, RestAndWaiting
<1>4. ASSUME m.cur = "LLM", Return("Err", Moved(m, "Budget"), e) PROVE RunIInv'
  <2>1. "Budget" \in Underway \cup Rest /\ "Budget" \in Rest
    BY DEF Rest
  <2>2. /\ Moved(m, "Budget") \in MachineType /\ AtRest(Moved(m, "Budget"))
        /\ Moved(m, "Budget").context <= Moved(m, "Budget").steps
    BY <2>1, MovedFields DEF AtRest
  <2> QED BY <1>4, <2>2, ReturnKeeps
<1>5. Allowed(m) <=> kind = "stream" /\ m.cur = "LLM" /\ m.boundary
  BY <1>1 DEF Allowed, NoControl
<1>6. ASSUME OpensWindow(m, Allowed(m)),
             at' = "window", machine' = m, approvals' = held,
             control' = [control EXCEPT !.window = TRUE, !.allowed = TRUE],
             sent' = 0,
             stream' = [stream EXCEPT !.sink = @ + e],
             seen' = [seen EXCEPT !.emitted = @ + e],
             UNCHANGED <<kind, cancelled, runs>>
      PROVE  RunIInv'
  <2>1. kind = "stream" /\ m.cur = "LLM" /\ m.boundary
    BY <1>5, <1>6 DEF OpensWindow
  <2> QED BY <1>1, <1>6, <2>1, WindowKeeps
<1>7. ASSUME ~ AtRest(m), ~ OpensWindow(m, Allowed(m)), approvals' = held,
             Fulfil(m, [control EXCEPT !.allowed = Allowed(m)], e)
      PROVE  RunIInv'
  <2>1. Allowed(m) = FALSE
    BY <1>5, <1>7 DEF OpensWindow, Allowed, RunIInv, RunInv, RunTypeOK, MachineType
  <2>2. [NoControl EXCEPT !.allowed = FALSE] = NoControl
    <3>1. NoControl \in [window: BOOLEAN, queue: 0..1, allowed: BOOLEAN] /\ NoControl.allowed = FALSE
      BY DEF NoControl
    <3> QED BY <3>1
  <2>3. [control EXCEPT !.allowed = Allowed(m)] = [NoControl EXCEPT !.allowed = FALSE]
    BY <1>1, <2>1, Zenon
  <2> QED BY <1>7, <2>2, <2>3, FulfilKeeps
<1> QED BY <1>2, <1>3, <1>4, <1>6, <1>7 DEF Top

LEMMA MachineParts ==
    ASSUME RunIInv
    PROVE  /\ machine \in MachineType /\ machine.context <= machine.steps
           /\ AtRest(abandon_in_flight_turn(machine))
           /\ abandon_in_flight_turn(machine) \in MachineType
           /\ abandon_in_flight_turn(machine).context <= abandon_in_flight_turn(machine).steps
           /\ seen.emitted + 0 <= MaxEvents
<1>1. machine \in MachineType /\ machine.context <= machine.steps
  BY DEF RunIInv, RunInv, RunTypeOK, MachineType, Contexts
<1>2. seen.emitted + 0 <= MaxEvents
  BY RunBoundsAssumption DEF RunIInv, RunInv, RunTypeOK
<1> QED BY <1>1, <1>2, RestAndWaiting

LEMMA EmitsFields ==
    ASSUME RunIInv, NEW e \in Emits
    PROVE  e \in {0, 1} /\ seen.emitted + e <= MaxEvents /\ (kind = "full" => e = 0)
<1>1. seen.emitted \in 0..MaxEvents
  BY DEF RunIInv, RunInv, RunTypeOK
<1> QED BY <1>1, RunBoundsAssumption DEF Emits

(* The drive gives the turn up, or fails. *)
LEMMA GivenUpKeeps ==
    ASSUME RunIInv, Polled, NEW e \in {0, 1}, seen.emitted + e <= MaxEvents,
           \/ Return("Err", abandon_in_flight_turn(machine), e)
           \/ Return("DriveErr", abandon_in_flight_turn(machine), e)
           \/ Return("DriveErr", machine, e)
    PROVE  RunIInv'
BY MachineParts, ReturnKeeps

LEMMA BeginDriveKeeps ==
    ASSUME RunIInv, BeginDrive
    PROVE  RunIInv'
<1>1. Polled /\ at = "unpolled"
  BY DEF BeginDrive
<1>2. seen.messages = 1 /\ approvals \in SUBSET (1..MaxRunSteps)
  BY <1>1 DEF RunIInv, RunInv, Messages, RunTypeOK
<1>3. CASE AtRest(machine)
  <2>1. Top(Begun(machine), approvals, 0)
    BY <1>3 DEF BeginDrive
  <2>2. /\ Begun(machine) \in MachineType
        /\ Begun(machine).context = 1 /\ Begun(machine).steps = 1 /\ ~ Begun(machine).boundary
    BY BegunFields
  <2> QED BY <1>1, <1>2, <2>1, <2>2, MachineParts, TopKeeps
<1>4. CASE ~ AtRest(machine)
  BY <1>1, <1>4, MachineParts, GivenUpKeeps DEF BeginDrive
<1> QED BY <1>3, <1>4

(* A queued pivot is one more message the machine has room for. *)
LEMMA LeaveWindowKeeps ==
    ASSUME RunIInv, LeaveWindow
    PROVE  RunIInv'
<1>1. Polled /\ at = "window"
  BY DEF LeaveWindow
<1>2. CASE cancelled
  BY <1>1, <1>2, MachineParts, GivenUpKeeps DEF LeaveWindow
<1>3. CASE ~ cancelled
  <2>1. apply_queued_pivot(machine, NoControl) /\ approvals' = approvals
    BY <1>3 DEF LeaveWindow, Closed, NoControl
  <2>2. /\ machine.cur = "LLM" /\ machine.boundary /\ machine.context < machine.steps
        /\ kind = "stream" /\ seen.messages = machine.context + control.queue
        /\ approvals \subseteq 1..MaxRunSteps /\ control.queue \in {0, 1}
    BY <1>1 DEF RunIInv, RunInv, Contexts, Messages, RunTypeOK
  <2>3. machine.context \in 0..MaxRunSteps /\ machine.steps \in 0..MaxRunSteps
    BY MachineParts DEF MachineType
  <2>4. ~ AtRest(machine) /\ PivotIsLegal(machine)
    BY <2>2 DEF AtRest, Rest, PivotIsLegal
  <2>5. CASE control.queue = 0
    <3>1. Fulfil(machine, NoControl, 0)
      BY <2>1, <2>5 DEF apply_queued_pivot
    <3>2. machine.context = seen.messages
      BY <2>2, <2>3, <2>5
    <3> QED BY <1>1, <2>1, <2>2, <2>4, <3>1, <3>2, MachineParts, FulfilKeeps
  <2>6. CASE control.queue = 1
    <3> DEFINE p == Pivoted(machine)
    <3>1. Fulfil(p, NoControl, 0)
      BY <2>1, <2>4, <2>6 DEF apply_queued_pivot
    <3>2. machine.context + 1 \in 0..MaxRunSteps /\ machine.context + 1 <= machine.steps
      BY <2>2, <2>3, RunBoundsAssumption
    <3>3. /\ p \in MachineType /\ p.context = machine.context + 1
          /\ p.steps = machine.steps /\ p.cur = machine.cur
      BY <3>2, MachineParts DEF Pivoted, MachineType
    <3>4. p.context = seen.messages /\ p.context <= p.steps
      BY <2>2, <2>6, <3>2, <3>3
    <3>5. ~ AtRest(p)
      BY <2>4, <3>3 DEF AtRest
    <3> HIDE DEF p
    <3> QED BY <1>1, <2>1, <2>2, <3>1, <3>3, <3>4, <3>5, MachineParts, FulfilKeeps
  <2> QED BY <2>2, <2>5, <2>6
<1> QED BY <1>2, <1>3

(* Requests held for gated calls are numbered by the step that made them. *)
LEMMA HeldFields ==
    ASSUME RunIInv, NEW m \in MachineType, m.steps > 0
    PROVE  Held(m) \in SUBSET (1..MaxRunSteps)
<1>1. approvals \subseteq 1..MaxRunSteps /\ m.steps \in 0..MaxRunSteps
  BY DEF RunIInv, RunInv, RunTypeOK, MachineType
<1>2. m.steps \in 1..MaxRunSteps
  BY <1>1, RunBoundsAssumption
<1> QED BY <1>1, <1>2 DEF Held

LEMMA CompleteKeeps ==
    ASSUME RunIInv, Complete
    PROVE  RunIInv'
<1>1. Polled /\ at = "fulfil"
  BY DEF Complete
<1>2. PICK e \in Emits :
        IF cancelled
        THEN Return("Err", abandon_in_flight_turn(machine), e)
        ELSE \/ \E m \in Resumed(machine) : Top(m, Held(m), e)
             \/ machine.cur = "LLM" /\ Return("Err", Moved(machine, "Budget"), e)
  BY DEF Complete
<1>3. e \in {0, 1} /\ seen.emitted + e <= MaxEvents /\ (kind = "full" => e = 0)
  BY EmitsFields
<1>4. /\ machine \in MachineType /\ machine.context <= machine.steps /\ ~ AtRest(machine)
      /\ machine.context = seen.messages /\ seen.messages > 0
  BY <1>1, MachineParts DEF RunIInv, Endings, Messages, Places
<1>5. CASE cancelled
  BY <1>1, <1>2, <1>3, <1>5, GivenUpKeeps
<1>6. ASSUME NEW m \in Resumed(machine), Top(m, Held(m), e) PROVE RunIInv'
  <2>1. /\ m \in MachineType /\ m.context = machine.context /\ m.context <= m.steps
        /\ m.boundary => m.context < m.steps
    BY <1>4, ResumedFields
  <2>2. m.steps > 0
    BY <1>4, <2>1, RunBoundsAssumption DEF MachineType
  <2>3. Held(m) \in SUBSET (1..MaxRunSteps)
    BY <2>1, <2>2, HeldFields
  <2> QED BY <1>1, <1>3, <1>4, <1>6, <2>1, <2>3, TopKeeps
<1>7. ASSUME Return("Err", Moved(machine, "Budget"), e) PROVE RunIInv'
  <2> DEFINE m == Moved(machine, "Budget")
  <2>1. m \in MachineType /\ m.context <= m.steps /\ AtRest(m)
    BY <1>4, MovedFields DEF Rest, AtRest
  <2> HIDE DEF m
  <2> QED BY <1>1, <1>3, <1>7, <2>1, ReturnKeeps DEF m
<1> QED BY <1>2, <1>5, <1>6, <1>7

LEMMA EmitKeeps ==
    ASSUME RunIInv, Emit
    PROVE  RunIInv'
<1> USE DEF RunIInv, RunInv
<1>1. /\ stream' = [stream EXCEPT !.sink = @ + 1] /\ seen' = [seen EXCEPT !.emitted = @ + 1]
      /\ at = "fulfil" /\ kind = "stream" /\ stream.state = "Driving" /\ seen.emitted < MaxEvents
      /\ UNCHANGED <<machine, approvals, kind, at, cancelled, sent, control, runs>>
  BY DEF Emit, Emits, Polled
<1>2. /\ seen.emitted \in Nat /\ seen.delivered \in Nat /\ stream.sink \in Nat
      /\ seen.emitted + 1 \in 0..MaxEvents
      /\ seen.emitted = seen.delivered + stream.sink
  BY <1>1, RunBoundsAssumption DEF RunTypeOK, Events
<1>3. stream.sink + 1 \in 0..MaxEvents
  BY <1>2, RunBoundsAssumption
<1>4. /\ stream'.state = "Driving" /\ stream'.sink = stream.sink + 1
      /\ seen'.emitted = seen.emitted + 1 /\ seen'.delivered = seen.delivered
      /\ seen'.last = seen.last /\ seen'.messages = seen.messages
  BY <1>1 DEF RunTypeOK
<1>5. RunTypeOK'
  <2>1. seen' \in [messages: 0..MaxRunSteps, emitted: 0..MaxEvents, delivered: 0..MaxEvents,
                   last: {"none", "event", "Done", "Err", "DriveErr", "Dropped"}]
    BY <1>1, <1>2 DEF RunTypeOK
  <2>2. stream' \in [state: {"none", "Driving", "Draining", "Done"}, sink: 0..MaxEvents]
    BY <1>1, <1>3 DEF RunTypeOK
  <2> QED BY <1>1, <2>1, <2>2 DEF RunTypeOK
<1>6. Places' /\ Messages' /\ Contexts' /\ Endings'
  BY <1>1, <1>4 DEF Places, Messages, Contexts, Endings, AtRest
<1>7. Events'
  BY <1>1, <1>2, <1>4 DEF Events
<1>8. /\ ReplyAnswersAcceptedMessages' /\ AcceptedPivotIsLegal' /\ NoApprovalOutlivesRun'
      /\ AgentUsableAgain' /\ DoneComesLast'
  BY <1>1, <1>4 DEF ReplyAnswersAcceptedMessages, AcceptedPivotIsLegal, NoApprovalOutlivesRun,
                    AgentUsableAgain, DoneComesLast, Endings
<1> QED BY <1>5, <1>6, <1>7, <1>8

-----------------------------------------------------------------------------
(***************************************************************************)
(* The caller, the consumer, and the holder of the cancel handle.          *)
(***************************************************************************)

LEMMA StartKeeps ==
    ASSUME RunIInv, NEW k \in {"full", "stream"}, Start(k)
    PROVE  RunIInv'
<1> USE DEF RunIInv, RunInv
<1>1. /\ kind = "none" /\ kind' = k /\ at' = "unpolled" /\ approvals' = {}
      /\ cancelled' = FALSE /\ sent' = 0 /\ control' = NoControl
      /\ runs' = runs + 1 /\ runs < MaxRuns /\ machine' = machine
  BY DEF Start
<1>2. /\ seen'.messages = 1 /\ seen'.emitted = 0 /\ seen'.delivered = 0 /\ seen'.last = "none"
      /\ seen' \in [messages: 0..MaxRunSteps, emitted: 0..MaxEvents, delivered: 0..MaxEvents,
                    last: {"none", "event", "Done", "Err", "DriveErr", "Dropped"}]
  BY RunBoundsAssumption DEF Start, NothingSeen
<1>3. /\ k = "full" => stream' = NoStream
      /\ k = "stream" => stream' = [state |-> "Driving", sink |-> 0]
  BY DEF Start
<1>4. RunTypeOK'
  <2>1. stream' \in [state: {"none", "Driving", "Draining", "Done"}, sink: 0..MaxEvents]
    BY <1>3, RunBoundsAssumption DEF NoStream
  <2>2. control' \in [window: BOOLEAN, queue: 0..1, allowed: BOOLEAN]
    BY <1>1 DEF NoControl
  <2>3. runs' \in 0..MaxRuns /\ sent' \in 0..MaxRunSteps
    BY <1>1, RunBoundsAssumption DEF RunTypeOK
  <2> QED BY <1>1, <1>2, <2>1, <2>2, <2>3 DEF RunTypeOK
<1>5. Places' /\ Events' /\ Messages'
  BY <1>1, <1>2, <1>3 DEF Places, Events, Messages, NoStream
<1>6. Contexts' /\ Endings'
  BY <1>1, <1>2, <1>3 DEF Contexts, Endings, NoControl, NoStream
<1>7. /\ ReplyAnswersAcceptedMessages' /\ AcceptedPivotIsLegal' /\ NoApprovalOutlivesRun'
      /\ AgentUsableAgain' /\ DoneComesLast'
  BY <1>1, <1>2 DEF ReplyAnswersAcceptedMessages, AcceptedPivotIsLegal, NoApprovalOutlivesRun,
                    AgentUsableAgain, DoneComesLast
<1> QED BY <1>4, <1>5, <1>6, <1>7

LEMMA CancelKeeps ==
    ASSUME RunIInv, Cancel \/ UNCHANGED runVars
    PROVE  RunIInv'
<1>1. /\ UNCHANGED <<machine, approvals, kind, at, sent, control, stream, runs, seen>>
      /\ cancelled' \in BOOLEAN
  BY DEF Cancel, runVars, RunIInv, RunInv, RunTypeOK
<1>2. RunTypeOK'
  BY <1>1 DEF RunIInv, RunInv, RunTypeOK
<1>3. Places' /\ Contexts' /\ Messages' /\ Events' /\ Endings'
  BY <1>1 DEF RunIInv, Places, Contexts, Messages, Events, Endings, AtRest
<1>4. /\ ReplyAnswersAcceptedMessages' /\ AcceptedPivotIsLegal' /\ NoApprovalOutlivesRun'
      /\ AgentUsableAgain' /\ DoneComesLast'
  BY <1>1 DEF RunIInv, RunInv, ReplyAnswersAcceptedMessages, AcceptedPivotIsLegal,
              NoApprovalOutlivesRun, AgentUsableAgain, DoneComesLast, AtRest, PivotIsLegal
<1> QED BY <1>2, <1>3, <1>4 DEF RunIInv, RunInv

(* A pivot is accepted where the machine can take it, and only one. *)
LEMMA InterjectKeeps ==
    ASSUME RunIInv, interject_pivot
    PROVE  RunIInv'
<1> USE DEF RunIInv, RunInv
<1>1. /\ kind = "stream" /\ control.window /\ control.queue = 0
      /\ control' = [control EXCEPT !.queue = 1]
      /\ seen' = [seen EXCEPT !.messages = @ + 1]
      /\ UNCHANGED <<machine, approvals, kind, at, cancelled, sent, stream, runs>>
  BY DEF interject_pivot
<1>2. /\ at = "window" /\ machine.cur = "LLM" /\ machine.boundary
      /\ machine.context < machine.steps
  BY <1>1 DEF Contexts
<1>3. /\ machine.context \in 0..MaxRunSteps /\ machine.steps \in 0..MaxRunSteps
      /\ seen.messages = machine.context + control.queue
  BY <1>2 DEF RunTypeOK, Messages
<1>4. seen.messages = machine.context
  BY <1>1, <1>3
<1>5. seen.messages + 1 \in 0..MaxRunSteps /\ seen.messages + 1 > 0
  BY <1>2, <1>3, <1>4, RunBoundsAssumption
<1>6. /\ control'.queue = 1 /\ control'.window = control.window
      /\ seen'.messages = machine.context + 1 /\ seen'.emitted = seen.emitted
      /\ seen'.delivered = seen.delivered /\ seen'.last = seen.last
  BY <1>1, <1>4 DEF RunTypeOK
<1>7. RunTypeOK'
  <2>1. seen' \in [messages: 0..MaxRunSteps, emitted: 0..MaxEvents, delivered: 0..MaxEvents,
                   last: {"none", "event", "Done", "Err", "DriveErr", "Dropped"}]
    BY <1>1, <1>5 DEF RunTypeOK
  <2>2. control' \in [window: BOOLEAN, queue: 0..1, allowed: BOOLEAN]
    BY <1>1 DEF RunTypeOK
  <2> QED BY <1>1, <2>1, <2>2 DEF RunTypeOK
<1>8. Places' /\ Events' /\ Endings' /\ Contexts'
  BY <1>1, <1>2, <1>6 DEF Places, Events, Endings, Contexts, AtRest
<1>9. Messages'
  BY <1>1, <1>2, <1>4, <1>5, <1>6 DEF Messages
<1>10. /\ ReplyAnswersAcceptedMessages' /\ AcceptedPivotIsLegal' /\ NoApprovalOutlivesRun'
       /\ AgentUsableAgain' /\ DoneComesLast'
  BY <1>1, <1>2, <1>6 DEF ReplyAnswersAcceptedMessages, AcceptedPivotIsLegal, PivotIsLegal,
                    NoApprovalOutlivesRun, AgentUsableAgain, DoneComesLast
<1> QED BY <1>7, <1>8, <1>9, <1>10

LEMMA DeliverKeeps ==
    ASSUME RunIInv, Deliver
    PROVE  RunIInv'
<1> USE DEF RunIInv, RunInv
<1>1. /\ kind = "stream" /\ stream.sink > 0
      /\ stream' = [stream EXCEPT !.sink = @ - 1]
      /\ seen' = [seen EXCEPT !.delivered = @ + 1,
                              !.last = IF @ = "none" THEN "event" ELSE @]
      /\ UNCHANGED <<machine, approvals, kind, at, cancelled, sent, control, runs>>
  BY DEF Deliver
<1>2. /\ seen.emitted \in 0..MaxEvents /\ seen.delivered \in 0..MaxEvents
      /\ stream.sink \in 0..MaxEvents /\ seen.emitted = seen.delivered + stream.sink
  BY <1>1 DEF RunTypeOK, Events
<1>3. /\ stream.sink - 1 \in 0..MaxEvents /\ seen.delivered + 1 \in 0..MaxEvents
      /\ seen.emitted = (seen.delivered + 1) + (stream.sink - 1)
      /\ stream.sink # 0 /\ seen.delivered # seen.emitted
  BY <1>1, <1>2, RunBoundsAssumption
<1>4. /\ stream'.state = stream.state /\ stream'.sink = stream.sink - 1
      /\ seen'.emitted = seen.emitted /\ seen'.delivered = seen.delivered + 1
      /\ seen'.messages = seen.messages
      /\ seen'.last = (IF seen.last = "none" THEN "event" ELSE seen.last)
  BY <1>1 DEF RunTypeOK
<1>5. seen.last # "Done" /\ at # "unpolled"
  BY <1>1, <1>3 DEF DoneComesLast, Places
<1>6. RunTypeOK'
  <2>1. seen' \in [messages: 0..MaxRunSteps, emitted: 0..MaxEvents, delivered: 0..MaxEvents,
                   last: {"none", "event", "Done", "Err", "DriveErr", "Dropped"}]
    BY <1>1, <1>3 DEF RunTypeOK
  <2>2. stream' \in [state: {"none", "Driving", "Draining", "Done"}, sink: 0..MaxEvents]
    BY <1>1, <1>3 DEF RunTypeOK
  <2> QED BY <1>1, <2>1, <2>2 DEF RunTypeOK
<1>7. Places' /\ Messages' /\ Contexts'
  BY <1>1, <1>4, <1>5 DEF Places, Messages, Contexts
<1>8. Events'
  BY <1>1, <1>3, <1>4 DEF Events
<1>9. Endings'
  BY <1>1, <1>4, <1>5 DEF Endings, AtRest
<1>10. /\ ReplyAnswersAcceptedMessages' /\ AcceptedPivotIsLegal' /\ NoApprovalOutlivesRun'
       /\ AgentUsableAgain' /\ DoneComesLast'
  BY <1>1, <1>4, <1>5 DEF ReplyAnswersAcceptedMessages, AcceptedPivotIsLegal, PivotIsLegal,
                    NoApprovalOutlivesRun, AgentUsableAgain, DoneComesLast
<1> QED BY <1>6, <1>7, <1>8, <1>9, <1>10

LEMMA DeliverDoneKeeps ==
    ASSUME RunIInv, DeliverDone
    PROVE  RunIInv'
<1> USE DEF RunIInv, RunInv
<1>1. /\ kind = "stream" /\ stream.state = "Draining" /\ stream.sink = 0
      /\ stream' = [stream EXCEPT !.state = "Done"] /\ approvals' = {}
      /\ seen' = [seen EXCEPT !.last = "Done"]
      /\ UNCHANGED <<machine, kind, at, cancelled, sent, control, runs>>
  BY DEF DeliverDone, DoneIsNext, Cleared
<1>2. at = "returned" /\ AtRest(machine)
  BY <1>1 DEF Places, Endings
<1>3. /\ stream'.state = "Done" /\ stream'.sink = 0
      /\ seen'.emitted = seen.emitted /\ seen'.delivered = seen.delivered
      /\ seen'.messages = seen.messages /\ seen'.last = "Done"
  BY <1>1 DEF RunTypeOK
<1>4. seen.emitted = seen.delivered
  <2>1. seen.emitted = seen.delivered + stream.sink /\ seen.delivered \in Nat
    BY <1>1, RunBoundsAssumption DEF Events, RunTypeOK
  <2> QED BY <1>1, <2>1
<1>5. RunTypeOK'
  BY <1>1 DEF RunTypeOK
<1>6. Places' /\ Messages' /\ Contexts'
  BY <1>1, <1>2, <1>3 DEF Places, Messages, Contexts
<1>7. Events'
  BY <1>1, <1>3 DEF Events
<1>8. Endings'
  BY <1>1, <1>2, <1>3 DEF Endings, AtRest
<1>9. /\ ReplyAnswersAcceptedMessages' /\ AcceptedPivotIsLegal' /\ NoApprovalOutlivesRun'
      /\ AgentUsableAgain' /\ DoneComesLast'
  BY <1>1, <1>2, <1>3, <1>4 DEF ReplyAnswersAcceptedMessages, AcceptedPivotIsLegal,
                    NoApprovalOutlivesRun, AgentUsableAgain, DoneComesLast
<1> QED BY <1>5, <1>6, <1>7, <1>8, <1>9

LEMMA DropRunKeeps ==
    ASSUME RunIInv, DropRun
    PROVE  RunIInv'
<1>1. CASE kind = "full" /\ ReturnFull("Dropped", machine)
  BY <1>1, MachineParts, ReturnFullKeeps
<1>2. CASE kind = "stream" /\ ~ (kind = "full" /\ ReturnFull("Dropped", machine))
  <2>1. /\ kind' = "none" /\ at' = "none" /\ approvals' = {} /\ sent' = 0
        /\ machine' = AgentRunStream_drop(machine)
        /\ seen' = [seen EXCEPT !.last = IF stream.state = "Done" THEN @ ELSE "Dropped"]
        /\ control' = NoControl /\ stream' = NoStream
        /\ UNCHANGED <<cancelled, runs>>
    BY <1>2 DEF DropRun, Cleared
  <2>2. machine' \in MachineType /\ machine'.context <= machine'.steps
    BY <2>1, MachineParts DEF AgentRunStream_drop
  <2>3. seen'.last = (IF stream.state = "Done" THEN seen.last ELSE "Dropped")
    BY <2>1 DEF RunIInv, RunInv, RunTypeOK
  <2>4. seen'.last # "DriveErr" => AtRest(machine')
    BY <2>1, <2>3, MachineParts DEF AgentRunStream_drop, RunIInv, Endings
  <2>5. RunTypeOK'
    BY <2>1, <2>2, RunBoundsAssumption
    DEF RunIInv, RunInv, RunTypeOK, MachineType, NoControl, NoStream
  <2>6. Places' /\ Messages' /\ Events' /\ Contexts' /\ Endings'
    BY <2>1, <2>2 DEF Places, Messages, Events, Contexts, Endings, NoControl, NoStream
  <2>7. /\ ReplyAnswersAcceptedMessages' /\ AcceptedPivotIsLegal' /\ NoApprovalOutlivesRun'
        /\ DoneComesLast'
    BY <2>1 DEF ReplyAnswersAcceptedMessages, AcceptedPivotIsLegal, NoApprovalOutlivesRun,
                DoneComesLast
  <2>8. AgentUsableAgain'
    BY <2>4 DEF AgentUsableAgain, AtRest
  <2> QED BY <2>5, <2>6, <2>7, <2>8 DEF RunIInv, RunInv
<1> QED BY <1>1, <1>2 DEF DropRun

-----------------------------------------------------------------------------
(***************************************************************************)
(* Whatever a run did, and however it ended: what was accepted is answered *)
(* or was legal to take, nothing of it is left behind, and a stream that   *)
(* says Done has told everything (RunInv).                                 *)
(***************************************************************************)
LEMMA InitRun == RunInit => RunIInv
<1> SUFFICES ASSUME RunInit PROVE RunIInv
  OBVIOUS
<1>1. RunTypeOK
  <2>1. 0 \in 0..MaxRunSteps /\ 0 \in 0..MaxEvents /\ 0 \in 0..MaxRuns /\ 0 \in 0..1
    BY RunBoundsAssumption
  <2>2. machine \in [cur: Underway \cup Rest, steps: 0..MaxRunSteps, boundary: BOOLEAN,
                     context: 0..MaxRunSteps]
    BY <2>1 DEF RunInit, Underway, Rest
  <2>3. /\ control \in [window: BOOLEAN, queue: 0..1, allowed: BOOLEAN]
        /\ stream \in [state: {"none", "Driving", "Draining", "Done"}, sink: 0..MaxEvents]
    BY <2>1 DEF RunInit, NoControl, NoStream
  <2>4. seen \in [messages: 0..MaxRunSteps, emitted: 0..MaxEvents, delivered: 0..MaxEvents,
                  last: {"none", "event", "Done", "Err", "DriveErr", "Dropped"}]
    BY <2>1 DEF RunInit, NothingSeen
  <2> QED BY <2>1, <2>2, <2>3, <2>4 DEF RunInit, RunTypeOK
<1>2. Places /\ Contexts /\ Messages /\ Events /\ Endings
  BY DEF RunInit, Places, Contexts, Messages, Events, Endings, NoControl, NoStream, NothingSeen
<1>3. /\ ReplyAnswersAcceptedMessages /\ AcceptedPivotIsLegal /\ NoApprovalOutlivesRun
      /\ AgentUsableAgain /\ DoneComesLast
  BY DEF RunInit, ReplyAnswersAcceptedMessages, AcceptedPivotIsLegal, NoApprovalOutlivesRun,
         AgentUsableAgain, DoneComesLast, AtRest, Rest
<1> QED BY <1>1, <1>2, <1>3 DEF RunIInv, RunInv

LEMMA StepRun == RunIInv /\ [RunNext]_runVars => RunIInv'
<1> SUFFICES ASSUME RunIInv, [RunNext]_runVars PROVE RunIInv'
  OBVIOUS
<1>1. CASE run_full
  BY <1>1, StartKeeps DEF run_full
<1>2. CASE start
  BY <1>2, StartKeeps DEF start
<1>3. CASE Cancel \/ UNCHANGED runVars
  BY <1>3, CancelKeeps
<1>4. CASE interject_pivot
  BY <1>4, InterjectKeeps
<1>5. CASE DropRun
  BY <1>5, DropRunKeeps
<1>6. CASE BeginDrive
  BY <1>6, BeginDriveKeeps
<1>7. CASE LeaveWindow
  BY <1>7, LeaveWindowKeeps
<1>8. CASE Preempt \/ Misaligned
  BY <1>8, MachineParts, GivenUpKeeps DEF Preempt, Misaligned
<1>9. CASE Emit
  BY <1>9, EmitKeeps
<1>10. CASE Complete
  BY <1>10, CompleteKeeps
<1>11. CASE Deliver
  BY <1>11, DeliverKeeps
<1>12. CASE DeliverDone
  BY <1>12, DeliverDoneKeeps
<1> QED
  BY <1>1, <1>2, <1>3, <1>4, <1>5, <1>6, <1>7, <1>8, <1>9, <1>10, <1>11, <1>12 DEF RunNext, Poll

(* Whenever the consumer polls, interjects or drops, another task cancels and *)
(* the machine fails: a reply answers every message the user was told is      *)
(* accepted, an accepted pivot is legal where it lands, the agent can be used *)
(* again, no approval outlives its run and Done is the last event             *)
(* (AgentRunStream::poll_next, StreamControl, Agent::run_full).               *)
THEOREM RunCorrect == RunSpec => []RunInv
<1>1. RunIInv => RunInv
  BY DEF RunIInv
<1> QED BY <1>1, InitRun, StepRun, PTL DEF RunSpec

-----------------------------------------------------------------------------
(***************************************************************************)
(* Life.                                                                   *)
(***************************************************************************)

(* Some number is above all of a set. *)
Bounded(S) == \E n \in Nat : \A i \in S : i <= n

SavedType ==
    [taken: {TRUE},
     tools: [initial: ToolSets, current: ToolSets \cup {Unplannable}, queue: Seq(RequestType)],
     routing: Routings, log: SUBSET Nat, locals: SUBSET Locals,
     externals: UNION {[D -> RunModes] : D \in SUBSET Externals},
     sessions: [Externals -> Sessions]]

(* A snapshot is a recorded agent, with a history that ids can go on from. *)
SavedOK == saved # NoSnapshot => saved \in SavedType /\ Bounded(saved.log)

LifeInv == OffersInv /\ FreshIdsInv /\ SavedOK

-----------------------------------------------------------------------------
(***************************************************************************)
(* Numbers.                                                                *)
(***************************************************************************)

(* A set of numbers has a least one. *)
LEMMA LeastNumber ==
    ASSUME NEW T, T \subseteq Nat, T # {}
    PROVE  \E m \in T : \A n \in T : m <= n
<1>1. IsWellFoundedOn(OpToRel(<, Nat), Nat)
  BY NatLessThanWellFounded, Zenon
<1>2. PICK m \in T : \A n \in T : ~(<<n, m>> \in OpToRel(<, Nat))
  BY <1>1, WFMin, Zenon
<1>3. \A n \in T : ~(n < m)
  BY <1>2 DEF OpToRel
<1> QED BY <1>3

(* Induction: a set with 0 and the successor of each of its numbers. *)
LEMMA Induction ==
    ASSUME NEW T, T \subseteq Nat, 0 \in T, \A n \in T : n + 1 \in T
    PROVE  T = Nat
<1> SUFFICES ASSUME Nat \ T # {} PROVE FALSE
  OBVIOUS
<1>1. PICK m \in Nat \ T : \A n \in Nat \ T : m <= n
  <2>1. Nat \ T \subseteq Nat
    OBVIOUS
  <2> QED BY <2>1, LeastNumber
<1>2. m - 1 \in T
  BY <1>1
<1> QED BY <1>1, <1>2

(* A bounded set of numbers has a greatest one. *)
LEMMA GreatestNumber ==
    ASSUME NEW S, S \subseteq Nat, S # {}, Bounded(S)
    PROVE  \E m \in S : \A i \in S : i <= m
<1> DEFINE Above == {n \in Nat : \A i \in S : i <= n}
<1>1. Above # {}
  BY DEF Bounded
<1>2. PICK m \in Above : \A n \in Above : m <= n
  BY <1>1, LeastNumber
<1>3. m \in S
  <2> SUFFICES ASSUME m \notin S PROVE FALSE
    OBVIOUS
  <2>1. \A i \in S : i < m
    OBVIOUS
  <2>2. PICK i \in S : TRUE
    OBVIOUS
  <2>3. m - 1 \in Above
    BY <2>1, <2>2
  <2> QED BY <2>3, <1>2
<1> QED BY <1>2, <1>3

(* The counter of a restored agent starts above every id of its history. *)
LEMMA ContinuingAfter ==
    ASSUME NEW log, log \subseteq Nat, Bounded(log)
    PROVE  /\ continuing_after(log) \in Nat
           /\ \A i \in log \cup {ConversationId} : i < continuing_after(log)
<1> DEFINE known == log \cup {ConversationId}
<1>1. known \subseteq Nat /\ known # {}
  BY DEF ConversationId
<1>2. Bounded(known)
  <2>1. PICK n \in Nat : \A i \in log : i <= n
    BY DEF Bounded
  <2>2. \A i \in known : i <= n + 3
    BY <1>1, <2>1 DEF ConversationId
  <2>3. n + 3 \in Nat
    OBVIOUS
  <2> HIDE DEF known
  <2> QED BY <2>2, <2>3 DEF Bounded
<1>3. \E m \in known : \A i \in known : i <= m
  BY <1>1, <1>2, GreatestNumber
<1> DEFINE top == CHOOSE m \in known : \A i \in known : i <= m
<1>4. top \in known /\ \A i \in known : i <= top
  BY <1>3
<1>5. continuing_after(log) = top + 1
  BY DEF continuing_after
<1> HIDE DEF top
<1> QED BY <1>1, <1>4, <1>5

-----------------------------------------------------------------------------
(***************************************************************************)
(* Tools and delegates.                                                    *)
(***************************************************************************)

(* A delegate that a host built is served by what is known of its runtime. *)
LEMMA BuiltIsServed ==
    ASSUME NEW d \in Delegations, NEW e \in Externals
    PROVE  /\ d.externals[e] \in ExternalType
           /\ d.externals[e].handle = "attached"
                 => validate_external_mode(d.externals[e].mode, d.externals[e].capabilities)
<1>1. d.externals[e] \in {Absent} \cup {build_external(r) : r \in {x \in Recipes : MayBuild(x)}}
  BY DEF Delegations
<1>2. CASE d.externals[e] = Absent
  BY <1>2 DEF Absent, ExternalType, RunModes
<1>3. CASE d.externals[e] # Absent
  <2>1. PICK r \in Recipes : MayBuild(r) /\ d.externals[e] = build_external(r)
    BY <1>1, <1>3
  <2>2. r \in RecipeType
    BY RecipeAssumption
  <2>3. d.externals[e] \in ExternalType
    BY <2>1, <2>2 DEF build_external, ExternalType, RecipeType
  <2>4. ASSUME d.externals[e].handle = "attached"
        PROVE  validate_external_mode(d.externals[e].mode, d.externals[e].capabilities)
    BY <2>1, <2>2, <2>4 DEF build_external, MayBuild, RecipeType
  <2> QED BY <2>3, <2>4
<1> QED BY <1>2, <1>3

(* The tools of an agent are tools. *)
LEMMA AvailableType ==
    ASSUME NEW h, h.base \subseteq ToolNames, h.locals \subseteq Locals, h.routing \in Routings
    PROVE  available_names(h) \subseteq ToolNames
<1>1. Registered(h) \subseteq Locals \cup Externals
  BY DEF Registered
<1>2. \A x \in Registered(h) : AskName[x] \in ToolNames
  BY <1>1, LifeAssumption
<1>3. SingleName \in ToolNames
  BY LifeAssumption
<1>4. h.routing.kind \in {"PerSubagentTool", "SingleTool", "Rules"}
  BY LifeAssumption
<1>5. ASSUME h.routing.kind = "PerSubagentTool"
      PROVE  delegation_declarations(h) = {AskName[d] : d \in Registered(h)}
  BY <1>5 DEF delegation_declarations
<1>6. ASSUME h.routing.kind = "SingleTool"
      PROVE  delegation_declarations(h) = {SingleName}
  BY <1>6 DEF delegation_declarations
<1>7. ASSUME h.routing.kind = "Rules" PROVE delegation_declarations(h) = {}
  BY <1>7 DEF delegation_declarations
<1>8. delegation_declarations(h) \subseteq ToolNames
  BY <1>2, <1>3, <1>4, <1>5, <1>6, <1>7
<1> QED BY <1>8 DEF available_names

(* Planning goes through the sets that the requests make one of another. *)
PlanStep(p, set, queue, n) == IF n = 0 THEN set ELSE apply_reconfig_request(p[n - 1], queue[n])

PlansUpTo(p, set, queue, k) == p = [n \in 0..k |-> PlanStep(p, set, queue, n)]

LEMMA PlanExists ==
    ASSUME NEW set, NEW queue, NEW k \in Nat
    PROVE  \E p : PlansUpTo(p, set, queue, k)
<1> DEFINE T == {n \in Nat : \E p : PlansUpTo(p, set, queue, n)}
<1>1. 0 \in T
  <2> DEFINE p == [n \in 0..0 |-> set]
  <2>1. p = [n \in 0..0 |-> PlanStep(p, set, queue, n)]
    BY DEF PlanStep
  <2> HIDE DEF p
  <2> QED BY <2>1 DEF PlansUpTo
<1>2. ASSUME NEW m \in T PROVE m + 1 \in T
  <2>1. m \in Nat /\ m + 1 \in Nat
    OBVIOUS
  <2>2. PICK p : p = [n \in 0..m |-> PlanStep(p, set, queue, n)]
    BY Zenon DEF PlansUpTo
  <2> HIDE DEF T
  <2> DEFINE q == [n \in 0..(m + 1) |->
                      IF n = m + 1 THEN apply_reconfig_request(p[m], queue[m + 1]) ELSE p[n]]
  <2>3. \A n \in 0..m : q[n] = p[n]
    BY <2>1
  <2>4. ASSUME NEW n \in 0..(m + 1) PROVE q[n] = PlanStep(q, set, queue, n)
    <3>1. CASE n = m + 1
      <4>1. n # 0 /\ n - 1 = m /\ m \in 0..m
        BY <3>1, <2>1
      <4>2. q[n] = apply_reconfig_request(p[m], queue[n])
        BY <3>1
      <4> HIDE DEF q
      <4> QED BY <4>1, <4>2, <2>3 DEF PlanStep
    <3>2. CASE n # m + 1
      <4>1. n \in 0..m /\ (n # 0 => n - 1 \in 0..m)
        BY <3>2, <2>1
      <4>2. p[n] = PlanStep(p, set, queue, n)
        BY <4>1, <2>2
      <4> HIDE DEF q
      <4> QED BY <4>1, <4>2, <2>3 DEF PlanStep
    <3> QED BY <3>1, <3>2
  <2>5. q = [n \in 0..(m + 1) |-> PlanStep(q, set, queue, n)]
    BY <2>4
  <2> HIDE DEF q
  <2>6. PlansUpTo(q, set, queue, m + 1)
    BY <2>5 DEF PlansUpTo
  <2> QED BY <2>1, <2>6 DEF T
<1>3. T = Nat
  <2>1. T \subseteq Nat
    OBVIOUS
  <2> HIDE DEF T
  <2> QED BY <1>1, <1>2, <2>1, Induction
<1> QED BY <1>3

LEMMA PlanTrace ==
    ASSUME NEW set, NEW queue, Len(queue) \in Nat
    PROVE  \E p : /\ Planned(set, queue) = p[Len(queue)]
                  /\ p[0] = set
                  /\ \A n \in 1..Len(queue) : p[n] = apply_reconfig_request(p[n - 1], queue[n])
<1> DEFINE p == CHOOSE p : PlansUpTo(p, set, queue, Len(queue))
<1>1. PlansUpTo(p, set, queue, Len(queue))
  BY PlanExists, Zenon
<1>2. Planned(set, queue) = p[Len(queue)]
  BY Zenon DEF Planned, PlansUpTo, PlanStep
<1> HIDE DEF p
<1>3. p = [n \in 0..Len(queue) |-> PlanStep(p, set, queue, n)]
  BY <1>1, Zenon DEF PlansUpTo
<1>4. p[0] = set
  BY <1>3 DEF PlanStep
<1>5. ASSUME NEW n \in 1..Len(queue) PROVE p[n] = apply_reconfig_request(p[n - 1], queue[n])
  <2>1. n \in 0..Len(queue) /\ n # 0
    OBVIOUS
  <2> QED BY <1>3, <2>1 DEF PlanStep
<1> QED BY <1>2, <1>4, <1>5

LEMMA NothingPlanned == \A set : Planned(set, << >>) = set
<1> TAKE set
<1> DEFINE none == << >>
<1>1. Len(none) = 0
  OBVIOUS
<1> HIDE DEF none
<1>2. Planned(set, none) = set
  BY <1>1, PlanTrace
<1> QED BY <1>2 DEF none

(* What can be restored: the tool sets that were saved. *)
LEMMA FromRecordType ==
    ASSUME NEW t \in [initial: ToolSets, current: ToolSets \cup {Unplannable}, queue: Seq(RequestType)]
    PROVE  from_record(t) \in [initial: ToolSets, current: ToolSets, queue: Seq(RequestType)]
BY DEF from_record

LEMMA CutType ==
    ASSUME NEW t \in [initial: ToolSets, current: ToolSets, queue: Seq(RequestType)], NEW names
    PROVE  Cut(t, names) \in [initial: ToolSets, current: ToolSets, queue: Seq(RequestType)]
BY DEF Cut, Without, ToolSets

-----------------------------------------------------------------------------
(***************************************************************************)
(* The steps of a run.                                                     *)
(***************************************************************************)
LEMMA InitLife == LifeInit => LifeInv
<1> SUFFICES ASSUME LifeInit PROVE LifeInv
  OBVIOUS
<1>1. PICK base \in BaseSets, routing \in Routings, d \in Delegations :
          LET h == [base |-> base, routing |-> routing,
                    locals |-> d.locals, externals |-> d.externals]
          IN  MayAssemble(h) /\ host = h /\ tools = Built(h)
  BY DEF LifeInit
<1>2. /\ host.base = base /\ host.routing = routing
      /\ host.locals = d.locals /\ host.externals = d.externals
      /\ MayAssemble(host) /\ tools = Built(host)
  BY <1>1
<1>3. d.locals \subseteq Locals /\ base \subseteq ToolNames
  BY LifeAssumption DEF Delegations
<1>4. available_names(host) \subseteq ToolNames
  BY <1>2, <1>3, AvailableType
<1>5. host \in [base: SUBSET ToolNames, routing: Routings, locals: SUBSET Locals,
                externals: [Externals -> ExternalType]]
  <2>1. d.externals \in [Externals -> ExternalType]
    BY BuiltIsServed DEF Delegations
  <2> QED BY <1>1, <1>3, <2>1
<1>6. /\ tools \in [initial: ToolSets, current: ToolSets, queue: Seq(RequestType)]
      /\ tools.current.names = available_names(host) /\ tools.queue = << >>
  <2>1. (CHOOSE i \in SetIds : TRUE) \in SetIds
    BY LifeAssumption
  <2> QED BY <1>2, <1>4, <2>1 DEF Built, ToolSets
<1>7. LifeTypeOK
  <2>1. ids \in [counter: Nat, log: SUBSET Nat, turn: SUBSET Nat]
    <3>1. 3 + 1 \in Nat
      OBVIOUS
    <3> QED BY <3>1 DEF LifeInit, ConversationId
  <2>2. retained \in [Externals -> Sessions]
    <3>1. NoSession \in Sessions
      BY DEF NoSession, Sessions
    <3> QED BY <3>1 DEF LifeInit
  <2>3. restores \in Nat /\ run \in {"none", "unpolled", "driving"} /\ waiting \in BOOLEAN
    BY DEF LifeInit
  <2> QED BY <1>5, <1>6, <2>1, <2>2, <2>3 DEF LifeTypeOK
<1>8. ShownToolsAreExecutable
  <2>1. Planned(tools.current, tools.queue) = tools.current
    BY <1>6, NothingPlanned
  <2> QED BY <1>6, <2>1 DEF ShownToolsAreExecutable, resolve_tool_set
<1>9. RoutesResolve
  BY <1>2 DEF RoutesResolve, MayAssemble, validate_delegation_references
<1>10. DrivenModeIsServed
  BY <1>2, BuiltIsServed DEF DrivenModeIsServed
<1>11. FreshIdsInv
  BY DEF LifeInit, FreshIdsInv, ConversationId
<1> QED BY <1>7, <1>8, <1>9, <1>10, <1>11 DEF LifeInv, OffersInv, SavedOK, LifeInit

(* Runs that mint, commit or give up ids: tools and host stay. *)
LEMMA RunStepsKeep ==
    ASSUME LifeInv, StartRun \/ Mint \/ Commit \/ Discard \/ DriveErr
    PROVE  LifeInv'
<1> USE DEF LifeInv, OffersInv
<1>1. UNCHANGED <<host, tools, saved, restores>>
  BY DEF StartRun, Mint, Commit, Discard, DriveErr
<1>2. ids \in [counter: Nat, log: SUBSET Nat, turn: SUBSET Nat]
  BY DEF LifeTypeOK
<1>3. \/ ids' = [ids EXCEPT !.counter = @ + 1, !.turn = {ids.counter}]
      \/ ids' = [ids EXCEPT !.counter = @ + 1, !.turn = @ \cup {ids.counter}]
      \/ ids' = [ids EXCEPT !.log = @ \cup ids.turn, !.turn = {}]
      \/ ids' = [ids EXCEPT !.turn = {}]
  BY DEF StartRun, Mint, Commit, Discard, DriveErr
<1>4. ids' \in [counter: Nat, log: SUBSET Nat, turn: SUBSET Nat]
  <2>1. ids.counter + 1 \in Nat /\ {ids.counter} \subseteq Nat
        /\ ids.turn \cup {ids.counter} \subseteq Nat /\ ids.log \cup ids.turn \subseteq Nat
    BY <1>2
  <2>2. \A c \in Nat, t \in SUBSET Nat :
            [ids EXCEPT !.counter = c, !.turn = t] \in [counter: Nat, log: SUBSET Nat, turn: SUBSET Nat]
    BY <1>2
  <2>3. \A l, t \in SUBSET Nat :
            [ids EXCEPT !.log = l, !.turn = t] \in [counter: Nat, log: SUBSET Nat, turn: SUBSET Nat]
    BY <1>2
  <2>4. [ids EXCEPT !.turn = {}] \in [counter: Nat, log: SUBSET Nat, turn: SUBSET Nat]
    BY <1>2
  <2>5. CASE ids' = [ids EXCEPT !.counter = @ + 1, !.turn = {ids.counter}]
    <3>1. ids' = [ids EXCEPT !.counter = ids.counter + 1, !.turn = {ids.counter}]
      BY <2>5
    <3> QED BY <3>1, <2>1, <2>2
  <2>6. CASE ids' = [ids EXCEPT !.counter = @ + 1, !.turn = @ \cup {ids.counter}]
    <3>1. ids' = [ids EXCEPT !.counter = ids.counter + 1, !.turn = ids.turn \cup {ids.counter}]
      BY <2>6
    <3> QED BY <3>1, <2>1, <2>2
  <2>7. CASE ids' = [ids EXCEPT !.log = @ \cup ids.turn, !.turn = {}]
    <3>1. ids' = [ids EXCEPT !.log = ids.log \cup ids.turn, !.turn = {}]
      BY <2>7
    <3> QED BY <3>1, <2>1, <2>3
  <2> QED BY <1>3, <2>4, <2>5, <2>6, <2>7
<1>5. FreshIdsInv'
  <2>1. /\ ids.counter \in Nat /\ ids'.counter \in Nat
        /\ ids.log \subseteq Nat /\ ids.turn \subseteq Nat
    BY <1>2, <1>4
  <2>2. \A i \in ids.log \cup ids.turn \cup {ConversationId} : i \in Nat /\ i < ids.counter
    BY <2>1 DEF FreshIdsInv, ConversationId
  <2>3. CASE ids' = [ids EXCEPT !.counter = @ + 1, !.turn = {ids.counter}]
    <3>1. /\ ids'.counter = ids.counter + 1 /\ ids'.log = ids.log
          /\ ids'.turn = {ids.counter}
      BY <1>2, <2>3
    <3> QED BY <2>1, <2>2, <3>1 DEF FreshIdsInv
  <2>4. CASE ids' = [ids EXCEPT !.counter = @ + 1, !.turn = @ \cup {ids.counter}]
    <3>1. /\ ids'.counter = ids.counter + 1 /\ ids'.log = ids.log
          /\ ids'.turn = ids.turn \cup {ids.counter}
      BY <1>2, <2>4
    <3> QED BY <2>1, <2>2, <3>1 DEF FreshIdsInv
  <2>5. CASE ids' = [ids EXCEPT !.log = @ \cup ids.turn, !.turn = {}]
    <3>1. /\ ids'.counter = ids.counter /\ ids'.log = ids.log \cup ids.turn
          /\ ids'.turn = {}
      BY <1>2, <2>5
    <3> QED BY <2>2, <3>1 DEF FreshIdsInv
  <2>6. CASE ids' = [ids EXCEPT !.turn = {}]
    <3>1. ids'.counter = ids.counter /\ ids'.log = ids.log /\ ids'.turn = {}
      BY <1>2, <2>6
    <3> QED BY <2>2, <3>1 DEF FreshIdsInv
  <2> QED BY <1>3, <2>3, <2>4, <2>5, <2>6
<1>6. retained' \in [Externals -> Sessions]
  <2>1. retained \in [Externals -> Sessions]
    BY DEF LifeTypeOK
  <2>2. CASE UNCHANGED retained
    BY <2>1, <2>2
  <2>3. CASE \E e \in Externals : \E facts \in Driven(e) : retained' = [retained EXCEPT ![e] = facts]
    <3>1. \A e \in Externals : Driven(e) \subseteq Sessions
      <4>1. /\ [status |-> "Failed", session |-> FALSE] \in Sessions
            /\ [status |-> "Completed", session |-> TRUE] \in Sessions
        BY DEF Sessions
      <4> QED BY <4>1 DEF Driven
    <3> QED BY <2>1, <2>3, <3>1
  <2> QED BY <2>2, <2>3 DEF StartRun, Mint, Commit, Discard, DriveErr, Retain
<1>7. run' \in {"none", "unpolled", "driving"} /\ waiting' \in BOOLEAN
  BY DEF LifeTypeOK, StartRun, Mint, Commit, Discard, DriveErr
<1>8. LifeTypeOK'
  BY <1>1, <1>4, <1>6, <1>7 DEF LifeTypeOK
<1>9. (ShownToolsAreExecutable /\ RoutesResolve /\ DrivenModeIsServed /\ SavedOK)'
  BY <1>1 DEF ShownToolsAreExecutable, RoutesResolve, DrivenModeIsServed, SavedOK
<1> QED BY <1>5, <1>8, <1>9

(* The turn boundary shows the set that was planned, and queues nothing. *)
LEMMA TurnBoundaryKeeps ==
    ASSUME LifeInv, TurnBoundary
    PROVE  LifeInv'
<1> USE DEF LifeInv, OffersInv
<1> DEFINE plan == Planned(tools.current, tools.queue)
<1>1. plan \in ToolSets /\ resolve_tool_set(host, plan)
  BY DEF ShownToolsAreExecutable
<1>2. /\ tools \in [initial: ToolSets, current: ToolSets, queue: Seq(RequestType)]
      /\ tools' = [tools EXCEPT !.current = plan, !.queue = << >>]
      /\ UNCHANGED <<host, ids, retained, saved, waiting, restores>> /\ run' = "driving"
  BY DEF TurnBoundary, LifeTypeOK
<1> HIDE DEF plan
<1>3. /\ tools' \in [initial: ToolSets, current: ToolSets, queue: Seq(RequestType)]
      /\ tools'.current = plan /\ tools'.queue = << >>
  <2>1. << >> \in Seq(RequestType)
    OBVIOUS
  <2> QED BY <1>1, <1>2, <2>1
<1>4. LifeTypeOK'
  BY <1>2, <1>3 DEF LifeTypeOK
<1>5. ShownToolsAreExecutable'
  <2>1. Planned(tools'.current, tools'.queue) = plan
    BY <1>3, NothingPlanned
  <2> QED BY <1>1, <1>2, <1>3, <2>1 DEF ShownToolsAreExecutable, resolve_tool_set,
        available_names, delegation_declarations, Registered
<1>6. (RoutesResolve /\ DrivenModeIsServed /\ FreshIdsInv /\ SavedOK)'
  BY <1>2 DEF RoutesResolve, DrivenModeIsServed, FreshIdsInv, SavedOK, Registered
<1> QED BY <1>4, <1>5, <1>6

(* A rule drives a delegate; only its session facts change. *)
LEMMA RoutedKeeps ==
    ASSUME LifeInv, NEW d \in Locals \cup Externals, run_rules_routed(d)
    PROVE  LifeInv'
<1>1. UNCHANGED <<host, tools, ids, saved, run, waiting, restores>>
  BY DEF run_rules_routed
<1>2. retained' \in [Externals -> Sessions]
  <2>1. d \in Externals /\ \E facts \in Driven(d) : retained' = [retained EXCEPT ![d] = facts]
    BY DEF run_rules_routed
  <2>2. /\ [status |-> "Failed", session |-> FALSE] \in Sessions
        /\ [status |-> "Completed", session |-> TRUE] \in Sessions
    BY DEF Sessions
  <2>3. Driven(d) \subseteq Sessions
    BY <2>2 DEF Driven
  <2> QED BY <2>1, <2>3 DEF LifeInv, OffersInv, LifeTypeOK
<1> QED BY <1>1, <1>2 DEF LifeInv, OffersInv, LifeTypeOK, ShownToolsAreExecutable, RoutesResolve,
      DrivenModeIsServed, FreshIdsInv, SavedOK

-----------------------------------------------------------------------------
(***************************************************************************)
(* Reconfiguration, snapshot and restoration.                              *)
(***************************************************************************)

(* A request is queued only if its plan is a set that can be executed. *)
LEMMA ReconfigureKeeps ==
    ASSUME LifeInv, NEW r \in ToolSetRequests, Reconfigure(r)
    PROVE  LifeInv'
<1> USE DEF LifeInv, OffersInv
<1> DEFINE q == Append(tools.queue, merge_delegation_declarations(host, r))
           plan == Planned(tools.current, q)
<1>1. /\ plan \in ToolSets
      /\ plan # tools.current => resolve_tool_set(host, plan)
      /\ tools' = [tools EXCEPT !.queue = q]
      /\ UNCHANGED <<host, ids, retained, saved, run, waiting, restores>>
  BY DEF Reconfigure
<1>2. merge_delegation_declarations(host, r) \in RequestType
  <2>1. r \in RequestType
    BY LifeAssumption
  <2>2. delegation_declarations(host) \subseteq ToolNames
    <3>1. available_names(host) \subseteq ToolNames
      BY AvailableType DEF LifeTypeOK
    <3> QED BY <3>1 DEF available_names
  <2> QED BY <2>1, <2>2 DEF merge_delegation_declarations, RequestType
<1>3. tools \in [initial: ToolSets, current: ToolSets, queue: Seq(RequestType)]
  BY DEF LifeTypeOK
<1>4. q \in Seq(RequestType)
  BY <1>2, <1>3
<1> HIDE DEF q
<1>5. /\ tools' \in [initial: ToolSets, current: ToolSets, queue: Seq(RequestType)]
      /\ tools'.current = tools.current /\ tools'.queue = q
  BY <1>1, <1>3, <1>4
<1>6. Planned(tools'.current, tools'.queue) = plan
  BY <1>5
<1> HIDE DEF plan
<1>7. resolve_tool_set(host, tools.current) /\ resolve_tool_set(host, plan)
  BY <1>1 DEF ShownToolsAreExecutable
<1>8. ShownToolsAreExecutable'
  BY <1>1, <1>5, <1>6, <1>7 DEF ShownToolsAreExecutable, resolve_tool_set,
     available_names, delegation_declarations, Registered
<1>9. LifeTypeOK'
  BY <1>1, <1>5 DEF LifeTypeOK
<1> QED BY <1>1, <1>8, <1>9 DEF RoutesResolve, DrivenModeIsServed, FreshIdsInv, SavedOK, Registered

(* What is saved can be restored from. *)
LEMMA SnapshotKeeps ==
    ASSUME LifeInv, snapshot
    PROVE  LifeInv'
<1> USE DEF LifeInv, OffersInv
<1>1. UNCHANGED <<host, tools, ids, retained, run, waiting, restores>>
  BY DEF snapshot
<1> DEFINE runtime == [e \in Externals \cap Registered(host) |-> host.externals[e].mode]
<1>2. runtime \in UNION {[D -> RunModes] : D \in SUBSET Externals}
  <2>1. \A e \in Externals : host.externals[e].mode \in RunModes
    BY DEF LifeTypeOK, ExternalType
  <2>2. runtime \in [Externals \cap Registered(host) -> RunModes]
    BY <2>1
  <2> QED BY <2>2
<1>3. Recorded(tools) \in [initial: ToolSets, current: ToolSets \cup {Unplannable},
                           queue: Seq(RequestType)]
  BY DEF Recorded, LifeTypeOK
<1>4. saved' = [taken |-> TRUE, tools |-> Recorded(tools), routing |-> host.routing,
                log |-> ids.log, locals |-> host.locals, externals |-> runtime,
                sessions |-> retained]
  BY DEF snapshot
<1> HIDE DEF runtime
<1>5. saved' \in SavedType /\ saved'.log = ids.log
  <2>1. /\ host.routing \in Routings /\ host.locals \in SUBSET Locals
        /\ ids.log \in SUBSET Nat /\ retained \in [Externals -> Sessions]
    BY DEF LifeTypeOK
  <2> QED BY <1>2, <1>3, <1>4, <2>1 DEF SavedType
<1>6. Bounded(ids.log)
  <2>1. ids.counter \in Nat /\ \A i \in ids.log : i \in Nat /\ i < ids.counter
    BY DEF FreshIdsInv, LifeTypeOK
  <2>2. \A i \in ids.log : i <= ids.counter
    BY <2>1
  <2> QED BY <2>1, <2>2 DEF Bounded
<1>7. SavedOK'
  <2>1. Bounded(saved'.log)
    BY <1>5, <1>6
  <2> QED BY <1>5, <2>1 DEF SavedOK, Bounded
<1> QED BY <1>1, <1>7 DEF LifeTypeOK, ShownToolsAreExecutable, RoutesResolve, DrivenModeIsServed,
      FreshIdsInv, Registered

(* The delegates of a restored agent: those without a handler claim little. *)
LEMMA MergedType ==
    ASSUME saved \in SavedType, NEW base \in BaseSets, NEW again \in Delegations,
           NEW prune \in BOOLEAN,
           NEW h, h = IF prune THEN Pruned(Merged(base, again), again) ELSE Merged(base, again)
    PROVE  /\ h \in [base: SUBSET ToolNames, routing: Routings, locals: SUBSET Locals,
                     externals: [Externals -> ExternalType]]
           /\ \A e \in Externals : h.externals[e].handle = "attached" =>
                  validate_external_mode(h.externals[e].mode, h.externals[e].capabilities)
<1> DEFINE m == Merged(base, again)
<1>1. again.locals \subseteq Locals /\ saved.locals \subseteq Locals
      /\ base \subseteq ToolNames /\ saved.routing \in Routings
  BY LifeAssumption DEF Delegations, SavedType
<1>2. again.externals \in [Externals -> ExternalType]
  BY BuiltIsServed DEF Delegations
<1>3. \A e \in Externals : e \in DOMAIN saved.externals => saved.externals[e] \in RunModes
  BY DEF SavedType
<1>4. \A mode \in RunModes : /\ from_restored_parts(mode) \in ExternalType
                            /\ from_restored_parts(mode).handle = "bare"
  <2>1. declared_capabilities \subseteq Capabilities
    BY DEF declared_capabilities, Capabilities
  <2> QED BY <2>1 DEF from_restored_parts, ExternalType
<1>5. \A e \in Externals : /\ m.externals[e] \in ExternalType
                           /\ m.externals[e].handle = "attached" => m.externals[e] = again.externals[e]
  <2>1. ASSUME NEW e \in Externals
        PROVE  m.externals[e] = IF again.externals[e] = Absent /\ e \in DOMAIN saved.externals
                                THEN from_restored_parts(saved.externals[e])
                                ELSE again.externals[e]
    BY DEF Merged
  <2>2. \A e \in Externals : again.externals[e] \in ExternalType
    BY <1>2
  <2> HIDE DEF m
  <2>3. ASSUME NEW e \in Externals
        PROVE  /\ m.externals[e] \in ExternalType
               /\ m.externals[e].handle = "attached" => m.externals[e] = again.externals[e]
    <3>1. CASE again.externals[e] = Absent /\ e \in DOMAIN saved.externals
      <4>1. m.externals[e] = from_restored_parts(saved.externals[e])
        BY <2>1, <3>1
      <4>2. saved.externals[e] \in RunModes
        BY <1>3, <3>1
      <4>3. m.externals[e] \in ExternalType /\ m.externals[e].handle = "bare"
        BY <1>4, <4>1, <4>2
      <4> QED BY <4>3
    <3>2. CASE ~(again.externals[e] = Absent /\ e \in DOMAIN saved.externals)
      BY <2>1, <2>2, <3>2
    <3> QED BY <3>1, <3>2
  <2> QED BY <2>3
<1>6. m.externals \in [Externals -> ExternalType]
  <2> DEFINE of(e) == IF again.externals[e] = Absent /\ e \in DOMAIN saved.externals
                     THEN from_restored_parts(saved.externals[e])
                     ELSE again.externals[e]
  <2>1. m.externals = [e \in Externals |-> of(e)]
    BY DEF Merged
  <2>2. ASSUME NEW e \in Externals PROVE of(e) \in ExternalType
    <3>1. m.externals[e] = of(e)
      BY <2>1
    <3>2. m.externals[e] \in ExternalType
      BY <1>5
    <3> HIDE DEF m, of
    <3> QED BY <3>1, <3>2
  <2> QED BY <2>1, <2>2
<1>7. m \in [base: SUBSET ToolNames, routing: Routings, locals: SUBSET Locals,
             externals: [Externals -> ExternalType]]
  <2>1. m.base = base /\ m.routing = saved.routing /\ m.locals = saved.locals \cup again.locals
        /\ m = [base |-> m.base, routing |-> m.routing, locals |-> m.locals,
                externals |-> m.externals]
    BY DEF Merged
  <2> HIDE DEF m
  <2> QED BY <1>1, <1>6, <2>1
<1> HIDE DEF m
<1>8. CASE prune
  <2>1. h = [m EXCEPT !.locals = again.locals, !.externals = again.externals]
    BY <1>8 DEF Pruned, m
  <2> QED BY <1>1, <1>2, <1>7, <2>1, BuiltIsServed
<1>9. CASE ~ prune
  <2>1. h = m
    BY <1>9 DEF m
  <2> QED BY <1>5, <1>7, <2>1, BuiltIsServed
<1> QED BY <1>8, <1>9

(* A restoration starts from the snapshot alone, and checks what it offers. *)
LEMMA RestoreKeeps ==
    ASSUME LifeInv, Restore
    PROVE  LifeInv'
<1> USE DEF LifeInv, OffersInv
<1>1. saved \in SavedType /\ Bounded(saved.log)
  <2>1. saved # NoSnapshot
    BY DEF Restore, NoSnapshot
  <2> QED BY <2>1 DEF SavedOK
<1>2. PICK base \in BaseSets, again \in Delegations, prune \in BOOLEAN,
           policy \in RestorePolicies : restore(base, again, prune, policy)
  BY DEF Restore
<1> DEFINE merged == Merged(base, again)
           h == IF prune THEN Pruned(merged, again) ELSE merged
           read == from_record(saved.tools)
           t == IF prune
                THEN Cut(read, delegation_declarations(merged) \ delegation_declarations(h))
                ELSE read
           kept == {e \in DOMAIN saved.externals : ~ prune \/ again.externals[e] # Absent}
<1>3. /\ MayAssemble(h) /\ ensure_restored_tool_surface(h, t)
      /\ host' = h /\ tools' = t
      /\ ids' = [counter |-> continuing_after(saved.log), log |-> saved.log, turn |-> {}]
      /\ retained' = [e \in Externals |->
                          IF e \in kept THEN RestoredSession(policy, saved.sessions[e]) ELSE NoSession]
      /\ waiting' = FALSE /\ restores' = restores + 1 /\ UNCHANGED <<saved, run>>
  BY <1>2 DEF restore
<1>4. /\ h \in [base: SUBSET ToolNames, routing: Routings, locals: SUBSET Locals,
                externals: [Externals -> ExternalType]]
      /\ \A e \in Externals : h.externals[e].handle = "attached" =>
             validate_external_mode(h.externals[e].mode, h.externals[e].capabilities)
  BY <1>1, MergedType
<1>5. t \in [initial: ToolSets, current: ToolSets, queue: Seq(RequestType)]
  <2>1. read \in [initial: ToolSets, current: ToolSets, queue: Seq(RequestType)]
    <3>1. saved.tools \in [initial: ToolSets, current: ToolSets \cup {Unplannable},
                           queue: Seq(RequestType)]
      BY <1>1 DEF SavedType
    <3> QED BY <3>1, FromRecordType
  <2> HIDE DEF read, h, merged
  <2> QED BY <2>1, CutType
<1> HIDE DEF h, t
<1>6. retained' \in [Externals -> Sessions]
  <2>1. NoSession \in Sessions
    BY DEF NoSession, Sessions
  <2>2. \A facts \in Sessions : RestoredSession(policy, facts) \in Sessions
    BY <1>2, <2>1 DEF RestoredSession, Sessions, RestorePolicies
  <2>3. \A e \in Externals : saved.sessions[e] \in Sessions
    BY <1>1 DEF SavedType
  <2> HIDE DEF kept
  <2> QED BY <1>3, <2>1, <2>2, <2>3
<1>7. ids' \in [counter: Nat, log: SUBSET Nat, turn: SUBSET Nat] /\ FreshIdsInv'
  <2>1. saved.log \subseteq Nat
    BY <1>1 DEF SavedType
  <2>2. /\ continuing_after(saved.log) \in Nat
        /\ \A i \in saved.log \cup {ConversationId} : i < continuing_after(saved.log)
    BY <1>1, <2>1, ContinuingAfter
  <2>3. /\ ids'.counter = continuing_after(saved.log) /\ ids'.log = saved.log /\ ids'.turn = {}
        /\ ids' = [counter |-> ids'.counter, log |-> ids'.log, turn |-> ids'.turn]
    BY <1>3
  <2>4. ids' \in [counter: Nat, log: SUBSET Nat, turn: SUBSET Nat]
    <3>1. \A c \in Nat, l \in SUBSET Nat :
             [counter |-> c, log |-> l, turn |-> {}] \in [counter: Nat, log: SUBSET Nat, turn: SUBSET Nat]
      OBVIOUS
    <3> QED BY <1>3, <2>1, <2>2, <3>1
  <2>5. FreshIdsInv'
    BY <2>2, <2>3 DEF FreshIdsInv
  <2> QED BY <2>4, <2>5
<1>8. LifeTypeOK'
  <2>1. restores' \in Nat /\ run' \in {"none", "unpolled", "driving"} /\ waiting' \in BOOLEAN
    <3>1. restores + 1 \in Nat
      BY DEF LifeTypeOK
    <3> QED BY <1>3, <3>1 DEF LifeTypeOK
  <2> QED BY <1>3, <1>4, <1>5, <1>6, <1>7, <2>1 DEF LifeTypeOK
<1>9. ShownToolsAreExecutable'
  <2>1. CASE t.queue = << >>
    <3>1. Planned(t.current, t.queue) = t.current
      BY <2>1, NothingPlanned
    <3>2. resolve_tool_set(h, t.current) /\ t.current \in ToolSets
      BY <1>3, <1>5 DEF ensure_restored_tool_surface
    <3> QED BY <1>3, <3>1, <3>2 DEF ShownToolsAreExecutable
  <2>2. CASE t.queue # << >>
    BY <1>3, <2>2 DEF ShownToolsAreExecutable, ensure_restored_tool_surface
  <2> QED BY <2>1, <2>2
<1>10. (RoutesResolve /\ DrivenModeIsServed /\ SavedOK)'
  BY <1>1, <1>3, <1>4 DEF RoutesResolve, MayAssemble, validate_delegation_references,
     DrivenModeIsServed, SavedOK, Registered
<1> QED BY <1>7, <1>8, <1>9, <1>10

-----------------------------------------------------------------------------
(***************************************************************************)
(* The theorems.                                                           *)
(***************************************************************************)
LEMMA LifeStep == LifeInv /\ [LifeNext]_lifeVars => LifeInv'
<1> SUFFICES ASSUME LifeInv, [LifeNext]_lifeVars PROVE LifeInv'
  OBVIOUS
<1>1. CASE StartRun \/ Mint \/ Commit \/ Discard \/ DriveErr
  BY <1>1, RunStepsKeep
<1>2. CASE TurnBoundary
  BY <1>2, TurnBoundaryKeeps
<1>3. ASSUME NEW d \in Locals \cup Externals, run_rules_routed(d) PROVE LifeInv'
  BY <1>3, RoutedKeeps
<1>4. ASSUME NEW r \in ToolSetRequests, Reconfigure(r) PROVE LifeInv'
  BY <1>4, ReconfigureKeeps
<1>5. CASE snapshot
  BY <1>5, SnapshotKeeps
<1>6. CASE Restore
  BY <1>6, RestoreKeeps
<1>7. CASE UNCHANGED lifeVars
  BY <1>7 DEF lifeVars, LifeInv, OffersInv, LifeTypeOK, ShownToolsAreExecutable, RoutesResolve,
     DrivenModeIsServed, FreshIdsInv, SavedOK, Registered
<1> QED BY <1>1, <1>2, <1>3, <1>4, <1>5, <1>6, <1>7 DEF LifeNext

LEMMA LifeIsCorrect == LifeSpec => []LifeInv
BY InitLife, LifeStep, PTL DEF LifeSpec

(* Whatever is reconfigured, saved, pruned or injected anew: every tool set  *)
(* that can come to be shown can be executed, rules name delegates that are  *)
(* there, and no external agent is driven in a mode its runtime cannot serve *)
(* (reconfigure, AgentRestoreBuilder::build, validate_external_mode).        *)
THEOREM OffersCorrect == LifeSpec => []OffersInv
<1>1. LifeInv => OffersInv
  BY DEF LifeInv
<1> QED BY <1>1, LifeIsCorrect, PTL

(* No id is minted twice across any number of restorations, also of a        *)
(* snapshot older than the agent (FacadeIds::continuing_after).              *)
THEOREM FreshIdsCorrect == LifeSpec => []FreshIdsInv
<1>1. LifeInv => FreshIdsInv
  BY DEF LifeInv
<1> QED BY <1>1, LifeIsCorrect, PTL

-----------------------------------------------------------------------------
(***************************************************************************)
(* The tools of delegates are kept.                                        *)
(***************************************************************************)

(* A request leaves a tool that is shown where it is. *)
RequestKeeps(n, r) ==
    /\ r.op = "ReplaceToolSet" => n \in r.add
    /\ r.op = "PatchToolSet" => n \notin r.remove

(* What is queued keeps every delegate's tool that is shown. *)
Keeps(t) ==
    \A n \in t.current.names \cap DelegateNames, i \in 1..Len(t.queue) : RequestKeeps(n, t.queue[i])

KeepInv ==
    /\ host.base \in BaseSets
    /\ Keeps(tools)
    /\ saved # NoSnapshot => Keeps(from_record(saved.tools))

KeptInv == NamesKeepTheirMeaning => KeepInv

(* The tools of delegates have the names of delegates. *)
LEMMA DeclaredAreDelegateNames ==
    ASSUME NEW h, h.locals \subseteq Locals, h.routing \in Routings
    PROVE  delegation_declarations(h) \subseteq DelegateNames
<1>1. Registered(h) \subseteq Locals \cup Externals
  BY DEF Registered
<1>2. h.routing.kind \in {"PerSubagentTool", "SingleTool", "Rules"}
  BY LifeAssumption
<1>3. CASE h.routing.kind = "PerSubagentTool"
  BY <1>1, <1>3 DEF delegation_declarations, DelegateNames
<1>4. CASE h.routing.kind = "SingleTool"
  BY <1>4 DEF delegation_declarations, DelegateNames
<1>5. CASE h.routing.kind = "Rules"
  BY <1>5 DEF delegation_declarations
<1> QED BY <1>2, <1>3, <1>4, <1>5

(* A delegate's tool that is shown is one the process has a delegate for. *)
LEMMA ShownIsDeclared ==
    ASSUME LifeInv, NamesKeepTheirMeaning, KeepInv,
           NEW n \in tools.current.names \cap DelegateNames
    PROVE  n \in delegation_declarations(host)
<1>1. resolve_tool_set(host, tools.current)
  BY DEF LifeInv, OffersInv, ShownToolsAreExecutable
<1>2. n \notin host.base
  BY DEF KeepInv, NamesKeepTheirMeaning
<1> QED BY <1>1, <1>2 DEF resolve_tool_set, available_names

(* No set is the plan that conflicts. *)
LEMMA SetsArePlans == Unplannable \notin ToolSets
<1>1. 0 \notin SetIds
  BY LifeAssumption
<1> QED BY <1>1 DEF Unplannable, ToolSets

(* A request that keeps a tool makes of a set with it a set with it. *)
LEMMA AppliedKeeps ==
    ASSUME NEW set, NEW n, NEW r \in RequestType, RequestKeeps(n, r),
           set = Unplannable \/ n \in set.names
    PROVE  LET applied == apply_reconfig_request(set, r)
           IN  applied = Unplannable \/ n \in applied.names
<1>1. r.op = "ReplaceToolSet" \/ r.op = "PatchToolSet"
  BY DEF RequestType
<1>2. CASE set = Unplannable
  BY <1>2 DEF apply_reconfig_request
<1>3. CASE set # Unplannable /\ r.op = "ReplaceToolSet"
  <2>1. n \in r.add
    BY <1>3 DEF RequestKeeps
  <2>2. apply_reconfig_request(set, r) = [id |-> r.id, names |-> r.add]
    BY <1>3 DEF apply_reconfig_request
  <2> QED BY <2>1, <2>2
<1>4. CASE set # Unplannable /\ r.op = "PatchToolSet"
  <2>1. n \in (set.names \ r.remove) \cup r.add
    BY <1>4 DEF RequestKeeps
  <2>2. apply_reconfig_request(set, r) =
           IF r.expected = set.id /\ r.remove \subseteq set.names
           THEN [id |-> r.id, names |-> (set.names \ r.remove) \cup r.add]
           ELSE Unplannable
    BY <1>4 DEF apply_reconfig_request
  <2> QED BY <2>1, <2>2
<1> QED BY <1>1, <1>2, <1>3, <1>4

(* What is planned keeps every delegate's tool that is shown. *)
LEMMA PlanKeeps ==
    ASSUME NEW t \in [initial: ToolSets, current: ToolSets, queue: Seq(RequestType)],
           Keeps(t), Planned(t.current, t.queue) \in ToolSets,
           NEW n \in t.current.names \cap DelegateNames
    PROVE  n \in Planned(t.current, t.queue).names
<1>1. t.queue \in Seq(RequestType) /\ Len(t.queue) \in Nat
  OBVIOUS
<1>2. PICK p : /\ Planned(t.current, t.queue) = p[Len(t.queue)]
               /\ p[0] = t.current
               /\ \A i \in 1..Len(t.queue) : p[i] = apply_reconfig_request(p[i - 1], t.queue[i])
  BY <1>1, PlanTrace
<1> DEFINE ok(s) == s = Unplannable \/ n \in s.names
           T == {i \in Nat : i <= Len(t.queue) => ok(p[i])}
<1>3. 0 \in T
  BY <1>2
<1>4. ASSUME NEW i \in T PROVE i + 1 \in T
  <2>1. i \in Nat /\ i + 1 \in Nat
    OBVIOUS
  <2> SUFFICES ASSUME i + 1 <= Len(t.queue) PROVE ok(p[i + 1])
    BY <2>1
  <2>2. i + 1 \in 1..Len(t.queue) /\ i <= Len(t.queue) /\ (i + 1) - 1 = i
    BY <1>1, <2>1
  <2>3. ok(p[i])
    BY <2>2
  <2>4. p[i + 1] = apply_reconfig_request(p[i], t.queue[i + 1])
    BY <1>2, <2>2
  <2>5. t.queue[i + 1] \in RequestType /\ RequestKeeps(n, t.queue[i + 1])
    BY <1>1, <2>2 DEF Keeps
  <2> HIDE DEF T
  <2> QED BY <2>3, <2>4, <2>5, AppliedKeeps
<1>5. T = Nat
  <2>1. T \subseteq Nat
    OBVIOUS
  <2> HIDE DEF T
  <2> QED BY <1>3, <1>4, <2>1, Induction
<1>6. ok(p[Len(t.queue)])
  <2>1. Len(t.queue) \in T /\ Len(t.queue) <= Len(t.queue)
    BY <1>1, <1>5
  <2> QED BY <2>1
<1> QED BY <1>2, <1>6, SetsArePlans

(* An agent is read as it was recorded. *)
LEMMA RecordedIsRead ==
    ASSUME NEW t \in [initial: ToolSets, current: ToolSets, queue: Seq(RequestType)]
    PROVE  /\ from_record(Recorded(t)).current = t.current
           /\ from_record(Recorded(t)).queue = t.queue
<1>1. t.current # Unplannable
  BY SetsArePlans
<1> QED BY <1>1 DEF from_record, Recorded

LEMMA CutKeeps ==
    ASSUME NEW t \in [initial: ToolSets, current: ToolSets, queue: Seq(RequestType)], NEW names,
           Keeps(t)
    PROVE  Keeps(Cut(t, names))
<1>1. /\ Cut(t, names).current.names \subseteq t.current.names
      /\ Cut(t, names).queue = t.queue
  BY DEF Cut, Without
<1> QED BY <1>1 DEF Keeps

(* A request that is queued keeps the tools of the delegates of the host. *)
LEMMA ReconfigureKeepsTools ==
    ASSUME LifeInv, KeptInv, NEW r \in ToolSetRequests, Reconfigure(r)
    PROVE  KeptInv'
<1> SUFFICES ASSUME NamesKeepTheirMeaning PROVE KeepInv'
  BY DEF KeptInv, NamesKeepTheirMeaning, DelegateNames
<1>1. KeepInv
  BY DEF KeptInv
<1> DEFINE m == merge_delegation_declarations(host, r)
           q == Append(tools.queue, m)
<1>2. /\ MayMerge(host, r) /\ tools' = [tools EXCEPT !.queue = q]
      /\ UNCHANGED <<host, saved>>
  BY DEF Reconfigure
<1>3. tools \in [initial: ToolSets, current: ToolSets, queue: Seq(RequestType)]
  BY DEF LifeInv, OffersInv, LifeTypeOK
<1>4. r \in RequestType
  BY LifeAssumption
<1>5. ASSUME NEW n \in tools.current.names \cap DelegateNames PROVE RequestKeeps(n, m)
  <2>1. n \in delegation_declarations(host)
    BY <1>1, ShownIsDeclared
  <2>2. CASE r.op = "ReplaceToolSet"
    <3>1. m = [r EXCEPT !.add = @ \cup delegation_declarations(host)]
      BY <2>2 DEF merge_delegation_declarations
    <3>2. m.op = "ReplaceToolSet" /\ n \in m.add
      BY <1>4, <2>1, <2>2, <3>1 DEF RequestType
    <3> HIDE DEF m
    <3> QED BY <3>2 DEF RequestKeeps
  <2>3. CASE r.op # "ReplaceToolSet"
    <3>1. m = r
      BY <2>3 DEF merge_delegation_declarations
    <3> HIDE DEF m
    <3> QED BY <1>2, <2>1, <2>3, <3>1 DEF RequestKeeps, MayMerge
  <2> QED BY <2>2, <2>3
<1> HIDE DEF m
<1>6. /\ tools'.current = tools.current /\ Len(q) = Len(tools.queue) + 1
      /\ tools'.queue = q /\ q[Len(tools.queue) + 1] = m
      /\ \A i \in 1..Len(tools.queue) : q[i] = tools.queue[i]
      /\ Len(tools.queue) \in Nat
  BY <1>2, <1>3
<1>7. Keeps(tools')
  <2> SUFFICES ASSUME NEW n \in tools.current.names \cap DelegateNames, NEW i \in 1..Len(q)
               PROVE  RequestKeeps(n, q[i])
    BY <1>6 DEF Keeps
  <2>1. CASE i = Len(tools.queue) + 1
    BY <1>5, <1>6, <2>1
  <2>2. CASE i # Len(tools.queue) + 1
    <3>1. i \in 1..Len(tools.queue)
      BY <1>6, <2>2
    <3> HIDE DEF q
    <3> QED BY <1>1, <1>6, <3>1 DEF KeepInv, Keeps
  <2> QED BY <2>1, <2>2
<1> QED BY <1>1, <1>2, <1>7 DEF KeepInv

(* What a restoration shows was shown when the snapshot was taken. *)
LEMMA RestoreKeepsTools ==
    ASSUME LifeInv, KeptInv, Restore
    PROVE  /\ KeptInv'
           /\ restores' # restores
           /\ from_record(saved.tools).current.names \cap delegation_declarations(host')
                 \subseteq tools'.current.names
<1>1. saved # NoSnapshot /\ saved \in SavedType
  <2>1. saved # NoSnapshot
    BY DEF Restore, NoSnapshot
  <2> QED BY <2>1 DEF LifeInv, SavedOK
<1>2. PICK base \in BaseSets, again \in Delegations, prune \in BOOLEAN,
           policy \in RestorePolicies : restore(base, again, prune, policy)
  BY DEF Restore
<1> DEFINE merged == Merged(base, again)
           h == IF prune THEN Pruned(merged, again) ELSE merged
           read == from_record(saved.tools)
           dropped == delegation_declarations(merged) \ delegation_declarations(h)
           t == IF prune THEN Cut(read, dropped) ELSE read
<1>3. host' = h /\ tools' = t /\ restores' = restores + 1 /\ saved' = saved
  BY <1>2 DEF restore
<1>4. h.base = base
  <2>1. merged.base = base
    BY DEF Merged
  <2>2. Pruned(merged, again).base = merged.base
    BY DEF Pruned, Merged
  <2> HIDE DEF merged
  <2> QED BY <2>1, <2>2
<1>5. read \in [initial: ToolSets, current: ToolSets, queue: Seq(RequestType)]
  BY <1>1, FromRecordType DEF SavedType
<1>6. restores' # restores
  <2>1. restores \in Nat
    BY DEF LifeInv, OffersInv, LifeTypeOK
  <2> QED BY <1>3, <2>1
<1> HIDE DEF read, h
<1>7. read.current.names \cap delegation_declarations(h) \subseteq t.current.names
  <2>1. Cut(read, dropped).current.names = read.current.names \ dropped
    BY DEF Cut, Without
  <2> QED BY <2>1
<1>8. Keeps(read) => Keeps(t)
  BY <1>5, CutKeeps
<1> HIDE DEF t
<1>9. KeptInv'
  <2> SUFFICES ASSUME NamesKeepTheirMeaning PROVE KeepInv'
    BY DEF KeptInv, NamesKeepTheirMeaning, DelegateNames
  <2>1. Keeps(read)
    BY <1>1 DEF KeptInv, KeepInv, read
  <2>2. Keeps(tools')
    BY <1>3, <1>8, <2>1
  <2>3. host'.base \in BaseSets
    BY <1>2, <1>3, <1>4
  <2>4. Keeps(from_record(saved'.tools))
    BY <1>3, <2>1 DEF read
  <2> QED BY <2>2, <2>3, <2>4 DEF KeepInv
<1> QED BY <1>3, <1>6, <1>7, <1>9 DEF read

(* Every step keeps them, in the sets that are shown and in what is queued. *)
ShownStay ==
    NamesKeepTheirMeaning =>
        LET before == IF restores' = restores THEN tools ELSE from_record(saved.tools)
        IN  before.current.names \cap delegation_declarations(host') \subseteq tools'.current.names

LEMMA KeptInit == LifeInit => KeptInv
<1> SUFFICES ASSUME LifeInit PROVE KeptInv
  OBVIOUS
<1>1. PICK base \in BaseSets, routing \in Routings, d \in Delegations :
          LET h == [base |-> base, routing |-> routing,
                    locals |-> d.locals, externals |-> d.externals]
          IN  MayAssemble(h) /\ host = h /\ tools = Built(h)
  BY DEF LifeInit
<1>2. host.base \in BaseSets
  BY <1>1
<1>3. tools.queue = << >>
  BY <1>1 DEF Built
<1>4. Keeps(tools)
  BY <1>3 DEF Keeps
<1>5. saved = NoSnapshot
  BY DEF LifeInit
<1> QED BY <1>2, <1>4, <1>5 DEF KeptInv, KeepInv

LEMMA KeptStep ==
    ASSUME LifeInv, KeptInv, [LifeNext]_lifeVars
    PROVE  KeptInv' /\ ShownStay
<1>1. ASSUME UNCHANGED <<host, saved, restores>>, tools' = tools
      PROVE  KeptInv' /\ ShownStay
  BY <1>1 DEF KeptInv, KeepInv, ShownStay, NamesKeepTheirMeaning, DelegateNames
<1>2. CASE StartRun \/ Mint \/ Commit \/ Discard \/ DriveErr
  <2>1. UNCHANGED <<host, saved, restores>> /\ tools' = tools
    BY <1>2 DEF StartRun, Mint, Commit, Discard, DriveErr
  <2> QED BY <1>1, <2>1
<1>3. CASE TurnBoundary
  <2> DEFINE plan == Planned(tools.current, tools.queue)
  <2>1. /\ tools' = [tools EXCEPT !.current = plan, !.queue = << >>]
        /\ UNCHANGED <<host, saved, restores>>
    BY <1>3 DEF TurnBoundary
  <2>2. /\ tools \in [initial: ToolSets, current: ToolSets, queue: Seq(RequestType)]
        /\ host.locals \subseteq Locals /\ host.routing \in Routings
        /\ plan \in ToolSets
    BY DEF LifeInv, OffersInv, LifeTypeOK, ShownToolsAreExecutable
  <2>3. ASSUME NamesKeepTheirMeaning, NEW n \in tools.current.names \cap delegation_declarations(host)
        PROVE  n \in plan.names
    <3>1. n \in tools.current.names \cap DelegateNames
      BY <2>2, DeclaredAreDelegateNames
    <3>2. Keeps(tools)
      BY <2>3 DEF KeptInv, KeepInv
    <3> QED BY <2>2, <3>1, <3>2, PlanKeeps
  <2> HIDE DEF plan
  <2>4. tools'.current = plan /\ tools'.queue = << >>
    BY <2>1, <2>2
  <2>5. Keeps(tools')
    BY <2>4 DEF Keeps
  <2>6. delegation_declarations(host') = delegation_declarations(host)
    BY <2>1
  <2>7. ShownStay
    BY <2>1, <2>3, <2>4, <2>6 DEF ShownStay
  <2>8. KeptInv'
    BY <2>1, <2>5 DEF KeptInv, KeepInv, NamesKeepTheirMeaning, DelegateNames
  <2> QED BY <2>7, <2>8
<1>4. ASSUME NEW d \in Locals \cup Externals, run_rules_routed(d) PROVE KeptInv' /\ ShownStay
  <2>1. UNCHANGED <<host, saved, restores>> /\ tools' = tools
    BY <1>4 DEF run_rules_routed
  <2> QED BY <1>1, <2>1
<1>5. ASSUME NEW r \in ToolSetRequests, Reconfigure(r) PROVE KeptInv' /\ ShownStay
  <2>1. KeptInv'
    BY <1>5, ReconfigureKeepsTools
  <2>2. tools'.current = tools.current /\ restores' = restores
    BY <1>5 DEF Reconfigure, LifeInv, OffersInv, LifeTypeOK
  <2>3. ShownStay
    BY <2>2 DEF ShownStay
  <2> QED BY <2>1, <2>3
<1>6. CASE snapshot
  <2>1. tools \in [initial: ToolSets, current: ToolSets, queue: Seq(RequestType)]
    BY DEF LifeInv, OffersInv, LifeTypeOK
  <2>2. /\ UNCHANGED <<host, tools, restores>>
        /\ saved'.tools = Recorded(tools)
    BY <1>6 DEF snapshot
  <2>3. Keeps(tools) => Keeps(from_record(saved'.tools))
    BY <2>1, <2>2, RecordedIsRead DEF Keeps
  <2>4. KeptInv'
    BY <2>2, <2>3 DEF KeptInv, KeepInv, NamesKeepTheirMeaning, DelegateNames
  <2> QED BY <2>2, <2>4 DEF ShownStay
<1>7. CASE Restore
  BY <1>7, RestoreKeepsTools DEF ShownStay
<1>8. CASE UNCHANGED lifeVars
  <2>1. UNCHANGED <<host, saved, restores>> /\ tools' = tools
    BY <1>8 DEF lifeVars
  <2> QED BY <1>1, <2>1
<1> QED BY <1>2, <1>3, <1>4, <1>5, <1>6, <1>7, <1>8 DEF LifeNext

(* No step takes the tool of a registered delegate away from the model: a    *)
(* replacement keeps what the host declares when it is queued, a queue is    *)
(* saved as it is, and pruning drops the tools of pruned delegates alone     *)
(* (merge_facade_delegation_declarations, drop_tool_declarations).           *)
THEOREM ToolsKept == LifeSpec => ToolsAreKept
<1>1. KeptInv /\ LifeInv /\ [LifeNext]_lifeVars => KeptInv' /\ [ShownStay]_lifeVars
  BY KeptStep
<1>2. LifeSpec => [][ShownStay]_lifeVars
  BY <1>1, KeptInit, LifeIsCorrect, PTL DEF LifeSpec
<1> QED BY <1>2 DEF ToolsAreKept, ShownStay

(***************************************************************************)
(* A streamed reply.                                                       *)
(***************************************************************************)

(* The events there are. *)
EventKinds == {"MessageStart", "BlockStart", "BlockDelta", "BlockStop", "ToolInputAvailable", "Usage",
               "MessageStop", "Error"}

(* The events that end a stream. *)
Ends == {"MessageStop", "Error"}

(* What occurs in s. *)
Elements(s) == {s[i] : i \in DOMAIN s}

(* A sequence, of anything. *)
IsSequence(s) == s \in Seq(Elements(s))

(* A sequence of events. *)
IsEvents(s) == IsSequence(s) /\ \A i \in 1..Len(s) : s[i].e \in EventKinds

(* Events none of which ends the stream. *)
Quiet(s) == IsSequence(s) /\ \A i \in 1..Len(s) : s[i].e \in EventKinds \ Ends

(* Events of which only the last may end the stream. *)
EndsOnce(s) == IsEvents(s) /\ \A i \in 1..(Len(s) - 1) : s[i].e \notin Ends

(* An output item of the Responses protocol, as far as the proof needs it. *)
ItemHolds(it) ==
    /\ {"raw", "summary"} \subseteq DOMAIN it
    /\ IsSequence(it.raw) /\ IsSequence(it.summary)

(* A normalizer of the Responses protocol. *)
ResponsesHolds(n) ==
    /\ {"terminal", "next_sequence", "items"} \subseteq DOMAIN n
    /\ n.next_sequence \in Nat
    /\ \A i \in DOMAIN n.items : ItemHolds(n.items[i])

(* A normalizer of the Chat protocol. *)
ChatHolds(n) ==
    /\ {"terminal", "tool_calls"} \subseteq DOMAIN n
    /\ IsSequence(n.tool_calls)

(* A normalizer of the Anthropic protocol. *)
AnthropicHolds(n) == "terminal" \in DOMAIN n

(* A normalizer of the protocol of this stream. *)
HoldsOf(n) ==
    CASE api.protocol = "anthropic" -> AnthropicHolds(n)
      [] api.protocol = "chat"      -> ChatHolds(n)
      [] api.protocol = "responses" -> ResponsesHolds(n)

NormalizerHolds == HoldsOf(norm)

(* Only the Responses protocol numbers its events. *)
ApiHolds ==
    /\ api.protocol \in {"anthropic", "chat", "responses"}
    /\ api.numbered => api.protocol = "responses"

(* The fields of the accumulator the proof is about. *)
AccFields == {"stop_reason", "role", "error"}

(* The stream reads nothing any more. *)
Over == terminated \/ norm.terminal

(* Of the pending events only the last may end the stream, and only if the
   normalizer is terminal; once an item that ends it was given, all is given. *)
StreamEnds ==
    /\ EndsOnce(pending)
    /\ ~norm.terminal => Quiet(pending)
    /\ terminated => pending = << >>
    /\ ended = 0 \/ (ended = 1 /\ pending = << >> /\ Over)

(* A stop reason, and so a Response, comes from the end of the message. *)
ResponseNeedsItsEnd ==
    /\ AccFields \subseteq DOMAIN acc
    /\ acc.stop_reason # "" => norm.terminal
    /\ result = "Ok" => norm.terminal

(* What was written is what was counted and what was lost; after a loss the
   count never catches up, so the message never ends. *)
LossesCounted ==
    api.numbered =>
        /\ "sent" \in DOMAIN said
        /\ said.sent \in Nat /\ lost \in Nat
        /\ ~terminated => said.sent = norm.next_sequence + lost
        /\ lost > 0 => ~norm.terminal

(* The inductive invariant. *)
ReplyIInv == ApiHolds /\ NormalizerHolds /\ StreamEnds /\ ResponseNeedsItsEnd /\ LossesCounted

-----------------------------------------------------------------------------
(***************************************************************************)
(* Sequences of events.                                                    *)
(***************************************************************************)
(* A sequence over some set is a sequence. *)
LEMMA SequenceOf == ASSUME NEW S, NEW s \in Seq(S) PROVE IsSequence(s)
<1>1. s \in [1..Len(s) -> S] /\ Len(s) \in Nat OBVIOUS
<1>2. s \in [1..Len(s) -> Elements(s)] BY <1>1 DEF Elements
<1>. QED BY <1>1, <1>2, SeqDef, IsASeq DEF IsSequence

LEMMA ASequenceIs == ASSUME NEW s, IsSequence(s)
  PROVE /\ Len(s) \in Nat /\ DOMAIN s = 1..Len(s)
        /\ \A i \in 1..Len(s) : s[i] \in Elements(s)
BY DEF IsSequence

(* Joining, appending to, changing and shortening a sequence. *)
LEMMA Joined == ASSUME NEW s, NEW t, IsSequence(s), IsSequence(t)
  PROVE /\ IsSequence(s \o t) /\ Len(s \o t) = Len(s) + Len(t)
        /\ \A i \in 1..Len(s \o t) :
              (s \o t)[i] = IF i <= Len(s) THEN s[i] ELSE t[i - Len(s)]
<1>. DEFINE S == Elements(s) \cup Elements(t)
<1>1. s \in Seq(S) /\ t \in Seq(S) BY DEF IsSequence
<1>2. s \o t \in Seq(S) BY <1>1, ConcatProperties
<1>. QED BY <1>1, <1>2, SequenceOf, ConcatProperties

LEMMA Longer == ASSUME NEW s, IsSequence(s), NEW x
  PROVE IsSequence(Append(s, x))
<1>. DEFINE S == Elements(s) \cup {x}
<1>1. s \in Seq(S) BY DEF IsSequence
<1>2. Append(s, x) \in Seq(S) BY <1>1
<1>. QED BY <1>2, SequenceOf

LEMMA Changed == ASSUME NEW s, IsSequence(s), NEW i, NEW x
  PROVE IsSequence([s EXCEPT ![i] = x])
<1>. DEFINE S == Elements(s) \cup {x}
<1>1. s \in Seq(S) BY DEF IsSequence
<1>2. s \in [1..Len(s) -> S] /\ Len(s) \in Nat BY <1>1
<1>3. [s EXCEPT ![i] = x] \in [1..Len(s) -> S] BY <1>2
<1>4. [s EXCEPT ![i] = x] \in Seq(S) BY <1>2, <1>3, SeqDef
<1>. QED BY <1>4, SequenceOf

LEMMA Shorter == ASSUME NEW s, IsSequence(s), s # << >>
  PROVE /\ IsSequence(Tail(s)) /\ Len(Tail(s)) = Len(s) - 1
        /\ \A i \in 1..(Len(s) - 1) : Tail(s)[i] = s[i + 1]
        /\ Head(s) = s[1] /\ Len(s) > 0
<1>. DEFINE S == Elements(s)
<1>1. s \in Seq(S) BY DEF IsSequence
<1>2. Tail(s) \in Seq(S) BY <1>1, HeadTailProperties
<1>3. Len(s) \in Nat /\ Len(s) # 0 BY <1>1, EmptySeq
<1>4. /\ Head(s) = s[1] /\ Len(Tail(s)) = Len(s) - 1
      /\ \A i \in 1..(Len(s) - 1) : Tail(s)[i] = s[i + 1]
  BY <1>1, <1>3
<1>5. IsSequence(Tail(s)) BY <1>2, SequenceOf
<1>. QED BY <1>3, <1>4, <1>5

(* No event, one and two. *)
LEMMA QuietNone == Quiet(<< >>) /\ IsSequence(<< >>)
<1>1. << >> \in Seq({}) /\ Len(<< >>) = 0 OBVIOUS
<1>2. IsSequence(<< >>) BY <1>1, SequenceOf
<1>. QED BY <1>1, <1>2 DEF Quiet

LEMMA QuietOne == ASSUME NEW x, x.e \in EventKinds \ Ends PROVE Quiet(<<x>>)
<1>1. <<x>> \in Seq({x}) /\ Len(<<x>>) = 1 /\ <<x>>[1] = x OBVIOUS
<1>2. IsSequence(<<x>>) BY <1>1, SequenceOf
<1>3. ASSUME NEW i \in 1..Len(<<x>>) PROVE <<x>>[i].e \in EventKinds \ Ends
  <2>1. i = 1 BY <1>1
  <2>. QED BY <2>1, <1>1
<1>. QED BY <1>2, <1>3 DEF Quiet

LEMMA QuietTwo == ASSUME NEW x, NEW y, x.e \in EventKinds \ Ends, y.e \in EventKinds \ Ends
  PROVE Quiet(<<x, y>>)
<1>1. <<x, y>> \in Seq({x, y}) /\ Len(<<x, y>>) = 2 /\ <<x, y>>[1] = x /\ <<x, y>>[2] = y OBVIOUS
<1>2. IsSequence(<<x, y>>) BY <1>1, SequenceOf
<1>3. ASSUME NEW i \in 1..Len(<<x, y>>) PROVE <<x, y>>[i].e \in EventKinds \ Ends
  <2>1. i = 1 \/ i = 2 BY <1>1
  <2>. QED BY <2>1, <1>1
<1>. QED BY <1>2, <1>3 DEF Quiet

LEMMA QuietJoined == ASSUME NEW s, NEW t, Quiet(s), Quiet(t) PROVE Quiet(s \o t)
<1>1. IsSequence(s) /\ IsSequence(t) BY DEF Quiet
<1>2. Len(s) \in Nat /\ Len(t) \in Nat BY <1>1, ASequenceIs
<1>3. /\ IsSequence(s \o t) /\ Len(s \o t) = Len(s) + Len(t)
      /\ \A i \in 1..Len(s \o t) : (s \o t)[i] = IF i <= Len(s) THEN s[i] ELSE t[i - Len(s)]
  BY <1>1, Joined
<1>4. ASSUME NEW i \in 1..Len(s \o t) PROVE (s \o t)[i].e \in EventKinds \ Ends
  <2>1. CASE i <= Len(s) BY <2>1, <1>2, <1>3 DEF Quiet
  <2>2. CASE ~(i <= Len(s))
    <3>1. i - Len(s) \in 1..Len(t) BY <2>2, <1>2, <1>3
    <3>. QED BY <2>2, <3>1, <1>3 DEF Quiet
  <2>. QED BY <2>1, <2>2
<1>. QED BY <1>3, <1>4 DEF Quiet

(* Events that hold no end may be followed by one. *)
LEMMA QuietEnds == ASSUME NEW s, Quiet(s) PROVE EndsOnce(s)
<1>1. Len(s) \in Nat BY ASequenceIs DEF Quiet
<1>. QED BY <1>1 DEF Quiet, EndsOnce, IsEvents

LEMMA EndOf == ASSUME NEW s, Quiet(s), NEW x, x.e \in EventKinds
  PROVE EndsOnce(s \o <<x>>)
<1>1. IsSequence(s) /\ IsSequence(<<x>>) /\ Len(<<x>>) = 1 /\ <<x>>[1] = x
  <2>1. <<x>> \in Seq({x}) /\ Len(<<x>>) = 1 /\ <<x>>[1] = x OBVIOUS
  <2>2. IsSequence(<<x>>) BY <2>1, SequenceOf
  <2>. QED BY <2>1, <2>2 DEF Quiet
<1>2. Len(s) \in Nat BY <1>1, ASequenceIs
<1>3. /\ IsSequence(s \o <<x>>) /\ Len(s \o <<x>>) = Len(s) + 1
      /\ \A i \in 1..Len(s \o <<x>>) :
            (s \o <<x>>)[i] = IF i <= Len(s) THEN s[i] ELSE <<x>>[i - Len(s)]
  BY <1>1, Joined
<1>4. ASSUME NEW i \in 1..Len(s \o <<x>>)
      PROVE /\ (s \o <<x>>)[i].e \in EventKinds
            /\ i # Len(s) + 1 => (s \o <<x>>)[i].e \notin Ends
  <2>1. CASE i <= Len(s) BY <2>1, <1>2, <1>3 DEF Quiet
  <2>2. CASE ~(i <= Len(s))
    <3>1. i - Len(s) = 1 /\ i = Len(s) + 1 BY <2>2, <1>2, <1>3
    <3>. QED BY <2>2, <3>1, <1>1, <1>3
  <2>. QED BY <2>1, <2>2
<1>5. \A i \in 1..(Len(s \o <<x>>) - 1) : i \in 1..Len(s \o <<x>>) /\ i # Len(s) + 1
  BY <1>2, <1>3
<1>. QED BY <1>3, <1>4, <1>5 DEF EndsOnce, IsEvents

LEMMA EndOfOne == ASSUME NEW x, x.e \in EventKinds PROVE EndsOnce(<<x>>)
<1>1. << >> \o <<x>> = <<x>> OBVIOUS
<1>. QED BY <1>1, QuietNone, EndOf

LEMMA EndOfTwo == ASSUME NEW x, NEW y, x.e \in EventKinds \ Ends, y.e \in EventKinds
  PROVE EndsOnce(<<x, y>>)
<1>1. <<x, y>> \in Seq({x, y}) /\ Len(<<x, y>>) = 2 /\ <<x, y>>[1] = x /\ <<x, y>>[2] = y OBVIOUS
<1>2. IsSequence(<<x, y>>) BY <1>1, SequenceOf
<1>3. \A i \in 1..Len(<<x, y>>) : i = 1 \/ i = 2 BY <1>1
<1>4. \A i \in 1..(Len(<<x, y>>) - 1) : i = 1 BY <1>1
<1>. QED BY <1>1, <1>2, <1>3, <1>4 DEF EndsOnce, IsEvents

-----------------------------------------------------------------------------
(***************************************************************************)
(* The Responses protocol: the items of a response.                        *)
(***************************************************************************)
(* An item after one of its operations, and the events of it. *)
ItemStep(r) == ItemHolds(r.x) /\ Quiet(r.events)

(* The events that do not end a stream. *)
LEMMA QuietResponses == ASSUME NEW id, NEW sort, NEW call, NEW text
  PROVE /\ Quiet(<<Responses!BlockStart(id, sort, call, text)>>) /\ Quiet(<<Responses!BlockDelta(id, sort, text)>>)
        /\ Quiet(<<Responses!BlockStop(id)>>) /\ Quiet(<<Responses!ToolInputAvailable(id, text)>>)
        /\ Quiet(<<Responses!MessageStart>>) /\ Quiet(<<Responses!Usage(text)>>)
<1>1. /\ Responses!BlockStart(id, sort, call, text).e \in EventKinds \ Ends
      /\ Responses!BlockDelta(id, sort, text).e \in EventKinds \ Ends
      /\ Responses!BlockStop(id).e \in EventKinds \ Ends
      /\ Responses!ToolInputAvailable(id, text).e \in EventKinds \ Ends
      /\ Responses!MessageStart.e \in EventKinds \ Ends
      /\ Responses!Usage(text).e \in EventKinds \ Ends
  BY DEF Responses!BlockStart, Responses!BlockDelta, Responses!BlockStop, Responses!ToolInputAvailable,
         Responses!MessageStart, Responses!Usage, EventKinds, Ends
<1>. QED BY <1>1, QuietOne

(* An operation that does nothing to the item, or changes it. *)
LEMMA NotStep == ASSUME NEW it, ItemHolds(it) PROVE ItemStep(Responses!Not(it))
<1>1. Responses!Not(it).x = it /\ Responses!Not(it).events = << >> BY DEF Responses!Not
<1>. QED BY <1>1, QuietNone DEF ItemStep

LEMMA MadeStep == ASSUME NEW it, ItemHolds(it), NEW events, Quiet(events)
  PROVE ItemStep(Responses!Made(it, events))
<1>1. Responses!Made(it, events).x = it /\ Responses!Made(it, events).events = events
  BY DEF Responses!Made
<1>. QED BY <1>1 DEF ItemStep

(* Changes of an item that leave its texts sequences. *)
LEMMA KeepsTexts == ASSUME NEW it, ItemHolds(it), NEW y
  PROVE /\ ItemHolds([it EXCEPT !.parts = y]) /\ ItemHolds([it EXCEPT !.done_item = y])
        /\ ItemHolds([it EXCEPT !.arguments = y])
        /\ IsSequence(y) => ItemHolds([it EXCEPT !.raw = y]) /\ ItemHolds([it EXCEPT !.summary = y])
BY DEF ItemHolds

(* The parts of a reasoning text. *)
LEMMA ReplayQuiet == ASSUME NEW indexed, IsSequence(indexed), NEW block
  PROVE Quiet(Responses!replay(indexed, block))
<1>. DEFINE text(k) == IF k = 1 THEN indexed[k].text ELSE <<Responses!Separator>> \o indexed[k].text
            ev(k) == Responses!BlockDelta(block, "Reasoning", text(k))
            S == {ev(k) : k \in 1..Len(indexed)}
            rep == [k \in 1..Len(indexed) |-> ev(k)]
<1>1. Len(indexed) \in Nat /\ DOMAIN indexed = 1..Len(indexed) BY ASequenceIs
<1>2. Responses!replay(indexed, block) = rep BY <1>1 DEF Responses!replay
<1>3. rep \in [1..Len(indexed) -> S] OBVIOUS
<1>4. rep \in Seq(S) BY <1>1, <1>3, SeqDef
<1>5. IsSequence(rep) BY <1>4, SequenceOf
<1>6. Len(rep) = Len(indexed) BY <1>1
<1>7. ASSUME NEW k \in 1..Len(indexed) PROVE rep[k].e \in EventKinds \ Ends
  BY DEF Responses!BlockDelta, EventKinds, Ends
<1>. QED BY <1>2, <1>5, <1>6, <1>7 DEF Quiet

LEMMA FromPartsSequence == ASSUME NEW texts, IsSequence(texts)
  PROVE IsSequence(Responses!from_parts(texts))
<1>. DEFINE ev(k) == [index |-> k - 1, text |-> texts[k]]
            S == {ev(k) : k \in 1..Len(texts)}
            parts == [k \in 1..Len(texts) |-> ev(k)]
<1>1. Len(texts) \in Nat /\ DOMAIN texts = 1..Len(texts) BY ASequenceIs
<1>2. Responses!from_parts(texts) = parts BY <1>1 DEF Responses!from_parts
<1>3. parts \in [1..Len(texts) -> S] OBVIOUS
<1>4. parts \in Seq(S) BY <1>1, <1>3, SeqDef
<1>. QED BY <1>2, <1>4, SequenceOf

LEMMA PushSequence == ASSUME NEW indexed, IsSequence(indexed), NEW index, NEW text
  PROVE IsSequence(Responses!push(indexed, index, text).x)
<1>. DEFINE r == Responses!push(indexed, index, text)
            last == Responses!LastIndex(indexed)
            more == Append(indexed, [index |-> index, text |-> text])
            grown == [indexed EXCEPT ![Len(indexed)].text = @ \o text]
<1>1. IsSequence(more) BY Longer
<1>2. IsSequence(grown) BY Changed
<1>3. CASE index < last
  <2>1. r.x = indexed \/ r.x = grown BY <1>3 DEF Responses!push, Responses!Not, Responses!Made
  <2>. QED BY <2>1, <1>2
<1>4. CASE ~(index < last) /\ indexed # << >> /\ index = last
  <2>1. r.x = grown BY <1>4 DEF Responses!push, Responses!Made
  <2>. QED BY <2>1, <1>2
<1>5. CASE ~(index < last) /\ ~(indexed # << >> /\ index = last)
  <2>1. r.x = more BY <1>5 DEF Responses!push, Responses!Made
  <2>. QED BY <2>1, <1>1
<1>. QED BY <1>3, <1>4, <1>5

(* The start of an item. *)
LEMMA ItemStarts == ASSUME NEW v, IsSequence(v.raw), IsSequence(v.summary)
  PROVE ItemStep(Responses!item_start(v))
<1>. DEFINE block == Responses!item_block_id(v.id)
            raw == Responses!from_parts(v.raw)
            summary == Responses!from_parts(v.summary)
            it == [id |-> v.id, type |-> v.type, parts |-> << >>, raw |-> raw,
                   summary |-> summary, signature |-> v.signature, call |-> v.call,
                   arguments |-> v.arguments, input_available |-> FALSE,
                   done_item |-> Responses!NoItem]
            begun == <<Responses!BlockStart(block, "Reasoning", 0, Responses!None)>>
            called == <<Responses!BlockStart(block, "ToolInput", v.call, Responses!None)>>
            given == IF v.arguments = Responses!None THEN << >>
                     ELSE <<Responses!BlockDelta(block, "Json", v.arguments)>>
<1>1. IsSequence(raw) /\ IsSequence(summary) BY FromPartsSequence
<1>2. ItemHolds(it) BY <1>1 DEF ItemHolds
<1>3. Quiet(begun \o Responses!replay(raw, block))
  BY <1>1, QuietResponses, ReplayQuiet, QuietJoined
<1>4. Quiet(called \o given)
  <2>1. Quiet(given) BY QuietResponses, QuietNone
  <2>. QED BY <2>1, QuietResponses, QuietJoined
<1>. HIDE DEF raw, summary, it, block, begun, called, given
<1>5. \/ Responses!item_start(v) = Responses!Not(it)
      \/ Responses!item_start(v) = Responses!Made(it, << >>)
      \/ Responses!item_start(v) = Responses!Made(it, begun \o Responses!replay(raw, block))
      \/ Responses!item_start(v) = Responses!Made(it, called \o given)
  <2>1. CASE v.type = "message" BY <2>1 DEF Responses!item_start, it, raw, summary, block, begun, called, given
  <2>2. CASE v.type = "reasoning" BY <2>2 DEF Responses!item_start, it, raw, summary, block, begun, called, given
  <2>3. CASE v.type = "function_call" BY <2>3 DEF Responses!item_start, it, raw, summary, block, begun, called, given
  <2>4. CASE v.type \notin {"message", "reasoning", "function_call"}
    BY <2>4 DEF Responses!item_start, it, raw, summary, block, begun, called, given
  <2>. QED BY <2>1, <2>2, <2>3, <2>4
<1>. QED BY <1>2, <1>3, <1>4, <1>5, NotStep, MadeStep, QuietNone

(* The content parts of a message. *)
LEMMA PartStarts == ASSUME NEW id, NEW f PROVE Quiet(Responses!part_start(id, f).events)
<1>. DEFINE block == Responses!content_block_id(id, f.content_index)
            text == f.part.text
            known == f.part.kind \in Responses!PartKinds
            begun == <<Responses!BlockStart(block, IF known THEN "Text" ELSE "Unknown", 0,
                                            IF known THEN Responses!None ELSE text)>>
            given == IF known /\ text # Responses!None
                       THEN <<Responses!BlockDelta(block, "Text", text)>> ELSE << >>
<1>1. Quiet(begun) /\ Quiet(given) BY QuietResponses, QuietNone
<1>2. Responses!part_start(id, f).events = begun \o given
  BY DEF Responses!part_start, Responses!Made
<1>. QED BY <1>1, <1>2, QuietJoined

LEMMA PartDelta == ASSUME NEW part, NEW id, NEW f
  PROVE Quiet(Responses!part_push_delta(part, id, f).events)
<1>. DEFINE delta == <<Responses!BlockDelta(Responses!content_block_id(id, f.content_index), "Text", f.text)>>
<1>1. Quiet(delta) BY QuietResponses
<1>2. Responses!part_push_delta(part, id, f).events \in {delta, << >>}
  BY DEF Responses!part_push_delta, Responses!Made, Responses!Not
<1>. QED BY <1>1, <1>2, QuietNone

LEMMA PartFinish == ASSUME NEW part, NEW id, NEW f
  PROVE Quiet(Responses!part_finish(part, id, f).events)
<1>. DEFINE block == Responses!content_block_id(id, f.content_index)
            known == part.kind \in Responses!PartKinds
            given == IF known THEN << >>
                     ELSE <<Responses!BlockDelta(block, "Unknown", f.part.text)>>
<1>1. Quiet(given) /\ Quiet(<<Responses!BlockStop(block)>>) BY QuietResponses, QuietNone
<1>2. Quiet(given \o <<Responses!BlockStop(block)>>) BY <1>1, QuietJoined
<1>3. Responses!part_finish(part, id, f).events \in {given \o <<Responses!BlockStop(block)>>, << >>}
  BY DEF Responses!part_finish, Responses!Made, Responses!Not
<1>. QED BY <1>2, <1>3, QuietNone

LEMMA WithPartSteps == ASSUME NEW it, ItemHolds(it), NEW f, NEW r, Quiet(r.events)
  PROVE ItemStep(Responses!WithPart(it, f, r))
<1>. DEFINE next == [it EXCEPT !.parts[f.content_index] = r.x]
<1>1. ItemHolds(next) BY KeepsTexts
<1>2. Responses!WithPart(it, f, r) \in {Responses!Made(next, r.events), Responses!Not(it)}
  BY DEF Responses!WithPart
<1>. QED BY <1>1, <1>2, MadeStep, NotStep

LEMMA PartOps == ASSUME NEW it, ItemHolds(it), NEW f
  PROVE /\ ItemStep(Responses!add_content_part(it, f))
        /\ ItemStep(Responses!item_push_message_delta(it, f))
        /\ ItemStep(Responses!item_finish_message_text(it, f))
        /\ ItemStep(Responses!finish_content_part(it, f))
<1>1. ItemStep(Responses!add_content_part(it, f))
  <2>. DEFINE r == Responses!part_start(it.id, f)
              next == [it EXCEPT !.parts = Responses!With(@, f.content_index, r.x)]
  <2>1. ItemHolds(next) BY KeepsTexts
  <2>2. Quiet(r.events) BY PartStarts
  <2>3. Responses!add_content_part(it, f) \in {Responses!Made(next, r.events), Responses!Not(it)}
    BY DEF Responses!add_content_part
  <2>. QED BY <2>1, <2>2, <2>3, MadeStep, NotStep
<1>2. ItemStep(Responses!item_push_message_delta(it, f))
  <2>. DEFINE r == Responses!part_push_delta(it.parts[f.content_index], it.id, f)
  <2>1. Responses!item_push_message_delta(it, f) \in {Responses!WithPart(it, f, r), Responses!Not(it)}
    BY DEF Responses!item_push_message_delta
  <2>. QED BY <2>1, PartDelta, WithPartSteps, NotStep
<1>3. ItemStep(Responses!item_finish_message_text(it, f))
  <2>1. Responses!item_finish_message_text(it, f) \in {Responses!Made(it, << >>), Responses!Not(it)}
    BY DEF Responses!item_finish_message_text
  <2>. QED BY <2>1, MadeStep, NotStep, QuietNone
<1>4. ItemStep(Responses!finish_content_part(it, f))
  <2>. DEFINE r == Responses!part_finish(it.parts[f.content_index], it.id, f)
  <2>1. Responses!finish_content_part(it, f) \in {Responses!WithPart(it, f, r), Responses!Not(it)}
    BY DEF Responses!finish_content_part
  <2>. QED BY <2>1, PartFinish, WithPartSteps, NotStep
<1>. QED BY <1>1, <1>2, <1>3, <1>4

(* Reasoning, the arguments of a call, and the end of an item. *)
LEMMA ReasoningOps == ASSUME NEW it, ItemHolds(it), NEW f
  PROVE /\ ItemStep(Responses!push_reasoning_delta(it, f))
        /\ ItemStep(Responses!finish_reasoning_text(it, f))
<1>1. ItemStep(Responses!push_reasoning_delta(it, f))
  <2>. DEFINE r == Responses!push(IF f.summary THEN it.summary ELSE it.raw, f.part_index, f.text)
              summarised == [it EXCEPT !.summary = r.x]
              reasoned == [it EXCEPT !.raw = r.x]
              delta == <<Responses!BlockDelta(Responses!item_block_id(it.id), "Reasoning", r.events)>>
  <2>1. IsSequence(r.x)
    <3>1. IsSequence(IF f.summary THEN it.summary ELSE it.raw) BY DEF ItemHolds
    <3>. QED BY <3>1, PushSequence
  <2>2. ItemHolds(summarised) /\ ItemHolds(reasoned) BY <2>1, KeepsTexts
  <2>3. Quiet(delta) BY QuietResponses
  <2>. HIDE DEF r
  <2>4. Responses!push_reasoning_delta(it, f) \in
            {Responses!Made(summarised, << >>), Responses!Made(reasoned, delta), Responses!Not(it)}
    BY DEF Responses!push_reasoning_delta, r
  <2>. QED BY <2>2, <2>3, <2>4, MadeStep, NotStep, QuietNone
<1>2. ItemStep(Responses!finish_reasoning_text(it, f))
  <2>1. Responses!finish_reasoning_text(it, f) \in {Responses!Made(it, << >>), Responses!Not(it)}
    BY DEF Responses!finish_reasoning_text
  <2>. QED BY <2>1, MadeStep, NotStep, QuietNone
<1>. QED BY <1>1, <1>2

LEMMA ArgumentsOps == ASSUME NEW it, ItemHolds(it), NEW f
  PROVE /\ ItemStep(Responses!push_arguments_delta(it, f))
        /\ ItemStep(Responses!item_finish_arguments(it, f))
<1>1. ItemStep(Responses!push_arguments_delta(it, f))
  <2>. DEFINE next == [it EXCEPT !.arguments = @ \o f.text]
              delta == <<Responses!BlockDelta(Responses!item_block_id(it.id), "Json", f.text)>>
  <2>1. ItemHolds(next) /\ Quiet(delta) BY KeepsTexts, QuietResponses
  <2>2. Responses!push_arguments_delta(it, f) \in {Responses!Made(next, delta), Responses!Not(it)}
    BY DEF Responses!push_arguments_delta
  <2>. QED BY <2>1, <2>2, MadeStep, NotStep
<1>2. ItemStep(Responses!item_finish_arguments(it, f))
  <2>. DEFINE block == Responses!item_block_id(it.id)
              late == it.arguments = Responses!None /\ f.text # Responses!None
              input == IF f.text = Responses!None THEN Responses!EmptyObject ELSE f.text
              next == [it EXCEPT !.arguments = f.text, !.input_available = TRUE]
              given == IF late THEN <<Responses!BlockDelta(block, "Json", f.text)>> ELSE << >>
              available == <<Responses!ToolInputAvailable(block, input)>>
  <2>1. ItemHolds(next) BY DEF ItemHolds
  <2>2. Quiet(given) /\ Quiet(available) BY QuietResponses, QuietNone
  <2>3. Quiet(given \o available) BY <2>2, QuietJoined
  <2>4. Responses!item_finish_arguments(it, f)
            \in {Responses!Made(next, given \o available), Responses!Not(it)}
    BY DEF Responses!item_finish_arguments
  <2>. QED BY <2>1, <2>3, <2>4, MadeStep, NotStep
<1>. QED BY <1>1, <1>2

LEMMA ItemEnds == ASSUME NEW it, ItemHolds(it), NEW v
  PROVE ItemStep(Responses!item_finish_item(it, v))
<1>. DEFINE block == Responses!item_block_id(it.id)
            shown == IF Responses!IsEmptyText(it.raw) THEN Responses!replay(it.summary, block) ELSE << >>
            signed == IF v.signature = Responses!None THEN << >>
                      ELSE <<Responses!BlockDelta(block, "ReasoningSignature", v.signature)>>
            stopped == <<Responses!BlockStop(block)>>
            next == [it EXCEPT !.done_item = v]
            events == CASE it.type = "reasoning"     -> Responses!ReasoningEnds(it, v)
                        [] it.type = "function_call" -> stopped
                        [] OTHER                     -> << >>
<1>1. Quiet(shown) BY ReplayQuiet, QuietNone DEF ItemHolds
<1>2. Quiet(signed) /\ Quiet(stopped) BY QuietResponses, QuietNone
<1>3. Quiet(Responses!ReasoningEnds(it, v))
  <2>1. Responses!ReasoningEnds(it, v) = (shown \o signed) \o stopped BY DEF Responses!ReasoningEnds
  <2>. QED BY <1>1, <1>2, <2>1, QuietJoined
<1>4. Quiet(events) BY <1>2, <1>3, QuietNone
<1>5. ItemHolds(next) BY KeepsTexts
<1>6. Responses!item_finish_item(it, v) \in {Responses!Made(next, events), Responses!Not(it)}
  BY DEF Responses!item_finish_item
<1>. QED BY <1>4, <1>5, <1>6, MadeStep, NotStep

-----------------------------------------------------------------------------
(***************************************************************************)
(* The Responses protocol: what its handlers yield.                        *)
(***************************************************************************)
(* What translate makes of a normalizer that is not terminal. *)
Translated(n, r) ==
    /\ r.ok \in BOOLEAN
    /\ ~r.ok => ~r.n.terminal
    /\ r.ok => EndsOnce(r.events) /\ (r.n.terminal \/ Quiet(r.events))

(* The same for a handler of the Responses protocol, which leaves the count alone. *)
ResponsesStep(n, r) ==
    /\ ResponsesHolds(r.n) /\ Translated(n, r)
    /\ r.n.next_sequence = n.next_sequence

(* A handler that refuses, that yields events, that ends the message, or that
   passes an event to an item. *)
LEMMA RefusesStep == ASSUME NEW n, ResponsesHolds(n), ~n.terminal
  PROVE ResponsesStep(n, Responses!Refuses(n))
<1>1. /\ Responses!Refuses(n).n = n /\ Responses!Refuses(n).ok = FALSE
  BY DEF Responses!Refuses
<1>. QED BY <1>1 DEF ResponsesStep, Translated

LEMMA YieldsStep == ASSUME NEW n, NEW m, ResponsesHolds(m), m.next_sequence = n.next_sequence,
                           NEW events, Quiet(events)
  PROVE ResponsesStep(n, Responses!Yields(m, events))
<1>1. /\ Responses!Yields(m, events).n = m /\ Responses!Yields(m, events).ok = TRUE
      /\ Responses!Yields(m, events).events = events
  BY DEF Responses!Yields
<1>. QED BY <1>1, QuietEnds DEF ResponsesStep, Translated

LEMMA LastStep == ASSUME NEW n, NEW m, ResponsesHolds(m), m.next_sequence = n.next_sequence, m.terminal,
                         NEW events, EndsOnce(events)
  PROVE ResponsesStep(n, Responses!Yields(m, events))
<1>1. /\ Responses!Yields(m, events).n = m /\ Responses!Yields(m, events).ok = TRUE
      /\ Responses!Yields(m, events).events = events
  BY DEF Responses!Yields
<1>. QED BY <1>1 DEF ResponsesStep, Translated

LEMMA ThroughStep == ASSUME NEW n, ResponsesHolds(n), ~n.terminal, NEW index, NEW r, ItemStep(r)
  PROVE ResponsesStep(n, Responses!Through(n, index, r))
<1>. DEFINE next == [n EXCEPT !.items[index] = r.x]
<1>1. ResponsesHolds(next) /\ next.next_sequence = n.next_sequence
  BY DEF ResponsesHolds, ItemStep
<1>2. Responses!Through(n, index, r) \in {Responses!Yields(next, r.events), Responses!Refuses(n)}
  BY DEF Responses!Through
<1>. QED BY <1>1, <1>2, YieldsStep, RefusesStep DEF ItemStep

(* Every handler of the Responses protocol. *)
LEMMA ItemSteps == ASSUME NEW n, ResponsesHolds(n), ~n.terminal, NEW f
  PROVE /\ ResponsesStep(n, Responses!start_content(n, f))
        /\ ResponsesStep(n, Responses!push_message_delta(n, f))
        /\ ResponsesStep(n, Responses!finish_message_text(n, f))
        /\ ResponsesStep(n, Responses!finish_content(n, f))
        /\ ResponsesStep(n, Responses!push_reasoning(n, f))
        /\ ResponsesStep(n, Responses!finish_reasoning(n, f))
        /\ ResponsesStep(n, Responses!push_arguments(n, f))
        /\ ResponsesStep(n, Responses!finish_arguments(n, f))
        /\ ResponsesStep(n, Responses!finish_item(n, f))
<1>. DEFINE it == n.items[f.index]
<1>1. ASSUME NEW id, Responses!item_mut(n, id, f.index) PROVE ItemHolds(it)
  BY <1>1 DEF Responses!item_mut, ResponsesHolds
<1>2. ResponsesStep(n, Responses!start_content(n, f))
  <2>1. CASE ~Responses!item_mut(n, f.id, f.index)
    BY <2>1, RefusesStep DEF Responses!start_content
  <2>2. CASE Responses!item_mut(n, f.id, f.index)
    <3>1. Responses!start_content(n, f) = Responses!Through(n, f.index, Responses!add_content_part(it, f))
      BY <2>2 DEF Responses!start_content
    <3>. QED BY <1>1, <2>2, <3>1, PartOps, ThroughStep
  <2>. QED BY <2>1, <2>2
<1>3. ResponsesStep(n, Responses!push_message_delta(n, f))
  <2>1. CASE ~Responses!item_mut(n, f.id, f.index)
    BY <2>1, RefusesStep DEF Responses!push_message_delta
  <2>2. CASE Responses!item_mut(n, f.id, f.index)
    <3>1. Responses!push_message_delta(n, f) = Responses!Through(n, f.index, Responses!item_push_message_delta(it, f))
      BY <2>2 DEF Responses!push_message_delta
    <3>. QED BY <1>1, <2>2, <3>1, PartOps, ThroughStep
  <2>. QED BY <2>1, <2>2
<1>4. ResponsesStep(n, Responses!finish_message_text(n, f))
  <2>1. CASE ~Responses!item_mut(n, f.id, f.index)
    BY <2>1, RefusesStep DEF Responses!finish_message_text
  <2>2. CASE Responses!item_mut(n, f.id, f.index)
    <3>1. Responses!finish_message_text(n, f) = Responses!Through(n, f.index, Responses!item_finish_message_text(it, f))
      BY <2>2 DEF Responses!finish_message_text
    <3>. QED BY <1>1, <2>2, <3>1, PartOps, ThroughStep
  <2>. QED BY <2>1, <2>2
<1>5. ResponsesStep(n, Responses!finish_content(n, f))
  <2>1. CASE ~Responses!item_mut(n, f.id, f.index)
    BY <2>1, RefusesStep DEF Responses!finish_content
  <2>2. CASE Responses!item_mut(n, f.id, f.index)
    <3>1. Responses!finish_content(n, f) = Responses!Through(n, f.index, Responses!finish_content_part(it, f))
      BY <2>2 DEF Responses!finish_content
    <3>. QED BY <1>1, <2>2, <3>1, PartOps, ThroughStep
  <2>. QED BY <2>1, <2>2
<1>6. ResponsesStep(n, Responses!push_reasoning(n, f))
  <2>1. CASE ~Responses!item_mut(n, f.id, f.index)
    BY <2>1, RefusesStep DEF Responses!push_reasoning
  <2>2. CASE Responses!item_mut(n, f.id, f.index)
    <3>1. Responses!push_reasoning(n, f) = Responses!Through(n, f.index, Responses!push_reasoning_delta(it, f))
      BY <2>2 DEF Responses!push_reasoning
    <3>. QED BY <1>1, <2>2, <3>1, ReasoningOps, ThroughStep
  <2>. QED BY <2>1, <2>2
<1>7. ResponsesStep(n, Responses!finish_reasoning(n, f))
  <2>1. CASE ~Responses!item_mut(n, f.id, f.index)
    BY <2>1, RefusesStep DEF Responses!finish_reasoning
  <2>2. CASE Responses!item_mut(n, f.id, f.index)
    <3>1. Responses!finish_reasoning(n, f) = Responses!Through(n, f.index, Responses!finish_reasoning_text(it, f))
      BY <2>2 DEF Responses!finish_reasoning
    <3>. QED BY <1>1, <2>2, <3>1, ReasoningOps, ThroughStep
  <2>. QED BY <2>1, <2>2
<1>8. ResponsesStep(n, Responses!push_arguments(n, f))
  <2>1. CASE ~Responses!item_mut(n, f.id, f.index)
    BY <2>1, RefusesStep DEF Responses!push_arguments
  <2>2. CASE Responses!item_mut(n, f.id, f.index)
    <3>1. Responses!push_arguments(n, f) = Responses!Through(n, f.index, Responses!push_arguments_delta(it, f))
      BY <2>2 DEF Responses!push_arguments
    <3>. QED BY <1>1, <2>2, <3>1, ArgumentsOps, ThroughStep
  <2>. QED BY <2>1, <2>2
<1>9. ResponsesStep(n, Responses!finish_arguments(n, f))
  <2>1. CASE ~Responses!item_mut(n, f.id, f.index)
    BY <2>1, RefusesStep DEF Responses!finish_arguments
  <2>2. CASE Responses!item_mut(n, f.id, f.index)
    <3>1. Responses!finish_arguments(n, f) = Responses!Through(n, f.index, Responses!item_finish_arguments(it, f))
      BY <2>2 DEF Responses!finish_arguments
    <3>. QED BY <1>1, <2>2, <3>1, ArgumentsOps, ThroughStep
  <2>. QED BY <2>1, <2>2
<1>10. ResponsesStep(n, Responses!finish_item(n, f))
  <2>1. CASE ~Responses!item_mut(n, f.item.id, f.index)
    BY <2>1, RefusesStep DEF Responses!finish_item
  <2>2. CASE Responses!item_mut(n, f.item.id, f.index)
    <3>1. Responses!finish_item(n, f)
            = Responses!Through(n, f.index, Responses!item_finish_item(it, f.item))
      BY <2>2 DEF Responses!finish_item
    <3>. QED BY <1>1, <2>2, <3>1, ItemEnds, ThroughStep
  <2>. QED BY <2>1, <2>2
<1>. QED BY <1>2, <1>3, <1>4, <1>5, <1>6, <1>7, <1>8, <1>9, <1>10

LEMMA StartItemStep == ASSUME NEW n, ResponsesHolds(n), ~n.terminal, NEW f,
                              IsSequence(f.item.raw), IsSequence(f.item.summary)
  PROVE ResponsesStep(n, Responses!start_item(n, f))
<1>. DEFINE r == Responses!item_start(f.item)
            next == [n EXCEPT !.items = Responses!With(@, f.index, r.x),
                              !.item_indices = Responses!With(@, f.item.id, f.index)]
            items == Responses!With(n.items, f.index, r.x)
<1>1. ItemHolds(r.x) /\ Quiet(r.events) BY ItemStarts DEF ItemStep
<1>. HIDE DEF r
<1>2. ASSUME NEW i \in DOMAIN items PROVE ItemHolds(items[i])
  <2>1. items = [y \in DOMAIN n.items \cup {f.index} |-> IF y = f.index THEN r.x ELSE n.items[y]]
    BY DEF Responses!With
  <2>. HIDE DEF items
  <2>2. items[i] = r.x \/ (i \in DOMAIN n.items /\ items[i] = n.items[i]) BY <2>1
  <2>. QED BY <2>2, <1>1 DEF ResponsesHolds
<1>3. /\ ResponsesHolds(next) /\ next.next_sequence = n.next_sequence
  <2>. HIDE DEF items
  <2>1. /\ {"terminal", "next_sequence", "items"} \subseteq DOMAIN next
        /\ next.next_sequence = n.next_sequence /\ next.items = items
    BY DEF ResponsesHolds, items
  <2>. QED BY <2>1, <1>2 DEF ResponsesHolds
<1>4. Responses!start_item(n, f) \in {Responses!Yields(next, r.events), Responses!Refuses(n)}
  BY DEF Responses!start_item, r
<1>. QED BY <1>1, <1>3, <1>4, YieldsStep, RefusesStep

LEMMA EndSteps == ASSUME NEW n, ResponsesHolds(n), ~n.terminal, NEW f
  PROVE /\ ResponsesStep(n, Responses!start_response(n, f))
        /\ ResponsesStep(n, Responses!finish_response(n, f))
        /\ ResponsesStep(n, Responses!fail_response(n, f))
        /\ ResponsesStep(n, Responses!Yields([n EXCEPT !.terminal = TRUE], <<Responses!ErrorEvent>>))
        /\ ResponsesStep(n, Responses!Yields(n, << >>))
        /\ ResponsesStep(n, Responses!Yields([n EXCEPT !.unmodeled_events = @ + 1], << >>))
<1>. DEFINE over == [n EXCEPT !.terminal = TRUE]
<1>1. EndsOnce(<<Responses!ErrorEvent>>)
  <2>1. Responses!ErrorEvent.e \in EventKinds BY DEF Responses!ErrorEvent, EventKinds
  <2>2. << >> \o <<Responses!ErrorEvent>> = <<Responses!ErrorEvent>> OBVIOUS
  <2>. QED BY <2>1, <2>2, QuietNone, EndOf
<1>2. ResponsesHolds(over) /\ over.terminal /\ over.next_sequence = n.next_sequence
  BY DEF ResponsesHolds
<1>3. ResponsesStep(n, Responses!Yields(over, <<Responses!ErrorEvent>>))
  BY <1>1, <1>2, LastStep
<1>4. ResponsesStep(n, Responses!start_response(n, f))
  <2>. DEFINE next == [n EXCEPT !.response_id = f.id]
  <2>1. ResponsesHolds(next) /\ next.next_sequence = n.next_sequence BY DEF ResponsesHolds
  <2>2. Responses!start_response(n, f)
            \in {Responses!Yields(next, <<Responses!MessageStart>>), Responses!Refuses(n)}
    BY DEF Responses!start_response
  <2>3. Quiet(<<Responses!MessageStart>>) BY QuietResponses
  <2>. QED BY <2>1, <2>2, <2>3, YieldsStep, RefusesStep
<1>5. ResponsesStep(n, Responses!finish_response(n, f))
  <2>. DEFINE next == [n EXCEPT !.items = << >>, !.item_indices = << >>, !.unmodeled_events = 0,
                                !.terminal = TRUE]
              last == Responses!MessageStop(f.t)
              events == <<Responses!Usage(f.usage), last>>
  <2>1. ResponsesHolds(next) /\ next.terminal /\ next.next_sequence = n.next_sequence
    BY DEF ResponsesHolds
  <2>2. EndsOnce(events)
    <3>1. last.e \in EventKinds BY DEF Responses!MessageStop, EventKinds
    <3>2. Responses!Usage(f.usage).e \in EventKinds \ Ends BY DEF Responses!Usage, EventKinds, Ends
    <3>. QED BY <3>1, <3>2, EndOfTwo
  <2>3. Responses!finish_response(n, f) \in {Responses!Yields(next, events), Responses!Refuses(n)}
    BY DEF Responses!finish_response
  <2>. QED BY <2>1, <2>2, <2>3, LastStep, RefusesStep
<1>6. ResponsesStep(n, Responses!fail_response(n, f))
  <2>1. Responses!fail_response(n, f)
            \in {Responses!Yields(over, <<Responses!ErrorEvent>>), Responses!Refuses(n)}
    BY DEF Responses!fail_response
  <2>. QED BY <1>3, <2>1, RefusesStep
<1>7. /\ ResponsesStep(n, Responses!Yields(n, << >>))
      /\ ResponsesStep(n, Responses!Yields([n EXCEPT !.unmodeled_events = @ + 1], << >>))
  <2>. DEFINE next == [n EXCEPT !.unmodeled_events = @ + 1]
  <2>1. ResponsesHolds(next) /\ next.next_sequence = n.next_sequence BY DEF ResponsesHolds
  <2>. QED BY <2>1, YieldsStep, QuietNone
<1>. QED BY <1>3, <1>4, <1>5, <1>6, <1>7

(* The events about one item. *)
ItemEvents == {"content_part.added", "text.delta", "text.done", "content_part.done", "reasoning.delta",
               "reasoning.done", "arguments.delta", "arguments.done", "output_item.done"}

(* The events of the Responses protocol. *)
WireEvents == ItemEvents \cup {"response.created", "response.in_progress", "output_item.added",
                               "completed", "incomplete", "failed", "error", "unknown", "garbage"}

(* An event of the Responses protocol, as far as the proof needs it. *)
EventHolds(f) ==
    /\ "t" \in DOMAIN f /\ f.t \in WireEvents
    /\ f.t = "output_item.added" =>
          "item" \in DOMAIN f /\ IsSequence(f.item.raw) /\ IsSequence(f.item.summary)

LEMMA WireStep == ASSUME NEW n, ResponsesHolds(n), ~n.terminal, NEW f, EventHolds(f), f.t # "garbage"
  PROVE ResponsesStep(n, Responses!translate_wire(n, f))
<1>1. CASE f.t \in ItemEvents
  <2>1. \/ Responses!translate_wire(n, f) \in
             {Responses!start_content(n, f), Responses!push_message_delta(n, f),
              Responses!finish_message_text(n, f), Responses!finish_content(n, f)}
        \/ Responses!translate_wire(n, f) \in
             {Responses!push_reasoning(n, f), Responses!finish_reasoning(n, f),
              Responses!push_arguments(n, f), Responses!finish_arguments(n, f),
              Responses!finish_item(n, f)}
    BY <1>1 DEF ItemEvents, Responses!translate_wire
  <2>. QED BY <2>1, ItemSteps
<1>2. CASE f.t = "output_item.added"
  <2>1. Responses!translate_wire(n, f) = Responses!start_item(n, f)
    BY <1>2 DEF Responses!translate_wire
  <2>. QED BY <1>2, <2>1, StartItemStep DEF EventHolds
<1>3. CASE f.t = "response.created"
  <2>1. Responses!translate_wire(n, f) = Responses!start_response(n, f)
    BY <1>3 DEF Responses!translate_wire
  <2>. QED BY <2>1, EndSteps
<1>4. CASE f.t = "response.in_progress"
  <2>1. Responses!translate_wire(n, f) \in {Responses!Yields(n, << >>), Responses!Refuses(n)}
    BY <1>4 DEF Responses!translate_wire
  <2>. QED BY <2>1, EndSteps, RefusesStep
<1>5. CASE f.t \in {"completed", "incomplete"}
  <2>1. Responses!translate_wire(n, f) = Responses!finish_response(n, f)
    BY <1>5 DEF Responses!translate_wire
  <2>. QED BY <2>1, EndSteps
<1>6. CASE f.t = "failed"
  <2>1. Responses!translate_wire(n, f) = Responses!fail_response(n, f)
    BY <1>6 DEF Responses!translate_wire
  <2>. QED BY <2>1, EndSteps
<1>7. CASE f.t = "error"
  <2>1. Responses!translate_wire(n, f)
          = Responses!Yields([n EXCEPT !.terminal = TRUE], <<Responses!ErrorEvent>>)
    BY <1>7 DEF Responses!translate_wire
  <2>. QED BY <2>1, EndSteps
<1>8. CASE f.t = "unknown"
  <2>1. Responses!translate_wire(n, f)
          = Responses!Yields([n EXCEPT !.unmodeled_events = @ + 1], << >>)
    BY <1>8 DEF Responses!translate_wire
  <2>. QED BY <2>1, EndSteps
<1>. QED BY <1>1, <1>2, <1>3, <1>4, <1>5, <1>6, <1>7, <1>8 DEF EventHolds, WireEvents

(* translate of the Responses protocol: an event it takes has the expected
   number, or none, and moves the count by one. *)
LEMMA ResponsesTranslate == ASSUME NEW n, ResponsesHolds(n), ~n.terminal, NEW f, EventHolds(f)
  PROVE /\ ResponsesHolds(Responses!translate(n, f).n)
        /\ Translated(n, Responses!translate(n, f))
        /\ Responses!translate(n, f).ok =>
              /\ f.number \in {Responses!Unnumbered, n.next_sequence}
              /\ Responses!translate(n, f).n.next_sequence = n.next_sequence + 1
<1>. DEFINE m == [n EXCEPT !.next_sequence = @ + 1]
            r == Responses!translate_wire(m, f)
<1>1. CASE n.terminal \/ f.t = "garbage" \/ ~Responses!validate_sequence(n, f.number)
  <2>1. Responses!translate(n, f) = Responses!Refuses(n) BY <1>1 DEF Responses!translate
  <2>2. ~Responses!Refuses(n).ok BY DEF Responses!Refuses
  <2>. QED BY <2>1, <2>2, RefusesStep DEF ResponsesStep
<1>2. CASE ~(n.terminal \/ f.t = "garbage" \/ ~Responses!validate_sequence(n, f.number))
  <2>1. Responses!translate(n, f) = r BY <1>2 DEF Responses!translate
  <2>2. ResponsesHolds(m) /\ ~m.terminal /\ m.next_sequence = n.next_sequence + 1
    BY DEF ResponsesHolds
  <2>3. ResponsesStep(m, r) BY <1>2, <2>2, WireStep
  <2>4. f.number \in {Responses!Unnumbered, n.next_sequence} BY <1>2 DEF Responses!validate_sequence
  <2>. QED BY <2>1, <2>2, <2>3, <2>4 DEF ResponsesStep, Translated
<1>. QED BY <1>1, <1>2

-----------------------------------------------------------------------------
(***************************************************************************)
(* The Responses protocol: what a provider writes.                         *)
(***************************************************************************)
LEMMA BesideHolds == ASSUME NEW e, NEW g, "t" \in DOMAIN e, e.t \in ItemEvents
  PROVE EventHolds(Responses!Beside(e, g))
<1>1. "t" \in DOMAIN Responses!Beside(e, g) /\ Responses!Beside(e, g).t = e.t BY DEF Responses!Beside
<1>. QED BY <1>1 DEF EventHolds, WireEvents, ItemEvents

(* What repeats an item, well or badly. *)
LEMMA RepetitionsHold == ASSUME NEW s, NEW i, NEW e \in Responses!Repetitions(s, i) PROVE EventHolds(e)
<1>. DEFINE v == Responses!Item(s, i)
            on == [id |-> v.id, index |-> i]
            grown(c) == IF v.content[c].kind \in Responses!PartKinds THEN v.content[c]
                        ELSE [v.content[c] EXCEPT !.text = @ \o Responses!Fresh(s)]
            inputs == {v.arguments} \cup (IF v.arguments = Responses!None THEN {<<Responses!Whole>>} ELSE {})
            items == {v} \cup (IF v.type = "reasoning" /\ v.signature = Responses!None
                                 THEN {[v EXCEPT !.signature = <<Responses!Whole>>]} ELSE {})
            S1 == {Responses!Beside([t |-> "text.done", content_index |-> c - 1, kind |-> v.content[c].kind,
                                     text |-> v.content[c].text], on) : c \in DOMAIN v.content}
            S2 == {Responses!Beside([t |-> "content_part.done", content_index |-> c - 1, part |-> grown(c)], on) :
                      c \in DOMAIN v.content}
            S3 == {Responses!Beside([t |-> "reasoning.done", summary |-> FALSE, part_index |-> c - 1,
                                     text |-> v.raw[c]], on) : c \in DOMAIN v.raw}
            S4 == {Responses!Beside([t |-> "reasoning.done", summary |-> TRUE, part_index |-> c - 1,
                                     text |-> v.summary[c]], on) : c \in DOMAIN v.summary}
            S5 == {Responses!Beside([t |-> "arguments.done", text |-> x], on) : x \in inputs}
            S6 == {[t |-> "output_item.done", index |-> i, item |-> x] : x \in items}
<1>. HIDE DEF on
<1>1. e \in S1 \/ e \in S2 \/ e \in S3 \/ e \in S4 \/ e \in S5 \/ e \in S6
  BY DEF Responses!Repetitions, on
<1>2. CASE e \in S1
  <2>1. PICK c \in DOMAIN v.content : e = Responses!Beside([t |-> "text.done", content_index |-> c - 1, kind |-> v.content[c].kind,
                                     text |-> v.content[c].text], on)
    BY <1>2
  <2>. QED BY <2>1, BesideHolds DEF ItemEvents
<1>3. CASE e \in S2
  <2>1. PICK c \in DOMAIN v.content : e = Responses!Beside([t |-> "content_part.done", content_index |-> c - 1, part |-> grown(c)], on)
    BY <1>3
  <2>. QED BY <2>1, BesideHolds DEF ItemEvents
<1>4. CASE e \in S3
  <2>1. PICK c \in DOMAIN v.raw : e = Responses!Beside([t |-> "reasoning.done", summary |-> FALSE, part_index |-> c - 1,
                                     text |-> v.raw[c]], on)
    BY <1>4
  <2>. QED BY <2>1, BesideHolds DEF ItemEvents
<1>5. CASE e \in S4
  <2>1. PICK c \in DOMAIN v.summary : e = Responses!Beside([t |-> "reasoning.done", summary |-> TRUE, part_index |-> c - 1,
                                     text |-> v.summary[c]], on)
    BY <1>5
  <2>. QED BY <2>1, BesideHolds DEF ItemEvents
<1>6. CASE e \in S5
  <2>1. PICK x \in inputs : e = Responses!Beside([t |-> "arguments.done", text |-> x], on)
    BY <1>6
  <2>. QED BY <2>1, BesideHolds DEF ItemEvents
<1>7. CASE e \in S6 BY <1>7 DEF EventHolds, WireEvents, ItemEvents
<1>. QED BY <1>1, <1>2, <1>3, <1>4, <1>5, <1>6, <1>7

LEMMA BadRepetitionsHold == ASSUME NEW s, NEW i, NEW e \in Responses!BadRepetitions(s, i)
  PROVE EventHolds(e)
<1>. DEFINE v == Responses!Item(s, i)
            on == [id |-> v.id, index |-> i]
            known == {c \in DOMAIN v.content : v.content[c].kind \in Responses!PartKinds}
            texts == {Responses!Wrong, Responses!None}
            parts == {[kind |-> k, text |-> x] : k \in Responses!PartKinds, x \in texts}
            S1 == {Responses!Beside([t |-> "text.done", content_index |-> c - 1, kind |-> k, text |-> x], on) :
                      c \in known, k \in Responses!PartKinds, x \in texts}
            S2 == {Responses!Beside([t |-> "content_part.done", content_index |-> c - 1, part |-> p], on) :
                      c \in known, p \in parts}
            ev(z, c) == Responses!Beside([t |-> "reasoning.done", summary |-> z, part_index |-> c,
                                          text |-> Responses!Wrong], on)
            S3 == {ev(z, c) : z \in BOOLEAN, c \in 0..(MaxParts - 1)}
            S4 == {Responses!Beside([t |-> "arguments.done", text |-> Responses!Wrong], on)}
            S5 == {[t |-> "output_item.done", index |-> i, item |-> x] : x \in Responses!Garbled(v)}
<1>1. Responses!BadRepetitions(s, i) = S1 \cup S2 \cup S3 \cup S4 \cup S5
  BY DEF Responses!BadRepetitions
<1>. HIDE DEF on, known, parts, texts, v
<1>2. CASE e \in S1
  <2>1. PICK c \in known, k \in Responses!PartKinds, x \in texts :
            e = Responses!Beside([t |-> "text.done", content_index |-> c - 1, kind |-> k, text |-> x], on)
    BY <1>2
  <2>. QED BY <2>1, BesideHolds DEF ItemEvents
<1>3. CASE e \in S2
  <2>1. PICK c \in known, p \in parts :
            e = Responses!Beside([t |-> "content_part.done", content_index |-> c - 1, part |-> p], on)
    BY <1>3
  <2>. QED BY <2>1, BesideHolds DEF ItemEvents
<1>4. CASE e \in S3
  <2>1. \A z, c : EventHolds(ev(z, c)) BY BesideHolds DEF ItemEvents
  <2>. HIDE DEF ev
  <2>. QED BY <1>4, <2>1
<1>5. CASE e \in S4 BY <1>5, BesideHolds DEF ItemEvents
<1>6. CASE e \in S5 BY <1>6 DEF EventHolds, WireEvents, ItemEvents
<1>. HIDE DEF S1, S2, S3, S4, S5
<1>. QED BY <1>1, <1>2, <1>3, <1>4, <1>5, <1>6

(* What continues an item, well or badly. *)
LEMMA PiecesHold == ASSUME NEW s, NEW i, NEW e \in Responses!PieceEvents(s, i) PROVE EventHolds(e)
<1>. DEFINE v == Responses!Item(s, i)
            on == [id |-> v.id, index |-> i]
            fresh == Responses!Fresh(s)
            places == {Len(v.content)} \cap 0..(MaxParts - 1)
            parts == {[kind |-> k, text |-> x] : k \in Responses!PartKinds, x \in {Responses!None, fresh}}
                     \cup {[kind |-> "audio", text |-> <<Responses!UnknownType>> \o fresh]}
            open == {d \in DOMAIN v.content : v.content[d].kind \in Responses!PartKinds}
            S1 == {Responses!Beside([t |-> "content_part.added", content_index |-> c, part |-> p], on) :
                      c \in places, p \in parts}
            S2 == {Responses!Beside([t |-> "text.delta", content_index |-> c - 1, kind |-> v.content[c].kind,
                                     text |-> fresh], on) : c \in open}
            ev(z, c) == Responses!Beside([t |-> "reasoning.delta", summary |-> z, part_index |-> c,
                                          text |-> fresh], on)
            S3 == {ev(z, c) : z \in BOOLEAN, c \in 0..(MaxParts - 1)}
            S4 == {Responses!Beside([t |-> "arguments.delta", text |-> fresh], on)}
<1>1. Responses!PieceEvents(s, i) \in {S1 \cup S2, S3, S4, {}}
  <2>1. CASE v.type = "message" BY <2>1 DEF Responses!PieceEvents
  <2>2. CASE v.type = "reasoning" BY <2>2 DEF Responses!PieceEvents
  <2>3. CASE v.type = "function_call" BY <2>3 DEF Responses!PieceEvents
  <2>4. CASE v.type \notin {"message", "reasoning", "function_call"} BY <2>4 DEF Responses!PieceEvents
  <2>. HIDE DEF S1, S2, S3, S4, v
  <2>. QED BY <2>1, <2>2, <2>3, <2>4
<1>. HIDE DEF on, places, parts, open, v, fresh
<1>2. CASE e \in S1
  <2>1. PICK c \in places, p \in parts :
            e = Responses!Beside([t |-> "content_part.added", content_index |-> c, part |-> p], on)
    BY <1>2
  <2>. QED BY <2>1, BesideHolds DEF ItemEvents
<1>3. CASE e \in S2
  <2>1. PICK c \in open :
            e = Responses!Beside([t |-> "text.delta", content_index |-> c - 1, kind |-> v.content[c].kind,
                                  text |-> fresh], on)
    BY <1>3
  <2>. QED BY <2>1, BesideHolds DEF ItemEvents
<1>4. CASE e \in S3
  <2>1. \A z, c : EventHolds(ev(z, c)) BY BesideHolds DEF ItemEvents
  <2>. HIDE DEF ev
  <2>. QED BY <1>4, <2>1
<1>5. CASE e \in S4 BY <1>5, BesideHolds DEF ItemEvents
<1>. HIDE DEF S1, S2, S3, S4
<1>. QED BY <1>1, <1>2, <1>3, <1>4, <1>5

LEMMA BadPiecesHold == ASSUME NEW s, NEW i, NEW e \in Responses!BadPieces(s, i) PROVE EventHolds(e)
<1>. DEFINE on == [id |-> i + 1, index |-> i]
            fresh == Responses!Fresh(s)
            S1 == {Responses!Beside([t |-> "text.delta", content_index |-> c, kind |-> "refusal",
                                     text |-> fresh], on) : c \in 0..(MaxParts - 1)}
            e2 == Responses!Beside([t |-> "content_part.added", content_index |-> 0,
                                    part |-> [kind |-> "refusal", text |-> Responses!None]], on)
            e3 == Responses!Beside([t |-> "reasoning.delta", summary |-> FALSE, part_index |-> 0,
                                    text |-> fresh], on)
            e4 == Responses!Beside([t |-> "arguments.delta", text |-> fresh], on)
            e5 == [t |-> "arguments.delta", id |-> 1, index |-> 1, text |-> fresh]
<1>. HIDE DEF on
<1>1. e \in S1 \/ e = e2 \/ e = e3 \/ e = e4 \/ e = e5 BY DEF Responses!BadPieces, on
<1>2. CASE e \in S1
  <2>1. PICK c \in 0..(MaxParts - 1) :
            e = Responses!Beside([t |-> "text.delta", content_index |-> c, kind |-> "refusal",
                                  text |-> fresh], on)
    BY <1>2
  <2>. QED BY <2>1, BesideHolds DEF ItemEvents
<1>3. CASE e = e2 BY <1>3, BesideHolds DEF ItemEvents
<1>4. CASE e = e3 BY <1>4, BesideHolds DEF ItemEvents
<1>5. CASE e = e4 BY <1>5, BesideHolds DEF ItemEvents
<1>6. CASE e = e5 BY <1>6 DEF EventHolds, WireEvents, ItemEvents
<1>. QED BY <1>1, <1>2, <1>3, <1>4, <1>5, <1>6

(* What starts an item. *)
LEMMA NewItemsHold == ASSUME NEW s, NEW id, NEW v \in Responses!NewItems(s, id)
  PROVE IsSequence(v.raw) /\ IsSequence(v.summary)
<1>1. v.raw \in {<< >>, <<Responses!Fresh(s)>>} /\ v.summary = << >>
  BY DEF Responses!NewItems, Responses!NoItem
<1>2. <<Responses!Fresh(s)>> \in Seq({Responses!Fresh(s)}) OBVIOUS
<1>. QED BY <1>1, <1>2, QuietNone, SequenceOf

LEMMA AddedHold == ASSUME NEW i, NEW v, IsSequence(v.raw), IsSequence(v.summary),
                          NEW e, e = [t |-> "output_item.added", index |-> i, item |-> v]
  PROVE EventHolds(e)
BY DEF EventHolds, WireEvents

(* All events of a provider of the Responses protocol. *)
LEMMA EventsHold == ASSUME NEW s, NEW e \in Responses!Events(s) PROVE EventHolds(e)
<1>. DEFINE begun == [t |-> "response.created", id |-> 1, valid |-> TRUE]
            failed == [t |-> "failed", id |-> 1, valid |-> TRUE]
            going == [t |-> "response.in_progress", id |-> 1, valid |-> TRUE]
            last(status) == Responses!Terminal(status, 1, Responses!Output(s))
<1>1. CASE e \in {begun, failed, [t |-> "error"], last("completed"), last("incomplete"),
                  [t |-> "unknown"], going}
  BY <1>1 DEF EventHolds, WireEvents, Responses!Terminal
<1>2. CASE \E i \in Responses!Started(s) : e \in Responses!Repetitions(s, i)
  BY <1>2, RepetitionsHold
<1>3. CASE \E i \in Responses!Started(s) : e \in Responses!PieceEvents(s, i)
  BY <1>3, PiecesHold
<1>4. CASE \E i \in Indices \ Responses!Started(s) : \E v \in Responses!NewItems(s, i + 1) :
              e = [t |-> "output_item.added", index |-> i, item |-> v]
  BY <1>4, NewItemsHold, AddedHold
<1>. HIDE DEF begun, failed, going, last
<1>5. \/ e \in {begun, failed, [t |-> "error"], last("completed"), last("incomplete"),
                [t |-> "unknown"], going}
      \/ \E i \in Responses!Started(s) : e \in Responses!Repetitions(s, i)
      \/ \E i \in Responses!Started(s) : e \in Responses!PieceEvents(s, i)
      \/ \E i \in Indices \ Responses!Started(s) : \E v \in Responses!NewItems(s, i + 1) :
              e = [t |-> "output_item.added", index |-> i, item |-> v]
  <2>. DEFINE U1 == UNION {Responses!Repetitions(s, i) : i \in Responses!Started(s)}
              U2 == UNION {Responses!PieceEvents(s, i) : i \in Responses!Started(s)}
              U3 == UNION {{[t |-> "output_item.added", index |-> i, item |-> v] :
                               v \in Responses!NewItems(s, i + 1)} : i \in Indices \ Responses!Started(s)}
              S1 == {begun, failed, [t |-> "error"], last("completed"), last("incomplete")}
              S2 == {[t |-> "unknown"], going}
  <2>1. Responses!Events(s) \subseteq S1 \cup S2 \cup U1 \cup U2 \cup U3
    <3>1. Responses!Events(s) = S1 \cup S2 \cup U1 \cup
                                   (IF s.pieces >= MaxItemPieces THEN {} ELSE U2 \cup U3)
      BY DEF Responses!Events, begun, failed, going, last
    <3>. HIDE DEF S1, S2, U1, U2, U3
    <3>. QED BY <3>1
  <2>2. e \in U1 => \E i \in Responses!Started(s) : e \in Responses!Repetitions(s, i) OBVIOUS
  <2>3. e \in U2 => \E i \in Responses!Started(s) : e \in Responses!PieceEvents(s, i) OBVIOUS
  <2>4. e \in U3 => \E i \in Indices \ Responses!Started(s) : \E v \in Responses!NewItems(s, i + 1) :
                        e = [t |-> "output_item.added", index |-> i, item |-> v]
    OBVIOUS
  <2>5. e \in S1 \cup S2 => e \in {begun, failed, [t |-> "error"], last("completed"), last("incomplete"),
                                  [t |-> "unknown"], going}
    OBVIOUS
  <2>. HIDE DEF S1, S2, U1, U2, U3
  <2>. QED BY <2>1, <2>2, <2>3, <2>4, <2>5
<1>. QED BY <1>1, <1>2, <1>3, <1>4, <1>5

LEMMA BadEventsHold == ASSUME NEW s, NEW e \in Responses!BadEvents(s) PROVE EventHolds(e)
<1>. DEFINE strange == [Responses!NoItem EXCEPT !.id = 3, !.type = "message",
                                                !.content = <<Responses!NoPart>>]
            outputs == {Responses!Terminal("completed", 1, o) : o \in Responses!WrongOutputs(s)}
            others == {[t |-> x, id |-> 2, valid |-> TRUE] : x \in {"response.in_progress", "failed"}}
<1>1. CASE \/ e \in {[t |-> "garbage"], [t |-> "response.created", id |-> 1, valid |-> FALSE]}
           \/ e \in others \/ e \in outputs
           \/ e = Responses!Terminal("completed", 2, Responses!Output(s))
  BY <1>1 DEF EventHolds, WireEvents, Responses!Terminal
<1>2. CASE \E i \in Responses!Started(s) : e \in Responses!BadRepetitions(s, i)
  BY <1>2, BadRepetitionsHold
<1>3. CASE \E i \in Indices : \E v \in Responses!NewItems(s, 1) :
              e = [t |-> "output_item.added", index |-> i, item |-> v]
  BY <1>3, NewItemsHold, AddedHold
<1>4. CASE \E i \in Indices : e = [t |-> "output_item.added", index |-> i, item |-> strange]
  <2>1. IsSequence(strange.raw) /\ IsSequence(strange.summary) BY QuietNone DEF Responses!NoItem
  <2>. QED BY <1>4, <2>1, AddedHold
<1>5. CASE \E i \in Indices : e \in Responses!BadPieces(s, i)
  BY <1>5, BadPiecesHold
<1>. HIDE DEF strange, outputs, others
<1>6. \/ e \in {[t |-> "garbage"], [t |-> "response.created", id |-> 1, valid |-> FALSE]}
      \/ e \in others \/ e \in outputs
      \/ e = Responses!Terminal("completed", 2, Responses!Output(s))
      \/ \E i \in Responses!Started(s) : e \in Responses!BadRepetitions(s, i)
      \/ \E i \in Indices : \E v \in Responses!NewItems(s, 1) :
              e = [t |-> "output_item.added", index |-> i, item |-> v]
      \/ \E i \in Indices : e = [t |-> "output_item.added", index |-> i, item |-> strange]
      \/ \E i \in Indices : e \in Responses!BadPieces(s, i)
  <2>. DEFINE U1 == UNION {Responses!BadRepetitions(s, i) : i \in Responses!Started(s)}
              U2 == UNION {Responses!BadPieces(s, i) : i \in Indices}
              U3 == {[t |-> "output_item.added", index |-> i, item |-> v] :
                        i \in Indices, v \in Responses!NewItems(s, 1) \cup {strange}}
              S1 == {[t |-> "garbage"], [t |-> "response.created", id |-> 1, valid |-> FALSE]}
              S2 == {Responses!Terminal("completed", 2, Responses!Output(s))}
  <2>1. Responses!BadEvents(s) = S1 \cup others \cup S2 \cup outputs \cup U1 \cup U3 \cup U2
    BY DEF Responses!BadEvents, strange, outputs, others
  <2>2. e \in U1 => \E i \in Responses!Started(s) : e \in Responses!BadRepetitions(s, i) OBVIOUS
  <2>3. e \in U2 => \E i \in Indices : e \in Responses!BadPieces(s, i) OBVIOUS
  <2>4. e \in U3 => \E i \in Indices, v \in Responses!NewItems(s, 1) \cup {strange} :
                        e = [t |-> "output_item.added", index |-> i, item |-> v]
    OBVIOUS
  <2>5. e \in U3 => \/ \E i \in Indices : \E v \in Responses!NewItems(s, 1) :
                           e = [t |-> "output_item.added", index |-> i, item |-> v]
                    \/ \E i \in Indices : e = [t |-> "output_item.added", index |-> i, item |-> strange]
    <3>. HIDE DEF U3
    <3>. QED BY <2>4
  <2>. HIDE DEF U1, U2, U3
  <2>. QED BY <2>1, <2>2, <2>3, <2>5
<1>. QED BY <1>1, <1>2, <1>3, <1>4, <1>5, <1>6

(* Numbered events carry the number of events before them. *)
LEMMA ResponsesFrames == ASSUME NEW s, NEW numbered, NEW orderly,
                                NEW f \in Responses!Frames(s, numbered, orderly)
  PROVE EventHolds(f) /\ (numbered => f.number = s.sent)
<1>. DEFINE number == [number |-> IF numbered THEN s.sent ELSE Responses!Unnumbered]
<1>1. PICK e \in Responses!Events(s) \cup Responses!BadEvents(s) : f = Responses!Beside(number, e)
  BY DEF Responses!Frames
<1>2. EventHolds(e) BY EventsHold, BadEventsHold
<1>3. /\ DOMAIN f = {"number"} \cup DOMAIN e
      /\ \A x \in DOMAIN f : f[x] = IF x = "number" THEN number["number"] ELSE e[x]
  BY <1>1 DEF Responses!Beside
<1>. QED BY <1>2, <1>3 DEF EventHolds

-----------------------------------------------------------------------------
(***************************************************************************)
(* The Anthropic protocol.                                                 *)
(***************************************************************************)
LEMMA QuietAnthropic == ASSUME NEW id, NEW sort, NEW call, NEW text
  PROVE /\ Quiet(<<Anthropic!BlockStart(id, sort, call, text)>>) /\ Quiet(<<Anthropic!BlockDelta(id, sort, text)>>)
        /\ Quiet(<<Anthropic!BlockStop(id)>>) /\ Quiet(<<Anthropic!ToolInputAvailable(id, text)>>)
        /\ Quiet(<<Anthropic!MessageStart>>) /\ Quiet(<<Anthropic!Usage(text)>>)
        /\ EndsOnce(<<Anthropic!MessageStop(text)>>) /\ EndsOnce(<<Anthropic!ErrorEvent>>)
<1>1. /\ Anthropic!BlockStart(id, sort, call, text).e \in EventKinds \ Ends
      /\ Anthropic!BlockDelta(id, sort, text).e \in EventKinds \ Ends
      /\ Anthropic!BlockStop(id).e \in EventKinds \ Ends
      /\ Anthropic!ToolInputAvailable(id, text).e \in EventKinds \ Ends
      /\ Anthropic!MessageStart.e \in EventKinds \ Ends
      /\ Anthropic!Usage(text).e \in EventKinds \ Ends
      /\ Anthropic!MessageStop(text).e \in EventKinds /\ Anthropic!ErrorEvent.e \in EventKinds
  BY DEF Anthropic!BlockStart, Anthropic!BlockDelta, Anthropic!BlockStop, Anthropic!ToolInputAvailable,
         Anthropic!MessageStart, Anthropic!Usage, Anthropic!MessageStop, Anthropic!ErrorEvent, EventKinds, Ends
<1>. QED BY <1>1, QuietOne, EndOfOne

AnthropicStep(n, r) == AnthropicHolds(r.n) /\ Translated(n, r)

(* A handler that refuses, or yields events. *)
LEMMA AnthropicRefuses == ASSUME NEW n, AnthropicHolds(n), ~n.terminal
  PROVE AnthropicStep(n, Anthropic!Refuses(n))
<1>1. Anthropic!Refuses(n).n = n /\ Anthropic!Refuses(n).ok = FALSE BY DEF Anthropic!Refuses
<1>. QED BY <1>1 DEF AnthropicStep, Translated

LEMMA AnthropicYields == ASSUME NEW n, NEW m, AnthropicHolds(m), NEW events, EndsOnce(events),
                                m.terminal \/ Quiet(events)
  PROVE AnthropicStep(n, Anthropic!Yields(m, events))
<1>1. /\ Anthropic!Yields(m, events).n = m /\ Anthropic!Yields(m, events).ok = TRUE
      /\ Anthropic!Yields(m, events).events = events
  BY DEF Anthropic!Yields
<1>. QED BY <1>1 DEF AnthropicStep, Translated

(* The events of the Anthropic protocol. *)
AnthropicTypes == {"message_start", "content_block_start", "content_block_delta", "content_block_stop",
                   "message_delta", "message_stop", "ping", "error", "garbage"}

(* Every handler of the Anthropic protocol. *)
LEMMA AnthropicTranslate == ASSUME NEW n, AnthropicHolds(n), ~n.terminal, NEW f, f.t \in AnthropicTypes
  PROVE AnthropicStep(n, Anthropic!translate(n, f))
<1>1. AnthropicStep(n, Anthropic!message_start(n, f))
  <2>. DEFINE u == Anthropic!incremental(n, f.usage)
              next == [n EXCEPT !.message_started = TRUE, !.usage = u.previous]
              events == <<Anthropic!MessageStart, Anthropic!Usage(u.n)>>
  <2>1. Quiet(events)
    <3>1. /\ Anthropic!MessageStart.e \in EventKinds \ Ends
          /\ Anthropic!Usage(u.n).e \in EventKinds \ Ends
      BY DEF Anthropic!MessageStart, Anthropic!Usage, EventKinds, Ends
    <3>. QED BY <3>1, QuietTwo
  <2>2. AnthropicHolds(next) BY DEF AnthropicHolds
  <2>3. Anthropic!message_start(n, f) \in {Anthropic!Yields(next, events), Anthropic!Refuses(n)}
    BY DEF Anthropic!message_start
  <2>. QED BY <2>1, <2>2, <2>3, QuietEnds, AnthropicYields, AnthropicRefuses
<1>2. AnthropicStep(n, Anthropic!start_block(n, f))
  <2>. DEFINE id == Anthropic!block_id(f.index)
              block == [kind |-> f.kind, initial_input |-> f.input, json |-> Anthropic!None,
                        saw_delta |-> FALSE, stopped |-> FALSE]
              next == [n EXCEPT !.blocks = Anthropic!With(@, f.index, block)]
              text == Anthropic!nonempty_delta(id, "Text", f.text)
              reasoning == Anthropic!nonempty_delta(id, "Reasoning", f.text)
              signature == Anthropic!nonempty_delta(id, "ReasoningSignature", f.text)
              begun == <<Anthropic!BlockStart(id, f.kind, f.call, f.raw)>>
              initial == CASE f.kind = "Text" -> text
                           [] f.kind = "Reasoning" -> reasoning \o signature
                           [] OTHER -> << >>
  <2>1. Quiet(text) /\ Quiet(reasoning) /\ Quiet(signature)
    BY QuietAnthropic, QuietNone DEF Anthropic!nonempty_delta
  <2>2. Quiet(reasoning \o signature) BY <2>1, QuietJoined
  <2>. HIDE DEF text, reasoning, signature
  <2>3. Quiet(initial) BY <2>1, <2>2, QuietNone
  <2>4. Quiet(begun) BY QuietAnthropic
  <2>5. Quiet(begun \o initial) BY <2>3, <2>4, QuietJoined
  <2>6. AnthropicHolds(next) BY DEF AnthropicHolds
  <2>. HIDE DEF begun, id
  <2>7. Anthropic!start_block(n, f) \in {Anthropic!Yields(next, begun \o initial), Anthropic!Refuses(n)}
    BY DEF Anthropic!start_block, begun, text, reasoning, signature, id
  <2>. QED BY <2>5, <2>6, <2>7, QuietEnds, AnthropicYields, AnthropicRefuses
<1>3. AnthropicStep(n, Anthropic!push_delta(n, f))
  <2>. DEFINE delta == <<Anthropic!BlockDelta(Anthropic!block_id(f.index), f.kind, f.text)>>
              next == IF f.kind = "Json"
                        THEN [n EXCEPT !.blocks[f.index].saw_delta = TRUE,
                                       !.blocks[f.index].json = @ \o f.text]
                        ELSE n
  <2>1. Quiet(delta) /\ AnthropicHolds(next) BY QuietAnthropic DEF AnthropicHolds
  <2>2. Anthropic!push_delta(n, f) \in {Anthropic!Yields(next, delta), Anthropic!Refuses(n)}
    BY DEF Anthropic!push_delta
  <2>. QED BY <2>1, <2>2, QuietEnds, AnthropicYields, AnthropicRefuses
<1>4. AnthropicStep(n, Anthropic!stop_block(n, f))
  <2>. DEFINE b == n.blocks[f.index]
              id == Anthropic!block_id(f.index)
              next == [n EXCEPT !.blocks[f.index].stopped = TRUE]
              input == IF b.saw_delta THEN b.json ELSE b.initial_input
              one == <<Anthropic!BlockStop(id)>>
              two == <<Anthropic!ToolInputAvailable(id, input), Anthropic!BlockStop(id)>>
  <2>1. Quiet(one) /\ Quiet(two)
    <3>1. /\ Anthropic!BlockStop(id).e \in EventKinds \ Ends
          /\ Anthropic!ToolInputAvailable(id, input).e \in EventKinds \ Ends
      BY DEF Anthropic!BlockStop, Anthropic!ToolInputAvailable, EventKinds, Ends
    <3>. QED BY <3>1, QuietOne, QuietTwo
  <2>2. AnthropicHolds(next) BY DEF AnthropicHolds
  <2>3. Anthropic!stop_block(n, f)
            \in {Anthropic!Yields(next, one), Anthropic!Yields(next, two), Anthropic!Refuses(n)}
    BY DEF Anthropic!stop_block
  <2>. QED BY <2>1, <2>2, <2>3, QuietEnds, AnthropicYields, AnthropicRefuses
<1>5. AnthropicStep(n, Anthropic!message_delta(n, f))
  <2>. DEFINE u == Anthropic!incremental(n, f.usage)
              next == [n EXCEPT !.stop_reason = IF f.stop_reason = Anthropic!Unset THEN @ ELSE f.stop_reason,
                                !.usage = u.previous]
              events == IF f.usage = Anthropic!Unreported THEN << >> ELSE <<Anthropic!Usage(u.n)>>
  <2>1. Quiet(events) BY QuietAnthropic, QuietNone
  <2>2. AnthropicHolds(next) BY DEF AnthropicHolds
  <2>3. Anthropic!message_delta(n, f) \in {Anthropic!Yields(next, events), Anthropic!Refuses(n)}
    BY DEF Anthropic!message_delta
  <2>. QED BY <2>1, <2>2, <2>3, QuietEnds, AnthropicYields, AnthropicRefuses
<1>6. /\ AnthropicStep(n, Anthropic!message_stop(n))
      /\ AnthropicStep(n, Anthropic!Yields([n EXCEPT !.terminal = TRUE], <<Anthropic!ErrorEvent>>))
      /\ AnthropicStep(n, Anthropic!Yields(n, << >>))
  <2>. DEFINE over == [n EXCEPT !.terminal = TRUE]
              last == <<Anthropic!MessageStop(IF n.stop_reason = Anthropic!Unset THEN "other" ELSE n.stop_reason)>>
  <2>1. AnthropicHolds(over) /\ over.terminal BY DEF AnthropicHolds
  <2>2. EndsOnce(last) /\ EndsOnce(<<Anthropic!ErrorEvent>>) BY QuietAnthropic
  <2>3. Anthropic!message_stop(n) \in {Anthropic!Yields(over, last), Anthropic!Refuses(n)}
    BY DEF Anthropic!message_stop
  <2>. QED BY <2>1, <2>2, <2>3, QuietNone, QuietEnds, AnthropicYields, AnthropicRefuses
<1>7. Anthropic!translate(n, f) \in
        {Anthropic!message_start(n, f), Anthropic!start_block(n, f), Anthropic!push_delta(n, f),
         Anthropic!stop_block(n, f), Anthropic!message_delta(n, f), Anthropic!message_stop(n),
         Anthropic!Yields(n, << >>), Anthropic!Refuses(n),
         Anthropic!Yields([n EXCEPT !.terminal = TRUE], <<Anthropic!ErrorEvent>>)}
  BY DEF Anthropic!translate, AnthropicTypes
<1>. QED BY <1>1, <1>2, <1>3, <1>4, <1>5, <1>6, <1>7, AnthropicRefuses

(* All events of a provider of the Anthropic protocol. *)
LEMMA AnthropicFrames == ASSUME NEW s, NEW f \in Anthropic!Frames(s) PROVE f.t \in AnthropicTypes
<1>1. ASSUME f \in Anthropic!Starts(s) PROVE f.t = "content_block_start"
  BY <1>1 DEF Anthropic!Starts
<1>2. ASSUME f \in Anthropic!Deltas(s) PROVE f.t = "content_block_delta"
  BY <1>2 DEF Anthropic!Deltas
<1>. DEFINE F1 == {[t |-> "message_start", role |-> r, usage |-> u] : r \in {"assistant", "user"}, u \in Counts}
            F2 == IF s.pieces < MaxPieces THEN Anthropic!Starts(s) \cup Anthropic!Deltas(s) ELSE {}
            F3 == {[t |-> "content_block_stop", index |-> i] : i \in Indices}
            F4 == {[t |-> "message_delta", stop_reason |-> r, usage |-> u] :
                      r \in {Anthropic!Unset, "end_turn"}, u \in Counts \cup {Anthropic!Unreported}}
            F5 == {[t |-> x] : x \in {"message_stop", "ping", "error", "garbage"}}
<1>3. Anthropic!Frames(s) = F1 \cup F2 \cup F3 \cup F4 \cup F5 BY DEF Anthropic!Frames
<1>4. f \in F1 => f.t = "message_start" OBVIOUS
<1>6. f \in F3 => f.t = "content_block_stop" OBVIOUS
<1>7. f \in F4 => f.t = "message_delta" OBVIOUS
<1>8. f \in F5 => f.t \in {"message_stop", "ping", "error", "garbage"} OBVIOUS
<1>5. f \in F2 => f \in Anthropic!Starts(s) \/ f \in Anthropic!Deltas(s) OBVIOUS
<1>. HIDE DEF F1, F2, F3, F4, F5
<1>. QED BY <1>1, <1>2, <1>3, <1>4, <1>5, <1>6, <1>7, <1>8 DEF AnthropicTypes

-----------------------------------------------------------------------------
(***************************************************************************)
(* The Chat protocol.                                                      *)
(***************************************************************************)
LEMMA QuietChat == ASSUME NEW id, NEW sort, NEW call, NEW text
  PROVE /\ Quiet(<<Chat!BlockStart(id, sort, call, text)>>) /\ Quiet(<<Chat!BlockDelta(id, sort, text)>>)
        /\ Quiet(<<Chat!BlockStop(id)>>) /\ Quiet(<<Chat!ToolInputAvailable(id, text)>>)
        /\ Quiet(<<Chat!MessageStart>>) /\ Quiet(<<Chat!Usage(text)>>)
        /\ EndsOnce(<<Chat!MessageStop(text)>>) /\ EndsOnce(<<Chat!ErrorEvent>>)
<1>1. /\ Chat!BlockStart(id, sort, call, text).e \in EventKinds \ Ends
      /\ Chat!BlockDelta(id, sort, text).e \in EventKinds \ Ends
      /\ Chat!BlockStop(id).e \in EventKinds \ Ends
      /\ Chat!ToolInputAvailable(id, text).e \in EventKinds \ Ends
      /\ Chat!MessageStart.e \in EventKinds \ Ends
      /\ Chat!Usage(text).e \in EventKinds \ Ends
      /\ Chat!MessageStop(text).e \in EventKinds /\ Chat!ErrorEvent.e \in EventKinds
  BY DEF Chat!BlockStart, Chat!BlockDelta, Chat!BlockStop, Chat!ToolInputAvailable,
         Chat!MessageStart, Chat!Usage, Chat!MessageStop, Chat!ErrorEvent, EventKinds, Ends
<1>. QED BY <1>1, QuietOne, EndOfOne

\* A step of the translation of a chunk.
(* A chunk of the Chat protocol half translated: it never ends the message. *)
ChatStep(r) ==
    /\ {"n", "events", "ok"} \subseteq DOMAIN r
    /\ ChatHolds(r.n) /\ ~r.n.terminal /\ Quiet(r.events) /\ r.ok \in BOOLEAN

(* A translation that goes on with further events. *)
LEMMA ThenStep == ASSUME NEW r, ChatStep(r), NEW n, ChatHolds(n), ~n.terminal, NEW events, Quiet(events)
  PROVE ChatStep(Chat!Then(r, n, events))
<1>1. Quiet(r.events \o events) BY QuietJoined DEF ChatStep
<1>2. /\ {"n", "events", "ok"} \subseteq DOMAIN Chat!Then(r, n, events)
      /\ Chat!Then(r, n, events).n = n /\ Chat!Then(r, n, events).ok = r.ok
      /\ Chat!Then(r, n, events).events = r.events \o events
  BY DEF ChatStep, Chat!Then
<1>. QED BY <1>1, <1>2 DEF ChatStep

LEMMA ThenOk == ASSUME NEW r, ChatStep(r), NEW n, NEW events PROVE Chat!Then(r, n, events).ok = r.ok
BY DEF ChatStep, Chat!Then

(* The steps of translating a choice. *)
LEMMA StartedStep == ASSUME NEW r, ChatStep(r) 
  PROVE ChatStep(Chat!ensure_message_started(r)) /\ Chat!ensure_message_started(r).ok = r.ok
<1>. DEFINE next == [r.n EXCEPT !.message_started = TRUE]
            started == <<Chat!MessageStart>>
<1>1. ChatHolds(next) /\ ~next.terminal BY DEF ChatHolds, ChatStep
<1>2. Quiet(started) BY QuietChat
<1>3. Chat!ensure_message_started(r) \in {r, Chat!Then(r, next, started)}
  BY DEF Chat!ensure_message_started
<1>4. ChatStep(Chat!Then(r, next, started)) BY <1>1, <1>2, ThenStep
<1>5. Chat!Then(r, next, started).ok = r.ok BY ThenOk
<1>. HIDE DEF next, started
<1>. QED BY <1>3, <1>4, <1>5

LEMMA TextStep == ASSUME NEW r, ChatStep(r), NEW text
  PROVE ChatStep(Chat!push_text_delta(r, text)) /\ ChatStep(Chat!push_reasoning_delta(r, text))
<1>1. ChatStep(Chat!push_text_delta(r, text))
  <2>. DEFINE next == [r.n EXCEPT !.active_text = TRUE]
              begun == IF r.n.active_text THEN << >>
                       ELSE <<Chat!BlockStart(Chat!TextId, "Text", 0, Chat!None)>>
              delta == <<Chat!BlockDelta(Chat!TextId, "Text", text)>>
  <2>1. ChatHolds(next) /\ ~next.terminal BY DEF ChatHolds, ChatStep
  <2>2. Quiet(begun) /\ Quiet(delta) BY QuietChat, QuietNone
  <2>3. Quiet(begun \o delta) BY <2>2, QuietJoined
  <2>4. Chat!push_text_delta(r, text) = Chat!Then(r, next, begun \o delta) BY DEF Chat!push_text_delta
  <2>. QED BY <2>1, <2>3, <2>4, ThenStep
<1>2. ChatStep(Chat!push_reasoning_delta(r, text))
  <2>. DEFINE next == [r.n EXCEPT !.active_reasoning = TRUE]
              begun == IF r.n.active_reasoning THEN << >>
                       ELSE <<Chat!BlockStart(Chat!ReasoningId, "Reasoning", 0, Chat!None)>>
              delta == <<Chat!BlockDelta(Chat!ReasoningId, "Reasoning", text)>>
  <2>1. ChatHolds(next) /\ ~next.terminal BY DEF ChatHolds, ChatStep
  <2>2. Quiet(begun) /\ Quiet(delta) BY QuietChat, QuietNone
  <2>3. Quiet(begun \o delta) BY <2>2, QuietJoined
  <2>4. Chat!push_reasoning_delta(r, text) = Chat!Then(r, next, begun \o delta)
    BY DEF Chat!push_reasoning_delta
  <2>. QED BY <2>1, <2>3, <2>4, ThenStep
<1>. QED BY <1>1, <1>2

LEMMA CallStep == ASSUME NEW r, ChatStep(r), NEW call PROVE ChatStep(Chat!push_tool_call(r, call))
<1>. DEFINE named == [r.n EXCEPT !.tool_calls = Append(@, call.index)]
            begun == <<Chat!BlockStart(Chat!ToolCallId(call.index), "ToolInput", call.index + 1, Chat!None)>>
            refused == [r EXCEPT !.ok = FALSE]
            opened == Chat!start_tool_call(r, call)
            known == \E k \in DOMAIN r.n.tool_calls : r.n.tool_calls[k] = call.index
            started == IF known THEN r ELSE opened
            delta == <<Chat!BlockDelta(Chat!ToolCallId(call.index), "Json", call.arguments)>>
<1>1. ChatHolds(named) /\ ~named.terminal
  <2>1. IsSequence(Append(r.n.tool_calls, call.index)) BY Longer DEF ChatStep, ChatHolds
  <2>. QED BY <2>1 DEF ChatStep, ChatHolds
<1>2. Quiet(begun) /\ Quiet(delta) BY QuietChat
<1>3. ChatStep(refused) BY DEF ChatStep
<1>4. ChatStep(opened)
  <2>1. opened \in {refused, Chat!Then(r, named, begun)} BY DEF Chat!start_tool_call
  <2>. QED BY <1>1, <1>2, <1>3, <2>1, ThenStep
<1>. HIDE DEF opened, known, delta
<1>5. ChatStep(started) BY <1>4
<1>6. Chat!push_tool_call(r, call) \in {started, Chat!Then(started, started.n, delta)}
  BY DEF Chat!push_tool_call, opened, known, delta
<1>. HIDE DEF started
<1>7. ChatStep(Chat!Then(started, started.n, delta)) BY <1>2, <1>5, ThenStep DEF ChatStep
<1>. QED BY <1>5, <1>6, <1>7

LEMMA CallsStep == ASSUME NEW r, ChatStep(r), NEW calls, Len(calls) \in {0, 1, 2}
  PROVE ChatStep(Chat!push_tool_calls(r, calls))
<1>. DEFINE first == Chat!push_tool_call(r, calls[1])
            second == Chat!push_tool_call(first, calls[2])
<1>1. ChatStep(first) BY CallStep
<1>2. ChatStep(second) BY <1>1, CallStep
<1>3. Chat!push_tool_calls(r, calls) \in {r, first, second} BY DEF Chat!push_tool_calls
<1>. QED BY <1>1, <1>2, <1>3

(* A whole choice, and closing what is open. *)
LEMMA ChoiceStep == ASSUME NEW old, ChatStep(old), NEW c, Len(c.tool_calls) \in {0, 1, 2}
  PROVE ChatStep(Chat!translate_choice(old, c))
<1>. DEFINE r0 == Chat!ensure_message_started(old)
            r1 == IF c.content = Chat!None THEN r0 ELSE Chat!push_text_delta(r0, c.content)
            r2 == IF c.reasoning = Chat!None THEN r1 ELSE Chat!push_reasoning_delta(r1, c.reasoning)
            r3 == Chat!push_tool_calls(r2, c.tool_calls)
            refused == [r0 EXCEPT !.ok = FALSE]
            reason == IF c.finish_reason = Chat!Unset THEN r3.n.stop_reason ELSE c.finish_reason
            last == [r3 EXCEPT !.n.stop_reason = reason]
<1>1. ChatStep(r0) BY StartedStep
<1>. HIDE DEF r0
<1>2. ChatStep(r1) BY <1>1, TextStep
<1>. HIDE DEF r1
<1>3. ChatStep(r2) BY <1>2, TextStep
<1>. HIDE DEF r2
<1>4. ChatStep(r3) BY <1>3, CallsStep
<1>. HIDE DEF r3
<1>5. ChatStep(refused) BY <1>1 DEF ChatStep
<1>6. ChatStep(last) BY <1>4 DEF ChatStep, ChatHolds
<1>7. Chat!translate_choice(old, c) \in {refused, last}
  BY DEF Chat!translate_choice, r0, r1, r2, r3
<1>. QED BY <1>5, <1>6, <1>7

LEMMA CloseStep == ASSUME NEW r, ChatStep(r) 
  PROVE ChatStep(Chat!close_open_blocks(r)) /\ Chat!close_open_blocks(r).ok = r.ok
<1>. DEFINE next == [r.n EXCEPT !.active_text = FALSE, !.active_reasoning = FALSE, !.tool_calls = << >>]
            reasoning == IF r.n.active_reasoning THEN <<Chat!BlockStop(Chat!ReasoningId)>> ELSE << >>
            text == IF r.n.active_text THEN <<Chat!BlockStop(Chat!TextId)>> ELSE << >>
            ev(k) == Chat!BlockStop(Chat!ToolCallId(r.n.tool_calls[k]))
            S == {ev(k) : k \in 1..Len(r.n.tool_calls)}
            calls == [k \in 1..Len(r.n.tool_calls) |-> ev(k)]
<1>1. ChatHolds(next) /\ ~next.terminal BY QuietNone DEF ChatHolds, ChatStep
<1>2. Quiet(reasoning) /\ Quiet(text) BY QuietChat, QuietNone
<1>3. Len(r.n.tool_calls) \in Nat /\ DOMAIN r.n.tool_calls = 1..Len(r.n.tool_calls)
  BY ASequenceIs DEF ChatStep, ChatHolds
<1>4. Quiet(calls)
  <2>1. calls \in [1..Len(r.n.tool_calls) -> S] OBVIOUS
  <2>2. calls \in Seq(S) BY <1>3, <2>1, SeqDef
  <2>3. IsSequence(calls) BY <2>2, SequenceOf
  <2>5. Len(calls) = Len(r.n.tool_calls) BY <1>3
  <2>4. ASSUME NEW k \in 1..Len(r.n.tool_calls) PROVE calls[k].e \in EventKinds \ Ends
    BY DEF Chat!BlockStop, EventKinds, Ends
  <2>. HIDE DEF calls
  <2>. QED BY <2>3, <2>4, <2>5 DEF Quiet
<1>5. Quiet((reasoning \o text) \o calls) BY <1>2, <1>4, QuietJoined
<1>6. Chat!close_open_blocks(r) = Chat!Then(r, next, (reasoning \o text) \o calls)
  BY <1>3 DEF Chat!close_open_blocks
<1>. HIDE DEF next, reasoning, text, calls
<1>. QED BY <1>1, <1>5, <1>6, ThenStep, ThenOk

(* The frames of the Chat protocol. *)
ChatTypes == {"chunk", "[DONE]", "garbage"}

(* The end of a stream of the Chat protocol. *)
LEMMA ChatDone == ASSUME NEW n, ChatHolds(n), ~n.terminal
  PROVE /\ ChatHolds(Chat!done(n).n) /\ Chat!done(n).n.terminal
        /\ Chat!done(n).ok = TRUE /\ EndsOnce(Chat!done(n).events)
<1>. DEFINE begun == Chat!Yields(n, << >>)
            r == Chat!close_open_blocks(Chat!ensure_message_started(begun))
            over == [r.n EXCEPT !.terminal = TRUE, !.stop_reason = Chat!Unset]
            reason == IF n.stop_reason = Chat!Unset THEN "other" ELSE n.stop_reason
            last == Chat!MessageStop(reason)
<1>1. ChatStep(begun)
  <2>1. /\ begun.n = n /\ begun.events = << >> /\ begun.ok = TRUE
        /\ DOMAIN begun = {"n", "events", "ok"}
    BY DEF Chat!Yields
  <2>. QED BY <2>1, QuietNone DEF ChatStep
<1>2. ChatStep(r) /\ r.ok = TRUE
  <2>1. begun.ok = TRUE BY DEF Chat!Yields
  <2>. QED BY <1>1, <2>1, StartedStep, CloseStep
<1>. HIDE DEF r, begun
<1>3. ChatHolds(over) /\ over.terminal BY <1>2 DEF ChatStep, ChatHolds
<1>4. last.e \in EventKinds BY DEF Chat!MessageStop, EventKinds
<1>5. EndsOnce(r.events \o <<last>>) BY <1>2, <1>4, EndOf DEF ChatStep
<1>. HIDE DEF last, over
<1>6. Chat!done(n) = Chat!Then(r, over, <<last>>)
  BY DEF Chat!done, r, begun, last, over
<1>7. /\ Chat!done(n).n = over /\ Chat!done(n).ok = r.ok
      /\ Chat!done(n).events = r.events \o <<last>>
  BY <1>2, <1>6 DEF Chat!Then, ChatStep
<1>. QED BY <1>2, <1>3, <1>5, <1>7 DEF ChatStep

(* translate of the Chat protocol. *)
LEMMA ChatTranslate == ASSUME NEW n, ChatHolds(n), ~n.terminal, NEW f, f.t \in ChatTypes,
                              \/ f.choices = << >>
                              \/ Len(f.choices[1].tool_calls) \in {0, 1, 2}
  PROVE ChatHolds(Chat!translate(n, f).n) /\ Translated(n, Chat!translate(n, f))
<1>. DEFINE events == IF f.usage = Chat!Unreported THEN << >> ELSE <<Chat!Usage(f.usage)>>
            r == Chat!Yields(n, events)
            chosen == Chat!translate_choice(r, f.choices[1])
<1>1. ChatStep(r)
  <2>1. Quiet(events) BY QuietChat, QuietNone
  <2>2. r.n = n /\ r.events = events /\ r.ok = TRUE /\ DOMAIN r = {"n", "events", "ok"}
    BY DEF Chat!Yields
  <2>. QED BY <2>1, <2>2 DEF ChatStep
<1>2. ASSUME NEW x, ChatStep(x) PROVE ChatHolds(x.n) /\ Translated(n, x)
  BY <1>2, QuietEnds DEF ChatStep, Translated
<1>. HIDE DEF r
<1>3. CASE f.t = "garbage"
  <2>1. Chat!translate(n, f) = Chat!Refuses(n) \/ Chat!translate(n, f) = Chat!Refuses(n)
    BY <1>3 DEF Chat!translate
  <2>2. Chat!Refuses(n).n = n /\ Chat!Refuses(n).ok = FALSE BY DEF Chat!Refuses
  <2>. QED BY <2>1, <2>2 DEF Translated
<1>4. CASE f.t = "[DONE]"
  <2>1. Chat!translate(n, f) = Chat!done(n) BY <1>4 DEF Chat!translate
  <2>. QED BY <2>1, ChatDone DEF Translated
<1>5. CASE f.t = "chunk" /\ f.choices = << >>
  <2>1. Chat!translate(n, f) = r BY <1>5 DEF Chat!translate, r
  <2>. QED BY <1>1, <1>2, <2>1
<1>6. CASE f.t = "chunk" /\ f.choices # << >>
  <2>1. Chat!translate(n, f) = chosen BY <1>6 DEF Chat!translate, r
  <2>2. ChatStep(chosen) BY <1>1, <1>6, ChoiceStep
  <2>. QED BY <1>2, <2>1, <2>2
<1>. QED BY <1>3, <1>4, <1>5, <1>6 DEF ChatTypes

(* All frames of a provider of the Chat protocol. *)
LEMMA ChoicesHold == ASSUME NEW s, NEW c \in Chat!Choices(s) PROVE Len(c.tool_calls) \in {0, 1, 2}
<1>1. ASSUME NEW role, NEW content, NEW reasoning, NEW calls, NEW reason,
             c = Chat!Choice(role, content, reasoning, calls, reason)
      PROVE c.tool_calls = calls
  BY <1>1 DEF Chat!Choice
<1>. DEFINE C1 == {Chat!Choice(r, Chat!None, Chat!None, << >>, Chat!Unset) :
                      r \in {Chat!Unset, "assistant", "user"}}
            C2 == {Chat!Choice(Chat!Unset, Chat!None, Chat!None, << >>, "stop")}
            C3 == {Chat!Choice(Chat!Unset, x, y, << >>, Chat!Unset) :
                      x \in {Chat!None, Chat!Fresh(s)}, y \in {Chat!None, Chat!Fresh(s)}}
            C4 == {Chat!Choice(Chat!Unset, Chat!None, Chat!None, <<d>>, Chat!Unset) : d \in Chat!Calls(s)}
            D == [index : Indices, named : {TRUE}, arguments : {Chat!Fresh(s)}]
            both(d, e) == Chat!Choice(Chat!Unset, Chat!None, Chat!None, <<d, e>>, "tool_calls")
            C5 == {both(d, e) : d \in Chat!Calls(s), e \in D}
<1>2. Chat!Choices(s) = C1 \cup C2 \cup (IF s.pieces >= MaxPieces THEN {} ELSE C3 \cup C4 \cup C5)
  BY DEF Chat!Choices
<1>3. c \in C1 \/ c \in C2 \/ c \in C3 => c.tool_calls = << >> BY DEF Chat!Choice
<1>4. c \in C4 => Len(c.tool_calls) = 1
  <2>1. SUFFICES ASSUME NEW d \in Chat!Calls(s),
                        c = Chat!Choice(Chat!Unset, Chat!None, Chat!None, <<d>>, Chat!Unset)
                 PROVE Len(c.tool_calls) = 1
    OBVIOUS
  <2>2. c.tool_calls = <<d>> BY <1>1, <2>1
  <2>. QED BY <2>2
<1>5. c \in C5 => Len(c.tool_calls) = 2
  <2>1. \A d, e : Len(both(d, e).tool_calls) = 2
    <3>1. \A d, e : both(d, e).tool_calls = <<d, e>> BY DEF Chat!Choice
    <3>2. \A d, e : Len(<<d, e>>) = 2 OBVIOUS
    <3>. HIDE DEF both
    <3>. QED BY <3>1, <3>2
  <2>. HIDE DEF both, D
  <2>. QED BY <2>1
<1>. HIDE DEF C1, C2, C3, C4, C5
<1>6. c.tool_calls = << >> => Len(c.tool_calls) = 0 OBVIOUS
<1>. QED BY <1>2, <1>3, <1>4, <1>5, <1>6

LEMMA ChatFrames == ASSUME NEW s, NEW f \in Chat!Frames(s)
  PROVE /\ f.t \in ChatTypes
        /\ f.choices = << >> \/ Len(f.choices[1].tool_calls) \in {0, 1, 2}
<1>. DEFINE F1 == {[t |-> "chunk", usage |-> Chat!Unreported, choices |-> <<c>>] : c \in Chat!Choices(s)}
            F2 == {[t |-> "chunk", usage |-> u, choices |-> << >>] : u \in Counts}
            F3 == {[t |-> x, usage |-> Chat!Unreported, choices |-> << >>] : x \in {"[DONE]", "garbage"}}
<1>1. Chat!Frames(s) = F1 \cup (IF s.tokens # 0 THEN {} ELSE F2) \cup F3 BY DEF Chat!Frames
<1>2. f \in F1 => f.t \in ChatTypes /\ Len(f.choices[1].tool_calls) \in {0, 1, 2}
  <2>1. SUFFICES ASSUME NEW c \in Chat!Choices(s),
                        f = [t |-> "chunk", usage |-> Chat!Unreported, choices |-> <<c>>]
                 PROVE f.t \in ChatTypes /\ Len(f.choices[1].tool_calls) \in {0, 1, 2}
    OBVIOUS
  <2>2. f.t = "chunk" /\ f.choices[1] = c BY <2>1
  <2>. QED BY <2>2, ChoicesHold DEF ChatTypes
<1>3. f \in F2 => f.t = "chunk" /\ f.choices = << >> OBVIOUS
<1>4. f \in F3 => f.t \in {"[DONE]", "garbage"} /\ f.choices = << >> OBVIOUS
<1>. HIDE DEF F1, F2, F3
<1>. QED BY <1>1, <1>2, <1>3, <1>4 DEF ChatTypes

-----------------------------------------------------------------------------
(***************************************************************************)
(* Whatever protocol the stream has.                                       *)
(***************************************************************************)
LEMMA TranslateHolds == ASSUME ApiHolds, NormalizerHolds, ~norm.terminal, NEW f \in Frames
  PROVE /\ HoldsOf(translate(f).n) /\ Translated(norm, translate(f))
        /\ api.numbered /\ translate(f).ok =>
              /\ f.number = said.sent
              /\ f.number \in {Responses!Unnumbered, norm.next_sequence}
              /\ translate(f).n.next_sequence = norm.next_sequence + 1
<1>1. CASE api.protocol = "anthropic"
  <2>1. f \in Anthropic!Frames(said) BY <1>1 DEF Frames
  <2>2. AnthropicHolds(norm) BY <1>1 DEF NormalizerHolds, HoldsOf
  <2>3. translate(f) = Anthropic!translate(norm, f) BY <1>1 DEF translate
  <2>4. AnthropicStep(norm, translate(f)) BY <2>1, <2>2, <2>3, AnthropicFrames, AnthropicTranslate
  <2>5. ~api.numbered BY <1>1 DEF ApiHolds
  <2>. QED BY <1>1, <2>4, <2>5 DEF AnthropicStep, HoldsOf
<1>2. CASE api.protocol = "chat"
  <2>1. f \in Chat!Frames(said) BY <1>2 DEF Frames
  <2>2. ChatHolds(norm) BY <1>2 DEF NormalizerHolds, HoldsOf
  <2>3. translate(f) = Chat!translate(norm, f) BY <1>2 DEF translate
  <2>4. ChatHolds(translate(f).n) /\ Translated(norm, translate(f))
    BY <2>1, <2>2, <2>3, ChatFrames, ChatTranslate
  <2>5. ~api.numbered BY <1>2 DEF ApiHolds
  <2>. QED BY <1>2, <2>4, <2>5 DEF HoldsOf
<1>3. CASE api.protocol = "responses"
  <2>1. f \in Responses!Frames(said, api.numbered, api.lossy) BY <1>3 DEF Frames
  <2>2. ResponsesHolds(norm) BY <1>3 DEF NormalizerHolds, HoldsOf
  <2>3. translate(f) = Responses!translate(norm, f) BY <1>3 DEF translate
  <2>4. EventHolds(f) /\ (api.numbered => f.number = said.sent) BY <2>1, ResponsesFrames
  <2>5. /\ ResponsesHolds(translate(f).n) /\ Translated(norm, translate(f))
        /\ translate(f).ok =>
              /\ f.number \in {Responses!Unnumbered, norm.next_sequence}
              /\ translate(f).n.next_sequence = norm.next_sequence + 1
    BY <2>2, <2>3, <2>4, ResponsesTranslate
  <2>. QED BY <1>3, <2>4, <2>5 DEF HoldsOf
<1>. QED BY <1>1, <1>2, <1>3 DEF ApiHolds

(* Whatever the provider writes, it counts it. *)
LEMMA SaysCounts == ASSUME NEW f, "sent" \in DOMAIN said, api.protocol = "responses"
  PROVE "sent" \in DOMAIN Says(f) /\ Says(f).sent = said.sent + 1
<1>. DEFINE next == [said EXCEPT !.sent = @ + 1,
                                 !.idle = IF f.t \in Responses!IdleEvents THEN @ + 1 ELSE @,
                                 !.pieces = IF Responses!Carries(f) THEN @ + 1 ELSE @,
                                 !.order = @ \o Responses!Opens(said, f)]
            added == [next EXCEPT !.items = Append(@, [index |-> f.index, v |-> f.item])]
            told == [next EXCEPT !.tokens = f.usage]
            revised == Responses!Revised(next, f.index,
                                         Responses!Continued(Responses!Item(said, f.index), f))
<1>1. "sent" \in DOMAIN next /\ next.sent = said.sent + 1 OBVIOUS
<1>2. Says(f) = Responses!Says(said, f) BY DEF Says
<1>. HIDE DEF next
<1>3. Responses!Says(said, f) \in {added, told, revised, next}
  BY DEF Responses!Says, next
<1>4. /\ "sent" \in DOMAIN added /\ added.sent = next.sent
      /\ "sent" \in DOMAIN told /\ told.sent = next.sent
      /\ "sent" \in DOMAIN revised /\ revised.sent = next.sent
  BY <1>1 DEF Responses!Revised
<1>. HIDE DEF added, told, revised
<1>. QED BY <1>1, <1>2, <1>3, <1>4

(* Only the end of the message gives the accumulator a stop reason. *)
LEMMA PushStops == ASSUME NEW ev, ev.e \in EventKinds, NEW a, AccFields \subseteq DOMAIN a
  PROVE /\ AccFields \subseteq DOMAIN push(a, ev)
        /\ push(a, ev).stop_reason # a.stop_reason => ev.e = "MessageStop"
<1>. DEFINE Same(x) == AccFields \subseteq DOMAIN x /\ x.stop_reason = a.stop_reason
<1>1. ASSUME NEW error PROVE Same(Fails(a, error)) BY DEF Fails, AccFields
<1>2. ASSUME NEW block PROVE Same([a EXCEPT !.blocks[ev.id] = block]) BY DEF AccFields
<1>3. ASSUME NEW error, NEW block PROVE Same(OnBlock(a, ev.id, error, block))
  BY <1>1, <1>2 DEF OnBlock
<1>4. Same(start_block(a, ev))
  <2>. DEFINE next == [a EXCEPT !.order = Append(@, ev.id),
                                !.blocks = With(@, ev.id, NewBlock(ev.kind, ev.call, ev.raw))]
  <2>1. Same(next) BY DEF AccFields
  <2>2. start_block(a, ev) \in {next, Fails(a, "DuplicateBlock")} BY DEF start_block
  <2>. HIDE DEF next, Same
  <2>. QED BY <1>1, <2>1, <2>2
<1>5. ASSUME ev.e \in {"BlockDelta", "BlockStop", "ToolInputAvailable"} PROVE Same(PushToBlock(a, ev))
  <2>. DEFINE b == a.blocks[ev.id]
              delta == OnBlock(a, ev.id, DeltaError(b, ev.kind), push_delta(b, ev.kind, ev.text))
              stopped == OnBlock(a, ev.id, StopError(b), stop(b))
              given == OnBlock(a, ev.id, ToolInputError(b), set_tool_input(b, ev.input))
  <2>1. PushToBlock(a, ev) \in {Fails(a, "UnknownBlock"), delta, stopped, given}
    BY <1>5 DEF PushToBlock
  <2>2. Same(delta) /\ Same(stopped) /\ Same(given) BY <1>3
  <2>. HIDE DEF Same, delta, stopped, given
  <2>. QED BY <1>1, <2>1, <2>2
<1>6. Same([a EXCEPT !.role = "assistant"]) /\ Same([a EXCEPT !.usage = @ + ev.n])
  BY DEF AccFields
<1>7. AccFields \subseteq DOMAIN [a EXCEPT !.stop_reason = ev.reason] BY DEF AccFields
<1>8. \/ \E error : push(a, ev) = Fails(a, error)
      \/ push(a, ev) = start_block(a, ev)
      \/ push(a, ev) = PushToBlock(a, ev) /\ ev.e \in {"BlockDelta", "BlockStop", "ToolInputAvailable"}
      \/ push(a, ev) = [a EXCEPT !.role = "assistant"]
      \/ push(a, ev) = [a EXCEPT !.usage = @ + ev.n]
      \/ push(a, ev) = [a EXCEPT !.stop_reason = ev.reason] /\ ev.e = "MessageStop"
  <2>1. CASE ev.e = "Error" BY <2>1 DEF push
  <2>2. CASE ev.e # "Error" /\ a.stop_reason # "" BY <2>2 DEF push
  <2>3. CASE ev.e = "MessageStart" /\ a.stop_reason = "" BY <2>3 DEF push
  <2>4. CASE ev.e = "BlockStart" /\ a.stop_reason = "" BY <2>4 DEF push
  <2>5. CASE ev.e \in {"BlockDelta", "BlockStop", "ToolInputAvailable"} /\ a.stop_reason = ""
    BY <2>5 DEF push
  <2>6. CASE ev.e = "Usage" /\ a.stop_reason = "" BY <2>6 DEF push
  <2>7. CASE ev.e = "MessageStop" /\ a.stop_reason = "" BY <2>7 DEF push
  <2>. QED BY <2>1, <2>2, <2>3, <2>4, <2>5, <2>6, <2>7 DEF EventKinds
<1>. QED BY <1>1, <1>4, <1>5, <1>6, <1>7, <1>8

-----------------------------------------------------------------------------
(***************************************************************************)
(* The invariant.                                                          *)
(***************************************************************************)
(* Every stream starts out so. *)
LEMMA InitHolds == ReplyInit => ReplyIInv
<1>1. SUFFICES ASSUME ReplyInit PROVE ReplyIInv OBVIOUS
<1>2. /\ api \in [protocol : Apis, numbered : BOOLEAN, lossy : BOOLEAN]
      /\ (api.numbered \/ api.lossy) <=> api.protocol = "responses"
  BY <1>1 DEF ReplyInit
<1>3. ApiHolds BY <1>2, ApisAssumption DEF ApiHolds
<1>4. norm.terminal = FALSE /\ NormalizerHolds
  <2>1. CASE api.protocol = "anthropic"
    <3>1. norm = Anthropic!NewNormalizer BY <1>1, <2>1 DEF ReplyInit, NewNormalizer
    <3>. QED BY <2>1, <3>1 DEF Anthropic!NewNormalizer, NormalizerHolds, HoldsOf, AnthropicHolds
  <2>2. CASE api.protocol = "chat"
    <3>1. norm = Chat!NewNormalizer BY <1>1, <2>2 DEF ReplyInit, NewNormalizer
    <3>2. /\ norm.terminal = FALSE /\ {"terminal", "tool_calls"} \subseteq DOMAIN norm
          /\ norm.tool_calls = << >>
      BY <3>1 DEF Chat!NewNormalizer
    <3>. QED BY <2>2, <3>2, QuietNone DEF NormalizerHolds, HoldsOf, ChatHolds
  <2>3. CASE api.protocol = "responses"
    <3>1. norm = Responses!NewNormalizer BY <1>1, <2>3 DEF ReplyInit, NewNormalizer
    <3>2. /\ norm.terminal = FALSE /\ {"terminal", "next_sequence", "items"} \subseteq DOMAIN norm
          /\ norm.next_sequence = 0 /\ norm.items = << >>
      BY <3>1 DEF Responses!NewNormalizer
    <3>3. DOMAIN norm.items = {} BY <3>2
    <3>. QED BY <2>3, <3>2, <3>3 DEF NormalizerHolds, HoldsOf, ResponsesHolds
  <2>. QED BY <1>3, <2>1, <2>2, <2>3 DEF ApiHolds
<1>5. StreamEnds
  <2>1. pending = << >> /\ terminated = FALSE /\ ended = 0 BY <1>1 DEF ReplyInit
  <2>. QED BY <2>1, QuietNone, QuietEnds DEF StreamEnds
<1>6. ResponseNeedsItsEnd
  BY <1>1 DEF ReplyInit, NewAccumulator, ResponseNeedsItsEnd, AccFields
<1>7. LossesCounted
  <2>1. SUFFICES ASSUME api.numbered PROVE LossesCounted BY DEF LossesCounted
  <2>2. api.protocol = "responses" BY <1>3, <2>1 DEF ApiHolds
  <2>3. norm = Responses!NewNormalizer /\ said = Responses!Nothing /\ lost = 0
    BY <1>1, <2>2 DEF ReplyInit, NewNormalizer, NothingSaid
  <2>4. "sent" \in DOMAIN said /\ said.sent = 0 /\ norm.next_sequence = 0
    BY <2>3 DEF Responses!NewNormalizer, Responses!Nothing
  <2>. QED BY <2>3, <2>4 DEF LossesCounted
<1>. QED BY <1>3, <1>4, <1>5, <1>6, <1>7 DEF ReplyIInv

(* The invariant through every step.  First a step that gives an error, when the
   source fails or a frame is refused. *)
LEMMA ErrorKeeps == ASSUME ReplyIInv, Reading, GiveError,
                           HoldsOf(norm'), ~norm'.terminal, UNCHANGED <<said, lost>>
  PROVE ReplyIInv'
<1>1. /\ pending = << >> /\ terminated = FALSE /\ ~norm.terminal /\ ended = 0
  BY DEF Reading, ReplyIInv, StreamEnds, Over
<1>2. /\ terminated' = TRUE /\ ended' = 1 /\ pending' = << >> /\ api' = api /\ acc' = acc
      /\ result' = result \/ result' = "Err"
  <2>1. ended' = ended + 1 BY DEF GiveError, Counted
  <2>2. /\ terminated' = TRUE /\ UNCHANGED <<api, pending, acc>>
        /\ result' = IF result = "" THEN "Err" ELSE result
    BY DEF GiveError
  <2>3. result' = result \/ result' = "Err" BY <2>2
  <2>4. ended' = 0 + 1 BY <1>1, <2>1
  <2>5. ended' = 1 BY <2>4
  <2>6. pending' = << >> BY <1>1, <2>2
  <2>. QED BY <2>2, <2>3, <2>5, <2>6
<1>3. ApiHolds' BY <1>2 DEF ReplyIInv, ApiHolds
<1>4. NormalizerHolds' BY <1>2 DEF NormalizerHolds, HoldsOf
<1>5. StreamEnds'
  BY <1>2, QuietNone, QuietEnds DEF StreamEnds, Over
<1>6. ResponseNeedsItsEnd'
  BY <1>1, <1>2 DEF ReplyIInv, ResponseNeedsItsEnd
<1>7. LossesCounted' BY <1>2 DEF ReplyIInv, LossesCounted
<1>. QED BY <1>3, <1>4, <1>5, <1>6, <1>7 DEF ReplyIInv

(* A frame that is translated.  One that is taken although its number is the
   number of frames before it shows that none was lost. *)
LEMMA ReadKeeps == ASSUME ReplyIInv, NEW f \in Frames, Read(f) PROVE ReplyIInv'
<1>. DEFINE r == translate(f)
<1>1. /\ pending = << >> /\ terminated = FALSE /\ ~norm.terminal /\ ended = 0
      /\ Reading /\ lost' = lost /\ norm' = r.n
  BY DEF Read, Reading, ReplyIInv, StreamEnds, Over
<1>2. /\ HoldsOf(r.n) /\ Translated(norm, r)
      /\ api.numbered /\ r.ok =>
            /\ f.number = said.sent
            /\ f.number \in {Responses!Unnumbered, norm.next_sequence}
            /\ r.n.next_sequence = norm.next_sequence + 1
  BY <1>1, TranslateHolds DEF ReplyIInv
<1>. HIDE DEF r
<1>3. CASE r.ok
  <2>1. /\ said' = Says(f) /\ pending' = r.events
        /\ UNCHANGED <<api, terminated, acc, result, ended>>
    BY <1>3 DEF Read, r
  <2>2. ApiHolds' BY <2>1 DEF ReplyIInv, ApiHolds
  <2>3. NormalizerHolds' BY <1>1, <1>2, <2>1 DEF NormalizerHolds, HoldsOf
  <2>4. StreamEnds'
    BY <1>1, <1>2, <1>3, <2>1 DEF StreamEnds, Translated
  <2>5. ResponseNeedsItsEnd'
    BY <1>1, <2>1 DEF ReplyIInv, ResponseNeedsItsEnd
  <2>6. LossesCounted'
    <3>1. SUFFICES ASSUME api'.numbered PROVE LossesCounted' BY DEF LossesCounted
    <3>2. api.numbered /\ api.protocol = "responses" BY <2>1, <3>1 DEF ReplyIInv, ApiHolds
    <3>3. /\ "sent" \in DOMAIN said /\ said.sent \in Nat /\ lost \in Nat
          /\ said.sent = norm.next_sequence + lost
      BY <1>1, <3>2 DEF ReplyIInv, LossesCounted
    <3>4. norm.next_sequence \in Nat
      BY <3>2 DEF ReplyIInv, NormalizerHolds, HoldsOf, ResponsesHolds
    <3>5. said.sent = norm.next_sequence
      BY <1>2, <1>3, <3>2, <3>3 DEF Responses!Unnumbered
    <3>6. lost = 0 BY <3>3, <3>4, <3>5
    <3>7. "sent" \in DOMAIN said' /\ said'.sent = said.sent + 1
      BY <2>1, <3>2, <3>3, SaysCounts
    <3>8. norm'.next_sequence = norm.next_sequence + 1 BY <1>1, <1>2, <1>3, <3>2
    <3>. QED BY <1>1, <3>3, <3>4, <3>5, <3>6, <3>7, <3>8 DEF LossesCounted
  <2>. QED BY <2>2, <2>3, <2>4, <2>5, <2>6 DEF ReplyIInv
<1>4. CASE ~r.ok
  <2>1. GiveError /\ said' = said BY <1>4 DEF Read, r
  <2>2. ~norm'.terminal /\ HoldsOf(norm') BY <1>1, <1>2, <1>4 DEF Translated
  <2>. QED BY <1>1, <2>1, <2>2, ErrorKeeps
<1>. QED BY <1>3, <1>4

(* A lost frame. *)
LEMMA LoseKeeps == ASSUME ReplyIInv, NEW f \in Frames, Lose(f) PROVE ReplyIInv'
<1>1. /\ said' = Says(f) /\ lost' = lost + 1 /\ ~norm.terminal
      /\ UNCHANGED <<api, norm, pending, terminated, acc, result, ended>>
  BY DEF Lose, Reading
<1>2. ApiHolds' BY <1>1 DEF ReplyIInv, ApiHolds
<1>3. NormalizerHolds' BY <1>1 DEF ReplyIInv, NormalizerHolds, HoldsOf
<1>4. StreamEnds' BY <1>1 DEF ReplyIInv, StreamEnds, Over
<1>5. ResponseNeedsItsEnd' BY <1>1 DEF ReplyIInv, ResponseNeedsItsEnd
<1>6. LossesCounted'
  <2>1. SUFFICES ASSUME api'.numbered PROVE LossesCounted' BY DEF LossesCounted
  <2>2. api.numbered /\ api.protocol = "responses" BY <1>1, <2>1 DEF ReplyIInv, ApiHolds
  <2>3. /\ "sent" \in DOMAIN said /\ said.sent \in Nat /\ lost \in Nat
        /\ ~terminated => said.sent = norm.next_sequence + lost
    BY <2>2 DEF ReplyIInv, LossesCounted
  <2>4. norm.next_sequence \in Nat
    BY <2>2 DEF ReplyIInv, NormalizerHolds, HoldsOf, ResponsesHolds
  <2>5. "sent" \in DOMAIN said' /\ said'.sent = said.sent + 1
    BY <1>1, <2>2, <2>3, SaysCounts
  <2>. QED BY <1>1, <2>3, <2>4, <2>5 DEF LossesCounted
<1>. QED BY <1>2, <1>3, <1>4, <1>5, <1>6 DEF ReplyIInv

(* An event is given to the consumer and pushed. *)
LEMMA GiveEventKeeps == ASSUME ReplyIInv, GiveEvent PROVE ReplyIInv'
<1>. DEFINE ev == Head(pending)
<1>1. /\ pending # << >> /\ pending' = Tail(pending)
      /\ UNCHANGED <<api, said, lost, norm, terminated>>
  BY DEF GiveEvent
<1>2. ended = 0 /\ terminated # TRUE BY <1>1 DEF ReplyIInv, StreamEnds
<1>3. IsSequence(pending) /\ EndsOnce(pending) BY DEF ReplyIInv, StreamEnds, EndsOnce, IsEvents
<1>4. /\ IsSequence(Tail(pending)) /\ Len(Tail(pending)) = Len(pending) - 1
      /\ \A i \in 1..(Len(pending) - 1) : Tail(pending)[i] = pending[i + 1]
      /\ ev = pending[1] /\ Len(pending) > 0 /\ Len(pending) \in Nat
  BY <1>1, <1>3, Shorter, ASequenceIs
<1>5. ev.e \in EventKinds /\ (ev.e \in Ends => norm.terminal)
  BY <1>3, <1>4 DEF ReplyIInv, StreamEnds, EndsOnce, IsEvents, Quiet
<1>6. ev.e \in Ends => Len(pending) = 1
  <2>1. SUFFICES ASSUME Len(pending) # 1 PROVE ev.e \notin Ends OBVIOUS
  <2>2. Len(pending) \in Nat /\ Len(pending) > 0 BY <1>4
  <2>5. \A n \in Nat : n > 0 /\ n # 1 => 1 \in 1..(n - 1) OBVIOUS
  <2>4. 1 \in 1..(Len(pending) - 1) BY <2>1, <2>2, <2>5
  <2>3. pending[1].e \notin Ends BY <1>3, <2>4 DEF EndsOnce
  <2>. QED BY <1>4, <2>3
<1>7. EndsOnce(Tail(pending))
  BY <1>3, <1>4 DEF EndsOnce, IsEvents
<1>8. ~norm.terminal => Quiet(Tail(pending))
  BY <1>4 DEF ReplyIInv, StreamEnds, Quiet
<1>9. ended' = IF ev.e \in Ends THEN 1 ELSE 0
  <2>1. ended' = Counted(ev.e \in Ends) BY DEF GiveEvent, Ends
  <2>2. CASE ev.e \in Ends BY <1>2, <2>1, <2>2 DEF Counted
  <2>3. CASE ev.e \notin Ends BY <1>2, <2>1, <2>3 DEF Counted
  <2>. QED BY <2>2, <2>3
<1>10. Len(pending) = 1 => Tail(pending) = << >>
  <2>1. Tail(pending) \in Seq(Elements(Tail(pending))) BY <1>4 DEF IsSequence
  <2>2. Len(pending) = 1 => Len(Tail(pending)) = 0 BY <1>4
  <2>. QED BY <2>1, <2>2, EmptySeq
<1>. HIDE DEF ev
<1>11. StreamEnds'
  BY <1>1, <1>2, <1>5, <1>6, <1>7, <1>8, <1>9, <1>10 DEF StreamEnds, Over
<1>12. ResponseNeedsItsEnd'
  <2>1. /\ AccFields \subseteq DOMAIN acc /\ (acc.stop_reason # "" => norm.terminal)
        /\ (result = "Ok" => norm.terminal)
    BY DEF ReplyIInv, ResponseNeedsItsEnd
  <2>2. \/ acc' = acc /\ result' = result
        \/ acc' = push(acc, ev) /\ result' \in {"Err", ""}
    BY DEF GiveEvent, ev
  <2>3. CASE acc' = acc /\ result' = result
    BY <1>1, <2>1, <2>3 DEF ResponseNeedsItsEnd
  <2>4. CASE acc' = push(acc, ev) /\ result' \in {"Err", ""}
    <3>1. /\ AccFields \subseteq DOMAIN acc'
          /\ acc'.stop_reason # acc.stop_reason => ev.e = "MessageStop"
      BY <1>5, <2>1, <2>4, PushStops
    <3>. QED BY <1>1, <1>5, <2>1, <2>4, <3>1 DEF ResponseNeedsItsEnd, Ends
  <2>. QED BY <2>2, <2>3, <2>4
<1>13. ApiHolds' BY <1>1 DEF ReplyIInv, ApiHolds
<1>14. NormalizerHolds' BY <1>1 DEF ReplyIInv, NormalizerHolds, HoldsOf
<1>15. LossesCounted' BY <1>1 DEF ReplyIInv, LossesCounted
<1>. QED BY <1>11, <1>12, <1>13, <1>14, <1>15 DEF ReplyIInv

(* collect finishes: a Response needs a stop reason. *)
LEMMA FinishKeeps == ASSUME ReplyIInv, Finish PROVE ReplyIInv'
<1>1. /\ UNCHANGED <<api, said, lost, norm, pending, terminated, acc, ended>>
      /\ result' = IF FinishError(acc) = "" THEN "Ok" ELSE "Err"
  BY DEF Finish
<1>2. FinishError(acc) = "" => acc.stop_reason # ""
  <2>1. CASE acc.role = "" BY <2>1 DEF FinishError
  <2>2. CASE acc.role # "" /\ acc.stop_reason = "" BY <2>2 DEF FinishError
  <2>. QED BY <2>1, <2>2
<1>3. ResponseNeedsItsEnd' BY <1>1, <1>2 DEF ReplyIInv, ResponseNeedsItsEnd
<1>4. ApiHolds' BY <1>1 DEF ReplyIInv, ApiHolds
<1>5. NormalizerHolds' BY <1>1 DEF ReplyIInv, NormalizerHolds, HoldsOf
<1>6. StreamEnds' BY <1>1 DEF ReplyIInv, StreamEnds, Over
<1>7. LossesCounted' BY <1>1 DEF ReplyIInv, LossesCounted
<1>. QED BY <1>3, <1>4, <1>5, <1>6, <1>7 DEF ReplyIInv

LEMMA StepHolds == ASSUME ReplyIInv, [ReplyNext]_replyVars PROVE ReplyIInv'
<1>1. ASSUME NEW f \in Frames, Read(f) \/ Lose(f) PROVE ReplyIInv' BY <1>1, ReadKeeps, LoseKeeps
<1>2. CASE SourceFails
  <2>1. Reading /\ GiveError /\ UNCHANGED <<said, lost, norm>> BY <1>2 DEF SourceFails
  <2>2. HoldsOf(norm') /\ ~norm'.terminal BY <2>1 DEF Reading, ReplyIInv, NormalizerHolds, HoldsOf
  <2>. QED BY <2>1, <2>2, ErrorKeeps
<1>3. CASE GiveEvent BY <1>3, GiveEventKeeps
<1>4. CASE Finish BY <1>4, FinishKeeps
<1>5. CASE UNCHANGED replyVars
  <2>1. /\ api' = api /\ said' = said /\ lost' = lost /\ norm' = norm /\ pending' = pending
        /\ terminated' = terminated /\ acc' = acc /\ result' = result /\ ended' = ended
    BY <1>5 DEF replyVars
  <2>. QED BY <2>1 DEF ReplyIInv, ApiHolds, NormalizerHolds, HoldsOf, StreamEnds, Over,
                       ResponseNeedsItsEnd, LossesCounted
<1>. QED BY <1>1, <1>2, <1>3, <1>4, <1>5 DEF ReplyNext

(* The invariant holds. *)
THEOREM ReplyIInvCorrect == ReplySpec => []ReplyIInv
<1>1. ReplyInit => ReplyIInv BY InitHolds
<1>2. ReplyIInv /\ [ReplyNext]_replyVars => ReplyIInv' BY StepHolds
<1>. QED BY <1>1, <1>2, PTL DEF ReplySpec

(* With numbered events no lost frame goes unnoticed: whatever is lost, and
   whatever the frames around it say, collect gives no Response after it. *)
THEOREM NoLossCorrect == ReplySpec => []NoLossUnnoticed
<1>1. ReplyIInv => NoLossUnnoticed
  <2>1. SUFFICES ASSUME ReplyIInv, result = "Ok", api.numbered PROVE lost = 0
    BY DEF NoLossUnnoticed
  <2>2. norm.terminal BY <2>1 DEF ReplyIInv, ResponseNeedsItsEnd
  <2>3. lost \in Nat /\ ~(lost > 0) BY <2>1, <2>2 DEF ReplyIInv, LossesCounted
  <2>. QED BY <2>3
<1>. QED BY <1>1, ReplyIInvCorrect, PTL

(* A stream gives one item that ends it, and nothing after it (sse.rs: an error is
   the last item, and a terminal normalizer reads no more). *)
THEOREM OneEndCorrect == ReplySpec => []NothingFollowsTheEnd
<1>1. ReplyIInv => NothingFollowsTheEnd BY DEF ReplyIInv, StreamEnds, NothingFollowsTheEnd
<1>. QED BY <1>1, ReplyIInvCorrect, PTL
=============================================================================
