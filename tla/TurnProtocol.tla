----------------------------- MODULE TurnProtocol -----------------------------
(***************************************************************************)
(* What an agent machine promises to whoever drives it                     *)
(* (src/src/agent/machine/mod.rs, trait AgentMachine and StepInput).       *)
(*                                                                         *)
(* A machine hands out requirements under ids it never uses twice.  It     *)
(* rests, or a turn is open and it waits for the requirements of one       *)
(* batch.  An answer names a requirement that is awaited; the others stay  *)
(* awaited until the last one is answered, and only then is there a new    *)
(* batch.  A turn ends by an answer, by an Abandon of a requirement, or by *)
(* the interrupt for an exhausted budget, and the three can be told apart; *)
(* then nothing of it is awaited any more, and its ids are stale.          *)
(*                                                                         *)
(* DocumentedSpec is the promise: an input that names a settled id is      *)
(* rejected, whatever kind of input it is.  Spec is what AgentMachine is   *)
(* shown to implement: it also takes an Abandon of a requirement of the    *)
(* current batch that has been answered.                                   *)
(***************************************************************************)
EXTENDS Naturals

VARIABLES
    outcome,  \* "Open" during a turn, then how it ended; "Idle" at first
    batch,    \* the requirements handed out last, while the turn is open
    awaited,  \* those of them the machine waits for
    issued,   \* ids 1..issued were handed out
    settled   \* the ids an accepted input has named

protocolVars == <<outcome, batch, awaited, issued, settled>>

Init ==
    /\ outcome = "Idle"
    /\ batch = {} /\ awaited = {}
    /\ issued = 0
    /\ settled = {}

\* The batch handed out by a step: all ids that are new in it.
NewBatch ==
    /\ issued' > issued
    /\ batch' = (issued + 1)..issued'
    /\ awaited' = batch'
    /\ outcome' = "Open"

TurnOver(how) ==
    /\ outcome' = how
    /\ batch' = {} /\ awaited' = {}
    /\ UNCHANGED issued

\* A user message at rest.  The host may fail to supply what the turn needs.
Begin ==
    /\ outcome # "Open"
    /\ NewBatch \/ TurnOver("Ended")
    /\ UNCHANGED settled

\* A Resume.
Answer(id) ==
    /\ id \in awaited
    /\ settled' = settled \cup {id}
    /\ \/ /\ awaited # {id}
          /\ awaited' = awaited \ {id}
          /\ UNCHANGED <<outcome, batch, issued>>
       \/ awaited = {id} /\ NewBatch
       \/ TurnOver("Ended")

Cancelled(id) ==
    /\ settled' = settled \cup {id}
    /\ TurnOver("Idle")

\* An Abandon cancels the turn.
Abandon(id) == id \in awaited /\ Cancelled(id)

\* The requirement was answered, but others of its batch are awaited.
AbandonAnswered(id) == outcome = "Open" /\ id \in batch \ awaited /\ Cancelled(id)

\* The budget is exhausted.
Interrupt ==
    /\ outcome \in {"Open", "Idle"}
    /\ TurnOver("Interrupted")
    /\ UNCHANGED settled

DocumentedNext ==
    \/ Begin
    \/ \E id \in awaited : Answer(id) \/ Abandon(id)
    \/ Interrupt

Next == DocumentedNext \/ \E id \in batch : AbandonAnswered(id)

DocumentedSpec == Init /\ [][DocumentedNext]_protocolVars

Spec == Init /\ [][Next]_protocolVars
=============================================================================
