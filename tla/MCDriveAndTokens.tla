--------------------------- MODULE MCDriveAndTokens ---------------------------
(***************************************************************************)
(* The instances of DriveLoop and Cancellation that TLC checks, side by    *)
(* side: view says which of the two a behavior looks at, and the other one *)
(* stays as it began.  The tokens are every tree of up to four of them;    *)
(* one waiting task is enough, as waiting tasks do not affect each other.  *)
(***************************************************************************)
EXTENDS DriveLoop, Cancellation

(* A machine with a child attached to it. *)
MachineTree == <<"own", "kid">>

(* The root scope serves everything, a subagent's only its LLM requests: *)
(* its tools and its own subagents pop outward.                          *)
TotalRoot == [d \in Layers |-> IF d = 0 THEN Kinds ELSE {"Llm"}]

Batches == {<<"Interaction">>, <<"Tool">>, <<"Tool", "Subagent">>}

VARIABLE view

ViewInit == view \in {"drive", "tokens"} /\ Init /\ TokensInit

ViewNext ==
    \/ view = "drive" /\ Next /\ UNCHANGED <<tokenVars, view>>
    \/ view = "tokens" /\ TokensNext /\ UNCHANGED <<vars, view>>

ViewSpec ==
    /\ ViewInit /\ [][ViewNext]_<<vars, tokenVars, view>>
    /\ \A d \in Layers :
        WF_vars(view = "drive" /\ DriverStep(d) /\ UNCHANGED <<tokenVars, view>>)
    /\ \A w \in Waiters :
        WF_tokenVars(view = "tokens" /\ (ArmLink(w) \/ CheckLink(w) \/ Wake(w)) /\ UNCHANGED <<vars, view>>)
    /\ \A c \in Cancellers :
        WF_tokenVars(view = "tokens" /\ NotifyWaiters(c) /\ UNCHANGED <<vars, view>>)
=============================================================================
