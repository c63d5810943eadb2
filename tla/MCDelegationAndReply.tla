------------------------- MODULE MCDelegationAndReply -------------------------
(***************************************************************************)
(* The instances of Delegation and ReplyStream that TLC checks, side by    *)
(* side: view says which of the two a behavior looks at, and the other one *)
(* stays as it began.  The runs that a dispatcher routes are long, and     *)
(* they see two of the approval policies; the others see all of them.      *)
(***************************************************************************)
EXTENDS MCDelegation, ReplyStream

VARIABLE view

ViewInit ==
    /\ view \in {"delegation", "reply"}
    /\ DelegationInit /\ ReplyInit
    /\ plan.mode = "dispatcher" => plan.policy \in TwoPolicies
    /\ view = "reply" => plan.mode = "model" /\ plan.policy = CHOOSE p \in AgentPolicies : TRUE
    /\ view = "delegation" => api.protocol = "chat"

ViewNext ==
    \/ view = "delegation" /\ DelegationNext /\ UNCHANGED <<replyVars, view>>
    \/ view = "reply" /\ ReplyNext /\ UNCHANGED <<delegationVars, view>>

ViewSpec ==
    /\ ViewInit /\ [][ViewNext]_<<delegationVars, replyVars, view>>
    /\ WF_delegationVars(view = "delegation" /\ HostBegin /\ UNCHANGED <<replyVars, view>>)
    /\ WF_delegationVars(view = "delegation" /\ (HostDispatch \/ HostReport) /\ UNCHANGED <<replyVars, view>>)
=============================================================================
