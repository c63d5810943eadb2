---------------------------- MODULE MCDelegation ----------------------------
(***************************************************************************)
(* An instance of Delegation: what MCLastDrive.cfg and the instance        *)
(* MCDelegationAndReply give its constants.                                *)
(***************************************************************************)
EXTENDS Delegation

Profile(capable, tier, to, human) ==
    [capable |-> capable, tier |-> tier, on |-> {"ReviewRejected", "Timeout"}, to |-> to,
     human |-> human]

\* Rosters with two workers of a tier that point at each other, with a target
\* that is not able, with a gap between tiers, and with a tie at the top.
MCRosters ==
    {<<Profile(TRUE, 1, 2, TRUE), Profile(TRUE, 1, 1, FALSE), Profile(TRUE, 3, 0, FALSE)>>,
     <<Profile(TRUE, 1, 2, FALSE), Profile(FALSE, 3, 0, FALSE), Profile(TRUE, 2, 2, TRUE)>>,
     <<Profile(TRUE, 2, 2, FALSE), Profile(TRUE, 3, 1, TRUE), Profile(TRUE, 3, 1, FALSE)>>,
     <<Profile(TRUE, 1, 2, FALSE), Profile(TRUE, 1, 1, FALSE)>>}

\* No tier of its own, with and without ask_external_agents; an own tier that
\* differs from both; and a person who is asked.
MCPolicies ==
    {[own |-> o, default |-> d, askExternal |-> a, parent |-> p] :
        o \in {"none", "AutoDeny"}, d \in {"AutoAllow", "AskHandler"}, a \in BOOLEAN,
        p \in {TRUE}}
    \cup {[own |-> "AutoAllow", default |-> "AskDefault", askExternal |-> TRUE, parent |-> TRUE],
           [own |-> "AskDefault", default |-> "AskHandler", askExternal |-> FALSE, parent |-> FALSE],
           [own |-> "none", default |-> "AutoAllow", askExternal |-> TRUE, parent |-> FALSE]}

\* A person is asked and may answer either way, and nothing is allowed: what a
\* policy comes to when the runs are long.
TwoPolicies ==
    {[own |-> o, default |-> "AutoAllow", askExternal |-> TRUE, parent |-> TRUE] : o \in {"none", "AutoDeny"}}

MCTasks ==
    {[impact |-> i, risk |-> k, uncertainty |-> u, preference |-> p] :
        i \in {0, 2}, k \in {0, 2}, u \in {"Clear", "Ambiguous"}, p \in {"Balanced", "CostFirst"}}
=============================================================================
