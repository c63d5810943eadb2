----------------------------- MODULE MCAgentRun -----------------------------
(***************************************************************************)
(* The instances of AgentMachine, AgentRun and AgentLife that TLC checks,  *)
(* side by side: view says which of the three a behavior looks at, and the *)
(* others stay as they began.  In the life of the agent, a host has a      *)
(* local subagent and an external one, one of the three ways of routing,   *)
(* and injects two tools or, later, only one of them.                      *)
(***************************************************************************)
EXTENDS MCAgentMachine, AgentRun, AgentLife

MCAskName == [d \in {"coder", "remote"} |-> IF d = "coder" THEN "ask_coder" ELSE "ask_remote"]

MCRoutings ==
    {[kind |-> "PerSubagentTool", refs |-> {}], [kind |-> "SingleTool", refs |-> {}],
     [kind |-> "Rules", refs |-> {"remote"}]}

MCBaseSets == {{"read", "write"}, {"read"}}

\* A replacement, a patch that builds on it, and one that touches a delegate.
MCRequests ==
    {[op |-> "ReplaceToolSet", expected |-> 1, id |-> 2, remove |-> {}, add |-> {"read"}],
     [op |-> "PatchToolSet", expected |-> 2, id |-> 1, remove |-> {}, add |-> {"write"}],
     [op |-> "PatchToolSet", expected |-> 1, id |-> 2, remove |-> {"ask_coder"}, add |-> {}]}

\* Driven by the default handler, whose probe finds less than is declared: too
\* little for the first of the two modes.
MCRecipes ==
    {[mode |-> "Attachable", declared |-> declared_capabilities, probed |-> {"Streaming"},
      handler |-> "default"],
     [mode |-> "Managed", declared |-> declared_capabilities, probed |-> {"Streaming"},
      handler |-> "default"]}

VARIABLE view

MCInit ==
    /\ view \in {"machine", "run", "life"}
    /\ Init /\ RunInit /\ LifeInit
    /\ view # "life" => host = CHOOSE h \in {[base |-> b, routing |-> r, locals |-> {},
                                             externals |-> [e \in Externals |-> Absent]] :
                                               b \in BaseSets, r \in Routings} : MayAssemble(h)

MCNext ==
    \/ view = "machine" /\ Next /\ UNCHANGED <<runVars, lifeVars, view>>
    \/ view = "run" /\ RunNext /\ UNCHANGED <<vars, lifeVars, view>>
    \/ view = "life" /\ LifeNext /\ UNCHANGED <<vars, runVars, view>>

MCSpec ==
    /\ MCInit /\ [][MCNext]_<<vars, runVars, lifeVars, view>>
    /\ WF_vars(view = "machine" /\ DriverAnswers /\ UNCHANGED <<runVars, lifeVars, view>>)
    /\ WF_runVars(view = "run" /\ Poll /\ UNCHANGED <<vars, lifeVars, view>>)
    /\ WF_runVars(view = "run" /\ (Deliver \/ DeliverDone) /\ UNCHANGED <<vars, lifeVars, view>>)
=============================================================================
