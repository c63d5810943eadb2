--------------------------- MODULE MCAgentMachine ---------------------------
(***************************************************************************)
(* Model-checking instances of AgentMachine.  Calls with the same approval *)
(* requirement are interchangeable, and a reply asks for both calls of a   *)
(* kind or for none: two results in either order, two approvals in turn.   *)
(***************************************************************************)
EXTENDS AgentMachine

FourCalls == {"a1", "a2", "g1", "g2"}
TwoGated == {"g1", "g2"}
BothFree == {{}, {"a1", "a2"}}
BothGated == {<< >>, <<"g1", "g2">>}

FreeCalls == {"a1", "a2"}
NoQueue == {<< >>}
=============================================================================
