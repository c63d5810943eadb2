------------------------------ MODULE MCCollab ------------------------------
(* The instance of Collab that TLC checks. *)
EXTENDS Collab, TLC

\* Everything, and a configuration that enables less than a snapshot holds.
MCConfigs == {{"plan", "mailbox", "blackboard", "artifacts"}, {"mailbox"}}

Symmetry == Permutations(Locals) \cup Permutations(Tasks)
=============================================================================
