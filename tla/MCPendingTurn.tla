---------------------------- MODULE MCPendingTurn ----------------------------
(***************************************************************************)
(* Model-checking instance of PendingTurn.                                 *)
(***************************************************************************)
EXTENDS PendingTurn, TLC

CONSTANTS p1, p2

Reply(role, ok, uses) == [role |-> role, wellFormed |-> ok, uses |-> uses]

\* A text reply, single calls, two parallel calls, a repeated provider id, a
\* block outside the grammar and a reply of another role.
MCResponses ==
    {Reply("assistant", TRUE, << >>), Reply("assistant", TRUE, <<p1>>),
     Reply("assistant", TRUE, <<p2>>), Reply("assistant", TRUE, <<p1, p2>>),
     Reply("assistant", TRUE, <<p2, p2>>),
     Reply("assistant", FALSE, << >>), Reply("user", TRUE, << >>)}

IdSymmetry ==
    Permutations(MsgIds) \cup Permutations(CallIds) \cup Permutations(TurnIds)
=============================================================================
