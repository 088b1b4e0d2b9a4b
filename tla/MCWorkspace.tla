---------------------------- MODULE MCWorkspace ----------------------------
(***************************************************************************)
(* Instance of Workspace for TLC: tasks "a" and "b" share a worktree and a *)
(* branch, "c" is inline; "b" is reviewed and may change nothing, "a" has  *)
(* no commands to verify it.                                               *)
(***************************************************************************)
EXTENDS Workspace, TLC

MCTree == [t \in Tasks |-> IF t = "c" THEN Root ELSE "wt"]
MCBranch == [t \in Tasks |-> IF t = "c" THEN "main" ELSE "topic"]
MCAllowed == [t \in Tasks |-> IF t = "b" THEN {} ELSE Areas]
Symmetry == Permutations(Runs)
=============================================================================
