----------------------------- MODULE MCCutover -----------------------------
(***************************************************************************)
(* Instance of Cutover for TLC: two cutover processes, three task commands.*)
(***************************************************************************)
EXTENDS Cutover, TLC

Symmetry == Permutations(Commands) \cup Permutations(Runs)
=============================================================================
