------------------------ MODULE MCSolutionGovernance ------------------------
(* Instance of SolutionGovernance for TLC: one solution, one prompt draft   *)
(* that may target the solution's version, one judge draft.                 *)
EXTENDS SolutionGovernance, TLC

Symmetry == Permutations(Callers) \cup Permutations(Commands)

=============================================================================
