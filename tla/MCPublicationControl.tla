------------------------ MODULE MCPublicationControl ------------------------
(* An exact and a global selector, with a Run evaluated for each. *)
EXTENDS PublicationControl, TLC

CONSTANTS exact, global, r1, r2

MCSpecificity == (exact :> 2) @@ (global :> 0)
MCSelectorOf == (r1 :> exact) @@ (r2 :> global)
Symmetry == Permutations(Callers) \cup Permutations(Commands)
=============================================================================
