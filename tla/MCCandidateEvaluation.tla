----------------------- MODULE MCCandidateEvaluation -----------------------
(* Small instances of CandidateEvaluation: identical workers.              *)
EXTENDS CandidateEvaluation

Symmetry == Permutations(Workers)
=============================================================================
