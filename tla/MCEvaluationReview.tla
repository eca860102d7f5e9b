------------------------- MODULE MCEvaluationReview -------------------------
(* Small instances of EvaluationReview.                                    *)
EXTENDS EvaluationReview

Symmetry == Permutations(Reviewers)

CONSTANTS c1, c2

\* One candidate with a failed judgment that reviewers may contest, and one
\* without.
OneContested == c1 :> {1} @@ c2 :> {}

Exact == [sound |-> TRUE, rounding |-> FALSE]
Lacking == [sound |-> FALSE, rounding |-> TRUE]

AnyEvidence == {Exact, Lacking}
=============================================================================
