----------------------- MODULE MCGenerationExecution -----------------------
(***************************************************************************)
(* Small instances of GenerationExecution: one Session with its retries,   *)
(* or two Sessions of two users that share an assessment and compete for   *)
(* its only slot.                                                          *)
(***************************************************************************)
EXTENDS GenerationExecution, TLC

CONSTANTS s1, s2

TwoUsers == (s1 :> "u1") @@ (s2 :> "u2")
Overlapping == (s1 :> {"a"}) @@ (s2 :> {"a", "b"})

SameUser == [s \in Sessions |-> "u"]
SameAssessment == [s \in Sessions |-> {"a"}]

OneSlot == [org |-> 2, user |-> 2, assessment |-> 1]
OneADay == [org |-> 2, user |-> 1, assessment |-> 2]
TwoADay == [org |-> 3, user |-> 2, assessment |-> 2]

Symmetry == Permutations(Workers) \cup Permutations(Requests)
=============================================================================
