----------------------- MODULE MCEvaluationAdmission ------------------------
(* Limits of one or two active Runs, a Run costing one call. *)
EXTENDS EvaluationAdmission

CONSTANTS ActiveLimits, DailyLimits

MCLimits == [active : ActiveLimits, daily : DailyLimits]
MCDefault == [active |-> 1, daily |-> 2]
MCCeiling == [active |-> 2, daily |-> 2]
MCLowered == [active |-> 1, daily |-> 1]
Symmetry == Permutations(Callers) \cup Permutations(QuotaCommands)
=============================================================================
