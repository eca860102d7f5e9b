\* Every outcome class of both kinds of call, with every operator decision.
CONSTANTS
  SlotCount = 2
  Workers = {w1, w2}
  NoWork = noWork
  GenerationLimit = 2
  SemanticLimit = 2
  Parallel = 2
  GenerationReplies = {"succeeded", "retryable", "unknown"}
  SemanticReplies = {"succeeded", "contract"}
  MaxFaults = 0
SPECIFICATION Spec
CHECK_DEADLOCK FALSE
INVARIANTS RepeatsAuthorized SettledOnEvidence
PROPERTIES KeepsCalls
SYMMETRY Symmetry
