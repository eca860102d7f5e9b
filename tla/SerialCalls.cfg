\* One slot, every outcome and every operator decision; fair consumers and SDK.
CONSTANTS
  SlotCount = 1
  Workers = {w1, w2}
  NoWork = noWork
  GenerationLimit = 2
  SemanticLimit = 1
  Outcomes = {"succeeded", "retryable", "refused", "unknown"}
  MaxFaults = 1
SPECIFICATION FairSpec
CHECK_DEADLOCK FALSE
INVARIANTS ExecutionsSound WitnessTrue
PROPERTIES CallsSettle KeepsCalls
