\* Fair workers, scanner and drain; nothing is assumed of the operator.  One
\* call of the Run at a time, and two slots: a block may be overtaken.
CONSTANTS
  SlotCount = 2
  Workers = {w1, w2}
  NoWork = noWork
  GenerationLimit = 2
  SemanticLimit = 1
  Parallel = 1
  GenerationReplies = {"succeeded", "unknown"}
  SemanticReplies = {"succeeded", "contract"}
  MaxFaults = 1
SPECIFICATION FairSpec
CHECK_DEADLOCK FALSE
INVARIANTS ExecutionsSound
PROPERTIES EverythingSettles
