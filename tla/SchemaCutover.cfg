\* One cut-over with its rollbacks and cleanups, two faults anywhere.
CONSTANTS
  MaxWrites = 3
  MaxStops = 2
SPECIFICATION CutoverSpec
CHECK_DEADLOCK FALSE
INVARIANTS DataKept LayoutServed
PROPERTIES ForwardOnce
