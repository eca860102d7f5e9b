\* Three releases on the module layout and one that migrates it further.
CONSTANTS
  Releases = {"a", "b", "c", "d"}
  Next41 = {"d"}
  First = "a"
  Executor = "b"
  KeepLast = 2
  MaxCommands = 7
  MaxFaults = 1
SPECIFICATION Spec
CHECK_DEADLOCK FALSE
INVARIANTS FamilyServed StateAccountable
PROPERTIES ClosedAsIntended
