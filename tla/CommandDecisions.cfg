\* Two commands with one key, one of them sealed twice, and a forged wire, on
\* concurrent handlers.
CONSTANTS
  c1 = c1  c2 = c2
  w1 = w1  w2 = w2  w3 = w3  w4 = w4
  Commands = {c1, c2}
  NoWire = noWire
  Key <- SharedKey
  Expected <- FirstVersion
  Wires = {w1, w2, w3, w4}
  CommandOf <- Resealed
  Forged = {w4}
  Handlers = {h1, h2}
  AttemptLimit = 2
  MaxVersion = 2
  AckIds = {i1}
  Acknowledged = {c1}
  MaxFaults = 1
SYMMETRY Symmetry
SPECIFICATION Spec
CHECK_DEADLOCK FALSE
INVARIANTS AppliedOnce RecordsTrue AckedIsDurable
PROPERTIES DecisionsFinal
