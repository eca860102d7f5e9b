\* Two Sessions compete for one slot of their assessment; fair workers, bounded faults.
CONSTANTS
  s1 = s1
  s2 = s2
  Sessions = {s1, s2}
  Workers = {w1, w2}
  Subject <- TwoUsers
  Assessments <- Overlapping
  ActiveLimits <- OneSlot
  DailyLimits <- TwoADay
  MaxRuns = 1
  AttemptLimit = 2
  Requests = {q1}
  NoRequest = noRequest
  MaxDay = 0
  MaxFaults = 1
SPECIFICATION FairSpec
CHECK_DEADLOCK FALSE
INVARIANTS SlotsHeld
PROPERTIES EveryRunEnds
