\* One Session and a chain of retries over three days, two workers that may build
\* different requests.
CONSTANTS
  s1 = s1
  s2 = s2
  Sessions = {s1}
  Workers = {w1, w2}
  Subject <- SameUser
  Assessments <- SameAssessment
  ActiveLimits <- OneSlot
  DailyLimits <- OneADay
  MaxRuns = 3
  AttemptLimit = 2
  Requests = {q1, q2}
  NoRequest = noRequest
  MaxDay = 2
  MaxFaults = 2
SYMMETRY Symmetry
SPECIFICATION Spec
CHECK_DEADLOCK FALSE
INVARIANTS SingleSend SingleOwner TablesAgree RetriesSafe DailyBudget
PROPERTIES CallSettledOnce
