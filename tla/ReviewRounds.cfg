SPECIFICATION ReviewSpec
CONSTANTS
  c1 = c1
  c2 = c2
  Candidates = {c1, c2}
  FailedClaims <- OneContested
  Reviewers = {u1, u2}
  Commands = {k1}
  NoCommand = NoCommand
  CorrectionLimit = 1
  RoundLimit = 2
  Evidence <- AnyEvidence
  Skew = 1
  MaxVersion = 8
SYMMETRY Symmetry
CHECK_DEADLOCK FALSE
INVARIANTS ApprovedAccountably PlansCommit DocumentSound
PROPERTY SignaturesKept
