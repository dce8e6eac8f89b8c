SPECIFICATION MixedSpec
CONSTANTS
  Session = {s1, s2, s3}
  Payment = {p1, p2}
  Code = {c1, c2}
  Email = {e1, e2}
  MockMode = FALSE
  Null = Null
  Call = {c1, c2}
  Password = {e1, e2}
  RandomPassword = e0
  CaptchaAfter = 1
  LockAfter = 2
  MaxIssued = 2
SYMMETRY Symmetry
INVARIANTS
  MixedTypeOK
  RegisteredTokensAreUsed
  TokensArePaid
  WorkflowsHaveMembers
  LockNeedsFailures
  SequentialCallsAgree
PROPERTY SeenLockHolds
