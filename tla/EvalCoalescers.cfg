SPECIFICATION FairSpec
CONSTANTS
  q1 = q1  q2 = q2
  k1 = k1  k2 = k2
  None = None
  Request = {q1, q2}
  Caller = {k1, k2}
  CommitLimit = 1
  MaxCoalescedFollowups = 1
  EvalFailures = {"error", "timeout", "panic"}
CHECK_DEADLOCK FALSE
INVARIANTS
  TypeOK
  SuccessIsCovered
  JoinableMeansWaiting
PROPERTIES
  CleanRunCoversAll
  RequestsAnswered
