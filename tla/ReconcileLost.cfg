SPECIFICATION Spec
CONSTANTS
  q1 = q1  q2 = q2
  k1 = k1  k2 = k2
  None = None
  Request = {}
  Caller = {k1, k2}
  CommitLimit = 2
  MaxCoalescedFollowups = 1
  EvalFailures = {}
CHECK_DEADLOCK FALSE
INVARIANT NoneDropped
