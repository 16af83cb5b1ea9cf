SPECIFICATION FairSpec
CONSTANTS
  m1 = m1  m2 = m2
  s1 = s1
  t1 = t1
  u1 = u1  u2 = u2
  Delivery = {m1}
  Sweeper = {s1}
  Target = {t1}
  TargetOf <- OneTarget
  Unit = {u1}
  Refusable = {}
  Silent = {}
  ReportAttempts = 1
  Events = {"timeout", "completion lost"}
CHECK_DEADLOCK FALSE
PROPERTIES
  AwaitingEnds
