SPECIFICATION FairSpec
CONSTANTS
  r1 = r1  r2 = r2
  p1 = p1  p2 = p2
  t1 = t1
  u1 = u1  u2 = u2
  None = None
  Run = {r1, r2}
  Replica = {p1, p2}
  Home <- HomeApart
  Target = {t1}
  TargetOf <- OneTarget
  Unit = {u1}
  Swept = {u1}
  Refusable = {u1}
  AutoResumeLimit = 1
  UnitInsertBatch = 2
  Events = {"crash", "stop", "scan"}
CHECK_DEADLOCK FALSE
PROPERTIES
  RunningEnds
