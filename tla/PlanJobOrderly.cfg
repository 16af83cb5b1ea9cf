SPECIFICATION Spec
CONSTANTS
  r1 = r1  r2 = r2
  p1 = p1  p2 = p2
  t1 = t1
  u1 = u1  u2 = u2
  None = None
  Run = {r1, r2}
  Replica = {p1, p2}
  Home <- HomeApart
  Target = {t1}
  TargetOf <- OneTarget
  Unit = {u1, u2}
  Swept = {u2}
  Refusable = {u1}
  AutoResumeLimit = 1
  UnitInsertBatch = 2
  Events = {"cancel", "retry", "stop", "crash", "db", "scan"}
CHECK_DEADLOCK FALSE
INVARIANTS
  OneScanner
  CompletedMeansScanned
  CompletedTargetHasDoneUnit
PROPERTIES
  CompletedTargetsKeepOutcome
