SPECIFICATION Spec
CONSTANTS
  m1 = m1  m2 = m2
  s1 = s1
  t1 = t1
  u1 = u1  u2 = u2
  Delivery = {m1, m2}
  Sweeper = {s1}
  Target = {t1}
  TargetOf <- OneTarget
  Unit = {u1}
  Refusable = {u1}
  Silent = {}
  ReportAttempts = 2
  Events = {"cancel", "retry", "crash", "timeout", "scan", "completion lost"}
CHECK_DEADLOCK FALSE
INVARIANTS
  TypeOK
  StoredOnce
PROPERTIES
  StoredByLatestDispatch
  NothingStoredAfterEnd
  KeepsLedger
