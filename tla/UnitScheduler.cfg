SPECIFICATION FairSpec
CONSTANTS
  a = a  b = b  c = c
  aSweep = aSweep  aUnit = aUnit  bSweep = bSweep  aUnit2 = aUnit2  cSweep = cSweep
  GlobalPool = GlobalPool
  Tenant = {a, b, c}
  Request = {aSweep, aUnit, bSweep, aUnit2, cSweep}
  TenantOf <- RequestsOf
  Want <- Wants
  MaxUnits = 4
  MaxUnitsPerTenant = 2
  Stuck = {a}
CHECK_DEADLOCK FALSE
INVARIANTS
  TypeOK
  SlotsAccounted
  NoLostWakeup
PROPERTIES
  OthersProceed
