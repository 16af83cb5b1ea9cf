SPECIFICATION FairSpec
CONSTANTS
  w1 = w1  w2 = w2
  b1 = b1
  Free = Free  Lost = Lost
  Worker = {w1, w2}
  Row = {1, 2}
  BatchOf <- OneBatch
  Survivor <- SecondFolds
  Late = {2}
  BatchClaimRowLimit = 2
  ImportChunkSize = 1
  MaxAttempts = 1
  MaxTransientAttempts = 2
  Failures = {"permanent", "transient", "plain"}
  FaultLimit = 1
CHECK_DEADLOCK FALSE
INVARIANTS
  TypeOK
  LandedWereImported
  OutageRejectsNothing
PROPERTIES
  FateIsFinal
  ChargedByItsClaim
  FoldedGoTogether
  RowsSettle
