SPECIFICATION FairSpec
CONSTANTS
  w1 = w1  w2 = w2
  c1 = c1  c2 = c2
  NoChannel = NoChannel
  Worker = {w1, w2}
  Channel = {c1, c2}
  MaxAttempts = 2
  RetryBatchSize = 2
  DeliveryEvents = {"crash", "record lost", "sync lost", "history lost"}
  FaultLimit = 2
CHECK_DEADLOCK FALSE
INVARIANTS
  TypeOK
  SentMeansDelivered
  HistoryTellsOutcome
PROPERTIES
  GivenUpAfterAllAttempts
  NotResent
  RowsSettle
