SPECIFICATION Spec
CONSTANTS
  w1 = w1  w2 = w2
  c1 = c1  c2 = c2
  NoChannel = NoChannel
  Worker = {w1, w2}
  Channel = {c1, c2}
  MaxAttempts = 2
  RetryBatchSize = 2
  DeliveryEvents = {"slow"}
  FaultLimit = 1
CHECK_DEADLOCK FALSE
PROPERTIES
  NotResent
