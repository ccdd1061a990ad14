\* At least once, dead letter queue on, redis guard: the opt-in durable mode.
SPECIFICATION Spec
CONSTANTS
  Delivery = "at_least_once"
  DlqMode = "on"
  GuardMode = "redis"
  MaxAttempts = 2
  StreamMaxlen = 0
  DrainBatch = 1
  MaxEntries = 3
  MaxFaults = 3
CHECK_DEADLOCK FALSE
INVARIANTS AckedMeansSettled InOrder
PROPERTIES  EventuallySettled KeepsPromise
