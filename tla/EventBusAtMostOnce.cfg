\* The default configuration: at most once, no dead letter queue, no guard.
SPECIFICATION Spec
CONSTANTS
  Delivery = "at_most_once"
  DlqMode = "off"
  GuardMode = "off"
  MaxAttempts = 2
  StreamMaxlen = 0
  DrainBatch = 1
  MaxEntries = 3
  MaxFaults = 3
CHECK_DEADLOCK FALSE
INVARIANTS AtMostOnce
PROPERTIES EventuallyTaken
