\* A console opens the stream of a run that is about to end; no fault.
SPECIFICATION Spec
CONSTANTS
  Settings <- MCSettings
  Messages <- MCMessages
  MaxRounds = 2
  MaxAttempts = 2
  MaxQueue = 1
  MaxFaults = 0
PROPERTIES StreamCloses
CHECK_DEADLOCK FALSE
