\* Every kind of author, with and without a trace, and two kinds of fault.
SPECIFICATION Spec
CONSTANTS
  Settings <- MCSettings
  Messages <- MCMessages
  MaxRounds = 2
  MaxAttempts = 2
  MaxQueue = 1
  MaxFaults = 2
INVARIANTS AuthoringTypeOK LaterStepsArrive 
PROPERTIES RunCloses LiveStreamCloses
CHECK_DEADLOCK FALSE
