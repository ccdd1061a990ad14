\* The durable settings with the rebuild, and the default ones without it.
SPECIFICATION Spec
CONSTANTS
  s1 = s1
  s2 = s2
  Situations = {s1, s2}
  Histories <- MCHistories
  End = 6
  Settings <- MCSettings
  MaxSituations = 1
  MaxOutcomes = 1
  MaxEntries = 2
  MaxQueue = 1
  MaxComing = 1
  MaxFaults = 1
CHECK_DEADLOCK FALSE
INVARIANTS ReadTypeOK NothingMissing ReplayAgrees NoMissedChange
PROPERTIES NeverBackwards
