\* A restart replays an incident that was fixed and has recurred.
SPECIFICATION Spec
CONSTANTS
  s1 = s1
  s2 = s2
  Situations = {s1, s2}
  Histories <- MCHistories
  End = 6
  Settings <- MCReplaying
  MaxSituations = 1
  MaxOutcomes = 1
  MaxEntries = 2
  MaxQueue = 1
  MaxComing = 1
  MaxFaults = 0
CHECK_DEADLOCK FALSE
INVARIANTS OutcomeIsItsOwn
