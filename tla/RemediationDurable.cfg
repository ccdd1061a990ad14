\* At least once with the redis guard, and every kind of fault.
SPECIFICATION Spec
CONSTANTS
  o1 = o1
  o2 = o2
  Ids = {i1}
  Occurrences = {o1, o2}
  IdOf <- MCIdOf
  Threads = {t1}
  Delivery = "at_least_once"
  GuardMode = "redis"
  Diagnoses <- MCDiagnoses
  Quiet = {o2}
  Playbooks <- MCPlaybooks
  FaultKinds = {"audit", "thread", "process"}
  MaxFaults = 2
CHECK_DEADLOCK FALSE
INVARIANTS AtMostOneExecution OneVerdict VerdictMatchesCluster
PROPERTIES ExecutesOnlyApproved KeepsPromise
