\* The live overlay's grouping and suppression, on the durable bus.
SPECIFICATION Spec
CONSTANTS
  cpu = cpu
  latency = latency
  Series = {cpu, latency}
  Bucket <- MCBucket
  Provable <- MCProvable
  Window = 1
  MinEvents = 2
  SuppressMode = "quiet"
  Delivery = "at_least_once"
  GuardMode = "redis"
  MaxEvents = 4
  MaxBacklog = 1
  MaxTime = 2
  MaxFaults = 1
CHECK_DEADLOCK FALSE
INVARIANTS InOneSituation IncidentIsSustained OneStraggler NothingStranded
INVARIANTS ReportedOnce
PROPERTIES SustainedIsTold
