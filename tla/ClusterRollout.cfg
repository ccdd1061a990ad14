\* Every plan and metric, one failed call, production on two or three replicas.
SPECIFICATION Spec
CONSTANTS
  Plans <- MCPlans
  Metrics <- MCMetrics
  Values = {0, 5, 8, 12}
  ZThreshold = 3
  Ceiling = 10
  RatioCut = 6
  MinReplicas = 1
  MaxReplicas = 3
  Originals = {2, 3}
  HasRevision = TRUE
  MaxFaults = 1
CHECK_DEADLOCK FALSE
INVARIANTS ClusterTypeOK RehearsalLeavesNoTrace RollbackRestores NeverHalfRolledOut HealthyIsNormal
