\* Rules only, embeddings and drop mode; dry runs first or the cluster at once.
SPECIFICATION Spec
CONSTANTS
  Signatures = {"surge", "odd"}
  Signs <- MCSigns
  Books = {"rollback-deploy", "restart-pod", "scale-service"}
  Fits <- MCFits
  NoFit = NoFit
  SelectAt = 4500
  SuppressAt = 6000
  MinSamples = 2
  Deployments <- MCDeployments
  Registries <- MCRegistries
  MaxIncidents = 3
  MaxChanges = 1
  MaxFaults = 1
INVARIANTS DiagnosisTypeOK UnattendedIsEarned BoostIsBounded
