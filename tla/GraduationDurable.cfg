\* The opt-in durable bus: redelivery, with the redis guard.
SPECIFICATION Spec
CONSTANTS
  feedback = feedback
  admin = admin
  alice = alice
  librarian = librarian
  Actors = {feedback, admin, alice, librarian}
  Permissions <- MCPermissions
  Feedback = feedback
  Seeds = {}
  Drafts = {d1}
  Threads = {t1, t2}
  Nobody = nobody
  Delivery = "at_least_once"
  GuardMode = "redis"
  MinSuccesses = 2
  CountSimulated = FALSE
  MaxRuns = 3
  MaxActs = 2
  MaxFaults = 1
CHECK_DEADLOCK FALSE
INVARIANTS AutoIsEarned UnattendedFailureDemotes
PROPERTIES GraduatesOnlyClean FailureEndsAutomation
