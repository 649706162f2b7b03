\* Every pass begins with caches that have caught up, and nothing fails; the name is used twice.
\* Container 2 is not critical.
SPECIFICATION HSpec

CONSTANTS
  Names = {n1}
  Containers = {1, 2}
  Critical = {1}
  Own = own
  ForeignFinalizers = {}
  Reported = {"backoff", "running", "terminated"}
  LookupOutcomes = {"found", "noConfig"}
  Fresh = TRUE
  MaxBrowsers = 2
  MaxPods = 3
  MaxLosses = 0
  MaxLag = 1
  MaxFaults = 0
  MaxCrashes = 0

INVARIANTS
  OnePodPerBrowser
  CleanupBeforeRelease
PROPERTY
  KeepsItsPromise

\* The system stops once every Browser is settled.
CHECK_DEADLOCK FALSE
