\* The caches lag.
SPECIFICATION FairSpec

CONSTANTS
  Names = {n1}
  Containers = {1}
  Critical = {1}
  Own = own
  ForeignFinalizers = {}
  Reported = {"creating", "backoff", "running", "terminated"}
  LookupOutcomes = {"found", "noConfig"}
  Fresh = FALSE
  MaxBrowsers = 1
  MaxPods = 1
  MaxLosses = 0
  MaxLag = 1
  MaxFaults = 0
  MaxCrashes = 0

PROPERTIES
  CrashesNoticed
  StartsOrFails
  StatusConverges

\* The system stops once every Browser is settled.
CHECK_DEADLOCK FALSE
