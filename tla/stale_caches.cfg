\* The caches lag, one call fails, one pod is evicted or deleted, the manager restarts once.
SPECIFICATION Spec

CONSTANTS
  Names = {n1}
  Containers = {1}
  Critical = {1}
  Own = own
  ForeignFinalizers = {f}
  Reported = {"terminated"}
  LookupOutcomes = {"found", "noConfig"}
  Fresh = FALSE
  MaxBrowsers = 1
  MaxPods = 1
  MaxLosses = 1
  MaxLag = 1
  MaxFaults = 1
  MaxCrashes = 1

INVARIANTS
  TypeOK
  NeverForgotten
PROPERTIES
  DeletionIsFinal
  ForeignCleanupKept

\* The system stops once every Browser is settled.
CHECK_DEADLOCK FALSE
