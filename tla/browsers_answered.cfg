\* A call fails, the manager restarts and a pod is evicted or deleted from outside. No kubelet has
\* to answer. MaxPods is one for the Browser and one for each disturbance: the quota is never what
\* limits.
SPECIFICATION FairSpec

CONSTANTS
  Names = {n1}
  Containers = {1}
  Critical = {1}
  Own = own
  ForeignFinalizers = {}
  Reported = {"terminated"}
  LookupOutcomes = {"found", "noConfig"}
  Fresh = TRUE
  MaxBrowsers = 1
  MaxPods = 4
  MaxLosses = 1
  MaxLag = 1
  MaxFaults = 1
  MaxCrashes = 1

INVARIANT
  PodsAccountedFor
PROPERTIES
  FailedIsTerminal
  DeletionCompletes
  CrashesNoticed
  EveryBrowserAnswered

\* The system stops once every Browser is settled.
CHECK_DEADLOCK FALSE
