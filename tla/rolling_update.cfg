\* Each pass of either manager begins with caches that have caught up; the old one is stopped anywhere.
SPECIFICATION UpdateSpec

CONSTANTS
  Names = {n1}
  Containers = {1}
  Critical = {1}
  Own = own
  ForeignFinalizers = {}
  Reported = {}
  LookupOutcomes = {"found"}
  Fresh = TRUE
  MaxBrowsers = 1
  MaxPods = 1
  MaxLosses = 0
  MaxLag = 1
  MaxFaults = 0
  MaxCrashes = 0

INVARIANT
  NewNeverForgets
PROPERTY
  DeletionCompletes

\* The system rests once the Browser is settled.
CHECK_DEADLOCK FALSE
