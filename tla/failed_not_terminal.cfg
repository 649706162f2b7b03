SPECIFICATION Spec

CONSTANTS
  Names = {n1}
  Containers = {1}
  Critical = {1}
  Own = own
  ForeignFinalizers = {}
  Reported = {"running", "terminated"}
  LookupOutcomes = {"found"}
  Fresh = FALSE
  MaxBrowsers = 1
  MaxPods = 2
  MaxLosses = 0
  MaxLag = 1
  MaxFaults = 0
  MaxCrashes = 0

PROPERTY
  FailedIsTerminal

\* The system stops once every Browser is settled.
CHECK_DEADLOCK FALSE
