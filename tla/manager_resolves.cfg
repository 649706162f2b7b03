\* The Browser is created before, between or after the edits; one call fails, the manager restarts once.
SPECIFICATION ManagerSpec

CONSTANTS
  Names = {n1}
  Containers = {1}
  Critical = {1}
  Own = own
  ForeignFinalizers = {}
  Reported = {}
  LookupOutcomes = {"found", "noConfig"}
  Fresh = TRUE
  MaxBrowsers = 1
  MaxPods = 1
  MaxLosses = 0
  MaxLag = 1
  MaxFaults = 1
  MaxCrashes = 1
  Configs = {"a"}
  Versions <- MCVersions
  KeyOf <- MCKeyOf
  Contents <- MCContents
  Asked <- MCAsked
  MaxEdits = 2

INVARIANTS
  PlacedConfigFound
  NeverOlderConfig

\* The system rests once the Browser is settled and everybody has heard of the last edit.
CHECK_DEADLOCK FALSE
