\* No key is declared by two configurations; one update fails, and the manager restarts once.
SPECIFICATION FairSpec

CONSTANTS
  Configs = {"a", "b"}
  Versions <- MCVersions
  KeyOf <- MCKeyOf
  Contents <- Shrinking
  MaxEdits = 2
  MaxFaults = 1
  MaxCrashes = 1

INVARIANTS
  StoreTypeOK
  DeclaredServed
PROPERTIES
  FoundStaysFound
  NoRollback
  EventuallyServed
  EditsKept
  ConfigDeletionCompletes

\* The system rests once everybody has heard of the last edit.
CHECK_DEADLOCK FALSE
