\* An edit may take versions out of a configuration.
SPECIFICATION Spec

CONSTANTS
  Configs = {"a", "b"}
  Versions <- MCVersions
  KeyOf <- MCKeyOf
  Contents <- Shrinking
  MaxEdits = 2
  MaxFaults = 0
  MaxCrashes = 0

INVARIANT
  OnlyDeclaredServed

\* The system rests once everybody has heard of the last edit.
CHECK_DEADLOCK FALSE
