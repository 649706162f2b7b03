\* Two browsers are served by one configuration.
SPECIFICATION Spec

CONSTANTS
  Nil = Nil
  Empty = Empty
  Malformed = Malformed
  OptionsKey = "options"
  Browsers = {b1, b2}
  Sources <- MCSources
  Requests <- MCRequests

INVARIANTS
  EnvMergedByName
  SidecarsMergedByName
  FieldsInherited
  JoinedOnce
  EnvByPrecedence
  LabelsByPrecedence
