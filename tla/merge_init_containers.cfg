\* Template and version both name an init container.
SPECIFICATION Spec

CONSTANTS
  Nil = Nil
  Empty = Empty
  Malformed = Malformed
  OptionsKey = "options"
  Browsers = {b1}
  Sources <- WithInits
  Requests <- MCRequests

INVARIANT
  InitsMergedByName
