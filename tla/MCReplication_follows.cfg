\* One handler, with the fairness of a drain that is not cut off for ever.
SPECIFICATION FairSpec
CONSTANTS
  Path = {p, q}
  Val = {v, w}
  None = None
  Handlers = {h1}
  MaxRows = 2
  MaxSeq = 3
INVARIANTS
  CentralIsPrefix
  LogExplainsLocal
PROPERTIES
  Follows
  EventuallySynced
