\* One path, one event per index, an index that is lost once; disturbances end.
SPECIFICATION FairSyncSpec
CONSTANTS
  Path = {p}
  Val = {v, w}
  None = None
  Handlers = {h1}
  MaxRows = 1
  MaxSeq = 1
  MaxRebuilds = 1
VIEW Observed
INVARIANTS
  MarkerIsHonest
PROPERTIES
  EventuallyReconciled
