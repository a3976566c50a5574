\* One path and two events: room for a prune, a reset and a dead end; disturbances
\* end.
SPECIFICATION FairSyncSpec
CONSTANTS
  Path = {p}
  Val = {v}
  None = None
  Handlers = {h1}
  MaxRows = 1
  MaxSeq = 2
  MaxRebuilds = 0
VIEW Observed
INVARIANTS
  OutboxShape
PROPERTIES
  EventuallyReconciled
