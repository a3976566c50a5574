\* The smallest instance with a prune before a reset; disturbances end.
SPECIFICATION FairSyncSpec
CONSTANTS
  Path = {p}
  Val = {v}
  None = None
  Handlers = {h1}
  MaxRows = 1
  MaxSeq = 2
  MaxRebuilds = 0
VIEW Observed
PROPERTIES
  DeadEndIsRepaired
