SPECIFICATION FairSpec
CONSTANTS
  Item = {i, j}
  Worker = {w1, w2}
  MaxFixes = 1
  MaxWrites = 3
  MaxFaults = 1
PROPERTIES
  OnlyLateReadsSpoil
  EventuallyIndexed
