SPECIFICATION FairSpec
CONSTANTS
  p1 = p1
  p2 = p2
  v1 = v1
  v2 = v2
  Path = {p1, p2}
  Version = {v1, v2}
  Size <- MCSize
  Quick <- MCQuick
  Mid <- MCMid
  Targets <- MCTargets
  None = None
  FlushEvery = 1
  FirstDisk <- MCFirstDisk
  Depths = {1, 3}
  MaxItems = 4
  MaxEdits = 1
  MaxFaults = 2
INVARIANT TypeOK
PROPERTIES
  NoFalseTombstone
  IdentityKept
  RunEnds
  EventuallyMirrors
  EventuallyHashed
