SPECIFICATION FairSpec
CONSTANTS
  Transfer = {t1}
  v1 = v1
  v2 = v2
  Version = {v1, v2}
  Content <- MCContent
  Hole = "hole"
  NoFile = NoFile
  FullMax = 2
  Call = {h1, h2}
  None = None
  MaxEdits = 1
  MaxFaults = 2
CONSTRAINT Disturbed
INVARIANTS TypeOK ServedIsVerified
PROPERTIES EventuallyOver UploadEnds RetrySucceeds
CHECK_DEADLOCK FALSE
