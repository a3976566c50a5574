\* Two handlers: an abandoned request may still commit while its retry runs.
SPECIFICATION Spec
CONSTANTS
  Path = {p, q}
  Val = {v, w}
  None = None
  Handlers = {h1, h2}
  MaxRows = 2
  MaxSeq = 3
SYMMETRY Interchangeable
INVARIANTS
  OutboxShape
  SentWasApplied
  WatermarkCovered
PROPERTY DeadEndIsReal
