CONSTANTS
    MaxCmds = 2
    Asked = {"suspend"}
    Flag = {on, off}
    Boot = off
    None = None
    Calls = {k1, k2}
    MaxAttempts = 2
    PollMax = 1
SYMMETRY Interchangeable
SPECIFICATION Spec
CONSTRAINT Promising
INVARIANTS
    LatestToggleWins
