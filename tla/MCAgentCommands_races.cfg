CONSTANTS
    MaxCmds = 1
    Asked = {"check", "suspend", "job", "update"}
    Flag = {off}
    Boot = off
    None = None
    Calls = {k1, k2, k3}
    MaxAttempts = 2
    PollMax = 2
SPECIFICATION FairSpec
INVARIANTS
    DeliveryBounded
    DoneWasRun
    EndIsExplained
PROPERTIES
    NeverRevived
    EventuallyEnds
