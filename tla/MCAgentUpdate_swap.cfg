SPECIFICATION FairSpec
CONSTANTS
    s = s
    NoSha = NoSha
    NoFile = NoFile
    Versions <- MCVersions
    First <- V1
    Good <- MCGood
    Early <- MCEarly
    Appliers = {run, trigger}
    MaxAttempts = 3
    MaxFaults = 3
CONSTRAINT Unmarred
INVARIANTS NeverLosesBinary FallbackIsProven  CrashLoopEnds
 
