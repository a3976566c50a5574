--------------------------- MODULE MCAgentUpdate ---------------------------
EXTENDS AgentUpdate
CONSTANTS s
V1 == [rel |-> 1, sha |-> NoSha]
V2 == [rel |-> 2, sha |-> NoSha]
V2s == [rel |-> 2, sha |-> s]
V3 == [rel |-> 3, sha |-> NoSha]
MCVersions == {V1, V2, V2s, V3}
MCGood == {V1, V2}
MCEarly == {V3}

\* States the properties speak about; liveness excepts what follows them too.
Unmarred == ~marred
=============================================================================
