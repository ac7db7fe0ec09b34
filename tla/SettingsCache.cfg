\* Three concurrent requests of any kind, one failed call.
CONSTANTS
    Requests = {r1, r2, r3}
    Default = Default
    MaxVersions = 4
    MaxFaults = 1
SPECIFICATION Spec
INVARIANTS FloorHolds 
PROPERTIES KeepsRegister SettlesFresh RequestsEnd
\* All requests are done and the copy has expired.
CHECK_DEADLOCK FALSE
