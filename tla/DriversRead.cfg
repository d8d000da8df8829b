\* Each driver, with two requests, a scan, a close and transactions that fail.
SPECIFICATION FairSpec
CONSTANTS
    Kinds <- AllKinds
    Requests = {q1, q2}
    Scans = {scan}
    MaxCloses = 1
    Attempts = 2
    Disturbances = {"failure"}
    Nil = Nil
INVARIANTS
    TypeOK
    OwnConversions
    ZerosOnlyIfClosed
    ReadySensors
    PanicsOnlyIfClosed
PROPERTIES
    OperationsEnd
CHECK_DEADLOCK FALSE
