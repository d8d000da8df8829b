\* Sensors come and go, a scan may be cut short or race with itself, the ledger may
\* refuse, the login may be missed.
SPECIFICATION FairSpec
CONSTANTS
    s1 = s1
    s2 = s2
    air = air
    light = light
    both = both
    b1 = b1
    b2 = b2
    Sensors = {s1, s2}
    Metrics = {air, light, both}
    MetricsOf <- Shared
    Buses = {b1, b2}
    BusOf <- Apart
    Attempts = 2
    MaxEvents = 1
    MaxSwaps = 2
    Disturbances = {"scanTimeout", "mapRace", "failure"}
INVARIANTS
    TypeOK
    EngineFollowsDevice
PROPERTIES
    EngineFollowsBuses
CHECK_DEADLOCK FALSE
