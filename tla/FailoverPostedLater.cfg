\* Everything may fail: the ledger, the database, the device and the network, which
\* comes back.
SPECIFICATION FairSpec
CONSTANTS
    m1 = m1
    m2 = m2
    k1 = k1
    k2 = k2
    t1 = t1
    t2 = t2
    i1 = i1
    i2 = i2
    Nil = Nil
    Readings = {m1, m2}
    Keys = {k1, k2}
    KeyOf <- OwnKeys
    Timers = {t1, t2}
    Reposters = {i1, i2}
    Disturbances = {"refusal", "storeFailure", "deleteFailure"}
    MaxOutages = 1
    MaxCrashes = 1
INVARIANTS
    TypeOK
    CachedNotLost
    NoneStranded
PROPERTIES
    PostedLater
CHECK_DEADLOCK FALSE
