\* A requirement that may be revoked, of an asset that comes and goes.
SPECIFICATION FairSpec
CONSTANTS
    a1 = a1
    a2 = a2
    r1 = r1
    r2 = r2
    p1 = p1
    p2 = p2
    Nil = Nil
    Assets = {a1}
    Requirements = {r1}
    Places = {p1, p2}
    AssetOf <- OneAsset
    OneTime = {}
    Disturbances = {"revocation", "assetRemoval"}
    SensorsAtStart = FALSE
    EngineFirst = TRUE
    ObserverFirst = TRUE
    MaxEvents = 1
PROPERTIES
    RequestActedOn
CHECK_DEADLOCK FALSE
