\* The operator still subscribing, the observer still registering, and sensors found by Start itself.
SPECIFICATION Spec
CONSTANTS
    a1 = a1
    a2 = a2
    r1 = r1
    r2 = r2
    p1 = p1
    p2 = p2
    Nil = Nil
    Assets = {a1}
    Requirements = {r1}
    Places = {p1, p2}
    AssetOf <- OneAsset
    OneTime = {}
    Disturbances = {"revocation", "relocation", "queryFailure"}
    SensorsAtStart = TRUE
    EngineFirst = FALSE
    ObserverFirst = FALSE
    MaxEvents = 1
INVARIANTS
    CachedRequestAlive
SYMMETRY PlaceSymmetry
CHECK_DEADLOCK FALSE
