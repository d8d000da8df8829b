\* Two changes of the ledger whose handlers may overtake each other.
SPECIFICATION Spec
CONSTANTS
    a1 = a1
    a2 = a2
    r1 = r1
    r2 = r2
    p1 = p1
    p2 = p2
    Nil = Nil
    Assets = {a1}
    Requirements = {r1}
    Places = {p1, p2}
    AssetOf <- OneAsset
    OneTime = {}
    Disturbances = {"revocation"}
    SensorsAtStart = FALSE
    EngineFirst = TRUE
    ObserverFirst = TRUE
    MaxEvents = 2
INVARIANTS
    NoForgottenRequest
    CachedRequestAlive
SYMMETRY PlaceSymmetry
CHECK_DEADLOCK FALSE
