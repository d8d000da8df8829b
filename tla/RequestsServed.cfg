\* A periodic and a one-time requirement and an asset are added; nothing is taken
\* away and no query fails.
SPECIFICATION Spec
CONSTANTS
    a1 = a1
    a2 = a2
    r1 = r1
    r2 = r2
    p1 = p1
    p2 = p2
    Nil = Nil
    Assets = {a1}
    Requirements = {r1, r2}
    Places = {p1, p2}
    AssetOf <- OneAsset
    OneTime = {r2}
    Disturbances = {}
    SensorsAtStart = FALSE
    EngineFirst = TRUE
    ObserverFirst = TRUE
    MaxEvents = 1
INVARIANTS
    TypeOK
    NoForgottenRequest
    SettledServed
SYMMETRY PlaceSymmetry
CHECK_DEADLOCK FALSE
