\* A change of the sensors, the loop and failing transfers, with a registration or
\* with a shutdown.
SPECIFICATION FairSpec
CONSTANTS
    Changes = {c1}
    Nil = Nil
    LastRow <- MCLastRow
    MaxUnlocked = 1
    Scenarios <- Either
INVARIANTS
    TypeOK
    MixedOnlyUnlocked
PROPERTIES
    StatsReturn
CHECK_DEADLOCK FALSE
