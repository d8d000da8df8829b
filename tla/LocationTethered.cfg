\* Two phones write two locations between them, and may leave in between.
SPECIFICATION FairSpec
CONSTANTS
    Phones = {p1, p2}
    Locations = {l1, l2}
    Pairings = {registration}
    Registration = registration
    Bluetooth = TRUE
    Zero = {}
    Disturbances = {"disconnect", "failure", "shutdown"}
    Nil = Nil
INVARIANTS
    TypeOK
    NoPartTwice
    PlacesAreWhole
PROPERTIES
    SettlesPlaces
CHECK_DEADLOCK FALSE
