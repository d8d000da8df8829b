\* A device that is registered twice at a time, or one that restarts after a crash or a
\* shutdown and is removed; a module that waits for the login.
SPECIFICATION FairSpec
CONSTANTS
    Ids = {i1, i2}
    Modules = {observer}
    Observer = observer
    Attempts = 1
    MaxBoots = 2
    MaxReports = 1
    Scenarios <- Both
    Nil = Nil
INVARIANTS
    TypeOK
    StartsOnce
    KnowsItself
PROPERTIES
    LoginHeard
CHECK_DEADLOCK FALSE
