\* Two requests of one receiver to one sensor that fails to start, hangs, falls
\* asleep and is unplugged.
SPECIFICATION Spec
CONSTANTS
    thermometer = thermometer
    weather = weather
    temperature = temperature
    humidity = humidity
    receiver = receiver
    single = single
    Sensors = {weather}
    Metrics = {temperature}
    Callers = {receiver}
    OneShot = {}
    Requests = {q1, q2}
    Timers = {t1, t2}
    MaxRuns = 2
    PipeSize = 1
    Disturbances = {"initFailure", "timeout", "unplug", "mapRace"}
    MetricsOf <- TwoSensors
    Wanted <- Everything
    Nil = Nil
SYMMETRY Same
INVARIANTS
    TypeOK
    AwakeWillSleep
PROPERTIES
    ServesReadings
CHECK_DEADLOCK FALSE
