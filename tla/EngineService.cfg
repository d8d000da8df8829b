\* A single request to two sensors of different metrics, which hang or fail.
SPECIFICATION FairSpec
CONSTANTS
    thermometer = thermometer
    weather = weather
    temperature = temperature
    humidity = humidity
    receiver = receiver
    single = single
    Sensors = {weather, thermometer}
    Metrics = {temperature, humidity}
    Callers = {single}
    OneShot = {single}
    Requests = {q1}
    Timers = {t1, t2}
    MaxRuns = 1
    PipeSize = 1
    Disturbances = {"readFailure", "timeout", "close"}
    MetricsOf <- TwoSensors
    Wanted <- Everything
    Nil = Nil
INVARIANTS
    OnlyLateLeavesBehind
PROPERTIES
    AnswersReadings
CHECK_DEADLOCK FALSE
