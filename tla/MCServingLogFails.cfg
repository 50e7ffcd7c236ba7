SPECIFICATION Spec
CONSTANTS
    Requests = {q1, q2}
    MaxInFlight = 1
    Faults = {"insert"}
    HealthProbes = FALSE
\* The questions of a run are all answered in the end, and the server waits.
CHECK_DEADLOCK FALSE
INVARIANTS
    LoggingNeverFailsAQuestion
