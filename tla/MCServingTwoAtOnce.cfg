SPECIFICATION Spec
CONSTANTS
    Requests = {q1, q2}
    MaxInFlight = 2
    Faults = {}
    HealthProbes = FALSE
\* The questions of a run are all answered in the end, and the server waits.
CHECK_DEADLOCK FALSE
INVARIANTS
    EveryAnswerLogged
