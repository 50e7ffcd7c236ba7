SPECIFICATION FairSpec
CONSTANTS
    Requests = {q1, q2, q3}
    MaxInFlight = 2
    Faults = {"select", "insert", "lost"}
    HealthProbes = TRUE
\* The questions of a run are all answered in the end, and the server waits.
CHECK_DEADLOCK FALSE
INVARIANTS
    NoFaultNoFailure
    AnswersAloneAreLogged
    ReleasedWhenQuiet
PROPERTIES
    EveryQuestionEnds
