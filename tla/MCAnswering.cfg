SPECIFICATION FairSpec
CONSTANTS
    p = p
    x = x
    m = m
    graph = graph
    Passages = {p}
    Phantoms = {x}
    Malformed = {m}
    Graph = graph
    MaxAttempts = 2
    Pieces <- MCPieces
    MaxPieces = 2
    None = None
    Final = Final
    Failure = Failure
\* One answer, and the response is over.
CHECK_DEADLOCK FALSE
INVARIANTS
    HonestAnswer
    FinalSpeaksOfWhatWasSent
PROPERTIES
    KeepsPromise
    ReaderIsAnswered
    WorkerEnds
