SPECIFICATION Spec
CONSTANTS
    p = p
    x = x
    m = m
    graph = graph
    Passages = {p}
    Phantoms = {x}
    Malformed = {}
    Graph = graph
    MaxAttempts = 2
    Pieces <- MCPieces
    MaxPieces = 1
\* One answer, and the loop is over.
CHECK_DEADLOCK FALSE
INVARIANTS
    CitationsAreInTheText
