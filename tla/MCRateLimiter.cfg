SPECIFICATION Spec
CONSTANTS
    Threads = {t1, t2}
    Keys = {ip1, ip2}
    NoThread = NoThread
    NoKey = NoKey
    Limits = {0, 1, 2}
    Window = 2
    MaxStall = 1
    MaxTime = 5
SYMMETRY Symmetry
INVARIANTS
    CapHolds
PROPERTIES
    PromiseKept
    RefusedForCause
