\* Two callers, two workers, one command of each kind, Finish at any time.
SPECIFICATION ExecSpec
CONSTANTS
    Clients = {c1, c2}
    Workers = {w1, w2}
    s1 = s1
    s2 = s2
    a1 = a1
    a2 = a2
    Cmd <- AllCmd
    SyncCmd <- SyncOnes
    ReplyCmd <- ReplyOnes
    None = None
SYMMETRY Symmetry
\* The commands are used up and the workers gone: the system stops.
CHECK_DEADLOCK FALSE
INVARIANTS
    CallerOutlivesCommand
    ExecutedOnce
    StartedInOrder
    ExecutedInOrder
    AtMostOneLate
    NothingHalfDone
PROPERTIES
    QuietAfterFinish
    SyncReturnsResult
