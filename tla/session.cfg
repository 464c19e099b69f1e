\* Two sessions, one command of each kind, two failures.  No symmetry: liveness.
SPECIFICATION SessionFairSpec
CONSTANTS
    Workers = {w1, w2}
    load = load
    update = update
    bad = bad
    poison = poison
    Cmd <- AllCmd
    LoadCmd <- Loads
    Malformed <- Bad
    Refused <- Poison
    MaxFaults = 2
    None = None
\* The process may have been aborted, or its sessions closed.
CHECK_DEADLOCK FALSE
INVARIANTS
    SessionTypeOK
    NothingGivenUp
    RepeatedOnlyWhenLost
    ConnectionInPool
    ResultOfOneExecution
PROPERTIES
    EverySessionOpens
    CallReturns
