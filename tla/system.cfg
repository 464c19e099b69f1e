\* The owner alone, two workers, a synchronous and an asynchronous load, an update
\* the database refuses, one failure.  No symmetry: liveness.
SPECIFICATION SystemFairSpec
CONSTANTS
    Clients = {main}
    Main = main
    Workers = {w1, w2}
    sync = sync
    load = load
    poison = poison
    Cmd <- AllCmd
    SyncCmd <- SyncOnes
    ReplyCmd <- Loads
    LoadCmd <- Loads
    Malformed = {}
    Refused <- Poison
    MaxFaults = 1
    None = None
\* The process may have been aborted.
CHECK_DEADLOCK FALSE
INVARIANTS
    AnsweredIsApplied
    NothingInDoubt
PROPERTIES
    ServiceBehaves
    SyncReturnsOnceUp
    
    ShutdownReturnsOnceUp
