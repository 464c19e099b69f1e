\* One worker: order of the responses, and liveness.
SPECIFICATION FairSpec
CONSTANTS
    Clients = {main, c1}
    Main = main
    Workers = {w1}
    s1 = s1
    a1 = a1
    a2 = a2
    a3 = a3
    Cmd <- FewCmd
    SyncCmd <- SyncOnes
    ReplyCmd <- ReplyOnes
    None = None
INVARIANTS
    ResponsesInOrder
PROPERTIES
    QueuedIsExecuted
    OwnerReturns
    ResponseIsDelivered
    ShutdownReturns
