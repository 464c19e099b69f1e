\* The owner, another thread and two workers.  No deadlock: the owner can
\* always get back to pumping.
SPECIFICATION Spec
CONSTANTS
    Clients = {main, c1}
    Main = main
    Workers = {w1, w2}
    s1 = s1
    a1 = a1
    a2 = a2
    a3 = a3
    Cmd <- FewCmd
    SyncCmd <- SyncOnes
    ReplyCmd <- ReplyOnes
    None = None
SYMMETRY Symmetry
INVARIANTS
    TypeOK
    ResponseFindsTrunkOpen
PROPERTIES
    SilentAfterShutdown
    ImplementsContract
