\* Does Finish notify the waiting workers, as its comment says?
SPECIFICATION ExecSpec
CONSTANTS
    Clients = {c1, c2}
    Workers = {w1, w2}
    s1 = s1
    s2 = s2
    a1 = a1
    a2 = a2
    Cmd <- FewCmd
    SyncCmd <- FewSync
    ReplyCmd <- FewReply
    None = None
\* The commands are used up and the workers gone: the system stops.
CHECK_DEADLOCK FALSE
PROPERTIES
    FinishNotifies
