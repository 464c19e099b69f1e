\* Does reading a result always succeed once the query has been executed?
SPECIFICATION SessionSpec
CONSTANTS
    Workers = {w1}
    load = load
    update = update
    bad = bad
    poison = poison
    Cmd <- GoodCmd
    LoadCmd <- Loads
    Malformed = {}
    Refused = {}
    MaxFaults = 1
    None = None
\* The process may have been aborted, or its sessions closed.
CHECK_DEADLOCK FALSE
PROPERTY SuccessFromHere
