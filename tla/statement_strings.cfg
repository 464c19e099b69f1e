\* Do bound strings last until the statement is executed?
SPECIFICATION BuilderSpec
CONSTANTS
    a = a
    b = b
    c = c
    args = args
    Name <- Names
    Param = args
    Entity <- Entities
    Keys <- KeyLists
SYMMETRY Symmetry
\* A statement is executed once.
CHECK_DEADLOCK FALSE
INVARIANT SentAsBound
