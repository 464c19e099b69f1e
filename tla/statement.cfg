\* Messages of at most four fields, lists of at most two keys.
SPECIFICATION BuilderSpec
CONSTANTS
    a = a
    b = b
    c = c
    args = args
    Name <- Names
    Param = args
    Entity <- Entities
    Keys <- KeyLists
SYMMETRY Symmetry
\* A statement is executed once.
CHECK_DEADLOCK FALSE
INVARIANTS
    BuilderTypeOK
    EachColumnItsField
    PlaceholderForEachValue
    InsertsAll
