\* Types of at most five steps, results of at most two columns and three rows, an
\* array of four slots; at most three result sets for at most three fields.
SPECIFICATION ReaderSpec
CONSTANTS
    a = a
    b = b
    c = c
    Name <- Names
    Readings <- Both
    Slots = 4
SYMMETRY Symmetry
\* A result is read once.
CHECK_DEADLOCK FALSE
INVARIANTS
    ReaderTypeOK
    EachFieldItsColumn
    ReadsToTheEnd
    SetsFilledInTurn
