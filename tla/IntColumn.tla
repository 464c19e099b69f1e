------------------------------- MODULE IntColumn -------------------------------
(***************************************************************************)
(* How an integer column of a result is read into an int field.            *)
(*                                                                         *)
(* A column has one buffer for all rows of its result set, allocated and   *)
(* not cleared.  A fetch writes as many bytes as the column's type has;    *)
(* reading writes a 0 behind them, as behind a string, and takes four      *)
(* bytes, whatever the type.  Integers are given by their bytes, the       *)
(* lowest first, so that nothing is lost by their width.                   *)
(***************************************************************************)
EXTENDS Integers

CONSTANTS
    Byte,       \* the bytes values and memory consist of, some of 0..255, 0 among them
    MaxRows     \* bound on the rows of the result

(* The types of columns the engine accepts for a field read as an int, by the
   number of bytes. *)
Width == [TINY |-> 1, SHORT |-> 2, LONG |-> 4]

Zero == [i \in 0..3 |-> 0]

VARIABLES
    column,     \* the column's type
    unsigned,   \* the column and the field are unsigned
    buffer,     \* the bytes of the column's buffer that reading can meet
    stored,     \* the bytes of the current row's value
    isNull,
    row,
    field       \* what the int read from the current row is, once it is read

intColumnVars == <<column, unsigned, buffer, stored, isNull, row, field>>

(* Memory from malloc holds anything. *)
IntColumnInit ==
    /\ column \in DOMAIN Width
    /\ unsigned \in BOOLEAN
    /\ buffer \in [0..4 -> Byte]
    /\ stored = Zero /\ isNull = TRUE /\ row = 0 /\ field = Zero

(* MysqlResultSet_next: the next row's value comes into the buffer. *)
Fetch ==
    /\ row < MaxRows
    /\ row' = row + 1
    /\ \/ /\ isNull' = TRUE
          /\ UNCHANGED <<buffer, stored>>
       \/ /\ isNull' = FALSE
          /\ \E value \in [0..Width[column] - 1 -> Byte] :
               /\ stored' = value
               /\ buffer' = [i \in 0..4 |-> IF i \in DOMAIN value THEN value[i] ELSE buffer[i]]
    /\ field' = <<>>
    /\ UNCHANGED <<column, unsigned>>

(* ResultSet_getInt over MysqlResultSet_getString. *)
GetInt ==
    /\ row > 0 /\ field = <<>>
    /\ IF isNull
         THEN field' = Zero /\ UNCHANGED buffer
         ELSE /\ buffer' = [buffer EXCEPT ![Width[column]] = 0]
              /\ field' = [i \in 0..3 |-> buffer'[i]]
    /\ UNCHANGED <<column, unsigned, stored, isNull, row>>

IntColumnNext == Fetch \/ GetInt

IntColumnSpec == IntColumnInit /\ [][IntColumnNext]_intColumnVars

-----------------------------------------------------------------------------
(* Properties. *)

(* The value of a column as an int. *)
Extended(value, n) ==
    LET sign == IF ~unsigned /\ value[n - 1] >= 128 THEN 255 ELSE 0
    IN  [i \in 0..3 |-> IF i < n THEN value[i] ELSE sign]

(* An int field, or the test for 0 of a bool field, gets the value its column has,
   for each of the column types Protobuf2DbEngine.cpp 1022-1024 and 1118-1120
   accept for it. *)
IntAsStored ==
    row > 0 /\ field # <<>> =>
        field = IF isNull THEN Zero ELSE Extended(stored, Width[column])
=============================================================================
