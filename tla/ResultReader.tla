----------------------------- MODULE ResultReader -----------------------------
(***************************************************************************)
(* How Protobuf2DbEngine reads the rows of a result into records.          *)
(*                                                                         *)
(* The first row is read by column name, and the index of every column     *)
(* found is kept in an array, one slot per field.  Later rows are read by  *)
(* these indexes alone.  Both walks descend into sub-messages; they must   *)
(* agree on which slot belongs to which field.                             *)
(*                                                                         *)
(* A column that is not in the result is no error by name: the field gets  *)
(* a default and its slot the index found before it.  An index out of      *)
(* range throws, where no handler is installed, and aborts the process.    *)
(*                                                                         *)
(* A record type is represented by the walk over its fields that are not   *)
(* repeated: "open" and "close" are the two ends of a sub-message.         *)
(*                                                                         *)
(* A stored procedure may return several result sets.  With a field        *)
(* return_record_list only the first is read; with return_recordsets each  *)
(* field of it takes the next, and a failure on the way from one set to    *)
(* the next is taken for the end of the sets.  (A failure within a set     *)
(* ends the process, see DbSession.)                                       *)
(***************************************************************************)
EXTENDS Integers, Sequences, FiniteSets

CONSTANTS
    Readings,   \* what is read: record types, and the result sets they meet
    Slots,      \* size of arrIndex (256 in the code)
    Name

(* "leaf": a field of a type both walks read; "fixed": TYPE_FIXED32 and 64, stored
   with the accessor of the signed types; "other": the types without a case,
   TYPE_ENUM among them. *)
Step == [t : {"leaf", "fixed", "other"}, name : Name] \cup [t : {"open", "close"}]

(* How many of the first n steps are of the given kinds. *)
Count(steps, n, kinds) == Cardinality({i \in 1..n : steps[i].t \in kinds})

(* How many sub-messages are open after n steps. *)
Opened(steps, n) == Count(steps, n, {"open"}) - Count(steps, n, {"close"})

Balanced(steps) ==
    /\ \A n \in 0..Len(steps) : Opened(steps, n) >= 0
    /\ Opened(steps, Len(steps)) = 0

(* "types": the record type of the list of records to fill, or one for each field of
   return_recordsets, when there are "several".  "sets": the column names and the
   number of rows of each result set. *)
ASSUME ReaderAssumption ==
    /\ Slots \in Nat
    /\ \A reading \in Readings :
         /\ reading.several \in BOOLEAN
         /\ reading.types \in Seq(Seq(Step)) /\ reading.types # <<>>
         /\ reading.several \/ Len(reading.types) = 1
         /\ \A i \in DOMAIN reading.types : Balanced(reading.types[i])
         /\ reading.sets \in Seq([columns : Seq(Name), rows : Nat])

(* What a field holds: the value of a column in a row of a set (NULL reads as the
   zero value, by name and by index), what the walk stores for a column it does not
   find, or what the record held before. *)
Value(f, r, name) == [set |-> f, row |-> r, name |-> name]
Missing == [row |-> 0]
Old == [row |-> -1]

VARIABLES
    several, types, sets,
    field,      \* the field being filled, and the result set it is filled from
    lost,       \* the way to the next result set failed
    pc,         \* "between", "reading", "ended", "done", "aborted", "undefined"
    row,        \* the current row
    pos,        \* the next step of the walk
    found,      \* nFieldIndex of each open call of AddFirstReturnRecord
    nIndex,
    arrIndex,
    record,     \* the record being filled, the same for every row or a new one:
                \* what each step's field holds
    results     \* for each field the records handed on

input == <<several, types, sets>>
place == <<field, lost>>
readerVars == <<input, place, pc, row, pos, found, nIndex, arrIndex, record, results>>

type == types[field]

(* A statement without a result set is read as one without columns and rows. *)
SetAt(f) == IF f \in DOMAIN sets THEN sets[f] ELSE [columns |-> <<>>, rows |-> 0]
columns == SetAt(field).columns
rows == SetAt(field).rows

NoSlots == [i \in 0..Slots - 1 |-> 0]

ReaderInit ==
    /\ \E reading \in Readings :
         several = reading.several /\ types = reading.types /\ sets = reading.sets
    /\ field = 1 /\ lost = FALSE
    /\ pc = "between" /\ row = 0 /\ pos = 1 /\ found = <<>> /\ nIndex = 0
    /\ arrIndex = NoSlots
    /\ record = [i \in DOMAIN type |-> Old]
    /\ results = [f \in DOMAIN types |-> <<>>]

-----------------------------------------------------------------------------
(* MoveNext; a new row is read from the start. *)
MoveNext ==
    /\ pc = "between"
    /\ UNCHANGED <<input, place, arrIndex, record, results>>
    /\ IF row < rows
         THEN /\ pc' = "reading"
              /\ row' = row + 1 /\ pos' = 1 /\ nIndex' = 0 /\ found' = <<0>>
         ELSE /\ pc' = IF several THEN "ended" ELSE "done"
              /\ UNCHANGED <<row, pos, nIndex, found>>

(* Faulty variant of NextResultSet: a result set without rows is taken for the last. *)
NextResultSet_StopsAtEmpty ==
    /\ pc = "ended"
    /\ IF rows > 0 /\ field < Len(sets) /\ field < Len(types)
         THEN /\ pc' = "between" /\ field' = field + 1
              /\ row' = 0 /\ pos' = 1 /\ nIndex' = 0 /\ found' = <<>>
              /\ arrIndex' = NoSlots
              /\ record' = [i \in DOMAIN types[field + 1] |-> Old]
         ELSE pc' = "done" /\ UNCHANGED <<field, row, pos, nIndex, found, arrIndex, record>>
    /\ UNCHANGED <<input, lost, results>>

(* On to the next field, with the next result set, while there are both. *)
NextResultSet ==
    /\ pc = "ended"
    /\ IF field < Len(sets) /\ field < Len(types)
         THEN /\ pc' = "between" /\ field' = field + 1
              /\ row' = 0 /\ pos' = 1 /\ nIndex' = 0 /\ found' = <<>>
              /\ arrIndex' = NoSlots
              /\ record' = [i \in DOMAIN types[field + 1] |-> Old]
         ELSE pc' = "done" /\ UNCHANGED <<field, row, pos, nIndex, found, arrIndex, record>>
    /\ UNCHANGED <<input, lost, results>>

(* mysql_stmt_next_result, or binding the new columns, fails: HasMoreResultSets
   answers as if there were no more, and the query succeeds. *)
NextResultSetFails ==
    /\ pc = "ended"
    /\ pc' = "done" /\ lost' = TRUE
    /\ UNCHANGED <<input, field, row, pos, nIndex, found, arrIndex, record, results>>

(* The walk is through: the record is handed on. *)
RowEnds ==
    /\ pc = "reading" /\ pos > Len(type)
    /\ pc' = "between"
    /\ results' = [results EXCEPT ![field] = Append(@, record)]
    /\ UNCHANGED <<input, place, row, pos, found, nIndex, arrIndex, record>>

At(kinds) == pc = "reading" /\ pos <= Len(type) /\ type[pos].t \in kinds

(* The index of the first column named n, or none. *)
IndexOf(n) == {i \in DOMAIN columns : columns[i] = n /\ \A j \in 1..i - 1 : columns[j] # n}

(* Faulty variant of TakeSlot: fields that are not read have no slot. *)
TakeSlot_LeafOnly(index) ==
    /\ pos' = pos + 1
    /\ IF type[pos].t # "leaf"
         THEN UNCHANGED <<pc, nIndex, arrIndex>>
         ELSE IF nIndex < Slots
         THEN /\ arrIndex' = [arrIndex EXCEPT ![nIndex] = index]
              /\ nIndex' = nIndex + 1
              /\ UNCHANGED pc
         ELSE pc' = "undefined" /\ UNCHANGED <<nIndex, arrIndex>>

(* arrIndex[nIndex++] = nFieldIndex, at the end of the loop body; past the end of
   the array anything may happen. *)
TakeSlot(index) ==
    /\ pos' = pos + 1
    /\ IF nIndex < Slots
         THEN /\ arrIndex' = [arrIndex EXCEPT ![nIndex] = index]
              /\ nIndex' = nIndex + 1
              /\ UNCHANGED pc
         ELSE pc' = "undefined" /\ UNCHANGED <<nIndex, arrIndex>>

(* AddFirstReturnRecord: a field, by name. *)
ReadByName ==
    LET index == IndexOf(type[pos].name) IN
    /\ row = 1 /\ At({"leaf"})
    /\ record' = [record EXCEPT ![pos] =
                    IF index = {} THEN Missing ELSE Value(field, row, type[pos].name)]
    /\ \E last \in IF index = {} THEN {Head(found)} ELSE index :
         /\ found' = <<last>> \o Tail(found)
         /\ TakeSlot(last)
    /\ UNCHANGED <<input, place, row, results>>

(* A sub-message is walked by a call with an nFieldIndex of its own, and has a
   slot after those of its fields. *)
Descend ==
    /\ row = 1 /\ At({"open"})
    /\ found' = <<0>> \o found
    /\ pos' = pos + 1
    /\ UNCHANGED <<input, place, pc, row, nIndex, arrIndex, record, results>>

Ascend ==
    /\ row = 1 /\ At({"close"})
    /\ found' = Tail(found)
    /\ TakeSlot(found[2])
    /\ UNCHANGED <<input, place, row, record, results>>

(* A field of another type is not read, but has a slot. *)
PassOver ==
    /\ row = 1 /\ At({"other"})
    /\ TakeSlot(Head(found))
    /\ UNCHANGED <<input, place, row, found, record, results>>

(* AddReturnRecord: a field, by the index in its slot. *)
ReadByIndex ==
    LET index == arrIndex[nIndex] IN
    /\ row > 1 /\ At({"leaf"})
    /\ IF index \in DOMAIN columns
         THEN /\ record' = [record EXCEPT ![pos] = Value(field, row, columns[index])]
              /\ pos' = pos + 1 /\ nIndex' = nIndex + 1
              /\ UNCHANGED pc
         ELSE pc' = "aborted" /\ UNCHANGED <<pos, nIndex, record>>
    /\ UNCHANGED <<input, place, row, found, arrIndex, results>>

(* Faulty variant of NextSlot: a sub-message has no slot of its own. *)
NextSlot_NotClose ==
    /\ row > 1 /\ At({"open", "close", "other"})
    /\ pos' = pos + 1
    /\ nIndex' = IF type[pos].t = "other" THEN nIndex + 1 ELSE nIndex
    /\ UNCHANGED <<input, place, pc, row, found, arrIndex, record, results>>

(* The other steps of AddReturnRecord, which read nothing. *)
NextSlot ==
    /\ row > 1 /\ At({"open", "close", "other"})
    /\ pos' = pos + 1
    /\ nIndex' = IF type[pos].t = "open" THEN nIndex ELSE nIndex + 1
    /\ UNCHANGED <<input, place, pc, row, found, arrIndex, record, results>>

(* Storing a signed value in a field of a fixed type makes protobuf abort. *)
StoreFixed ==
    /\ At({"fixed"})
    /\ pc' = "aborted"
    /\ UNCHANGED <<input, place, row, pos, found, nIndex, arrIndex, record, results>>

ReaderNext ==
    \/ MoveNext
    \/ NextResultSet
    \/ NextResultSetFails
    \/ RowEnds
    \/ ReadByName
    \/ Descend
    \/ Ascend
    \/ PassOver
    \/ ReadByIndex
    \/ NextSlot
    \/ StoreFixed

ReaderSpec == ReaderInit /\ [][ReaderNext]_readerVars

-----------------------------------------------------------------------------
(* Properties. *)

(* The slots used after n steps of the walk. *)
SlotsOf(steps, n) == Count(steps, n, {"leaf", "fixed", "other", "close"})

Cell == {Missing, Old} \cup [set : Nat, row : Nat, name : Name]

(* The types, and that both walks have used as many slots, and opened as many
   calls, as the steps taken say. *)
ReaderTypeOK ==
    /\ field \in DOMAIN types /\ lost \in BOOLEAN
    /\ pc \in {"between", "reading", "ended", "done", "aborted", "undefined"}
    /\ row \in 0..rows /\ pos \in 1..Len(type) + 1
    /\ arrIndex \in [0..Slots - 1 -> 0..Len(columns)]
    /\ record \in [DOMAIN type -> Cell]
    /\ DOMAIN results = DOMAIN types
    /\ \A f \in DOMAIN types : results[f] \in Seq([DOMAIN types[f] -> Cell])
    /\ pc = "reading" => nIndex = SlotsOf(type, pos - 1)
    /\ pc = "reading" /\ row = 1 =>
         found \in Seq(0..Len(columns)) /\ Len(found) = Opened(type, pos - 1) + 1

Known(f, i) ==
    /\ types[f][i].t = "leaf"
    /\ \E k \in DOMAIN SetAt(f).columns : SetAt(f).columns[k] = types[f][i].name

(* In every record each field whose column is in its result set holds that column's
   value of that row: reading by index finds what reading by name would, also
   beside fields that are not read or not found, at any depth, and in every set. *)
EachFieldItsColumn ==
    \A f \in DOMAIN types : \A n \in DOMAIN results[f] : \A i \in DOMAIN types[f] :
        Known(f, i) => results[f][n][i] = Value(f, n, types[f][i].name)

(* If the record has no field of a fixed type, every other field has its column and
   the fields have slots, no row aborts the process.  A field of a fixed type
   aborts it with its column present (Protobuf2DbEngine.cpp 990-1031). *)
ReadsToTheEnd ==
    (\A f \in DOMAIN types \cap DOMAIN sets :
        /\ \A i \in DOMAIN types[f] :
             types[f][i].t \in {"open", "close", "other"} \/ Known(f, i)
        /\ SlotsOf(types[f], Len(types[f])) <= Slots)
    => pc \notin {"aborted", "undefined"}

(* A query that succeeds has filled every field from the result set in its place,
   up to the last row, an empty set among them included; only a failure between two
   sets leaves fields empty, and then all those behind it (Protobuf2DbEngine.cpp
   279-289). *)
SetsFilledInTurn ==
    pc = "done" =>
        \A f \in DOMAIN types :
            Len(results[f]) =
                IF f <= field \/ (several /\ ~lost) THEN SetAt(f).rows ELSE 0

-----------------------------------------------------------------------------
(* What holds between the parts of the state while the rows are read; with the
   types, and the input left as it was, it is inductive. *)

InputInv ==
    \E reading \in Readings :
        several = reading.several /\ types = reading.types /\ sets = reading.sets

Running == pc \notin {"aborted", "undefined"}

(* Where the walk is when no row is being read. *)
PlaceInv ==
    /\ pc = "reading" => row > 0
    /\ row = 0 => pos = 1 /\ Running
    /\ row > 0 /\ pc \in {"between", "ended", "done"} => pos = Len(type) + 1
    /\ pc \in {"ended", "done"} => row = rows

(* The first walk has left each field's column in the slot where the second looks
   for it, and has not run past the array. *)
SlotInv ==
    Running =>
        /\ \A j \in DOMAIN type :
             Known(field, j) /\ (row > 1 \/ (row = 1 /\ j < pos)) =>
                 arrIndex[SlotsOf(type, j - 1)] \in IndexOf(type[j].name)
        /\ row = 1 => SlotsOf(type, pos - 1) <= Slots
        /\ row > 1 => SlotsOf(type, Len(type)) <= Slots

(* The fields walked over in this row hold this row's values. *)
RecordInv ==
    Running =>
        \A j \in DOMAIN type :
            j < pos /\ Known(field, j) => record[j] = Value(field, row, type[j].name)

(* The fields before the current one are filled, those behind it empty. *)
FilledInv ==
    /\ lost => pc = "done" /\ several
    /\ pc = "ended" => several
    /\ pc = "done" /\ several /\ ~lost => field >= Len(sets) \/ field = Len(types)
    /\ \A f \in DOMAIN types :
         /\ f < field => Len(results[f]) = SetAt(f).rows
         /\ f > field => results[f] = <<>>
    /\ Len(results[field]) =
         IF pc \in {"between", "ended", "done"} THEN row ELSE row - 1

(* Why the process came to its end. *)
EndInv ==
    /\ pc = "aborted" =>
         \E j \in DOMAIN type : type[j].t \in {"leaf", "fixed"} /\ ~Known(field, j)
    /\ pc = "undefined" => SlotsOf(type, Len(type)) > Slots

ReaderInv ==
    /\ PlaceInv /\ SlotInv /\ RecordInv
    /\ FilledInv /\ EndInv /\ EachFieldItsColumn
=============================================================================
