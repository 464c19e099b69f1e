--------------------------- MODULE StatementBuilder ---------------------------
(***************************************************************************)
(* How Protobuf2DbEngine turns an entity or a stored procedure into a      *)
(* prepared statement.                                                     *)
(*                                                                         *)
(* The text of the statement names columns and has a placeholder for each. *)
(* It is written from one list of names; the values are bound, by          *)
(* position, from another list, collected by walking the entity.  Nothing  *)
(* compares the two.  One placeholder too few and libzdb dumps core; one   *)
(* too many and it is sent without a value.                                *)
(*                                                                         *)
(* A message is represented by what such a walk meets, in the order of the *)
(* descriptor: the fields that are not repeated and have a value, each     *)
(* sub-message followed by its own fields.                                 *)
(***************************************************************************)
EXTENDS Integers, Sequences, FiniteSets, SequencesExt

CONSTANTS
    Entity,     \* the messages: sequences of fields
    Keys,       \* the key lists callers pass
    Name,       \* the names of fields and keys
    Param       \* "param", the field of a stored procedure that has its arguments

(* "value": bound by value, or by a pointer into the message (bytes);
   "text": TYPE_STRING, bound by a pointer into a temporary copy;
   "fixed": TYPE_FIXED32 and 64, read with the accessor of the signed types;
   "other": the types AddOneInputParam has no case for. *)
Kind == {"message", "value", "text", "fixed", "other"}
Field == [name : Name, kind : Kind, top : BOOLEAN]

(* Fields that are not top-level are inside a sub-message; a message has one
   field of a name; the arguments of a procedure are a sub-message. *)
WellFormed(e) ==
    /\ \A i \in DOMAIN e : e[i].top /\ e[i].name = Param => e[i].kind = "message"
    /\ \A i \in DOMAIN e :
         ~e[i].top => \E j \in 1..i - 1 : e[j].top /\ e[j].kind = "message"
    /\ \A i, j \in DOMAIN e : e[i].top /\ e[j].top /\ e[i].name = e[j].name => i = j

ASSUME BuilderAssumption ==
    /\ \A e \in Entity : e \in Seq(Field) /\ WellFormed(e)
    /\ Keys \subseteq Seq(Name)
    /\ Param \in Name

(* A placeholder no value is bound to; what a freed temporary holds. *)
Unbound == [kind |-> "unbound"]
Garbage == [kind |-> "garbage"]

VARIABLES
    op,         \* "select", "insert" (also a save), "delete", "call"
    entity,
    keys,
    pc,         \* "parsing", "unprepared", "binding", "executed", "failed", "aborted"
    columns,    \* the names the statement's placeholders stand for
    todo,       \* the parameters collected and not yet added
    filled,     \* ZdbStatement::_inParamIndex
    bind,       \* the field bound to each placeholder
    sent        \* what the database received for each placeholder

builderVars == <<op, entity, keys, pc, columns, todo, filled, bind, sent>>
input == <<op, entity, keys>>

BuilderInit ==
    /\ op \in {"select", "insert", "delete", "call"}
    /\ entity \in Entity
    /\ keys \in IF op = "call" THEN {<<>>} ELSE Keys
    /\ pc = "parsing"
    /\ columns = <<>> /\ todo = <<>> /\ filled = 0 /\ bind = <<>> /\ sent = <<>>

-----------------------------------------------------------------------------
(* Walks over a message: which positions a walk stops at, and what it collects
   there. *)

(* How many of the positions P are not after i. *)
Rank(P, i) == Cardinality(P \cap 1..i)

(* The elements of s at the positions P, in their order. *)
Pick(s, P) == [n \in 1..Cardinality(P) |-> s[CHOOSE i \in P : Rank(P, i) = n]]

NamesOf(fields) == [i \in DOMAIN fields |-> fields[i].name]

LeafAt(e) == {i \in DOMAIN e : e[i].kind # "message"}

Leaves(e) == Pick(e, LeafAt(e))

(* The parameters for a list of names: in the order of the message, whatever
   the order of the list. *)
CollectEntityInputParams(e, names) ==
    Pick(e, {i \in LeafAt(e) : e[i].name \in ToSet(names)})

(* Faulty variant of CollectEntitySetFields: it does not go into sub-messages. *)
CollectEntitySetFields_TopOnly(e, ks) ==
    NamesOf(Pick(e, {i \in LeafAt(e) : e[i].top /\ e[i].name \notin ToSet(ks)}))

(* The columns that are not keys. *)
CollectEntitySetFields(e, ks) ==
    NamesOf(Pick(e, {i \in LeafAt(e) : e[i].name \notin ToSet(ks)}))

(* The keys that name a top-level field with a value, in the order of the
   message; one as often as it is in the list. *)
ValidKeys(e, ks) ==
    LET hits == {h \in (DOMAIN e) \X (DOMAIN ks) : e[h[1]].top /\ e[h[1]].name = ks[h[2]]}
        upTo(i) == Cardinality({h \in hits : h[1] \in 1..i})
    IN  [n \in 1..Cardinality(hits) |->
           e[CHOOSE i \in DOMAIN e : upTo(i - 1) < n /\ n <= upTo(i)].name]

HasParam(e) == \E i \in DOMAIN e : e[i].top /\ e[i].name = Param /\ e[i].kind = "message"

(* The positions inside the top-level field named p: up to the next such field. *)
Inside(e, p) ==
    LET from == CHOOSE i \in DOMAIN e : e[i].top /\ e[i].name = p
    IN  {i \in DOMAIN e : i > from /\ \A j \in from + 1..i : ~e[j].top}

ProcParam(e) == Pick(e, Inside(e, Param))

(* Faulty variant of ParseProcParamsCount: strings have no case. *)
ParseProcParamsCount_NoText(param) ==
    Pick(param, {i \in LeafAt(param) : param[i].kind \notin {"other", "text"}})

(* The fields counted as arguments; those of other types are not. *)
ParseProcParamsCount(param) ==
    Pick(param, {i \in LeafAt(param) : param[i].kind # "other"})

-----------------------------------------------------------------------------
(* Preparing. *)

(* The statement is prepared and has a placeholder for each of cols, or the
   database refuses it. *)
Prepare(cols, params) ==
    /\ pc = "parsing"
    /\ UNCHANGED <<input, filled, sent>>
    /\ \/ /\ pc' = "binding"
          /\ columns' = cols
          /\ todo' = params
          /\ bind' = [i \in DOMAIN cols |-> Unbound]
       \/ /\ pc' = "failed"
          /\ UNCHANGED <<columns, todo, bind>>

ParseSelect ==
    LET valid == ValidKeys(entity, keys) IN
    /\ op = "select"
    /\ Prepare(valid, CollectEntityInputParams(entity, valid))

(* Faulty variant of ParseInsert: values first, as an update has them. *)
ParseInsert_SetFirst ==
    LET set == CollectEntitySetFields(entity, keys) IN
    /\ op = "insert"
    /\ Prepare(keys \o set, CollectEntityInputParams(entity, set)
                              \o CollectEntityInputParams(entity, keys))

(* INSERT INTO t (keys, set) VALUES (...) ON DUPLICATE KEY UPDATE set: a save is
   the same statement.  "1.key, 2.set" *)
ParseInsert ==
    LET set == CollectEntitySetFields(entity, keys) IN
    /\ op = "insert"
    /\ Prepare(keys \o set, CollectEntityInputParams(entity, keys)
                              \o CollectEntityInputParams(entity, set))

ParseDelete ==
    /\ op = "delete"
    /\ Prepare(keys, CollectEntityInputParams(entity, keys))

(* A stored procedure whose field param has no value is not prepared at all.
   Arguments of other types fail an assertion, where assertions are compiled. *)
ParseProc ==
    /\ op = "call"
    /\ IF HasParam(entity)
         THEN LET param == ProcParam(entity) IN
              \/ Prepare(NamesOf(ParseProcParamsCount(param)), Leaves(param))
              \/ /\ pc = "parsing"
                 /\ \E i \in DOMAIN param : param[i].kind = "other"
                 /\ pc' = "aborted"
                 /\ UNCHANGED <<input, columns, todo, filled, bind, sent>>
         ELSE /\ pc = "parsing"
              /\ pc' = "unprepared"
              /\ UNCHANGED <<input, columns, todo, filled, bind, sent>>

-----------------------------------------------------------------------------
(* Binding and executing. *)

(* Faulty variant of AddOneInputParam: a field of another type takes a
   placeholder. *)
AddOneInputParam_SkipsPlaceholder ==
    LET f == Head(todo) IN
    /\ pc = "binding" /\ todo # <<>>
    /\ todo' = Tail(todo)
    /\ UNCHANGED <<input, columns, sent>>
    /\ IF f.kind = "fixed" \/ filled = Len(columns)
         THEN pc' = "aborted" /\ UNCHANGED <<filled, bind>>
         ELSE /\ filled' = filled + 1
              /\ bind' = IF f.kind = "other" THEN bind ELSE [bind EXCEPT ![filled + 1] = f]
              /\ UNCHANGED pc

(* A field is bound to the next placeholder.  One of another type is passed
   over; one of a fixed type makes protobuf abort; without a placeholder left
   libzdb does. *)
AddOneInputParam ==
    LET f == Head(todo) IN
    /\ pc = "binding" /\ todo # <<>>
    /\ todo' = Tail(todo)
    /\ UNCHANGED <<input, columns, sent>>
    /\ \/ f.kind = "other" /\ UNCHANGED <<pc, filled, bind>>
       \/ /\ f.kind = "fixed" \/ (f.kind # "other" /\ filled = Len(columns))
          /\ pc' = "aborted"
          /\ UNCHANGED <<filled, bind>>
       \/ /\ f.kind \in {"value", "text"} /\ filled < Len(columns)
          /\ filled' = filled + 1
          /\ bind' = [bind EXCEPT ![filled + 1] = f]
          /\ UNCHANGED pc

(* What a bound parameter's memory may hold when the statement is executed: the
   copy of a string is gone. *)
MayHold(b) ==
    IF b.kind = "text" THEN {b, Garbage} ELSE {b}

(* Exec: the database executes the statement, or the attempt fails. *)
Exec ==
    /\ pc = "binding" /\ todo = <<>>
    /\ UNCHANGED <<input, columns, todo, filled, bind>>
    /\ \/ /\ pc' = "executed"
          /\ sent' \in {s \in [DOMAIN bind -> ToSet(bind) \cup {Garbage}] :
                          \A i \in DOMAIN bind : s[i] \in MayHold(bind[i])}
       \/ pc' = "failed" /\ UNCHANGED sent

(* Exec without a statement: libzdb's assertion fails the attempt, or, compiled
   without assertions, it reads through a null pointer. *)
ExecUnprepared ==
    /\ pc = "unprepared"
    /\ pc' \in {"failed", "aborted"}
    /\ UNCHANGED <<input, columns, todo, filled, bind, sent>>

BuilderNext ==
    \/ ParseSelect
    \/ ParseInsert
    \/ ParseDelete
    \/ ParseProc
    \/ AddOneInputParam
    \/ Exec
    \/ ExecUnprepared

BuilderSpec == BuilderInit /\ [][BuilderNext]_builderVars

-----------------------------------------------------------------------------
(* Properties. *)

(* The types, and that placeholders are filled from the first on, without a
   gap. *)
BuilderTypeOK ==
    /\ op \in {"select", "insert", "delete", "call"}
    /\ entity \in Seq(Field) /\ keys \in Seq(Name)
    /\ pc \in {"parsing", "unprepared", "binding", "executed", "failed", "aborted"}
    /\ columns \in Seq(Name) /\ todo \in Seq(Field)
    /\ filled \in 0..Len(columns)
    /\ DOMAIN bind = DOMAIN columns
    /\ \A i \in DOMAIN bind : IF i <= filled THEN bind[i] \in Field ELSE bind[i] = Unbound
    /\ DOMAIN sent \in {{}, DOMAIN columns}

(* The keys a caller may pass.  A select needs keys that name top-level fields, in
   any order, with or without a value; an insert or a delete needs keys in the
   order of the message, all with a value. *)
KeysFit ==
    CASE op = "select" ->
           /\ \A i \in DOMAIN entity :
                entity[i].name \in ToSet(keys) => entity[i].top /\ entity[i].kind # "message"
           /\ IsInjective(keys)
      [] op \in {"insert", "delete"} ->
           NamesOf(CollectEntityInputParams(entity, keys)) = keys
      [] op = "call" -> TRUE

Has(kind) == \E i \in DOMAIN entity : entity[i].kind = kind

(* Each column of an executed statement is bound to the field of its name,
   although names and values are collected by different walks: for keys that
   fit, and for a call always, even past arguments of other types. *)
EachColumnItsField ==
    pc = "executed" /\ KeysFit /\ (Has("other") => op = "call") =>
        \A i \in DOMAIN columns : bind[i] # Unbound /\ bind[i].name = columns[i]

(* There is a placeholder for every value: for keys that fit, and without fields
   of the fixed types, no entity and no procedure's arguments abort the process,
   those of the other types aside. *)
PlaceholderForEachValue ==
    KeysFit /\ ~Has("fixed") /\ (op = "call" => HasParam(entity) /\ ~Has("other"))
        => pc # "aborted"

(* An insert or save leaves nothing of the entity out. *)
InsertsAll ==
    pc = "executed" /\ op = "insert" /\ KeysFit =>
        /\ Len(columns) = Len(Leaves(entity))
        /\ ToSet(columns) = ToSet(NamesOf(Leaves(entity)))

(* libzdb's PreparedStatement.h 55-57: string values are set by reference and
   must not "disappear" before the statement is executed.  So the database
   receives what was bound. *)
SentAsBound == pc = "executed" => sent = bind
=============================================================================
