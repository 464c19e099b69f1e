---------------------------- MODULE MCResultReader ----------------------------
(* Small instances of ResultReader for TLC. *)
EXTENDS ResultReader, SequencesExt

CONSTANTS a, b, c

Names == {a, b, c}

(* Types of at most five steps: fields a and b, one that is never a column, one
   of each other sort, sub-messages two deep. *)
Steps ==
    {[t |-> "leaf", name |-> n] : n \in Names}
      \cup {[t |-> k, name |-> c] : k \in {"fixed", "other"}}
      \cup [t : {"open", "close"}]

Types ==
    {s \in SeqOf(Steps, 5) :
        /\ Balanced(s)
        /\ \A i, j \in DOMAIN s : {s[i].t, s[j].t} \cap {"leaf", "open", "close"} = {} => i = j}

(* Every result of at most two columns, one twice included. *)
ColumnLists == SeqOf({a, b}, 2)

(* One list of records, from a result set of at most three rows or none. *)
Lists ==
    [several : {FALSE}, types : {<<type1>> : type1 \in Types},
     sets : {<<>>} \cup {<<set>> : set \in [columns : ColumnLists, rows : 0..3]}]

(* A procedure's fields, at most three, and its result sets, at most three, of
   at most two rows: a record of a or of b, one with b in a sub-message. *)
Leaf(n) == [t |-> "leaf", name |-> n]
Fields == {<<Leaf(a)>>, <<[t |-> "open"], Leaf(b), [t |-> "close"], Leaf(a)>>}
Sets == [columns : {<<a, b>>, <<b, a>>}, rows : 0..2]

Recordsets ==
    [several : {TRUE}, types : SeqOf(Fields, 3) \ {<<>>}, sets : SeqOf(Sets, 3)]

(* A list takes the first of several sets. *)
FirstOnly ==
    [several : {FALSE}, types : {<<f>> : f \in Fields}, sets : SeqOf(Sets, 2)]

Both == Lists \cup Recordsets \cup FirstOnly

Symmetry == Permutations({a, b})
=============================================================================
