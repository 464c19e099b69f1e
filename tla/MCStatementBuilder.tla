-------------------------- MODULE MCStatementBuilder --------------------------
(* Small instances of StatementBuilder for TLC. *)
EXTENDS StatementBuilder

CONSTANTS a, b, c, args

Names == {a, b, c, args}

(* The fields of the messages: a field c is a plain value, a field args is the
   arguments of a procedure. *)
Fields ==
    {f \in Field :
        /\ f.name = c => f.kind = "value"
        /\ f.name = args => f.top}

(* Every message of at most four such fields, at most one of them of a kind
   that is not simply bound. *)
Plain == {"message", "value"}
Entities ==
    {e \in SeqOf(Fields, 4) :
        /\ \A i, j \in DOMAIN e : {e[i].kind, e[j].kind} \cap Plain = {} => i = j
        /\ WellFormed(e)}

(* Lists of one or two keys, in both orders, one twice, and none. *)
KeyLists == SeqOf({a, b}, 2)

Symmetry == Permutations({a, b})
=============================================================================
