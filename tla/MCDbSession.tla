----------------------------- MODULE MCDbSession -----------------------------
(* Small instances of DbSession for TLC. *)
EXTENDS DbSession, TLC

CONSTANTS load, update, bad, poison

(* One command of each kind. *)
AllCmd == {load, update, bad, poison}
GoodCmd == {load, update}
Loads == {load}
Bad == {bad}
Poison == {poison}

Symmetry == Permutations(Workers)
=============================================================================
