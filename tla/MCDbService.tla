----------------------------- MODULE MCDbService -----------------------------
(* Small instances of DbService for TLC. *)
EXTENDS DbService, TLC

CONSTANTS s1, a1, a2, a3

(* A synchronous query, two asynchronous loads, an asynchronous update. *)
AllCmd == {s1, a1, a2, a3}
SyncOnes == {s1}
ReplyOnes == {s1, a1, a2}

(* Without the update. *)
FewCmd == {s1, a1, a2}

Symmetry == Permutations(Workers)
=============================================================================
