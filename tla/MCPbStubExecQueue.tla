-------------------------- MODULE MCPbStubExecQueue --------------------------
(* Small instances of PbStubExecQueue for TLC. *)
EXTENDS PbStubExecQueue, TLC

CONSTANTS s1, s2, a1, a2

(* One command of each kind: with or without a waiting caller, with or without
   a reply. *)
AllCmd == {s1, s2, a1, a2}
SyncOnes == {s1, s2}
ReplyOnes == {s1, a1}

(* Three commands, two of them with a waiting caller. *)
FewCmd == {s1, s2, a1}
FewSync == {s1, s2}
FewReply == {s1, a1}

Symmetry == Permutations(Clients) \cup Permutations(Workers)
=============================================================================
