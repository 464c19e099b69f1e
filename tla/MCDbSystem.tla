----------------------------- MODULE MCDbSystem -----------------------------
(* A small instance of DbSystem for TLC. *)
EXTENDS DbSystem, TLC

CONSTANTS sync, load, poison

(* A load the owner waits for, one it does not wait for, and an update the
   database refuses. *)
AllCmd == {sync, load, poison}
SyncOnes == {sync}
Loads == {sync, load}
Poison == {poison}
=============================================================================
