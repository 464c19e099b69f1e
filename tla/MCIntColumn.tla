------------------------------ MODULE MCIntColumn ------------------------------
(* A small instance of IntColumn for TLC. *)
EXTENDS IntColumn

(* Nothing, something, and a byte with the sign bit. *)
Bytes == {0, 1, 255}
=============================================================================
