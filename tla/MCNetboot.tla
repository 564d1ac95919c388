------------------------------ MODULE MCNetboot -----------------------------
(* Memory of five units with pages of two, a command line of four          *)
(* characters, every args file of up to three.                             *)
EXTENDS Netboot

MCArgsFiles == UNION {[1 .. n -> {"f", "s", "c"}] : n \in 0 .. 3}
=============================================================================
