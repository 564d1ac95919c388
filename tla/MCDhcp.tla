------------------------------- MODULE MCDhcp -------------------------------
(* Two servers that offer from the same two addresses.  Without symmetry:  *)
(* the runs check liveness.                                                *)
EXTENDS Dhcp

CONSTANTS s1, s2, a1, a2
=============================================================================
