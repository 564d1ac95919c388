------------------------------- MODULE MCI2cTpm -------------------------------
(* Bursts of three, so chunks of two on the way out: commands of one to      *)
(* three chunks, full and not, and responses of one to three, one too large. *)
EXTENDS I2cTpm

MCCommandSizes == {1, 4, 5}
MCResponseSizes == {2, 5, 6}
================================================================================
