---------------------------- MODULE MCBootHandoff ---------------------------
(* BootHandoff is finite as it stands: the functions nest at most once.    *)
EXTENDS BootHandoff
=============================================================================
