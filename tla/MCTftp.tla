------------------------------- MODULE MCTftp -------------------------------
(* Files of one block, which is empty, and of four, the last half full, and *)
(* buffers that hold them or not: the block numbers wrap within the longer. *)
EXTENDS Tftp

MCFiles == {[blocks |-> 1, last |-> 0], [blocks |-> 4, last |-> 1]}
=============================================================================
