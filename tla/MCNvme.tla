------------------------------- MODULE MCNvme --------------------------------
(* Queues of three entries, so that a request of five blocks in chunks of  *)
(* two fills the submission queue and both rings wrap within two requests. *)
EXTENDS Nvme

MCRequests == {<<"read", 0, 5>>, <<"write", 4, 1>>}
==============================================================================
