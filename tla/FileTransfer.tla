---------------------------- MODULE FileTransfer ----------------------------
(* What a download promises its caller, whatever the network does: the     *)
(* blocks of one version of the file, in order, each once, and success     *)
(* exactly when the last one is there.                                     *)
EXTENDS Naturals, Sequences

CONSTANTS
  Versions,   \* the file may change on the server between two requests
  Lengths     \* its possible lengths, in blocks

VARIABLES
  length,     \* the length of each version
  got,        \* the blocks in the caller's buffer, as <<version, number>>
  result      \* "pending", "success" or "failure"

Init ==
  /\ length \in [Versions -> Lengths]
  /\ got = <<>>
  /\ result = "pending"

Append1(v) ==
  /\ result = "pending"
  /\ got # <<>> => got[1][1] = v
  /\ Len(got) < length[v]
  /\ got' = Append(got, <<v, Len(got) + 1>>)
  /\ result' = IF Len(got) + 1 = length[v] THEN "success" ELSE "pending"
  /\ UNCHANGED length

Fail ==
  /\ result = "pending"
  /\ result' = "failure"
  /\ UNCHANGED <<length, got>>

Next == Fail \/ \E v \in Versions : Append1(v)

Spec == Init /\ [][Next]_<<length, got, result>>
=============================================================================
