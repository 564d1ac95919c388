-------------------------------- MODULE EcCall --------------------------------
(* What ec_command promises its callers: the EC runs a command at most     *)
(* once, and an answer is either what that run returned or an error, which *)
(* says nothing about whether the command ran.                             *)
CONSTANTS Calls, Answers, NotRun, NoAnswer, Error

VARIABLES
  call,     \* the command at hand
  ran,      \* what the EC's run of it returned, or NotRun
  answer    \* what the caller got, or NoAnswer

vars == <<call, ran, answer>>

Init == call \in Calls /\ ran = NotRun /\ answer = NoAnswer

\* The caller turns to another command, or restarts.
Issue == call' \in Calls /\ ran' = NotRun /\ answer' = NoAnswer

Run == /\ answer = NoAnswer /\ ran = NotRun
       /\ ran' \in Answers
       /\ answer' \in {NoAnswer, Error, ran'}
       /\ UNCHANGED call

Return == /\ answer = NoAnswer
          /\ answer' \in {Error} \cup ({ran} \ {NotRun})
          /\ UNCHANGED <<call, ran>>

Next == Issue \/ Run \/ Return
Spec == Init /\ [][Next]_vars
===============================================================================
