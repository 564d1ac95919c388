------------------------------ MODULE EcCommand -------------------------------
(* ec_command of src/src/drivers/ec/cros/ec.c: one packet to the EC and one *)
(* back, and for a command that takes long a poll of its status every 50 ms *)
(* and a last packet that fetches the result.                               *)
(*                                                                          *)
(* The EC is another computer: it restarts by itself, and a request or an   *)
(* answer gets lost.  What its commands do is known from how ec.c uses them.*)
EXTENDS Naturals, Sequences

CONSTANTS
  Bursts,      \* into how many bursts ec_flash_write cuts the image
  Slow,        \* the commands answered with EC_RES_IN_PROGRESS
  MaxPolls,    \* CROS_EC_CMD_TIMEOUT_MS, in polls
  MaxFaults    \* bound: losses and restarts

ASSUME EcCommandAssumption ==
  /\ Bursts \in Nat \ {0} /\ MaxPolls \in Nat /\ MaxFaults \in Nat
  /\ Slow \subseteq STRING

VARIABLES
  ec,       \* the EC
  call,     \* the command at hand
  phase,    \* none, send, poll, resend, answered
  polls,
  answer,   \* what ec_command returned
  ran,      \* history: what the EC's run of the command at hand returned
  faults,   \* how many there have been
  troubled  \* history: a command failed or timed out, the power went, a chip
            \* could not be updated, or a file of the EC's was missing or
            \* did not fit

command == <<call, phase, polls, answer, ran>>

Cmd(op) == [op |-> op, n |-> 0, mask |-> {}, flags |-> {}]
NoCmd == Cmd("none")
Error == [ok |-> FALSE, data |-> {}]
Ok(data) == [ok |-> TRUE, data |-> data]
NotRun == [ok |-> FALSE, data |-> {"not run"}]
NoAnswer == [ok |-> FALSE, data |-> {"no answer"}]
Unavailable == [ok |-> FALSE, data |-> {"unavailable"}]

ProtectNow == {"all_now", "all_at_boot"}
Asserted == {"gpio", "ro_at_boot"}
Cells == {"erased", "old", "new", "mixed"}
Image(c) == [i \in 1 .. Bursts |-> c]

-----------------------------------------------------------------------------
(* The EC: what each command does to it and what it returns.               *)

Refused(c, e) ==
  \/ c.op \in {"erase", "write"} /\ ("all_now" \in e.flags \/ e.image = "rw")
  \/ c.op = "hash_start" /\ e.hash = {"busy"}
  \/ c.op = "jump_rw" /\ ~e.jump

\* What is protected stays so until the EC restarts.
Protected(c, e) ==
  (e.flags \ (c.mask \ {"all_now"})) \cup (c.flags \ {"all_now"})
    \cup (IF Asserted \subseteq e.flags /\ e.at_once THEN c.flags ELSE {})

Effect(c, e) ==
  CASE c.op = "erase" -> [e EXCEPT !.rw = Image("erased"), !.hash = {}]
    [] c.op = "write" ->
         [e EXCEPT !.rw[c.n] = IF @ = "erased" THEN "new" ELSE "mixed",
                   !.hash = {}]
    [] c.op = "hash_start" -> [e EXCEPT !.hash = {"busy"}]
    [] c.op = "protect" -> [e EXCEPT !.flags = Protected(c, e)]
    [] c.op = "jump_rw" -> [e EXCEPT !.image = "rw", !.hash = {}]
    [] c.op = "disable_jump" -> [e EXCEPT !.jump = FALSE]
    [] c.op = "reboot_at_shutdown" -> [e EXCEPT !.at_shutdown = TRUE]
    [] c.op = "set_mask" -> [e EXCEPT !.lid = c.flags # {}]
    [] c.op = "protect_tunnels" -> [e EXCEPT !.tunnels = TRUE]
    [] OTHER -> e

Data(c, e) ==
  CASE c.op = "version" -> {e.image}
    [] c.op = "hash_get" -> e.hash
    [] c.op = "protect" -> Protected(c, e)
    [] c.op = "limit" -> IF e.limit THEN {"limit"} ELSE {}
    [] c.op = "get_mask" -> IF e.lid THEN {"lid_closed"} ELSE {}
    [] OTHER -> {}

Run(c, e) == IF Refused(c, e) THEN e ELSE Effect(c, e)
Result(c, e) == IF Refused(c, e) THEN Error ELSE Ok(Data(c, e))

\* A restart in the middle of an erase or a write may spoil what it works on.
Damaged(e) ==
  {e} \cup
  CASE e.pending.op = "erase" -> {[e EXCEPT !.rw = Image("mixed")]}
    [] e.pending.op = "write" -> {[e EXCEPT !.rw[e.pending.n] = "mixed"]}
    [] OTHER -> {}

\* The EC starts its read-only image.
Reset(e) ==
  [e EXCEPT !.image = "ro", !.hash = {}, !.jump = TRUE,
            !.at_shutdown = FALSE, !.lid = FALSE, !.tunnels = FALSE,
            !.flags = IF Asserted \cup {"all_at_boot"} \subseteq @
                      THEN @ \cup {"all_now"} ELSE @ \ {"all_now"},
            !.pending = NoCmd, !.own = FALSE, !.saved = Unavailable]

\* It finishes a slow command.
Finish ==
  /\ ec.pending # NoCmd
  /\ ec' = [Run(ec.pending, ec) EXCEPT !.pending = NoCmd, !.own = FALSE,
                                       !.saved = Result(ec.pending, ec)]
  /\ ran' = IF ec.own THEN Result(ec.pending, ec) ELSE ran
  /\ UNCHANGED <<call, phase, polls, answer, faults, troubled>>

HashDone ==
  /\ ec.hash = {"busy"}
  /\ ec' = [ec EXCEPT !.hash =
                        {"done", IF ec.rw = Image("new") THEN "match" ELSE "differs"}]
  /\ UNCHANGED <<command, faults, troubled>>

LimitEnds ==
  /\ ec.limit
  /\ ec' = [ec EXCEPT !.limit = FALSE]
  /\ UNCHANGED <<command, faults, troubled>>

\* A watchdog restarts it, whatever it was doing.
EcReset ==
  /\ faults < MaxFaults
  /\ faults' = faults + 1
  /\ troubled' = TRUE
  /\ \E e \in Damaged(ec) : ec' = Reset(e)
  /\ UNCHANGED command

-----------------------------------------------------------------------------
(* The driver.                                                             *)

Answer(a) == phase' = "answered" /\ answer' = a

\* The call returns: the EC may go on working for nobody.
GiveUp == ec' = [ec EXCEPT !.own = FALSE]

StartSlow(e) == [e EXCEPT !.pending = call, !.own = TRUE]

\* send_command_proto3_work with the command itself, answered at once.
SendFast ==
  /\ phase = "send" /\ ec.pending = NoCmd /\ call.op \notin Slow
  /\ ec' = Run(call, ec)
  /\ ran' = Result(call, ec)
  /\ Answer(Result(call, ec))
  /\ UNCHANGED <<call, polls, faults, troubled>>

\* The EC says EC_RES_IN_PROGRESS.
SendSlow ==
  /\ phase = "send" /\ ec.pending = NoCmd /\ call.op \in Slow
  /\ ec' = StartSlow(ec)
  /\ phase' = "poll"
  /\ polls' = 0
  /\ UNCHANGED <<call, answer, ran, faults, troubled>>

\* It still works on the command of an earlier call.
SendRefused ==
  /\ phase = "send" /\ ec.pending # NoCmd
  /\ Answer(Error)
  /\ troubled' = TRUE
  /\ UNCHANGED <<ec, call, polls, ran, faults>>

\* One poll with EC_CMD_GET_COMMS_STATUS.
GetCommsStatus ==
  /\ phase = "poll" /\ polls < MaxPolls
  /\ IF ec.pending # NoCmd
     THEN polls' = polls + 1 /\ UNCHANGED phase
     ELSE phase' = "resend" /\ UNCHANGED polls
  /\ UNCHANGED <<ec, call, answer, ran, faults, troubled>>

\* The time is looked at before the flags of the status.
CommsTimeout ==
  /\ phase = "poll" /\ polls = MaxPolls
  /\ Answer(Error)
  /\ GiveUp
  /\ troubled' = TRUE
  /\ UNCHANGED <<call, polls, ran, faults>>

ResendAsOk(a) == IF a = Unavailable THEN Ok({}) ELSE a   \* mutant
Resent(a) == IF a = Unavailable THEN Error ELSE a

\* EC_CMD_RESEND_RESPONSE: the EC gives a result away once.
ResendResponse ==
  /\ phase = "resend"
  /\ Answer(Resent(ec.saved))
  /\ troubled' = (troubled \/ ec.saved = Unavailable)
  /\ ec' = [ec EXCEPT !.saved = Unavailable]
  /\ UNCHANGED <<call, polls, ran, faults>>

\* A packet gets lost on its way to the EC.
LoseRequest ==
  /\ phase \in {"send", "poll", "resend"} /\ faults < MaxFaults
  /\ faults' = faults + 1
  /\ Answer(Error)
  /\ GiveUp
  /\ troubled' = TRUE
  /\ UNCHANGED <<call, polls, ran>>

\* The answer to one gets lost, or fails its checksum.
LoseAnswer ==
  /\ phase \in {"send", "resend"} /\ ec.pending = NoCmd /\ faults < MaxFaults
  /\ faults' = faults + 1
  /\ Answer(Error)
  /\ troubled' = TRUE
  /\ IF phase = "resend"
     THEN ec' = [ec EXCEPT !.saved = Unavailable] /\ UNCHANGED ran
     ELSE IF call.op \in Slow
     THEN ec' = [ec EXCEPT !.pending = call] /\ UNCHANGED ran
     ELSE ec' = Run(call, ec) /\ ran' = Result(call, ec)
  /\ UNCHANGED <<call, polls>>

EcStep == Finish \/ HashDone \/ LimitEnds
DriverStep == SendFast \/ SendSlow \/ SendRefused \/ GetCommsStatus
              \/ CommsTimeout \/ ResendResponse
Loss == LoseRequest \/ LoseAnswer
===============================================================================
