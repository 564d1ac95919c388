-------------------------------- MODULE Auxfw ---------------------------------
(* The update of auxiliary firmware, which follows the sync of the EC:      *)
(* src/src/drivers/ec/vboot_auxfw.c and vboot/callbacks/auxfw.c, with the   *)
(* mask of drivers/ec/cros/lid_shutdown.c that keeps a closed lid from      *)
(* switching the machine off in the middle.  A chip is known by what its    *)
(* driver's check_hash and update_image may return.                         *)
EXTENDS EcSync

CONSTANT ChipSets   \* the chips a board may have: sequences of chips

ASSUME AuxfwAssumption ==
  ChipSets \subseteq
    Seq([update: {"none", "fast", "slow"}, fw: {"new", "old", "bad"}])

VARIABLES
  chips,
  severity,                \* of each chip, as check_vboot_auxfw found it
  chip,                    \* the chip update_vboot_auxfw is at
  lid_shutdown_disabled,
  status,                  \* what it returns: ok or error
  lid_before,              \* history: the mask when it began
  lid_lost                 \* history: an EC command failed since then

aux == <<chips, severity, chip, lid_shutdown_disabled, status, lid_before,
         lid_lost>>
vars == <<syncVars, aux>>

NO_DEVICE == 0
NO_UPDATE == 1
FAST_UPDATE == 2
SLOW_UPDATE == 3

Severity(c) ==
  CASE c.update = "none" -> NO_DEVICE
    [] c.fw = "new" -> NO_UPDATE
    [] c.update = "fast" -> FAST_UPDATE
    [] OTHER -> SLOW_UPDATE

TypeOK ==
  /\ ec.image \in {"ro", "rw"} /\ ec.rw \in [1 .. Bursts -> Cells]
  /\ ec.flags \subseteq Asserted \cup ProtectNow
  /\ ec.hash \in {{}, {"busy"}, {"done", "match"}, {"done", "differs"}}
  /\ ec.own => ec.pending = call
  /\ phase \in {"none", "send", "poll", "resend", "answered"}
  /\ polls \in 0 .. MaxPolls /\ faults \in 0 .. MaxFaults
  /\ waited \in 0 .. MaxHash + MaxHello + MaxLimit + 1
  /\ burst \in 1 .. Bursts
  /\ chip \in 1 .. Len(chips) + 1
  /\ lid_shutdown_disabled \in BOOLEAN
  /\ status \in {"ok", "error"}

Init ==
  /\ board \in Boards
  /\ chips \in ChipSets
  /\ \E image \in {"ro", "rw"}, rw \in {Image("old"), Image("new"), Image("mixed")},
        wp \in {{}, Asserted}, at_boot \in {{}, {"all_at_boot"}}, hash \in {{}, {"busy"}},
        at_once \in BOOLEAN, limit \in BOOLEAN :
       /\ image = "rw" => rw # Image("mixed")
       /\ ec = [image |-> image, rw |-> rw, hash |-> hash, jump |-> TRUE,
                flags |-> wp \cup at_boot \cup
                          (IF wp # {} /\ at_boot # {} THEN {"all_now"} ELSE {}),
                at_once |-> at_once, limit |-> limit, at_shutdown |-> FALSE,
                lid |-> board.x86 /\ ~board.lid_gbb, tunnels |-> FALSE,
                pending |-> NoCmd, own |-> FALSE, saved |-> Unavailable]
  /\ pc = "running_rw" /\ call = Cmd("version") /\ phase = "send" /\ polls = 0
  /\ answer = NoAnswer /\ ran = NotRun /\ faults = 0 /\ troubled = FALSE
  /\ in_rw = FALSE /\ started = FALSE /\ waited = 0 /\ burst = 1
  /\ updated = FALSE /\ display = FALSE /\ recovery = FALSE
  /\ severity = [i \in DOMAIN chips |-> NO_DEVICE] /\ chip = 1
  /\ lid_shutdown_disabled = FALSE /\ status = "ok"
  /\ lid_before = FALSE /\ lid_lost = FALSE

-----------------------------------------------------------------------------
\* A chip's driver fails, or the chip is busy.
Fault == faults < MaxFaults /\ faults' = faults + 1
NoFault == UNCHANGED faults

MaxSeverityLast == severity'[Len(chips)]   \* mutant
MaxSeverity ==
  IF chips = <<>> THEN NO_DEVICE
  ELSE CHOOSE m \in {severity'[i] : i \in DOMAIN chips} :
         \A i \in DOMAIN chips : severity'[i] <= m

\* check_vboot_auxfw; vboot updates what needs it, and finalises otherwise.
AuxfwCheck ==
  /\ pc = "auxfw" /\ NoFault
  /\ severity' = [i \in DOMAIN chips |-> Severity(chips[i])]
  /\ GoOn(IF MaxSeverity > NO_UPDATE THEN "screen" ELSE "tunnels")
  /\ UNCHANGED <<chips, chip, lid_shutdown_disabled, status, lid_before, lid_lost>>

AuxfwCheckFails ==
  /\ pc = "auxfw" /\ Fault
  /\ Restart
  /\ UNCHANGED aux

\* display_firmware_sync_screen
SyncScreen ==
  /\ pc = "screen" /\ NoFault
  /\ IF (\E i \in DOMAIN chips : severity[i] = SLOW_UPDATE) /\ ~display
     THEN StartAp(ec, recovery, TRUE) /\ UNCHANGED <<troubled, aux>>
     ELSE /\ GoOn("chip")
          /\ chip' = 1 /\ lid_shutdown_disabled' = FALSE /\ status' = "ok"
          /\ lid_before' = ec.lid /\ lid_lost' = FALSE
          /\ UNCHANGED <<chips, severity>>

NextChip == chip' = chip + 1
             /\ UNCHANGED <<chips, severity, lid_shutdown_disabled, status,
                            lid_before, lid_lost>>

SkipChip ==
  /\ pc = "chip" /\ chip <= Len(chips) /\ NoFault
  /\ severity[chip] \in {NO_DEVICE, NO_UPDATE}
  /\ GoOn("chip") /\ NextChip

UpdateChip ==
  /\ pc = "chip" /\ chip <= Len(chips) /\ NoFault
  /\ severity[chip] \notin {NO_DEVICE, NO_UPDATE}
  /\ GoOn(IF board.x86 /\ ~lid_shutdown_disabled THEN "get_mask" ELSE "apply")
  /\ UNCHANGED aux

MaskAnswer(p) ==
  /\ Answered(p) /\ NoFault
  /\ lid_lost' = (lid_lost \/ ~answer.ok)
  /\ UNCHANGED <<chips, severity, chip, status, lid_before>>

\* cros_ec_get_lid_shutdown_mask
MaskKnown ==
  /\ MaskAnswer("get_mask")
  /\ GoOn(IF answer.ok /\ answer.data # {} THEN "clear_get" ELSE "apply")
  /\ UNCHANGED lid_shutdown_disabled

\* cros_ec_set_lid_shutdown_mask(0), which reads the mask again
ClearMask ==
  /\ MaskAnswer("clear_get")
  /\ GoOn(IF answer.ok THEN "clear_set" ELSE "apply")
  /\ UNCHANGED lid_shutdown_disabled

MaskCleared ==
  /\ MaskAnswer("clear_set")
  /\ lid_shutdown_disabled' = answer.ok
  /\ GoOn("apply")

\* apply_dev_fw: the driver says it has updated the chip.
ApplyUpdate ==
  /\ pc = "apply"
  /\ \/ NoFault /\ chips' = [chips EXCEPT ![chip].fw = "new"]
     \/ Fault /\ chips' = [chips EXCEPT ![chip].fw = "bad"]
  /\ GoOn("recheck")
  /\ UNCHANGED <<severity, chip, lid_shutdown_disabled, status, lid_before, lid_lost>>

\* VB2_ERROR_EX_AUXFW_PERIPHERAL_BUSY: on with the next chip
ApplyBusy ==
  /\ pc = "apply" /\ Fault
  /\ GoOn("chip") /\ NextChip

\* The loop is left with an error: the file is missing, or the driver fails.
Fail ==
  /\ Goto("end", burst) /\ troubled' = TRUE /\ UNCHANGED <<ec, sync>>
  /\ status' = "error"
  /\ UNCHANGED <<severity, chip, lid_shutdown_disabled, lid_before, lid_lost>>

ApplyFails ==
  /\ pc = "apply" /\ Fault
  /\ chips' \in {chips, [chips EXCEPT ![chip].fw = "bad"]}
  /\ Fail

\* check_dev_fw_hash after the update
Recheck ==
  /\ pc = "recheck"
  /\ \/ /\ NoFault /\ Severity(chips[chip]) = NO_UPDATE
        /\ GoOn("chip") /\ NextChip
     \/ /\ NoFault /\ Severity(chips[chip]) # NO_UPDATE
        /\ Fail /\ UNCHANGED chips
     \/ /\ Fault
        /\ Fail /\ UNCHANGED chips

LastChip ==
  /\ pc = "chip" /\ chip = Len(chips) + 1 /\ NoFault
  /\ GoOn("end") /\ UNCHANGED aux

EndOnSuccess ==   \* mutant: an error returns at once
  /\ pc = "end" /\ NoFault
  /\ GoOn(IF lid_shutdown_disabled /\ status = "ok" THEN "restore_get" ELSE "return")
  /\ UNCHANGED aux

\* The mask is set again, if it was this call that cleared it.
EndRestoring ==
  /\ pc = "end" /\ NoFault
  /\ GoOn(IF lid_shutdown_disabled THEN "restore_get" ELSE "return")
  /\ UNCHANGED aux

RestoreMask ==
  /\ MaskAnswer("restore_get")
  /\ GoOn(IF answer.ok THEN "restore_set" ELSE "return")
  /\ UNCHANGED lid_shutdown_disabled

MaskRestored ==
  /\ MaskAnswer("restore_set")
  /\ GoOn("return")
  /\ UNCHANGED lid_shutdown_disabled

\* vboot has the EC restarted after an update, and goes into recovery mode
\* after one that failed.
AuxfwReturn ==
  /\ pc = "return" /\ NoFault
  /\ IF status = "ok" THEN GoOn("reboot_to_ro") ELSE Recover
  /\ UNCHANGED aux

\* protect_fw_tunnels; then the kernel is started.
TunnelsProtected ==
  /\ Answered("tunnels") /\ NoFault
  /\ IF answer.ok THEN GoOn("booted") ELSE Restart
  /\ UNCHANGED aux

AuxStep ==
  \/ AuxfwCheck \/ SyncScreen \/ SkipChip \/ UpdateChip \/ MaskKnown \/ ClearMask
  \/ MaskCleared \/ ApplyUpdate \/ ApplyBusy \/ ApplyFails \/ Recheck \/ LastChip
  \/ EndRestoring \/ RestoreMask \/ MaskRestored \/ AuxfwReturn \/ TunnelsProtected

ApStep ==
  \/ DriverStep /\ UNCHANGED <<pc, board, sync, aux>>
  \/ SyncStep /\ NoFault /\ UNCHANGED aux
  \/ AuxStep

Next ==
  \/ ApStep
  \/ (EcStep \/ Loss) /\ UNCHANGED <<pc, board, sync, aux>>
  \/ EcReset /\ lid_lost' = TRUE
     /\ UNCHANGED <<pc, board, sync, chips, severity, chip,
                    lid_shutdown_disabled, status, lid_before>>
  \/ PowerLoss /\ UNCHANGED aux
  \/ AuxfwCheckFails

Spec == Init /\ [][Next]_vars

(* The AP runs its code, and the EC finishes a command it has accepted: an  *)
(* AP that restarts while the EC is at one is refused everything else.      *)
FairSpec ==
  /\ Spec
  /\ WF_vars(ApStep)
  /\ WF_vars(Finish /\ UNCHANGED <<pc, board, sync, aux>>)

-----------------------------------------------------------------------------
(* ec_command keeps the promise of EcCall: no command runs twice for one   *)
(* call, and no answer is that of another command, whatever the EC loses.  *)
Steps == {"running_rw", "hash", "hash_start", "unprotect", "protect", "region",
          "erase", "versions", "flash_info", "write", "jump_rw", "hello",
          "disable_jump", "reboot_to_ro", "limit", "get_mask", "clear_set",
          "restore_set", "tunnels", "booted"}
Abstract == INSTANCE EcCall WITH
  Calls <- {CommandAt(p, n) : p \in Steps, n \in 1 .. Bursts},
  Answers <- [ok : BOOLEAN, data : SUBSET
                ({"ro", "rw", "busy", "done", "match", "differs", "limit",
                  "lid_closed"} \cup Asserted \cup ProtectNow)],
  answer <- IF phase = "answered" THEN answer ELSE NoAnswer
CallsRunOnce == Abstract!Spec

(* The EC is never made to run an RW image that is not complete, and no    *)
(* kernel is started beside one: an update that was interrupted is done    *)
(* again (vboot_update_image, vboot_hash_image).                           *)
StartsIntact ==
  pc = "booted" \/ (phase = "send" /\ call.op = "jump_rw") => ec.rw = Image("new")

(* No kernel is started while a chip has firmware that is old or spoilt,   *)
(* whatever a chip's driver said of its update.                            *)
ChipsCurrent ==
  pc = "booted" => \A i \in DOMAIN chips : chips[i].update # "none" => chips[i].fw = "new"

(* With write protection asserted a kernel cannot write the EC's flash,    *)
(* also when the EC restarts after vb2ex_ec_protect.                       *)
ProtectedAtBoot ==
  pc = "booted" /\ Asserted \subseteq ec.flags => "all_now" \in ec.flags

(* The EC is never asked to erase or write what is protected or running.   *)
WritesAccepted ==
  phase = "send" /\ call.op \in {"erase", "write"} => ~Refused(call, ec)

(* Whatever state the EC is found in, the machine goes into recovery mode  *)
(* only when a command failed or timed out, the power went, a chip could   *)
(* not be updated, or the file with the EC's image or hash is missing from *)
(* CBFS or does not fit.                                                   *)
RecoveryJustified == recovery => troubled

(* While a chip is updated a closed lid does not switch the machine off,   *)
(* and afterwards it does as before, unless a command to the EC failed;    *)
(* boards that are not x86 have no such mask.                              *)
LidMask ==
  ~lid_lost => /\ (pc = "apply" /\ board.x86 => ~ec.lid)
               /\ (pc = "return" => ec.lid = lid_before)

(* Software sync comes to an end: no wait for a hash, for the EC or for    *)
(* the power is without limit, and no two restarts ask for each other.     *)
Settles == <>(pc \in {"booted", "recovery", "shutdown"})
===============================================================================
