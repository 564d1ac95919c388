------------------------------- MODULE EcSync ---------------------------------
(* Software sync of the EC: the callbacks of src/src/vboot/callbacks/ec.c   *)
(* and the operations of src/src/drivers/ec/cros/ec.c behind them, in the   *)
(* order in which vboot calls them.  The EC's RW image is compared with the *)
(* one in the AP's flash, rewritten when it differs, started and protected. *)
(* Boards with CONFIG_EC_EFS, and the update of the EC's RO image, are left *)
(* out.                                                                     *)
EXTENDS EcCommand

CONSTANTS
  Boards,      \* what a board may be like
  MaxHash,     \* CROS_EC_HASH_TIMEOUT_MS, in turns of the loop
  MaxHello,    \* the 3 s ec_reboot waits for the EC, in attempts
  MaxLimit     \* LIMIT_POWER_WAIT_TIMEOUT, in polls

ASSUME EcSyncAssumption ==
  /\ Boards \subseteq [slow_update: BOOLEAN, fits: BOOLEAN, x86: BOOLEAN, lid_gbb: BOOLEAN]
  /\ MaxHash \in Nat /\ MaxHello \in Nat /\ MaxLimit \in Nat

VARIABLES
  pc,          \* where the AP is: the command it waits for, or a step
  board,
  in_rw,       \* vboot: the EC said it runs RW
  started,     \* recalc_requested of vboot_hash_image
  waited,      \* turns of the loop at hand
  burst,       \* the burst ec_flash_write is at
  updated,     \* vboot: the RW image has been written since the AP started
  display,     \* the display is initialised
  recovery     \* the boot is one into recovery mode

sync == <<in_rw, started, waited, burst, updated, display, recovery>>
syncVars == <<ec, command, faults, troubled, pc, board, sync>>

UnprotectNow == [Cmd("protect") EXCEPT !.mask = {"all_now"}]   \* mutant
Unprotect == [Cmd("protect") EXCEPT !.mask = ProtectNow]

\* The command sent at pc = p, and at burst n.
CommandAt(p, n) ==
  CASE p = "running_rw" -> Cmd("version")
    [] p = "hash" -> Cmd("hash_get")
    [] p = "hash_start" -> Cmd("hash_start")
    [] p = "unprotect" -> Unprotect
    [] p = "protect" -> [Cmd("protect") EXCEPT !.mask = ProtectNow,
                                               !.flags = ProtectNow]
    [] p = "region" -> Cmd("region_info")
    [] p = "erase" -> Cmd("erase")
    [] p = "versions" -> Cmd("get_cmd_versions")
    [] p = "flash_info" -> Cmd("flash_info")
    [] p = "write" -> [Cmd("write") EXCEPT !.n = n]
    [] p = "jump_rw" -> Cmd("jump_rw")
    [] p = "hello" -> Cmd("hello")
    [] p = "disable_jump" -> Cmd("disable_jump")
    [] p = "reboot_to_ro" -> Cmd("reboot_at_shutdown")
    [] p = "limit" -> Cmd("limit")
    [] p \in {"get_mask", "clear_get", "restore_get"} -> Cmd("get_mask")
    [] p = "clear_set" -> Cmd("set_mask")
    [] p = "restore_set" -> [Cmd("set_mask") EXCEPT !.flags = {"lid_closed"}]
    [] p = "tunnels" -> Cmd("protect_tunnels")
    [] OTHER -> NoCmd

Goto(p, n) ==
  /\ pc' = p
  /\ call' = CommandAt(p, n)
  /\ phase' = IF CommandAt(p, n) = NoCmd THEN "none" ELSE "send"
  /\ ran' = NotRun
  /\ UNCHANGED <<polls, answer, board>>

Answered(p) == pc = p /\ phase = "answered"

\* What stays when the AP goes on to the next step, and what not.
GoOn(p) == Goto(p, burst) /\ UNCHANGED <<ec, troubled, sync>>
NewLoop(p) == Goto(p, burst) /\ waited' = 0 /\ started' = FALSE
              /\ UNCHANGED <<ec, troubled, in_rw, burst, updated, display, recovery>>
Again(p) == Goto(p, burst) /\ waited' = waited + 1
            /\ UNCHANGED <<ec, troubled, in_rw, started, burst, updated, display,
                           recovery>>

\* The AP starts, with the EC as e.  On x86 coreboot sets the mask of the lid
\* switch, cros_ec_disable_lid_shutdown_at_startup clears it again.
StartAp(e, rec, disp) ==
  /\ ec' = [e EXCEPT !.own = FALSE, !.lid = board.x86 /\ ~board.lid_gbb]
  /\ Goto(IF rec THEN "limit" ELSE "running_rw", 1)
  /\ in_rw' = FALSE /\ started' = FALSE /\ waited' = 0 /\ burst' = 1
  /\ updated' = FALSE /\ display' = disp /\ recovery' = rec

\* The AP restarts while the EC runs on: into recovery mode, or as before.
Recover == StartAp(ec, TRUE, display) /\ UNCHANGED troubled
Restart == StartAp(ec, recovery, display) /\ UNCHANGED troubled

\* vboot_running_rw
RunningRw ==
  /\ Answered("running_rw")
  /\ IF ~answer.ok THEN Recover
     ELSE /\ Goto("hash", burst)
          /\ in_rw' = ("rw" \in answer.data)
          /\ UNCHANGED <<ec, troubled, started, waited, burst, updated, display,
                         recovery>>

\* vboot_hash_image: no answer, no hash a second time, or none in time.
HashFails ==
  /\ Answered("hash")
  /\ \/ ~answer.ok
     \/ answer.data = {} /\ started
     \/ answer.data = {"busy"} /\ waited = MaxHash
  /\ StartAp(ec, TRUE, display)
  /\ troubled' = (troubled \/ answer.data = {"busy"})

HashAgain ==
  /\ Answered("hash") /\ answer.ok
  /\ \/ answer.data = {} /\ ~started /\ GoOn("hash_start")
     \/ answer.data = {"busy"} /\ waited < MaxHash /\ Again("hash")

HashStartedNone ==   \* mutant: the loop is left, for the status is not busy
  Answered("hash_start") /\ Recover

HashStarted ==
  /\ Answered("hash_start")
  /\ IF ~answer.ok THEN Recover
     ELSE /\ Goto("hash", burst)
          /\ started' = TRUE
          /\ UNCHANGED <<ec, troubled, in_rw, waited, burst, updated, display,
                         recovery>>

\* vboot compares the hash with that of the file in CBFS.
HashCompared ==
  /\ Answered("hash") /\ answer.ok /\ "done" \in answer.data
  /\ IF "match" \in answer.data
     THEN NewLoop(IF in_rw THEN "protect" ELSE "jump_rw")
     ELSE IF updated THEN Recover
     ELSE IF in_rw THEN GoOn("reboot_to_ro")
     ELSE GoOn("update")

\* vb2ex_ec_get_expected_image_hash: the file cannot be read from CBFS.
ExpectedHashMissing ==
  /\ Answered("hash") /\ answer.ok /\ "done" \in answer.data
  /\ StartAp(ec, TRUE, display)
  /\ troubled' = TRUE

\* vb2ex_ec_update_image: a slow update wants the display.
UpdateImage ==
  /\ pc = "update"
  /\ IF board.slow_update /\ ~display
     THEN StartAp(ec, recovery, TRUE) /\ UNCHANGED troubled
     ELSE GoOn("unprotect")

\* ... and the image cannot be read from CBFS.
ImageMissing ==
  /\ pc = "update"
  /\ board.slow_update => display
  /\ StartAp(ec, TRUE, display)
  /\ troubled' = TRUE

UnprotectedAnyway ==   \* mutant
  Answered("unprotect") /\ IF ~answer.ok THEN Recover ELSE GoOn("region")

\* vboot_set_region_protection with enable = 0
Unprotected ==
  /\ Answered("unprotect")
  /\ IF ~answer.ok THEN Recover
     ELSE GoOn(IF "all_now" \in answer.data THEN "reboot_to_ro" ELSE "region")

\* vboot_update_image, up to the erase
RegionKnown ==
  /\ Answered("region")
  /\ IF answer.ok /\ board.fits THEN GoOn("erase")
     ELSE StartAp(ec, TRUE, display) /\ troubled' = (troubled \/ ~board.fits)

RegionErased ==
  /\ Answered("erase")
  /\ IF answer.ok THEN GoOn("versions") ELSE Recover

\* ec_flash_write_burst_size: with version 0 of the command, or no answer, the
\* size is a constant.
VersionsKnown ==
  /\ Answered("versions")
  /\ \E p \in {"write"} \cup (IF answer.ok THEN {"flash_info"} ELSE {}) : GoOn(p)

BurstSizeKnown ==
  /\ Answered("flash_info")
  /\ IF answer.ok THEN GoOn("write") ELSE Recover

WrittenOrNot ==   \* mutant: a burst that fails is left out
  /\ Answered("write")
  /\ IF burst < Bursts
     THEN /\ Goto("write", burst + 1) /\ burst' = burst + 1
          /\ UNCHANGED <<ec, troubled, in_rw, started, waited, updated, display,
                         recovery>>
     ELSE /\ Goto("jump_rw", burst) /\ updated' = TRUE
          /\ UNCHANGED <<ec, troubled, in_rw, started, waited, burst, display,
                         recovery>>

\* ec_flash_write; vboot reads the hash again when the update is done.
Written ==
  /\ Answered("write")
  /\ IF ~answer.ok THEN Recover
     ELSE IF burst < Bursts
     THEN /\ Goto("write", burst + 1) /\ burst' = burst + 1
          /\ UNCHANGED <<ec, troubled, in_rw, started, waited, updated, display,
                         recovery>>
     ELSE /\ Goto("hash", burst) /\ updated' = TRUE
          /\ waited' = 0 /\ started' = FALSE
          /\ UNCHANGED <<ec, troubled, in_rw, burst, display, recovery>>

\* ec_reboot with EC_REBOOT_JUMP_RW, and the wait for the EC to answer again
JumpedToRw ==
  /\ Answered("jump_rw")
  /\ IF answer.ok THEN NewLoop("hello") ELSE Recover

Hello ==
  /\ Answered("hello")
  /\ IF answer.ok THEN NewLoop("protect")
     ELSE IF waited < MaxHello THEN Again("hello") ELSE Recover

ProtectLater ==   \* mutant: protection at the next boot is enough
  /\ Answered("protect")
  /\ IF answer.ok THEN GoOn("disable_jump") ELSE Recover

\* vboot_set_region_protection with enable = 1, for both images
ProtectSet ==
  /\ Answered("protect")
  /\ IF ~answer.ok THEN Recover
     ELSE IF ~(Asserted \subseteq answer.data) \/ "all_now" \in answer.data
     THEN GoOn("disable_jump")
     ELSE IF "all_at_boot" \in answer.data THEN GoOn("reboot_to_ro")
     ELSE Recover

JumpDisabled ==
  /\ Answered("disable_jump")
  /\ IF answer.ok THEN NewLoop("limit") ELSE Recover

\* vboot_reboot_to_ro: the power goes off, whether the EC has heard or not.
RebootToRo ==
  /\ Answered("reboot_to_ro")
  /\ \E e \in IF ec.at_shutdown
              THEN {Reset(d) : d \in Damaged(ec)} ELSE {ec} :
       StartAp(e, recovery, FALSE)
  /\ UNCHANGED troubled

\* vb2ex_ec_vboot_done
LimitWait ==
  /\ Answered("limit") /\ answer.ok
  /\ answer.data # {} /\ ~recovery /\ waited <= MaxLimit
  /\ Again("limit")

LimitDone ==
  /\ Answered("limit")
  /\ IF ~answer.ok THEN Restart
     ELSE /\ answer.data = {} \/ recovery \/ waited > MaxLimit
          /\ GoOn(IF answer.data # {} THEN "shutdown"
                  ELSE IF recovery THEN "recovery" ELSE "auxfw")

\* The power is lost and comes back.
PowerLoss ==
  /\ pc \notin {"booted", "shutdown", "recovery"} /\ faults < MaxFaults
  /\ \E e \in Damaged(ec) : StartAp(Reset(e), recovery, FALSE)
  /\ faults' = faults + 1
  /\ troubled' = TRUE

SyncStep ==
  \/ RunningRw \/ HashFails \/ HashAgain \/ HashStarted
  \/ ExpectedHashMissing \/ HashCompared \/ UpdateImage \/ ImageMissing
  \/ Unprotected \/ RegionKnown \/ RegionErased \/ VersionsKnown
  \/ BurstSizeKnown \/ Written \/ JumpedToRw \/ Hello \/ ProtectSet
  \/ JumpDisabled \/ RebootToRo \/ LimitWait \/ LimitDone
===============================================================================
