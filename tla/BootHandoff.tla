---------------------------- MODULE BootHandoff ----------------------------
(* From vboot_select_and_load_kernel to the end of the firmware: the       *)
(* cleanup functions (src/src/base/cleanup_funcs.c), among them the one    *)
(* that commits vboot's data and locks the TPM's kernel space              *)
(* (src/src/vboot/stages.c, vboot/callbacks/misc.c, vboot/secdata_tpm.c),  *)
(* run when depthcharge reboots, powers off or gives the machine away.     *)
(* They nest: a cleanup that fails reboots, which runs them again.         *)
(*                                                                         *)
(* VbSelectAndLoadKernel belongs to vboot_reference: here it changes the   *)
(* data it keeps in the context, commits it, runs payloads and returns.    *)
EXTENDS Sequences, FiniteSets, Naturals

Items == {"kernel", "firmware", "nvdata"}   \* secdata_kernel, ...
CleanupTypes == {"reboot", "poweroff", "handoff", "legacy"}
Exits == {"entry", "kernel", "payload", "reset", "off", "ec"}

VARIABLES
  step,
  recovery,               \* VB2_CONTEXT_RECOVERY_MODE, fixed for the boot
  changed,                \* the items with their VB2_CONTEXT_..._CHANGED flag
  dirty,                  \* history: the items whose storage is out of date
  commit_rv,              \* what vb2ex_commit_data will return
  caller,                 \* who called it: "vboot", "cleanup" or "lockfail"
  secdata_kernel_locked,
  tpm,                    \* "unused", "open", "closed" or "disabled"
  tpm_locked,             \* the TPM refuses writes of the kernel space
  power_button,           \* the EC passes its pulses on
  cleanup_funcs,          \* the registered functions, first to run first
  passes,                 \* the run_cleanup_funcs calls under way, innermost
                          \* first, as [type, rest, exit]: the functions still
                          \* to run and what happens after them
  tpm_early               \* history: the TPM driver registered its cleanup
                          \* before the commit function was registered, and
                          \* no pass has run to its end since

data == <<changed, dirty>>
tpm_chip == <<tpm, tpm_locked, secdata_kernel_locked>>
handoff_vars == <<step, recovery, data, commit_rv, caller, tpm_chip,
                  power_button, cleanup_funcs, passes, tpm_early>>

Ended == {"kernel", "legacy_kernel", "payload", "reset", "off", "halt", "died"}

TypeOK ==
  /\ step \in Ended \cup
            {"start", "fwmp", "register", "vboot", "boot", "entry",
             "alternative", "cleanup", "ec",
             "commit_kernel", "commit_firmware", "commit_nvdata", "committed",
             "lock"}
  /\ recovery \in BOOLEAN
  /\ changed \in SUBSET Items
  /\ dirty \in SUBSET Items
  /\ commit_rv \in {"success", "error"}
  /\ caller \in {"vboot", "cleanup", "lockfail"}
  /\ secdata_kernel_locked \in BOOLEAN
  /\ tpm \in {"unused", "open", "closed", "disabled"}
  /\ tpm_locked \in BOOLEAN
  /\ power_button \in BOOLEAN
  /\ cleanup_funcs \in Seq({"commit", "powerbtn", "tpm", "finalize"})
  /\ passes \in Seq([type : CleanupTypes,
                     rest : Seq({"commit", "powerbtn", "tpm", "finalize"}),
                     exit : Exits])
  /\ tpm_early \in BOOLEAN

(* The TPM driver registers its cleanup when it first talks to the TPM,    *)
(* which earlier initialisation may or may not have done.                  *)
HandoffInit ==
  /\ step = "start"
  /\ recovery \in BOOLEAN
  /\ changed \in {{}, {"nvdata"}}
  /\ dirty = changed
  /\ commit_rv = "success"
  /\ caller = "vboot"
  /\ secdata_kernel_locked = FALSE
  /\ \/ tpm = "unused" /\ cleanup_funcs = <<"finalize">>
     \/ tpm = "open" /\ cleanup_funcs = <<"tpm", "finalize">>
  /\ tpm_locked = FALSE
  /\ power_button = TRUE
  /\ passes = <<>>
  /\ tpm_early = FALSE

-----------------------------------------------------------------------------
(* list_insert_after(.., &cleanup_funcs) puts a function first; a pass     *)
(* that is under way goes on with the functions after its own.             *)
(* A wrong list: list_insert_before would put the function last.           *)
RegisterLast(f) == cleanup_funcs' = Append(cleanup_funcs, f) \* mutant

Register(f) == cleanup_funcs' = <<f>> \o cleanup_funcs

(* run_cleanup_funcs(type), and what its caller does next.                 *)
RunCleanup(type, exit) ==
  /\ passes' = <<[type |-> type, rest |-> cleanup_funcs, exit |-> exit]>>
                 \o passes
  /\ step' = "cleanup"
ColdReboot == RunCleanup("reboot", "reset")
PowerOff == RunCleanup("poweroff", "off")

(* A TPM command that succeeds: it opens the TPM if it is the first one.   *)
(* Some TPMs still answer after the driver has closed them.                *)
TpmAnswers ==
  \/ tpm \in {"open", "closed"} /\ UNCHANGED <<tpm, cleanup_funcs>>
  \/ tpm = "unused" /\ tpm' = "open" /\ Register("tpm")

(* One that fails: no answer, an error, or the initialisation fails.       *)
TpmRefuses == UNCHANGED <<tpm, cleanup_funcs>>

-----------------------------------------------------------------------------
(* vboot_select_and_load_kernel up to the call of vboot.                   *)

InhibitPowerButton ==
  /\ step = "start"
  /\ \/ power_button' = FALSE /\ Register("powerbtn")
     \/ UNCHANGED <<power_button, cleanup_funcs>>     \* not x86, or no EC
  /\ step' = "fwmp"
  /\ UNCHANGED <<recovery, data, commit_rv, caller, tpm_chip, passes, tpm_early>>

(* secdata_fwmp_read: its result is not checked.                           *)
ReadFwmp ==
  /\ step = "fwmp"
  /\ TpmAnswers \/ TpmRefuses
  /\ step' = "register"
  /\ UNCHANGED <<recovery, data, commit_rv, caller, tpm_locked,
                 secdata_kernel_locked, power_button, passes, tpm_early>>

RegisterCommit ==
  /\ step = "register"
  /\ Register("commit")
  /\ tpm_early' = (tpm # "unused")
  /\ step' = "vboot"
  /\ UNCHANGED <<recovery, data, commit_rv, caller, tpm_chip, power_button, passes>>

-----------------------------------------------------------------------------
(* VbSelectAndLoadKernel.  vboot writes secdata_firmware in recovery mode  *)
(* only.                                                                   *)
VbChange(item) ==
  /\ step = "vboot"
  /\ item = "firmware" => recovery
  /\ changed' = changed \cup {item}
  /\ dirty' = dirty \cup {item}
  /\ UNCHANGED <<step, recovery, commit_rv, caller, tpm_chip, power_button,
                 cleanup_funcs, passes, tpm_early>>

VbCommit ==
  /\ step = "vboot"
  /\ caller' = "vboot"
  /\ commit_rv' = "success"
  /\ step' = "commit_kernel"
  /\ UNCHANGED <<recovery, data, tpm_chip, power_button, cleanup_funcs, passes,
                 tpm_early>>

(* secdata_kernel_lock, when it is not done yet and the TPM answers.       *)
Lock ==
  /\ ~secdata_kernel_locked
  /\ TpmAnswers
  /\ tpm_locked' = TRUE
  /\ secdata_kernel_locked' = TRUE

(* vb2ex_tpm_set_mode: the kernel space is locked, if it is not yet, before*)
(* the TPM is disabled, which may fail.                                    *)
VbTpmSetModeDisabled ==
  /\ step = "vboot"
  /\ tpm # "disabled"
  /\ tpm_locked' = TRUE
  /\ secdata_kernel_locked' = TRUE
  /\ tpm' \in {"disabled", IF tpm = "unused" THEN "open" ELSE tpm}
  /\ IF tpm = "unused" THEN Register("tpm") ELSE UNCHANGED cleanup_funcs
  /\ UNCHANGED <<step, recovery, data, commit_rv, caller, power_button, passes,
                 tpm_early>>

(* VbExLegacy, payload_run: the payload was found and loaded.              *)
VbLegacy ==
  /\ step = "vboot"
  /\ RunCleanup("legacy", "payload")
  /\ UNCHANGED <<recovery, data, commit_rv, caller, tpm_chip, power_button,
                 cleanup_funcs, tpm_early>>

(* VbSelectAndLoadKernel returns anything but VB2_SUCCESS.                 *)
VbReboot ==
  /\ step = "vboot"
  /\ ColdReboot
  /\ UNCHANGED <<recovery, data, commit_rv, caller, tpm_chip, power_button,
                 cleanup_funcs, tpm_early>>

VbShutdown ==
  /\ step = "vboot"
  /\ PowerOff
  /\ UNCHANGED <<recovery, data, commit_rv, caller, tpm_chip, power_button,
                 cleanup_funcs, tpm_early>>

(* VB2_REQUEST_REBOOT_EC_...: ec_reboot runs the cleanup functions before  *)
(* it sends the command, unless the EC is to reboot when the AP is off.    *)
VbRebootEc ==
  /\ step = "vboot"
  /\ RunCleanup("reboot", "ec")
  /\ UNCHANGED <<recovery, data, commit_rv, caller, tpm_chip, power_button,
                 cleanup_funcs, tpm_early>>

(* The EC resets the AP, or it does not and depthcharge powers off.        *)
EcResets ==
  /\ step = "ec"
  /\ step' = "reset"
  /\ UNCHANGED <<recovery, data, commit_rv, caller, tpm_chip, power_button,
                 cleanup_funcs, passes, tpm_early>>

EcCommandReturns ==
  /\ step = "ec"
  /\ PowerOff
  /\ UNCHANGED <<recovery, data, commit_rv, caller, tpm_chip, power_button,
                 cleanup_funcs, tpm_early>>

VbSucceeds ==
  /\ step = "vboot"
  /\ step' = "boot"
  /\ UNCHANGED <<recovery, data, commit_rv, caller, tpm_chip, power_button,
                 cleanup_funcs, passes, tpm_early>>

-----------------------------------------------------------------------------
(* vboot_boot_kernel.                                                      *)

(* The command line or crossystem cannot be set up: main halts.            *)
BootReturns ==
  /\ step = "boot"
  /\ step' = "halt"
  /\ UNCHANGED <<recovery, data, commit_rv, caller, tpm_chip, power_button,
                 cleanup_funcs, passes, tpm_early>>

(* boot() found everything in place; on x86 it then jumps.                 *)
BootKernel ==
  /\ step = "boot"
  /\ RunCleanup("handoff", "entry")
  /\ UNCHANGED <<recovery, data, commit_rv, caller, tpm_chip, power_button,
                 cleanup_funcs, tpm_early>>

StartKernel ==
  /\ step = "entry"
  /\ step' = "kernel"
  /\ UNCHANGED <<recovery, data, commit_rv, caller, tpm_chip, power_button,
                 cleanup_funcs, passes, tpm_early>>

(* fill_boot_info or boot() failed; on arm64 also after the cleanups, when *)
(* the kernel is decompressed.                                             *)
BootGivesUp ==
  /\ step \in {"boot", "entry"}
  /\ step' = "alternative"
  /\ UNCHANGED <<recovery, data, commit_rv, caller, tpm_chip, power_button,
                 cleanup_funcs, passes, tpm_early>>

(* With CONFIG_KERNEL_LEGACY legacy_boot starts the image as it is.        *)
BootLegacyKernel ==
  /\ step = "alternative"
  /\ step' = "legacy_kernel"
  /\ UNCHANGED <<recovery, data, commit_rv, caller, tpm_chip, power_button,
                 cleanup_funcs, passes, tpm_early>>

BootMultiboot ==
  /\ step = "alternative"
  /\ RunCleanup("handoff", "kernel")
  /\ UNCHANGED <<recovery, data, commit_rv, caller, tpm_chip, power_button,
                 cleanup_funcs, tpm_early>>

(* Nothing can be booted: main halts.                                      *)
BootFails ==
  /\ step = "alternative"
  /\ step' = "halt"
  /\ UNCHANGED <<recovery, data, commit_rv, caller, tpm_chip, power_button,
                 cleanup_funcs, passes, tpm_early>>

-----------------------------------------------------------------------------
(* run_cleanup_funcs.                                                      *)

Pass == passes[1]
Leave == passes' = <<[Pass EXCEPT !.rest = Tail(@)]>> \o Tail(passes)
Runs(f) == step = "cleanup" /\ Pass.rest # <<>> /\ Pass.rest[1] = f

CleanupPowerButton ==
  /\ Runs("powerbtn")
  /\ Leave
  /\ power_button' = TRUE
  /\ UNCHANGED <<step, recovery, data, commit_rv, caller, tpm_chip, cleanup_funcs,
                 tpm_early>>

CleanupTpm ==
  /\ Runs("tpm")
  /\ Leave
  /\ tpm' = IF tpm = "open" THEN "closed" ELSE tpm
  /\ UNCHANGED <<step, recovery, data, commit_rv, caller, tpm_locked,
                 secdata_kernel_locked, power_button, cleanup_funcs, tpm_early>>

(* coreboot_finalize and the other functions that only concern hardware.   *)
CleanupOther ==
  /\ Runs("finalize")
  /\ Leave
  /\ UNCHANGED <<step, recovery, data, commit_rv, caller, tpm_chip, power_button,
                 cleanup_funcs, tpm_early>>

CleanupCommit ==
  /\ Runs("commit")
  /\ caller' = "cleanup"
  /\ commit_rv' = "success"
  /\ step' = "commit_kernel"
  /\ UNCHANGED <<recovery, data, tpm_chip, power_button, cleanup_funcs, passes,
                 tpm_early>>

CleanupDone ==
  /\ step = "cleanup"
  /\ Pass.rest = <<>>
  /\ passes' = Tail(passes)
  /\ step' = Pass.exit
  /\ UNCHANGED <<recovery, data, commit_rv, caller, tpm_chip, power_button,
                 cleanup_funcs, tpm_early>>

(* The payload returns, "unfortunately", and VbExLegacy to vboot.          *)
PayloadReturn ==
  /\ step = "payload"
  /\ step' = "vboot"
  /\ tpm_early' = FALSE
  /\ UNCHANGED <<recovery, data, commit_rv, caller, tpm_chip, power_button,
                 cleanup_funcs, passes>>

-----------------------------------------------------------------------------
(* vb2ex_commit_data: the kernel space, the firmware space, nvdata.        *)

Written(item) == changed' = changed \ {item} /\ dirty' = dirty \ {item}

(* vb2api_fail notes the failure in nvdata.                                *)
NoteFailure ==
  changed' = changed \cup {"nvdata"} /\ dirty' = dirty \cup {"nvdata"}

WriteFails ==
  IF recovery THEN UNCHANGED <<data, commit_rv>>
              ELSE NoteFailure /\ commit_rv' = "error"

(* secdata_kernel_write and secdata_safe_write, which clears the TPM and   *)
(* writes again when the TPM is out of writes.                             *)
CommitKernel ==
  /\ step = "commit_kernel"
  /\ IF "kernel" \notin changed
       THEN UNCHANGED <<data, commit_rv, tpm, cleanup_funcs>>
       ELSE \/ ~tpm_locked /\ TpmAnswers /\ Written("kernel")
               /\ UNCHANGED commit_rv
            \/ TpmRefuses /\ WriteFails
  /\ step' = "commit_firmware"
  /\ UNCHANGED <<recovery, caller, tpm_locked, secdata_kernel_locked,
                 power_button, passes, tpm_early>>

(* secdata_firmware_write refuses outside recovery mode.                   *)
CommitFirmware ==
  /\ step = "commit_firmware"
  /\ IF "firmware" \notin changed
       THEN UNCHANGED <<data, commit_rv, tpm, cleanup_funcs>>
       ELSE \/ recovery /\ TpmAnswers /\ Written("firmware")
               /\ UNCHANGED commit_rv
            \/ TpmRefuses /\ WriteFails
  /\ step' = "commit_nvdata"
  /\ UNCHANGED <<recovery, caller, tpm_locked, secdata_kernel_locked,
                 power_button, passes, tpm_early>>

(* A wrong order of returns: an earlier error skips nvdata.                *)
CommitNvdataOnSuccess ==   \* mutant
  /\ step = "commit_nvdata"
  /\ IF "nvdata" \in changed /\ commit_rv = "success"
       THEN Written("nvdata") ELSE UNCHANGED data
  /\ step' = "committed"
  /\ UNCHANGED <<recovery, commit_rv, caller, tpm_chip, power_button,
                 cleanup_funcs, passes, tpm_early>>

CommitNvdata ==
  /\ step = "commit_nvdata"
  /\ IF "nvdata" \in changed THEN Written("nvdata") ELSE UNCHANGED data
  /\ step' = "committed"
  /\ UNCHANGED <<recovery, commit_rv, caller, tpm_chip, power_button,
                 cleanup_funcs, passes, tpm_early>>

(* nvdata_write fails: fatal, except in recovery mode, where it and any    *)
(* earlier error are ignored.                                              *)
CommitNvdataFails ==
  /\ step = "commit_nvdata"
  /\ "nvdata" \in changed
  /\ IF recovery THEN commit_rv' = "success" /\ step' = "committed"
                 ELSE step' = "died" /\ UNCHANGED commit_rv
  /\ UNCHANGED <<recovery, data, caller, tpm_chip, power_button, cleanup_funcs,
                 passes, tpm_early>>

-----------------------------------------------------------------------------
(* What the callers of vb2ex_commit_data do with the result: vboot goes    *)
(* on, commit_and_lock_cleanup_func reboots or locks.                      *)

CommittedForVboot ==
  /\ step = "committed"
  /\ caller = "vboot"
  /\ step' = "vboot"
  /\ UNCHANGED <<recovery, data, commit_rv, caller, tpm_chip, power_button,
                 cleanup_funcs, passes, tpm_early>>

(* A wrong reboot: the pass that failed is started again.                  *)
CommitFailedRestarts ==   \* mutant
  /\ step = "committed"
  /\ \/ caller = "cleanup" /\ commit_rv = "error" /\ Pass.type # "reboot"
     \/ caller = "lockfail"
  /\ Len(passes) < 2
  /\ RunCleanup(Pass.type, Pass.exit)
  /\ UNCHANGED <<recovery, data, commit_rv, caller, tpm_chip, power_button,
                 cleanup_funcs, tpm_early>>

CommitFailedReboots ==
  /\ step = "committed"
  /\ \/ caller = "cleanup" /\ commit_rv = "error" /\ Pass.type # "reboot"
     \/ caller = "lockfail"
  /\ ColdReboot
  /\ UNCHANGED <<recovery, data, commit_rv, caller, tpm_chip, power_button,
                 cleanup_funcs, tpm_early>>

NeedsLock == ~recovery /\ Pass.type \in {"handoff", "legacy"}

(* Wrong returns: a failed commit counts as done, or is tried again.       *)
CommitCleanupReturnsAnyway ==   \* mutant
  /\ step = "committed"
  /\ caller = "cleanup"
  /\ commit_rv = "error" \/ ~NeedsLock
  /\ Leave
  /\ step' = "cleanup"
  /\ UNCHANGED <<recovery, data, commit_rv, caller, tpm_chip, power_button,
                 cleanup_funcs, tpm_early>>
CommitCleanupRetries ==   \* mutant
  /\ step = "committed"
  /\ caller = "cleanup"
  /\ IF commit_rv = "error" THEN Pass.type = "reboot" ELSE ~NeedsLock
  /\ IF commit_rv = "error" THEN UNCHANGED passes ELSE Leave
  /\ step' = "cleanup"
  /\ UNCHANGED <<recovery, data, commit_rv, caller, tpm_chip, power_button,
                 cleanup_funcs, tpm_early>>

CommitCleanupReturns ==
  /\ step = "committed"
  /\ caller = "cleanup"
  /\ IF commit_rv = "error" THEN Pass.type = "reboot" ELSE ~NeedsLock
  /\ Leave
  /\ step' = "cleanup"
  /\ UNCHANGED <<recovery, data, commit_rv, caller, tpm_chip, power_button,
                 cleanup_funcs, tpm_early>>

GoLock ==
  /\ step = "committed"
  /\ caller = "cleanup"
  /\ commit_rv = "success"
  /\ NeedsLock
  /\ step' = "lock"
  /\ UNCHANGED <<recovery, data, commit_rv, caller, tpm_chip, power_button,
                 cleanup_funcs, passes, tpm_early>>

LockKernel ==
  /\ step = "lock"
  /\ Lock \/ (secdata_kernel_locked /\ UNCHANGED <<tpm_chip, cleanup_funcs>>)
  /\ Leave
  /\ step' = "cleanup"
  /\ UNCHANGED <<recovery, data, commit_rv, caller, power_button, tpm_early>>

(* The failure is noted and committed, then the machine reboots.           *)
LockFails ==
  /\ step = "lock"
  /\ ~secdata_kernel_locked
  /\ TpmRefuses
  /\ NoteFailure
  /\ caller' = "lockfail"
  /\ commit_rv' = "success"
  /\ step' = "commit_kernel"
  /\ UNCHANGED <<recovery, tpm_locked, secdata_kernel_locked, power_button,
                 passes, tpm_early>>

-----------------------------------------------------------------------------
Vboot ==
  \/ \E item \in Items : VbChange(item)
  \/ VbCommit \/ VbTpmSetModeDisabled \/ VbLegacy
  \/ VbReboot \/ VbShutdown \/ VbRebootEc \/ VbSucceeds

Firmware ==
  \/ InhibitPowerButton \/ ReadFwmp \/ RegisterCommit
  \/ EcCommandReturns
  \/ BootReturns \/ BootKernel \/ StartKernel \/ BootGivesUp
  \/ BootLegacyKernel \/ BootMultiboot \/ BootFails
  \/ CleanupPowerButton \/ CleanupTpm \/ CleanupOther \/ CleanupCommit
  \/ CleanupDone
  \/ CommitKernel \/ CommitFirmware \/ CommitNvdata \/ CommitNvdataFails
  \/ CommittedForVboot \/ CommitFailedReboots \/ CommitCleanupReturns
  \/ GoLock \/ LockKernel \/ LockFails

HandoffNext == Vboot \/ Firmware \/ EcResets \/ PayloadReturn

HandoffSpec == HandoffInit /\ [][HandoffNext]_handoff_vars

(* Depthcharge is sequential code and keeps running; vboot, payloads and   *)
(* the EC owe it nothing.                                                  *)
FairHandoffSpec == HandoffSpec /\ WF_handoff_vars(Firmware)

-----------------------------------------------------------------------------
(* stages.c:161: "Commit and lock data spaces right before booting a kernel*)
(* or chainloading to another firmware."  Outside recovery mode nothing    *)
(* that vboot changed is unwritten when a kernel that boot() or multiboot  *)
(* starts or a payload runs, and the kernel space is locked.               *)
CommittedAndLocked == recovery \/ (dirty = {} /\ tpm_locked)
HandoffCommitted == step \in {"kernel", "payload"} => CommittedAndLocked

(* A failure to write or lock secdata is noted in nvdata; the machine does *)
(* not leave this boot before nvdata is written, however the cleanups nest.*)
FailureSaved ==
  step \in {"kernel", "payload", "reset", "off", "ec"} /\ ~recovery =>
    "nvdata" \notin dirty

(* The last registered runs first: if the TPM driver was in use before the *)
(* commit function was registered (stages.c:161), the first commit made on *)
(* the way out finds the TPM open.                                         *)
CommitBeforeTpmClose ==
  [][step = "cleanup" /\ step' = "commit_kernel" /\ caller = "vboot" /\ tpm_early
       => tpm # "closed"]_handoff_vars

(* A cleanup pass that failed to commit or lock never ends in a handoff:   *)
(* only the innermost pass goes on, and it reboots.                        *)
NestedPassReboots ==
  Len(passes) > 1 => passes[1].type = "reboot" /\ passes[1].exit = "reset"

(* Whatever fails on the way, a cleanup pass ends: the reboots that failed *)
(* commits ask for do not go round in circles.                             *)
CleanupEnds == step = "cleanup" ~> step \in Ended \cup {"entry", "ec"}
=============================================================================
