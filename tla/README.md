# depthcharge in TLA+

Depthcharge is the payload that coreboot starts on Chromebooks. It runs verified boot (vboot), updates
the firmware of the embedded controller (EC), and starts a kernel, another payload or a network boot. This
directory holds TLA+ models of its parts, the configurations with which TLC checks them on small
instances, and proofs that TLAPS checks for every instance. Paths below are relative to `src/src/`.

Contents: [1 The system](#1-the-system) · [2 Components](#2-components) · [3 Modules](#3-modules) ·
[4 Runs](#4-runs) · [5 Findings](#5-findings) · [6 Fairness](#6-fairness) · [7 Proofs](#7-proofs) ·
[8 Not modelled](#8-what-is-not-modelled) · [9 Plan](#9-plan)

## 1 The system

Depthcharge is one thread without interrupts. `vboot/main.c` runs everything in a fixed order:

    run_init_funcs                  drivers of the board register themselves (base/init_funcs.c)
    vboot_check_wipe_memory         unused memory is cleared when dev or recovery mode is entered
    vboot_check_enable_usb
    console_loop                    only with CONFIG_CLI
    run_vboot_init_funcs            drivers that need vboot's context
    vboot_select_and_load_kernel    vboot_reference decides, calling back into vboot/callbacks/
       EC software sync, auxiliary firmware sync, screens, diagnostics, loading of a kernel
       boot / legacy_boot / payload_run -> run_cleanup_funcs -> kernel or payload

An image built for network boot has `netboot_entry` as its main function (`netboot/netboot.c`) in place
of vboot's: it obtains an address, downloads a kernel, a ramdisk and a command line, and boots. The same
`netboot()` is a command of the developer's command line.

What makes it hard all the same is what surrounds the one thread:

- **the machine can stop at any step**, and what is in flash, in the TPM and in the EC stays;
- **devices work at the same time**: an NVMe controller takes and finishes commands while the driver
  puts the next, a network delivers what it likes, a flash chip goes on with what the driver stopped
  waiting for, an EC and a TPM restart or go on with the last command while the next one comes;
- **commands fail**, and the code that handles one failure runs in the middle of something else: a
  cleanup function that cannot commit reboots, which runs the cleanup functions again;
- **functions are called back**: uIP calls `tftp_callback` and `dhcp_callback` from inside the loops
  that wait for them, vboot calls for the steps of software sync and of the memory test, and payloads
  come back into vboot.

The components meet at a few interfaces. vboot reads and writes `nvdata` and `secdata` through
`vboot/callbacks/` and commits them through a cleanup function. Cleanup functions are a list that
any driver may add to, run with the reason of the exit. Software sync is a sequence of callbacks that
each send a few EC commands; vboot keeps the place, and a restart of the AP begins it anew with the EC as
it is. Netboot calls the DHCP and TFTP clients in turn; both own the single uIP UDP callback while they
run. Block devices and flash are function tables; a driver below them is one device that works or fails.

## 2 Components

The table names each component's state and operations, what is hard about it and what would make it
correct. "Status" says how far it is modelled; `PROJECT.json` lists all components with their sources.

| Component | State, operations | Hard | Properties | Status |
|---|---|---|---|---|
| nvdata in flash (`vboot/nvdata/flash.c`) | offset and cache of the current blob, the log of blobs in flash; init, read, write | power loss, failed program or erase, end of the log | acknowledged writes are durable, cache is the flash, no impossible program | modelled |
| Flash drivers (`drivers/flash/`) | the chip's cells, latch and running operation; read, write, erase, rewrite, fill | page wrap, alignment, short counts, a chip busy after a timeout | nothing else is touched, counts are the truth | SPI chip, rewrite and block device modelled; controllers not |
| EC commands and software sync (`drivers/ec/cros/ec.c`, `vboot/callbacks/ec.c`) | the command at hand, the EC's image, hash and protection; version, hash, protect, update, jump, reboot, wait for power | slow commands, lost packets, EC restarts, power loss in an update | no incomplete image is started, protected at boot, one run per call, sync ends | RW image modelled; RO image, EFS, battery cut-off not |
| Auxiliary firmware (`drivers/ec/vboot_auxfw.c`, `drivers/ec/cros/lid_shutdown.c`) | severity of each chip, lid mask; check, update, done | failures, busy chips | lid switch as before, no kernel beside old firmware | modelled |
| Boot handoff and cleanup functions (`vboot/stages.c`, `base/cleanup_funcs.c`, `vboot/secdata_tpm.c`, ...) | list of functions, changed flags, locks, power button; commit, lock, reboot, power off, start | nested passes, failing TPM, returning payloads, order of registration | nothing uncommitted or unlocked at handoff, failures are noted | modelled |
| TPM on I2C (`drivers/tpm/i2c.c`, `cr50_i2c.c`) | locality, FIFO, status; xmit, probe, cleanup | retried writes, waits that end, half a command or an unread response left behind | one execution per command, answers belong to their command, recovery | modelled for the Cr50; other chips and buses not |
| Memory ranges and wipe (`base/ranges.c`, `vboot/util/memory.c`, `arch/x86/physmem.c`) | sorted list of edges, list of memory in use; add, sub, walk, map, wipe | adjacent, overlapping and split ranges, 4 GB, the window | the list is the set; what is free is wiped and nothing else | modelled |
| Memory diagnostics (`diag/memory.c`) | place in the test; init, run | resumption between calls, restarts | right verdict, free memory only, 100% at the end | the test modelled; `health_info.c` not |
| DHCP client (`netboot/dhcp.c`) | state, transaction id, last packet, uIP connections; request, callback, release | loss, late answers, refused requests, leaked connections | address used is the one leased; eventually an address | modelled |
| TFTP client (`netboot/tftp.c`) | status, block number, size; read, callback | loss, duplication, second sessions, wrap of block numbers | buffer holds one version of the file, in order; success iff complete | modelled |
| Netboot (`netboot/netboot.c`) | command line, ramdisk, bootfile, lease; netboot() | partial downloads, second call, sizes at limits | ramdisk apart from the kernel, command line is the file | modelled |
| NVMe (`drivers/storage/nvme.c`) | two rings, heads, tails, phase, PRP lists; read, write, poll | completions in any order, wrap, timeouts and late commands | data moved exactly once, no lost command, no endless wait | I/O queues modelled; start, shutdown, admin queue not |
| Payloads, altfw (`boot/payload.c`, `boot/legacy_boot.c`) | none of their own; run | return to vboot | committed before it starts | exits modelled |
| MKBP and pseudo keyboard (`drivers/input/`) | queue of keys, state machine | queue limits | keys in order, none invented | planned |
| SD and eMMC (`drivers/storage/mmc.c`) | card state; init, speed | retries | ends | planned |
| All others: transports, other block devices, network devices, screens, device trees, crossystem, VPD, SoC drivers, sound, video, CLI, boards | | | | not modelled, see [8](#8-what-is-not-modelled) |

The hazards, each with its line and the properties that would notice it, are in `PROJECT.json`.

## 3 Modules

State and action names follow the C code. A variable that exists for the properties only is marked
"history" at its declaration. Every `MC...` module extends one model and gives values to its constants.
A definition marked `\* mutant` is a changed form of the
definition it stands before; nothing uses it, and it serves to show that a property can fail.

### NvdataFlash — `vboot/nvdata/flash.c`

`RW_NVRAM` is an array of blobs, the last one that is not erased is the current. A blob is the set of its
bits that are 1: erasing gives `Bits`, programming `v` over `w` leaves `v \cap w`, and a program that is
interrupted or fails leaves any set between. The erase of a sector that is interrupted or fails leaves the sector
as it was, erased, or with anything in it (`EraseCutOff`): the SPI driver reports a failure after it has sent the
command, so a failed erase may have taken the current blob. `flash_nvdata_init` is `StartInit`, `SearchStep` and
`SearchDone`, one step per probe of the binary search; `nvdata_flash_write` is `NvdataWrite` and then
one of `WriteUnchanged`, `WriteInPlace`, `WriteNextBlob`, `WriteStartOver`, followed by `EraseSector` and
`EraseDone` or by `Program`. `SearchFails`, `EraseFails` and `ProgramFails` are driver errors, with the
early returns of the code. `PowerLoss` may come between any two steps and in the middle of a program or an erase; it
keeps the flash and forgets the driver's variables.

After a failure the driver's offset and cache may not be those of the flash any more (`stale`, history). Outside recovery
mode the machine does not go on like that: `vb2ex_commit_data` dies when nvdata cannot be written (`vboot/callbacks/misc.c:128`). When vboot does write on, as in recovery mode, or an erase was left in the middle of a sector, `failed` (history) is
set until the area is next erased completely. The model goes on with all that the code does then, but the properties speak of
`~failed`: an acknowledged write can be lost, see [5](#5-findings).

### Flash — `drivers/flash/spi.c`, `flash.c`, `block_flash.c`

The layer below: a SPI chip as the driver relies on it (write enable latch, page wrap, one operation at a
time that finishes by itself, `ChipDone`), `spi_flash_write` and `spi_flash_erase` cut into pages and
sectors (`WriteEnable`, `SendProgram`, `PollDone`, ...), `flash_rewrite_ops` with its read, merge, erase and
write, and the fill of the block device on top. Every transfer may fail before or after the chip has taken
it, and every poll may run out. A byte is the pair of the call and the place it comes from, so a byte in
a wrong place shows. Conditions of the properties are operators of their own: `Undisturbed` leaves out calls
that come while the chip is at an earlier one, `Trusted` the range in which `flash_rewrite_ops` does not merge.

### EcCommand, EcCall, EcSync, Auxfw — `drivers/ec/cros/ec.c`, `vboot/callbacks/ec.c`, `drivers/ec/vboot_auxfw.c`, `drivers/ec/cros/lid_shutdown.c`

One state machine in three layers that extend each other.

- **EcCommand** is `send_command_proto3`: `SendFast` for a command that is answered at once, `SendSlow`,
  `GetCommsStatus`, `CommsTimeout` and `ResendResponse` for one answered with `EC_RES_IN_PROGRESS`. The EC is
  another computer: it finishes a slow command when it likes (`Finish`), computes hashes (`HashDone`), restarts
  (`EcReset`), and packets get lost both ways (`LoseRequest`, `LoseAnswer`). What a command does to it
  (`Effect`, `Data`, `Refused`) is known from how `ec.c` uses it.
- **EcCall** is the abstract specification of a call: the command runs at most once, and the answer is what
  that run returned, or an error. `CallsRunOnce` states that the layers above implement it.
- **EcSync** is vboot's software sync: `vboot_running_rw`, `vboot_hash_image` with its wait and its one
  recalculation, `vboot_update_image` with protection off, erase and bursts, `ec_reboot` and the wait for hello,
  protection on, `vboot_reboot_to_ro`, the wait for power. `pc` names the command the AP waits for. Every
  error becomes `Recover`, a restart of the AP into recovery mode with the EC as it is; `PowerLoss` restarts both.
- **Auxfw** adds the auxiliary chips that are updated after the EC, the sync screen, and the lid shutdown
  mask, and composes everything into `Next`. A chip's driver is what `check_hash` and `update_image` may return.

### I2cTpm — `drivers/tpm/i2c.c`, `cr50_i2c.c`

`i2ctpm_xmit` from the probe to the response: claim of the locality, command ready, chunks of the burst
count into the FIFO, go, chunks out of it, `out_err` with the abort. `cr50_i2c_write_raw` tries a write again
after an error, whether the chip has taken it or not. The chip keeps a state (idle, ready, reception,
execution, completion) and carries out a command once. Assumed of it: while it receives, its burst count
stays the same; it handles transfers in their order; without an active locality it answers nothing useful.

### Ranges and Memory — `base/ranges.c`, `vboot/util/memory.c`, `diag/memory.c`, `arch/x86/physmem.c`

**Ranges** is pure: a list of edges, `ranges_set_region_to` with its two loops, `ranges_add`, `ranges_sub`, and
what `ranges_for_each` walks over. `Addresses(edges)` is the set that a list stands for. **Memory** uses it: depthcharge and
ramoops are marked used (`RamoopsInit`), coreboot's map becomes the list of memory nobody uses (`MapRange`,
`ExcludeRange`; `MapFails` is the early return for an unknown type), and either `vboot_check_wipe_memory` clears it segment by
segment through the window of `arch_phys_map`, or the memory test goes over it in chunks. `MemoryTestState` is
`test`; a call continues where the last one stopped, and `memory_test_init` may come at any time. Cells may be
broken for some pattern.

### BootHandoff — `vboot/stages.c`, `base/cleanup_funcs.c`, `vboot/callbacks/misc.c`, `vboot/secdata_tpm.c`, ...

From `vboot_select_and_load_kernel` to the end of the firmware. `cleanup_funcs` is the list, last
registered first; `passes` is the stack of `run_cleanup_funcs` calls under way, because `commit_and_lock_cleanup_func`
calls `reboot`, which runs the list from inside the list. `CommitKernel`, `CommitFirmware` and
`CommitNvdata` are the three parts of `vb2ex_commit_data`, which notes a failure in nvdata. `dirty` (history)
says which data is newer than its storage. VbSelectAndLoadKernel belongs to vboot_reference: it changes
the context (`VbChange`), commits, runs a payload, asks for a reboot or a power off, or returns. The exits
are the states `kernel`, `legacy_kernel`, `payload`, `reset`, `off` and `ec`.

### Dhcp — `netboot/dhcp.c` and the retry loop of `netboot/netboot.c`

`Start` is the beginning of `dhcp_request`; `Resend` is `dhcp_send_packet` sending again after its
timeout; `Poll` is one call of `dhcp_callback`, with the check of the transaction id and the type, and
with the overwrite of `dhcp_in` that precedes it; `BadOffer`, `TakeOffer`, `TakeNak`, `BadAck` and
`TakeAck` are what `dhcp_request` does with the packet. uIP connections are a counter, taken in
`UdpNew` and given back in `UdpRemove`. Servers answer, refuse, or send options that cannot be parsed. The
network keeps sets of packets: they are lost, duplicated and reordered, also across attempts.

### Tftp and FileTransfer — `netboot/tftp.c`

`tftp_read` is a loop of `net_poll` (`Poll...`), the test of the status (`Continue`) and, when the
interval has passed, `ResendRequest` or `ResendAck`. The `Poll...` actions are the paths through
`tftp_callback`: wrong block, error packet, block too large, last block, other block. Every read request
a server answers starts a session with its own transfer id, and each session serves its own version of
the file; block numbers on the wire are modulo `NumWrap` (2^16 in the code). **FileTransfer** is the
abstract specification: append blocks of one version in order, succeed exactly when the last is there,
or fail. `TransfersFile` states that Tftp implements it under `got <- dest`, `result <- tftp_status`.

### Netboot — `netboot/netboot.c`

One action per step: DHCP, the bootfile (or halt), the ramdisk, the args file (which `tftp_read` stores
straight into `cmd_line`), the strip of control characters and trailing blanks, the release of the lease, and
`boot`. A download is a single action here: its outcomes are those Tftp shows. `Again` is a second call
from the command line, with the static `cmd_line` as the first call left it.

### Nvme — `drivers/storage/nvme.c`

`Request` is the entry of `nvme_read` or `nvme_write`, which differ in the opcode only. `Put` is
one round of the loop over chunks: `nvme_fill_prp`, `nvme_submit_cmd` and the advance of `start`, `count` and
`buffer`. When the queue looks full `CompleteInFlight` rings the doorbell and polls, and `CompleteAll` does at
the end. `TakeCompletion`, `PollDone` and `PollTimeout` are the three ways through
`nvme_complete_cmds_polled`. The controller (`Fetch`, `Complete`, `CompleteWithError`) takes commands in order up to
the doorbell, finishes them in any order, and posts entries with its phase bit. It reads the PRP list when it
finishes the command, so a list that was filled again too early shows. `PutUndefined` is the use of
`prp_list` past its end. `open` (history) counts the commands put whose completion was not taken; the driver
computes that number from the ring, and `Counted` says that it still can.

### Proof modules

`NvdataFlashProofs`, `MemoryProofs`, `FirmwareSyncProofs`, `FlashProofs`, `NvmeProofs`, `TpmProofs`, `NetbootProofs` and
`TftpProofs` each extend the model in their name (FirmwareSyncProofs extends Auxfw, MemoryProofs proves about Ranges too)
and hold the theorems of [7](#7-proofs). NetbootProofs is about Netboot and Dhcp, TpmProofs about I2cTpm and BootHandoff;
Netboot's and BootHandoff's variables and specifications have names of their own (`stage`, `step`, `HandoffSpec`)
so that each pair can be extended by one module.

## 4 Runs

Twelve configurations; ten must pass, two show a disagreement of the code with its own comments
([5](#5-findings)). In every passing run a changed form of a definition ("mutant" in `PROJECT.json`) breaks
each property, so none holds by the shape of the model.

| Run | Instance | Shows | States |
|---|---|---|---|
| MCNvdataFlash | 4 blobs in 2 erase sectors, blobs of 2 bits, all 3 images | `AckedDurable`: an acknowledged write survives any number of power losses, under the hypothesis `~failed` of [3](#3-modules), which the next three share. `CacheCoherent`: offset and cache are the current blob's. `ProgramFits`: no program needs 0 to become 1. `OnlyTailChanges`: old blobs are given up only when the log is full. `CallReturns`: every call ends, failures or not | 188,790 |
| MCFlash | 4 sectors of 4 bytes, pages of 2, a fill buffer of 4, 2 calls that start and end anywhere, 2 faults | `CountsRight`: the count returned is what is in the chip, for calls that `Undisturbed` and `Trusted` describe. `OnlyAsked`: nothing outside the range changes but by what the chip was still at | 573,991 |
| MCFlashRewrite | the same with 1 fault | `LengthMeansSuccess` is violated | |
| MCFirmwareSync | an image of 2 bursts, slow erase and write, 2 faults, 3 kinds of boards, 2 sets of chips | `StartsIntact`, `WritesAccepted`, `ProtectedAtBoot`, `ChipsCurrent`: what an EC, a kernel and a chip find. `RecoveryJustified`: recovery mode only after a fault, or when the image does not fit or it or its hash cannot be read from CBFS. `LidMask`: the lid switch is as it was, and masked on x86 only. `CallsRunOnce`: EcCall is implemented. `Settles`: sync ends | 541,597 |
| MCBootHandoff | the model as it is (no constants) | `HandoffCommitted`, `FailureSaved`, `NestedPassReboots`, `CommitBeforeTpmClose`, `CleanupEnds` | 27,525 |
| MCI2cTpm | bursts of 3, commands of 1, 4 and 5 bytes, responses of 2, 5 and 6, room for 5, 3 calls, 3 faults | `ExecutesWhatWasSent`, `AnswerIsTheCommands`: one execution of the whole command, no other's response. `RecoversAtOnce`: after a failed call the next one works | 785,589 |
| MCMemory | 12 units of memory, 4 GB at 6, a window of 2, chunks of 5, blocks of 2, up to 2 broken cells, 7 memory maps | `WipeExact`: what is free is wiped and nothing else. `VerdictRight`, `ProgressRight`, `TestsFreeMemory`: the memory test finds what is broken, ends at 100%, and writes free memory only | 182,882 |
| MCDhcp | 2 servers that offer from 2 addresses, 2 uIP connections, 1 refusal, 2 packets each way | `LeaseHeld`, `ConnFree`, `NoStaleReply`, `GetsAddress` | 406,827 |
| MCDhcpRetries | 1 server, as many refusals as connections | `Retries` is violated | |
| MCTftp | 2 sessions, files of 1 or 4 blocks with the last 0 or 1 of 2 units, buffers of 2 and 7, wrap at 3, 2 datagrams each way, servers with and without errors, noise | `TransfersFile`: FileTransfer is implemented. `LockStep`: no block is acknowledged before it arrived. `TransferSucceeds`: a file that fits arrives from servers that send no errors | 135,640 |
| MCNetboot | memory of 5 units, pages of 2, a line of 4 characters, all args files of up to 3, 2 calls | `RamdiskApart`, `FileIsLine` | 33,567 |
| MCNvme | queues of 3, chunks of 2 blocks, a read of 5 blocks and a write of 1, 3 requests | `DataMoved`, `NoDeadWait`, `ListsKept`, `CommandsKept` | 164,759 |

Why these bounds are enough for the interesting cases:

- *NvdataFlash.* Four blobs make the binary search take two probes and let the log fill, be erased and
  fill again. Two sectors let power go between two erases. Two bits tell an image that can be written
  in place from one that cannot, and let a torn program be neither.
- *Flash.* Ranges start and end at, inside and across pages and sectors; a rewrite merges one sector or two, at the front, at
  the back or at both; two calls let the second meet what the first left running.
- *FirmwareSync.* Two bursts let an update stop before, between and after them. Two faults are enough for an
  update that is interrupted and a repair that is interrupted too; the theorems remove the bound. Boards cover
  both update modes, images that do and do not fit, both sources of the lid switch's state on x86, and one that is not x86.
- *I2cTpm.* Commands and responses end before, at and after the end of a chunk and of the room. Three calls: one that
  fails, the one that meets what it left, and one after that.
- *Memory.* Maps overlap, meet, split, straddle 4 GB and hold a type that is not known; chunks do not divide the segments
  and the window does not divide them either; two broken cells are at the distance of a block.
- *Tftp.* `NumWrap = 3` with files of four blocks makes numbers wrap. Buffers of 2 and 7 are exact for one file,
  too small for others. Two sessions are what one resent request can start. Two datagrams each way
  give reordering and duplicates of an old one with a new one.
- *Dhcp.* Two servers and two addresses let both offer the same address and let a late answer
  belong to the other server. Two connections and one refusal put the counter next to its limit; at the limit
  is the violation run.
- *Netboot.* Memory of 5 with pages of 2 has sizes on, below and above a page and one that leaves no room.
  Characters are of three classes (other, blank, control), which is all the code distinguishes.
- *BootHandoff.* Cleanup passes nest at most once (`NestedPassReboots`), so the state space is finite; how
  often vboot changes its data or payloads return is not bounded.
- *Nvme.* A request of three chunks fills a queue of three, both rings wrap within two requests, and the
  third request meets what a timed out one left. `Counted` is true throughout this instance: every chunk but
  the last needs a PRP list. In queues of four, with chunks of which several need none, the driver loses count, and
  the properties hold as well; the theorems say when it does, for queues of every size.

`CHECK_DEADLOCK FALSE` is set where the system really stops: a booted kernel, a finished download, a bounded
number of calls. The modules' `TypeOK` says which values a variable takes; it is not in the runs, where the
properties would fail first.

## 5 Findings

Each is a violation run; the counterexample of TLC is the argument.

1. **DHCP retries run out of connections** (MCDhcpRetries, `netboot/dhcp.c:465`). The returns for a broken offer and for
   a refused request do not remove their uIP connection. After `CONFIG_UIP_UDP_CONNS` of them the
   retry loop of netboot sends nothing any more.
2. **A failed rewrite returns its length** (MCFlashRewrite, `drivers/flash/flash.c:98`). `flash_rewrite_ops` returns
   what its erase returned when that is too short, and the comment at line 103 takes the returned length for
   success. A rewrite of one sector's length that straddles two, and whose second erase fails, has erased one sector's
   length: the caller is told that all was written.

Noted on the way, and not stated as runs: nothing in the repository promises otherwise, the boards do
not reach it, or it was shown by a run of an earlier form of a model that has since made room for another.

- `vboot/nvdata/flash.c:160,163`: after a failed program the cache is the old image and the offset may have moved. `:122`: after
  a failed erase that took the current blob they are those of a blob that is erased. A write of the same image is then
  reported as done (`:138`) with nothing in flash, and other images are programmed in place at the end of an erased area. The
  model reaches both; the properties leave out what follows until a reboot or the next complete erase.
  In an area of three or more erase sectors a power loss during the erase leaves used blobs where the binary
  search does not look.
- `netboot/netboot.c:164`: an args file whose download fails half way has written over the fallback arguments.
- `vboot/stages.c:240`: `legacy_boot` runs no cleanup function, so a legacy kernel starts with nothing committed.
- `drivers/storage/nvme.c:245`: the number of commands outstanding is computed modulo the size of the queue. After
  timeouts more than `NVME_CCQ_SIZE` can be open if chunks need no PRP list: `nvme_internal_read` (`:479`) puts the next
  command after its poll without another look at the ring, the tail overtakes the head, and a command is lost.
- `drivers/storage/nvme.c:502`: after timeouts `sq->cid` can pass the size of `prp_list`. `nvme_read` reports
  success after a timeout or a failed command. With `CAP.MQES` below `NVME_CCQ_SIZE` the
  completion queue has fewer entries than the driver's wrap.
- `drivers/storage/nvme.c:535,640`: the limit of a request to one PRP list ("to avoid allocating too much memory", `:533`) compares
  with `NVME_MAX_XFER_BYTES * block_size` where blocks ask for a division, and never takes effect. A controller whose MDTS is above
  2 MiB has its chunks refused by `nvme_fill_prp`, and the call returns -1. `:245`: a request of 0 blocks counts a whole
  ring as outstanding and waits for its timeout.
- `diag/memory.c:283`: `memory_test_init` keeps a partial list when the map has an unknown type, where `:309` takes a
  list for a whole one; `:117` reports offset 0 when the difference is in the second block of a pattern.
- `vboot/main.c:57` ignores the result of the wipe. `drivers/flash/flash.c:89` compares an end with a length, so that a
  short rewrite at 0 skips the merge; `:90` does not check a read that failed.
- `drivers/flash/spi.c:103`: `check_error` reads the id without ending the transfer before; `:172`: after a timeout the chip
  is busy, and the next call reports as done what the chip ignored.

## 6 Fairness

Safety runs use `Spec`, without fairness. Where liveness is checked:

- *NvdataFlash*: weak fairness of the driver's own steps (`Progress`). The code is sequential and nothing
  blocks it. Power losses are not fair and do not count as progress, but may happen for ever; `CallReturns`
  holds all the same, since a power loss ends the call.
- *BootHandoff*: weak fairness of the firmware's steps (`Firmware`). vboot, payloads and the EC are not
  fair: a payload may run for ever.
- *FirmwareSync*: weak fairness of the AP, whose code is sequential (`ApStep`), and of the EC's end of a command it
  has accepted (`Finish`): an EC that never finishes is asked until the driver's own timeout, which is an AP
  step. The EC's restarts, lost packets and power losses are not fair and are bounded.
- *Dhcp, Tftp*: weak fairness of the client's loop, and strong fairness that of packets sent again and
  again some arrive, some are answered and some answers are in the queue when the client polls. Without it a
  network that loses everything would be allowed and nothing could be promised: the clients have
  no retry limit. `TransferSucceeds` is about servers that do not give up, because `tftp_read` waits for ever if one does.

## 7 Proofs

Each module assumes only the assumptions of the model it extends, unless the table says more.

| Module | Theorems | For every |
|---|---|---|
| NvdataFlashProofs | `TypeCorrect`; with `AreaSize` also `WritesAreDurable` (`AckedDurable`), `CacheIsCoherent` (`CacheCoherent`), `ProgramsFit` (`ProgramFits`), `TailOnly` (`OnlyTailChanges`) | area of one or two sectors, set of bits and set of images |
| FlashProofs | `NothingElseTouched` (`OnlyAsked`), `CountsAreTrue` (`CountsRight`) | chip, page, sector, buffer, set of calls, number of faults |
| FirmwareSyncProofs | `RunsOnlyIntactImages` (`StartsIntact`), `KernelFindsProtection` (`ProtectedAtBoot`), `KernelFindsCurrentChips` (`ChipsCurrent`), `NothingRefused` (`WritesAccepted`), `OneRunPerCall` (`CallsRunOnce`), `RecoveryHasReason` (`RecoveryJustified`), `LidMaskIsKept` (`LidMask`) | number of bursts, slow commands, faults, boards and lists of chips |
| MemoryProofs | `RegionSet`, `RangesAddIsUnion`, `RangesSubIsDifference` of Ranges; `TypeCorrect`, `WipeCorrect` (`WipeExact`), `VerdictIsRight` (`VerdictRight`), `ProgressIsRight` (`ProgressRight`), `TestsOnlyFreeMemory` (`TestsFreeMemory`) | list of edges and region; memory map, size of memory, window, chunk and block, set of broken cells |
| NvmeProofs | `TypeCorrect`; with `SameSizes` also `NoCommandLost` (`CommandsKept`), `ListsStay` (`ListsKept`), `WaitsForWhatComes` (`NoDeadWait`), `DataArrives` (`DataMoved`), `CountIsKept` | size of queues, chunks and requests, number of requests and timeouts |
| TftpProofs | `NeverAhead` (`LockStep`), `DownloadsWholeFiles` (`TransfersFile`) | file, buffer, wrap, number of sessions, size of channels |
| NetbootProofs, about Dhcp | `AddressIsLeased` (`LeaseHeld`), `ConnectionLeft` (`ConnFree`), `EndedByItsAnswer` (`NoStaleReply`) | servers, addresses, connections, refusals, size of channels |
| NetbootProofs, about Netboot | `RamdiskIsApart` (`RamdiskApart`), `LineIsFile` (`FileIsLine`) | memory, page, line, args file, number of calls |
| TpmProofs, about I2cTpm | `WholeCommandsOnce` (`ExecutesWhatWasSent`), `AnswersAreTheirs` (`AnswerIsTheCommands`), `NextCallSucceeds` (`RecoversAtOnce`) | size of bursts, commands, responses and the buffer, number of calls, faults and attempts |
| TpmProofs, about BootHandoff | `CommittedAtHandoff` (`HandoffCommitted`), `FailureIsSaved` (`FailureSaved`), `InnerPassReboots` (`NestedPassReboots`), `CommitFindsTpmOpen` (`CommitBeforeTpmClose`) | behaviour (no constants) |

A property is seldom inductive; each proof has an inductive invariant of named parts, a lemma for each
action or group of actions, and theorems that follow from it.

**NvdataFlash.** `TypeOK` is inductive. The others are not: that the current blob is durable depends on where the
search will look, on what the write under way was allowed to assume, and on the cache it compared with. The
inductive invariant is `LogInv == CallState /\ (~failed => LogState)`, where `LogState` is the conjunction of

- `Layout`: there is no gap in the log, below a used blob every blob is used;
- `SearchBounds`: the border that the binary search looks for is between its two bounds;
- `Coherent`: the offset and the cache are those of the last used blob whenever the code consults them, unless `stale`;
- `StaleState`: a driver that is `stale` waits for its next call, which will set `failed`, or for a reboot;
- `EraseState`, `ProgramState`: what holds between the steps of a write, in particular that the blob to be
  programmed has every bit needed, that those before it are used and that those after it are erased;
- `Kept`: an acknowledged image is in the current blob.

The hypothesis is about what vboot does, not about faults: programs and erases fail, and power goes, at any step. `LogState` holds
through a failure and the reboot after it; only between the two (`stale`) `Coherent` says nothing.
`CallState` holds whatever vboot does: the types, that a write under way has nothing acknowledged, and that the area
is erased at the end of an erase (`ErasedState`), which is where `LogState` comes back. `NvdataAssumption` says that no
image looks erased, which the signature bits of the nvdata header ensure. `AreaSize` says that the area is one erase
sector or two whole ones. With two, power may go between the erases and leave `HalfErased`: the first sector is
erased and the second is full. The log has a gap then, but the search looks at the last blob first, finds it used
and takes it, as before the erase. For three sectors the theorems would be false ([5](#5-findings)). `TailOnly`
is an action property: it follows from `LogInv` before the step.

**Flash.** `IInv == TypeInv /\ RangeInv /\ FillInv /\ ChipInv`: the driver's place stays in the range asked for, in
whole sectors while it erases; a fill stays in its chunk; and what the chip has accepted but not finished lies in the
range or is left from an earlier call (`late`). It rests on lemmas of alignment: whole sectors (`AlignedDown`, `AlignedUp`,
`WholeSectors`) and a page that is not left is not wrapped (`PageCells`). `CountsRight` needs `CountInv` beside it: where the
driver is in which call (`PlaceInv`), what the buffer holds (`BufferInv`), what is erased and programmed of the range so far and
what the chip is still at (`EraseInv`, `WriteInv`), which rewrites of a fill are complete (`RewriteInv`), and that what was
returned stays true while the chip goes on (`ReturnedInv`).

**FirmwareSync.** `IInv == TypeInv /\ CallInv /\ AnswersRight /\ SyncInv /\ ChipInv`. What makes it long is that a
result outlives the state it tells of: `CallInv` says what the EC can have pending and saved for the command at hand,
`AnswersRight` what a saved or given answer still says of the EC until the AP goes on, and `SyncInv`
what the EC is known to be at each `pc`, also after a restart of either. The refinement maps the driver's steps to
EcCall's (`AbstractSteps`, `CommandSteps`), and steps of sync to the issue of the next command (`MovedIssues`).

That recovery mode has a reason cannot follow from what the code rules out; it needs what the EC will answer when nothing
fails. `CalmInv` says it for the time before any trouble (a failed command or chip, a missing file, an image that does not fit, a loss of power): every answer is a success and true (`Shows`), the EC
can jump, has the hash that was asked for and holds the image as far as the update has come (`CalmEc`), so that none of the
branches to `Recover` is taken: no second recalculation, no mismatch after an update, no refused erase or jump, no missing
protection. `LidInv` follows the mask from its first reading to its last writing: while no command about it has failed, `LidAt` says
at each step whether it is set, and what `lid_shutdown_disabled` remembers of it; a command that is still
under way when the driver has given up cannot be an earlier one (`LidAnswers`).

**Ranges and Memory.** `RegionSet` is about `ranges_set_region_to` on any list of edges, without induction:
the two loops stop at the first edge that is not before the region and the first that is behind it, and those exist
by the least-number principle (`WFMin`). `MemoryProofs` has `WipeInv == TypeOK /\ BeforeWipe /\ UsedRight /\
MapRead /\ Excluded /\ WipedSoFar /\ WipeOver`: what the two lists stand for after each step, what is wiped of the
segment under way, and that all is when it is over. The memory test has `TestInv`: the list is computed once and right
(`ListRight`), only what is on it was written (`WrittenIsListed`), and for a running test (`Running`) everything below its place
holds the pattern, or was read and found good, every earlier pattern was read whole, and the count is the
number of complete rounds times the size of the list, plus what is below the place. `MemoryAssumption` says that RAM ends
below `Top` and that the broken cells are pairs of a pattern and an address.

**Nvme.** The indices of the driver and the controller are counts modulo the size of the ring, so the proof names the counts:
`RingInv` says that numbers exist, of commands put, announced, fetched and posted and of completions taken and
given back, that are in order and at most a ring apart (`Order`), and of which the indices, the phases and the
entries are the remainders (`Places`, `Entries`). Identifiers of open commands differ and their lists are in
place (`Commands`), and when the driver waits something is still to be posted (`Calls`). This holds while the driver
can count what is open (`Counted`); `CountIsKept` says that this is so until a poll times out, and afterwards until a command without a PRP
list is put. `DataInv` adds what of the request has moved: the blocks done and those of open commands are those of the
request up to `buffer`. `SameSizes` says that both rings have the size the driver counts with: `nvme.h:93` defines both as 11, and
`CAP.MQES` is not below it.

**Tftp.** `IInv` says how far each session is (`ServerInv`: the one at `rport` at the block the client
waits for or the one before it, every other at its first block), and what is under way (`DataInv`, `AckInv`: no number
above those). Numbers less than a turn apart are told apart by their remainder (`SameNumber`), so a block
that is taken is the one waited for (`TakenIsNext`), and with `DestInv` the buffer is what FileTransfer says.

**Dhcp.** A transaction id names one request, to one server for one address (`RequestInv`), a server answers an id once
(`ServerInv`), and an answer under way with the last id is its server's last answer (`AnswerInv`); so the lease is still kept
when the answer is used (`LeaseInv`, `ReplyInv`). It holds after offers without a server identifier too.

**Netboot.** `RamdiskInv` carries the place of the ramdisk through the later steps, `LineInv` says what `cmd_line` holds at
each step: the file in front of what was there, then the stripped file, then the server.

**I2cTpm.** The inductive invariant has to say what a call that is broken off at any point leaves behind. `ChipInv` is what the
chip holds in each of its states; `WorkInv` orders the commands carried out by their calls, so that none is carried out twice;
`NotYet` says that nothing of the current call has been, nor can be without its go. While a command is sent (`SendInv`) the FIFO
holds what `sent` counts, or, because a chunk that was taken is sent again, more: at least one chunk more (`Ahead`). The chip's
`DataExpect` then falls before the last chunk and the call is given up, or the FIFO is full and holds the command; what
it never holds is a part in the wrong place. This rests on `MaxBurst` being the same for every chunk of a command but the last.
From the go on the chip is busy with this command (`Begun`) or holds the rest of its answer, of which `recvbuf` is the
beginning (`Answered`). `CalmInv` says where a call without a fault is: the FIFO holds just what was sent, and `abort` is
reached for a response that is too large only.

**BootHandoff.** There are no constants, so TLC's run is exhaustive already; the proof says why it comes out as it does, and
does not rest on the number of passes being small: that is one of the things proved. `HandoffInv == ListInv /\ NestInv /\ DataInv
/\ CommitInv /\ PassInv /\ EarlyInv`. `ListInv`: once vboot runs, the commit function is registered. `NestInv`: there are
at most two passes; a pass is entered from inside another only where a commit or a lock has failed, the inner one reboots, and
a pass that reboots does not ask for the lock. `DataInv`: what is newer than its storage is flagged as changed, and the driver's
flag for the lock is the TPM's. `CommitInv` says how far a commit has come: what is written of the three data spaces while the result
is still a success, and nvdata in any case. `PassInv` is what makes the properties inductive: a pass either has the commit function
still before it, or everything is saved (and, on the way to a kernel or a payload, locked), since nothing changes vboot's
data between the functions of a pass. `EarlyInv`: a TPM in use before the registration has its function behind the commit
in the list, and in what is left of the pass. `CommitBeforeTpmClose` is an action property and follows from it before the step.

Only model-checked: liveness (`CallReturns`, `CleanupEnds`, `Settles`, `GetsAddress`, `TransferSucceeds`), because liveness under
fairness and ENABLED are out of the prover's reach. Every invariant and every action property of the passing runs is stated
by a theorem. Induction over data is out of reach as well; no theorem needs it, and no module declares a recursive operator.

## 8 What is not modelled

- *vboot_reference, libpayload, coreboot, uIP*: outside the repository or vendored. What the code here relies on is
  an action or a choice, marked external in `PROJECT.json`.
- *Register sequences* of some 150 drivers (buses, GPIO, SoC, sound, video, USB-C chips, SD and AHCI host
  controllers, network devices): each follows one chip's manual, and a model of it would be a model of the manual.
  They are most of the repository's lines.
- *kconfig, the NAND drivers under `storage/mtd/`*: imported from other projects.
- *Transformation of data*: device trees, FIT, multiboot, ACPI and FDT for crossystem, VPD, drawing. They are sequential,
  keep no state, and are better tested than model-checked.
- *Timing.* A timeout is a step that may happen at any moment; how long anything takes is left out.
- *Memory safety.* Sizes are modelled where a property needs them (Tftp, Netboot, Nvme, I2cTpm, Flash); the
  contents of packets are of a few kinds.
- *NVMe requests* of 0 blocks, and chunks that do not fit one PRP list (an error before anything is put):
  `NvmeAssumption` says so.
- *NVMe admin queue, start and shutdown*: one command at a time in a queue of two.
- *Flash*: the status register and the chip's id (nothing calls them), the controllers of `ich.c`, `fast_spi.c` and `mtk_snfc.c`,
  addresses above 16 MiB.
- *EC*: its RO image, EFS slots, battery cut-off, and the three transports, of which a lost or refused packet is modelled.
- *Auxiliary chips*: their register sequences; the outcome of a check or an update is a choice.
- *TPM*: transports other than I2C, and chips other than the Cr50.
- *Memory*: the page tables behind the window on ARM.
- *Transaction ids that collide*: `rand()` is taken to return different values in one boot.

## 9 Plan

In order of what matters most for a machine that must boot:

1. **Composition**: Netboot over Dhcp and Tftp in place of its single-step downloads, so that a leaked
   connection is seen by the downloads; NvdataFlash over Flash, so that a count that is wrong below shows above.
2. **Mkbp**: the bounded queue of key codes fed by EC events, with the pseudo keyboard's state machine.
3. **Mmc**: the initialisation of a card with its retries and the speed negotiation.
4. **NVMe admin queue**: start, shutdown, namespaces.

Proofs: in Nvme, rings of different sizes.
