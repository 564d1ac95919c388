---------------------------- MODULE NvdataFlash ----------------------------
(***************************************************************************)
(* The log of nvdata blobs that src/src/vboot/nvdata/flash.c keeps in the  *)
(* RW_NVRAM area of a NOR flash.  The area is an array of blobs; the last  *)
(* non-erased one is the current nvdata.  A program operation can only     *)
(* clear bits and an erase sets them all, so a blob is the set of its bits *)
(* that are 1: erased is Bits, and programming v over w leaves v \cap w.   *)
(*                                                                         *)
(* The driver state (offset and cache of the current blob) is lost by a    *)
(* power loss, the flash is not.  A program that fails or is cut off       *)
(* leaves any set between the old and the new contents; an erase of a      *)
(* sector that fails or is cut off leaves the sector as it was, erased, or *)
(* with anything in it.  The chip is idle again when the driver comes back *)
(* to it: one that is still busy when a poll times out is in Flash.        *)
(***************************************************************************)
EXTENDS Integers

CONSTANTS
  NBlobs,          \* blobs in the area: size of RW_NVRAM / VB2_NVDATA_SIZE
  BlobsPerSector,  \* blobs in one erase sector of the flash
  Bits,            \* the bit positions of a blob
  Images           \* the nvdata images vboot writes

(* vboot's nvdata header has signature bits that are 0, so no image looks  *)
(* erased.                                                                 *)
ASSUME NvdataAssumption ==
  /\ NBlobs \in Nat \ {0}
  /\ BlobsPerSector \in Nat \ {0}
  /\ Images \subseteq SUBSET Bits
  /\ Bits \notin Images

VARIABLES
  flash,               \* the blobs of RW_NVRAM
  pc,                  \* where the driver is
  op,                  \* the call that is running
  buf,                 \* its argument, the image to write
  initialized,         \* nvdata_flash_is_initialized
  used_below,          \* the binary search of flash_nvdata_init
  empty_above,
  sector,              \* the next sector flash_erase erases
  nvdata_blob_offset,  \* in blobs
  nvdata_cache,
  acked,               \* history: {v} while the last write returned success
                       \* for v and no other write has started
  stale,               \* history: a failed flash_write or flash_erase of
                       \* this boot has changed what the driver knows of
  failed               \* history: since the area was last erased, vboot has
                       \* written on while stale, or the erase of a sector
                       \* was left in the middle

driver == <<initialized, nvdata_blob_offset, nvdata_cache>>
search == <<used_below, empty_above>>
vars == <<flash, pc, op, buf, initialized, used_below, empty_above, sector,
          nvdata_blob_offset, nvdata_cache, acked, stale, failed>>

Blobs == 0 .. NBlobs - 1
Erased == Bits
NSectors == (NBlobs + BlobsPerSector - 1) \div BlobsPerSector

TypeOK ==
  /\ flash \in [Blobs -> SUBSET Bits]
  /\ pc \in {"idle", "search", "decide", "erase", "program"}
  /\ op \in {"none", "read", "write"}
  /\ buf \in SUBSET Bits
  /\ initialized \in BOOLEAN
  /\ used_below \in Blobs
  /\ empty_above \in 1 .. NBlobs
  /\ sector \in 0 .. NSectors
  /\ nvdata_blob_offset \in Blobs
  /\ nvdata_cache \in SUBSET Bits
  /\ acked \in SUBSET (SUBSET Bits)
  /\ stale \in BOOLEAN
  /\ failed \in BOOLEAN

Init ==
  /\ flash = [b \in Blobs |-> Erased]
  /\ pc = "idle"
  /\ op = "none"
  /\ buf = Erased
  /\ initialized = FALSE
  /\ used_below = 0
  /\ empty_above = NBlobs
  /\ sector = 0
  /\ nvdata_blob_offset = 0
  /\ nvdata_cache = Erased
  /\ acked = {}
  /\ stale = FALSE
  /\ failed = FALSE

-----------------------------------------------------------------------------
(* Calls of nvdata_flash_read and nvdata_flash_write.  Either first runs   *)
(* flash_nvdata_init; a read of an initialized driver only copies the      *)
(* cache and changes nothing.                                              *)

StartInit ==
  /\ pc' = "search"
  /\ used_below' = 0
  /\ empty_above' = NBlobs

NvdataRead ==
  /\ pc = "idle"
  /\ ~initialized
  /\ op' = "read"
  /\ StartInit
  /\ UNCHANGED <<flash, buf, sector, driver, acked, stale, failed>>

NvdataWrite(v) ==
  /\ pc = "idle"
  /\ op' = "write"
  /\ buf' = v
  /\ acked' = {}
  /\ IF initialized THEN pc' = "decide" /\ UNCHANGED search ELSE StartInit
  /\ failed' = (failed \/ stale)
  /\ UNCHANGED <<flash, sector, driver, stale>>

(* One iteration of the binary search for the border between used and      *)
(* empty blobs.                                                            *)
Guess == (used_below + empty_above) \div 2

SearchingNoMargin == used_below < empty_above      \* mutant: no + 1
Searching == used_below + 1 < empty_above

SearchStep ==
  /\ pc = "search"
  /\ Searching
  /\ IF flash[Guess] = Erased
       THEN empty_above' = Guess /\ UNCHANGED used_below
       ELSE used_below' = Guess /\ UNCHANGED empty_above
  /\ UNCHANGED <<flash, pc, op, buf, sector, driver, acked, stale, failed>>

SearchDone ==
  /\ pc = "search"
  /\ ~Searching
  /\ nvdata_blob_offset' = used_below
  /\ nvdata_cache' = flash[used_below]
  /\ initialized' = TRUE
  /\ pc' = IF op = "read" THEN "idle" ELSE "decide"
  /\ UNCHANGED <<flash, op, buf, search, sector, acked, stale, failed>>

(* flash_read returns NULL: the call fails and the driver stays            *)
(* uninitialized.                                                          *)
SearchFails ==
  /\ pc = "search"
  /\ pc' = "idle"
  /\ UNCHANGED <<flash, op, buf, search, sector, driver, acked, stale, failed>>

-----------------------------------------------------------------------------
(* nvdata_flash_write after the driver is initialized.                     *)

(* The new image can be programmed over the current one: no bit has to go  *)
(* from 0 to 1.                                                            *)
CanOverwriteReversed == nvdata_cache \subseteq buf      \* mutant
CanOverwriteAlways == TRUE                             \* mutant
CanOverwrite == buf \subseteq nvdata_cache

WriteUnchanged ==
  /\ pc = "decide"
  /\ buf = nvdata_cache
  /\ pc' = "idle"
  /\ acked' = {buf}
  /\ UNCHANGED <<flash, op, buf, search, sector, driver, stale, failed>>

WriteInPlace ==
  /\ pc = "decide"
  /\ buf # nvdata_cache
  /\ CanOverwrite
  /\ pc' = "program"
  /\ UNCHANGED <<flash, op, buf, search, sector, driver, acked, stale, failed>>

WriteNextBlob ==
  /\ pc = "decide"
  /\ ~CanOverwrite
  /\ nvdata_blob_offset + 1 < NBlobs
  /\ nvdata_blob_offset' = nvdata_blob_offset + 1
  /\ pc' = "program"
  /\ UNCHANGED <<flash, op, buf, search, sector, initialized, nvdata_cache,
                 acked, stale, failed>>

WriteStartOverEarly ==     \* mutant: starts over with one blob to spare
  /\ pc = "decide"
  /\ ~CanOverwrite
  /\ nvdata_blob_offset + 1 >= NBlobs - 1
  /\ pc' = "erase"
  /\ sector' = 0
  /\ UNCHANGED <<flash, op, buf, search, driver, acked, stale, failed>>

WriteStartOver ==
  /\ pc = "decide"
  /\ ~CanOverwrite
  /\ nvdata_blob_offset + 1 >= NBlobs
  /\ pc' = "erase"
  /\ sector' = 0
  /\ UNCHANGED <<flash, op, buf, search, driver, acked, stale, failed>>

(* flash_erase, sector after sector from the lowest.                       *)
SectorBlobs(s) == {b \in Blobs : b \div BlobsPerSector = s}
SectorErased(s) == [b \in Blobs |-> IF b \in SectorBlobs(s) THEN Erased
                                                             ELSE flash[b]]

EraseSector ==
  /\ pc = "erase"
  /\ sector < NSectors
  /\ flash' = SectorErased(sector)
  /\ sector' = sector + 1
  /\ UNCHANGED <<pc, op, buf, search, driver, acked, stale, failed>>

(* What is left of a sector when its erase was not begun, was finished all *)
(* the same, or was left in the middle.                                    *)
EraseCutOff ==
  /\ \E left \in [SectorBlobs(sector) -> SUBSET Bits] :
       flash' = [b \in Blobs |-> IF b \in SectorBlobs(sector) THEN left[b]
                                                             ELSE flash[b]]
  /\ failed' = (failed \/ flash' \notin {flash, SectorErased(sector)})

(* flash_erase returns less than the size of the area, because a transfer, *)
(* the poll of the status or the erase itself has failed: erase_nvdata     *)
(* leaves the offset and the cache alone, whatever has become of the blob. *)
EraseFails ==
  /\ pc = "erase"
  /\ sector < NSectors
  /\ EraseCutOff
  /\ stale' = (stale \/ flash'[nvdata_blob_offset] # flash[nvdata_blob_offset])
  /\ pc' = "idle"
  /\ UNCHANGED <<op, buf, search, sector, driver, acked>>

EraseDone ==
  /\ pc = "erase"
  /\ sector = NSectors
  /\ nvdata_blob_offset' = 0
  /\ pc' = "program"
  /\ stale' = FALSE
  /\ failed' = FALSE
  /\ UNCHANGED <<flash, op, buf, search, sector, initialized, nvdata_cache,
                 acked>>

ProgramNoCacheUpdate ==    \* mutant: the last memcpy is missing
  /\ pc = "program"
  /\ flash' = [flash EXCEPT ![nvdata_blob_offset] = @ \cap buf]
  /\ acked' = {buf}
  /\ pc' = "idle"
  /\ UNCHANGED <<op, buf, search, sector, driver, stale, failed>>

Program ==
  /\ pc = "program"
  /\ flash' = [flash EXCEPT ![nvdata_blob_offset] = @ \cap buf]
  /\ nvdata_cache' = buf
  /\ acked' = {buf}
  /\ pc' = "idle"
  /\ UNCHANGED <<op, buf, search, sector, initialized, nvdata_blob_offset, stale,
                 failed>>

(* What an interrupted program of new over old can leave.                  *)
Torn(old, new) == {w \in SUBSET old : old \cap new \subseteq w}

(* flash_write returns less than the size of the blob: the offset has      *)
(* already moved, the cache has not.                                       *)
ProgramFails ==
  /\ pc = "program"
  /\ \E w \in Torn(flash[nvdata_blob_offset], buf) :
       flash' = [flash EXCEPT ![nvdata_blob_offset] = w]
  /\ pc' = "idle"
  /\ stale' = TRUE
  /\ UNCHANGED <<op, buf, search, sector, driver, acked, failed>>

(* The machine is reset at any moment, in the middle of a program or of    *)
(* the erase of a sector too.                                              *)
PowerLoss ==
  /\ CASE pc = "program" ->
            /\ \E w \in Torn(flash[nvdata_blob_offset], buf) :
                 flash' = [flash EXCEPT ![nvdata_blob_offset] = w]
            /\ UNCHANGED failed
       [] pc = "erase" /\ sector < NSectors -> EraseCutOff
       [] OTHER -> UNCHANGED <<flash, failed>>
  /\ pc' = "idle"
  /\ op' = "none"
  /\ initialized' = FALSE
  /\ nvdata_blob_offset' = 0
  /\ nvdata_cache' = Erased
  /\ stale' = FALSE
  /\ UNCHANGED <<buf, search, sector, acked>>

-----------------------------------------------------------------------------
Next ==
  \/ NvdataRead
  \/ \E v \in Images : NvdataWrite(v)
  \/ SearchStep \/ SearchDone \/ SearchFails
  \/ WriteUnchanged \/ WriteInPlace \/ WriteNextBlob \/ WriteStartOver
  \/ EraseSector \/ EraseFails \/ EraseDone
  \/ Program \/ ProgramFails
  \/ PowerLoss

Spec == Init /\ [][Next]_vars

(* The driver is plain sequential code: once called it keeps running.  No  *)
(* failure is assumed to come to its help.                                 *)
Progress ==
  \/ SearchStep \/ SearchDone
  \/ WriteUnchanged \/ WriteInPlace \/ WriteNextBlob \/ WriteStartOver
  \/ EraseSector \/ EraseDone
  \/ Program

FairSpec == Spec /\ WF_vars(Progress)

-----------------------------------------------------------------------------
(* The last non-erased blob, or the first blob when all are erased.        *)
IsCurrent(b) ==
  /\ \A c \in Blobs : c > b => flash[c] = Erased
  /\ b = 0 \/ flash[b] # Erased

(* A write that returned VB2_SUCCESS is durable: from then on, through any *)
(* number of power losses and until another write starts, the last         *)
(* non-erased blob of the area holds exactly that image.  The hypothesis   *)
(* is that vboot has not written on after a failed flash_write or          *)
(* flash_erase without a reboot, and no erase was left in the middle of a  *)
(* sector, since the area was last erased.                                 *)
AckedDurable ==
  ~failed => \A v \in acked : \E b \in Blobs : IsCurrent(b) /\ flash[b] = v

(* flash.c: the last non-erased blob is the current nvdata, and            *)
(* nvdata_blob_offset and nvdata_cache are its offset and its copy, under  *)
(* the same hypothesis, and again from the reboot after a failure on.      *)
CacheCoherent ==
  initialized /\ pc = "idle" /\ ~stale /\ ~failed =>
    /\ IsCurrent(nvdata_blob_offset)
    /\ flash[nvdata_blob_offset] = nvdata_cache

(* flash_write is only asked for what NOR flash can do: no program needs a *)
(* bit to go from 0 to 1, in place, in a fresh blob or after an erase,     *)
(* which makes up for all that has failed before it.                       *)
ProgramFits ==
  pc = "program" /\ ~failed => buf \subseteq flash[nvdata_blob_offset]

(* The current image is given up only when the log is full: whatever a     *)
(* step does to the blobs, either every blob but the last non-erased one   *)
(* and its successor is untouched, or the last slot was in use.            *)
OnlyTailChanges ==
  [][failed \/ \A b \in Blobs :
       flash'[b] # flash[b] =>
         \/ flash[NBlobs - 1] # Erased
         \/ IsCurrent(b)
         \/ b > 0 /\ IsCurrent(b - 1)]_flash

(* Every call returns, failed writes behind it or not: the binary search   *)
(* makes progress and each write path reaches its end.                     *)
CallReturns == pc # "idle" ~> pc = "idle"
=============================================================================
