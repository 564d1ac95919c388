-------------------------------- MODULE Flash ---------------------------------
(* The NOR flash behind SPI (drivers/flash/spi.c), the rewrite of any range  *)
(* of it (drivers/flash/flash.c) and the block device on top of that         *)
(* (drivers/flash/block_flash.c).  The driver gives the chip one command at  *)
(* a time and polls its status; a transfer on the bus may fail and the chip  *)
(* may take longer than the driver waits, and then goes on by itself.        *)
(*                                                                           *)
(* A byte is a pair that says where it comes from: the call that passed it   *)
(* and its place in that call's buffer.                                      *)
EXTENDS Integers, FiniteSetsExt, Functions

CONSTANTS
  SectorSize,    \* ops.sector_size, in bytes
  PageSize,      \* SPI_FLASH_WRITE_PAGE_LIMIT
  RomSize,       \* flash->rom_size
  HeapSize,      \* the buffer of block_flash_fill_write, whole sectors
  Requests,      \* the calls that may come: [op, start, length]
  MaxCalls,      \* bound on the number of calls
  MaxFaults      \* bound on failed transfers and timeouts

\* A block of the block device is a sector.
ASSUME FlashAssumption ==
  /\ SectorSize \in Nat \ {0} /\ PageSize \in Nat \ {0}
  /\ SectorSize % PageSize = 0 /\ RomSize \in Nat /\ RomSize % SectorSize = 0
  /\ HeapSize \in Nat \ {0} /\ HeapSize % SectorSize = 0
  /\ \A r \in Requests :
       /\ r.start \in Nat /\ r.length \in Nat \ {0} /\ r.start + r.length <= RomSize
       /\ r.op \in {"fill", "fill_erased"} =>
            r.start % SectorSize = 0 /\ r.length % SectorSize = 0

VARIABLES
  flash,         \* the cells of the chip
  wel,           \* the chip's write enable latch
  operation,     \* what the chip is writing: cells and their new values
  pc,
  call,          \* the call in progress, or the last one
  rewrite,       \* start and length of the flash_rewrite_ops in progress
  from, size,    \* the range being erased or written
  buffer,        \* the bytes to write to that range
  null,          \* flash_read failed and buffer points to address 0
  done,          \* offset or written: bytes of the range erased or written
  ret,           \* what the last call returned
  calls, faults,
  before, late,  \* history: the cells, and those of an operation still
                 \* running, when the call came
  unread         \* history: a read of this call has failed

chip == <<flash, wel, operation>>
range == <<from, size>>
history == <<calls, before, late, unread>>
vars == <<chip, pc, call, rewrite, range, buffer, null, done, ret, faults,
          history>>

Cells == 0 .. RomSize - 1
Span(first, length) == first .. first + length - 1

Erased == <<-1, 0>>
Mixed == <<-2, 0>>                      \* programmed twice, or read in vain
Behind(i) == <<-3, i>>                  \* memory behind the caller's buffer
Low(i) == <<-4, i>>                     \* memory at address 0
OldByte(c) == <<0, c>>

(* Programming can only clear bits.                                          *)
Programmed(old, new) ==
  CASE old \in {Erased, new} -> new [] new = Erased -> old [] OTHER -> Mixed

-------------------------------------------------------------------------------
(* The chip.                                                                 *)
Busy == operation # <<>>

(* The end of a transaction: a busy chip takes no command, and one that      *)
(* changes something only after a write enable.                              *)
Accept(cells) ==
  IF wel /\ ~Busy
    THEN operation' = cells /\ wel' = FALSE /\ UNCHANGED flash
    ELSE UNCHANGED chip

(* Addresses wrap at the end of a page.                                      *)
PageCell(address, i) ==
  (address \div PageSize) * PageSize + (((address % PageSize) + i) % PageSize)

ProgramCells(address, data) ==
  LET n == Cardinality(DOMAIN data)
  IN  [c \in {PageCell(address, i) : i \in 0 .. n - 1} |->
         Programmed(flash[c], data[CHOOSE i \in 0 .. n - 1 :
                                     PageCell(address, i) = c])]

EraseCells(address) ==
  [c \in Span((address \div SectorSize) * SectorSize, SectorSize) |-> Erased]

ChipDone ==
  /\ Busy
  /\ flash' = [c \in Cells |->
                 IF c \in DOMAIN operation THEN operation[c] ELSE flash[c]]
  /\ operation' = <<>>
  /\ UNCHANGED <<wel, pc, call, rewrite, range, buffer, null, done, ret, faults,
                 history>>

-------------------------------------------------------------------------------
(* The calls.                                                                *)
Init ==
  /\ flash = [c \in Cells |-> OldByte(c)]
  /\ wel = FALSE /\ operation = <<>>
  /\ pc = "idle" /\ call = [op |-> "none", start |-> 0, length |-> 0]
  /\ rewrite = <<0, 0>> /\ from = 0 /\ size = 0 /\ buffer = <<>> /\ null = FALSE
  /\ done = 0 /\ ret = 0 /\ calls = 0 /\ faults = 0
  /\ before = flash /\ late = {} /\ unread = FALSE

Bytes(length) == [i \in 0 .. length - 1 |-> <<calls', i>>]

AlignDown(n) == (n \div SectorSize) * SectorSize
AlignUp(n) == AlignDown(n + SectorSize - 1)
FullLength(start, length) == AlignUp(start + length) - AlignDown(start)

Incoming(r, op) ==
  /\ pc = "idle" /\ calls < MaxCalls
  /\ r.op = op
  /\ call' = r
  /\ calls' = calls + 1
  /\ before' = flash
  /\ late' = DOMAIN operation
  /\ unread' = FALSE
  /\ done' = 0
  /\ UNCHANGED <<chip, faults>>

CallWrite(r) ==
  /\ Incoming(r, "write")
  /\ from' = r.start /\ size' = r.length
  /\ buffer' = Bytes(r.length) /\ null' = FALSE
  /\ pc' = "write"
  /\ UNCHANGED <<rewrite, ret>>

Misaligned(r) == r.start % SectorSize # 0 \/ r.length % SectorSize # 0

CallErase(r) ==
  /\ Incoming(r, "erase")
  /\ from' = r.start /\ size' = r.length
  /\ IF Misaligned(r) THEN ret' = -1 /\ pc' = "idle"
                      ELSE UNCHANGED ret /\ pc' = "erase"
  /\ UNCHANGED <<rewrite, buffer, null>>

(* flash_rewrite_ops: a range that does not start and end with a sector is   *)
(* completed with what the flash holds.  final_end is compared with a        *)
(* length, so a range at 0 never is, and what follows the buffer is written. *)
Merges(start, length) ==
  \/ AlignDown(start) # start
  \/ AlignUp(start + length) # FullLength(start, length)

Rewrite(start, length, data) ==
  /\ rewrite' = <<start, length>>
  /\ from' = AlignDown(start) /\ size' = FullLength(start, length)
  /\ buffer' = [i \in 0 .. size' - 1 |->
                  IF i < length THEN data[i] ELSE Behind(i)]
  /\ null' = FALSE
  /\ pc' = IF Merges(start, length) THEN "read" ELSE "erase"

CallRewrite(r) ==
  /\ Incoming(r, "rewrite")
  /\ Rewrite(r.start, r.length, Bytes(r.length))
  /\ UNCHANGED ret

(* block_flash_fill_write: a buffer of at most HeapSize, as often as needed. *)
FillBuffer(n) == [i \in 0 .. HeapSize - 1 |-> <<n, 0>>]

CallFill(r) ==
  /\ Incoming(r, "fill")
  /\ Rewrite(r.start, Min({HeapSize, r.length}), FillBuffer(calls'))
  /\ UNCHANGED ret

(* ... and a pattern that an erase leaves is not written.                    *)
CallFillErased(r) ==
  /\ Incoming(r, "fill_erased")
  /\ from' = r.start /\ size' = r.length
  /\ pc' = "erase"
  /\ UNCHANGED <<rewrite, buffer, null, ret>>

(* flash_read_ops for the merge: a busy chip answers with anything.          *)
Merged(data) ==
  [i \in 0 .. size - 1 |->
     LET k == i - (rewrite[1] - from)
     IN  IF k \in 0 .. rewrite[2] - 1 THEN buffer[k] ELSE data[i]]

ReadBack ==
  /\ pc = "read"
  /\ buffer' = Merged([i \in 0 .. size - 1 |->
                         IF Busy THEN Mixed ELSE flash[from + i]])
  /\ pc' = "erase"
  /\ UNCHANGED <<chip, call, rewrite, range, null, done, ret, faults, history>>

Fault == faults < MaxFaults /\ faults' = faults + 1

(* Nobody looks at a NULL from flash_read: the bytes go to address 0, which  *)
(* may be the end, or may be memory; what follows is written from there.     *)
ReadFails ==
  /\ pc = "read"
  /\ Fault
  /\ null' = TRUE /\ unread' = TRUE
  /\ buffer' = Merged([i \in 0 .. size - 1 |-> Low(i)])
  /\ pc' \in {"erase", "died"}
  /\ UNCHANGED <<chip, call, rewrite, range, done, ret, calls, before, late>>

-------------------------------------------------------------------------------
(* spi_flash_modify, for a sector to erase or the part of a page to write.   *)
Modifying(op) == pc = op /\ done < size

Broke == pc' = IF pc \in {"write", "program", "poll_write"}
                 THEN "written" ELSE "erased"

Enable(next) ==
  /\ wel' = (wel \/ ~Busy)
  /\ pc' = next
  /\ UNCHANGED <<flash, operation, call, rewrite, range, buffer, null, done,
                 ret, faults, history>>

EraseEnable == Modifying("erase") /\ Enable("erase_sector")
WriteEnable == Modifying("write") /\ Enable("program")

EnableFails ==
  /\ Modifying("erase") \/ Modifying("write")
  /\ Fault
  /\ wel' \in {wel, wel \/ ~Busy}
  /\ Broke
  /\ UNCHANGED <<flash, operation, call, rewrite, range, buffer, null, done,
                 ret, history>>

WriteSizeAnyPage == Min({PageSize, size - done})                  \* mutant
WriteSize ==
  LET page_offset == (from + done) % PageSize
  IN  IF page_offset + (size - done) > PageSize
        THEN PageSize - page_offset ELSE size - done

(* The pointer of the first chunk is NULL after a failed read, and then      *)
(* nothing follows the command, which the chip ignores.                      *)
Data(n) == [i \in 0 .. n - 1 |-> buffer[done + i]]
Program(n) ==
  IF n = 0 \/ (null /\ done = 0)
    THEN UNCHANGED chip
    ELSE Accept(ProgramCells(from + done, Data(n)))

SendErase ==
  /\ pc = "erase_sector"
  /\ Accept(EraseCells(from + done))
  /\ pc' = "poll_erase"
  /\ UNCHANGED <<call, rewrite, range, buffer, null, done, ret, faults, history>>

SendProgram ==
  /\ pc = "program"
  /\ Program(WriteSize)
  /\ pc' = "poll_write"
  /\ UNCHANGED <<call, rewrite, range, buffer, null, done, ret, faults, history>>

(* The chip carries out what it has got when the transaction is stopped.     *)
SendFails ==
  /\ pc \in {"erase_sector", "program"}
  /\ Fault
  /\ \/ UNCHANGED chip
     \/ pc = "erase_sector" /\ Accept(EraseCells(from + done))
     \/ pc = "program" /\ \E n \in 1 .. WriteSize : Program(n)
  /\ Broke
  /\ UNCHANGED <<call, rewrite, range, buffer, null, done, ret, history>>

(* operation_failed: polls for as long as the chip is busy, up to 2 s.       *)
Erasing == pc = "poll_erase"
Writing == pc = "poll_write"

PollDone ==
  /\ Erasing \/ Writing
  /\ ~Busy
  /\ done' = done + (IF Writing THEN WriteSize ELSE SectorSize)
  /\ pc' = IF Writing THEN "write" ELSE "erase"
  /\ UNCHANGED <<chip, call, rewrite, range, buffer, null, ret, faults, history>>

PollFails ==
  /\ Erasing \/ Writing
  /\ Fault
  /\ Broke
  /\ UNCHANGED <<chip, call, rewrite, range, buffer, null, done, ret, history>>

(* The loops of spi_flash_erase and spi_flash_write come to their end.       *)
RangeDone ==
  /\ pc \in {"erase", "write"} /\ done >= size
  /\ Broke
  /\ UNCHANGED <<chip, call, rewrite, range, buffer, null, done, ret, faults,
                 history>>

-------------------------------------------------------------------------------
(* The returns.  The block device turns a short count into 0.                *)
Rewriting == call.op \in {"rewrite", "fill"}

Return(value) == ret' = value /\ pc' = "idle"

WriteReturns ==
  /\ pc = "written" /\ ~Rewriting
  /\ Return(done)
  /\ UNCHANGED <<chip, call, rewrite, range, buffer, null, done, faults, history>>

EraseReturns ==
  /\ pc = "erased" /\ ~Rewriting
  /\ Return(IF call.op = "fill_erased" /\ done # size THEN 0 ELSE done)
  /\ UNCHANGED <<chip, call, rewrite, range, buffer, null, done, faults, history>>

(* flash_rewrite_ops goes on to the write, or hands the erase's result out.  *)
RewriteErased ==
  /\ pc = "erased" /\ Rewriting
  /\ IF done # size
       THEN ret' = done /\ pc' = "rewritten" /\ UNCHANGED done
       ELSE done' = 0 /\ pc' = "write" /\ UNCHANGED ret
  /\ UNCHANGED <<chip, call, rewrite, range, buffer, null, faults, history>>

ResultAsItIs == IF done # size THEN done ELSE rewrite[2]          \* mutant
Result ==
  CASE done = size -> rewrite[2]
    [] done # size /\ done = rewrite[2] -> -1
    [] OTHER -> done

RewriteWritten ==
  /\ pc = "written" /\ Rewriting
  /\ ret' = Result
  /\ pc' = "rewritten"
  /\ UNCHANGED <<chip, call, rewrite, range, buffer, null, done, faults, history>>

RewriteReturns ==
  /\ pc = "rewritten" /\ call.op = "rewrite"
  /\ pc' = "idle"
  /\ UNCHANGED <<chip, call, rewrite, range, buffer, null, done, ret, faults,
                 history>>

Filled == rewrite[1] + rewrite[2] - call.start

FillNext ==
  /\ pc = "rewritten" /\ call.op = "fill"
  /\ ret = rewrite[2] /\ Filled < call.length
  /\ Rewrite(call.start + Filled, Min({HeapSize, call.length - Filled}),
             FillBuffer(calls))
  /\ done' = 0
  /\ UNCHANGED <<chip, call, ret, faults, history>>

FillReturns ==
  /\ pc = "rewritten" /\ call.op = "fill"
  /\ ret # rewrite[2] \/ Filled = call.length
  /\ Return(IF ret = rewrite[2] THEN call.length ELSE 0)
  /\ UNCHANGED <<chip, call, rewrite, range, buffer, null, done, faults, history>>

Caller ==
  \E r \in Requests : CallWrite(r) \/ CallErase(r) \/ CallRewrite(r)
                      \/ CallFill(r) \/ CallFillErased(r)
Modify == EraseEnable \/ WriteEnable \/ EnableFails \/ SendErase \/ SendProgram
          \/ SendFails \/ PollDone \/ PollFails \/ RangeDone
Returns == WriteReturns \/ EraseReturns \/ RewriteErased \/ RewriteWritten
           \/ RewriteReturns \/ FillNext \/ FillReturns

Next == Caller \/ ReadBack \/ ReadFails \/ Modify \/ Returns \/ ChipDone

Spec == Init /\ [][Next]_vars

-------------------------------------------------------------------------------
(* Properties.                                                               *)

(* What a call may touch: its bytes, or the sectors a rewrite has to erase.  *)
Asked ==
  IF Rewriting
    THEN AlignDown(call.start) .. AlignUp(call.start + call.length) - 1
    ELSE Span(call.start, call.length)

(* Nothing outside the range asked for is ever written or erased, whichever  *)
(* transfers fail, except by an operation of an earlier call that the driver *)
(* stopped waiting for.                                                      *)
OnlyAsked ==
  [][\A c \in Cells : flash'[c] # flash[c] => c \in Asked \cup late]_vars

(* The bytes that the caller passed, and all they can be programmed to.      *)
Passed(c) ==
  IF call.op = "fill" THEN <<calls, 0>> ELSE <<calls, c - call.start>>

Holds(c) ==
  CASE call.op = "write" -> flash[c] = Programmed(before[c], Passed(c))
    [] call.op \in {"erase", "fill_erased"} -> flash[c] = Erased
    [] call.op \in {"rewrite", "fill"} ->
         flash[c] = IF c \in Span(call.start, call.length)
                      THEN Passed(c) ELSE before[c]

Returned == pc = "idle" /\ calls > 0 /\ ret > 0

(* Calls that come while the chip still works for an earlier one are told    *)
(* that its end is theirs; a rewrite whose read failed writes memory from    *)
(* address 0.                                                                *)
Undisturbed == late = {} /\ ~unread

(* flash_rewrite_ops cannot be trusted at address 0 with part of a sector,   *)
(* nor with whole sectors' length away from a sector's start.                *)
Trusted ==
  \/ call.op # "rewrite"
  \/ ~Misaligned(call)
  \/ call.start # 0 /\ call.length % SectorSize # 0

(* A count that a call returns is the truth: so many bytes are programmed or *)
(* erased, and a rewrite or a fill that returns its length holds the         *)
(* caller's bytes and has kept the rest of its sectors.                      *)
CountsRight ==
  Returned /\ Undisturbed /\ Trusted =>
    IF Rewriting THEN ret = call.length => \A c \in Asked : Holds(c)
                 ELSE \A c \in Span(call.start, ret) : Holds(c)

(* flash.c:103: "Can't return ret directly because it might equal length and *)
(* be interpreted as success."  A rewrite away from address 0 that returns   *)
(* length has written its bytes.                                             *)
LengthMeansSuccess ==
  Returned /\ Undisturbed /\ call.op = "rewrite" /\ call.start # 0
    /\ ret = call.length
      => \A c \in Asked : Holds(c)
================================================================================
