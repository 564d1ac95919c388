-------------------------------- MODULE Memory --------------------------------
(* The memory that nobody uses, what is done with it, and that it is done   *)
(* with no other: the wipe before developer and recovery mode and the       *)
(* memory test of the diagnostics screen (src/src/vboot/util/memory.c,      *)
(* diag/memory.c, arch/x86/physmem.c).  The test does one chunk a call and  *)
(* keeps its place in between.  malloc is taken to succeed.                 *)
EXTENDS Ranges, FiniteSets

CONSTANTS
  Top,       \* the end of memory
  Low,       \* 4 GB: what a pointer can name
  Page,      \* LARGE_PAGE_SIZE: the window on the rest
  Chunk,     \* CHUNK_SIZE
  Block,     \* the size of OpData.pattern
  Image,     \* where depthcharge is
  Ramoops,   \* what coreboot may have set aside for it
  Maps,      \* the memory maps coreboot may hand over
  Faults     \* sets of cells <<pattern, address>> that lose the pattern

IsSpan(r) == r.start \in Nat /\ r.end \in Nat /\ r.start < r.end

ASSUME MemoryAssumption ==
  /\ Top \in Nat /\ Low \in Nat /\ Page \in Nat \ {0} /\ Low % Page = 0
  /\ Chunk \in Nat \ {0} /\ Block \in Nat \ {0}
  /\ IsSpan(Image) /\ \A r \in Ramoops : IsSpan(r)
  /\ \A m \in Maps : \A i \in DOMAIN m :
       IsSpan(m[i]) /\ m[i].type \in {"ram", "reserved", "unrecognized"}
  /\ \A m \in Maps : m \in Seq({m[i] : i \in DOMAIN m})
  /\ \A m \in Maps : \A i \in DOMAIN m : m[i].type = "ram" => m[i].end <= Top
  /\ \A f \in Faults : f \subseteq (Nat \ {0}) \X Nat

VARIABLES
  memmap,     \* lib_sysinfo.memrange
  ramoops,    \* lib_sysinfo.ramoops_buffer: empty, or one span
  bad,        \* the cells that are broken
  pc,
  caller,     \* of memory_range_init_and_get_unused: wipe, test
  i,          \* its loops' index
  used,       \* the static list of util/memory.c
  unused,     \* the caller's list: local to the wipe, static in the test
  wiped,      \* history: the addresses cleared
  asked,      \* history: the machine is in recovery or developer mode
  mem,        \* the pattern last written to each address by the test
  test        \* MemoryTestState

vars == <<memmap, ramoops, bad, pc, caller, i, used, unused, wiped, asked,
          mem, test>>

Smaller(m, n) == IF m < n THEN m ELSE n
Larger(m, n) == IF m < n THEN n ELSE m

-----------------------------------------------------------------------------
(* arch_phys_map: what it calls its function with.  A segment below 4 GB is *)
(* used where it is, one above through the window at address Page, onto     *)
(* which its large page is mapped.                                          *)

Direct(start, end) ==
  IF start < Low
  THEN {[at |-> start, ptr |-> start, page |-> 0, mapped |-> FALSE,
         size |-> Smaller(Low, end) - start]}
  ELSE {}

WholeWindows(start, end) ==   \* mutant
  LET high == Larger(start, Low)
      pages == {p \in high - (high % Page) .. end - 1 : p % Page = 0}
  IN {[at |-> p, ptr |-> Page, page |-> p,
       mapped |-> TRUE, size |-> Smaller(p + Page, end) - p] : p \in pages}

Windows(start, end) ==
  LET high == Larger(start, Low)
      pages == {p \in high - (high % Page) .. end - 1 : p % Page = 0}
      from(p) == Larger(p, high)
  IN {[at |-> from(p), ptr |-> Page + (from(p) - p), page |-> p,
       mapped |-> TRUE, size |-> Smaller(p + Page, end) - from(p)] : p \in pages}

Segments(start, end) == Direct(start, end) \cup Windows(start, end)

\* The physical address behind a pointer into a segment.
Phys(seg, pos) == seg.ptr + pos + (IF seg.mapped THEN seg.page - Page ELSE 0)
Cells(seg) == {Phys(seg, pos) : pos \in 0 .. seg.size - 1}
Touched(start, end) == UNION {Cells(seg) : seg \in Segments(start, end)}

-----------------------------------------------------------------------------
NoPlace == [is_running |-> FALSE, patterns |-> 0, pattern |-> 0, op |-> "none",
            range_cur |-> 0, chunk_st |-> 0, processed |-> 0,
            verdict |-> "none", error |-> [st |-> 0, ed |-> 0, at |-> 0]]

Init ==
  /\ memmap \in Maps
  /\ ramoops \in {{}} \cup {{r} : r \in Ramoops}
  /\ bad \in Faults
  /\ pc = "init_funcs" /\ caller = "wipe" /\ i = 1
  /\ used = NoRanges
  /\ unused = [c \in {"wipe", "test"} |-> NoRanges]
  /\ wiped = {} /\ asked = FALSE
  /\ mem = [a \in 0 .. Top - 1 |-> 0] /\ test = NoPlace

\* used_list_initialize adds depthcharge itself when the list is first used.
UsedList == IF used = NoRanges THEN ranges_add(NoRanges, Image.start, Image.end)
            ELSE used

\* ramoops_init, the caller of memory_mark_used
RamoopsInit ==
  /\ pc = "init_funcs" /\ pc' = "check_wipe"
  /\ IF ramoops = {} THEN UNCHANGED used
     ELSE \E r \in ramoops : used' = ranges_add(UsedList, r.start, r.end)
  /\ UNCHANGED <<memmap, ramoops, bad, caller, i, unused, wiped, asked, mem, test>>

GetUnused(c) == pc' = "map" /\ caller' = c /\ i' = 1
                /\ unused' = [unused EXCEPT ![c] = NoRanges]

\* vboot_check_wipe_memory
CheckWipe ==
  /\ pc = "check_wipe"
  /\ \/ asked' = TRUE /\ GetUnused("wipe")
     \/ asked' = FALSE /\ pc' = "ui" /\ UNCHANGED <<caller, i, unused>>
  /\ UNCHANGED <<memmap, ramoops, bad, used, wiped, mem, test>>

\* One turn of the loop over coreboot's map.
MapRange ==
  /\ pc = "map" /\ i \in DOMAIN memmap
  /\ memmap[i].type # "unrecognized"
  /\ unused' = [unused EXCEPT ![caller] =
       IF memmap[i].type = "ram"
       THEN ranges_add(@, memmap[i].start, memmap[i].end)
       ELSE ranges_sub(@, memmap[i].start, memmap[i].end)]
  /\ i' = i + 1
  /\ UNCHANGED <<memmap, ramoops, bad, pc, caller, used, wiped, asked, mem, test>>

\* "Unrecognized memory type": the wipe tears its list down, the test keeps it.
MapFails ==
  /\ pc = "map" /\ i \in DOMAIN memmap
  /\ memmap[i].type = "unrecognized"
  /\ pc' = "ui"
  /\ unused' = [unused EXCEPT !["wipe"] = NoRanges]
  /\ UNCHANGED <<memmap, ramoops, bad, caller, i, used, wiped, asked, mem, test>>

MapDone ==
  /\ pc = "map" /\ i \notin DOMAIN memmap
  /\ pc' = "exclude" /\ i' = 1 /\ used' = UsedList
  /\ UNCHANGED <<memmap, ramoops, bad, caller, unused, wiped, asked, mem, test>>

\* remove_range, for each range of the used list
ExcludeRange ==
  /\ pc = "exclude" /\ i <= Count(used)
  /\ unused' = [unused EXCEPT ![caller] =
       ranges_sub(@, First(used, i), Behind(used, i))]
  /\ i' = i + 1
  /\ UNCHANGED <<memmap, ramoops, bad, pc, caller, used, wiped, asked, mem, test>>

ExcludeDone ==
  /\ pc = "exclude" /\ i > Count(used)
  /\ pc' = caller /\ i' = 1
  /\ UNCHANGED <<memmap, ramoops, bad, caller, used, unused, wiped, asked, mem, test>>

\* unused_memset, for each range of the wipe's list
WipeRange ==
  /\ pc = "wipe" /\ i <= Count(unused["wipe"])
  /\ wiped' = wiped \cup Touched(First(unused["wipe"], i), Behind(unused["wipe"], i))
  /\ i' = i + 1
  /\ UNCHANGED <<memmap, ramoops, bad, pc, caller, used, unused, asked, mem, test>>

WipeDone ==
  /\ pc = "wipe" /\ i > Count(unused["wipe"])
  /\ pc' = "ui"
  /\ unused' = [unused EXCEPT !["wipe"] = NoRanges]
  /\ UNCHANGED <<memmap, ramoops, bad, caller, i, used, wiped, asked, mem, test>>

-----------------------------------------------------------------------------
(* The memory test.                                                         *)

ranges == unused["test"]
RangeEnd == Behind(ranges, test.range_cur)
ChunkEnd == Smaller(RangeEnd, test.chunk_st + Chunk)

\* memory_test_init: the list is computed once.
TestInit ==
  /\ pc = "ui"
  /\ \E n \in {1, 2} : test' = [test EXCEPT !.patterns = n]
  /\ IF ranges = NoRanges THEN GetUnused("test")
     ELSE pc' = "test" /\ UNCHANGED <<caller, i, unused>>
  /\ UNCHANGED <<memmap, ramoops, bad, used, wiped, asked, mem>>

\* The first chunk of the first range.
AtRange(t, k) == [t EXCEPT !.range_cur = k, !.chunk_st = First(ranges, k)]

TestResetKeepsCount ==   \* mutant
  /\ pc = "test" /\ ranges # NoRanges
  /\ test' = AtRange([test EXCEPT !.is_running = TRUE, !.pattern = 1,
                                  !.op = "write", !.verdict = "none"], 1)
  /\ pc' = "run"
  /\ UNCHANGED <<memmap, ramoops, bad, caller, i, used, unused, wiped, asked, mem>>

\* reset_memory_test; memory_test_run follows in the same call.
TestReset ==
  /\ pc = "test" /\ ranges # NoRanges
  /\ test' = AtRange([test EXCEPT !.is_running = TRUE, !.pattern = 1,
                                  !.op = "write", !.processed = 0,
                                  !.verdict = "none"], 1)
  /\ pc' = "run"
  /\ UNCHANGED <<memmap, ramoops, bad, caller, i, used, unused, wiped, asked, mem>>

\* The screen calls again without a reset.
TestAgain ==
  /\ pc = "ui" /\ test.is_running
  /\ pc' = "run"
  /\ UNCHANGED <<memmap, ramoops, bad, caller, i, used, unused, wiped, asked, mem, test>>

go_next_pattern(t) ==
  IF t.pattern < t.patterns THEN [t EXCEPT !.pattern = @ + 1, !.op = "write"]
  ELSE [t EXCEPT !.is_running = FALSE, !.op = "none", !.verdict = "passed"]

go_next_operation(t) ==
  AtRange(IF t.op = "write" THEN [t EXCEPT !.op = "read"] ELSE go_next_pattern(t), 1)

go_next_range(t) ==
  IF t.range_cur < Count(ranges) THEN AtRange(t, t.range_cur + 1)
  ELSE go_next_operation(t)

GoNextChunkOfOneRange(t) ==   \* mutant
  IF ChunkEnd < RangeEnd THEN [t EXCEPT !.chunk_st = ChunkEnd]
  ELSE go_next_operation(t)

go_next_chunk(t) ==
  IF ChunkEnd < RangeEnd THEN [t EXCEPT !.chunk_st = ChunkEnd]
  ELSE go_next_range(t)

Processed == test.processed + (ChunkEnd - test.chunk_st)
Step == pc = "run" /\ test.is_running /\ pc' = "ui"
        /\ UNCHANGED <<memmap, ramoops, bad, caller, i, used, unused, wiped, asked>>

WriteChunk ==
  /\ Step /\ test.op = "write"
  /\ mem' = [a \in DOMAIN mem |-> IF a \in Touched(test.chunk_st, ChunkEnd)
                                  THEN test.pattern ELSE mem[a]]
  /\ test' = go_next_chunk([test EXCEPT !.processed = Processed])

\* memcmp finds a difference at this place of a segment.
Differs(seg, pos) ==
  LET a == Phys(seg, pos)
  IN mem[a] # test.pattern \/ <<test.pattern, a>> \in bad
Wrong(seg) == {pos \in 0 .. seg.size - 1 : Differs(seg, pos)}
WrongSegments ==
  {seg \in Segments(test.chunk_st, ChunkEnd) : Wrong(seg) # {}}

CheckChunk ==
  /\ Step /\ test.op = "read" /\ WrongSegments = {}
  /\ test' = go_next_chunk([test EXCEPT !.processed = Processed])
  /\ UNCHANGED mem

\* Blocks are compared one by one.  The search inside the one that differs
\* ends where the first block ends, and leaves the offset at 0.
ErrorOffset(seg) ==
  LET pos == CHOOSE p \in Wrong(seg) : \A q \in Wrong(seg) : p <= q
      block == pos - (pos % Block)
      cur_size == Smaller(seg.size - block, Block)
  IN IF block = cur_size THEN 0 ELSE pos

\* A later segment of the chunk overwrites what an earlier one reported.
CheckFails ==
  /\ Step /\ test.op = "read"
  /\ \E seg \in WrongSegments :
       /\ \A s \in WrongSegments : s.at <= seg.at
       /\ test' = [test EXCEPT
            !.processed = Processed, !.is_running = FALSE, !.verdict = "failed",
            !.error = [st |-> seg.at, ed |-> seg.at + seg.size,
                       at |-> seg.at + ErrorOffset(seg)]]
  /\ UNCHANGED mem

Next ==
  \/ RamoopsInit \/ CheckWipe \/ MapRange \/ MapFails \/ MapDone \/ ExcludeRange
  \/ ExcludeDone \/ WipeRange \/ WipeDone \/ TestReset \/ TestAgain
  \/ TestInit \/ WriteChunk \/ CheckChunk \/ CheckFails

Spec == Init /\ [][Next]_vars

-----------------------------------------------------------------------------
(* What the memory map says is free when its n first entries are read: the *)
(* last entry for an address counts.                                        *)
Covers(r, a) == r.start <= a /\ a < r.end
RamAfter(map, n) ==
  {a \in Nat : \E j \in 1 .. n :
     /\ map[j].type = "ram" /\ Covers(map[j], a)
     /\ \A k \in j + 1 .. n : ~Covers(map[k], a)}
InUse == {a \in Nat : Covers(Image, a) \/ \E r \in ramoops : Covers(r, a)}
IsFree(a) == a \in RamAfter(memmap, Len(memmap)) \ InUse
Recognized == \A j \in DOMAIN memmap : memmap[j].type # "unrecognized"

TypeOK ==
  /\ memmap \in Maps /\ ramoops \in {{}} \cup {{r} : r \in Ramoops}
  /\ pc \in {"init_funcs", "check_wipe", "map", "exclude", "wipe", "test", "ui", "run"}
  /\ caller \in {"wipe", "test"} /\ i \in Nat \ {0}
  /\ DOMAIN unused = {"wipe", "test"}
  /\ IsRanges(used) /\ IsRanges(unused["wipe"]) /\ IsRanges(ranges)

-----------------------------------------------------------------------------
(* What is cleared was free, and on the way into developer or recovery mode *)
(* all that is free is cleared, unless the map has a type that is unknown   *)
(* (vboot_check_wipe_memory, memory_wipe_unused).                           *)
WipeExact ==
  /\ \A a \in wiped : IsFree(a)
  /\ pc = "ui" /\ asked =>
       IF Recognized THEN \A a \in 0 .. Top - 1 : IsFree(a) => a \in wiped
       ELSE wiped = {}

(* The memory test passes only when every pattern was kept by every address *)
(* that it has to test, and fails only for an error in the segment that it  *)
(* reports, however its calls are interrupted by a new start.               *)
VerdictRight ==
  pc = "ui" =>
    /\ test.verdict = "passed" =>
         \A c \in bad : ~(c[1] <= test.patterns /\ c[2] \in Addresses(ranges))
    /\ test.verdict = "failed" =>
         \E a \in test.error.st .. test.error.ed - 1 : <<test.pattern, a>> \in bad

(* The progress is below 100% until the last chunk of the last pattern, and *)
(* 100% when the test has passed (update_progress): as every chunk adds to  *)
(* it, a test that is called again and again also ends.                     *)
Total == test.patterns * 2 * Cardinality(Addresses(ranges))
ProgressRight ==
  pc = "ui" => /\ test.is_running => test.processed < Total
               /\ test.verdict = "passed" => test.processed = Total

(* The test writes to free memory only, however often it is started, as     *)
(* memory_test_init says of the ranges it prints ("will be tested").  After  *)
(* an entry of an unknown type it keeps the list as far as it was built.    *)
TestsFreeMemory ==
  Recognized => \A a \in DOMAIN mem : mem[a] # 0 => IsFree(a)
===============================================================================
