------------------------------ MODULE FlashProofs ------------------------------
(* Theorems about Flash, for any size of sectors, pages, chip and buffer, any *)
(* calls and whichever transfers fail: the driver touches no cell outside the *)
(* range it was asked for, and the count a call returns is the truth.         *)
EXTENDS Flash, TLAPS, FiniteSetTheorems

--------------------------------------------------------------------------------
(* Whole sectors.                                                             *)
LEMMA Sizes ==
  /\ SectorSize \in Nat \ {0} /\ PageSize \in Nat \ {0} /\ HeapSize \in Nat \ {0}
  /\ \A r \in Requests :
       /\ r.start \in Nat /\ r.length \in Nat \ {0}
       /\ r.op = "fill_erased" => ~Misaligned(r)
BY FlashAssumption DEF FlashAssumption, Misaligned

LEMMA Multiples ==
  ASSUME NEW p \in Nat \ {0}
  PROVE  /\ \A k \in Int : (p * k) % p = 0
         /\ \A n \in Int : n % p = 0 => n = p * (n \div p)
OBVIOUS

LEMMA Quotient ==
  ASSUME NEW p \in Nat \ {0}, NEW n \in Nat
  PROVE  /\ n \div p \in Nat /\ (n \div p) * p \in Nat
         /\ n = (n \div p) * p + (n % p) /\ n % p \in 0 .. p - 1
OBVIOUS

LEMMA AlignedDown ==
  ASSUME NEW n \in Nat
  PROVE  /\ AlignDown(n) \in Nat /\ AlignDown(n) % SectorSize = 0
         /\ AlignDown(n) <= n /\ n < AlignDown(n) + SectorSize
         /\ n % SectorSize = 0 => AlignDown(n) = n
         /\ \A m \in Nat : m <= n => AlignDown(m) <= AlignDown(n)
<1>1. SectorSize \in Nat \ {0}
  BY Sizes
<1>2. /\ n \div SectorSize \in Nat /\ (n \div SectorSize) * SectorSize \in Nat
      /\ n = (n \div SectorSize) * SectorSize + (n % SectorSize)
      /\ n % SectorSize \in 0 .. SectorSize - 1
  BY <1>1, Quotient
<1>3. ((n \div SectorSize) * SectorSize) % SectorSize = 0
  BY <1>1, <1>2, Multiples
<1>4. ASSUME NEW m \in Nat, m <= n
      PROVE  AlignDown(m) <= AlignDown(n)
  <2>1. m \div SectorSize <= n \div SectorSize
    BY <1>1, <1>4
  <2>2. m \div SectorSize \in Nat
    BY <1>1, Quotient
  <2>3. (m \div SectorSize) * SectorSize <= (n \div SectorSize) * SectorSize
    BY <1>1, <1>2, <2>1, <2>2
  <2>4. QED
    BY <2>3 DEF AlignDown
<1>5. QED
  BY <1>1, <1>2, <1>3, <1>4 DEF AlignDown

LEMMA WholeSectors ==
  ASSUME NEW a \in Nat, NEW b \in Nat, a % SectorSize = 0, b % SectorSize = 0
  PROVE  /\ (a + b) % SectorSize = 0
         /\ (a - b) % SectorSize = 0
         /\ a < b => a + SectorSize <= b
<1>1. SectorSize \in Nat \ {0}
  BY Sizes
<1> DEFINE j == a \div SectorSize
           k == b \div SectorSize
<1>2. a = SectorSize * j /\ b = SectorSize * k /\ j \in Nat /\ k \in Nat
  BY <1>1, Multiples, Quotient
<1> HIDE DEF j, k
<1>3. a + b = SectorSize * (j + k) /\ a - b = SectorSize * (j - k)
  BY <1>1, <1>2
<1>4. ASSUME a < b
      PROVE  a + SectorSize <= b
  <2>1. j < k
    BY <1>1, <1>2, <1>4
  <2>2. SectorSize * (j + 1) <= SectorSize * k
    BY <1>1, <1>2, <2>1
  <2>3. QED
    BY <1>1, <1>2, <2>2
<1>5. QED
  BY <1>1, <1>2, <1>3, <1>4, Multiples

LEMMA AlignedUp ==
  ASSUME NEW n \in Nat
  PROVE  /\ AlignUp(n) \in Nat /\ AlignUp(n) % SectorSize = 0 /\ n <= AlignUp(n)
         /\ \A m \in Nat : m <= n => AlignUp(m) <= AlignUp(n)
<1>1. SectorSize \in Nat \ {0}
  BY Sizes
<1>2. n + SectorSize - 1 \in Nat /\ \A m \in Nat : m + SectorSize - 1 \in Nat
  BY <1>1
<1>3. QED
  BY <1>1, <1>2, AlignedDown DEF AlignUp

LEMMA Smaller ==
  ASSUME NEW a \in Nat, NEW b \in Nat
  PROVE  /\ Min({a, b}) \in Nat /\ Min({a, b}) <= a /\ Min({a, b}) <= b
         /\ Min({a, b}) \in {a, b}
<1>1. \E x \in {a, b} : \A y \in {a, b} : x <= y
  OBVIOUS
<1>2. Min({a, b}) \in {a, b} /\ \A y \in {a, b} : Min({a, b}) <= y
  BY <1>1 DEF Min
<1>3. QED
  BY <1>2

(* A write that stays in its page is not wrapped by the chip.                 *)
LEMMA PageCells ==
  ASSUME NEW address \in Nat, NEW i \in Nat, (address % PageSize) + i < PageSize
  PROVE  PageCell(address, i) = address + i
<1>1. PageSize \in Nat \ {0}
  BY Sizes
<1>2. /\ (address \div PageSize) * PageSize \in Nat
      /\ address = (address \div PageSize) * PageSize + (address % PageSize)
      /\ address % PageSize \in Nat
  BY <1>1, Quotient
<1>3. ((address % PageSize) + i) % PageSize = (address % PageSize) + i
  BY <1>1, <1>2
<1>4. QED
  BY <1>2, <1>3 DEF PageCell

--------------------------------------------------------------------------------
(* The invariant.  What a call may touch is a span of cells.                  *)
FirstAsked == IF Rewriting THEN AlignDown(call.start) ELSE call.start
BehindAsked == IF Rewriting THEN AlignUp(call.start + call.length)
               ELSE call.start + call.length

\* Where whole sectors are at hand, and where one chunk of the range is.
InSectors == {"read", "erase", "erase_sector", "poll_erase"}
InChunk == {"erase_sector", "poll_erase", "program", "poll_write"}
Working == InSectors \cup InChunk \cup {"erased", "write", "written"}

TypeInv ==
  /\ call.start \in Nat /\ call.length \in Nat
  /\ from \in Nat /\ size \in Nat /\ done \in Nat
  /\ pc \in Working \cup {"idle", "rewritten", "died"}
  /\ rewrite[1] \in Nat /\ rewrite[2] \in Nat
  /\ rewrite = <<rewrite[1], rewrite[2]>>

RangeInv ==
  /\ pc \in Working => FirstAsked <= from /\ from + size <= BehindAsked
  /\ pc \in InSectors =>
       from % SectorSize = 0 /\ size % SectorSize = 0 /\ done % SectorSize = 0
  /\ pc \in InChunk => done < size

\* A fill has the next rewrite begin where the last one ended.
FillInv ==
  pc \in Working \cup {"rewritten"} /\ call.op = "fill" =>
    /\ call.start <= rewrite[1]
    /\ rewrite[1] + rewrite[2] <= call.start + call.length

ChipInv == DOMAIN operation \subseteq Asked \cup late

IInv == TypeInv /\ RangeInv /\ FillInv /\ ChipInv

LEMMA AskedSpan ==
  ASSUME TypeInv
  PROVE  /\ Asked = FirstAsked .. BehindAsked - 1
         /\ FirstAsked \in Nat /\ BehindAsked \in Nat
<1>1. call.start + call.length \in Nat
  BY DEF TypeInv
<1>2. AlignDown(call.start) \in Nat /\ AlignUp(call.start + call.length) \in Nat
  BY <1>1, AlignedDown, AlignedUp DEF TypeInv
<1>3. QED
  BY <1>1, <1>2 DEF Asked, Span, FirstAsked, BehindAsked, TypeInv

(* The sectors that one erase command names lie in the range.                 *)
LEMMA SectorInRange ==
  ASSUME IInv, pc = "erase_sector"
  PROVE  DOMAIN EraseCells(from + done) \subseteq Asked
<1>1. /\ from \in Nat /\ size \in Nat /\ done \in Nat /\ done < size
      /\ from % SectorSize = 0 /\ size % SectorSize = 0 /\ done % SectorSize = 0
      /\ FirstAsked <= from /\ from + size <= BehindAsked
  BY DEF IInv, TypeInv, RangeInv, Working, InSectors, InChunk
<1>2. done + SectorSize <= size /\ (from + done) % SectorSize = 0
  BY <1>1, WholeSectors
<1>3. AlignDown(from + done) = from + done
  BY <1>1, <1>2, AlignedDown
<1>4. DOMAIN EraseCells(from + done) = from + done .. from + done + SectorSize - 1
  BY <1>3 DEF EraseCells, AlignDown, Span
<1>5. QED
  BY <1>1, <1>2, <1>4, AskedSpan, Sizes DEF IInv

(* A page's part of the range.                                                *)
LEMMA WriteSizeFits ==
  ASSUME IInv, pc \in {"program", "poll_write"}
  PROVE  /\ WriteSize \in Nat \ {0} /\ done + WriteSize <= size
         /\ ((from + done) % PageSize) + WriteSize <= PageSize
<1>1. from \in Nat /\ size \in Nat /\ done \in Nat /\ done < size
  BY DEF IInv, TypeInv, RangeInv, InChunk
<1>2. (from + done) % PageSize \in 0 .. PageSize - 1 /\ PageSize \in Nat \ {0}
  BY <1>1, Sizes, Quotient
<1>3. QED
  BY <1>1, <1>2 DEF WriteSize

LEMMA ProgramInRange ==
  ASSUME IInv, pc = "program", NEW n \in 0 .. WriteSize
  PROVE  DOMAIN ProgramCells(from + done, Data(n)) \subseteq Asked
<1>1. /\ from \in Nat /\ size \in Nat /\ done \in Nat
      /\ FirstAsked <= from /\ from + size <= BehindAsked
  BY DEF IInv, TypeInv, RangeInv, Working, InChunk
<1>2. /\ WriteSize \in Nat /\ done + WriteSize <= size
      /\ ((from + done) % PageSize) + WriteSize <= PageSize
  BY WriteSizeFits
<1>3. DOMAIN Data(n) = 0 .. n - 1
  BY DEF Data
<1>4. Cardinality(DOMAIN Data(n)) = n
  BY <1>2, <1>3, FS_Interval
<1>5. DOMAIN ProgramCells(from + done, Data(n)) =
        {PageCell(from + done, i) : i \in 0 .. n - 1}
  BY <1>4 DEF ProgramCells
<1>6. ASSUME NEW i \in 0 .. n - 1
      PROVE  PageCell(from + done, i) \in Asked
  <2>1. (from + done) % PageSize \in Nat /\ i \in Nat /\ i < WriteSize
    BY <1>1, <1>2, Sizes, Quotient
  <2>2. PageCell(from + done, i) = from + done + i
    <3> DEFINE address == from + done
    <3>1. address \in Nat
      BY <1>1
    <3>2. (address % PageSize) + i < PageSize
      BY <1>2, <2>1, Sizes
    <3> HIDE DEF address
    <3>3. PageCell(address, i) = address + i
      BY <2>1, <3>1, <3>2, PageCells
    <3>4. QED
      BY <1>1, <3>3 DEF address
  <2>3. QED
    BY <1>1, <1>2, <2>1, <2>2, AskedSpan DEF IInv
<1>7. QED
  BY <1>5, <1>6

--------------------------------------------------------------------------------
(* The calls.                                                                 *)

\* A rewrite of part of what was asked for is in the sectors of that.
LEMMA RewriteKeeps ==
  ASSUME TypeInv, NEW start \in Nat, NEW length \in Nat, NEW data,
         Rewrite(start, length, data), call'.start \in Nat, call'.length \in Nat,
         call'.op \in {"rewrite", "fill"}, done' = 0,
         call'.start <= start, start + length <= call'.start + call'.length
  PROVE  TypeInv' /\ RangeInv' /\ FillInv'
<1>1. /\ rewrite' = <<start, length>> /\ pc' \in {"read", "erase"}
      /\ from' = AlignDown(start) /\ size' = AlignUp(start + length) - AlignDown(start)
  BY DEF Rewrite, FullLength
<1>2. /\ AlignDown(start) \in Nat /\ AlignDown(start) % SectorSize = 0
      /\ AlignDown(start) <= start /\ AlignDown(call'.start) <= AlignDown(start)
  BY AlignedDown
<1>3. /\ AlignUp(start + length) \in Nat /\ AlignUp(start + length) % SectorSize = 0
      /\ start + length <= AlignUp(start + length)
      /\ AlignUp(start + length) <= AlignUp(call'.start + call'.length)
  BY AlignedUp
<1>4. size' \in Nat /\ size' % SectorSize = 0 /\ done' % SectorSize = 0
  BY <1>1, <1>2, <1>3, WholeSectors, Sizes
<1>5. from' + size' <= BehindAsked' /\ FirstAsked' <= from'
  BY <1>1, <1>2, <1>3 DEF FirstAsked, BehindAsked, Rewriting, AlignDown, AlignUp
<1>6. QED
  BY <1>1, <1>2, <1>4, <1>5 DEF TypeInv, RangeInv, FillInv, Working, InSectors, InChunk

LEMMA CallerKeeps ==
  ASSUME IInv, Caller
  PROVE  TypeInv' /\ RangeInv' /\ FillInv'
<1>1. PICK r \in Requests : CallWrite(r) \/ CallErase(r) \/ CallRewrite(r)
                             \/ CallFill(r) \/ CallFillErased(r)
  BY DEF Caller
<1>2. /\ r.start \in Nat /\ r.length \in Nat \ {0}
      /\ r.op = "fill_erased" => ~Misaligned(r)
  BY Sizes
<1>3. call' = r /\ done' = 0 /\ TypeInv
  BY <1>1 DEF CallWrite, CallErase, CallRewrite, CallFill, CallFillErased, Incoming, IInv
<1>4. CASE CallRewrite(r) \/ CallFill(r)
  <2>1. r.op \in {"rewrite", "fill"}
    BY <1>4 DEF CallRewrite, CallFill, Incoming
  <2>2. CASE CallRewrite(r)
    <3>1. Rewrite(r.start, r.length, Bytes(r.length))
      BY <2>2 DEF CallRewrite
    <3>2. QED
      BY <1>2, <1>3, <2>1, <3>1, RewriteKeeps
  <2>3. CASE CallFill(r)
    <3>1. Rewrite(r.start, Min({HeapSize, r.length}), FillBuffer(calls'))
      BY <2>3 DEF CallFill
    <3>2. Min({HeapSize, r.length}) \in Nat /\ Min({HeapSize, r.length}) <= r.length
      BY <1>2, Sizes, Smaller
    <3>3. r.start + Min({HeapSize, r.length}) <= r.start + r.length
      BY <1>2, <3>2
    <3>4. QED
      BY <1>2, <1>3, <2>1, <3>1, <3>2, <3>3, RewriteKeeps
  <2>4. QED
    BY <1>4, <2>2, <2>3
<1>5. CASE CallWrite(r) \/ CallErase(r) \/ CallFillErased(r)
  <2>1. /\ from' = r.start /\ size' = r.length /\ rewrite' = rewrite
        /\ r.op \notin {"rewrite", "fill"}
        /\ pc' \in {"idle", "erase", "write"}
        /\ pc' = "erase" => ~Misaligned(r)
    BY <1>2, <1>5 DEF CallWrite, CallErase, CallFillErased, Incoming
  <2>2. 0 % SectorSize = 0
    BY Sizes
  <2>3. QED
    BY <1>2, <1>3, <2>1, <2>2 DEF TypeInv, RangeInv, FillInv, FirstAsked, BehindAsked,
       Rewriting, Working, InSectors, InChunk, Misaligned
<1>6. QED
  BY <1>1, <1>4, <1>5

LEMMA FillNextKeeps ==
  ASSUME IInv, FillNext
  PROVE  TypeInv' /\ RangeInv' /\ FillInv'
<1>1. /\ call.start \in Nat /\ call.length \in Nat /\ rewrite[1] \in Nat /\ rewrite[2] \in Nat
      /\ call.start <= rewrite[1] /\ call.op = "fill" /\ call' = call /\ done' = 0
      /\ Filled < call.length /\ TypeInv
  BY DEF FillNext, IInv, TypeInv, FillInv
<1> DEFINE length == Min({HeapSize, call.length - Filled})
<1>2. Filled \in Nat /\ call.length - Filled \in Nat
  BY <1>1 DEF Filled
<1>3. length \in Nat /\ length <= call.length - Filled
  BY <1>2, Sizes, Smaller
<1>4. Rewrite(call.start + Filled, length, FillBuffer(calls))
  BY DEF FillNext
<1> HIDE DEF length
<1>5. call.start + Filled \in Nat /\ call.start <= call.start + Filled
      /\ (call.start + Filled) + length <= call.start + call.length
  BY <1>1, <1>2, <1>3
<1>6. QED
  BY <1>1, <1>3, <1>4, <1>5, RewriteKeeps

--------------------------------------------------------------------------------
(* The steps of a call.                                                       *)
LEMMA ModifyKeeps ==
  ASSUME IInv, ReadBack \/ ReadFails \/ Modify
  PROVE  TypeInv' /\ RangeInv' /\ FillInv'
<1>1. /\ call' = call /\ rewrite' = rewrite /\ from' = from /\ size' = size
      /\ TypeInv /\ RangeInv /\ FillInv
  BY DEF ReadBack, ReadFails, Modify, EraseEnable, WriteEnable, Enable, EnableFails, SendErase,
     SendProgram, SendFails, PollDone, PollFails, RangeDone, range, history, chip, IInv
<1>2. FirstAsked' = FirstAsked /\ BehindAsked' = BehindAsked
  BY <1>1 DEF FirstAsked, BehindAsked, Rewriting, AlignDown, AlignUp
<1>3. ASSUME pc \in Working, pc' \in Working \cup {"died"}, done' = done,
             pc' \in InSectors => pc \in InSectors,
             pc' \in InChunk => done < size
      PROVE  TypeInv' /\ RangeInv' /\ FillInv'
  BY <1>1, <1>2, <1>3 DEF TypeInv, RangeInv, FillInv, Working
<1>4. CASE PollDone
  <2>1. /\ pc \in {"poll_erase", "poll_write"} /\ done < size
        /\ done' = done + (IF pc = "poll_write" THEN WriteSize ELSE SectorSize)
        /\ pc' = IF pc = "poll_write" THEN "write" ELSE "erase"
    BY <1>1, <1>4 DEF PollDone, Erasing, Writing, RangeInv, InChunk
  <2>2. CASE pc = "poll_erase"
    <3>1. done % SectorSize = 0 /\ done \in Nat
      BY <1>1, <2>2 DEF RangeInv, TypeInv, InSectors
    <3>2. SectorSize \in Nat /\ SectorSize % SectorSize = 0
      BY Sizes
    <3>3. done' \in Nat /\ done' % SectorSize = 0
      <4>1. done' = done + SectorSize
        BY <2>1, <2>2
      <4>2. (done + SectorSize) % SectorSize = 0
        BY <3>1, <3>2, WholeSectors
      <4>3. QED
        BY <3>1, <3>2, <4>1, <4>2
    <3>4. QED
      BY <1>1, <1>2, <2>1, <2>2, <3>3 DEF TypeInv, RangeInv, FillInv, Working, InSectors, InChunk
  <2>3. CASE pc = "poll_write"
    <3>1. done' \in Nat
      BY <1>1, <2>1, <2>3, WriteSizeFits DEF TypeInv, IInv
    <3>2. QED
      BY <1>1, <1>2, <2>1, <2>3, <3>1 DEF TypeInv, RangeInv, FillInv, Working, InSectors, InChunk
  <2>4. QED
    BY <2>1, <2>2, <2>3
<1>5. CASE EraseEnable \/ WriteEnable \/ SendErase \/ SendProgram
  <2>1. /\ done' = done /\ done < size
        /\ \/ pc = "erase" /\ pc' = "erase_sector"
           \/ pc = "write" /\ pc' = "program"
           \/ pc = "erase_sector" /\ pc' = "poll_erase"
           \/ pc = "program" /\ pc' = "poll_write"
    BY <1>1, <1>5 DEF EraseEnable, WriteEnable, Enable, Modifying, SendErase, SendProgram,
       RangeInv, InChunk
  <2>2. QED
    BY <1>3, <2>1 DEF Working, InSectors, InChunk
<1>6. CASE EnableFails \/ SendFails \/ PollFails \/ RangeDone
  <2>1. done' = done /\ pc \in Working /\ pc' \in {"written", "erased"}
    BY <1>6 DEF EnableFails, SendFails, PollFails, RangeDone, Modifying, Erasing, Writing, Broke,
       Working, InSectors, InChunk
  <2>2. QED
    BY <1>3, <2>1 DEF Working, InSectors, InChunk
<1>7. CASE ReadBack \/ ReadFails
  <2>1. done' = done /\ pc = "read" /\ pc' \in {"erase", "died"}
    BY <1>7 DEF ReadBack, ReadFails
  <2>2. QED
    BY <1>3, <2>1 DEF Working, InSectors, InChunk
<1>8. QED
  BY <1>4, <1>5, <1>6, <1>7 DEF Modify

LEMMA ReturnsKeep ==
  ASSUME IInv, Returns
  PROVE  TypeInv' /\ RangeInv' /\ FillInv'
<1>1. CASE FillNext
  BY <1>1, FillNextKeeps
<1>2. CASE RewriteErased
  <2>1. /\ call' = call /\ rewrite' = rewrite /\ from' = from /\ size' = size
        /\ pc = "erased"
        /\ \/ pc' = "rewritten" /\ done' = done
           \/ pc' = "write" /\ done' = 0
        /\ TypeInv /\ RangeInv /\ FillInv
    BY <1>2 DEF RewriteErased, range, IInv
  <2>2. QED
    BY <2>1 DEF TypeInv, RangeInv, FillInv, FirstAsked, BehindAsked, Rewriting, AlignDown,
       AlignUp, Working, InSectors, InChunk
<1>3. CASE WriteReturns \/ EraseReturns \/ RewriteWritten \/ RewriteReturns \/ FillReturns
  <2>1. /\ call' = call /\ rewrite' = rewrite /\ from' = from /\ size' = size /\ done' = done
        /\ pc' = "idle" \/ (pc = "written" /\ pc' = "rewritten")
        /\ TypeInv /\ RangeInv /\ FillInv
    BY <1>3 DEF WriteReturns, EraseReturns, RewriteWritten, RewriteReturns, FillReturns, Return,
       range, IInv
  <2>2. QED
    BY <2>1 DEF TypeInv, RangeInv, FillInv, Working, InSectors, InChunk
<1>4. QED
  BY <1>1, <1>2, <1>3 DEF Returns

--------------------------------------------------------------------------------
(* The chip works on cells that were asked for, now or by a call before.      *)
LEMMA ChipKeeps ==
  ASSUME IInv, [Next]_vars
  PROVE  ChipInv'
<1>1. DOMAIN operation \subseteq Asked \cup late
  BY DEF IInv, ChipInv
<1>2. CASE Caller
  <2>1. operation' = operation /\ late' = DOMAIN operation
    BY <1>2 DEF Caller, CallWrite, CallErase, CallRewrite, CallFill, CallFillErased, Incoming, chip
  <2>2. QED
    BY <2>1 DEF ChipInv
<1>3. ASSUME call' = call, late' = late,
             operation' = operation \/ DOMAIN operation' \subseteq Asked
      PROVE  ChipInv'
  <2>1. Asked' = Asked
    BY <1>3 DEF Asked, Rewriting, AlignDown, AlignUp, Span
  <2>2. QED
    BY <1>1, <1>3, <2>1 DEF ChipInv
<1>4. CASE ChipDone
  <2>1. call' = call /\ late' = late /\ DOMAIN operation' = {}
    BY <1>4 DEF ChipDone, history
  <2>2. QED
    BY <1>3, <2>1
<1>5. CASE SendErase \/ SendProgram \/ SendFails
  <2>1. call' = call /\ late' = late /\ pc \in {"erase_sector", "program"}
    BY <1>5 DEF SendErase, SendProgram, SendFails, history
  <2>2. \/ operation' = operation
        \/ pc = "erase_sector" /\ operation' = EraseCells(from + done)
        \/ pc = "program" /\ \E n \in 0 .. WriteSize :
              operation' = ProgramCells(from + done, Data(n))
    <3>1. pc = "program" => WriteSize \in 0 .. WriteSize /\ 1 .. WriteSize \subseteq 0 .. WriteSize
      BY WriteSizeFits
    <3>2. QED
      BY <1>5, <3>1 DEF SendErase, SendProgram, SendFails, Program, Accept, chip
  <2>3. operation' = operation \/ DOMAIN operation' \subseteq Asked
    BY <2>1, <2>2, SectorInRange, ProgramInRange
  <2>4. QED
    BY <1>3, <2>1, <2>3
<1>6. CASE \/ ReadBack \/ ReadFails \/ EraseEnable \/ WriteEnable \/ EnableFails \/ PollDone
          \/ PollFails \/ RangeDone \/ Returns \/ UNCHANGED vars
  <2>1. call' = call /\ late' = late /\ operation' = operation
    BY <1>6 DEF ReadBack, ReadFails, EraseEnable, WriteEnable, Enable, EnableFails, PollDone,
       PollFails, RangeDone, Returns, WriteReturns, EraseReturns, RewriteErased, RewriteWritten,
       RewriteReturns, FillNext, FillReturns, chip, history, vars
  <2>2. QED
    BY <1>3, <2>1
<1>7. QED
  BY <1>2, <1>4, <1>5, <1>6 DEF Next, Modify

LEMMA IInvStep == IInv /\ [Next]_vars => IInv'
<1> SUFFICES ASSUME IInv, [Next]_vars PROVE TypeInv' /\ RangeInv' /\ FillInv'
  BY ChipKeeps DEF IInv
<1>1. CASE ChipDone \/ UNCHANGED vars
  <2>1. UNCHANGED <<pc, call, rewrite, range, done>> /\ TypeInv /\ RangeInv /\ FillInv
    BY <1>1 DEF ChipDone, vars, IInv
  <2>2. QED
    BY <2>1 DEF TypeInv, RangeInv, FillInv, FirstAsked, BehindAsked, Rewriting, AlignDown,
       AlignUp, range
<1>2. QED
  BY <1>1, CallerKeeps, ModifyKeeps, ReturnsKeep DEF Next

LEMMA IInvInit == Init => IInv
<1> SUFFICES ASSUME Init PROVE IInv
  OBVIOUS
<1>1. TypeInv /\ RangeInv /\ FillInv
  BY DEF Init, TypeInv, RangeInv, FillInv, Working, InSectors, InChunk
<1>2. ChipInv
  BY DEF Init, ChipInv
<1>3. QED
  BY <1>1, <1>2 DEF IInv

\* The driver changes no cell outside the range it was asked for, or its sectors
\* for a rewrite, whichever transfers fail and however a range lies in pages and
\* sectors, except by an operation it has stopped waiting for.

THEOREM NothingElseTouched == Spec => OnlyAsked
<1>1. IInv /\ [Next]_vars =>
        [\A c \in Cells : flash'[c] # flash[c] => c \in Asked \cup late]_vars
  <2> SUFFICES ASSUME IInv, Next, NEW c \in Cells, flash'[c] # flash[c]
               PROVE  c \in Asked \cup late
    OBVIOUS
  <2>1. CASE ChipDone
    BY <2>1 DEF ChipDone, IInv, ChipInv
  <2>2. CASE ~ChipDone
    <3>1. flash' = flash
      BY <2>2 DEF Next, Caller, CallWrite, CallErase, CallRewrite, CallFill, CallFillErased,
         Incoming, ReadBack, ReadFails, Modify, EraseEnable, WriteEnable, Enable, EnableFails,
         SendErase, SendProgram, SendFails, Program, Accept, PollDone, PollFails, RangeDone,
         Returns, WriteReturns, EraseReturns, RewriteErased, RewriteWritten, RewriteReturns,
         FillNext, FillReturns, chip
    <3>2. QED
      BY <3>1
  <2>3. QED
    BY <2>1, <2>2
<1>2. QED
  BY <1>1, IInvInit, IInvStep, PTL DEF Spec, OnlyAsked

--------------------------------------------------------------------------------
(* The counts.  What the cells of the range hold at each step of a call.      *)
EraseStage == {"erase", "erase_sector", "poll_erase", "erased"}
WriteStage == {"write", "program", "poll_write", "written"}
InCall == Working \cup {"rewritten"}

\* What the caller wants in a cell, what is there before it is programmed, and
\* what the programming makes of the two.
Want(c) == IF Rewriting /\ c \notin Span(call.start, call.length) THEN before[c] ELSE Passed(c)
Old(c) == IF Rewriting THEN Erased ELSE before[c]
Final(c) == Programmed(Old(c), Want(c))

\* The calls whose count is to be trusted.
Counted == Undisturbed /\ Trusted

\* Where the driver is in which call, and what the chip has been given.
PlaceInv ==
  /\ calls \in Nat /\ (calls > 0 => call \in Requests) /\ (pc # "idle" => calls > 0)
  /\ DOMAIN operation = {} => operation = <<>>
  /\ pc \in InCall => done <= size
  /\ pc \in {"read", "rewritten"} => Rewriting
  /\ pc = "read" => done = 0 /\ ~null
  /\ pc \in EraseStage => Rewriting \/ call.op \in {"erase", "fill_erased"}
  /\ pc \in WriteStage => Rewriting \/ call.op = "write"
  /\ pc = "erased" => done % SectorSize = 0
  /\ pc \in InCall /\ ~Rewriting => from = call.start /\ size = call.length
  /\ pc \in InCall /\ Rewriting =>
       /\ from = AlignDown(rewrite[1]) /\ size = FullLength(rewrite[1], rewrite[2])
       /\ IF call.op = "fill" THEN rewrite[1] % SectorSize = 0 /\ rewrite[2] % SectorSize = 0
                              ELSE rewrite = <<call.start, call.length>>

\* The buffer holds what the caller passed, and after the read what is to be written.
BufferInv ==
  Counted =>
    /\ pc = "read" => \A i \in 0 .. rewrite[2] - 1 : buffer[i] = Want(rewrite[1] + i)
    /\ pc = "read" /\ call.op = "rewrite" => \A c \in Cells : flash[c] = before[c]
    /\ pc \in WriteStage \/ (Rewriting /\ pc \in EraseStage) =>
         ~null /\ \A i \in 0 .. size - 1 : buffer[i] = Want(from + i)

\* The chip is ready when it is to take a command, and the last one is in the range.
ReadyInv ==
  Undisturbed =>
    /\ pc \in {"read", "erase", "erase_sector", "write", "program"} => ~Busy
    /\ pc \in {"erase_sector", "program"} => wel
    /\ pc \in {"erased", "written"} /\ done = size => ~Busy
    /\ pc \in InCall => DOMAIN operation \subseteq from + done .. from + size - 1

\* So much of the range is erased.
EraseInv ==
  Undisturbed /\ pc \in EraseStage =>
    /\ \A c \in Span(from, done) : flash[c] = Erased
    /\ pc = "poll_erase" =>
         \A c \in Span(from + done, SectorSize) :
           IF Busy THEN c \in DOMAIN operation /\ operation[c] = Erased ELSE flash[c] = Erased

\* So much of the range is written, and the rest is as the erase or the caller left it.
WriteInv ==
  Counted /\ pc \in WriteStage =>
    /\ \A c \in Span(from, done) : flash[c] = Final(c)
    /\ pc \in {"write", "program"} => \A c \in from + done .. from + size - 1 : flash[c] = Old(c)
    /\ pc = "poll_write" =>
         /\ DOMAIN operation \subseteq Span(from + done, WriteSize)
         /\ \A c \in from + done + WriteSize .. from + size - 1 : flash[c] = Old(c)
         /\ \A c \in Span(from + done, WriteSize) :
              IF Busy THEN c \in DOMAIN operation /\ operation[c] = Final(c) ELSE flash[c] = Final(c)

\* A rewrite that returns its length is complete, and so are those before it in a fill.
RewriteInv ==
  Counted =>
    /\ pc = "rewritten" /\ ret = rewrite[2] =>
         ~Busy /\ \A c \in from .. from + size - 1 : flash[c] = Want(c)
    /\ pc \in InCall /\ call.op = "fill" =>
         \A c \in call.start .. rewrite[1] - 1 : flash[c] = Want(c)

\* What a call that has returned says is true and stays true.
ReturnedInv ==
  Counted /\ Returned =>
    IF Rewriting THEN ret = call.length => ~Busy /\ \A c \in Asked : Holds(c)
                 ELSE /\ ret \in 0 .. call.length
                      /\ \A c \in Span(call.start, ret) : c \notin DOMAIN operation /\ Holds(c)

CountInv == PlaceInv /\ BufferInv /\ ReadyInv /\ EraseInv /\ WriteInv /\ RewriteInv /\ ReturnedInv

LEMMA WantSame ==
  ASSUME UNCHANGED <<call, calls, before>>
  PROVE  /\ Rewriting' = Rewriting /\ Trusted' = Trusted /\ Asked' = Asked
         /\ \A c : Want(c)' = Want(c) /\ Old(c)' = Old(c) /\ Final(c)' = Final(c)
BY DEF Rewriting, Trusted, Misaligned, Asked, AlignDown, AlignUp, Span, Want, Old, Final, Passed

LEMMA ProgramErased == \A x : Programmed(Erased, x) = x
BY DEF Programmed

(* The range of a call lies in the chip.                                      *)
LEMMA RangeInRom ==
  ASSUME IInv, PlaceInv, pc \in InCall
  PROVE  /\ from .. from + size - 1 \subseteq Asked /\ Asked \subseteq Cells
         /\ call.start .. from + size - 1 \subseteq Cells
         /\ from \in Nat /\ size \in Nat /\ done \in Nat
<1>1. /\ call.start \in Nat /\ call.length \in Nat /\ rewrite[1] \in Nat /\ rewrite[2] \in Nat
      /\ from \in Nat /\ size \in Nat /\ done \in Nat
  BY DEF IInv, TypeInv
<1>2. call \in Requests /\ call.start + call.length <= RomSize
  <2>1. call \in Requests
    BY DEF PlaceInv, InCall, Working, InSectors, InChunk
  <2>2. QED
    BY <2>1, FlashAssumption
<1>3. RomSize \in Nat /\ RomSize % SectorSize = 0
  BY FlashAssumption
<1>4. SectorSize \in Nat \ {0}
  BY Sizes
<1>5. AlignUp(RomSize) = RomSize
  <2>1. AlignDown(RomSize + SectorSize - 1) = RomSize
    <3>1. RomSize + SectorSize - 1 \in Nat
      BY <1>3, <1>4
    <3>2. PICK d \in Nat : d = AlignDown(RomSize + SectorSize - 1)
      BY <3>1, AlignedDown
    <3>3. d % SectorSize = 0 /\ d <= RomSize + SectorSize - 1 /\ RomSize + SectorSize - 1 < d + SectorSize
      BY <3>1, <3>2, AlignedDown
    <3>4. RomSize <= d
      BY <1>3, <1>4, <3>2, <3>3
    <3>5. ~(RomSize < d)
      BY <1>3, <1>4, <3>2, <3>3, WholeSectors
    <3>6. QED
      BY <1>3, <3>2, <3>4, <3>5
  <2>2. QED
    BY <2>1 DEF AlignUp
<1>6. AlignUp(call.start + call.length) \in Nat /\ AlignUp(call.start + call.length) <= RomSize
  <2>1. call.start + call.length \in Nat
    BY <1>1
  <2>2. QED
    BY <1>2, <1>3, <1>5, <2>1, AlignedUp
<1>7. AlignDown(call.start) \in Nat /\ AlignDown(call.start) <= call.start
  BY <1>1, AlignedDown
<1>8. CASE ~Rewriting
  <2>1. from = call.start /\ size = call.length
    BY <1>8 DEF PlaceInv
  <2>2. Asked = call.start .. call.start + call.length - 1
    BY <1>8 DEF Asked, Span
  <2>3. QED
    BY <1>1, <1>2, <1>3, <2>1, <2>2 DEF Cells
<1>9. CASE Rewriting
  <2>1. call.start <= rewrite[1] /\ rewrite[1] + rewrite[2] <= call.start + call.length
    BY <1>1, <1>9 DEF PlaceInv, IInv, FillInv, InCall, Rewriting
  <2>2. AlignDown(rewrite[1]) \in Nat /\ AlignDown(call.start) <= AlignDown(rewrite[1])
    BY <1>1, <2>1, AlignedDown
  <2>3. /\ AlignUp(rewrite[1] + rewrite[2]) \in Nat
        /\ AlignUp(rewrite[1] + rewrite[2]) <= AlignUp(call.start + call.length)
    <3>1. rewrite[1] + rewrite[2] \in Nat /\ call.start + call.length \in Nat
      BY <1>1
    <3>2. QED
      BY <2>1, <3>1, AlignedUp
  <2>4. from = AlignDown(rewrite[1]) /\ from + size = AlignUp(rewrite[1] + rewrite[2])
    BY <1>9, <2>2, <2>3 DEF PlaceInv, FullLength
  <2>5. Asked = AlignDown(call.start) .. AlignUp(call.start + call.length) - 1
    BY <1>9 DEF Asked
  <2>6. PICK a \in Nat : a = AlignDown(call.start)
    BY <1>7
  <2>7. PICK b \in Nat : b = from
    BY <1>1
  <2>8. PICK c \in Nat : c = AlignUp(rewrite[1] + rewrite[2])
    BY <2>3
  <2>9. PICK d \in Nat : d = AlignUp(call.start + call.length)
    BY <1>6
  <2>10. a <= b /\ c <= d /\ d <= RomSize /\ a <= call.start
    BY <1>6, <1>7, <2>2, <2>3, <2>4, <2>6, <2>7, <2>8, <2>9
  <2>11. Asked = a .. d - 1 /\ from .. from + size - 1 = b .. c - 1 /\ from + size = c
    <3>1. Asked = a .. d - 1
      BY <2>5, <2>6, <2>9
    <3>2. from + size = c
      BY <2>4, <2>8
    <3>3. QED
      BY <1>1, <2>7, <3>1, <3>2
  <2>12. b .. c - 1 \subseteq a .. d - 1 /\ a .. d - 1 \subseteq Cells
         /\ call.start .. c - 1 \subseteq Cells
    BY <1>1, <1>3, <2>10 DEF Cells
  <2>13. from .. from + size - 1 \subseteq Asked /\ Asked \subseteq Cells
    BY <1>1, <2>11, <2>12
  <2>14. call.start .. from + size - 1 \subseteq Cells
    BY <1>1, <2>11, <2>12
  <2>15. QED
    BY <1>1, <2>13, <2>14
<1>10. QED
  BY <1>8, <1>9

(* The steps that only go on in the driver.                                   *)
LEMMA MovesOn ==
  ASSUME IInv, CountInv,
         UNCHANGED <<flash, operation, call, rewrite, range, buffer, null, done, calls, before,
                     late, unread>>,
         \/ pc \in EraseStage /\ pc' \in {"erase_sector", "erased"}
         \/ pc \in WriteStage /\ pc' \in {"program", "written"},
         pc' = "erase_sector" => pc = "erase" /\ (Undisturbed => wel'),
         pc' = "program" => pc = "write" /\ (Undisturbed => wel'),
         pc' \in {"erased", "written"} => done < size \/ pc \in {"erase", "write"}
  PROVE  CountInv'
<1>1. /\ Rewriting' = Rewriting /\ Trusted' = Trusted /\ Undisturbed' = Undisturbed
      /\ Busy' = Busy
      /\ \A c : Want(c)' = Want(c) /\ Old(c)' = Old(c) /\ Final(c)' = Final(c)
  BY WantSame DEF Undisturbed, Busy
<1>2. /\ flash' = flash /\ operation' = operation /\ call' = call /\ rewrite' = rewrite
      /\ from' = from /\ size' = size /\ buffer' = buffer /\ null' = null /\ done' = done
      /\ calls' = calls
  BY DEF range
<1>3. /\ PlaceInv /\ BufferInv /\ ReadyInv /\ EraseInv /\ WriteInv /\ RewriteInv
      /\ pc \in InCall /\ pc' \in InCall
      /\ pc \in EraseStage => done % SectorSize = 0
  BY DEF CountInv, InCall, Working, InSectors, InChunk, EraseStage, WriteStage, IInv, RangeInv,
     PlaceInv
<1>4. PlaceInv'
  BY <1>1, <1>2, <1>3 DEF PlaceInv, EraseStage, WriteStage, FullLength, AlignDown, AlignUp
<1>5. BufferInv'
  BY <1>1, <1>2, <1>3 DEF BufferInv, Counted, EraseStage, WriteStage
<1>6. ReadyInv'
  <2> SUFFICES ASSUME Undisturbed
               PROVE  /\ pc' \in {"erase_sector", "program"} => ~Busy
                      /\ pc' \in {"erased", "written"} /\ done = size => ~Busy
                      /\ DOMAIN operation \subseteq from + done .. from + size - 1
    BY <1>1, <1>2, <1>3 DEF ReadyInv, EraseStage, WriteStage
  <2>1. DOMAIN operation \subseteq from + done .. from + size - 1
    BY <1>3 DEF ReadyInv
  <2>2. pc' \in {"erase_sector", "program"} => ~Busy
    BY <1>3 DEF ReadyInv
  <2>3. pc' \in {"erased", "written"} /\ done = size => ~Busy
    BY <1>3 DEF ReadyInv, IInv, TypeInv
  <2>4. QED
    BY <2>1, <2>2, <2>3
<1>7. EraseInv'
  BY <1>1, <1>2, <1>3 DEF EraseInv, EraseStage, WriteStage, Span
<1>8. WriteInv'
  BY <1>1, <1>2, <1>3 DEF WriteInv, Counted, EraseStage, WriteStage, Span
<1>9. RewriteInv' /\ ReturnedInv'
  BY <1>1, <1>2, <1>3 DEF RewriteInv, ReturnedInv, Returned, Counted
<1>10. QED
  BY <1>4, <1>5, <1>6, <1>7, <1>8, <1>9 DEF CountInv

LEMMA MovesCount ==
  ASSUME IInv, CountInv, EraseEnable \/ WriteEnable \/ EnableFails \/ PollFails \/ RangeDone
  PROVE  CountInv'
<1>1. UNCHANGED <<flash, operation, call, rewrite, range, buffer, null, done, calls, before,
                  late, unread>>
  BY DEF EraseEnable, WriteEnable, Enable, EnableFails, PollFails, RangeDone, chip, range, history
<1>2. CASE EraseEnable \/ WriteEnable
  <2>1. /\ \/ pc = "erase" /\ pc' = "erase_sector"
           \/ pc = "write" /\ pc' = "program"
        /\ wel' = (wel \/ ~Busy)
    BY <1>2 DEF EraseEnable, WriteEnable, Enable, Modifying
  <2>2. Undisturbed => wel'
    BY <2>1 DEF CountInv, ReadyInv
  <2>3. QED
    BY <1>1, <2>1, <2>2, MovesOn DEF EraseStage, WriteStage
<1>3. CASE EnableFails \/ PollFails \/ RangeDone
  <2>1. \/ pc \in EraseStage /\ pc' = "erased"
        \/ pc \in WriteStage /\ pc' = "written"
    BY <1>3 DEF EnableFails, PollFails, RangeDone, Modifying, Erasing, Writing, Broke, EraseStage,
       WriteStage
  <2>2. done < size \/ pc \in {"erase", "write"}
    BY <1>3 DEF EnableFails, PollFails, RangeDone, Modifying, Erasing, Writing, IInv, RangeInv,
       InChunk
  <2>3. QED
    BY <1>1, <2>1, <2>2, MovesOn
<1>4. QED
  BY <1>2, <1>3

LEMMA NotCounted ==
  ASSUME PlaceInv', ~Undisturbed'
  PROVE  CountInv'
BY DEF CountInv, BufferInv, ReadyInv, EraseInv, WriteInv, RewriteInv, ReturnedInv, Counted

(* What one command gives the chip to do.                                     *)
LEMMA SectorIs ==
  ASSUME IInv, pc = "erase_sector"
  PROVE  /\ DOMAIN EraseCells(from + done) = from + done .. from + done + SectorSize - 1
         /\ \A c \in DOMAIN EraseCells(from + done) : EraseCells(from + done)[c] = Erased
         /\ done + SectorSize <= size /\ EraseCells(from + done) # <<>>
<1>1. /\ from \in Nat /\ size \in Nat /\ done \in Nat /\ done < size
      /\ from % SectorSize = 0 /\ size % SectorSize = 0 /\ done % SectorSize = 0
  BY DEF IInv, TypeInv, RangeInv, Working, InSectors, InChunk
<1>2. done + SectorSize <= size /\ (from + done) % SectorSize = 0
  BY <1>1, WholeSectors
<1>3. AlignDown(from + done) = from + done
  BY <1>1, <1>2, AlignedDown
<1>4. EraseCells(from + done) = [c \in from + done .. from + done + SectorSize - 1 |-> Erased]
  BY <1>3 DEF EraseCells, AlignDown, Span
<1>5. from + done \in DOMAIN EraseCells(from + done)
  BY <1>1, <1>4, Sizes
<1>6. DOMAIN <<>> = {}
  OBVIOUS
<1>7. QED
  BY <1>2, <1>4, <1>5, <1>6

LEMMA PageIs ==
  ASSUME IInv, pc = "program", NEW n \in 1 .. WriteSize
  PROVE  LET op == ProgramCells(from + done, Data(n))
         IN  /\ DOMAIN op = from + done .. from + done + n - 1 /\ op # <<>>
             /\ \A c \in DOMAIN op : op[c] = Programmed(flash[c], buffer[c - from])
             /\ done + n <= size
<1>1. from \in Nat /\ size \in Nat /\ done \in Nat
  BY DEF IInv, TypeInv
<1>2. PICK a \in Nat : a = from + done
  BY <1>1
<1>3. /\ WriteSize \in Nat /\ done + WriteSize <= size
      /\ (a % PageSize) + WriteSize <= PageSize /\ n \in Nat
  BY <1>2, WriteSizeFits
<1>4. DOMAIN Data(n) = 0 .. n - 1 /\ \A i \in 0 .. n - 1 : Data(n)[i] = buffer[done + i]
  BY DEF Data
<1> DEFINE m == Cardinality(DOMAIN Data(n))
<1>5. m = n
  BY <1>3, <1>4, FS_Interval
<1>6. \A i \in 0 .. n - 1 : PageCell(a, i) = a + i
  <2>1. a % PageSize \in Nat
    BY <1>2, Sizes
  <2>2. QED
    BY <1>3, <2>1, PageCells, Sizes
<1>7. {PageCell(a, i) : i \in 0 .. n - 1} = a .. a + n - 1
  <2>1. ASSUME NEW c \in a .. a + n - 1
        PROVE  c - a \in 0 .. n - 1 /\ c = a + (c - a)
    BY <1>2, <1>3
  <2>2. \A i \in 0 .. n - 1 : a + i \in a .. a + n - 1
    BY <1>2, <1>3
  <2>3. QED
    BY <1>6, <2>1, <2>2
<1>8. ProgramCells(a, Data(n)) =
        [c \in {PageCell(a, i) : i \in 0 .. m - 1} |->
           Programmed(flash[c], Data(n)[CHOOSE i \in 0 .. m - 1 : PageCell(a, i) = c])]
  BY DEF ProgramCells
<1> HIDE DEF m
<1>9. ASSUME NEW c \in a .. a + n - 1
      PROVE  Data(n)[CHOOSE i \in 0 .. m - 1 : PageCell(a, i) = c] = buffer[c - from]
  <2>1. PICK k \in 0 .. n - 1 : k = c - a
    BY <1>2, <1>3
  <2>2. PageCell(a, k) = c
    BY <1>2, <1>3, <1>6, <2>1
  <2>3. PICK i : i = CHOOSE j \in 0 .. m - 1 : PageCell(a, j) = c
    OBVIOUS
  <2>4. i \in 0 .. n - 1 /\ PageCell(a, i) = c
    BY <1>5, <2>2, <2>3
  <2>5. i = k
    BY <1>2, <1>3, <1>6, <2>1, <2>4
  <2>6. done + k = c - from
    BY <1>1, <1>2, <1>3, <2>1
  <2>7. QED
    BY <1>4, <2>3, <2>5, <2>6
<1>10. a \in DOMAIN ProgramCells(a, Data(n)) /\ DOMAIN <<>> = {}
  BY <1>2, <1>3, <1>5, <1>7, <1>8
<1>11. done + n <= size
  BY <1>1, <1>3
<1>12. /\ DOMAIN ProgramCells(a, Data(n)) = a .. a + n - 1
       /\ \A c \in a .. a + n - 1 :
            ProgramCells(a, Data(n))[c] = Programmed(flash[c], buffer[c - from])
  BY <1>5, <1>7, <1>8, <1>9
<1>13. QED
  BY <1>2, <1>10, <1>11, <1>12

LEMMA TakesCommand ==
  ASSUME IInv, CountInv,
         UNCHANGED <<flash, call, rewrite, range, buffer, null, done, calls, before, late, unread>>,
         \/ pc = "erase_sector" /\ pc' \in {"poll_erase", "erased"}
         \/ pc = "program" /\ pc' \in {"poll_write", "written"},
         operation' # <<>>, DOMAIN operation' # {},
         DOMAIN operation' \subseteq from + done .. from + size - 1,
         pc' = "poll_erase" =>
           \A c \in Span(from + done, SectorSize) :
             c \in DOMAIN operation' /\ operation'[c] = Erased,
         pc' = "poll_write" /\ Counted =>
           /\ DOMAIN operation' = Span(from + done, WriteSize)
           /\ \A c \in DOMAIN operation' : operation'[c] = Final(c)
  PROVE  CountInv'
<1>1. /\ Rewriting' = Rewriting /\ Trusted' = Trusted /\ Undisturbed' = Undisturbed
      /\ Busy' /\ WriteSize' = WriteSize
      /\ \A c : Want(c)' = Want(c) /\ Old(c)' = Old(c) /\ Final(c)' = Final(c)
  BY WantSame DEF Undisturbed, Busy, WriteSize, range
<1>2. /\ flash' = flash /\ call' = call /\ rewrite' = rewrite
      /\ from' = from /\ size' = size /\ buffer' = buffer /\ null' = null /\ done' = done
      /\ calls' = calls
  BY DEF range
<1>3. /\ PlaceInv /\ BufferInv /\ ReadyInv /\ EraseInv /\ WriteInv /\ RewriteInv
      /\ pc \in InCall /\ pc' \in InCall /\ done < size /\ done \in Nat /\ size \in Nat /\ from \in Nat
      /\ pc = "erase_sector" => done % SectorSize = 0
  BY DEF CountInv, InCall, Working, InSectors, InChunk, EraseStage, WriteStage, IInv, RangeInv, TypeInv
<1>4. PlaceInv'
  BY <1>1, <1>2, <1>3 DEF PlaceInv, EraseStage, WriteStage, FullLength, AlignDown, AlignUp
<1>5. BufferInv'
  <2>1. Counted' <=> Counted
    BY <1>1 DEF Counted
  <2>2. /\ pc' # "read" /\ (pc' \in EraseStage => pc \in EraseStage)
        /\ (pc' \in WriteStage => pc \in WriteStage)
    BY DEF EraseStage, WriteStage
  <2>3. QED
    BY <1>1, <1>2, <1>3, <2>1, <2>2 DEF BufferInv
<1>6. ReadyInv'
  BY <1>1, <1>2, <1>3 DEF ReadyInv
<1>7. EraseInv'
  BY <1>1, <1>2, <1>3 DEF EraseInv, EraseStage, WriteStage, Span
<1>8. WriteInv'
  <2> SUFFICES ASSUME Counted, pc = "program"
               PROVE  /\ \A c \in Span(from, done) : flash[c] = Final(c)
                      /\ pc' = "poll_write" =>
                           /\ DOMAIN operation' \subseteq Span(from + done, WriteSize)
                           /\ \A c \in from + done + WriteSize .. from + size - 1 : flash[c] = Old(c)
                           /\ \A c \in Span(from + done, WriteSize) :
                                c \in DOMAIN operation' /\ operation'[c] = Final(c)
    BY <1>1, <1>2, <1>3 DEF WriteInv, Counted, WriteStage, Span
  <2>1. \A c \in Span(from, done) : flash[c] = Final(c)
    BY <1>3 DEF WriteInv, WriteStage
  <2>2. WriteSize \in Nat
    BY WriteSizeFits
  <2>3. \A c \in from + done .. from + size - 1 : flash[c] = Old(c)
    BY <1>3 DEF WriteInv, WriteStage
  <2>4. \A c \in from + done + WriteSize .. from + size - 1 : flash[c] = Old(c)
    BY <1>3, <2>2, <2>3
  <2>5. QED
    BY <2>1, <2>4
<1>9. RewriteInv'
  BY <1>1, <1>2, <1>3 DEF RewriteInv, Counted
<1>10. ReturnedInv'
  BY DEF ReturnedInv, Returned
<1>11. QED
  BY <1>4, <1>5, <1>6, <1>7, <1>8, <1>9, <1>10 DEF CountInv

LEMMA SendCounts ==
  ASSUME IInv, CountInv, SendErase \/ SendProgram \/ SendFails
  PROVE  CountInv'
<1>1. /\ UNCHANGED <<call, rewrite, range, buffer, null, done, calls, before, late, unread>>
      /\ flash' = flash /\ done < size
      /\ done \in Nat /\ size \in Nat /\ from \in Nat
  BY DEF SendErase, SendProgram, SendFails, Program, Accept, chip, range, history, IInv, RangeInv,
     TypeInv, InChunk
<1>2. \/ pc = "erase_sector" /\ pc' \in {"poll_erase", "erased"}
      \/ pc = "program" /\ pc' \in {"poll_write", "written"}
  BY DEF SendErase, SendProgram, SendFails, Broke
<1>3. CASE operation' = operation
  <2>1. CASE pc' \in {"erased", "written"}
    BY <1>1, <1>2, <1>3, <2>1, MovesOn DEF EraseStage, WriteStage
  <2>2. CASE pc' \notin {"erased", "written"}
    <3>1. \/ SendErase /\ pc = "erase_sector" /\ pc' = "poll_erase"
          \/ SendProgram /\ pc = "program" /\ pc' = "poll_write"
      BY <1>2, <2>2 DEF SendErase, SendProgram, SendFails, Broke
    <3>2. Undisturbed => ~Busy /\ wel
      BY <3>1 DEF CountInv, ReadyInv
    <3>3. PlaceInv'
      BY <1>1, <1>3, <3>1 DEF CountInv, PlaceInv, range, EraseStage, WriteStage, InCall, Working,
         InSectors, InChunk, Rewriting, FullLength, AlignDown, AlignUp
    <3>4. CASE ~Undisturbed
      <4>1. ~Undisturbed'
        BY <1>1, <3>4 DEF Undisturbed
      <4>2. QED
        BY <3>3, <4>1, NotCounted
    <3>5. CASE Undisturbed
      <4>1. CASE pc = "erase_sector"
        <5>1. operation' = EraseCells(from + done)
          BY <3>1, <3>2, <3>5, <4>1 DEF SendErase, Accept
        <5>2. QED
          BY <1>3, <3>2, <3>5, <4>1, <5>1, SectorIs DEF Busy
      <4>2. CASE pc = "program"
        <5>1. WriteSize \in 1 .. WriteSize /\ WriteSize # 0
          BY <4>2, WriteSizeFits
        <5>2. null /\ done = 0
          <6>1. ~(null /\ done = 0) => operation' = ProgramCells(from + done, Data(WriteSize))
            BY <3>1, <3>2, <3>5, <4>2, <5>1 DEF SendProgram, Program, Accept
          <6>2. QED
            BY <1>3, <3>2, <3>5, <4>2, <5>1, <6>1, PageIs DEF Busy
        <5>3. ~Counted /\ ~Counted'
          <6>1. Counted => ~null
            BY <4>2 DEF CountInv, BufferInv, WriteStage
          <6>2. Counted' = Counted
            BY <1>1, WantSame DEF Counted, Undisturbed
          <6>3. QED
            BY <5>2, <6>1, <6>2
        <5>4. ReadyInv' /\ EraseInv'
          BY <1>1, <1>3, <3>1, <4>2 DEF CountInv, ReadyInv, EraseInv, EraseStage, Undisturbed, Busy,
             range, InCall, Working, InSectors, InChunk
        <5>5. QED
          BY <3>3, <5>3, <5>4 DEF CountInv, BufferInv, WriteInv, RewriteInv, ReturnedInv
      <4>3. QED
        BY <1>2, <4>1, <4>2
    <3>6. QED
      BY <3>4, <3>5
  <2>3. QED
    BY <2>1, <2>2
<1>4. CASE pc = "erase_sector" /\ operation' = EraseCells(from + done)
  <2>1. /\ DOMAIN operation' = from + done .. from + done + SectorSize - 1
        /\ \A c \in DOMAIN operation' : operation'[c] = Erased
        /\ done + SectorSize <= size /\ operation' # <<>>
    BY <1>4, SectorIs
  <2>2. Span(from + done, SectorSize) = from + done .. from + done + SectorSize - 1
    BY DEF Span
  <2>3. DOMAIN operation' # {} /\ DOMAIN operation' \subseteq from + done .. from + size - 1
    BY <1>1, <2>1, Sizes
  <2>4. QED
    BY <1>1, <1>2, <1>4, <2>1, <2>2, <2>3, TakesCommand
<1>5. ASSUME pc = "program", NEW n \in 1 .. WriteSize,
             operation' = ProgramCells(from + done, Data(n)),
             pc' = "poll_write" => n = WriteSize
      PROVE  CountInv'
  <2>0. WriteSize \in Nat
    BY <1>5, WriteSizeFits
  <2>1. /\ DOMAIN operation' = from + done .. from + done + n - 1 /\ operation' # <<>>
        /\ \A c \in DOMAIN operation' : operation'[c] = Programmed(flash[c], buffer[c - from])
        /\ done + n <= size
    BY <1>5, PageIs
  <2>2. DOMAIN operation' # {} /\ DOMAIN operation' \subseteq from + done .. from + size - 1
    BY <1>1, <2>0, <2>1
  <2>3. ASSUME Counted, NEW c \in DOMAIN operation'
        PROVE  operation'[c] = Final(c)
    <3>1. flash[c] = Old(c)
      BY <1>5, <2>2, <2>3 DEF CountInv, WriteInv, WriteStage
    <3>2. c - from \in 0 .. size - 1 /\ from + (c - from) = c
      BY <1>1, <2>2
    <3>3. buffer[c - from] = Want(c)
      <4>1. buffer[c - from] = Want(from + (c - from))
        BY <1>5, <2>3, <3>2 DEF CountInv, BufferInv, WriteStage
      <4>2. QED
        BY <3>2, <4>1
    <3>4. QED
      BY <2>1, <3>1, <3>3 DEF Final
  <2>4. pc' = "poll_write" => DOMAIN operation' = Span(from + done, WriteSize)
    BY <1>5, <2>1 DEF Span
  <2>5. pc' # "poll_erase"
    BY <1>2, <1>5
  <2>6. QED
    BY <1>1, <1>2, <1>5, <2>1, <2>2, <2>3, <2>4, <2>5, TakesCommand
<1>6. \/ operation' = operation
      \/ pc = "erase_sector" /\ operation' = EraseCells(from + done)
      \/ pc = "program" /\ \E n \in 1 .. WriteSize :
           /\ operation' = ProgramCells(from + done, Data(n))
           /\ pc' = "poll_write" => n = WriteSize
  <2>1. pc = "program" => WriteSize \in 1 .. WriteSize
    BY WriteSizeFits
  <2>2. CASE SendErase
    BY <2>2 DEF SendErase, Accept, chip
  <2>3. CASE SendProgram
    BY <2>1, <2>3 DEF SendProgram, Program, Accept, chip
  <2>4. CASE SendFails
    <3>1. pc' # "poll_write"
      BY <2>4 DEF SendFails, Broke
    <3>2. QED
      BY <2>4, <3>1 DEF SendFails, Program, Accept, chip
  <2>5. QED
    BY <2>2, <2>3, <2>4
<1>7. QED
  BY <1>3, <1>4, <1>5, <1>6
(* A sector or a chunk of a page is done.                                     *)
LEMMA PollCounts ==
  ASSUME IInv, CountInv, PollDone
  PROVE  CountInv'
<1>1. /\ Rewriting' = Rewriting /\ Trusted' = Trusted /\ Undisturbed' = Undisturbed
      /\ \A c : Want(c)' = Want(c) /\ Old(c)' = Old(c) /\ Final(c)' = Final(c)
  BY WantSame DEF PollDone, Undisturbed, history
<1>2. /\ flash' = flash /\ operation' = operation /\ call' = call /\ rewrite' = rewrite
      /\ from' = from /\ size' = size /\ buffer' = buffer /\ null' = null /\ calls' = calls
      /\ ~Busy /\ ~Busy'
  BY DEF PollDone, range, chip, history, Busy
<1>3. /\ PlaceInv /\ BufferInv /\ ReadyInv /\ EraseInv /\ WriteInv /\ RewriteInv
      /\ pc \in InCall /\ pc' \in InCall
      /\ done < size /\ done \in Nat /\ size \in Nat /\ from \in Nat
  BY DEF CountInv, PollDone, Erasing, Writing, InCall, Working, InSectors, InChunk, IInv, RangeInv,
     TypeInv
<1>4. DOMAIN operation = {}
  BY <1>2 DEF Busy
<1>5. PICK n \in Nat \ {0} : /\ done' = done + n /\ done' <= size
                             /\ \/ pc = "poll_erase" /\ pc' = "erase" /\ n = SectorSize
                                \/ pc = "poll_write" /\ pc' = "write" /\ n = WriteSize
  <2>1. CASE Erasing
    <3>1. done % SectorSize = 0 /\ size % SectorSize = 0
      BY <2>1 DEF Erasing, IInv, RangeInv, InSectors
    <3>2. done + SectorSize <= size
      BY <1>3, <3>1, WholeSectors
    <3>3. ~Writing
      BY <2>1 DEF Erasing, Writing
    <3>4. QED
      BY <2>1, <3>2, <3>3, Sizes DEF PollDone, Erasing
  <2>2. CASE Writing
    BY <2>2, WriteSizeFits DEF PollDone, Writing
  <2>3. QED
    BY <2>1, <2>2 DEF PollDone
<1>6. /\ Span(from, done)' = Span(from, done) \cup Span(from + done, n)
      /\ (from + done .. from + size - 1)' = from + done + n .. from + size - 1
  <2>1. PICK a \in Nat : a = from + done
    BY <1>3
  <2>2. from .. a + n - 1 = (from .. a - 1) \cup (a .. a + n - 1)
    BY <1>3, <2>1
  <2>3. from' + done' = a + n
    BY <1>2, <1>3, <1>5, <2>1
  <2>4. QED
    <3>0. PICK b \in Nat : b = done' /\ b = done + n
      BY <1>3, <1>5
    <3>1. (from + done)' = a + n
      BY <2>3
    <3>2. Span(from, done)' = from .. a + n - 1
      <4>1. from' + done' - 1 = a + n - 1
        BY <1>2, <1>3, <2>1, <3>0
      <4>2. QED
        BY <1>2, <4>1 DEF Span
    <3>3. Span(from, done) = from .. a - 1 /\ Span(from + done, n) = a .. a + n - 1
      <4>1. from + done - 1 = a - 1 /\ (from + done) + n - 1 = a + n - 1
        BY <1>3, <2>1
      <4>2. QED
        BY <2>1, <4>1 DEF Span
    <3>4. from + done + n = a + n
      BY <2>1
    <3>5. QED
      BY <1>2, <2>2, <3>1, <3>2, <3>3, <3>4
<1>7. PlaceInv'
  BY <1>1, <1>2, <1>3, <1>5 DEF PlaceInv, EraseStage, WriteStage, FullLength, AlignDown, AlignUp
<1>8. BufferInv'
  BY <1>1, <1>2, <1>3, <1>5 DEF BufferInv, Counted, EraseStage, WriteStage
<1>9. ReadyInv'
  <2>1. DOMAIN operation' = {}
    BY <1>2, <1>4
  <2>2. QED
    BY <1>2, <1>5, <2>1 DEF ReadyInv
<1>10. EraseInv'
  <2> SUFFICES ASSUME Undisturbed, pc = "poll_erase"
               PROVE  \A c \in Span(from, done)' : flash[c] = Erased
    BY <1>1, <1>2, <1>5 DEF EraseInv, EraseStage
  <2>1. /\ \A c \in Span(from, done) : flash[c] = Erased
        /\ \A c \in Span(from + done, SectorSize) : flash[c] = Erased
    BY <1>2, <1>3 DEF EraseInv, EraseStage
  <2>2. QED
    BY <1>5, <1>6, <2>1
<1>11. WriteInv'
  <2> SUFFICES ASSUME Counted, pc = "poll_write"
               PROVE  /\ \A c \in Span(from, done)' : flash[c] = Final(c)
                      /\ \A c \in (from + done .. from + size - 1)' : flash[c] = Old(c)
    BY <1>1, <1>2, <1>5 DEF WriteInv, WriteStage, Counted
  <2>1. /\ \A c \in Span(from, done) : flash[c] = Final(c)
        /\ \A c \in Span(from + done, WriteSize) : flash[c] = Final(c)
        /\ \A c \in from + done + WriteSize .. from + size - 1 : flash[c] = Old(c)
    BY <1>2, <1>3 DEF WriteInv, WriteStage
  <2>2. QED
    BY <1>5, <1>6, <2>1
<1>12. RewriteInv'
  BY <1>1, <1>2, <1>3, <1>5 DEF RewriteInv, Counted
<1>13. ReturnedInv'
  BY <1>5 DEF ReturnedInv, Returned
<1>14. QED
  BY <1>7, <1>8, <1>9, <1>10, <1>11, <1>12, <1>13 DEF CountInv

LEMMA AlignedSpan ==
  ASSUME NEW start \in Nat, NEW length \in Nat,
         start % SectorSize = 0, length % SectorSize = 0
  PROVE  AlignDown(start) = start /\ AlignUp(start + length) = start + length
         /\ FullLength(start, length) = length
<1>1. start + length \in Nat /\ (start + length) % SectorSize = 0
  BY WholeSectors
<1>2. AlignDown(start) = start
  BY AlignedDown
<1>3. AlignUp(start + length) = start + length
  <2>1. PICK n \in Nat : n = start + length
    BY <1>1
  <2>2. PICK d \in Nat : d = AlignUp(n)
    BY AlignedUp
  <2>3. d % SectorSize = 0 /\ n <= d
    BY <2>2, AlignedUp
  <2>4. d < n + SectorSize
    <3>1. n + SectorSize - 1 \in Nat
      BY Sizes
    <3>2. d <= n + SectorSize - 1
      BY <2>2, <3>1, AlignedDown DEF AlignUp
    <3>3. QED
      BY <3>2, Sizes
  <2>5. ~(n < d)
    <3>1. n < d => n + SectorSize <= d
      BY <1>1, <2>1, <2>3, WholeSectors
    <3>2. QED
      BY <2>4, <3>1, Sizes
  <2>6. QED
    BY <2>1, <2>2, <2>3, <2>5
<1>4. QED
  BY <1>2, <1>3 DEF FullLength

(* The sectors' old bytes around those of the caller, or a read that failed.  *)
LEMMA ReadCounts ==
  ASSUME IInv, CountInv, ReadBack \/ ReadFails
  PROVE  CountInv'
<1>1. /\ Rewriting' = Rewriting /\ Trusted' = Trusted
      /\ \A c : Want(c)' = Want(c) /\ Old(c)' = Old(c) /\ Final(c)' = Final(c)
  BY WantSame DEF ReadBack, ReadFails, history
<1>2. /\ flash' = flash /\ operation' = operation /\ call' = call /\ rewrite' = rewrite
      /\ from' = from /\ size' = size /\ done' = done /\ calls' = calls /\ before' = before
      /\ late' = late /\ pc = "read" /\ pc' \in {"erase", "died"} /\ Busy' = Busy
  BY DEF ReadBack, ReadFails, range, chip, history, Busy
<1>3. /\ PlaceInv /\ BufferInv /\ ReadyInv /\ EraseInv /\ WriteInv /\ RewriteInv
      /\ pc \in InCall /\ Rewriting
      /\ done \in Nat /\ size \in Nat /\ from \in Nat /\ rewrite[1] \in Nat /\ rewrite[2] \in Nat
  BY <1>2 DEF CountInv, InCall, Working, InSectors, InChunk, IInv, TypeInv, PlaceInv
<1>4. PlaceInv'
  BY <1>1, <1>2, <1>3 DEF PlaceInv, EraseStage, WriteStage, FullLength, AlignDown, AlignUp, InCall,
     Working, InSectors, InChunk, Rewriting
<1>5. CASE ReadFails
  <2>1. ~Undisturbed'
    BY <1>5 DEF ReadFails, Undisturbed
  <2>2. QED
    BY <1>4, <2>1, NotCounted
<1>6. CASE ReadBack
  <2>1. /\ buffer' = Merged([i \in 0 .. size - 1 |-> IF Busy THEN Mixed ELSE flash[from + i]])
        /\ pc' = "erase" /\ null' = null /\ unread' = unread /\ Undisturbed' = Undisturbed
    BY <1>6 DEF ReadBack, history, Undisturbed
  <2>2. ASSUME Counted
        PROVE  ~null /\ \A i \in 0 .. size - 1 : buffer'[i] = Want(from + i)
    <3>1. /\ ~Busy /\ ~null /\ \A j \in 0 .. rewrite[2] - 1 : buffer[j] = Want(rewrite[1] + j)
          /\ call.op = "rewrite" => \A c \in Cells : flash[c] = before[c]
      BY <1>2, <1>3, <2>2 DEF BufferInv, ReadyInv, PlaceInv, Counted
    <3>2. ASSUME NEW i \in 0 .. size - 1
          PROVE  buffer'[i] = Want(from + i)
      <4> DEFINE k == i - (rewrite[1] - from)
      <4>1. buffer'[i] = IF k \in 0 .. rewrite[2] - 1 THEN buffer[k] ELSE flash[from + i]
        BY <2>1, <3>1 DEF Merged
      <4>2. rewrite[1] + k = from + i
        BY <1>3
      <4>3. CASE k \in 0 .. rewrite[2] - 1
        <5>1. buffer[k] = Want(rewrite[1] + k)
          BY <3>1, <4>3
        <5>2. QED
          BY <4>1, <4>2, <4>3, <5>1
      <4>4. CASE k \notin 0 .. rewrite[2] - 1
        <5>1. call.op = "rewrite" /\ rewrite = <<call.start, call.length>>
          <6>1. call.op # "fill"
            <7>1. call.op = "fill" => from = rewrite[1] /\ size = rewrite[2]
              BY <1>3, AlignedSpan DEF PlaceInv
            <7>2. QED
              BY <1>3, <4>4, <7>1
          <6>2. QED
            BY <1>3, <6>1 DEF PlaceInv, Rewriting
        <5>2. from + i \in Cells
          <6>1. from + i \in from .. from + size - 1
            BY <1>3
          <6>2. QED
            BY <1>3, <6>1, RangeInRom
        <5>3. from + i \notin Span(call.start, call.length)
          <6>1. rewrite[1] = call.start /\ rewrite[2] = call.length
            BY <5>1
          <6>2. QED
            BY <1>3, <4>4, <6>1 DEF Span
        <5>4. QED
          BY <1>3, <3>1, <4>1, <4>4, <5>1, <5>2, <5>3 DEF Want
      <4>5. QED
        BY <4>3, <4>4
    <3>3. QED
      BY <3>1, <3>2
  <2>3. BufferInv'
    BY <1>1, <1>2, <2>1, <2>2 DEF BufferInv, Counted, WriteStage
  <2>4. ReadyInv'
    BY <1>2, <1>3, <2>1 DEF ReadyInv, InCall, Working, InSectors, InChunk
  <2>5. EraseInv'
    <3>1. Span(from, 0) = {}
      BY <1>3 DEF Span
    <3>2. done = 0
      BY <1>2, <1>3 DEF PlaceInv
    <3>3. QED
      BY <1>2, <2>1, <3>1, <3>2 DEF EraseInv
  <2>6. WriteInv' /\ ReturnedInv'
    BY <2>1 DEF WriteInv, WriteStage, ReturnedInv, Returned
  <2>7. RewriteInv'
    BY <1>1, <1>2, <1>3, <2>1 DEF RewriteInv, Counted
  <2>8. QED
    BY <1>4, <2>3, <2>4, <2>5, <2>6, <2>7 DEF CountInv
<1>7. QED
  BY <1>5, <1>6
(* The beginning of a rewrite, by a call or for the next part of a fill.      *)
LEMMA RewriteBegins ==
  ASSUME TypeInv', NEW start \in Nat, NEW length \in Nat, NEW data, Rewrite(start, length, data),
         call' \in Requests, calls' \in Nat \ {0}, call'.op \in {"rewrite", "fill"},
         IF call'.op = "fill" THEN start % SectorSize = 0 /\ length % SectorSize = 0
                              ELSE start = call'.start /\ length = call'.length,
         done' = 0, flash' = flash, operation' = operation,
         DOMAIN operation = {} => operation = <<>>, Undisturbed' => ~Busy,
         Counted' => \A i \in 0 .. length - 1 : data[i] = Want(start + i)',
         Counted' /\ call'.op = "rewrite" => \A c \in Cells : flash[c] = before'[c],
         Counted' /\ call'.op = "fill" => \A c \in call'.start .. start - 1 : flash[c] = Want(c)'
  PROVE  CountInv'
<1>1. /\ rewrite' = <<start, length>> /\ from' = AlignDown(start)
      /\ size' = FullLength(start, length) /\ null' = FALSE
      /\ pc' = IF Merges(start, length) THEN "read" ELSE "erase"
      /\ buffer' = [i \in 0 .. size' - 1 |-> IF i < length THEN data[i] ELSE Behind(i)]
  BY DEF Rewrite
<1>2. Rewriting' /\ Busy' = Busy /\ size' \in Nat /\ from' \in Nat /\ start + length \in Nat
  BY DEF Rewriting, Busy, TypeInv
<1>3. start % SectorSize = 0 /\ length % SectorSize = 0 => from' = start /\ size' = length
  BY <1>1, AlignedSpan
<1>4. AlignDown(start) \in Nat /\ AlignUp(start + length) \in Nat
      /\ AlignDown(start) <= start /\ start + length <= AlignUp(start + length)
  BY <1>2, AlignedDown, AlignedUp
<1>5. PlaceInv'
  BY <1>1, <1>2 DEF PlaceInv, EraseStage, WriteStage, FullLength, AlignDown, AlignUp, InCall
<1>6. BufferInv'
  <2>0. rewrite'[1] = start /\ rewrite'[2] = length /\ pc' \in {"read", "erase"}
    BY <1>1
  <2>00. \A i : Want(rewrite[1] + i)' = Want(start + i)'
    BY <2>0 DEF Want, Passed, Rewriting, Span
  <2> SUFFICES ASSUME Counted'
               PROVE  /\ pc' = "read" => \A i \in 0 .. length - 1 : buffer'[i] = Want(start + i)'
                      /\ pc' = "erase" => \A i \in 0 .. size' - 1 : buffer'[i] = Want(from + i)'
    BY <1>1, <1>2, <2>0, <2>00 DEF BufferInv, EraseStage, WriteStage
  <2>1. length <= size'
    BY <1>1, <1>4 DEF FullLength
  <2>2. \A i \in 0 .. length - 1 : i \in 0 .. size' - 1 /\ i < length
    <3>1. PICK n \in Nat : n = size'
      BY <1>2
    <3>2. length <= n
      BY <2>1, <3>1
    <3>3. \A i \in 0 .. length - 1 : i \in 0 .. n - 1 /\ i < length
      BY <3>2
    <3>4. QED
      BY <3>1, <3>3
  <2>3. \A i \in 0 .. length - 1 : buffer'[i] = Want(start + i)'
    <3>1. \A i \in 0 .. length - 1 : buffer'[i] = data[i]
      BY <1>1, <2>2
    <3>2. \A i \in 0 .. length - 1 : data[i] = Want(start + i)'
      OBVIOUS
    <3>3. QED
      BY <3>1, <3>2
  <2>4. ASSUME pc' = "erase"
        PROVE  start % SectorSize = 0 /\ length % SectorSize = 0
    <3>1. AlignDown(start) = start /\ AlignUp(start + length) = FullLength(start, length)
      BY <1>1, <2>4 DEF Merges
    <3>2. start = 0
      BY <1>4, <3>1 DEF FullLength
    <3>3. call'.op = "rewrite" => ~Misaligned(call')
      BY <3>2 DEF Counted, Trusted
    <3>4. QED
      BY <3>3 DEF Misaligned
  <2>5. QED
    <3>1. CASE pc' = "read"
      BY <2>3, <3>1
    <3>2. CASE pc' = "erase"
      <4>1. from' = start /\ size' = length
        BY <1>3, <2>4, <3>2
      <4>2. \A i : Want(from + i)' = Want(start + i)'
        BY <4>1 DEF Want, Passed, Rewriting, Span
      <4>3. QED
        BY <2>3, <3>2, <4>1, <4>2
    <3>3. QED
      BY <3>1, <3>2
<1>7. ReadyInv'
  <2>1. Undisturbed' => ~Busy' /\ DOMAIN operation' = {}
    BY <1>2 DEF Busy
  <2>2. QED
    BY <1>1, <2>1 DEF ReadyInv
<1>8. EraseInv'
  <2>1. Span(from, done)' = {}
    BY <1>2 DEF Span
  <2>2. QED
    BY <1>1, <2>1 DEF EraseInv
<1>9. RewriteInv'
  BY <1>1 DEF RewriteInv
<1>10. WriteInv' /\ ReturnedInv'
  BY <1>1 DEF WriteInv, WriteStage, ReturnedInv, Returned
<1>11. QED
  BY <1>5, <1>6, <1>7, <1>8, <1>9, <1>10 DEF CountInv

(* A call that is no rewrite takes its range and its bytes as they are.       *)
LEMMA CallBegins ==
  ASSUME TypeInv', call' \in Requests, calls' \in Nat \ {0}, ~Rewriting',
         from' = call'.start, size' = call'.length,
         done' = 0, flash' = flash, operation' = operation, before' = flash,
         DOMAIN operation = {} => operation = <<>>, Undisturbed' => ~Busy,
         \/ /\ pc' = "write" /\ call'.op = "write" /\ null' = FALSE
            /\ buffer' = Bytes(call'.length)
         \/ pc' = "erase" /\ call'.op \in {"erase", "fill_erased"}
         \/ pc' = "idle" /\ ret' = -1
  PROVE  CountInv'
<1>1. size' \in Nat /\ from' \in Nat /\ Busy' = Busy
  BY DEF TypeInv, Busy
<1>2. Rewriting' = (call'.op \in {"rewrite", "fill"})
  BY DEF Rewriting
<1>3. PlaceInv'
  BY <1>1, <1>2 DEF PlaceInv, EraseStage, WriteStage, InCall
<1>4. BufferInv'
  <2> SUFFICES ASSUME pc' = "write"
               PROVE  ~null' /\ \A i \in 0 .. size' - 1 : buffer'[i] = Want(from + i)'
    BY <1>2 DEF BufferInv, WriteStage
  <2>1. ASSUME NEW i \in 0 .. size' - 1
        PROVE  buffer'[i] = Want(from + i)'
    <3>1. buffer'[i] = <<calls', i>>
      BY DEF Bytes
    <3>2. (from' + i) - call'.start = i
      BY <1>1
    <3>3. Want(from + i)' = Passed(from + i)'
      BY DEF Want
    <3>4. Passed(from + i)' = <<calls', (from' + i) - call'.start>>
      BY <1>2 DEF Passed
    <3>5. QED
      BY <3>1, <3>2, <3>3, <3>4
  <2>2. QED
    BY <2>1
<1>5. ReadyInv'
  <2>1. Undisturbed' => ~Busy' /\ DOMAIN operation' = {}
    BY <1>1 DEF Busy
  <2>2. QED
    BY <2>1 DEF ReadyInv
<1>6. Span(from, done)' = {}
  BY <1>1 DEF Span
<1>7. EraseInv'
  BY <1>6 DEF EraseInv
<1>8. WriteInv'
  <2>1. \A c : Old(c)' = flash[c]
    BY DEF Old
  <2>2. QED
    BY <1>6, <2>1 DEF WriteInv, WriteStage
<1>9. RewriteInv'
  BY <1>2 DEF RewriteInv
<1>10. ReturnedInv'
  BY DEF ReturnedInv, Returned
<1>11. QED
  BY <1>3, <1>4, <1>5, <1>7, <1>8, <1>9, <1>10 DEF CountInv

LEMMA CallerCounts ==
  ASSUME IInv, CountInv, Caller
  PROVE  CountInv'
<1>1. PICK r \in Requests : CallWrite(r) \/ CallErase(r) \/ CallRewrite(r)
                             \/ CallFill(r) \/ CallFillErased(r)
  BY DEF Caller
<1>2. /\ r.start \in Nat /\ r.length \in Nat
      /\ r.op = "fill" => r.start % SectorSize = 0 /\ r.length % SectorSize = 0
  BY FlashAssumption
<1>3. /\ call' = r /\ done' = 0 /\ calls' = calls + 1 /\ flash' = flash /\ operation' = operation
      /\ before' = flash /\ late' = DOMAIN operation
  BY <1>1 DEF CallWrite, CallErase, CallRewrite, CallFill, CallFillErased, Incoming, chip
<1>4. TypeInv'
  BY CallerKeeps
<1>5. DOMAIN operation = {} => operation = <<>>
  BY DEF CountInv, PlaceInv
<1>6. Undisturbed' => ~Busy
  BY <1>3, <1>5 DEF Undisturbed, Busy
<1>7. calls' \in Nat \ {0} /\ call' \in Requests
  BY <1>3 DEF CountInv, PlaceInv
<1>8. \A c \in Span(r.start, r.length) : Want(c)' = Passed(c)'
  BY <1>3 DEF Want
<1>9. CASE CallRewrite(r)
  <2>1. r.op = "rewrite" /\ Rewrite(r.start, r.length, Bytes(r.length))
    BY <1>9 DEF CallRewrite, Incoming
  <2>2. ASSUME NEW i \in 0 .. r.length - 1
        PROVE  Bytes(r.length)[i] = Want(r.start + i)'
    <3>1. r.start + i \in Span(r.start, r.length) /\ (r.start + i) - r.start = i
      BY <1>2 DEF Span
    <3>2. Passed(r.start + i)' = <<calls', (r.start + i) - r.start>>
      BY <1>3, <2>1 DEF Passed
    <3>3. QED
      BY <1>8, <3>1, <3>2 DEF Bytes
  <2> DEFINE data == Bytes(r.length)
  <2>3. \A i \in 0 .. r.length - 1 : data[i] = Want(r.start + i)'
    BY <2>2
  <2>4. Rewrite(r.start, r.length, data)
    BY <2>1
  <2> HIDE DEF data
  <2>5. QED
    BY <1>2, <1>3, <1>4, <1>5, <1>6, <1>7, <2>1, <2>3, <2>4, RewriteBegins
<1>10. CASE CallFill(r)
  <2> DEFINE length == Min({HeapSize, r.length})
             data == FillBuffer(calls')
  <2>1. r.op = "fill" /\ Rewrite(r.start, length, data)
    BY <1>10 DEF CallFill, Incoming
  <2>2. /\ length \in Nat /\ length <= r.length /\ length <= HeapSize
        /\ length \in {HeapSize, r.length}
    BY <1>2, Sizes, Smaller
  <2> HIDE DEF length
  <2>3. r.start % SectorSize = 0 /\ length % SectorSize = 0
    BY <1>2, <2>1, <2>2, FlashAssumption
  <2>4. ASSUME NEW i \in 0 .. length - 1
        PROVE  data[i] = Want(r.start + i)'
    <3>1. r.start + i \in Span(r.start, r.length) /\ i \in 0 .. HeapSize - 1
      BY <1>2, <2>2, Sizes DEF Span
    <3>2. Passed(r.start + i)' = <<calls', 0>>
      BY <1>3, <2>1 DEF Passed
    <3>3. QED
      BY <1>8, <3>1, <3>2 DEF FillBuffer
  <2>5. r.start .. r.start - 1 = {}
    BY <1>2
  <2> HIDE DEF data
  <2>6. QED
    BY <1>2, <1>3, <1>4, <1>5, <1>6, <1>7, <2>1, <2>2, <2>3, <2>4, <2>5, RewriteBegins
<1>11. CASE CallWrite(r) \/ CallErase(r) \/ CallFillErased(r)
  <2>1. /\ from' = r.start /\ size' = r.length /\ ~Rewriting'
        /\ \/ /\ pc' = "write" /\ r.op = "write" /\ null' = FALSE
              /\ buffer' = Bytes(r.length)
           \/ pc' = "erase" /\ r.op \in {"erase", "fill_erased"}
           \/ pc' = "idle" /\ ret' = -1
    BY <1>3, <1>11 DEF CallWrite, CallErase, CallFillErased, Incoming, Rewriting
  <2>2. QED
    BY <1>3, <1>4, <1>5, <1>6, <1>7, <2>1, CallBegins
<1>12. QED
  BY <1>1, <1>9, <1>10, <1>11
(* A fill goes on behind the part that it has rewritten.                      *)
LEMMA FillNextCounts ==
  ASSUME IInv, CountInv, FillNext
  PROVE  CountInv'
<1>1. /\ pc = "rewritten" /\ call.op = "fill" /\ ret = rewrite[2] /\ Filled < call.length
      /\ Rewrite(call.start + Filled, Min({HeapSize, call.length - Filled}), FillBuffer(calls))
      /\ done' = 0 /\ flash' = flash /\ operation' = operation /\ call' = call /\ calls' = calls
      /\ before' = before /\ late' = late /\ unread' = unread
  BY DEF FillNext, chip, history
<1>2. /\ call.start \in Nat /\ call.length \in Nat /\ rewrite[1] \in Nat /\ rewrite[2] \in Nat
      /\ call.start <= rewrite[1] /\ TypeInv'
  BY <1>1, FillNextKeeps DEF IInv, TypeInv, FillInv
<1>3. /\ PlaceInv /\ RewriteInv /\ pc \in InCall /\ pc # "idle"
      /\ rewrite[1] % SectorSize = 0 /\ rewrite[2] % SectorSize = 0
      /\ from = AlignDown(rewrite[1]) /\ size = FullLength(rewrite[1], rewrite[2])
  BY <1>1 DEF CountInv, PlaceInv, InCall, Rewriting
<1>4. call \in Requests /\ calls \in Nat \ {0}
  BY <1>3 DEF PlaceInv
<1>5. call.start % SectorSize = 0 /\ call.length % SectorSize = 0
  BY <1>1, <1>4, FlashAssumption
<1>6. PICK w \in Nat, n \in Nat, f \in Nat, l \in Nat :
        w = rewrite[1] /\ n = rewrite[2] /\ f = call.start /\ l = call.length
  BY <1>2
<1>7. PICK start \in Nat : start = w + n
  OBVIOUS
<1>8. Filled = start - f /\ start - f \in Nat /\ call.start + Filled = start
  <2>1. Filled = w + n - f
    BY <1>6 DEF Filled
  <2>2. f <= w
    BY <1>2, <1>6
  <2>3. QED
    BY <1>6, <1>7, <2>1, <2>2
<1>9. PICK rest \in Nat : rest = call.length - Filled /\ start + rest = f + l
  BY <1>1, <1>6, <1>8
<1>10. start % SectorSize = 0 /\ rest % SectorSize = 0
  <2>1. start % SectorSize = 0
    BY <1>3, <1>6, <1>7, WholeSectors
  <2>2. (start - f) % SectorSize = 0
    BY <1>5, <1>6, <2>1, WholeSectors
  <2>3. (l - (start - f)) % SectorSize = 0
    BY <1>5, <1>6, <1>8, <2>2, WholeSectors
  <2>4. QED
    BY <1>6, <1>8, <1>9, <2>1, <2>3
<1>11. PICK length \in Nat : /\ length = Min({HeapSize, rest}) /\ length <= rest
                             /\ length <= HeapSize /\ length % SectorSize = 0
  <2>1. Min({HeapSize, rest}) \in {HeapSize, rest} /\ Min({HeapSize, rest}) \in Nat
        /\ Min({HeapSize, rest}) <= rest /\ Min({HeapSize, rest}) <= HeapSize
    BY Sizes, Smaller
  <2>2. QED
    BY <1>10, <2>1, FlashAssumption
<1>12. PICK data : data = FillBuffer(calls)
  OBVIOUS
<1>13. Rewrite(start, length, data)
  BY <1>1, <1>8, <1>9, <1>11, <1>12
<1>14. Undisturbed' = Undisturbed /\ Counted' = Counted /\ \A c : Want(c)' = Want(c)
  BY <1>1, WantSame DEF Undisturbed, Counted
<1>15. ASSUME NEW i \in 0 .. length - 1
       PROVE  data[i] = Want(start + i)'
  <2>1. start + i \in Span(call.start, call.length) /\ i \in 0 .. HeapSize - 1
    <3>1. start + i \in f .. f + l - 1
      BY <1>8, <1>9, <1>11
    <3>2. QED
      BY <1>6, <1>11, <3>1, Sizes DEF Span
  <2>2. Passed(start + i) = <<calls, 0>>
    BY <1>1 DEF Passed
  <2>3. Want(start + i)' = Want(start + i)
    BY <1>14
  <2>4. QED
    BY <1>12, <2>1, <2>2, <2>3 DEF FillBuffer, Want
<1>16. Undisturbed => Counted
  BY <1>1 DEF Counted, Trusted
<1>17. Undisturbed' => ~Busy
  BY <1>1, <1>3, <1>14, <1>16 DEF RewriteInv
<1>18. ASSUME Counted', NEW c \in call'.start .. start - 1
       PROVE  flash[c] = Want(c)'
  <2>1. from = rewrite[1] /\ size = rewrite[2]
    BY <1>2, <1>3, AlignedSpan
  <2>2. c \in f .. w - 1 \/ c \in w .. w + n - 1
    BY <1>1, <1>6, <1>7
  <2>3. c \in call.start .. rewrite[1] - 1 \/ c \in from .. from + size - 1
    BY <1>6, <2>1, <2>2
  <2>4. QED
    BY <1>1, <1>3, <1>14, <1>18, <2>3 DEF RewriteInv
<1>19. DOMAIN operation = {} => operation = <<>>
  BY <1>3 DEF PlaceInv
<1>20. call' \in Requests /\ calls' \in Nat \ {0} /\ call'.op = "fill"
  BY <1>1, <1>4
<1>21. QED
  BY <1>1, <1>2, <1>10, <1>11, <1>13, <1>15, <1>17, <1>18, <1>19, <1>20, RewriteBegins

(* flash_rewrite_ops between its three stages.                                *)
LEMMA StagesCount ==
  ASSUME IInv, CountInv, RewriteErased \/ RewriteWritten
  PROVE  CountInv'
<1>1. /\ Rewriting' = Rewriting /\ Trusted' = Trusted /\ Undisturbed' = Undisturbed
      /\ \A c : Want(c)' = Want(c) /\ Old(c)' = Old(c) /\ Final(c)' = Final(c)
  BY WantSame DEF RewriteErased, RewriteWritten, Undisturbed, history
<1>2. /\ flash' = flash /\ operation' = operation /\ call' = call /\ rewrite' = rewrite
      /\ from' = from /\ size' = size /\ buffer' = buffer /\ null' = null /\ calls' = calls
      /\ Busy' = Busy /\ Rewriting
  BY DEF RewriteErased, RewriteWritten, range, chip, history, Busy
<1>3. /\ PlaceInv /\ BufferInv /\ ReadyInv /\ EraseInv /\ WriteInv /\ RewriteInv
      /\ pc \in InCall /\ pc # "idle"
      /\ done \in Nat /\ size \in Nat /\ from \in Nat /\ rewrite[1] \in Nat /\ rewrite[2] \in Nat
  BY DEF CountInv, RewriteErased, RewriteWritten, InCall, Working, InSectors, InChunk, IInv, TypeInv
<1>4. CASE RewriteErased /\ done = size
  <2>1. pc = "erased" /\ pc' = "write" /\ done' = 0
    BY <1>4 DEF RewriteErased
  <2>2. Undisturbed => ~Busy /\ DOMAIN operation = {}
    BY <1>3, <1>4, <2>1 DEF ReadyInv, Busy
  <2>3. from .. from + size - 1 = Span(from, size) /\ Span(from, 0) = {} /\ from + 0 = from
    BY <1>3 DEF Span
  <2>4. PlaceInv'
    BY <1>1, <1>2, <1>3, <2>1 DEF PlaceInv, EraseStage, WriteStage, FullLength, AlignDown, AlignUp
  <2>5. BufferInv'
    BY <1>1, <1>2, <1>3, <2>1 DEF BufferInv, Counted, EraseStage, WriteStage
  <2>6. ReadyInv'
    BY <1>1, <1>2, <2>1, <2>2 DEF ReadyInv
  <2>7. WriteInv'
    <3>1. Undisturbed => \A c \in from .. from + size - 1 : flash[c] = Erased
      BY <1>3, <1>4, <2>1, <2>3 DEF EraseInv, EraseStage
    <3>2. \A c : Old(c) = Erased
      BY <1>2 DEF Old
    <3>3. QED
      BY <1>1, <1>2, <2>1, <2>3, <3>1, <3>2 DEF WriteInv, Counted
  <2>8. RewriteInv'
    BY <1>1, <1>2, <1>3, <2>1 DEF RewriteInv, Counted
  <2>9. EraseInv' /\ ReturnedInv'
    BY <2>1 DEF EraseInv, EraseStage, ReturnedInv, Returned
  <2>10. QED
    BY <2>4, <2>5, <2>6, <2>7, <2>8, <2>9 DEF CountInv
<1>5. ASSUME done' = done, pc' = "rewritten",
             Counted /\ ret' = rewrite[2] =>
               ~Busy /\ \A c \in from .. from + size - 1 : flash[c] = Want(c)
      PROVE  CountInv'
  <2>1. PlaceInv'
    BY <1>1, <1>2, <1>3, <1>5 DEF PlaceInv, EraseStage, WriteStage, FullLength, AlignDown, AlignUp
  <2>2. BufferInv' /\ EraseInv' /\ WriteInv' /\ ReturnedInv'
    BY <1>5 DEF BufferInv, EraseInv, WriteInv, EraseStage, WriteStage, ReturnedInv, Returned
  <2>3. ReadyInv'
    BY <1>1, <1>2, <1>3, <1>5 DEF ReadyInv
  <2>4. RewriteInv'
    BY <1>1, <1>2, <1>3, <1>5 DEF RewriteInv, Counted
  <2>5. QED
    BY <2>1, <2>2, <2>3, <2>4 DEF CountInv
<1>6. CASE RewriteErased /\ done # size
  <2>1. pc = "erased" /\ pc' = "rewritten" /\ done' = done /\ ret' = done
    BY <1>6 DEF RewriteErased
  <2>2. ~(Counted /\ done = rewrite[2])
    <3> SUFFICES ASSUME Counted, done = rewrite[2]
                 PROVE  rewrite[1] % SectorSize = 0
      <4>1. done % SectorSize = 0 /\ size = FullLength(rewrite[1], rewrite[2])
        BY <1>2, <1>3, <2>1 DEF PlaceInv
      <4>2. QED
        BY <1>3, <1>6, <4>1, AlignedSpan
    <3>1. CASE call.op = "fill"
      BY <1>2, <1>3, <3>1 DEF PlaceInv
    <3>2. CASE call.op = "rewrite"
      <4>1. rewrite[1] = call.start /\ rewrite[2] = call.length
        BY <1>2, <1>3, <3>2 DEF PlaceInv
      <4>2. call.length % SectorSize = 0
        BY <1>3, <2>1, <4>1 DEF PlaceInv
      <4>3. QED
        BY <3>2, <4>1, <4>2 DEF Counted, Trusted, Misaligned
    <3>3. QED
      BY <1>2, <3>1, <3>2 DEF Rewriting
  <2>3. QED
    BY <1>5, <2>1, <2>2
<1>7. CASE RewriteWritten
  <2>1. pc = "written" /\ pc' = "rewritten" /\ done' = done /\ ret' = Result
    BY <1>7 DEF RewriteWritten
  <2>2. ret' = rewrite[2] => done = size
    BY <1>3, <2>1 DEF Result
  <2>3. ASSUME Counted, done = size
        PROVE  ~Busy /\ \A c \in from .. from + size - 1 : flash[c] = Want(c)
    <3>1. ~Busy
      BY <1>3, <2>1, <2>3 DEF ReadyInv, Counted
    <3>2. \A c \in from .. from + size - 1 : flash[c] = Final(c)
      BY <1>3, <2>1, <2>3 DEF WriteInv, WriteStage, Span
    <3>3. \A c : Final(c) = Want(c)
      BY <1>2, ProgramErased DEF Final, Old
    <3>4. QED
      BY <3>1, <3>2, <3>3
  <2>4. QED
    BY <1>5, <2>1, <2>2, <2>3
<1>8. QED
  BY <1>4, <1>6, <1>7

(* The end of a call.                                                         *)
LEMMA ReturnsCount ==
  ASSUME IInv, CountInv, WriteReturns \/ EraseReturns \/ RewriteReturns \/ FillReturns
  PROVE  CountInv'
<1>1. /\ Rewriting' = Rewriting /\ Counted' = Counted /\ Asked' = Asked
      /\ \A c : Want(c)' = Want(c)
  BY WantSame DEF WriteReturns, EraseReturns, RewriteReturns, FillReturns, Undisturbed, Counted,
     history
<1>2. /\ flash' = flash /\ operation' = operation /\ call' = call /\ calls' = calls
      /\ before' = before /\ Busy' = Busy /\ pc' = "idle"
  BY DEF WriteReturns, EraseReturns, RewriteReturns, FillReturns, Return, chip, history, Busy
<1>3. /\ PlaceInv /\ BufferInv /\ ReadyInv /\ EraseInv /\ WriteInv /\ RewriteInv
      /\ pc \in InCall
      /\ done \in Nat /\ size \in Nat /\ from \in Nat /\ rewrite[1] \in Nat /\ rewrite[2] \in Nat
      /\ call.start \in Nat /\ call.length \in Nat /\ calls \in Nat /\ call \in Requests
  BY DEF CountInv, WriteReturns, EraseReturns, RewriteReturns, FillReturns, InCall, Working,
     InSectors, InChunk, IInv, TypeInv, PlaceInv
<1>4. PlaceInv'
  BY <1>1, <1>2, <1>3 DEF PlaceInv, EraseStage, WriteStage, InCall, Working, InSectors, InChunk
<1>5. BufferInv' /\ ReadyInv' /\ EraseInv' /\ WriteInv' /\ RewriteInv'
  BY <1>2 DEF BufferInv, ReadyInv, EraseInv, WriteInv, RewriteInv, EraseStage, WriteStage, InCall,
     Working, InSectors, InChunk
<1>6. \A c : Holds(c)' = Holds(c)
  BY <1>2 DEF Holds, Passed, Span
<1>7. ASSUME Counted, Returned', Rewriting, ret' = call.length
      PROVE  ~Busy /\ \A c \in Asked : Holds(c)
  <2>1. pc = "rewritten" /\ (RewriteReturns \/ FillReturns)
    BY <1>7 DEF WriteReturns, EraseReturns, RewriteReturns, FillReturns
  <2>2. ASSUME NEW c, flash[c] = Want(c)
        PROVE  Holds(c)
    BY <1>7, <2>2 DEF Holds, Want, Rewriting
  <2>3. CASE RewriteReturns
    <3>1. ret = rewrite[2] /\ call.op = "rewrite" /\ rewrite = <<call.start, call.length>>
          /\ from = AlignDown(rewrite[1]) /\ size = FullLength(rewrite[1], rewrite[2])
      BY <1>3, <1>7, <2>1, <2>3 DEF PlaceInv, RewriteReturns
    <3>2. ~Busy /\ \A c \in from .. from + size - 1 : flash[c] = Want(c)
      BY <1>3, <1>7, <2>1, <3>1 DEF RewriteInv
    <3>3. from + size = AlignUp(call.start + call.length)
      <4>1. AlignDown(call.start) \in Nat /\ AlignUp(call.start + call.length) \in Nat
        BY <1>3, AlignedDown, AlignedUp
      <4>2. QED
        BY <3>1, <4>1 DEF FullLength
    <3>4. Asked = from .. from + size - 1
      <4>1. from = AlignDown(call.start)
        BY <3>1
      <4>2. Asked = AlignDown(call.start) .. AlignUp(call.start + call.length) - 1
        BY <1>7 DEF Asked
      <4>3. PICK a \in Nat, b \in Nat : a = from /\ b = AlignUp(call.start + call.length)
        BY <1>3, AlignedUp
      <4>4. Asked = a .. b - 1 /\ from + size - 1 = b - 1
        BY <1>3, <3>3, <4>1, <4>2, <4>3
      <4>5. QED
        BY <4>3, <4>4
    <3>5. QED
      BY <2>2, <3>2, <3>4
  <2>4. CASE FillReturns
    <3>1. ret = rewrite[2] /\ Filled = call.length /\ call.op = "fill"
          /\ rewrite[1] % SectorSize = 0 /\ rewrite[2] % SectorSize = 0
          /\ from = AlignDown(rewrite[1]) /\ size = FullLength(rewrite[1], rewrite[2])
      BY <1>3, <1>7, <2>1, <2>4 DEF PlaceInv, FillReturns, Return, Returned
    <3>2. from = rewrite[1] /\ size = rewrite[2]
      BY <1>3, <3>1, AlignedSpan
    <3>3. /\ ~Busy /\ \A c \in from .. from + size - 1 : flash[c] = Want(c)
          /\ \A c \in call.start .. rewrite[1] - 1 : flash[c] = Want(c)
      BY <1>3, <1>7, <2>1, <3>1 DEF RewriteInv
    <3>4. Asked = call.start .. call.start + call.length - 1
      <4>1. call.start % SectorSize = 0 /\ call.length % SectorSize = 0
        BY <1>3, <3>1, FlashAssumption
      <4>2. AlignDown(call.start) = call.start
            /\ AlignUp(call.start + call.length) = call.start + call.length
        BY <1>3, <4>1, AlignedSpan
      <4>3. Asked = AlignDown(call.start) .. AlignUp(call.start + call.length) - 1
        BY <1>7 DEF Asked
      <4>4. PICK a \in Nat, b \in Nat : a = call.start /\ b = call.start + call.length
        BY <1>3
      <4>5. Asked = a .. b - 1 /\ b - 1 = call.start + call.length - 1
        BY <1>3, <4>2, <4>3, <4>4
      <4>6. QED
        BY <4>4, <4>5
    <3>5. \A c \in Asked : c \in from .. from + size - 1 \/ c \in call.start .. rewrite[1] - 1
      <4>1. PICK w \in Nat, n \in Nat, f \in Nat, l \in Nat :
              w = rewrite[1] /\ n = rewrite[2] /\ f = call.start /\ l = call.length
        BY <1>3
      <4>2. w + n = f + l
        <5>1. w + n - f = l
          BY <3>1, <4>1 DEF Filled
        <5>2. QED
          BY <5>1
      <4>3. \A c \in f .. f + l - 1 : c \in w .. w + n - 1 \/ c \in f .. w - 1
        BY <4>2
      <4>4. QED
        BY <3>2, <3>4, <4>1, <4>3
    <3>6. QED
      BY <2>2, <3>3, <3>5
  <2>5. QED
    BY <2>1, <2>3, <2>4
<1>8. ASSUME Counted, Returned', ~Rewriting
      PROVE  /\ ret' \in 0 .. call.length
             /\ \A c \in Span(call.start, ret') : c \notin DOMAIN operation /\ Holds(c)
  <2>1. /\ from = call.start /\ size = call.length /\ done <= size
        /\ DOMAIN operation \subseteq from + done .. from + size - 1
    BY <1>3, <1>8 DEF PlaceInv, ReadyInv, Counted
  <2>2. /\ ret' = done
        /\ \/ pc = "written" /\ call.op = "write"
           \/ pc = "erased" /\ call.op \in {"erase", "fill_erased"}
    BY <1>3, <1>8 DEF WriteReturns, EraseReturns, RewriteReturns, FillReturns, Return, Returned,
       Rewriting, PlaceInv, EraseStage, WriteStage
  <2>3. \A c \in Span(from, done) : c \notin DOMAIN operation
    BY <1>3, <2>1 DEF Span
  <2>4. \A c \in Span(from, done) : Holds(c)
    <3>1. CASE pc = "written" /\ call.op = "write"
      <4>1. \A c \in Span(from, done) : flash[c] = Final(c)
        BY <1>3, <1>8, <3>1 DEF WriteInv, WriteStage
      <4>2. \A c : Final(c) = Programmed(before[c], Passed(c))
        BY <1>8 DEF Final, Old, Want
      <4>3. QED
        BY <3>1, <4>1, <4>2 DEF Holds
    <3>2. CASE pc = "erased" /\ call.op \in {"erase", "fill_erased"}
      BY <1>3, <1>8, <3>2 DEF EraseInv, EraseStage, Holds, Counted
    <3>3. QED
      BY <2>2, <3>1, <3>2
  <2>5. ret' \in 0 .. call.length
    BY <1>3, <2>1, <2>2
  <2>6. Span(call.start, ret') = Span(from, done)
    BY <2>1, <2>2
  <2>7. QED
    BY <2>3, <2>4, <2>5, <2>6
<1>9. ReturnedInv'
  BY <1>1, <1>2, <1>6, <1>7, <1>8 DEF ReturnedInv
<1>10. QED
  BY <1>4, <1>5, <1>9 DEF CountInv
(* The chip completes what it has got, between any two steps of the driver.   *)
LEMMA ChipCounts ==
  ASSUME IInv, CountInv, ChipDone
  PROVE  CountInv'
<1>1. /\ Rewriting' = Rewriting /\ Trusted' = Trusted /\ Undisturbed' = Undisturbed
      /\ Asked' = Asked
      /\ \A c : Want(c)' = Want(c) /\ Old(c)' = Old(c) /\ Final(c)' = Final(c)
  BY WantSame DEF ChipDone, Undisturbed, history
<1>2. /\ call' = call /\ rewrite' = rewrite /\ pc' = pc /\ ret' = ret /\ before' = before
      /\ from' = from /\ size' = size /\ done' = done /\ buffer' = buffer /\ null' = null
      /\ calls' = calls /\ wel' = wel /\ Busy /\ operation' = <<>> /\ DOMAIN operation' = {} /\ ~Busy'
      /\ WriteSize' = WriteSize
  BY DEF ChipDone, range, history, Busy, WriteSize
<1>3. \A c \in Cells : flash'[c] = IF c \in DOMAIN operation THEN operation[c] ELSE flash[c]
  BY DEF ChipDone
<1>4. /\ PlaceInv /\ BufferInv /\ ReadyInv /\ EraseInv /\ WriteInv /\ RewriteInv /\ ReturnedInv
      /\ done \in Nat /\ size \in Nat /\ from \in Nat /\ rewrite[1] \in Nat /\ rewrite[2] \in Nat
      /\ call.start \in Nat /\ call.length \in Nat
  BY DEF CountInv, IInv, TypeInv
<1>5. EraseStage \subseteq InCall /\ WriteStage \subseteq InCall
  BY DEF InCall, Working, InSectors, InChunk, EraseStage, WriteStage
<1>6. ASSUME pc \in InCall
      PROVE  /\ from .. from + size - 1 \subseteq Cells
             /\ call.start .. from + size - 1 \subseteq Cells
             /\ done <= size
             /\ Undisturbed => DOMAIN operation \subseteq from + done .. from + size - 1
  BY <1>4, <1>6, RangeInRom DEF PlaceInv, ReadyInv
<1>7. ASSUME pc \in InCall, Undisturbed
      PROVE  \A c \in Span(from, done) : flash'[c] = flash[c]
  <2>1. \A c \in Span(from, done) : c \in from .. from + size - 1 /\ c \notin DOMAIN operation
    BY <1>4, <1>6, <1>7 DEF Span
  <2>2. QED
    BY <1>3, <1>6, <1>7, <2>1
<1>8. PlaceInv'
  BY <1>1, <1>2, <1>4 DEF PlaceInv, FullLength, AlignDown, AlignUp
<1>9. BufferInv'
  <2>1. ~(Undisturbed /\ pc = "read")
    BY <1>2, <1>4 DEF ReadyInv
  <2>2. QED
    BY <1>1, <1>2, <1>4, <2>1 DEF BufferInv, Counted
<1>10. ReadyInv'
  BY <1>1, <1>2, <1>4 DEF ReadyInv
<1>11. EraseInv'
  <2> SUFFICES ASSUME Undisturbed, pc \in EraseStage
               PROVE  /\ \A c \in Span(from, done) : flash'[c] = Erased
                      /\ pc = "poll_erase" =>
                           \A c \in Span(from + done, SectorSize) : flash'[c] = Erased
    BY <1>1, <1>2 DEF EraseInv, Span
  <2>1. \A c \in Span(from, done) : flash'[c] = Erased
    BY <1>4, <1>5, <1>7 DEF EraseInv
  <2>2. ASSUME pc = "poll_erase", NEW c \in Span(from + done, SectorSize)
        PROVE  flash'[c] = Erased
    <3>1. c \in DOMAIN operation /\ operation[c] = Erased
      BY <1>2, <1>4, <2>2 DEF EraseInv
    <3>2. c \in Cells
      <4>1. DOMAIN operation \subseteq from + done .. from + size - 1
        BY <1>5, <1>6
      <4>2. c \in from .. from + size - 1
        BY <1>4, <3>1, <4>1
      <4>3. QED
        BY <1>5, <1>6, <4>2
    <3>3. QED
      BY <1>3, <3>1, <3>2
  <2>3. QED
    BY <2>1, <2>2
<1>12. WriteInv'
  <2> SUFFICES ASSUME Counted, pc \in WriteStage
               PROVE  /\ \A c \in Span(from, done) : flash'[c] = Final(c)
                      /\ pc = "poll_write" =>
                           /\ \A c \in from + done + WriteSize .. from + size - 1 : flash'[c] = Old(c)
                           /\ \A c \in Span(from + done, WriteSize) : flash'[c] = Final(c)
    <3>1. ~(Undisturbed /\ pc \in {"write", "program"})
      BY <1>2, <1>4 DEF ReadyInv
    <3>2. QED
      BY <1>1, <1>2, <3>1 DEF WriteInv, Counted, Span
  <2>1. \A c \in Span(from, done) : flash'[c] = Final(c)
    BY <1>4, <1>5, <1>7 DEF WriteInv, Counted
  <2>2. ASSUME pc = "poll_write"
        PROVE  /\ \A c \in from + done + WriteSize .. from + size - 1 : flash'[c] = Old(c)
               /\ \A c \in Span(from + done, WriteSize) : flash'[c] = Final(c)
    <3>1. /\ DOMAIN operation \subseteq Span(from + done, WriteSize)
          /\ \A c \in from + done + WriteSize .. from + size - 1 : flash[c] = Old(c)
          /\ \A c \in Span(from + done, WriteSize) : c \in DOMAIN operation /\ operation[c] = Final(c)
      BY <1>2, <1>4, <2>2 DEF WriteInv
    <3>2. PICK a \in Nat, w \in Nat : a = from + done /\ w = WriteSize /\ done + w <= size
      BY <1>4, <2>2, WriteSizeFits
    <3>3. Span(from + done, WriteSize) = a .. a + w - 1
      BY <3>2 DEF Span
    <3>4. ASSUME NEW c \in from + done + WriteSize .. from + size - 1
          PROVE  c \in Cells /\ c \notin DOMAIN operation
      <4>1. c \in from .. from + size - 1 /\ c \notin a .. a + w - 1
        BY <1>4, <3>2
      <4>2. QED
        BY <1>5, <1>6, <3>1, <3>3, <4>1
    <3>5. ASSUME NEW c \in Span(from + done, WriteSize)
          PROVE  c \in Cells
      <4>1. c \in from .. from + size - 1
        BY <1>4, <3>2, <3>3
      <4>2. QED
        BY <1>5, <1>6, <4>1
    <3>6. QED
      BY <1>3, <3>1, <3>4, <3>5
  <2>3. QED
    BY <2>1, <2>2
<1>13. RewriteInv'
  <2>1. ~(Counted /\ pc = "rewritten" /\ ret = rewrite[2])
    BY <1>2, <1>4 DEF RewriteInv
  <2>2. ASSUME Counted, pc \in InCall, call.op = "fill", NEW c \in call.start .. rewrite[1] - 1
        PROVE  flash'[c] = Want(c)
    <3>1. flash[c] = Want(c)
      BY <1>4, <2>2 DEF RewriteInv
    <3>2. from = rewrite[1]
      BY <1>4, <2>2, AlignedDown DEF PlaceInv, Rewriting
    <3>3. c \in call.start .. from + size - 1 /\ c \notin from + done .. from + size - 1
      BY <1>4, <3>2
    <3>4. QED
      BY <1>3, <1>6, <2>2, <3>1, <3>3 DEF Counted
  <2>3. QED
    BY <1>1, <1>2, <2>1, <2>2 DEF RewriteInv, Counted
<1>14. ReturnedInv'
  <2> SUFFICES ASSUME Counted, Returned
               PROVE  IF Rewriting THEN ret # call.length
                      ELSE /\ ret \in 0 .. call.length
                           /\ \A c \in Span(call.start, ret) : Holds(c)'
    BY <1>1, <1>2 DEF ReturnedInv, Returned, Counted, Span
  <2>1. CASE Rewriting
    BY <1>2, <1>4, <2>1 DEF ReturnedInv
  <2>2. CASE ~Rewriting
    <3>1. /\ ret \in 0 .. call.length
          /\ \A c \in Span(call.start, ret) : c \notin DOMAIN operation /\ Holds(c)
      BY <1>4, <2>2 DEF ReturnedInv
    <3>2. call.start + call.length <= RomSize
      BY <1>4, FlashAssumption DEF Returned, PlaceInv
    <3>3. Span(call.start, ret) \subseteq Cells
      BY <1>4, <3>1, <3>2, FlashAssumption DEF Span, Cells
    <3>4. \A c \in Span(call.start, ret) : flash'[c] = flash[c]
      BY <1>3, <3>1, <3>3
    <3>5. \A c \in Span(call.start, ret) : Holds(c)'
      BY <1>2, <3>1, <3>4 DEF Holds, Passed, Span
    <3>6. QED
      BY <2>2, <3>1, <3>5
  <2>3. QED
    BY <2>1, <2>2
<1>15. QED
  BY <1>8, <1>9, <1>10, <1>11, <1>12, <1>13, <1>14 DEF CountInv

LEMMA CountStep == IInv /\ CountInv /\ [Next]_vars => CountInv'
<1> SUFFICES ASSUME IInv, CountInv, [Next]_vars
             PROVE  CountInv'
  OBVIOUS
<1>1. CASE Caller
  BY <1>1, CallerCounts
<1>2. CASE ReadBack \/ ReadFails
  BY <1>2, ReadCounts
<1>3. CASE Modify
  BY <1>3, MovesCount, SendCounts, PollCounts DEF Modify
<1>4. CASE Returns
  BY <1>4, StagesCount, FillNextCounts, ReturnsCount DEF Returns
<1>5. CASE ChipDone
  BY <1>5, ChipCounts
<1>6. CASE UNCHANGED vars
  <2>1. /\ UNCHANGED <<flash, wel, operation, pc, call, rewrite, from, size, buffer, null, done, ret,
                      calls, before, late, unread>>
    BY <1>6 DEF vars, chip, range, history
  <2>2. /\ Rewriting' = Rewriting /\ Counted' = Counted /\ Undisturbed' = Undisturbed
        /\ Asked' = Asked /\ Busy' = Busy /\ WriteSize' = WriteSize /\ Returned' = Returned
        /\ \A c : Want(c)' = Want(c) /\ Old(c)' = Old(c) /\ Final(c)' = Final(c)
    BY <2>1, WantSame DEF Undisturbed, Counted, Busy, WriteSize, Returned
  <2>3. \A c : Holds(c)' = Holds(c)
    BY <2>1 DEF Holds, Passed, Span
  <2>4. PlaceInv' /\ BufferInv'
    BY <2>1, <2>2 DEF CountInv, PlaceInv, BufferInv, FullLength, AlignDown, AlignUp
  <2>5. ReadyInv' /\ EraseInv'
    BY <2>1, <2>2 DEF CountInv, ReadyInv, EraseInv, Span
  <2>6. WriteInv' /\ RewriteInv'
    BY <2>1, <2>2 DEF CountInv, WriteInv, RewriteInv, Span
  <2>7. ReturnedInv'
    BY <2>1, <2>2, <2>3 DEF CountInv, ReturnedInv, Span
  <2>8. QED
    BY <2>4, <2>5, <2>6, <2>7 DEF CountInv
<1>7. QED
  BY <1>1, <1>2, <1>3, <1>4, <1>5, <1>6 DEF Next

LEMMA CountInit == Init => CountInv
<1> SUFFICES ASSUME Init
             PROVE  CountInv
  OBVIOUS
<1>1. pc = "idle" /\ calls = 0 /\ operation = <<>>
  BY DEF Init
<1>2. QED
  BY <1>1 DEF CountInv, PlaceInv, BufferInv, ReadyInv, EraseInv, WriteInv, RewriteInv, ReturnedInv,
     Returned, EraseStage, WriteStage, InCall, Working, InSectors, InChunk

(* spi_flash_write, spi_flash_erase, flash_rewrite_ops and                    *)
(* block_flash_fill_write: the count that a call returns is the truth.  So    *)
(* many bytes are programmed or erased, and a rewrite or a fill that returns  *)
(* its length has put the caller's bytes there and the old ones around them,  *)
(* and nothing the chip still does can change that.  Except after a call that *)
(* came while the chip still worked for an earlier one, after a failed read,  *)
(* and for the ranges that flash_rewrite_ops handles wrongly.                 *)
THEOREM CountsAreTrue == Spec => []CountsRight
<1>1. IInv /\ CountInv => CountsRight
  <2> SUFFICES ASSUME CountInv, Returned, Undisturbed, Trusted
               PROVE  IF Rewriting THEN ret = call.length => \A c \in Asked : Holds(c)
                                   ELSE \A c \in Span(call.start, ret) : Holds(c)
    BY DEF CountsRight
  <2>1. QED
    BY DEF CountInv, ReturnedInv, Counted
<1>2. QED
  BY <1>1, IInvInit, IInvStep, CountInit, CountStep, PTL DEF Spec
================================================================================
