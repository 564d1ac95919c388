------------------------- MODULE NvdataFlashProofs -------------------------
(* Theorems about NvdataFlash, for every size of the area and every set of *)
(* images.                                                                 *)
EXTENDS NvdataFlash, TLAPS

(* flash_erase covers at least one sector and no more than there are blobs.  *)
LEMMA SectorCount == NSectors \in Nat \ {0}
<1>1. ASSUME NEW n \in Nat \ {0}, NEW k \in Nat \ {0}
      PROVE  (n + k - 1) \div k \in Nat \ {0}
  <2> DEFINE q == (n + k - 1) \div k
             r == (n + k - 1) % k
  <2>1. /\ q \in Int
        /\ r \in 0 .. k - 1
        /\ n + k - 1 = k * q + r
    OBVIOUS
  <2>2. q > 0
    <3> SUFFICES ASSUME q <= 0 PROVE FALSE
      BY <2>1
    <3>1. k * q <= 0
      BY <2>1
    <3>2. QED
      BY <2>1, <3>1
  <2>3. QED
    BY <2>1, <2>2
<1>2. QED
  BY <1>1, NvdataAssumption DEF NvdataAssumption, NSectors

(* The driver starts with an erased area and nothing cached.               *)
LEMMA TypeInit == Init => TypeOK
<1> USE NvdataAssumption, SectorCount DEF NvdataAssumption
<1> SUFFICES ASSUME Init PROVE TypeOK
  OBVIOUS
<1>1. flash \in [Blobs -> SUBSET Bits]
  BY DEF Init, Erased
<1>2. Erased \in SUBSET Bits
  BY DEF Erased
<1>3. /\ pc \in {"idle", "search", "decide", "erase", "program"}
      /\ op \in {"none", "read", "write"}
      /\ initialized \in BOOLEAN /\ stale \in BOOLEAN /\ failed \in BOOLEAN
      /\ acked \in SUBSET (SUBSET Bits)
  BY DEF Init
<1>4. /\ used_below \in Blobs
      /\ empty_above \in 1 .. NBlobs
      /\ sector \in 0 .. NSectors
      /\ nvdata_blob_offset \in Blobs
  BY DEF Init, Blobs
<1>5. buf \in SUBSET Bits /\ nvdata_cache \in SUBSET Bits
  BY <1>2 DEF Init
<1>6. QED
  BY <1>1, <1>3, <1>4, <1>5 DEF TypeOK

(* What an erase that fails or is cut off can do to the area.              *)
LEMMA CutOff ==
  ASSUME TypeOK, EraseCutOff
  PROVE  /\ flash' \in [Blobs -> SUBSET Bits]
         /\ failed' \in BOOLEAN
         /\ ~failed' => ~failed /\ flash' \in {flash, SectorErased(sector)}
<1>1. PICK left \in [SectorBlobs(sector) -> SUBSET Bits] :
        flash' = [b \in Blobs |-> IF b \in SectorBlobs(sector) THEN left[b] ELSE flash[b]]
  BY DEF EraseCutOff
<1>2. flash' \in [Blobs -> SUBSET Bits]
  BY <1>1 DEF TypeOK
<1>3. failed' = (failed \/ flash' \notin {flash, SectorErased(sector)})
  BY DEF EraseCutOff
<1>4. QED
  BY <1>2, <1>3, Zenon

(* Every step of the driver and every power loss keeps the types.          *)
LEMMA TypeStep == TypeOK /\ [Next]_vars => TypeOK'
<1> USE NvdataAssumption, SectorCount DEF NvdataAssumption
<1> SUFFICES ASSUME TypeOK, [Next]_vars PROVE TypeOK'
  OBVIOUS
<1> USE DEF TypeOK, Blobs, driver, search
<1>1. CASE NvdataRead
  BY <1>1 DEF NvdataRead, StartInit
<1>2. ASSUME NEW v \in Images, NvdataWrite(v) PROVE TypeOK'
  <2>1. failed' \in BOOLEAN
    BY <1>2, Zenon DEF NvdataWrite
  <2>2. QED
    BY <1>2, <2>1 DEF NvdataWrite, StartInit
<1>3. CASE SearchStep
  BY <1>3 DEF SearchStep, Searching, Guess
<1>4. CASE SearchDone
  BY <1>4 DEF SearchDone
<1>5. CASE SearchFails
  BY <1>5 DEF SearchFails
<1>6. CASE WriteUnchanged
  BY <1>6 DEF WriteUnchanged
<1>7. CASE WriteInPlace
  BY <1>7 DEF WriteInPlace
<1>8. CASE WriteNextBlob
  BY <1>8 DEF WriteNextBlob
<1>9. CASE WriteStartOver
  BY <1>9 DEF WriteStartOver
<1>10. CASE EraseSector
  BY <1>10 DEF EraseSector, SectorErased, Erased
<1>11. CASE EraseFails
  <2>1. flash' \in [Blobs -> SUBSET Bits] /\ failed' \in BOOLEAN
    BY <1>11, CutOff DEF EraseFails
  <2>2. stale' \in BOOLEAN
    BY <1>11, Zenon DEF EraseFails
  <2>3. QED
    BY <1>11, <2>1, <2>2 DEF EraseFails
<1>12. CASE EraseDone
  <2>1. stale' \in BOOLEAN /\ failed' \in BOOLEAN
    BY <1>12 DEF EraseDone
  <2>2. QED
    BY <1>12, <2>1 DEF EraseDone
<1>13. CASE Program
  BY <1>13 DEF Program
<1>14. CASE ProgramFails
  <2>1. stale' \in BOOLEAN
    BY <1>14 DEF ProgramFails
  <2>2. QED
    BY <1>14, <2>1 DEF ProgramFails, Torn
<1>15. CASE PowerLoss
  <2>1. flash' \in [Blobs -> SUBSET Bits] /\ failed' \in BOOLEAN
    <3>1. CASE pc = "program"
      BY <1>15, <3>1 DEF PowerLoss, Torn
    <3>2. CASE pc = "erase" /\ sector < NSectors
      <4>1. EraseCutOff
        BY <1>15, <3>2 DEF PowerLoss
      <4>2. QED
        BY <4>1, CutOff
    <3>3. CASE pc # "program" /\ ~(pc = "erase" /\ sector < NSectors)
      BY <1>15, <3>3 DEF PowerLoss
    <3>4. QED
      BY <3>1, <3>2, <3>3
  <2>2. Erased \in SUBSET Bits
    BY DEF Erased
  <2>3. initialized' \in BOOLEAN /\ stale' \in BOOLEAN
    BY <1>15 DEF PowerLoss
  <2>4. QED
    BY <1>15, <2>1, <2>2, <2>3 DEF PowerLoss
<1>16. CASE UNCHANGED vars
  BY <1>16 DEF vars
<1>17. QED
  BY <1>1, <1>2, <1>3, <1>4, <1>5, <1>6, <1>7, <1>8, <1>9, <1>10, <1>11,
     <1>12, <1>13, <1>14, <1>15, <1>16 DEF Next

(* The types of the driver's state and of the flash, whatever fails and    *)
(* wherever power is lost: the binary search and the write paths of        *)
(* flash.c never leave the RW_NVRAM area.                                  *)
THEOREM TypeCorrect == Spec => []TypeOK
  BY TypeInit, TypeStep, PTL DEF Spec

-----------------------------------------------------------------------------
(* The inductive invariant behind the safety theorems: CallState always,    *)
(* and LogState until vboot writes on after a failure or the erase of a     *)
(* sector is left in the middle, and again once the area has been erased.   *)

(* The area fits one erase sector or is two of them.  With more, a power    *)
(* loss in an erase leaves used blobs where the binary search does not look.*)
AreaSize == NBlobs <= BlobsPerSector \/ NBlobs = 2 * BlobsPerSector

(* No gap in the log: below a used blob every blob is used.                *)
NoGap == \A i, j \in Blobs : i < j /\ flash[j] # Erased => flash[i] # Erased

(* An erase of two sectors ended after the first.                          *)
HalfErased ==
  /\ NBlobs = 2 * BlobsPerSector
  /\ \A b \in Blobs : IF b < BlobsPerSector THEN flash[b] = Erased ELSE flash[b] # Erased

Layout == NoGap \/ HalfErased

(* The border the binary search looks for is between its two bounds.       *)
SearchBounds ==
  pc = "search" =>
    /\ used_below < empty_above
    /\ used_below = 0 \/ flash[used_below] # Erased
    /\ empty_above = NBlobs \/ flash[empty_above] = Erased
    /\ HalfErased => empty_above = NBlobs

(* A failure that the driver does not know the effect of ends the call.    *)
StaleState == stale => pc = "idle" /\ initialized

(* The driver's copy is right whenever it is consulted.                    *)
Coherent ==
  initialized /\ ~stale /\ (pc \in {"idle", "decide"} \/ (pc = "erase" /\ sector < NSectors)) =>
    /\ IsCurrent(nvdata_blob_offset)
    /\ flash[nvdata_blob_offset] = nvdata_cache

EraseState ==
  pc = "erase" =>
    /\ buf # nvdata_cache
    /\ sector < NSectors => nvdata_blob_offset = NBlobs - 1 /\ nvdata_cache # Erased
    /\ sector = 0 \/ sector = NSectors \/ HalfErased

(* What a program is about to do.                                          *)
ProgramState ==
  pc = "program" =>
    /\ \A b \in Blobs : b > nvdata_blob_offset => flash[b] = Erased
    /\ \/ \A b \in Blobs : b < nvdata_blob_offset => flash[b] # Erased
       \/ HalfErased /\ nvdata_blob_offset = NBlobs - 1
    /\ buf \subseteq flash[nvdata_blob_offset]

WriteState ==
  /\ pc \in {"decide", "erase", "program"} => initialized /\ op = "write"
  /\ pc # "idle" /\ op = "write" => buf \in Images /\ acked = {}
  /\ pc = "search" => ~initialized /\ op # "none"

(* The sectors that flash_erase has gone over.                             *)
ErasedState ==
  pc = "erase" => \A b \in Blobs : b \div BlobsPerSector < sector => flash[b] = Erased

CallState ==
  /\ TypeOK
  /\ WriteState
  /\ ErasedState
  /\ acked \subseteq Images

Kept == \A v \in acked : \E b \in Blobs : IsCurrent(b) /\ flash[b] = v

LogState ==
  /\ Layout
  /\ StaleState
  /\ SearchBounds
  /\ Coherent
  /\ EraseState
  /\ ProgramState
  /\ Kept

LogInv == CallState /\ (~failed => LogState)

LEMMA DivisionIs ==
  ASSUME NEW k \in Nat \ {0}, NEW m \in Nat, NEW q \in Nat, k * q <= m, m < k * (q + 1)
  PROVE  m \div k = q
<1> DEFINE d == m \div k
           r == m % k
<1>1. d \in Int /\ r \in 0 .. k - 1 /\ m = k * d + r
  OBVIOUS
<1>2. ~(d > q)
  <2> SUFFICES ASSUME d >= q + 1 PROVE FALSE
    BY <1>1
  <2>1. k * d >= k * (q + 1)
    BY <1>1
  <2>2. QED
    BY <1>1, <2>1
<1>3. ~(d < q)
  <2> SUFFICES ASSUME d + 1 <= q PROVE FALSE
    BY <1>1
  <2>1. k * (d + 1) <= k * q
    BY <1>1
  <2>2. k * (d + 1) = k * d + k
    BY <1>1
  <2>3. QED
    BY <1>1, <2>1, <2>2
<1>4. QED
  BY <1>1, <1>2, <1>3

(* Every blob is in a sector that flash_erase goes over.                   *)
LEMMA SectorsCover == \A b \in Blobs : b \div BlobsPerSector \in 0 .. NSectors - 1
<1>1. ASSUME NEW n \in Nat \ {0}, NEW k \in Nat \ {0}, NEW b \in 0 .. n - 1
      PROVE  b \div k \in 0 .. ((n + k - 1) \div k) - 1
  <2> DEFINE d == b \div k
             q == (n + k - 1) \div k
  <2>1. d \in Int /\ b % k \in 0 .. k - 1 /\ b = k * d + (b % k)
    OBVIOUS
  <2>2. q \in Int /\ (n + k - 1) % k \in 0 .. k - 1 /\ n + k - 1 = k * q + ((n + k - 1) % k)
    OBVIOUS
  <2>3. d >= 0
    <3> SUFFICES ASSUME d <= -1 PROVE FALSE
      BY <2>1
    <3>1. k * d <= k * (-1)
      BY <2>1
    <3>2. QED
      BY <2>1, <3>1
  <2>4. d < q
    <3> SUFFICES ASSUME q <= d PROVE FALSE
      BY <2>1, <2>2
    <3>1. k * q <= k * d
      BY <2>1, <2>2
    <3>2. QED
      BY <2>1, <2>2, <3>1
  <2>5. QED
    BY <2>1, <2>2, <2>3, <2>4
<1>2. QED
  BY <1>1, NvdataAssumption DEF NvdataAssumption, NSectors, Blobs

(* One sector is erased in one step, two in two.                           *)
LEMMA SectorsAre ==
  ASSUME AreaSize
  PROVE  \/ /\ NSectors = 1
            /\ \A b \in Blobs : b \div BlobsPerSector = 0
         \/ /\ NSectors = 2 /\ NBlobs = 2 * BlobsPerSector
            /\ \A b \in Blobs : b \div BlobsPerSector = IF b < BlobsPerSector THEN 0 ELSE 1
<1>1. ASSUME NEW n \in Nat \ {0}, NEW k \in Nat \ {0}, n <= k
      PROVE  /\ (n + k - 1) \div k = 1
             /\ \A b \in 0 .. n - 1 : b \div k = 0
  BY <1>1, DivisionIs
<1>2. ASSUME NEW n \in Nat \ {0}, NEW k \in Nat \ {0}, n = 2 * k
      PROVE  /\ (n + k - 1) \div k = 2
             /\ \A b \in 0 .. n - 1 : b \div k = IF b < k THEN 0 ELSE 1
  <2>1. n + k - 1 \in Nat /\ k * 2 <= n + k - 1 /\ n + k - 1 < k * (2 + 1)
    BY <1>2
  <2>2. (n + k - 1) \div k = 2
    BY <2>1, DivisionIs
  <2>3. ASSUME NEW b \in 0 .. n - 1
        PROVE  b \div k = IF b < k THEN 0 ELSE 1
    <3>1. b < k => b \div k = 0
      BY DivisionIs
    <3>2. b >= k => b \div k = 1
      BY <1>2, DivisionIs
    <3>3. QED
      BY <3>1, <3>2
  <2>4. QED
    BY <2>2, <2>3
<1>3. CASE NBlobs <= BlobsPerSector
  BY <1>1, <1>3, NvdataAssumption DEF NSectors, Blobs
<1>4. CASE NBlobs = 2 * BlobsPerSector
  BY <1>2, <1>4, NvdataAssumption DEF NSectors, Blobs
<1>5. QED
  BY <1>3, <1>4 DEF AreaSize

(* The invariant holds of an erased area.                                  *)
LEMMA LogInvInit == Init => LogInv
<1> SUFFICES ASSUME Init PROVE LogInv
  OBVIOUS
<1>1. TypeOK
  BY TypeInit
<1>2. Layout
  BY DEF Init, Layout, NoGap
<1>3. CallState
  BY <1>1 DEF Init, CallState, WriteState, ErasedState
<1>4. LogState
  BY <1>2 DEF Init, LogState, StaleState, SearchBounds, Coherent, EraseState,
     ProgramState, Kept
<1>5. QED
  BY <1>3, <1>4 DEF LogInv

(* What is true of the running call and of an erase that ended, whether    *)
(* writes fail or not.                                                     *)
LEMMA CallStateStep ==
  ASSUME CallState, [Next]_vars
  PROVE  CallState'
<1> USE NvdataAssumption DEF NvdataAssumption, CallState
<1>0. TypeOK /\ TypeOK'
  BY TypeStep
<1> USE DEF WriteState, ErasedState, driver, search
<1>1. CASE NvdataRead
  BY <1>0, <1>1 DEF NvdataRead, StartInit
<1>2. ASSUME NEW v \in Images, NvdataWrite(v) PROVE CallState'
  BY <1>0, <1>2 DEF NvdataWrite, StartInit
<1>3. CASE SearchStep
  BY <1>0, <1>3 DEF SearchStep
<1>4. CASE SearchDone
  BY <1>0, <1>4 DEF SearchDone, TypeOK
<1>5. CASE SearchFails
  BY <1>0, <1>5 DEF SearchFails
<1>6. CASE WriteUnchanged
  BY <1>0, <1>6 DEF WriteUnchanged
<1>7. CASE WriteInPlace
  BY <1>0, <1>7 DEF WriteInPlace
<1>8. CASE WriteNextBlob
  BY <1>0, <1>8 DEF WriteNextBlob
<1>9. CASE WriteStartOver
  <2>1. \A b \in Blobs : ~(b \div BlobsPerSector < 0)
    BY SectorCount, SectorsCover
  <2>2. QED
    BY <1>0, <1>9, <2>1 DEF WriteStartOver
<1>10. CASE EraseSector
  <2>1. sector \in Nat /\ sector' = sector + 1
    BY <1>0, <1>10, SectorCount DEF EraseSector, TypeOK
  <2>2. \A b \in Blobs : flash'[b] = IF b \div BlobsPerSector = sector THEN Erased ELSE flash[b]
    BY <1>10 DEF EraseSector, SectorErased, SectorBlobs
  <2>3. \A b \in Blobs : b \div BlobsPerSector \in Nat
    BY SectorCount, SectorsCover
  <2>4. \A b \in Blobs : b \div BlobsPerSector < sector' => flash'[b] = Erased
    BY <1>10, <2>1, <2>2, <2>3 DEF EraseSector
  <2>5. QED
    BY <1>0, <1>10, <2>4 DEF EraseSector
<1>11. CASE EraseFails
  BY <1>0, <1>11 DEF EraseFails
<1>12. CASE EraseDone
  BY <1>0, <1>12 DEF EraseDone
<1>13. CASE Program
  BY <1>0, <1>13 DEF Program
<1>14. CASE ProgramFails
  BY <1>0, <1>14 DEF ProgramFails
<1>15. CASE PowerLoss
  BY <1>0, <1>15 DEF PowerLoss
<1>16. CASE UNCHANGED vars
  BY <1>0, <1>16 DEF vars
<1>17. QED
  BY <1>1, <1>2, <1>3, <1>4, <1>5, <1>6, <1>7, <1>8, <1>9, <1>10, <1>11, <1>12,
     <1>13, <1>14, <1>15, <1>16 DEF Next

(* The erase of the whole area restores what failed writes have broken.    *)
LEMMA EraseRestores ==
  ASSUME CallState, CallState', EraseDone
  PROVE  LogState'
<1> USE NvdataAssumption DEF NvdataAssumption
<1>1. \A b \in Blobs : flash'[b] = Erased
  BY SectorCount, SectorsCover DEF CallState, ErasedState, EraseDone
<1>2. Layout' /\ acked' = {}
  BY <1>1 DEF EraseDone, CallState, WriteState, Layout, NoGap
<1>3. StaleState' /\ SearchBounds' /\ Coherent' /\ EraseState'
  BY DEF EraseDone, StaleState, SearchBounds, Coherent, EraseState
<1>4. ProgramState'
  BY <1>1 DEF EraseDone, CallState, TypeOK, Blobs, Erased, ProgramState
<1>5. QED
  BY <1>2, <1>3, <1>4 DEF LogState, Kept

(* What a step that leaves the flash and the acknowledged image alone      *)
(* still has to show.                                                      *)
LEMMA FlashUntouched ==
  ASSUME LogState, flash' = flash, acked' = acked,
         StaleState', SearchBounds', Coherent', EraseState', ProgramState'
  PROVE  LogState'
<1>1. Layout'
  BY DEF LogState, Layout, NoGap, HalfErased
<1>2. QED
  BY <1>1 DEF LogState, Kept, IsCurrent

(* What is below the current blob.                                         *)
LEMMA BelowCurrent ==
  ASSUME Layout, NEW o \in Blobs, IsCurrent(o)
  PROVE  \/ \A b \in Blobs : b < o => flash[b] # Erased
         \/ HalfErased /\ o = NBlobs - 1 /\ flash[o] # Erased
<1> USE NvdataAssumption
<1>1. CASE NoGap
  BY <1>1 DEF NoGap, IsCurrent, Blobs
<1>2. CASE HalfErased
  <2>1. NBlobs - 1 \in Blobs /\ flash[NBlobs - 1] # Erased
    BY <1>2 DEF HalfErased, Blobs
  <2>2. o = NBlobs - 1
    BY <2>1 DEF IsCurrent, Blobs
  <2>3. QED
    BY <1>2, <2>1, <2>2
<1>3. QED
  BY <1>1, <1>2 DEF Layout

(* A torn program leaves a blob erased only if it was.                      *)
LEMMA TornErased ==
  ASSUME TypeOK, NEW w \in Torn(flash[nvdata_blob_offset], buf), w = Erased
  PROVE  flash[nvdata_blob_offset] = Erased
<1>1. w \subseteq flash[nvdata_blob_offset] /\ flash[nvdata_blob_offset] \subseteq Bits
  BY DEF Torn, TypeOK
<1>2. QED
  BY <1>1, Zenon DEF Erased

(* A program that clears bits of the blob at the offset keeps the log in    *)
(* order, torn or not.                                                      *)
LEMMA ProgramLayout ==
  ASSUME TypeOK, LogState, pc = "program", NEW w,
         flash' = [flash EXCEPT ![nvdata_blob_offset] = w],
         w = Erased => flash[nvdata_blob_offset] = Erased
  PROVE  Layout'
<1> USE NvdataAssumption
<1>1. /\ nvdata_blob_offset \in Blobs /\ flash'[nvdata_blob_offset] = w
      /\ \A b \in Blobs \ {nvdata_blob_offset} : flash'[b] = flash[b]
  BY DEF TypeOK
<1>2. CASE \A b \in Blobs : b < nvdata_blob_offset => flash[b] # Erased
  BY <1>1, <1>2 DEF LogState, ProgramState, Layout, NoGap, Blobs
<1>3. CASE HalfErased /\ nvdata_blob_offset = NBlobs - 1
  <2>1. nvdata_blob_offset >= BlobsPerSector
    BY <1>3 DEF HalfErased
  <2>2. HalfErased'
    BY <1>1, <1>3, <2>1 DEF HalfErased, Blobs
  <2>3. QED
    BY <2>2 DEF Layout
<1>4. QED
  BY <1>2, <1>3 DEF LogState, ProgramState

(* A call runs on after a failure only when the failure has failed it.     *)
LEMMA StaleStep ==
  ASSUME CallState, LogState, ~failed', [Next]_vars
  PROVE  StaleState' /\ (pc # "idle" => ~stale)
<1>1. (pc # "idle" => ~stale) /\ (stale => initialized)
  BY DEF LogState, StaleState
<1>2. CASE EraseFails \/ ProgramFails
  BY <1>1, <1>2 DEF EraseFails, ProgramFails, driver, CallState, WriteState, StaleState
<1>3. ASSUME NEW v \in Images, NvdataWrite(v)
      PROVE  StaleState'
  BY <1>1, <1>3 DEF NvdataWrite, StaleState
<1>4. CASE ~EraseFails /\ ~ProgramFails /\ ~(\E v \in Images : NvdataWrite(v))
  BY <1>1, <1>4 DEF Next, vars, driver, NvdataRead, SearchStep, SearchDone, SearchFails,
     WriteUnchanged, WriteInPlace, WriteNextBlob, WriteStartOver, EraseSector, EraseDone, Program,
     PowerLoss, StaleState
<1>5. QED
  BY <1>1, <1>2, <1>3, <1>4

(* An erase of one of at most two sectors, whole or not begun, leaves a log *)
(* in order: the area is erased or its first half is.                       *)
LEMMA SectorGone ==
  ASSUME AreaSize, CallState, LogState, pc = "erase", sector < NSectors,
         flash' = SectorErased(sector)
  PROVE  /\ sector \in 0 .. NSectors - 1 /\ nvdata_blob_offset = NBlobs - 1
         /\ nvdata_cache # Erased /\ flash[nvdata_blob_offset] = nvdata_cache
         /\ \/ sector + 1 = NSectors /\ \A b \in Blobs : flash'[b] = Erased
            \/ /\ sector + 1 < NSectors /\ HalfErased'
               /\ flash'[NBlobs - 1] = flash[NBlobs - 1] /\ flash'[NBlobs - 1] # Erased
<1> USE NvdataAssumption DEF NvdataAssumption
<1>1. sector \in 0 .. NSectors - 1 /\ ~stale /\ initialized /\ TypeOK
  BY SectorCount DEF CallState, WriteState, LogState, StaleState, TypeOK
<1>2. \A b \in Blobs : flash'[b] = IF b \div BlobsPerSector = sector THEN Erased ELSE flash[b]
  BY DEF SectorErased, SectorBlobs
<1>3. /\ nvdata_blob_offset = NBlobs - 1 /\ nvdata_cache # Erased /\ IsCurrent(nvdata_blob_offset)
      /\ flash[nvdata_blob_offset] = nvdata_cache /\ NBlobs - 1 \in Blobs
  BY <1>1 DEF LogState, EraseState, Coherent, Blobs
<1>4. \/ sector + 1 = NSectors /\ \A b \in Blobs : flash'[b] = Erased
      \/ /\ sector + 1 < NSectors /\ HalfErased'
         /\ flash'[NBlobs - 1] = flash[NBlobs - 1] /\ flash'[NBlobs - 1] # Erased
  <2>1. CASE NSectors = 1 /\ \A b \in Blobs : b \div BlobsPerSector = 0
    BY <1>1, <1>2, <2>1
  <2>2. CASE /\ NSectors = 2 /\ NBlobs = 2 * BlobsPerSector
             /\ \A b \in Blobs : b \div BlobsPerSector = IF b < BlobsPerSector THEN 0 ELSE 1
    <3>1. sector \in {0, 1}
      BY <1>1, <2>2
    <3>2. NBlobs - 1 >= BlobsPerSector
      BY <2>2
    <3>3. CASE sector = 0
      <4>1. \A b \in Blobs : b >= BlobsPerSector => flash[b] # Erased
        <5>1. CASE NoGap
          BY <1>3, <5>1 DEF NoGap, Blobs
        <5>2. CASE HalfErased
          BY <5>2 DEF HalfErased, Blobs
        <5>3. QED
          BY <5>1, <5>2 DEF LogState, Layout
      <4>2. \A b \in Blobs : IF b < BlobsPerSector THEN flash'[b] = Erased
                                                   ELSE flash'[b] = flash[b] /\ flash'[b] # Erased
        <5>1. ASSUME NEW b \in Blobs
              PROVE  IF b < BlobsPerSector THEN flash'[b] = Erased
                                           ELSE flash'[b] = flash[b] /\ flash'[b] # Erased
          <6>1. CASE b < BlobsPerSector
            BY <1>2, <2>2, <3>3, <6>1
          <6>2. CASE ~(b < BlobsPerSector)
            <7>1. flash'[b] = flash[b]
              BY <1>2, <2>2, <3>3, <6>2
            <7>2. flash[b] # Erased
              BY <4>1, <6>2 DEF Blobs
            <7>3. QED
              BY <6>2, <7>1, <7>2
          <6>3. QED
            BY <6>1, <6>2
        <5>2. QED
          BY <5>1
      <4>3. HalfErased'
        BY <2>2, <4>2 DEF HalfErased
      <4>4. flash'[NBlobs - 1] = flash[NBlobs - 1] /\ flash'[NBlobs - 1] # Erased
        BY <1>3, <3>2, <4>2
      <4>5. QED
        BY <1>1, <2>2, <3>3, <4>3, <4>4
    <3>4. CASE sector = 1
      <4>1. \A b \in Blobs : b < BlobsPerSector => flash[b] = Erased
        BY <1>1, <2>2, <3>4 DEF CallState, ErasedState
      <4>2. QED
        BY <1>1, <1>2, <2>2, <3>4, <4>1
    <3>5. QED
      BY <3>1, <3>3, <3>4
  <2>3. QED
    BY <2>1, <2>2, SectorsAre
<1>5. QED
  BY <1>1, <1>3, <1>4

(* Every step but a failing write keeps the log: reads, writes, erases and *)
(* power losses.                                                           *)
LEMMA LogStateStep ==
  ASSUME AreaSize, CallState, CallState', LogState, ~failed',
         [Next]_vars
  PROVE  LogState'
<1> USE NvdataAssumption DEF NvdataAssumption
<1>0. TypeOK /\ TypeOK'
  BY DEF CallState
<1>00. HalfErased => \A b \in Blobs : (flash[b] # Erased) = (b >= BlobsPerSector)
  BY DEF HalfErased, Blobs
<1>000. StaleState' /\ (pc # "idle" => ~stale)
  BY StaleStep
<1> USE <1>000
<1>1. CASE NvdataRead
  <2>1. SearchBounds' /\ Coherent' /\ EraseState' /\ ProgramState'
    BY <1>0, <1>1 DEF NvdataRead, StartInit, driver, LogState, CallState, SearchBounds,
       Coherent, EraseState, ProgramState, WriteState
  <2>2. QED
    BY <1>1, <2>1, FlashUntouched DEF NvdataRead
<1>2. ASSUME NEW v \in Images, NvdataWrite(v) PROVE LogState'
  <2>1. SearchBounds' /\ Coherent' /\ EraseState' /\ ProgramState'
    BY <1>0, <1>2 DEF NvdataWrite, StartInit, search, driver, LogState, CallState,
       SearchBounds, Coherent, EraseState, ProgramState, WriteState, IsCurrent
  <2>2. Layout' /\ Kept'
    BY <1>2 DEF NvdataWrite, LogState, CallState, Layout, NoGap, HalfErased, Kept
  <2>3. QED
    BY <2>1, <2>2 DEF LogState
<1>3. CASE SearchStep
  <2>1. SearchBounds'
    <3>1. /\ Guess \in Blobs /\ used_below < Guess /\ Guess < empty_above
          /\ used_below = 0 /\ NBlobs = 2 * BlobsPerSector /\ empty_above = NBlobs => Guess >= BlobsPerSector
      BY <1>0, <1>3 DEF SearchStep, Searching, Guess, TypeOK, Blobs
    <3>2. HalfErased => flash[Guess] # Erased
      BY <1>0, <1>3, <3>1 DEF SearchStep, LogState, SearchBounds, HalfErased, TypeOK, Blobs
    <3>3. HalfErased' = HalfErased
      BY <1>3 DEF SearchStep, HalfErased
    <3>4. QED
      BY <1>0, <1>3, <3>1, <3>2, <3>3 DEF SearchStep, LogState, SearchBounds, TypeOK, Blobs
  <2>2. Coherent' /\ EraseState' /\ ProgramState'
    BY <1>3 DEF SearchStep, driver, LogState, CallState, Coherent, EraseState,
       ProgramState, WriteState
  <2>3. QED
    BY <1>3, <2>1, <2>2, FlashUntouched DEF SearchStep
<1>4. CASE SearchDone
  <2>1. IsCurrent(used_below)
    <3>1. used_below \in Blobs /\ empty_above \in 1 .. NBlobs /\ empty_above = used_below + 1
      BY <1>0, <1>4 DEF SearchDone, Searching, LogState, SearchBounds, TypeOK, Blobs
    <3>2. CASE NoGap
      BY <1>4, <3>1, <3>2 DEF SearchDone, LogState, SearchBounds, NoGap, IsCurrent, Blobs
    <3>3. CASE HalfErased
      <4>1. empty_above = NBlobs
        BY <1>4, <3>3 DEF SearchDone, LogState, SearchBounds
      <4>2. used_below # 0
        BY <3>1, <3>3, <4>1 DEF HalfErased
      <4>3. QED
        BY <1>4, <3>1, <4>1, <4>2 DEF SearchDone, LogState, SearchBounds, IsCurrent, Blobs
    <3>4. QED
      BY <3>2, <3>3 DEF LogState, Layout
  <2>2. SearchBounds' /\ Coherent' /\ EraseState' /\ ProgramState'
    BY <1>0, <1>4, <2>1 DEF SearchDone, search, LogState, CallState, SearchBounds, Coherent,
       EraseState, ProgramState, WriteState, IsCurrent, TypeOK
  <2>3. QED
    BY <1>4, <2>2, FlashUntouched DEF SearchDone
<1>5. CASE SearchFails
  <2>1. SearchBounds' /\ Coherent' /\ EraseState' /\ ProgramState'
    BY <1>5 DEF SearchFails, driver, search, LogState, CallState, SearchBounds, Coherent,
       EraseState, ProgramState, WriteState
  <2>2. QED
    BY <1>5, <2>1, FlashUntouched DEF SearchFails
<1>6. CASE WriteUnchanged
  <2>1. SearchBounds' /\ Coherent' /\ EraseState' /\ ProgramState'
    BY <1>6 DEF WriteUnchanged, driver, search, LogState, CallState, SearchBounds, Coherent,
       EraseState, ProgramState, WriteState, IsCurrent
  <2>2. Layout' /\ Kept'
    BY <1>0, <1>6 DEF WriteUnchanged, LogState, CallState, Layout, NoGap, HalfErased, Kept, Coherent,
       IsCurrent, WriteState, TypeOK
  <2>3. QED
    BY <2>1, <2>2 DEF LogState
<1>7. CASE WriteInPlace
  <2>1. ProgramState'
    <3>1. /\ nvdata_blob_offset \in Blobs /\ IsCurrent(nvdata_blob_offset)
          /\ buf \subseteq flash[nvdata_blob_offset]
      BY <1>0, <1>7 DEF WriteInPlace, CanOverwrite, LogState, CallState, Coherent, WriteState, TypeOK
    <3>2. \/ \A b \in Blobs : b < nvdata_blob_offset => flash[b] # Erased
          \/ HalfErased /\ nvdata_blob_offset = NBlobs - 1
      BY <3>1, BelowCurrent DEF LogState
    <3>3. HalfErased' = HalfErased
      BY <1>7 DEF WriteInPlace, HalfErased
    <3>4. QED
      BY <1>7, <3>1, <3>2, <3>3 DEF WriteInPlace, driver, IsCurrent, ProgramState
  <2>2. SearchBounds' /\ Coherent' /\ EraseState'
    BY <1>7 DEF WriteInPlace, driver, search, LogState, CallState, SearchBounds, Coherent,
       EraseState, WriteState
  <2>3. QED
    BY <1>7, <2>1, <2>2, FlashUntouched DEF WriteInPlace
<1>8. CASE WriteNextBlob
  <2>1. /\ IsCurrent(nvdata_blob_offset)
        /\ flash[nvdata_blob_offset] # Erased
    BY <1>0, <1>8 DEF WriteNextBlob, CanOverwrite, LogState, CallState, Coherent, WriteState,
       TypeOK, Erased
  <2>2. ProgramState'
    <3>1. /\ nvdata_blob_offset \in Blobs /\ nvdata_blob_offset + 1 \in Blobs
          /\ nvdata_blob_offset' = nvdata_blob_offset + 1 /\ nvdata_blob_offset # NBlobs - 1
      BY <1>0, <1>8 DEF WriteNextBlob, TypeOK, Blobs
    <3>2. \A b \in Blobs : b < nvdata_blob_offset => flash[b] # Erased
      BY <2>1, <3>1, BelowCurrent DEF LogState
    <3>3. flash[nvdata_blob_offset + 1] = Erased /\ buf \subseteq Erased
      BY <1>0, <2>1, <3>1 DEF IsCurrent, TypeOK, Blobs, Erased
    <3>4. QED
      BY <1>8, <2>1, <3>1, <3>2, <3>3 DEF WriteNextBlob, IsCurrent, ProgramState, Blobs
  <2>3. SearchBounds' /\ Coherent' /\ EraseState'
    BY <1>8 DEF WriteNextBlob, search, LogState, CallState, SearchBounds, Coherent,
       EraseState, WriteState
  <2>4. QED
    BY <1>8, <2>2, <2>3, FlashUntouched DEF WriteNextBlob
<1>9. CASE WriteStartOver
  <2>1. buf # nvdata_cache
    BY <1>9 DEF WriteStartOver, CanOverwrite
  <2>2. EraseState'
    <3>1. nvdata_blob_offset = NBlobs - 1
      BY <1>0, <1>9 DEF WriteStartOver, TypeOK, Blobs
    <3>2. nvdata_cache # Erased
      BY <1>0, <1>9 DEF WriteStartOver, CanOverwrite, TypeOK, Erased
    <3>3. QED
      BY <1>9, <2>1, <3>1, <3>2 DEF WriteStartOver, driver, EraseState
  <2>3. SearchBounds' /\ Coherent' /\ ProgramState'
    BY <1>9 DEF WriteStartOver, driver, search, LogState, CallState,
       SearchBounds, Coherent, ProgramState, WriteState, IsCurrent
  <2>4. QED
    BY <1>9, <2>2, <2>3, FlashUntouched DEF WriteStartOver
<1>10. CASE EraseSector
  <2>1. /\ sector < NSectors /\ sector' = sector + 1 /\ pc = "erase" /\ acked = {}
        /\ flash' = SectorErased(sector)
        /\ UNCHANGED <<pc, op, buf, search, driver, acked, stale, failed>>
    BY <1>0, <1>10 DEF EraseSector, CallState, WriteState
  <2>2. /\ sector \in 0 .. NSectors - 1 /\ nvdata_blob_offset = NBlobs - 1
        /\ nvdata_cache # Erased /\ flash[nvdata_blob_offset] = nvdata_cache
        /\ \/ sector' = NSectors /\ \A b \in Blobs : flash'[b] = Erased
           \/ /\ sector' < NSectors /\ HalfErased'
              /\ flash'[NBlobs - 1] = flash[NBlobs - 1] /\ flash'[NBlobs - 1] # Erased
    BY <2>1, SectorGone
  <2>3. EraseState'
    BY <2>1, <2>2 DEF LogState, EraseState, driver
  <2>4. Coherent'
    BY <2>1, <2>2, SectorCount DEF Coherent, IsCurrent, driver, Blobs
  <2>5. SearchBounds' /\ ProgramState'
    BY <2>1 DEF SearchBounds, ProgramState
  <2>6. Layout'
    BY <2>2 DEF Layout, NoGap
  <2>7. QED
    BY <2>1, <2>3, <2>4, <2>5, <2>6 DEF LogState, Kept
<1>11. CASE EraseFails
  <2>1. /\ sector < NSectors /\ pc = "erase" /\ pc' = "idle" /\ acked' = {}
        /\ stale' = (stale \/ flash'[nvdata_blob_offset] # flash[nvdata_blob_offset])
        /\ UNCHANGED <<driver, search, sector>> /\ EraseCutOff
    BY <1>0, <1>11 DEF EraseFails, CallState, WriteState
  <2>2. flash' \in {flash, SectorErased(sector)}
    BY <1>0, <2>1, CutOff
  <2>3. SearchBounds' /\ EraseState' /\ ProgramState'
    BY <2>1 DEF SearchBounds, EraseState, ProgramState
  <2>4. CASE flash' = flash
    <3>1. Coherent'
      BY <2>1, <2>4 DEF LogState, CallState, Coherent, WriteState, IsCurrent, driver
    <3>2. Layout'
      BY <2>4 DEF LogState, Layout, NoGap, HalfErased
    <3>3. QED
      BY <2>1, <2>3, <3>1, <3>2 DEF LogState, Kept
  <2>5. CASE flash' = SectorErased(sector)
    <3>1. /\ nvdata_blob_offset = NBlobs - 1
          /\ nvdata_cache # Erased /\ flash[nvdata_blob_offset] = nvdata_cache
          /\ \/ \A b \in Blobs : flash'[b] = Erased
             \/ HalfErased' /\ flash'[NBlobs - 1] = flash[NBlobs - 1] /\ flash'[NBlobs - 1] # Erased
      BY <2>1, <2>5, SectorGone
    <3>2. Layout'
      BY <3>1 DEF Layout, NoGap
    <3>3. NBlobs - 1 \in Blobs
      BY DEF Blobs
    <3>4. CASE \A b \in Blobs : flash'[b] = Erased
      <4>1. flash'[nvdata_blob_offset] # flash[nvdata_blob_offset]
        BY <3>1, <3>3, <3>4
      <4>2. stale'
        BY <2>1, <4>1, Zenon
      <4>3. Coherent'
        BY <4>2 DEF Coherent
      <4>4. QED
        BY <2>1, <2>3, <3>2, <4>3 DEF LogState, Kept
    <3>5. CASE flash'[NBlobs - 1] = flash[NBlobs - 1] /\ flash'[NBlobs - 1] # Erased
      <4>1. \A b \in Blobs : ~(b > NBlobs - 1)
        BY DEF Blobs
      <4>2. nvdata_blob_offset' = NBlobs - 1 /\ nvdata_cache' = nvdata_cache
        BY <2>1, <3>1 DEF driver
      <4>3. IsCurrent(nvdata_blob_offset)' /\ flash'[nvdata_blob_offset'] = nvdata_cache'
        BY <3>1, <3>5, <4>1, <4>2 DEF IsCurrent
      <4>4. Coherent'
        BY <4>3 DEF Coherent
      <4>5. QED
        BY <2>1, <2>3, <3>2, <4>4 DEF LogState, Kept
    <3>6. QED
      BY <3>1, <3>4, <3>5
  <2>6. QED
    BY <2>2, <2>4, <2>5
<1>12. CASE EraseDone
  BY <1>12, EraseRestores
<1>13. CASE Program
  <2>1. /\ buf \in Images
        /\ buf # Erased
        /\ flash'[nvdata_blob_offset] = buf
        /\ \A b \in Blobs \ {nvdata_blob_offset} : flash'[b] = flash[b]
    BY <1>0, <1>13 DEF Program, LogState, CallState, WriteState, ProgramState, TypeOK, Erased
  <2>2. /\ Layout'
        /\ IsCurrent(nvdata_blob_offset)'
    <3>1. /\ flash' = [flash EXCEPT ![nvdata_blob_offset] = flash[nvdata_blob_offset] \cap buf]
          /\ flash[nvdata_blob_offset] \cap buf = buf
      BY <1>0, <1>13 DEF Program, LogState, ProgramState
    <3>2. Layout'
      BY <1>0, <1>13, <2>1, <3>1, ProgramLayout DEF Program
    <3>3. IsCurrent(nvdata_blob_offset)'
      <4>1. \A b \in Blobs : b > nvdata_blob_offset => flash'[b] = Erased
        BY <1>0, <1>13, <2>1 DEF Program, LogState, ProgramState, TypeOK, Blobs
      <4>2. nvdata_blob_offset' = nvdata_blob_offset /\ flash'[nvdata_blob_offset] # Erased
        BY <1>13, <2>1 DEF Program
      <4>3. QED
        BY <4>1, <4>2 DEF IsCurrent
    <3>4. QED
      BY <3>2, <3>3
  <2>3. Kept'
    BY <1>0, <1>13, <2>1, <2>2 DEF Program, Kept, TypeOK
  <2>4. SearchBounds' /\ Coherent' /\ EraseState' /\ ProgramState'
    BY <1>13, <2>1, <2>2 DEF Program, SearchBounds, Coherent, EraseState,
       ProgramState, WriteState
  <2>5. QED
    BY <2>2, <2>3, <2>4 DEF LogState
<1>14. CASE ProgramFails
  <2>1. PICK w \in Torn(flash[nvdata_blob_offset], buf) :
          flash' = [flash EXCEPT ![nvdata_blob_offset] = w]
    BY <1>14 DEF ProgramFails
  <2>2. w = Erased => flash[nvdata_blob_offset] = Erased
    BY <1>0, <1>14, <2>1, TornErased DEF ProgramFails
  <2>3. pc = "program" /\ pc' = "idle" /\ stale' = TRUE /\ acked' = {}
    BY <1>14 DEF ProgramFails, CallState, WriteState
  <2>4. Layout'
    BY <1>0, <2>1, <2>2, <2>3, ProgramLayout
  <2>5. SearchBounds' /\ Coherent' /\ EraseState' /\ ProgramState'
    BY <2>3 DEF SearchBounds, Coherent, EraseState, ProgramState
  <2>6. QED
    BY <2>3, <2>4, <2>5 DEF LogState, Kept
<1>15. CASE PowerLoss
  <2>1. SearchBounds' /\ Coherent' /\ EraseState' /\ ProgramState'
    BY <1>15 DEF PowerLoss, SearchBounds, Coherent, EraseState, ProgramState,
       WriteState
  <2>2. CASE pc = "program"
    <3>1. PICK w \in Torn(flash[nvdata_blob_offset], buf) :
            flash' = [flash EXCEPT ![nvdata_blob_offset] = w]
      BY <1>15, <2>2 DEF PowerLoss
    <3>2. w = Erased => flash[nvdata_blob_offset] = Erased
      BY <1>0, <3>1, TornErased
    <3>4. Layout'
      BY <1>0, <2>2, <3>1, <3>2, ProgramLayout
    <3>5. acked' = {}
      BY <1>15, <2>2 DEF PowerLoss, LogState, CallState, WriteState
    <3>6. QED
      BY <1>0, <2>1, <3>4, <3>5 DEF LogState, CallState, Kept
  <2>3. CASE pc = "erase" /\ sector < NSectors
    <3>1. EraseCutOff /\ acked' = {}
      BY <1>15, <2>3 DEF PowerLoss, CallState, WriteState
    <3>2. flash' \in {flash, SectorErased(sector)}
      BY <1>0, <3>1, CutOff
    <3>3. Layout'
      <4>1. CASE flash' = flash
        BY <4>1 DEF LogState, Layout, NoGap, HalfErased
      <4>2. CASE flash' = SectorErased(sector)
        <5>1. HalfErased' \/ \A b \in Blobs : flash'[b] = Erased
          BY <2>3, <4>2, SectorGone
        <5>2. QED
          BY <5>1 DEF Layout, NoGap
      <4>3. QED
        BY <3>2, <4>1, <4>2
    <3>4. QED
      BY <2>1, <3>1, <3>3 DEF LogState, Kept
  <2>4. CASE pc # "program" /\ ~(pc = "erase" /\ sector < NSectors)
    <3>1. flash' = flash /\ acked' = acked
      BY <1>15, <2>4 DEF PowerLoss
    <3>2. QED
      BY <2>1, <3>1, FlashUntouched
  <2>5. QED
    BY <2>2, <2>3, <2>4
<1>16. CASE UNCHANGED vars
  BY <1>16 DEF vars, LogState, Layout, NoGap, HalfErased, SearchBounds, Coherent, EraseState,
     ProgramState, Kept, IsCurrent
<1>17. QED
  BY <1>1, <1>2, <1>3, <1>4, <1>5, <1>6, <1>7, <1>8, <1>9, <1>10, <1>11, <1>12,
     <1>13, <1>14, <1>15, <1>16 DEF Next

(* The invariant is inductive: writing on after a failure ends LogState,   *)
(* the next complete erase brings it back.                                 *)
LEMMA LogInvStep ==
  ASSUME AreaSize, LogInv, [Next]_vars
  PROVE  LogInv'
<1>1. CallState'
  BY CallStateStep DEF LogInv
<1>2. ASSUME ~failed' PROVE LogState'
  <2>1. CASE ~failed
    BY <1>1, <1>2, <2>1, LogStateStep DEF LogInv
  <2>2. CASE EraseDone
    BY <1>1, <2>2, EraseRestores DEF LogInv
  <2>3. CASE \E v \in Images : NvdataWrite(v)
    <3>1. failed' = (failed \/ stale)
      BY <2>3 DEF NvdataWrite
    <3>2. ~failed
      BY <1>2, <3>1, Zenon
    <3>3. QED
      BY <2>1, <3>2
  <2>4. CASE EraseFails \/ PowerLoss
    <3>1. EraseCutOff \/ failed' = failed
      BY <2>4 DEF EraseFails, PowerLoss
    <3>2. ~failed
      BY <1>2, <3>1, CutOff DEF LogInv, CallState
    <3>3. QED
      BY <2>1, <3>2
  <2>5. CASE ~EraseDone /\ ~(\E v \in Images : NvdataWrite(v)) /\ ~(EraseFails \/ PowerLoss)
    <3>1. failed' = failed
      BY <2>5 DEF Next, vars, NvdataRead, SearchStep, SearchDone, SearchFails, WriteUnchanged,
         WriteInPlace, WriteNextBlob, WriteStartOver, EraseSector, Program, ProgramFails
    <3>2. QED
      BY <1>2, <2>1, <3>1
  <2>6. QED
    BY <2>2, <2>3, <2>4, <2>5
<1>3. QED
  BY <1>1, <1>2 DEF LogInv

(* When the area is one erase sector or two, an nvdata write that returned   *)
(* VB2_SUCCESS survives any number of power losses and failed calls, unless  *)
(* since the area was last erased vboot has written on without a reboot      *)
(* after a flash_write or flash_erase that failed under way, or an erase was *)
(* left in the middle of a sector.                                           *)
THEOREM WritesAreDurable ==
  ASSUME AreaSize
  PROVE  Spec => []AckedDurable
<1>1. LogInv /\ [Next]_vars => LogInv'
  BY LogInvStep
<1>2. LogInv => AckedDurable
  BY DEF LogInv, LogState, Kept, AckedDurable
<1>3. QED
  BY LogInvInit, <1>1, <1>2, PTL DEF Spec

(* Under the same conditions nvdata_blob_offset and nvdata_cache are the   *)
(* offset and the contents of the last non-erased blob between two calls.  *)
THEOREM CacheIsCoherent ==
  ASSUME AreaSize
  PROVE  Spec => []CacheCoherent
<1>1. LogInv /\ [Next]_vars => LogInv'
  BY LogInvStep
<1>2. LogInv => CacheCoherent
  BY DEF LogInv, LogState, Coherent, CacheCoherent
<1>3. QED
  BY LogInvInit, <1>1, <1>2, PTL DEF Spec

(* Under the same conditions flash_write is never asked to turn a 0 bit    *)
(* into a 1.                                                               *)
THEOREM ProgramsFit ==
  ASSUME AreaSize
  PROVE  Spec => []ProgramFits
<1>1. LogInv /\ [Next]_vars => LogInv'
  BY LogInvStep
<1>2. LogInv => ProgramFits
  BY DEF LogInv, LogState, ProgramState, ProgramFits
<1>3. QED
  BY LogInvInit, <1>1, <1>2, PTL DEF Spec

(* A step that changes a blob changes the last non-erased one or its         *)
(* successor, unless the log is full: the current image is not given up      *)
(* earlier, and the one before it is never touched.                          *)
LEMMA TailStep ==
  ASSUME LogInv, [Next]_vars, ~failed, NEW b \in Blobs, flash'[b] # flash[b]
  PROVE  \/ flash[NBlobs - 1] # Erased
         \/ IsCurrent(b)
         \/ b > 0 /\ IsCurrent(b - 1)
<1> USE NvdataAssumption
<1>0. TypeOK /\ LogState
  BY DEF LogInv, CallState
<1>1. \/ pc = "erase" /\ sector < NSectors
      \/ pc = "program" /\ (Program \/ ProgramFails \/ PowerLoss)
  BY DEF Next, vars, NvdataRead, NvdataWrite, SearchStep, SearchDone, SearchFails, WriteUnchanged,
     WriteInPlace, WriteNextBlob, WriteStartOver, EraseSector, EraseFails, EraseDone, Program,
     ProgramFails, PowerLoss
<1>2. CASE pc = "erase" /\ sector < NSectors
  <2>1. initialized /\ ~stale
    BY <1>0, <1>2 DEF LogInv, CallState, WriteState, LogState, StaleState
  <2>2. nvdata_blob_offset = NBlobs - 1 /\ nvdata_cache # Erased
    BY <1>0, <1>2 DEF LogState, EraseState
  <2>3. flash[nvdata_blob_offset] = nvdata_cache
    BY <1>0, <1>2, <2>1 DEF LogState, Coherent
  <2>4. QED
    BY <2>2, <2>3
<1>3. CASE pc = "program" /\ (Program \/ ProgramFails \/ PowerLoss)
  <2>1. \E w : flash' = [flash EXCEPT ![nvdata_blob_offset] = w]
    BY <1>3 DEF Program, ProgramFails, PowerLoss
  <2>2. b = nvdata_blob_offset
    BY <1>0, <2>1 DEF TypeOK
  <2>3. \A c \in Blobs : c > b => flash[c] = Erased
    BY <1>0, <1>3, <2>2 DEF LogState, ProgramState
  <2>4. CASE \A c \in Blobs : c < b => flash[c] # Erased
    <3>1. CASE b = 0 \/ flash[b] # Erased
      BY <2>3, <3>1 DEF IsCurrent
    <3>2. CASE b # 0 /\ flash[b] = Erased
      <4>1. b - 1 \in Blobs /\ b - 1 < b /\ b > 0
        BY <3>2 DEF Blobs
      <4>2. \A c \in Blobs : c > b - 1 => c = b \/ c > b
        BY DEF Blobs
      <4>3. IsCurrent(b - 1)
        BY <2>3, <2>4, <3>2, <4>1, <4>2 DEF IsCurrent
      <4>4. QED
        BY <4>1, <4>3
    <3>3. QED
      BY <3>1, <3>2
  <2>5. CASE HalfErased /\ b = NBlobs - 1
    BY <2>5 DEF HalfErased, Blobs
  <2>6. QED
    BY <1>0, <1>3, <2>2, <2>4, <2>5 DEF LogState, ProgramState
<1>4. QED
  BY <1>1, <1>2, <1>3

(* The current image is given up only when the log is full: under the same   *)
(* conditions nothing but the last non-erased blob and its successor changes *)
(* before the last slot is in use (nvdata_flash_write and the erase of it).  *)
THEOREM TailOnly ==
  ASSUME AreaSize
  PROVE  Spec => OnlyTailChanges
<1>1. LogInv /\ [Next]_vars => LogInv'
  BY LogInvStep
<1>2. LogInv /\ [Next]_vars =>
        [failed \/ \A b \in Blobs :
           flash'[b] # flash[b] =>
             \/ flash[NBlobs - 1] # Erased
             \/ IsCurrent(b)
             \/ b > 0 /\ IsCurrent(b - 1)]_flash
  BY TailStep
<1>3. QED
  BY LogInvInit, <1>1, <1>2, PTL DEF Spec, OnlyTailChanges
=============================================================================
