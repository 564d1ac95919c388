------------------------------ MODULE NvmeProofs -------------------------------
(* Theorems about Nvme, for queues of every size.                            *)
EXTENDS Nvme, Integers, TLAPS, FiniteSetTheorems

-----------------------------------------------------------------------------
(* Positions in a ring of w entries are counts modulo w.                     *)

LEMMA OnlyMultiple ==
  ASSUME NEW w \in Nat \ {0}, NEW k \in Int, -w < w * k, w * k < w
  PROVE  k = 0
<1>1. k >= 1 => w * k >= w
  OBVIOUS
<1>2. k <= -1 => w * k <= -w
  OBVIOUS
<1>3. QED
  BY <1>1, <1>2

LEMMA Quotient ==
  ASSUME NEW w \in Nat \ {0}, NEW a \in Nat
  PROVE  a = w * (a \div w) + (a % w) /\ a \div w \in Nat /\ (a % w) \in 0 .. w - 1
OBVIOUS

LEMMA QuotientIs ==
  ASSUME NEW w \in Nat \ {0}, NEW a \in Nat, NEW q \in Int, NEW r \in 0 .. w - 1,
         a = w * q + r
  PROVE  a \div w = q /\ (a % w) = r
<1> DEFINE p == a \div w
           s == (a % w)
<1>1. a = w * p + s /\ p \in Int /\ s \in 0 .. w - 1
  OBVIOUS
<1> HIDE DEF p, s
<1>2. w * (p - q) = r - s /\ p - q \in Int
  BY <1>1
<1>3. p - q = 0
  BY <1>1, <1>2, OnlyMultiple
<1>4. p = q /\ s = r
  BY <1>1, <1>2, <1>3
<1>5. QED
  BY <1>4 DEF p, s

LEMMA RingNext ==
  ASSUME NEW w \in Nat \ {0}, NEW a \in Nat
  PROVE  IF (a % w) + 1 = w
         THEN (a + 1) % w = 0 /\ (a + 1) \div w = a \div w + 1
         ELSE (a + 1) % w = (a % w) + 1 /\ (a + 1) \div w = a \div w
<1> DEFINE q == a \div w
           r == (a % w)
<1>1. a = w * q + r /\ q \in Nat /\ r \in 0 .. w - 1
  BY Quotient
<1> HIDE DEF q, r
<1>2. CASE r + 1 = w
  <2>1. a + 1 = w * (q + 1) + 0
    BY <1>1, <1>2
  <2>2. QED
    <3>1. (a + 1) % w = 0 /\ (a + 1) \div w = q + 1
      BY <1>1, <2>1, QuotientIs
    <3>2. QED
      BY <1>2, <3>1 DEF q, r
<1>3. CASE r + 1 # w
  <2>1. a + 1 = w * q + (r + 1) /\ r + 1 \in 0 .. w - 1
    BY <1>1, <1>3
  <2>2. QED
    <3>1. (a + 1) % w = r + 1 /\ (a + 1) \div w = q
      BY <1>1, <2>1, QuotientIs
    <3>2. QED
      BY <1>3, <3>1 DEF q, r
<1>4. QED
  BY <1>2, <1>3

LEMMA RingMoves ==
  ASSUME NEW w \in Nat \ {0}, w >= 2, NEW a \in Nat
  PROVE  (a + 1) % w # a % w
<1> DEFINE r == a % w
<1>1. r \in 0 .. w - 1
  BY Quotient
<1>2. IF r + 1 = w THEN (a + 1) % w = 0 ELSE (a + 1) % w = r + 1
  BY RingNext
<1> HIDE DEF r
<1>3. (a + 1) % w # r
  BY <1>1, <1>2
<1>4. QED
  BY <1>3 DEF r

LEMMA RingTurn ==
  ASSUME NEW w \in Nat \ {0}, NEW a \in Nat
  PROVE  (a + w) % w = (a % w) /\ (a + w) \div w = a \div w + 1
<1> DEFINE q == a \div w
           r == (a % w)
<1>1. a = w * q + r /\ q \in Nat /\ r \in 0 .. w - 1
  BY Quotient
<1> HIDE DEF q, r
<1>2. a + w = w * (q + 1) + r /\ a + w \in Nat
  BY <1>1
<1>3. (a + w) % w = r /\ (a + w) \div w = q + 1
  BY <1>1, <1>2, QuotientIs
<1>4. QED
  BY <1>3 DEF q, r

LEMMA RingSame ==
  ASSUME NEW w \in Nat \ {0}, NEW a \in Nat, NEW b \in Nat,
         a - b < w, b - a < w, (a % w) = (b % w)
  PROVE  a = b
<1> DEFINE p == a \div w
           q == b \div w
<1>1. a = w * p + (a % w) /\ b = w * q + (b % w) /\ p \in Int /\ q \in Int
  BY Quotient
<1> HIDE DEF p, q
<1>2. w * (p - q) = a - b /\ p - q \in Int
  BY <1>1
<1>3. p - q = 0
  BY <1>2, OnlyMultiple
<1>4. QED
  BY <1>2, <1>3

LEMMA RingAdd ==
  ASSUME NEW w \in Nat \ {0}, NEW a \in Nat, NEW b \in Nat
  PROVE  ((a % w) + b) % w = (a + b) % w
<1> DEFINE p == a \div w
           r == (a % w)
           q == (r + b) \div w
           s == (r + b) % w
<1>1. a = w * p + r /\ p \in Nat /\ r \in 0 .. w - 1
  BY Quotient
<1>2. r + b = w * q + s /\ q \in Nat /\ s \in 0 .. w - 1
  <2>1. r + b \in Nat
    BY <1>1
  <2> HIDE DEF r
  <2>2. QED
    BY <2>1, Quotient
<1> HIDE DEF p, r, q, s
<1>3. a + b = w * (p + q) + s /\ p + q \in Int /\ a + b \in Nat
  BY <1>1, <1>2
<1>4. (a + b) % w = s
  BY <1>2, <1>3, QuotientIs
<1>5. QED
  BY <1>4 DEF r, s

LEMMA RingDistance ==
  ASSUME NEW w \in Nat \ {0}, NEW a \in Nat, NEW b \in Nat, a <= b, b - a < w
  PROVE  ((b % w) + w - (a % w)) % w = b - a
<1> DEFINE p == a \div w
           q == b \div w
<1>1. /\ a = w * p + (a % w) /\ b = w * q + (b % w) /\ p \in Int /\ q \in Int
      /\ (a % w) \in 0 .. w - 1 /\ (b % w) \in 0 .. w - 1
  BY Quotient
<1> HIDE DEF p, q
<1>2. (b % w) + w - (a % w) = w * (1 + p - q) + (b - a) /\ 1 + p - q \in Int
  BY <1>1
<1>3. (b % w) + w - (a % w) \in Nat
  BY <1>1
<1>4. QED
  BY <1>2, <1>3, QuotientIs

(* What the driver computes for the entries from one position to another:    *)
(* never none, and a whole turn when the positions are the same.             *)
LEMMA RingCount ==
  ASSUME NEW w \in Nat \ {0}, NEW a \in Nat, NEW b \in Nat, a < b, b - a <= w
  PROVE  (IF (a % w) < (b % w) THEN (b % w) - (a % w) ELSE (w - (a % w)) + (b % w)) = b - a
<1> DEFINE p == a \div w
           q == b \div w
<1>1. /\ a = w * p + (a % w) /\ b = w * q + (b % w) /\ p \in Int /\ q \in Int
      /\ (a % w) \in 0 .. w - 1 /\ (b % w) \in 0 .. w - 1
  BY Quotient
<1> HIDE DEF p, q
<1>2. w * (q - p) = (b - a) - ((b % w) - (a % w)) /\ q - p \in Int
  BY <1>1
<1>3. q - p = 0 \/ q - p = 1
  <2>1. q - p >= 2 => w * (q - p) >= 2 * w
    BY <1>2
  <2>2. q - p <= -1 => w * (q - p) <= -w
    BY <1>2
  <2>3. QED
    BY <1>1, <1>2, <2>1, <2>2
<1>4. QED
  BY <1>1, <1>2, <1>3

-----------------------------------------------------------------------------
(* Types.  What a call knows of its place, and that every position of the    *)
(* submission queue that the controller may take has been written.           *)

LEMMA Sizes ==
  /\ CCQ_SIZE \in Nat \ {0} /\ CCQ_SIZE >= 2
  /\ iosq_sz \in Nat \ {0} /\ iosq_sz >= 2
  /\ iocq_sz \in Nat \ {0} /\ iocq_sz >= 2 /\ iocq_sz <= CCQ_SIZE
  /\ MaxTransfer \in Nat \ {0} /\ MaxRequests \in Nat \ {0}
BY NvmeAssumption DEF iosq_sz, iocq_sz, SizeMin

PlaceInv ==
  /\ pc \in {"cut", "submit", "poll", "last"} => requests \in 1 .. MaxRequests
  /\ pc \in {"submit", "poll"} => count > 0
  /\ pc = "last" => count = 0

WrittenInv ==
  \/ \A j \in Indices(iosq_sz) : IsCommand(sq[j])
  \/ /\ ctrl.head <= ctrl.tail /\ ctrl.tail <= sq_t
     /\ \A j \in Indices(sq_t) : IsCommand(sq[j])

TypeInv == TypeOK /\ PlaceInv /\ WrittenInv

LEMMA TypeInit == Init => TypeInv
<1> SUFFICES ASSUME Init
             PROVE  TypeInv
  OBVIOUS
<1>1. 0 \in Indices(iosq_sz) /\ 0 \in Indices(iocq_sz) /\ 0 \in Indices(CCQ_SIZE)
  BY Sizes DEF Indices
<1>2. req \in Requests /\ MaxRequests \in Nat
  BY NvmeAssumption DEF Init
<1>3. /\ sq = [j \in Indices(iosq_sz) |-> NoCommand]
      /\ prp_list \in [Indices(iosq_sz) -> Address \cup {<<>>}]
      /\ cq \in [Indices(CCQ_SIZE) -> [phase: {0, 1}, sqhd: Indices(iosq_sz)]]
      /\ ctrl \in [tail: Indices(iosq_sz), head: Indices(iosq_sz),
                   cq_head: Indices(CCQ_SIZE), cq_tail: Indices(iocq_sz),
                   phase: {0, 1}]
  BY <1>1 DEF Init
<1>4. IsFiniteSet(moved) /\ open \in 0 .. CCQ_SIZE + 1
  BY Sizes, FS_EmptySet DEF Init
<1>5. TypeOK
  BY <1>1, <1>2, <1>3, <1>4 DEF Init, TypeOK
<1>6. PlaceInv
  BY DEF Init, PlaceInv
<1>7. WrittenInv
  BY DEF Init, WrittenInv, Indices
<1>8. QED
  BY <1>5, <1>6, <1>7 DEF TypeInv

(* The command that is put.                                                  *)
NewCommand == [opc |-> req[1], slba |-> start, nlb |-> Chunk, cid |-> cid,
               prp |-> <<requests, buffer>>]

LEMMA ChunkSize ==
  ASSUME TypeInv, MayPut
  PROVE  /\ Chunk \in 1 .. MaxTransfer /\ Chunk <= count /\ count - Chunk \in Nat
         /\ NewCommand.prp \in Address /\ IsCommand(NewCommand)
<1>1. count \in Nat \ {0} /\ requests \in 1 .. MaxRequests /\ buffer \in Nat /\ start \in Nat
  BY DEF MayPut, TypeInv, TypeOK, PlaceInv
<1>2. Chunk \in 1 .. MaxTransfer /\ Chunk <= count /\ count - Chunk \in Nat
  BY <1>1, Sizes DEF Chunk, SizeMin
<1>3. NewCommand.prp \in Address
  BY <1>1 DEF NewCommand, Address
<1>4. req[1] \in {"read", "write"}
  BY NvmeAssumption DEF TypeInv, TypeOK
<1>5. IsCommand(NewCommand)
  BY <1>1, <1>2, <1>3, <1>4 DEF NewCommand, IsCommand, TypeInv, TypeOK
<1>6. QED
  BY <1>2, <1>3, <1>5

LEMMA PutTypes ==
  ASSUME TypeInv, Put
  PROVE  TypeInv'
<1>1. /\ Chunk \in 1 .. MaxTransfer /\ count - Chunk \in Nat
      /\ NewCommand.prp \in Address /\ IsCommand(NewCommand)
  BY ChunkSize DEF Put
<1>2. sq' = [sq EXCEPT ![sq_t] = NewCommand] /\ FillPrp(NewCommand)
  BY DEF Put, NewCommand
<1>3. /\ cid' = cid + 1 /\ sq_t' = NextTail /\ pc' = "cut"
      /\ start' = start + Chunk /\ buffer' = buffer + Chunk /\ count' = count - Chunk
      /\ open' = SizeMin(open + 1, CCQ_SIZE + 1)
      /\ UNCHANGED <<requests, req, cq_h, pt, sqhd, ncmds, result, late,
                     cq, ctrl, inflight, moved, failed>>
  BY DEF Put, Advance
<1>4. /\ sq_t \in Indices(iosq_sz) /\ sq_t' \in Indices(iosq_sz)
      /\ \/ sq_t' = sq_t + 1
         \/ sq_t = iosq_sz - 1
  <2>1. PICK n \in Nat \ {0} : n = iosq_sz
    BY Sizes
  <2>2. sq_t \in 0 .. n - 1
    BY <2>1 DEF TypeInv, TypeOK, Indices
  <2>3. sq_t' = IF sq_t + 1 > n - 1 THEN 0 ELSE sq_t + 1
    BY <1>3, <2>1 DEF NextTail
  <2>4. sq_t' \in 0 .. n - 1
    BY <2>2, <2>3
  <2>5. QED
    BY <2>1, <2>2, <2>3, <2>4 DEF Indices
<1>5. /\ DOMAIN sq' = Indices(iosq_sz) /\ sq'[sq_t] = NewCommand
      /\ \A j \in Indices(iosq_sz) : j # sq_t => sq'[j] = sq[j]
  BY <1>2, <1>4 DEF TypeInv, TypeOK
<1>6. \A j \in DOMAIN sq' : sq'[j] = NoCommand \/ IsCommand(sq'[j])
  BY <1>1, <1>5 DEF TypeInv, TypeOK
<1>7. prp_list' \in [Indices(iosq_sz) -> Address \cup {<<>>}]
  BY <1>1, <1>2 DEF FillPrp, TypeInv, TypeOK
<1>8. open' \in 0 .. CCQ_SIZE + 1
  BY <1>3, Sizes DEF SizeMin, TypeInv, TypeOK
<1>9. start' \in Nat /\ buffer' \in Nat /\ count' \in Nat /\ cid' \in Nat
  BY <1>1, <1>3, Sizes DEF TypeInv, TypeOK
<1>10. TypeOK'
  BY <1>3, <1>4, <1>5, <1>6, <1>7, <1>8, <1>9 DEF TypeInv, TypeOK
<1>11. PlaceInv'
  BY <1>3 DEF TypeInv, PlaceInv, Put, MayPut
<1>12. WrittenInv'
  <2>1. CASE \A j \in Indices(iosq_sz) : IsCommand(sq[j])
    BY <1>1, <1>5, <2>1 DEF WrittenInv
  <2>2. CASE /\ ctrl.head <= ctrl.tail /\ ctrl.tail <= sq_t
             /\ \A j \in Indices(sq_t) : IsCommand(sq[j])
    <3>1. \A j \in Indices(iosq_sz) : j <= sq_t => IsCommand(sq'[j])
      BY <1>1, <1>4, <1>5, <2>2 DEF Indices
    <3>2. CASE sq_t' = sq_t + 1
      <4>1. \A j \in Indices(sq_t') : IsCommand(sq'[j])
        BY <1>4, <3>1, <3>2, Sizes DEF Indices
      <4>2. ctrl'.head <= ctrl'.tail /\ ctrl'.tail <= sq_t'
        <5>1. ctrl.tail \in Nat /\ sq_t \in Nat
          BY <1>4, Sizes DEF TypeInv, TypeOK, Indices
        <5>2. QED
          BY <1>3, <2>2, <3>2, <5>1
      <4>3. QED
        BY <4>1, <4>2 DEF WrittenInv
    <3>3. CASE sq_t = iosq_sz - 1
      BY <3>1, <3>3, Sizes DEF WrittenInv, Indices
    <3>4. QED
      BY <1>4, <3>2, <3>3
  <2>3. QED
    BY <2>1, <2>2 DEF TypeInv, WrittenInv
<1>13. QED
  BY <1>10, <1>11, <1>12 DEF TypeInv
LEMMA CallTypes ==
  ASSUME TypeInv, \/ Request \/ CompleteInFlight \/ CompleteAll \/ PutUndefined
                  \/ TakeCompletion \/ PollTimeout \/ PollDone
  PROVE  TypeInv'
<1>1. /\ UNCHANGED <<sq, sq_t, inflight, prp_list, cq, moved>>
      /\ ctrl'.head = ctrl.head /\ ctrl'.tail \in {ctrl.tail, sq_t}
      /\ TypeOK /\ PlaceInv
  BY DEF Request, CompleteInFlight, CompleteAll, StartPoll, PutUndefined, TakeCompletion,
     PollTimeout, PollDone, driver, TypeInv, TypeOK
<1>2. WrittenInv'
  <2>1. ctrl.head \in Nat /\ sq_t \in Nat /\ ctrl.tail \in Nat
    BY <1>1, Sizes DEF TypeOK, Indices
  <2>2. QED
    BY <1>1, <2>1 DEF TypeInv, WrittenInv
<1>3. CASE Request
  <2>1. requests' \in 1 .. MaxRequests
    BY <1>1, <1>3, Sizes DEF Request, TypeOK
  <2>2. req' \in Requests /\ start' \in Nat /\ count' \in Nat
    BY <1>3, NvmeAssumption DEF Request
  <2>3. QED
    BY <1>1, <1>2, <1>3, <2>1, <2>2 DEF Request, TypeInv, TypeOK, PlaceInv
<1>4. CASE CompleteInFlight \/ CompleteAll
  <2>1. Outstanding \in Nat
    BY <1>1, Sizes DEF TypeOK, Indices, Outstanding
  <2>2. QED
    BY <1>1, <1>2, <1>4, <2>1
       DEF CompleteInFlight, CompleteAll, StartPoll, TypeInv, TypeOK, PlaceInv
<1>5. CASE PutUndefined
  BY <1>1, <1>2, <1>5 DEF PutUndefined, driver, TypeInv, TypeOK, PlaceInv
<1>6. CASE TakeCompletion
  <2>1. ncmds' \in Nat /\ cq_h' \in Indices(CCQ_SIZE) /\ pt' \in {0, 1}
    BY <1>1, <1>6, Sizes DEF TakeCompletion, TypeOK, Indices
  <2>2. sqhd' \in Indices(iosq_sz)
    BY <1>1, <1>6 DEF TakeCompletion, TypeOK
  <2>3. open' \in 0 .. CCQ_SIZE + 1
    BY <1>1, <1>6, Sizes DEF TakeCompletion, TypeOK
  <2>4. TypeOK'
    BY <1>1, <1>6, <2>1, <2>2, <2>3 DEF TakeCompletion, TypeOK
  <2>5. QED
    BY <1>1, <1>2, <1>6, <2>4 DEF TakeCompletion, TypeInv, PlaceInv
<1>7. CASE PollTimeout
  BY <1>1, <1>2, <1>7 DEF PollTimeout, Return, Polling, TypeInv, TypeOK, PlaceInv
<1>8. CASE PollDone
  <2>1. cid' \in Nat
    BY <1>1, <1>8 DEF PollDone, TypeOK
  <2>2. QED
    BY <1>1, <1>2, <1>8, <2>1 DEF PollDone, Return, Polling, TypeInv, TypeOK, PlaceInv
<1>9. QED
  BY <1>3, <1>4, <1>5, <1>6, <1>7, <1>8

LEMMA FetchTypes ==
  ASSUME TypeInv, Fetch
  PROVE  TypeInv' /\ IsCommand(sq[ctrl.head])
<1>1. /\ ctrl.head # ctrl.tail /\ inflight' = inflight \cup {sq[ctrl.head]}
      /\ ctrl' = [ctrl EXCEPT !.head = (ctrl.head + 1) % iosq_sz]
      /\ UNCHANGED <<pc, driver, cq, moved, failed>>
  BY DEF Fetch
<1>2. /\ ctrl.head \in Nat /\ ctrl.tail \in Nat /\ sq_t \in Nat
      /\ ctrl.head < iosq_sz /\ ctrl.tail < iosq_sz /\ sq_t < iosq_sz
  BY Sizes DEF TypeInv, TypeOK, Indices
<1>3. (ctrl.head + 1) % iosq_sz \in Indices(iosq_sz)
  BY <1>2, Sizes DEF Indices
<1>4. ctrl.head + 1 < iosq_sz => (ctrl.head + 1) % iosq_sz = ctrl.head + 1
  BY <1>2, Sizes
<1>5. IsCommand(sq[ctrl.head]) /\ WrittenInv'
  <2>0. ctrl.head \in Indices(iosq_sz) /\ sq' = sq /\ sq_t' = sq_t
    BY <1>1 DEF driver, TypeInv, TypeOK
  <2>1. CASE \A j \in Indices(iosq_sz) : IsCommand(sq[j])
    BY <2>0, <2>1 DEF WrittenInv
  <2>2. CASE /\ ctrl.head <= ctrl.tail /\ ctrl.tail <= sq_t
             /\ \A j \in Indices(sq_t) : IsCommand(sq[j])
    <3>0. ctrl.head # ctrl.tail
      BY <1>1
    <3>1. ctrl.head \in Indices(sq_t) /\ ctrl.head + 1 < iosq_sz /\ ctrl.head + 1 <= ctrl.tail
      BY <1>2, <2>2, <3>0, Sizes DEF Indices
    <3>2. ctrl'.head = ctrl.head + 1 /\ ctrl'.tail = ctrl.tail
      BY <1>1, <1>4, <3>1 DEF TypeInv, TypeOK
    <3>3. QED
      BY <2>0, <2>2, <3>1, <3>2 DEF WrittenInv
  <2>3. QED
    BY <2>1, <2>2 DEF TypeInv, WrittenInv
<1>6. TypeOK'
  BY <1>1, <1>3, <1>5 DEF TypeInv, TypeOK, driver
<1>7. PlaceInv'
  BY <1>1 DEF TypeInv, PlaceInv, driver
<1>8. QED
  BY <1>5, <1>6, <1>7 DEF TypeInv

LEMMA BlocksFinite ==
  ASSUME NEW opc, NEW lba, NEW at, NEW n \in Nat
  PROVE  IsFiniteSet(Blocks(opc, lba, at, n))
<1> DEFINE B(k) == <<opc, lba + k, at[1], at[2] + k>>
<1>1. IsFiniteSet(Indices(n))
  BY FS_Interval DEF Indices
<1>2. IsFiniteSet({B(k) : k \in Indices(n)})
  <2> DEFINE f == [k \in Indices(n) |-> B(k)]
  <2>1. f \in [Indices(n) -> {B(k) : k \in Indices(n)}]
    OBVIOUS
  <2>2. \A x \in {B(k) : k \in Indices(n)} : \E k \in Indices(n) : f[k] = x
    OBVIOUS
  <2>3. f \in Surjection(Indices(n), {B(k) : k \in Indices(n)})
    BY <2>1, <2>2, Zenon DEF Surjection
  <2> HIDE DEF f, B
  <2>4. QED
    BY <1>1, <2>3, FS_Surjection
<1>3. QED
  BY <1>2 DEF Blocks

LEMMA PostTypes ==
  ASSUME TypeInv, Complete \/ CompleteWithError
  PROVE  TypeInv'
<1>1. PICK c \in inflight :
        /\ Post(c)
        /\ \/ moved' = moved \cup Blocks(c.opc, c.slba, DataAt(c), c.nlb) /\ failed' = failed
           \/ moved' = moved /\ failed' = TRUE
  BY DEF Complete, CompleteWithError
<1>2. /\ inflight' = inflight \ {c} /\ UNCHANGED <<pc, driver>>
      /\ cq' = [cq EXCEPT ![ctrl.cq_tail] = [phase |-> ctrl.phase, sqhd |-> ctrl.head]]
      /\ ctrl' = [ctrl EXCEPT !.cq_tail = (ctrl.cq_tail + 1) % iocq_sz,
                              !.phase = IF ctrl.cq_tail + 1 = iocq_sz THEN 1 - ctrl.phase
                                        ELSE ctrl.phase]
  BY <1>1 DEF Post
<1>3. (ctrl.cq_tail + 1) % iocq_sz \in Indices(iocq_sz)
  <2>1. ctrl.cq_tail + 1 \in Nat
    BY Sizes DEF TypeInv, TypeOK, Indices
  <2>2. QED
    BY <2>1, Sizes DEF Indices
<1>4. ctrl' \in [tail: Indices(iosq_sz), head: Indices(iosq_sz),
                 cq_head: Indices(CCQ_SIZE), cq_tail: Indices(iocq_sz), phase: {0, 1}]
  <2>1. ctrl.phase \in {0, 1} /\ 1 - ctrl.phase \in {0, 1}
    BY DEF TypeInv, TypeOK
  <2>2. ctrl' = [ctrl EXCEPT !.cq_tail = ctrl'.cq_tail, !.phase = ctrl'.phase]
    BY <1>2 DEF TypeInv, TypeOK
  <2>3. ctrl'.cq_tail \in Indices(iocq_sz) /\ ctrl'.phase \in {0, 1}
    BY <1>2, <1>3, <2>1 DEF TypeInv, TypeOK
  <2>4. QED
    BY <2>2, <2>3 DEF TypeInv, TypeOK
<1>5. cq' \in [Indices(CCQ_SIZE) -> [phase: {0, 1}, sqhd: Indices(iosq_sz)]]
  BY <1>2 DEF TypeInv, TypeOK
<1>6. IsFiniteSet(moved') /\ failed' \in BOOLEAN
  <2>1. c.nlb \in Nat
    BY Sizes DEF TypeInv, TypeOK, IsCommand
  <2>2. IsFiniteSet(Blocks(c.opc, c.slba, DataAt(c), c.nlb))
    BY <2>1, BlocksFinite
  <2>3. IsFiniteSet(moved) /\ failed \in BOOLEAN
    BY DEF TypeInv, TypeOK
  <2>4. IsFiniteSet(moved \cup Blocks(c.opc, c.slba, DataAt(c), c.nlb))
    BY <2>2, <2>3, FS_Union
  <2>5. QED
    BY <1>1, <2>3, <2>4
<1>7. TypeOK'
  BY <1>2, <1>4, <1>5, <1>6 DEF TypeInv, TypeOK, driver
<1>8. ctrl'.head = ctrl.head /\ ctrl'.tail = ctrl.tail
  BY <1>2 DEF TypeInv, TypeOK
<1>9. PlaceInv' /\ WrittenInv'
  BY <1>2, <1>8 DEF TypeInv, PlaceInv, WrittenInv, driver
<1>10. QED
  BY <1>7, <1>9 DEF TypeInv

LEMMA TypeStep == TypeInv /\ [Next]_vars => TypeInv'
<1> SUFFICES ASSUME TypeInv, [Next]_vars
             PROVE  TypeInv'
  OBVIOUS
<1>1. CASE Next
  BY <1>1, PutTypes, CallTypes, FetchTypes, PostTypes DEF Next
<1>2. CASE UNCHANGED vars
  BY <1>2 DEF vars, driver, TypeInv, TypeOK, PlaceInv, WrittenInv, Indices
<1>3. QED
  BY <1>1, <1>2

(* The rings, the positions and the commands keep their types: no poll       *)
(* leaves the rings, and the controller never takes a slot that was not      *)
(* written (nvme_internal_read, nvme_complete_cmds_polled).                  *)
THEOREM TypeCorrect == Spec => []TypeOK
<1>1. TypeInv => TypeOK
  BY DEF TypeInv
<1>2. QED
  BY <1>1, TypeInit, TypeStep, PTL DEF Spec
-----------------------------------------------------------------------------
(* The rings.  Behind the positions modulo the size there are counts: of     *)
(* commands put (T), announced by the doorbell (D), fetched (F), posted (P), *)
(* of completions taken (C) and given back by the doorbell (A), the count    *)
(* that sqhd stands for (S) and those that the entries carry (h).            *)

N == CCQ_SIZE

(* Both rings have the size that the driver counts with: the controller      *)
(* allows queues of NVME_CCQ_SIZE = NVME_CSQ_SIZE entries.                   *)
SameSizes == CSQ_SIZE = CCQ_SIZE /\ MQES >= CCQ_SIZE

\* The phase of the entries of the round before the one that position j is in.
Round(j) == (j \div N) % 2

Order(T, D, F, P, C, S, A) ==
  /\ T \in Nat /\ D \in Nat /\ F \in Nat /\ P \in Nat /\ C \in Nat /\ S \in Nat /\ A \in Nat
  /\ A <= C /\ C <= P /\ P <= F /\ F <= D /\ D <= T
  /\ T <= C + N /\ P < A + N
  /\ C <= S /\ S <= F /\ T < S + N

Places(T, D, F, P, C, S, A) ==
  /\ sq_t = T % N /\ cq_h = C % N /\ sqhd = S % N
  /\ ctrl.tail = D % N /\ ctrl.head = F % N
  /\ ctrl.cq_tail = P % N /\ ctrl.cq_head = A % N
  /\ pt = Round(C) /\ ctrl.phase = 1 - Round(P)
  /\ open = T - C

Entries(F, P, C, S, h) ==
  /\ h \in [Nat -> Nat]
  /\ \A j \in C .. C + N - 1 : cq[j % N].phase = IF j < P THEN 1 - Round(j) ELSE Round(j)
  /\ \A j \in C .. P - 1 : cq[j % N].sqhd = h[j] % N /\ S <= h[j] /\ h[j] <= F /\ j < h[j]
  /\ \A j, k \in C .. P - 1 : j <= k => h[j] <= h[k]

Listed(c, list) == UsesList(c.nlb) => c.cid < iosq_sz /\ list[c.cid] = c.prp

Commands(T, F, P) ==
  /\ \A j \in F .. T - 1 : /\ IsCommand(sq[j % N]) /\ sq[j % N].cid + (T - j) = cid
                           /\ Listed(sq[j % N], prp_list)
  /\ \A c \in inflight : c.cid + (T - F) < cid /\ Listed(c, prp_list)
  /\ \A c, d \in inflight : c.cid = d.cid => c = d
  /\ IsFiniteSet(inflight) /\ Cardinality(inflight) = F - P

Calls(T, D, C, S, A) ==
  /\ Polling => D = T /\ ncmds = T - C
  /\ pc = "submit" => T = C
  /\ pc = "cut" /\ count = 0 => C < T
  /\ ~late => T < A + N
  /\ ~late /\ pc \in {"idle", "cut", "submit"} => C = A /\ S = A
  /\ ~late /\ pc = "idle" => T = C

Ring(T, D, F, P, C, S, A, h) ==
  /\ Order(T, D, F, P, C, S, A) /\ Places(T, D, F, P, C, S, A) /\ Entries(F, P, C, S, h)
  /\ Commands(T, F, P) /\ Calls(T, D, C, S, A)

SomeRing == \E T, D, F, P, C, S, A \in Nat, h \in [Nat -> Nat] : Ring(T, D, F, P, C, S, A, h)

RingInv == TypeInv /\ (Counted => SomeRing) /\ (~late => Counted)

LEMMA SizesSame ==
  ASSUME SameSizes
  PROVE  iosq_sz = N /\ iocq_sz = N /\ N \in Nat \ {0} /\ N >= 2
BY NvmeAssumption DEF SameSizes, iosq_sz, iocq_sz, SizeMin, N

LEMMA RoundNext ==
  ASSUME NEW j \in Nat
  PROVE  /\ Round(j) \in {0, 1} /\ Round(j + N) = 1 - Round(j)
         /\ Round(j + 1) = IF (j % N) + 1 = N THEN 1 - Round(j) ELSE Round(j)
         /\ j < N => Round(j) = 0
<1>1. N \in Nat \ {0}
  BY Sizes DEF N
<1>2. \A q \in Nat : q % 2 \in {0, 1} /\ (q + 1) % 2 = 1 - (q % 2)
  OBVIOUS
<1>3. j \div N \in Nat /\ (j + N) \div N = j \div N + 1
  BY <1>1, Quotient, RingTurn
<1>4. (j + 1) \div N = IF (j % N) + 1 = N THEN j \div N + 1 ELSE j \div N
  BY <1>1, RingNext
<1>5. j < N => j \div N = 0
  <2>1. j = N * 0 + j /\ (j < N => j \in 0 .. N - 1)
    BY <1>1
  <2>2. QED
    BY <1>1, <2>1, QuotientIs
<1>6. Round(j + 1) = IF (j % N) + 1 = N THEN 1 - Round(j) ELSE Round(j)
  BY <1>2, <1>3, <1>4 DEF Round
<1>7. QED
  BY <1>2, <1>3, <1>5, <1>6 DEF Round

LEMMA RingStart == ASSUME SameSizes, Init PROVE RingInv
<1> DEFINE h == [n \in Nat |-> 0]
<1>0. iosq_sz = N /\ iocq_sz = N /\ N \in Nat \ {0} /\ N >= 2
  BY SizesSame
<1>1. h \in [Nat -> Nat] /\ 0 % N = 0 /\ Round(0) = 0
  BY <1>0, RoundNext
<1> HIDE DEF h
<1>2. Order(0, 0, 0, 0, 0, 0, 0)
  BY <1>0 DEF Order
<1>3. Places(0, 0, 0, 0, 0, 0, 0)
  BY <1>1 DEF Places, Init
<1>4. Entries(0, 0, 0, 0, h)
  <2>1. ASSUME NEW j \in 0 .. 0 + N - 1
        PROVE  cq[j % N].phase = Round(j) /\ ~(j < 0)
    <3>1. j \in Nat /\ j % N \in Indices(CCQ_SIZE) /\ Round(j) = 0
      BY <1>0, RoundNext DEF Indices, N
    <3>2. QED
      BY <3>1 DEF Init
  <2>2. 0 .. 0 - 1 = {}
    OBVIOUS
  <2>3. QED
    BY <1>1, <2>1, <2>2 DEF Entries
<1>5. Commands(0, 0, 0)
  BY FS_EmptySet DEF Commands, Init
<1>6. Calls(0, 0, 0, 0, 0)
  BY <1>0 DEF Calls, Init, Polling
<1>7. SomeRing
  BY <1>1, <1>2, <1>3, <1>4, <1>5, <1>6 DEF SomeRing, Ring
<1>8. Counted /\ TypeInv
  BY <1>0, TypeInit DEF Counted, Init, N
<1>9. QED
  BY <1>7, <1>8 DEF RingInv
LEMMA RequestRing ==
  ASSUME SameSizes, TypeInv, NEW T, NEW D, NEW F, NEW P, NEW C, NEW S, NEW A, NEW h,
         Ring(T, D, F, P, C, S, A, h), Request \/ PutUndefined \/ PollTimeout
  PROVE  Ring(T, D, F, P, C, S, A, h)'
<1>1. /\ UNCHANGED <<sq_t, cq_h, pt, sqhd, cid, ncmds, sq, prp_list, open, cq, ctrl, inflight>>
      /\ ~late' => ~late
  BY DEF Request, PutUndefined, PollTimeout, driver, TypeInv, TypeOK
<1>2. Order(T, D, F, P, C, S, A)' /\ Places(T, D, F, P, C, S, A)' /\ Entries(F, P, C, S, h)'
  BY <1>1 DEF Ring, Order, Places, Entries
<1>3. Commands(T, F, P)'
  BY <1>1 DEF Ring, Commands
<1>4. Calls(T, D, C, S, A)'
  <2>1. CASE Request
    <3>1. pc' = "cut" /\ count' # 0 /\ pc = "idle" /\ late' = late
      BY <2>1, NvmeAssumption DEF Request
    <3>2. QED
      BY <1>1, <3>1 DEF Ring, Calls, Polling
  <2>2. CASE PutUndefined
    BY <1>1, <2>2 DEF PutUndefined, driver, Ring, Calls, Polling
  <2>3. CASE PollTimeout
    <3>1. late' = TRUE /\ pc' = "idle"
      BY <2>3 DEF PollTimeout, Return
    <3>2. QED
      BY <1>1, <3>1 DEF Ring, Calls, Polling
  <2>4. QED
    BY <2>1, <2>2, <2>3
<1>5. QED
  BY <1>2, <1>3, <1>4 DEF Ring

LEMMA PollRing ==
  ASSUME SameSizes, TypeInv, NEW T, NEW D, NEW F, NEW P, NEW C, NEW S, NEW A, NEW h,
         Ring(T, D, F, P, C, S, A, h), CompleteInFlight \/ CompleteAll
  PROVE  Ring(T, T, F, P, C, S, A, h)'
<1>0. iosq_sz = N /\ iocq_sz = N /\ N \in Nat \ {0} /\ N >= 2
  BY SizesSame
<1>1. /\ ctrl' = [ctrl EXCEPT !.tail = sq_t] /\ ncmds' = Outstanding
      /\ UNCHANGED <<sq_t, cq_h, pt, sqhd, cid, sq, prp_list, open, cq, inflight, late>>
      /\ pc = "cut" /\ Polling'
  BY DEF CompleteInFlight, CompleteAll, StartPoll, Polling
<1>2. Order(T, D, F, P, C, S, A) /\ Places(T, D, F, P, C, S, A)
  BY DEF Ring
<1>3. C < T
  <2>1. CASE count = 0
    BY <1>1, <2>1 DEF Ring, Calls
  <2>2. CASE Full
    <3>1. T = C => S = T
      BY <1>2 DEF Order
    <3>2. (T + 1) % N = S % N
      <4>1. ((T % N) + 1) % N = (T + 1) % N
        BY <1>0, <1>2, RingAdd DEF Order
      <4>2. QED
        BY <1>0, <1>2, <2>2, <4>1 DEF Full, Places
    <3>3. T # C
      <4>2. (T + 1) % N # T % N
        BY <1>0, <1>2, RingMoves DEF Order
      <4>3. QED
        BY <3>1, <3>2, <4>2
    <3>4. QED
      BY <1>2, <3>3 DEF Order
  <2>3. QED
    BY <2>1, <2>2 DEF CompleteInFlight, CompleteAll
<1>4. ncmds' = T - C
  BY <1>0, <1>1, <1>2, <1>3, RingCount DEF Outstanding, Order, Places, N
<1>5. Order(T, T, F, P, C, S, A)'
  BY <1>2 DEF Order
<1>6. Places(T, T, F, P, C, S, A)'
  BY <1>1, <1>2 DEF Places, TypeInv, TypeOK
<1>7. Entries(F, P, C, S, h)'
  BY <1>1 DEF Ring, Entries
<1>8. Commands(T, F, P)'
  BY <1>1 DEF Ring, Commands
<1>9. Calls(T, T, C, S, A)'
  BY <1>1, <1>4 DEF Ring, Calls, Polling
<1>10. QED
  BY <1>5, <1>6, <1>7, <1>8, <1>9 DEF Ring

LEMMA DoneRing ==
  ASSUME SameSizes, TypeInv, NEW T, NEW D, NEW F, NEW P, NEW C, NEW S, NEW A, NEW h,
         Ring(T, D, F, P, C, S, A, h), PollDone
  PROVE  Ring(T, D, F, P, C, S, C, h)' /\ inflight = {} /\ T = C
<1>1. /\ ctrl' = [ctrl EXCEPT !.cq_head = cq_h] /\ ncmds = 0
      /\ UNCHANGED <<sq_t, cq_h, pt, sqhd, ncmds, sq, prp_list, open, cq, inflight, late>>
      /\ Polling /\ pc' \in {"submit", "idle"}
  BY DEF PollDone, Return
<1>2. Order(T, D, F, P, C, S, A) /\ Places(T, D, F, P, C, S, A)
  BY DEF Ring
<1>3. T = C /\ T = S /\ T = P /\ T = F /\ T = D
  BY <1>1, <1>2 DEF Ring, Calls, Order
<1>4. inflight = {}
  <2>1. IsFiniteSet(inflight) /\ Cardinality(inflight) = 0
    BY <1>2, <1>3 DEF Ring, Commands, Order
  <2>2. QED
    BY <2>1, FS_EmptySet
<1>5. Order(T, D, F, P, C, S, C)'
  BY <1>2, <1>3, Sizes DEF Order, N
<1>6. Places(T, D, F, P, C, S, C)'
  BY <1>1, <1>2 DEF Places, TypeInv, TypeOK
<1>7. Entries(F, P, C, S, h)'
  BY <1>1 DEF Ring, Entries
<1>8. Commands(T, F, P)'
  <2>1. F .. T - 1 = {} /\ F - P = 0
    BY <1>2, <1>3 DEF Order
  <2>2. QED
    BY <1>1, <1>4, <2>1, FS_EmptySet DEF Commands
<1>9. Calls(T, D, C, S, C)'
  BY <1>1, <1>2, <1>3, Sizes DEF Ring, Calls, Polling, Order, N
<1>10. QED
  BY <1>3, <1>4, <1>5, <1>6, <1>7, <1>8, <1>9 DEF Ring
LEMMA PutRing ==
  ASSUME SameSizes, TypeInv, NEW T, NEW D, NEW F, NEW P, NEW C, NEW S, NEW A, NEW h,
         Ring(T, D, F, P, C, S, A, h), Put, NEW U, U = T + 1
  PROVE  /\ U < S + N /\ sq_t' = U % N
         /\ sq'[T % N] = NewCommand
         /\ \A j \in F .. T - 1 : j % N # T % N /\ sq'[j % N] = sq[j % N]
         /\ Counted => open' = U - C
         /\ U <= C + N => Ring(U, D, F, P, C, S, A, h)'
<1>0. iosq_sz = N /\ iocq_sz = N /\ N \in Nat \ {0} /\ N >= 2
  BY SizesSame
<1>1. /\ sq' = [sq EXCEPT ![sq_t] = NewCommand] /\ FillPrp(NewCommand)
      /\ cid' = cid + 1 /\ sq_t' = NextTail /\ pc' = "cut" /\ MayPut
      /\ open' = SizeMin(open + 1, CCQ_SIZE + 1)
      /\ UsesList(Chunk) => cid < iosq_sz
      /\ UNCHANGED <<cq_h, pt, sqhd, late, cq, ctrl, inflight>>
  BY DEF Put, NewCommand
<1>2. Order(T, D, F, P, C, S, A) /\ Places(T, D, F, P, C, S, A)
  BY DEF Ring
<1>3. T + 1 < S + N
  <2>1. CASE pc = "submit"
    BY <1>0, <1>2, <2>1 DEF Ring, Calls, Order
  <2>2. CASE pc = "cut" /\ ~Full
    <3>1. (T + 1) % N # S % N
      <4>1. ((T % N) + 1) % N = (T + 1) % N
        BY <1>0, <1>2, RingAdd DEF Order
      <4>2. QED
        BY <1>0, <1>2, <2>2, <4>1 DEF Full, Places
    <3>2. (S + N) % N = S % N
      BY <1>0, <1>2, RingTurn DEF Order
    <3>3. T + 1 # S + N
      BY <3>1, <3>2
    <3>4. QED
      BY <1>0, <1>2, <3>3 DEF Order
  <2>3. QED
    BY <1>1, <2>1, <2>2 DEF MayPut
<1>4. sq_t' = (T + 1) % N
  <2>1. sq_t = T % N /\ sq_t \in 0 .. N - 1
    BY <1>0, <1>2, Quotient DEF Places, Order
  <2>2. IF sq_t + 1 = N THEN (T + 1) % N = 0 ELSE (T + 1) % N = sq_t + 1
    BY <1>0, <1>2, <2>1, RingNext DEF Order
  <2>3. QED
    BY <1>0, <1>1, <2>1, <2>2 DEF NextTail
<1>5. \A j \in F .. T - 1 : j % N # T % N
  <2> TAKE j \in F .. T - 1
  <2>1. j \in Nat /\ j # T /\ T - j < N /\ j - T < N /\ T \in Nat
    BY <1>0, <1>2 DEF Order
  <2>2. QED
    BY <1>0, <2>1, RingSame
<1>6. /\ sq'[T % N] = NewCommand
      /\ \A j \in F .. T - 1 : sq'[j % N] = sq[j % N]
  <2>1. T % N \in DOMAIN sq /\ \A j \in F .. T - 1 : j % N \in DOMAIN sq
    <3>1. DOMAIN sq = 0 .. N - 1
      BY <1>0 DEF TypeInv, TypeOK, Indices
    <3>2. T \in Nat /\ \A j \in F .. T - 1 : j \in Nat
      BY <1>2 DEF Order
    <3>3. QED
      BY <1>0, <3>1, <3>2, Quotient
  <2>2. QED
    BY <1>1, <1>2, <1>5, <2>1 DEF Places
<1>7. Counted => open' = T + 1 - C
  BY <1>0, <1>1, <1>2 DEF Counted, Places, Order, SizeMin, N
<1>8. ASSUME U <= C + N
      PROVE  Ring(U, D, F, P, C, S, A, h)'
  <2>1. Order(U, D, F, P, C, S, A)'
    BY <1>0, <1>2, <1>3, <1>8 DEF Order
  <2>2. Places(U, D, F, P, C, S, A)'
    <3>1. open' = U - C
      <4>1. open = T - C
        BY <1>2 DEF Places
      <4>2. QED
        BY <1>0, <1>1, <1>2, <1>8, <4>1 DEF Order, SizeMin, N
    <3>2. UNCHANGED <<cq_h, pt, sqhd, ctrl>>
      BY <1>1
    <3>3. QED
      BY <1>2, <1>4, <3>1, <3>2 DEF Places
  <2>3. Entries(F, P, C, S, h)'
    BY <1>1 DEF Ring, Entries
  <2>4. /\ IsCommand(NewCommand) /\ NewCommand.cid = cid /\ NewCommand.nlb = Chunk /\ cid \in Nat
    BY <1>1, ChunkSize DEF NewCommand, TypeInv, TypeOK
  <2>5. prp_list' = IF UsesList(NewCommand.nlb) THEN [prp_list EXCEPT ![cid] = NewCommand.prp]
                    ELSE prp_list
    BY <1>1, <2>4 DEF FillPrp
  <2>6. Listed(NewCommand, prp_list')
    BY <1>0, <1>1, <2>4, <2>5 DEF Listed, TypeInv, TypeOK, Indices, UsesList
  <2>7. ASSUME NEW c, c.cid # cid, Listed(c, prp_list), UsesList(c.nlb) => c.cid \in Nat
        PROVE  Listed(c, prp_list')
    BY <1>0, <2>5, <2>7 DEF Listed, TypeInv, TypeOK, Indices, UsesList
  <2>8. /\ \A j \in F .. T - 1 : /\ IsCommand(sq[j % N]) /\ sq[j % N].cid + (T - j) = cid
                                 /\ Listed(sq[j % N], prp_list)
        /\ \A c \in inflight : c.cid + (T - F) < cid /\ Listed(c, prp_list)
        /\ \A c, d \in inflight : c.cid = d.cid => c = d
        /\ IsFiniteSet(inflight) /\ Cardinality(inflight) = F - P
    BY DEF Ring, Commands
  <2>9. \A c \in inflight : c.cid \in Nat
    BY DEF TypeInv, TypeOK, IsCommand
  <2>10. \A j \in F .. T : /\ IsCommand(sq'[j % N]) /\ sq'[j % N].cid + (U - j) = cid'
                           /\ Listed(sq'[j % N], prp_list')
    <3> TAKE j \in F .. T
    <3>1. CASE j = T
      <4>1. T \in Nat
        BY <1>2 DEF Order
      <4>2. sq'[j % N] = NewCommand
        BY <1>6, <3>1
      <4>3. cid + (U - j) = cid'
        BY <1>1, <2>4, <3>1, <4>1
      <4>4. Listed(sq'[j % N], prp_list')
        BY <2>6, <4>2
      <4>5. QED
        BY <2>4, <4>2, <4>3, <4>4
    <3>2. CASE j \in F .. T - 1
      <4>1. sq'[j % N] = sq[j % N]
        BY <1>6, <3>2
      <4>2. /\ IsCommand(sq[j % N]) /\ sq[j % N].cid + (T - j) = cid /\ Listed(sq[j % N], prp_list)
            /\ sq[j % N].cid \in Nat
        BY <2>8, <3>2 DEF IsCommand
      <4>3. sq[j % N].cid # cid /\ sq[j % N].cid + (U - j) = cid'
        BY <1>1, <1>2, <2>4, <3>2, <4>2 DEF Order
      <4>5. Listed(sq[j % N], prp_list')
        BY <1>0, <2>4, <2>5, <4>2, <4>3 DEF Listed, TypeInv, TypeOK, Indices
      <4>6. QED
        BY <4>1, <4>2, <4>3, <4>5
    <3>3. QED
      BY <1>2, <3>1, <3>2 DEF Order
  <2>11. \A c \in inflight' : c.cid + (U - F) < cid' /\ Listed(c, prp_list')
    <3> TAKE c \in inflight'
    <3>1. c \in inflight /\ c.cid \in Nat /\ c.cid + (T - F) < cid /\ Listed(c, prp_list)
      BY <1>1, <2>8, <2>9
    <3>2. c.cid # cid /\ c.cid + (U - F) < cid'
      BY <1>1, <1>2, <2>4, <3>1 DEF Order
    <3>3. Listed(c, prp_list')
      BY <2>7, <3>1, <3>2
    <3>4. QED
      BY <3>2, <3>3
  <2>12. Commands(U, F, P)'
    <3>1. F .. U - 1 = F .. T
      BY <1>2 DEF Order
    <3>2. inflight' = inflight
      BY <1>1
    <3>3. QED
      BY <2>8, <2>10, <2>11, <3>1, <3>2 DEF Commands
  <2>13. Calls(U, D, C, S, A)'
    <3>1. ~late => U < A + N
      BY <1>1, <1>3 DEF Ring, Calls, MayPut
    <3>2. ~late => C = A /\ S = A
      BY <1>1 DEF Ring, Calls, MayPut
    <3>3. C < U
      BY <1>2 DEF Order
    <3>4. QED
      BY <1>1, <3>1, <3>2, <3>3 DEF Calls, Polling
  <2>14. QED
    BY <2>1, <2>2, <2>3, <2>12, <2>13 DEF Ring
<1>9. U < S + N /\ sq_t' = U % N /\ (Counted => open' = U - C)
  <2>1. T \in Nat /\ S \in Nat /\ C \in Nat /\ N \in Nat
    BY <1>0, <1>2 DEF Order
  <2>2. QED
    BY <1>3, <1>4, <1>7, <2>1
<1>10. QED
  BY <1>5, <1>6, <1>8, <1>9

LEMMA TakeRing ==
  ASSUME SameSizes, TypeInv, Counted,
         NEW T, NEW D, NEW F, NEW P, NEW C, NEW S, NEW A, NEW h,
         Ring(T, D, F, P, C, S, A, h), TakeCompletion, NEW B, B = C + 1
  PROVE  Ring(T, D, F, P, B, h[C], A, h)'
<1>0. iosq_sz = N /\ iocq_sz = N /\ N \in Nat \ {0} /\ N >= 2
  BY SizesSame
<1>1. /\ Polling /\ ncmds > 0 /\ cq[cq_h].phase # pt /\ ncmds' = ncmds - 1
      /\ cq_h' = (IF cq_h + 1 > CCQ_SIZE - 1 THEN 0 ELSE cq_h + 1)
      /\ pt' = (IF cq_h' = 0 THEN 1 - pt ELSE pt)
      /\ sqhd' = cq[cq_h].sqhd
      /\ open' = (IF open \in 1 .. CCQ_SIZE THEN open - 1 ELSE open)
      /\ UNCHANGED <<pc, count, sq_t, cid, sq, prp_list, late, cq, ctrl, inflight>>
  BY DEF TakeCompletion, Ready
<1>2. Order(T, D, F, P, C, S, A) /\ Places(T, D, F, P, C, S, A) /\ Entries(F, P, C, S, h)
  BY DEF Ring
<1>3. ncmds = T - C /\ D = T
  BY <1>1 DEF Ring, Calls
<1>4. /\ C \in Nat /\ P \in Nat /\ S \in Nat /\ F \in Nat /\ T \in Nat /\ A \in Nat /\ D \in Nat
      /\ C < T /\ C \in C .. C + N - 1
  BY <1>0, <1>1, <1>2, <1>3 DEF Order
<1>5. C < P
  <2>1. cq[C % N].phase = IF C < P THEN 1 - Round(C) ELSE Round(C)
    BY <1>2, <1>4 DEF Entries
  <2>2. cq[C % N].phase # Round(C)
    BY <1>1, <1>2 DEF Places
  <2>3. QED
    BY <2>1, <2>2
<1>6. /\ cq[C % N].sqhd = h[C] % N /\ S <= h[C] /\ h[C] <= F /\ C < h[C] /\ h[C] \in Nat
  BY <1>2, <1>4, <1>5 DEF Entries
<1>7. Order(T, D, F, P, B, h[C], A)'
  BY <1>0, <1>2, <1>4, <1>5, <1>6 DEF Order
<1>8. cq_h' = B % N /\ pt' = Round(B)
  <2>1. cq_h = C % N /\ cq_h \in 0 .. N - 1 /\ pt = Round(C)
    BY <1>0, <1>2, <1>4, Quotient DEF Places
  <2>2. IF cq_h + 1 = N THEN (C + 1) % N = 0 ELSE (C + 1) % N = cq_h + 1
    BY <1>0, <1>4, <2>1, RingNext
  <2>3. Round(C + 1) = IF cq_h + 1 = N THEN 1 - pt ELSE pt
    BY <1>4, <2>1, RoundNext
  <2>4. cq_h' = (IF cq_h + 1 = N THEN 0 ELSE cq_h + 1)
    BY <1>0, <1>1, <2>1 DEF N
  <2>5. cq_h' = 0 <=> cq_h + 1 = N
    BY <1>0, <2>1, <2>4
  <2>6. cq_h' = (C + 1) % N /\ pt' = Round(C + 1)
    BY <1>1, <2>2, <2>3, <2>4, <2>5
  <2>7. QED
    BY <2>6
<1>9. Places(T, D, F, P, B, h[C], A)'
  <2>1. open' = T - B
    <3>1. open = T - C
      BY <1>2 DEF Places
    <3>2. QED
      BY <1>1, <1>4, <3>1 DEF Counted, TypeInv, TypeOK
  <2>2. sqhd' = h[C] % N
    BY <1>1, <1>2, <1>6 DEF Places
  <2>3. UNCHANGED <<sq_t, ctrl>>
    BY <1>1
  <2>4. QED
    BY <1>2, <1>8, <2>1, <2>2, <2>3 DEF Places
<1>10. Entries(F, P, B, h[C], h)'
  <2>1. ASSUME NEW j \in B .. B + N - 1
        PROVE  cq[j % N].phase = IF j < P THEN 1 - Round(j) ELSE Round(j)
    <3>1. CASE j \in C .. C + N - 1
      BY <1>2, <3>1 DEF Entries
    <3>2. CASE j = C + N
      <4>1. j % N = C % N /\ Round(j) = 1 - Round(C)
        BY <1>0, <1>4, <3>2, RingTurn, RoundNext
      <4>2. ~(j < P)
        BY <1>0, <1>2, <1>4, <3>2 DEF Order
      <4>3. cq[C % N].phase = 1 - Round(C)
        BY <1>2, <1>4, <1>5 DEF Entries
      <4>4. QED
        BY <4>1, <4>2, <4>3
    <3>3. QED
      BY <1>0, <1>4, <3>1, <3>2
  <2>2. ASSUME NEW j \in B .. P - 1
        PROVE  cq[j % N].sqhd = h[j] % N /\ h[C] <= h[j] /\ h[j] <= F /\ j < h[j]
    <3>1. j \in C .. P - 1 /\ C \in C .. P - 1 /\ C <= j
      BY <1>4, <1>5
    <3>2. QED
      BY <1>2, <3>1 DEF Entries
  <2>3. \A j, k \in B .. P - 1 : j <= k => h[j] <= h[k]
    <3>1. \A j \in B .. P - 1 : j \in C .. P - 1
      BY <1>4
    <3>2. QED
      BY <1>2, <3>1 DEF Entries
  <2>4. cq' = cq /\ h \in [Nat -> Nat]
    BY <1>1, <1>2 DEF Entries
  <2>5. QED
    BY <2>1, <2>2, <2>3, <2>4 DEF Entries
<1>11. Commands(T, F, P)'
  BY <1>1 DEF Ring, Commands
<1>12. Calls(T, D, B, h[C], A)'
  BY <1>1, <1>3, <1>4 DEF Ring, Calls, Polling
<1>13. QED
  BY <1>7, <1>9, <1>10, <1>11, <1>12 DEF Ring
LEMMA FetchRing ==
  ASSUME SameSizes, TypeInv, NEW T, NEW D, NEW F, NEW P, NEW C, NEW S, NEW A, NEW h,
         Ring(T, D, F, P, C, S, A, h), Fetch, NEW G, G = F + 1
  PROVE  /\ F < T /\ inflight' = inflight \cup {sq[F % N]}
         /\ Ring(T, D, G, P, C, S, A, h)'
<1>0. iosq_sz = N /\ iocq_sz = N /\ N \in Nat \ {0} /\ N >= 2
  BY SizesSame
<1>1. /\ ctrl.head # ctrl.tail /\ inflight' = inflight \cup {sq[ctrl.head]}
      /\ ctrl' = [ctrl EXCEPT !.head = (ctrl.head + 1) % iosq_sz]
      /\ UNCHANGED <<pc, driver, cq>>
  BY DEF Fetch
<1>2. Order(T, D, F, P, C, S, A) /\ Places(T, D, F, P, C, S, A) /\ Entries(F, P, C, S, h)
  BY DEF Ring
<1>3. /\ C \in Nat /\ P \in Nat /\ S \in Nat /\ F \in Nat /\ T \in Nat /\ A \in Nat /\ D \in Nat
      /\ F < D /\ F < T /\ F \in F .. T - 1
  BY <1>1, <1>2 DEF Order, Places
<1>4. sq[F % N] = sq[ctrl.head] /\ IsCommand(sq[F % N]) /\ sq[F % N].cid \in Nat
  BY <1>2, FetchTypes DEF Places, IsCommand
<1>5. Order(T, D, G, P, C, S, A)'
  BY <1>2, <1>3 DEF Order
<1>6. Places(T, D, G, P, C, S, A)'
  <2>1. (ctrl.head + 1) % iosq_sz = G % N
    <3>1. ((F % N) + 1) % N = (F + 1) % N
      BY <1>0, <1>3, RingAdd
    <3>2. QED
      BY <1>0, <1>2, <3>1 DEF Places
  <2>2. ctrl'.head = G % N /\ ctrl'.tail = ctrl.tail /\ ctrl'.cq_tail = ctrl.cq_tail
        /\ ctrl'.cq_head = ctrl.cq_head /\ ctrl'.phase = ctrl.phase
    BY <1>1, <2>1 DEF TypeInv, TypeOK
  <2>3. UNCHANGED <<sq_t, cq_h, pt, sqhd, open>>
    BY <1>1 DEF driver
  <2>4. QED
    BY <1>2, <2>2, <2>3 DEF Places
<1>7. Entries(G, P, C, S, h)'
  <2>1. \A j \in C .. P - 1 : h[j] \in Nat /\ h[j] <= G
    BY <1>2, <1>3 DEF Entries
  <2>2. QED
    BY <1>1, <1>2, <2>1 DEF Entries
<1>8. Commands(T, G, P)'
  <2>1. /\ \A j \in F .. T - 1 : /\ IsCommand(sq[j % N]) /\ sq[j % N].cid + (T - j) = cid
                                 /\ Listed(sq[j % N], prp_list)
        /\ \A c \in inflight : c.cid + (T - F) < cid /\ Listed(c, prp_list)
        /\ \A c, d \in inflight : c.cid = d.cid => c = d
        /\ IsFiniteSet(inflight) /\ Cardinality(inflight) = F - P
    BY DEF Ring, Commands
  <2>2. UNCHANGED <<sq, cid, prp_list>> /\ cid \in Nat /\ \A c \in inflight : c.cid \in Nat
    BY <1>1 DEF driver, TypeInv, TypeOK, IsCommand
  <2>3. sq[F % N].cid + (T - F) = cid /\ Listed(sq[F % N], prp_list)
    BY <1>3, <2>1
  <2>4. \A c \in inflight : c.cid < sq[F % N].cid
    BY <1>3, <1>4, <2>1, <2>2, <2>3
  <2>5. IsFiniteSet(inflight') /\ Cardinality(inflight') = G - P
    <3>1. sq[F % N] \notin inflight
      BY <1>4, <2>4
    <3>2. IsFiniteSet(inflight \cup {sq[F % N]}) /\ Cardinality(inflight \cup {sq[F % N]}) = F - P + 1
      BY <2>1, <3>1, FS_AddElement
    <3>3. QED
      BY <1>1, <1>3, <1>4, <3>2
  <2>6. \A c \in inflight' : c.cid + (T - G) < cid /\ Listed(c, prp_list)
    <3> TAKE c \in inflight'
    <3>1. CASE c \in inflight
      BY <1>3, <2>1, <2>2, <3>1
    <3>2. CASE c = sq[F % N]
      BY <1>3, <1>4, <2>2, <2>3, <3>2
    <3>3. QED
      BY <1>1, <1>4, <3>1, <3>2
  <2>7. \A c, d \in inflight' : c.cid = d.cid => c = d
    <3> TAKE c, d \in inflight'
    <3>1. c \in inflight \/ c = sq[F % N]
      BY <1>1, <1>4
    <3>2. d \in inflight \/ d = sq[F % N]
      BY <1>1, <1>4
    <3>3. QED
      BY <1>4, <2>1, <2>2, <2>4, <3>1, <3>2
  <2>8. \A j \in G .. T - 1 : j \in F .. T - 1
    BY <1>3
  <2>9. QED
    BY <2>1, <2>2, <2>5, <2>6, <2>7, <2>8 DEF Commands
<1>9. Calls(T, D, C, S, A)'
  BY <1>1 DEF Ring, Calls, Polling, driver
<1>10. QED
  BY <1>1, <1>3, <1>4, <1>5, <1>6, <1>7, <1>8, <1>9 DEF Ring

LEMMA PostRing ==
  ASSUME SameSizes, TypeInv, NEW T, NEW D, NEW F, NEW P, NEW C, NEW S, NEW A, NEW h,
         Ring(T, D, F, P, C, S, A, h), NEW c \in inflight, Post(c), NEW Q, Q = P + 1
  PROVE  Ring(T, D, F, Q, C, S, A, [h EXCEPT ![P] = F])'
<1> DEFINE g == [h EXCEPT ![P] = F]
<1>0. iosq_sz = N /\ iocq_sz = N /\ N \in Nat \ {0} /\ N >= 2
  BY SizesSame
<1>1. /\ MayPost /\ inflight' = inflight \ {c} /\ UNCHANGED <<pc, driver>>
      /\ cq' = [cq EXCEPT ![ctrl.cq_tail] = [phase |-> ctrl.phase, sqhd |-> ctrl.head]]
      /\ ctrl' = [ctrl EXCEPT !.cq_tail = (ctrl.cq_tail + 1) % iocq_sz,
                              !.phase = IF ctrl.cq_tail + 1 = iocq_sz THEN 1 - ctrl.phase
                                        ELSE ctrl.phase]
  BY DEF Post
<1>2. Order(T, D, F, P, C, S, A) /\ Places(T, D, F, P, C, S, A) /\ Entries(F, P, C, S, h)
  BY DEF Ring
<1>3. /\ C \in Nat /\ P \in Nat /\ S \in Nat /\ F \in Nat /\ T \in Nat /\ A \in Nat /\ D \in Nat
  BY <1>2 DEF Order
<1>4. P < F
  <2>1. IsFiniteSet(inflight) /\ Cardinality(inflight) = F - P /\ inflight # {}
    BY DEF Ring, Commands
  <2>2. F - P # 0
    BY <2>1, FS_EmptySet
  <2>3. QED
    BY <1>2, <1>3, <2>2 DEF Order
<1>5. Q < A + N
  <2>1. (P + 1) % N # A % N
    <3>1. ((P % N) + 1) % N = (P + 1) % N
      BY <1>0, <1>3, RingAdd
    <3>2. QED
      BY <1>0, <1>1, <1>2, <3>1 DEF MayPost, Places
  <2>2. (A + N) % N = A % N
    BY <1>0, <1>3, RingTurn
  <2>3. P + 1 # A + N
    BY <2>1, <2>2
  <2>4. QED
    BY <1>0, <1>2, <1>3, <2>3 DEF Order
<1>6. Order(T, D, F, Q, C, S, A)'
  BY <1>2, <1>3, <1>4, <1>5 DEF Order
<1>7. Places(T, D, F, Q, C, S, A)'
  <2>1. ctrl.cq_tail = P % N /\ ctrl.phase = 1 - Round(P)
    BY <1>2 DEF Places
  <2>2. (ctrl.cq_tail + 1) % iocq_sz = Q % N
    <3>1. ((P % N) + 1) % N = (P + 1) % N
      BY <1>0, <1>3, RingAdd
    <3>2. QED
      BY <1>0, <2>1, <3>1
  <2>3. Round(P) \in {0, 1} /\ Round(Q) = IF (P % N) + 1 = N THEN 1 - Round(P) ELSE Round(P)
    BY <1>3, RoundNext
  <2>4. (IF ctrl.cq_tail + 1 = iocq_sz THEN 1 - ctrl.phase ELSE ctrl.phase) = 1 - Round(Q)
    BY <1>0, <2>1, <2>3
  <2>5. /\ ctrl'.cq_tail = Q % N /\ ctrl'.phase = 1 - Round(Q) /\ ctrl'.head = ctrl.head
        /\ ctrl'.tail = ctrl.tail /\ ctrl'.cq_head = ctrl.cq_head
    BY <1>1, <2>2, <2>4 DEF TypeInv, TypeOK
  <2>6. UNCHANGED <<sq_t, cq_h, pt, sqhd, open>>
    BY <1>1 DEF driver
  <2>7. QED
    BY <1>2, <2>5, <2>6 DEF Places
<1>8. Entries(F, Q, C, S, g)'
  <2>1. h \in [Nat -> Nat]
    BY <1>2 DEF Entries
  <2>2. g \in [Nat -> Nat] /\ g[P] = F /\ \A j \in Nat : j # P => g[j] = h[j]
    BY <1>3, <2>1
  <2>3. P \in C .. C + N - 1
    BY <1>0, <1>2, <1>3, <1>4 DEF Order
  <2>4. DOMAIN cq = 0 .. N - 1 /\ P % N \in 0 .. N - 1
    BY <1>0, <1>3, Quotient DEF TypeInv, TypeOK, Indices, N
  <2>5. cq'[P % N] = [phase |-> 1 - Round(P), sqhd |-> F % N]
    BY <1>1, <1>2, <2>4 DEF Places
  <2>6. ASSUME NEW j \in C .. C + N - 1, j # P
        PROVE  cq'[j % N] = cq[j % N]
    <3>1. j \in Nat /\ j - P < N /\ P - j < N
      BY <1>0, <1>3, <2>3
    <3>2. j % N # P % N /\ j % N \in 0 .. N - 1
      BY <1>0, <1>3, <2>6, <3>1, RingSame, Quotient
    <3>3. QED
      BY <1>1, <1>2, <2>4, <3>2 DEF Places
  <2>7. ASSUME NEW j \in C .. C + N - 1
        PROVE  cq'[j % N].phase = IF j < Q THEN 1 - Round(j) ELSE Round(j)
    <3>1. CASE j = P
      BY <1>3, <2>5, <3>1
    <3>2. CASE j # P
      <4>1. cq[j % N].phase = IF j < P THEN 1 - Round(j) ELSE Round(j)
        BY <1>2 DEF Entries
      <4>2. j < P <=> j < Q
        BY <1>3, <3>2
      <4>3. QED
        BY <2>6, <3>2, <4>1, <4>2
    <3>3. QED
      BY <3>1, <3>2
  <2>8. ASSUME NEW j \in C .. Q - 1
        PROVE  cq'[j % N].sqhd = g[j] % N /\ S <= g[j] /\ g[j] <= F /\ j < g[j]
    <3>1. CASE j = P
      BY <1>2, <1>3, <1>4, <2>2, <2>5, <3>1 DEF Order
    <3>2. CASE j # P
      <4>1. j \in C .. P - 1 /\ j \in C .. C + N - 1 /\ j \in Nat
        BY <1>0, <1>3, <2>3, <3>2
      <4>2. cq[j % N].sqhd = h[j] % N /\ S <= h[j] /\ h[j] <= F /\ j < h[j]
        BY <1>2, <4>1 DEF Entries
      <4>3. QED
        BY <2>2, <2>6, <3>2, <4>1, <4>2
    <3>3. QED
      BY <3>1, <3>2
  <2>9. ASSUME NEW j \in C .. Q - 1, NEW k \in C .. Q - 1, j <= k
        PROVE  g[j] <= g[k]
    <3>1. CASE k = P
      BY <1>3, <2>2, <2>8, <3>1
    <3>2. CASE k # P
      <4>1. j \in C .. P - 1 /\ k \in C .. P - 1 /\ j # P /\ j \in Nat /\ k \in Nat
        BY <1>3, <2>9, <3>2
      <4>2. h[j] <= h[k]
        BY <1>2, <2>9, <4>1 DEF Entries
      <4>3. QED
        BY <2>2, <3>2, <4>1, <4>2
    <3>3. QED
      BY <3>1, <3>2
  <2>10. QED
    BY <2>2, <2>7, <2>8, <2>9 DEF Entries
<1>9. Commands(T, F, Q)'
  <2>1. /\ \A j \in F .. T - 1 : /\ IsCommand(sq[j % N]) /\ sq[j % N].cid + (T - j) = cid
                                 /\ Listed(sq[j % N], prp_list)
        /\ \A d \in inflight : d.cid + (T - F) < cid /\ Listed(d, prp_list)
        /\ \A d, e \in inflight : d.cid = e.cid => d = e
        /\ IsFiniteSet(inflight) /\ Cardinality(inflight) = F - P
    BY DEF Ring, Commands
  <2>2. UNCHANGED <<sq, cid, prp_list>>
    BY <1>1 DEF driver
  <2>3. IsFiniteSet(inflight') /\ Cardinality(inflight') = F - Q
    <3>1. IsFiniteSet(inflight \ {c}) /\ Cardinality(inflight \ {c}) = F - P - 1
      BY <2>1, FS_RemoveElement
    <3>2. QED
      BY <1>1, <1>3, <3>1
  <2>4. QED
    BY <1>1, <2>1, <2>2, <2>3 DEF Commands
<1>10. Calls(T, D, C, S, A)'
  BY <1>1 DEF Ring, Calls, Polling, driver
<1> HIDE DEF g
<1>11. Ring(T, D, F, Q, C, S, A, g)'
  BY <1>6, <1>7, <1>8, <1>9, <1>10 DEF Ring
<1>12. QED
  BY <1>11 DEF g

LEMMA RingKept ==
  ASSUME SameSizes, RingInv, [Next]_vars
  PROVE  RingInv'
<1>1. TypeInv /\ TypeInv'
  BY TypeStep DEF RingInv
<1>2. CASE ~Counted
  <2>1. open = CCQ_SIZE + 1
    BY <1>1, <1>2, Sizes DEF Counted, TypeInv, TypeOK
  <2>2. open' = open /\ (~late' => ~late)
    <3>1. CASE Put
      BY <2>1, <3>1, Sizes DEF Put, SizeMin
    <3>2. CASE TakeCompletion
      BY <2>1, <3>2, Sizes DEF TakeCompletion
    <3>3. CASE PollTimeout
      BY <3>3 DEF PollTimeout
    <3>4. CASE Request \/ CompleteInFlight \/ CompleteAll \/ PutUndefined \/ PollDone
      <4>1. Request => open' = open /\ late' = late
        BY DEF Request
      <4>2. CompleteInFlight \/ CompleteAll => open' = open /\ late' = late
        BY DEF CompleteInFlight, CompleteAll, StartPoll
      <4>3. PutUndefined \/ PollDone => open' = open /\ late' = late
        BY DEF driver, PutUndefined, PollDone
      <4>4. QED
        BY <3>4, <4>1, <4>2, <4>3
    <3>5. CASE Fetch \/ Complete \/ CompleteWithError \/ UNCHANGED vars
      BY <3>5 DEF vars, driver, Fetch, Complete, CompleteWithError, Post
    <3>6. QED
      BY <3>1, <3>2, <3>3, <3>4, <3>5 DEF Next
  <2>3. QED
    BY <1>1, <1>2, <2>1, <2>2, Sizes DEF RingInv, Counted
<1>3. CASE Counted
  <2>0. N \in Nat
    BY Sizes DEF N
  <2>1. PICK T \in Nat, D \in Nat, F \in Nat, P \in Nat, C \in Nat, S \in Nat, A \in Nat,
             h \in [Nat -> Nat] : Ring(T, D, F, P, C, S, A, h)
    BY <1>3 DEF RingInv, SomeRing
  <2>2. CASE Put
    <3>1. PICK U \in Nat : U = T + 1
      OBVIOUS
    <3>2. /\ U < S + N /\ open' = U - C
          /\ U <= C + N => Ring(U, D, F, P, C, S, A, h)'
      BY <1>1, <1>3, <2>1, <2>2, <3>1, PutRing
    <3>3. Counted' => SomeRing'
      <4>1. Counted' => U <= C + N
        BY <2>0, <3>1, <3>2 DEF Counted, N
      <4>2. QED
        BY <3>1, <3>2, <4>1 DEF SomeRing
    <3>4. ~late' => Counted'
      <4>1. late' = late /\ pc \in {"cut", "submit"}
        BY <2>2 DEF Put, MayPut
      <4>2. ~late => C = S
        BY <2>1, <4>1 DEF Ring, Calls
      <4>3. QED
        BY <2>0, <3>1, <3>2, <4>1, <4>2 DEF Counted, N
    <3>5. QED
      BY <1>1, <3>3, <3>4 DEF RingInv
  <2>3. CASE TakeCompletion
    <3>1. PICK B \in Nat : B = C + 1
      OBVIOUS
    <3>2. Ring(T, D, F, P, B, h[C], A, h)' /\ h[C] \in Nat
      BY <1>1, <1>3, <2>1, <2>3, <3>1, TakeRing
    <3>3. PICK s \in Nat : s = h[C]
      BY <3>2
    <3>4. Ring(T, D, F, P, B, s, A, h)'
      BY <3>2, <3>3
    <3>5. SomeRing'
      BY <2>1, <3>1, <3>3, <3>4 DEF SomeRing
    <3>6. Counted'
      BY <1>1, <1>3, <2>3, Sizes DEF Counted, TakeCompletion, TypeInv, TypeOK
    <3>7. QED
      BY <1>1, <3>5, <3>6 DEF RingInv
  <2>4. CASE ~Put /\ ~TakeCompletion
    <3>1. Counted'
      BY <1>3, <2>4 DEF Next, vars, driver, Request, CompleteInFlight, CompleteAll, StartPoll,
         PutUndefined, PollTimeout, PollDone, Fetch, Complete, CompleteWithError, Post, Counted
    <3>2. CASE Request \/ PutUndefined \/ PollTimeout
      <4>1. Ring(T, D, F, P, C, S, A, h)'
        BY <1>1, <2>1, <3>2, RequestRing
      <4>2. SomeRing'
        BY <2>1, <4>1 DEF SomeRing
      <4>3. QED
        BY <1>1, <3>1, <4>2 DEF RingInv
    <3>3. CASE CompleteInFlight \/ CompleteAll
      <4>1. Ring(T, T, F, P, C, S, A, h)'
        BY <1>1, <2>1, <3>3, PollRing
      <4>2. SomeRing'
        BY <2>1, <4>1 DEF SomeRing
      <4>3. QED
        BY <1>1, <3>1, <4>2 DEF RingInv
    <3>4. CASE PollDone
      <4>1. Ring(T, D, F, P, C, S, C, h)'
        BY <1>1, <2>1, <3>4, DoneRing
      <4>2. SomeRing'
        BY <2>1, <4>1 DEF SomeRing
      <4>3. QED
        BY <1>1, <3>1, <4>2 DEF RingInv
    <3>5. CASE Fetch
      <4>1. PICK G \in Nat : G = F + 1
        OBVIOUS
      <4>2. Ring(T, D, G, P, C, S, A, h)'
        BY <1>1, <2>1, <3>5, <4>1, FetchRing
      <4>3. SomeRing'
        BY <2>1, <4>1, <4>2 DEF SomeRing
      <4>4. QED
        BY <1>1, <3>1, <4>3 DEF RingInv
    <3>6. CASE Complete \/ CompleteWithError
      <4>1. PICK Q \in Nat : Q = P + 1
        OBVIOUS
      <4>2. PICK c \in inflight : Post(c)
        BY <3>6 DEF Complete, CompleteWithError
      <4>3. PICK g \in [Nat -> Nat] : g = [h EXCEPT ![P] = F]
        BY <2>1
      <4>4. Ring(T, D, F, Q, C, S, A, g)'
        BY <1>1, <2>1, <4>1, <4>2, <4>3, PostRing
      <4>5. SomeRing'
        BY <2>1, <4>1, <4>3, <4>4 DEF SomeRing
      <4>6. QED
        BY <1>1, <3>1, <4>5 DEF RingInv
    <3>7. CASE UNCHANGED vars
      <4>1. /\ UNCHANGED <<pc, requests, req, start, count, buffer, sq_t, cq_h, pt, sqhd, cid,
                           ncmds, sq, prp_list, open, late, cq, ctrl, inflight>>
        BY <3>7 DEF vars, driver
      <4>2. Ring(T, D, F, P, C, S, A, h)'
        BY <2>1, <4>1 DEF Ring, Order, Places, Entries, Commands, Calls, Polling
      <4>3. SomeRing'
        BY <2>1, <4>2 DEF SomeRing
      <4>4. QED
        BY <1>1, <3>1, <4>3 DEF RingInv
    <3>8. QED
      BY <2>4, <3>2, <3>3, <3>4, <3>5, <3>6, <3>7 DEF Next
  <2>5. QED
    BY <2>2, <2>3, <2>4
<1>4. QED
  BY <1>2, <1>3

LEMMA RingAlways == ASSUME SameSizes PROVE Spec => []RingInv
<1>1. Init => RingInv
  BY RingStart
<1>2. RingInv /\ [Next]_vars => RingInv'
  BY RingKept
<1>3. QED
  BY <1>1, <1>2, PTL DEF Spec
-----------------------------------------------------------------------------
(* What the rings say of the commands.                                       *)

\* The commands from one position of a ring to another.
Between(ring, head, tail) ==
  {ring[p] : p \in {(head + k) % iosq_sz : k \in Indices((tail + iosq_sz - head) % iosq_sz)}}

LEMMA BetweenIs ==
  ASSUME SameSizes, NEW ring, NEW T \in Nat, NEW F \in Nat, F <= T, T - F < N
  PROVE  Between(ring, F % N, T % N) = {ring[j % N] : j \in F .. T - 1}
<1>0. iosq_sz = N /\ N \in Nat \ {0}
  BY SizesSame
<1> DEFINE Slots == {((F % N) + k) % N : k \in 0 .. T - F - 1}
<1>1. ((T % N) + N - (F % N)) % N = T - F
  BY <1>0, RingDistance
<1>2. Between(ring, F % N, T % N) = {ring[p] : p \in Slots}
  BY <1>0, <1>1 DEF Between, Indices
<1>3. \A k \in 0 .. T - F - 1 : ((F % N) + k) % N = (F + k) % N
  <2> TAKE k \in 0 .. T - F - 1
  <2>1. k \in Nat
    OBVIOUS
  <2>2. QED
    BY <1>0, <2>1, RingAdd
<1>4. Slots = {j % N : j \in F .. T - 1}
  <2>1. ASSUME NEW j \in F .. T - 1
        PROVE  j % N \in Slots
    <3>1. j - F \in 0 .. T - F - 1 /\ F + (j - F) = j
      OBVIOUS
    <3>2. ((F % N) + (j - F)) % N = j % N
      BY <1>3, <3>1
    <3>3. QED
      BY <3>1, <3>2
  <2>2. ASSUME NEW x \in Slots
        PROVE  \E j \in F .. T - 1 : x = j % N
    <3>1. PICK k \in 0 .. T - F - 1 : x = (F + k) % N
      BY <1>3
    <3>2. F + k \in F .. T - 1
      OBVIOUS
    <3>3. QED
      BY <3>1, <3>2
  <2>3. QED
    BY <2>1, <2>2
<1> HIDE DEF Slots
<1>5. QED
  BY <1>2, <1>4

LEMMA WaitingBetween ==
  /\ Waiting = Between(sq, ctrl.head, sq_t)
  /\ Waiting' = Between(sq', ctrl'.head, sq_t')
BY DEF Waiting, Pending, Between

LEMMA RingWaiting ==
  ASSUME SameSizes, NEW T, NEW D, NEW F, NEW P, NEW C, NEW S, NEW A, NEW h,
         Ring(T, D, F, P, C, S, A, h)
  PROVE  Waiting = {sq[j % N] : j \in F .. T - 1}
<1>1. N \in Nat
  BY SizesSame
<1>2. T \in Nat /\ F \in Nat /\ F <= T /\ T - F < N
  BY <1>1 DEF Ring, Order
<1>3. sq_t = T % N /\ ctrl.head = F % N
  BY DEF Ring, Places
<1>4. QED
  BY <1>2, <1>3, BetweenIs, WaitingBetween

(* The last position, before and after a command is put.                     *)
LEMMA PutWaiting ==
  ASSUME SameSizes, RingInv, Counted, Put
  PROVE  Waiting' = Waiting \cup {NewCommand}
<1>0. N \in Nat \ {0}
  BY SizesSame
<1>1. PICK T \in Nat, D \in Nat, F \in Nat, P \in Nat, C \in Nat, S \in Nat, A \in Nat,
           h \in [Nat -> Nat] : Ring(T, D, F, P, C, S, A, h)
  BY DEF RingInv, SomeRing
<1>2. PICK U \in Nat : U = T + 1
  OBVIOUS
<1>3. /\ U < S + N /\ sq_t' = U % N /\ sq'[T % N] = NewCommand
      /\ \A j \in F .. T - 1 : sq'[j % N] = sq[j % N]
  BY <1>1, <1>2, PutRing DEF RingInv
<1>4. F <= U /\ U - F < N /\ F <= T
  BY <1>0, <1>1, <1>2, <1>3 DEF Ring, Order
<1>5. ctrl'.head = F % N
  BY <1>1 DEF Ring, Places, Put
<1>6. Waiting' = {sq'[j % N] : j \in F .. U - 1}
  <2>1. Between(sq', F % N, U % N) = {sq'[j % N] : j \in F .. U - 1}
    BY <1>1, <1>2, <1>4, BetweenIs
  <2>2. QED
    BY <1>3, <1>5, <2>1, WaitingBetween
<1>7. Waiting = {sq[j % N] : j \in F .. T - 1}
  BY <1>1, RingWaiting
<1>8. F .. U - 1 = (F .. T - 1) \cup {T}
  BY <1>2, <1>4
<1>9. QED
  BY <1>3, <1>6, <1>7, <1>8

LEMMA FetchWaiting ==
  ASSUME SameSizes, RingInv, Counted, Fetch
  PROVE  \E c \in Waiting : Waiting' \cup {c} = Waiting /\ inflight' = inflight \cup {c}
<1>0. N \in Nat \ {0}
  BY SizesSame
<1>1. PICK T \in Nat, D \in Nat, F \in Nat, P \in Nat, C \in Nat, S \in Nat, A \in Nat,
           h \in [Nat -> Nat] : Ring(T, D, F, P, C, S, A, h)
  BY DEF RingInv, SomeRing
<1>2. PICK G \in Nat : G = F + 1
  OBVIOUS
<1>3. /\ F < T /\ inflight' = inflight \cup {sq[F % N]}
      /\ Ring(T, D, G, P, C, S, A, h)'
  BY <1>1, <1>2, FetchRing DEF RingInv
<1>4. Waiting = {sq[j % N] : j \in F .. T - 1}
  BY <1>1, RingWaiting
<1>5. Waiting' = {sq[j % N] : j \in G .. T - 1}
  <2>1. sq' = sq /\ sq_t' = sq_t
    BY DEF Fetch, driver
  <2>2. ctrl'.head = G % N /\ sq_t = T % N
    BY <1>1, <1>3 DEF Ring, Places
  <2>3. G <= T /\ T - G < N
    BY <1>0, <1>1, <1>2, <1>3 DEF Ring, Order
  <2>4. Between(sq, G % N, T % N) = {sq[j % N] : j \in G .. T - 1}
    <3>1. T \in Nat /\ G \in Nat
      BY <1>1, <1>2
    <3>2. QED
      BY <2>3, <3>1, BetweenIs
  <2>5. QED
    BY <2>1, <2>2, <2>4, WaitingBetween
<1>6. F .. T - 1 = (G .. T - 1) \cup {F}
  BY <1>1, <1>2, <1>3
<1>7. sq[F % N] \in Waiting /\ Waiting' \cup {sq[F % N]} = Waiting
  BY <1>4, <1>5, <1>6
<1>8. QED
  BY <1>3, <1>7

(* No other step changes which commands wait.                                *)
LEMMA OtherWaiting ==
  ASSUME TypeInv, [Next]_vars, ~Put, ~Fetch
  PROVE  Waiting' = Waiting
<1>1. UNCHANGED <<sq, sq_t>> /\ ctrl'.head = ctrl.head
  <2>1. CASE Request \/ CompleteInFlight \/ CompleteAll
    BY <2>1 DEF Request, CompleteInFlight, CompleteAll, StartPoll, TypeInv, TypeOK
  <2>2. CASE PutUndefined \/ TakeCompletion \/ PollTimeout
    BY <2>2 DEF PutUndefined, TakeCompletion, PollTimeout, driver
  <2>3. CASE PollDone \/ Complete \/ CompleteWithError
    BY <2>3 DEF PollDone, Complete, CompleteWithError, Post, driver, TypeInv, TypeOK
  <2>4. CASE UNCHANGED vars
    BY <2>4 DEF vars, driver
  <2>5. QED
    BY <2>1, <2>2, <2>3, <2>4 DEF Next
<1>2. QED
  BY <1>1, WaitingBetween

(* A command in the ring stays there until the controller takes it, for      *)
(* queues of every size and whatever was left by calls that timed out        *)
(* (nvme_internal_read and its check for a full queue).                      *)
THEOREM NoCommandLost == ASSUME SameSizes PROVE Spec => CommandsKept
<1>1. ASSUME RingInv, [Next]_vars, Counted
      PROVE  Waiting \subseteq Waiting' \cup inflight'
  <2>1. CASE Put
    BY <1>1, <2>1, PutWaiting
  <2>2. CASE Fetch
    BY <1>1, <2>2, FetchWaiting
  <2>3. CASE ~Put /\ ~Fetch
    BY <1>1, <2>3, OtherWaiting DEF RingInv
  <2>4. QED
    BY <2>1, <2>2, <2>3
<1>2. RingInv /\ [Next]_vars => [Counted => Waiting \subseteq Waiting' \cup inflight']_vars
  BY <1>1
<1>3. QED
  BY <1>2, RingAlways, PTL DEF CommandsKept, Spec

(* The PRP list of a command leads to its own data until it is finished, for *)
(* queues of every size, while the driver can count what is open             *)
(* (nvme_fill_prp and the reset of cid in nvme_complete_cmds_polled).        *)
THEOREM ListsStay == ASSUME SameSizes PROVE Spec => []ListsKept
<1>1. RingInv => ListsKept
  <2> SUFFICES ASSUME RingInv, Counted, NEW c \in Waiting \cup inflight, UsesList(c.nlb)
               PROVE  prp_list[c.cid] = c.prp
    BY DEF ListsKept
  <2>1. PICK T \in Nat, D \in Nat, F \in Nat, P \in Nat, C \in Nat, S \in Nat, A \in Nat,
             h \in [Nat -> Nat] : Ring(T, D, F, P, C, S, A, h)
    BY DEF RingInv, SomeRing
  <2>2. Waiting = {sq[j % N] : j \in F .. T - 1}
    BY <2>1, RingWaiting
  <2>3. Listed(c, prp_list)
    BY <2>1, <2>2 DEF Ring, Commands
  <2>4. QED
    BY <2>3 DEF Listed
<1>2. QED
  BY <1>1, RingAlways, PTL

(* Before any timeout, a driver that waits for an entry waits for one that   *)
(* will come: the controller has a command to take, or one to finish and     *)
(* room for its entry (the count in nvme_complete_cmds_polled).              *)
THEOREM WaitsForWhatComes == ASSUME SameSizes PROVE Spec => []NoDeadWait
<1>1. RingInv => NoDeadWait
  <2> SUFFICES ASSUME RingInv, Polling, ncmds > 0, ~Ready, ~late, ctrl.head = ctrl.tail
               PROVE  inflight # {} /\ MayPost
    BY DEF NoDeadWait
  <2>0. N \in Nat \ {0} /\ N >= 2 /\ iocq_sz = N
    BY SizesSame
  <2>1. PICK T \in Nat, D \in Nat, F \in Nat, P \in Nat, C \in Nat, S \in Nat, A \in Nat,
             h \in [Nat -> Nat] : Ring(T, D, F, P, C, S, A, h)
    BY DEF RingInv, SomeRing
  <2>2. Order(T, D, F, P, C, S, A) /\ Places(T, D, F, P, C, S, A) /\ D = T /\ ncmds = T - C /\ T < A + N
    BY <2>1 DEF Ring, Calls
  <2>3. F = T
    <3>1. F % N = T % N
      BY <2>2 DEF Places
    <3>2. T - F < N /\ F - T < N
      BY <2>0, <2>2 DEF Order
    <3>3. QED
      BY <2>0, <2>1, <3>1, <3>2, RingSame
  <2>4. P = C
    <3>1. C \in C .. C + N - 1
      BY <2>0, <2>1
    <3>2. cq[C % N].phase = IF C < P THEN 1 - Round(C) ELSE Round(C)
      BY <2>1, <3>1 DEF Ring, Entries
    <3>3. cq[C % N].phase = Round(C)
      BY <2>2 DEF Ready, Places
    <3>4. Round(C) \in {0, 1}
      BY <2>1, RoundNext
    <3>5. QED
      BY <2>2, <3>2, <3>3, <3>4 DEF Order
  <2>5. inflight # {}
    <3>1. Cardinality(inflight) = F - P /\ F - P # 0
      BY <2>1, <2>2, <2>3, <2>4 DEF Ring, Commands
    <3>2. QED
      BY <3>1, FS_EmptySet
  <2>6. MayPost
    <3>0. PICK Q \in Nat : Q = P + 1
      BY <2>1
    <3>1. Q # A /\ Q - A < N /\ A - Q < N
      BY <2>0, <2>1, <2>2, <2>3, <2>4, <3>0 DEF Order
    <3>2. (P + 1) % N # A % N
      BY <2>0, <2>1, <3>0, <3>1, RingSame
    <3>3. ((P % N) + 1) % N = (P + 1) % N
      BY <2>0, <2>1, RingAdd
    <3>4. QED
      BY <2>0, <2>2, <3>2, <3>3 DEF MayPost, Places
  <2>7. QED
    BY <2>5, <2>6
<1>2. QED
  BY <1>1, RingAlways, PTL
-----------------------------------------------------------------------------
(* When the driver loses count.                                              *)

\* Every open command has had an identifier since cid was last reset.
OpenNumbered == Counted => open <= cid
CountInv == RingInv /\ OpenNumbered

LEMMA CountKept ==
  ASSUME SameSizes, CountInv, [Next]_vars
  PROVE  CountInv'
<1>1. RingInv' /\ RingInv /\ TypeInv /\ TypeInv'
  BY RingKept DEF CountInv, RingInv
<1>2. open \in Nat /\ open' \in Nat /\ cid \in Nat /\ CCQ_SIZE \in Nat /\ iosq_sz = CCQ_SIZE
  BY <1>1, Sizes, SizesSame DEF TypeInv, TypeOK, N
<1>3. CASE Put
  <2>1. open' = SizeMin(open + 1, CCQ_SIZE + 1) /\ cid' = cid + 1
    BY <1>3 DEF Put
  <2>2. OpenNumbered'
    BY <1>2, <2>1 DEF CountInv, OpenNumbered, Counted, SizeMin
  <2>3. QED
    BY <1>1, <2>2 DEF CountInv
<1>4. CASE PollDone
  <2>1. open' = open /\ cid' \in {0, cid}
    BY <1>4 DEF PollDone
  <2>2. Counted => open = 0
    <3> SUFFICES ASSUME Counted
                 PROVE  open = 0
      OBVIOUS
    <3>1. PICK T \in Nat, D \in Nat, F \in Nat, P \in Nat, C \in Nat, S \in Nat, A \in Nat,
               h \in [Nat -> Nat] : Ring(T, D, F, P, C, S, A, h)
      BY <1>1 DEF RingInv, SomeRing
    <3>2. T = C /\ open = T - C
      BY <1>1, <1>4, <3>1, DoneRing DEF Ring, Places
    <3>3. QED
      BY <3>1, <3>2
  <2>3. QED
    BY <1>1, <1>2, <2>1, <2>2 DEF CountInv, OpenNumbered, Counted
<1>5. CASE ~Put /\ ~PollDone
  <2>1. cid' = cid /\ (open' = open \/ (open' = open - 1 /\ open \in 1 .. CCQ_SIZE))
    <3>1. CASE Request \/ CompleteInFlight \/ CompleteAll
      BY <3>1 DEF Request, CompleteInFlight, CompleteAll, StartPoll
    <3>2. CASE PutUndefined \/ TakeCompletion \/ PollTimeout
      BY <3>2 DEF PutUndefined, TakeCompletion, PollTimeout, driver
    <3>3. CASE Fetch \/ Complete \/ CompleteWithError \/ UNCHANGED vars
      BY <3>3 DEF Fetch, Complete, CompleteWithError, Post, driver, vars
    <3>4. QED
      BY <1>5, <3>1, <3>2, <3>3 DEF Next
  <2>2. QED
    BY <1>1, <1>2, <2>1 DEF CountInv, OpenNumbered, Counted
<1>6. QED
  BY <1>3, <1>4, <1>5

LEMMA CountLost ==
  ASSUME SameSizes, CountInv, [Next]_vars, Counted, ~Counted'
  PROVE  late /\ ~UsesList(Chunk)
<1>1. RingInv /\ RingInv' /\ TypeInv
  BY RingKept DEF CountInv, RingInv
<1>2. open \in Nat /\ cid \in Nat /\ CCQ_SIZE \in Nat /\ iosq_sz = CCQ_SIZE
  BY <1>1, Sizes, SizesSame DEF TypeInv, TypeOK, N
<1>3. Put
  <2>1. CASE Request \/ CompleteInFlight \/ CompleteAll
    BY <2>1 DEF Request, CompleteInFlight, CompleteAll, StartPoll, Counted
  <2>2. CASE PutUndefined \/ PollTimeout
    BY <2>2 DEF PutUndefined, PollTimeout, driver, Counted
  <2>3. CASE TakeCompletion
    BY <1>2, <2>3 DEF TakeCompletion, Counted
  <2>4. CASE PollDone \/ Fetch \/ UNCHANGED vars
    BY <2>4 DEF PollDone, Fetch, driver, vars, Counted
  <2>5. CASE Complete \/ CompleteWithError
    BY <2>5 DEF Complete, CompleteWithError, Post, driver, Counted
  <2>6. QED
    BY <2>1, <2>2, <2>3, <2>4, <2>5 DEF Next
<1>4. late' = late /\ open' = SizeMin(open + 1, CCQ_SIZE + 1)
  BY <1>3 DEF Put
<1>5. late
  BY <1>1, <1>4 DEF RingInv
<1>6. ASSUME UsesList(Chunk)
      PROVE  FALSE
  <2>1. cid < CCQ_SIZE
    BY <1>2, <1>3, <1>6 DEF Put
  <2>2. QED
    BY <1>2, <1>4, <2>1 DEF CountInv, OpenNumbered, Counted, SizeMin
<1>7. QED
  BY <1>5, <1>6

(* The driver can count what is open until a poll times out, and loses count *)
(* only when it then puts a command that needs no PRP list: the size of the  *)
(* array of PRP lists is what saves the count of nvme_complete_cmds_polled.  *)
THEOREM CountIsKept ==
  ASSUME SameSizes
  PROVE  Spec => /\ [](~late => Counted)
                 /\ [][Counted => Counted' \/ (late /\ ~UsesList(Chunk))]_vars
<1>1. Init => CountInv
  <2> SUFFICES ASSUME Init
               PROVE  CountInv
    OBVIOUS
  <2>1. open = 0 /\ cid = 0
    BY DEF Init
  <2>2. QED
    BY <2>1, RingStart DEF CountInv, OpenNumbered
<1>2. CountInv /\ [Next]_vars => CountInv'
  BY CountKept
<1>3. CountInv => (~late => Counted)
  BY DEF CountInv, RingInv
<1>4. CountInv /\ [Next]_vars => [Counted => Counted' \/ (late /\ ~UsesList(Chunk))]_vars
  BY CountLost
<1>5. QED
  BY <1>1, <1>2, <1>3, <1>4, PTL DEF Spec

-----------------------------------------------------------------------------
(* What is moved.                                                            *)

Open == Waiting \cup inflight
Data(c) == Blocks(c.opc, c.slba, c.prp, c.nlb)
MovedNow == {m \in moved : m[3] = requests}

\* The part of the request that is cut off is moved or under way.
Progress ==
  /\ requests > 0 => start = req[2] + buffer /\ req[3] = buffer + count
  /\ pc = "idle" => count = 0
  /\ requests = 0 => buffer = 0
  /\ \A c \in Open : c.opc = req[1] /\ c.prp[1] = requests
  /\ \A m \in moved : m[3] <= requests /\ m[3] \in Nat
  /\ MovedNow \cup UNION {Data(c) : c \in Open} = Blocks(req[1], req[2], <<requests, 0>>, buffer)

DataInv == RingInv /\ (~late /\ ~failed => Progress)

LEMMA NothingOpen ==
  ASSUME SameSizes, RingInv, ~late, pc = "idle"
  PROVE  Open = {}
<1>1. PICK T \in Nat, D \in Nat, F \in Nat, P \in Nat, C \in Nat, S \in Nat, A \in Nat,
           h \in [Nat -> Nat] : Ring(T, D, F, P, C, S, A, h)
  BY DEF RingInv, SomeRing
<1>2. T = C /\ F = T /\ P = T
  BY <1>1 DEF Ring, Order, Calls
<1>3. Waiting = {}
  <2>1. F .. T - 1 = {}
    BY <1>1, <1>2
  <2>2. QED
    BY <1>1, <2>1, RingWaiting
<1>4. inflight = {}
  <2>1. IsFiniteSet(inflight) /\ Cardinality(inflight) = 0
    BY <1>1, <1>2 DEF Ring, Commands
  <2>2. QED
    BY <2>1, FS_EmptySet
<1>5. QED
  BY <1>3, <1>4 DEF Open

LEMMA NoBlocks == \A opc, lba, at : Blocks(opc, lba, at, 0) = {}
<1>1. Indices(0) = {}
  BY DEF Indices
<1>2. QED
  BY <1>1 DEF Blocks

LEMMA BlocksAppended ==
  ASSUME NEW opc, NEW lba \in Nat, NEW r, NEW n \in Nat, NEW k \in Nat
  PROVE  Blocks(opc, lba, <<r, 0>>, n) \cup Blocks(opc, lba + n, <<r, n>>, k)
           = Blocks(opc, lba, <<r, 0>>, n + k)
<1> DEFINE B(j) == <<opc, lba + j, r, j>>
<1>1. \A m \in Nat : Blocks(opc, lba, <<r, 0>>, m) = {B(j) : j \in 0 .. m - 1}
  BY DEF Blocks, Indices
<1>2. Blocks(opc, lba + n, <<r, n>>, k) = {B(n + j) : j \in 0 .. k - 1}
  BY DEF Blocks, Indices
<1> HIDE DEF B
<1>3. 0 .. n + k - 1 = (0 .. n - 1) \cup {n + j : j \in 0 .. k - 1}
  <2>1. ASSUME NEW j \in 0 .. n + k - 1, j \notin 0 .. n - 1
        PROVE  j - n \in 0 .. k - 1 /\ n + (j - n) = j
    BY <2>1
  <2>2. QED
    BY <2>1
<1>4. {B(j) : j \in 0 .. n + k - 1} = {B(j) : j \in 0 .. n - 1} \cup {B(n + j) : j \in 0 .. k - 1}
  BY <1>3
<1>5. n + k \in Nat
  OBVIOUS
<1>6. QED
  BY <1>1, <1>2, <1>4, <1>5
LEMMA ProgressPut ==
  ASSUME SameSizes, RingInv, Progress, Counted, Put
  PROVE  Progress'
<1>1. TypeInv /\ MayPut /\ req[2] \in Nat /\ requests \in 1 .. MaxRequests /\ count \in Nat
      /\ buffer \in Nat /\ start \in Nat
  BY NvmeAssumption DEF RingInv, TypeInv, TypeOK, Put, MayPut, PlaceInv
<1>2. /\ pc' = "cut" /\ start' = start + Chunk /\ buffer' = buffer + Chunk /\ count' = count - Chunk
      /\ UNCHANGED <<requests, req, inflight, moved>>
  BY DEF Put, Advance
<1>3. Chunk \in Nat /\ Chunk <= count
  BY <1>1, ChunkSize
<1>4. Open' = Open \cup {NewCommand}
  BY <1>2, PutWaiting DEF Open
<1>5. start = req[2] + buffer /\ req[3] = buffer + count
  BY <1>1 DEF Progress
<1>6. Data(NewCommand) = Blocks(req[1], req[2] + buffer, <<requests, buffer>>, Chunk)
  BY <1>5 DEF Data, NewCommand
<1>7. MovedNow' \cup UNION {Data(c) : c \in Open'}
        = (MovedNow \cup UNION {Data(c) : c \in Open}) \cup Data(NewCommand)
  <2>1. MovedNow' = MovedNow
    BY <1>2 DEF MovedNow
  <2>2. {Data(c) : c \in Open'} = {Data(c) : c \in Open} \cup {Data(NewCommand)}
    BY <1>4
  <2>3. QED
    BY <2>1, <2>2
<1>8. MovedNow' \cup UNION {Data(c) : c \in Open'}
        = Blocks(req[1], req[2], <<requests, 0>>, buffer + Chunk)
  BY <1>1, <1>3, <1>6, <1>7, BlocksAppended DEF Progress
<1>9. (UNION {Data(c) : c \in Open})' = UNION {Data(c) : c \in Open'}
  BY DEF Data, Blocks
<1>10. /\ requests' > 0 => start' = req'[2] + buffer' /\ req'[3] = buffer' + count'
  <2>1. req[2] + (buffer + Chunk) = (req[2] + buffer) + Chunk
    BY <1>1, <1>3
  <2>2. buffer + count = (buffer + Chunk) + (count - Chunk)
    BY <1>1, <1>3
  <2>3. QED
    BY <1>2, <1>5, <2>1, <2>2
<1>11. \A c \in Open' : c.opc = req'[1] /\ c.prp[1] = requests'
  BY <1>2, <1>4 DEF Progress, NewCommand
<1>12. \A m \in moved' : m[3] <= requests' /\ m[3] \in Nat
  BY <1>2 DEF Progress
<1>13. requests' # 0 /\ pc' # "idle"
  BY <1>1, <1>2
<1>14. MovedNow' \cup (UNION {Data(c) : c \in Open})'
         = Blocks(req'[1], req'[2], <<requests', 0>>, buffer')
  BY <1>2, <1>8, <1>9
<1>15. QED
  BY <1>10, <1>11, <1>12, <1>13, <1>14 DEF Progress, Blocks

LEMMA ProgressRequest ==
  ASSUME SameSizes, RingInv, Progress, ~late, Request
  PROVE  Progress'
<1>1. /\ pc = "idle" /\ pc' = "cut" /\ start' = req'[2] /\ count' = req'[3] /\ requests' = requests + 1
      /\ buffer' = 0 /\ UNCHANGED <<inflight, moved>> /\ req' \in Requests
  BY DEF Request
<1>2. Open' = {}
  <2>1. Waiting' = Waiting
    <3>1. ~Put /\ ~Fetch /\ [Next]_vars
      BY <1>1 DEF Put, MayPut, Fetch, driver, Next
    <3>2. QED
      BY <3>1, OtherWaiting DEF RingInv
  <2>2. QED
    BY <1>1, <2>1, NothingOpen DEF Open
<1>3. requests \in Nat /\ req'[2] \in Nat /\ req'[3] \in Nat
  BY <1>1, NvmeAssumption DEF RingInv, TypeInv, TypeOK
<1>4. \A m \in moved' : m[3] <= requests' /\ m[3] \in Nat /\ m[3] # requests'
  BY <1>1, <1>3 DEF Progress
<1>5. MovedNow' = {}
  BY <1>4 DEF MovedNow
<1>6. (UNION {Data(c) : c \in Open})' = {}
  BY <1>2
<1>7. Blocks(req'[1], req'[2], <<requests', 0>>, buffer') = {}
  BY <1>1, NoBlocks
<1>8. QED
  BY <1>1, <1>2, <1>3, <1>4, <1>5, <1>6, <1>7 DEF Progress, Blocks

LEMMA ProgressComplete ==
  ASSUME SameSizes, RingInv, Progress, Counted, Complete
  PROVE  Progress'
<1>1. PICK c \in inflight :
        Post(c) /\ moved' = moved \cup Blocks(c.opc, c.slba, DataAt(c), c.nlb)
  BY DEF Complete
<1>2. inflight' = inflight \ {c} /\ UNCHANGED <<pc, driver>>
  BY <1>1 DEF Post
<1>3. Waiting' = Waiting
  <2>1. ~Put /\ ~Fetch
    <3>1. cid \in Nat /\ ctrl.head \in Nat /\ ctrl.head < iosq_sz /\ iosq_sz >= 2 /\ iosq_sz \in Nat
      BY Sizes DEF RingInv, TypeInv, TypeOK, Indices
    <3>2. ~Put
      BY <1>2, <3>1 DEF Put, driver
    <3>3. ctrl'.head = ctrl.head
      BY <1>1 DEF Post, RingInv, TypeInv, TypeOK
    <3>4. Fetch => ctrl'.head = (ctrl.head + 1) % iosq_sz
      BY DEF Fetch, RingInv, TypeInv, TypeOK
    <3>5. (ctrl.head + 1) % iosq_sz # ctrl.head % iosq_sz
      BY <3>1, RingMoves
    <3>6. ctrl.head % iosq_sz = ctrl.head
      BY <3>1
    <3>7. QED
      BY <3>2, <3>3, <3>4, <3>5, <3>6
  <2>2. [Next]_vars
    BY DEF Next
  <2>3. QED
    BY <2>1, <2>2, OtherWaiting DEF RingInv
<1>4. DataAt(c) = c.prp
  <2>1. PICK T \in Nat, D \in Nat, F \in Nat, P \in Nat, C \in Nat, S \in Nat, A \in Nat,
             h \in [Nat -> Nat] : Ring(T, D, F, P, C, S, A, h)
    BY DEF RingInv, SomeRing
  <2>2. Listed(c, prp_list)
    BY <2>1 DEF Ring, Commands
  <2>3. QED
    BY <2>2 DEF Listed, DataAt
<1>5. c \in Open /\ c.prp[1] = requests /\ requests \in Nat
  BY DEF Open, Progress, RingInv, TypeInv, TypeOK
<1>6. moved' = moved \cup Data(c)
  BY <1>1, <1>4 DEF Data
<1>7. \A m \in Data(c) : m[3] = requests
  BY <1>5 DEF Data, Blocks
<1>8. UNCHANGED <<pc, requests, req, start, count, buffer>>
  BY <1>2 DEF driver
<1>9. Open' \subseteq Open /\ Open \subseteq Open' \cup {c}
  BY <1>2, <1>3 DEF Open
<1>10. MovedNow' = MovedNow \cup Data(c)
  BY <1>6, <1>7, <1>8 DEF MovedNow
<1>11. MovedNow' \cup UNION {Data(d) : d \in Open'} = MovedNow \cup UNION {Data(d) : d \in Open}
  BY <1>5, <1>9, <1>10
<1>12. (UNION {Data(d) : d \in Open})' = UNION {Data(d) : d \in Open'}
  BY DEF Data, Blocks
<1>13. \A m \in moved' : m[3] <= requests' /\ m[3] \in Nat
  BY <1>5, <1>6, <1>7, <1>8 DEF Progress
<1>14. \A d \in Open' : d.opc = req'[1] /\ d.prp[1] = requests'
  BY <1>8, <1>9 DEF Progress
<1>15. MovedNow' \cup (UNION {Data(d) : d \in Open})'
         = Blocks(req'[1], req'[2], <<requests', 0>>, buffer')
  BY <1>8, <1>11, <1>12 DEF Progress
<1>16. QED
  BY <1>8, <1>13, <1>14, <1>15 DEF Progress, Blocks
(* The steps that neither cut the request nor move data.                     *)
LEMMA ProgressOther ==
  ASSUME SameSizes, RingInv, Progress, Counted, [Next]_vars, ~late',
         ~Put, ~Request, ~Complete, ~CompleteWithError
  PROVE  Progress'
<1>1. UNCHANGED <<requests, req, start, count, buffer, moved>>
  <2>1. CASE CompleteInFlight \/ CompleteAll
    BY <2>1 DEF CompleteInFlight, CompleteAll, StartPoll
  <2>2. CASE PutUndefined \/ TakeCompletion \/ PollTimeout
    BY <2>2 DEF PutUndefined, TakeCompletion, PollTimeout, driver
  <2>3. CASE PollDone \/ Fetch \/ UNCHANGED vars
    BY <2>3 DEF PollDone, Fetch, vars, driver
  <2>4. QED
    BY <2>1, <2>2, <2>3 DEF Next
<1>2. pc' = "idle" => count' = 0
  <2>1. CASE CompleteInFlight \/ CompleteAll
    BY <2>1 DEF CompleteInFlight, CompleteAll
  <2>2. CASE PutUndefined \/ TakeCompletion \/ Fetch \/ UNCHANGED vars
    BY <1>1, <2>2 DEF PutUndefined, TakeCompletion, Fetch, vars, Progress
  <2>3. CASE PollTimeout
    BY <2>3 DEF PollTimeout
  <2>4. CASE PollDone
    BY <1>1, <2>4 DEF PollDone, Polling, Return, RingInv, TypeInv, PlaceInv
  <2>5. QED
    BY <2>1, <2>2, <2>3, <2>4 DEF Next
<1>3. Open' = Open
  <2>1. CASE Fetch
    BY <2>1, FetchWaiting DEF Open
  <2>2. CASE ~Fetch
    <3>1. Waiting' = Waiting
      BY <2>2, OtherWaiting DEF RingInv
    <3>2. inflight' = inflight
      <4>1. CASE CompleteInFlight \/ CompleteAll
        BY <4>1 DEF CompleteInFlight, CompleteAll, StartPoll
      <4>2. CASE PutUndefined \/ TakeCompletion \/ PollTimeout
        BY <4>2 DEF PutUndefined, TakeCompletion, PollTimeout
      <4>3. CASE PollDone \/ UNCHANGED vars
        BY <4>3 DEF PollDone, vars
      <4>4. QED
        BY <2>2, <4>1, <4>2, <4>3 DEF Next
    <3>3. QED
      BY <3>1, <3>2 DEF Open
  <2>3. QED
    BY <2>1, <2>2
<1>4. MovedNow' = MovedNow
  BY <1>1 DEF MovedNow
<1>5. (UNION {Data(c) : c \in Open})' = UNION {Data(c) : c \in Open}
  BY <1>3 DEF Data, Blocks
<1>6. \A c \in Open' : c.opc = req'[1] /\ c.prp[1] = requests'
  BY <1>1, <1>3 DEF Progress
<1>7. MovedNow' \cup (UNION {Data(c) : c \in Open})'
        = Blocks(req'[1], req'[2], <<requests', 0>>, buffer')
  BY <1>1, <1>4, <1>5 DEF Progress
<1>8. QED
  BY <1>1, <1>2, <1>6, <1>7 DEF Progress, Blocks

LEMMA ProgressStart == ASSUME SameSizes, Init PROVE Progress
<1>1. RingInv /\ ~late /\ pc = "idle"
  BY RingStart DEF Init
<1>2. Open = {}
  BY <1>1, NothingOpen
<1>3. moved = {} /\ count = 0 /\ buffer = 0 /\ requests = 0
  BY DEF Init
<1>4. Blocks(req[1], req[2], <<requests, 0>>, buffer) = {}
  BY <1>3, NoBlocks
<1>5. QED
  BY <1>2, <1>3, <1>4 DEF Progress, MovedNow

LEMMA DataKept ==
  ASSUME SameSizes, DataInv, [Next]_vars
  PROVE  DataInv'
<1>1. RingInv /\ RingInv'
  BY RingKept DEF DataInv
<1>2. late' \in {late, TRUE} /\ failed' \in {failed, TRUE}
  <2>1. CASE Request \/ CompleteInFlight \/ CompleteAll
    BY <2>1 DEF Request, CompleteInFlight, CompleteAll, StartPoll
  <2>2. CASE Put \/ PutUndefined \/ TakeCompletion
    BY <2>2 DEF Put, PutUndefined, TakeCompletion, driver
  <2>3. CASE PollTimeout \/ PollDone
    BY <2>3 DEF PollTimeout, PollDone
  <2>4. CASE Fetch \/ UNCHANGED vars
    BY <2>4 DEF Fetch, vars, driver
  <2>5. CASE Complete \/ CompleteWithError
    BY <2>5 DEF Complete, CompleteWithError, Post, driver
  <2>6. QED
    BY <2>1, <2>2, <2>3, <2>4, <2>5 DEF Next
<1>3. SUFFICES ASSUME ~late', ~failed'
               PROVE  Progress'
  BY <1>1 DEF DataInv
<1>4. Progress /\ Counted /\ ~late
  <2>1. ~late
    BY <1>2, <1>3
  <2>2. ~failed
    BY <1>2, <1>3
  <2>3. QED
    BY <1>1, <2>1, <2>2 DEF DataInv, RingInv
<1>5. CASE Put
  BY <1>1, <1>4, <1>5, ProgressPut
<1>6. CASE Request
  BY <1>1, <1>4, <1>6, ProgressRequest
<1>7. CASE Complete
  BY <1>1, <1>4, <1>7, ProgressComplete
<1>8. CASE CompleteWithError
  BY <1>3, <1>8 DEF CompleteWithError
<1>9. CASE ~Put /\ ~Request /\ ~Complete /\ ~CompleteWithError
  BY <1>1, <1>3, <1>4, <1>9, ProgressOther
<1>10. QED
  BY <1>5, <1>6, <1>7, <1>8, <1>9

(* A call that reports success has moved exactly the blocks it was asked     *)
(* for, each to its place in the buffer, for every request and queues of     *)
(* every size, before the first timeout and the first failed command         *)
(* (nvme_read and nvme_write, cut by nvme_internal_read).                    *)
THEOREM DataArrives == ASSUME SameSizes PROVE Spec => []DataMoved
<1>1. Init => DataInv
  BY RingStart, ProgressStart DEF DataInv
<1>2. DataInv /\ [Next]_vars => DataInv'
  BY DataKept
<1>3. DataInv => DataMoved
  <2> SUFFICES ASSUME DataInv, pc = "idle", requests > 0, ~late, ~failed
               PROVE  MovedNow = Blocks(req[1], req[2], <<requests, 0>>, req[3])
    BY DEF DataMoved, MovedNow
  <2>1. Progress /\ RingInv
    BY DEF DataInv
  <2>2. Open = {}
    BY <2>1, NothingOpen
  <2>3. req[3] = buffer
    BY <2>1 DEF Progress, RingInv, TypeInv, TypeOK
  <2>4. QED
    BY <2>1, <2>2, <2>3 DEF Progress
<1>4. QED
  BY <1>1, <1>2, <1>3, PTL DEF Spec
=============================================================================
