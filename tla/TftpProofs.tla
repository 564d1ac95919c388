------------------------------ MODULE TftpProofs -------------------------------
(* Theorems about Tftp: the client never acknowledges a block it has not got, *)
(* and gives its caller what FileTransfer promises, for any number of         *)
(* sessions, files and buffers of any size, block numbers of any width and    *)
(* channels of any size.                                                      *)
EXTENDS Tftp, TLAPS, SequenceTheorems

TypeInv ==
  /\ pc \in {"start", "poll", "check", "done"}
  /\ tftp_status \in {"pending", "success", "failure"}
  /\ tftp_blocknum \in Nat \ {0}
  /\ rport \in Tids \cup {0}
  /\ file \in [Tids -> Files]
  /\ serving \in [Tids -> Nat]

\* Blocks have been acknowledged, to the session at rport.
Linked == tftp_blocknum > 1

ClientInv ==
  /\ pc \in {"start", "poll"} => tftp_status = "pending"
  /\ Linked => pc # "start" /\ rport # 0 /\ tftp_blocknum <= file[rport].blocks

\* Sessions that no block was acknowledged to are at their first block or over.
ServerInv ==
  \A t \in Tids :
    \/ serving[t] \in {0, 1}
    \/ serving[t] > file[t].blocks
    \/ Linked /\ t = rport /\ serving[t] \in {tftp_blocknum - 1, tftp_blocknum}

\* So their data is their first block; that of the session at rport goes up to
\* the block the client waits for.
DataInv ==
  \A m \in to_client :
    /\ m.tid \in Tids
    /\ m.kind = "data" =>
         /\ m.num \in 1 .. file[m.tid].blocks
         /\ m.num <= serving[m.tid]
         /\ m.num = 1 \/ (Linked /\ m.tid = rport /\ m.num <= tftp_blocknum)

AckInv ==
  \A m \in to_server :
    m.kind = "ack" => Linked /\ m.tid = rport /\ m.num \in 1 .. tftp_blocknum - 1

\* While the download runs the buffer holds the blocks acknowledged.
DestInv ==
  tftp_status = "pending" => dest = [i \in 1 .. tftp_blocknum - 1 |-> <<rport, i>>]

LinkInv == ClientInv /\ ServerInv /\ LockStep
IInv == TypeInv /\ LinkInv /\ DataInv /\ AckInv /\ DestInv

LEMMA Constants ==
  /\ Tids \subseteq Nat \ {0} /\ 0 \notin Tids
  /\ NumWrap \in Nat \ {0, 1} /\ TftpMaxBlockSize \in Nat
  /\ \A f \in Files : f.blocks \in Nat \ {0} /\ f.last \in Nat /\ f.last < TftpMaxBlockSize
BY TftpAssumption DEF TftpAssumption

--------------------------------------------------------------------------------
(* Numbers less than a turn apart are told apart by what is on the wire.      *)
LEMMA SameNumber ==
  ASSUME NEW w \in Nat \ {0}, NEW a \in Nat, NEW b \in Nat,
         a <= b, b - a < w, a % w = b % w
  PROVE  a = b
<1> DEFINE i == a \div w
           j == b \div w
<1>1. /\ i \in Int /\ j \in Int
      /\ a = w * i + (a % w) /\ b = w * j + (b % w)
  OBVIOUS
<1> HIDE DEF i, j
<1>2. b - a = w * (j - i)
  BY <1>1
<1>3. j - i \in Int /\ w * (j - i) >= 0 /\ w * (j - i) < w
  BY <1>1, <1>2
<1>4. ASSUME NEW k \in Int, w * k >= 0, w * k < w
      PROVE  k = 0
  <2>1. k >= 1 => w * k >= w
    OBVIOUS
  <2>2. k <= -1 => w * k <= -w
    OBVIOUS
  <2>3. QED
    BY <1>4, <2>1, <2>2
<1>5. j - i = 0
  BY <1>3, <1>4
<1>6. QED
  BY <1>2, <1>5

(* What a channel holds has been sent.                                        *)
LEMMA Channels ==
  ASSUME NEW chan, NEW m
  PROVE  /\ \A c \in Sent(chan, m) : c \subseteq chan \cup {m}
         /\ \A c \in Received(chan, m) : c \subseteq chan
BY DEF Sent, Received

(* A block that is taken is the one waited for.                               *)
LEMMA TakenIsNext ==
  ASSUME IInv, NEW m \in to_client, PollExpected(m)
  PROVE  /\ m.num = tftp_blocknum /\ m.tid \in Tids /\ rport' = m.tid
         /\ Linked => rport = m.tid
<1>1. /\ m.kind = "data" /\ m.num % NumWrap = tftp_blocknum % NumWrap
      /\ m.num >= serving[m.tid] + 2 - NumWrap
      /\ rport' = m.tid /\ rport \in {0, m.tid}
  BY DEF PollExpected, Poll, Expected, Accepts, Latch, Alive
<1>2. /\ m.tid \in Tids /\ m.num \in 1 .. file[m.tid].blocks /\ m.num <= serving[m.tid]
      /\ m.num = 1 \/ (Linked /\ m.tid = rport /\ m.num <= tftp_blocknum)
  BY <1>1 DEF IInv, DataInv
<1>3. /\ tftp_blocknum \in Nat \ {0} /\ serving[m.tid] \in Nat /\ NumWrap \in Nat \ {0, 1}
      /\ file[m.tid].blocks \in Nat
  BY <1>2, Constants DEF IInv, TypeInv
<1>4. CASE ~Linked
  BY <1>1, <1>2, <1>3, <1>4 DEF Linked
<1>5. CASE Linked
  <2>1. /\ rport = m.tid /\ tftp_blocknum <= file[m.tid].blocks
        /\ \/ serving[m.tid] \in {tftp_blocknum - 1, tftp_blocknum}
           \/ serving[m.tid] > file[m.tid].blocks
    BY <1>1, <1>5 DEF IInv, LinkInv, ClientInv, LockStep, Linked
  <2>2. m.num \in Nat /\ m.num <= tftp_blocknum
    BY <1>2, <1>3, <1>5 DEF Linked
  <2>3. tftp_blocknum - m.num < NumWrap
    BY <1>1, <1>3, <2>1, <2>2
  <2>4. m.num = tftp_blocknum
    BY <1>1, <1>3, <2>2, <2>3, SameNumber
  <2>5. QED
    BY <1>1, <1>2, <2>1, <2>4
<1>6. QED
  BY <1>4, <1>5

--------------------------------------------------------------------------------
LEMMA IInvInit == Init => IInv
<1> SUFFICES ASSUME Init PROVE IInv
  OBVIOUS
<1>1. TypeInv
  BY DEF Init, TypeInv
<1>2. LinkInv
  BY DEF Init, LinkInv, ClientInv, ServerInv, LockStep, Linked
<1>3. DataInv /\ AckInv
  BY DEF Init, DataInv, AckInv
<1>4. DestInv
  BY DEF Init, DestInv
<1>5. QED
  BY <1>1, <1>2, <1>3, <1>4 DEF IInv

(* Steps that leave the sessions and the numbers alone.                       *)
LEMMA QuietKeeps ==
  ASSUME IInv,
         pc' \in {"poll", "check", "done"},
         tftp_status' \in {tftp_status, "failure"},
         pc' = "poll" => tftp_status' = "pending",
         rport' \in Tids \cup {0}, Linked => rport' = rport,
         to_client' \subseteq to_client,
         \A m \in to_server' : m.kind = "ack" =>
           m \in to_server \/ (Linked /\ m.tid = rport /\ m.num = tftp_blocknum - 1),
         UNCHANGED <<tftp_blocknum, dest, server>>
  PROVE  IInv'
<1> USE DEF IInv, server
<1>1. TypeInv'
  BY DEF TypeInv
<1>2. tftp_blocknum \in Nat \ {0} /\ Linked' = Linked
  BY DEF TypeInv, Linked
<1>3. ClientInv'
  BY <1>2 DEF LinkInv, ClientInv
<1>4. ServerInv' /\ LockStep'
  BY <1>2 DEF LinkInv, ServerInv, LockStep, Linked
<1>5. DataInv'
  BY <1>2 DEF DataInv
<1>6. AckInv'
  BY <1>2 DEF AckInv, Linked
<1>7. DestInv'
  <2>1. ~Linked => 1 .. tftp_blocknum - 1 = {}
    BY <1>2 DEF Linked
  <2>2. SUFFICES ASSUME tftp_status' = "pending"
                 PROVE  dest = [i \in 1 .. tftp_blocknum - 1 |-> <<rport', i>>]
    BY DEF DestInv
  <2>3. dest = [i \in 1 .. tftp_blocknum - 1 |-> <<rport, i>>]
    BY <2>2 DEF DestInv
  <2>4. QED
    BY <2>1, <2>3
<1>8. QED
  BY <1>1, <1>3, <1>4, <1>5, <1>6, <1>7 DEF LinkInv

LEMMA ClientKeeps ==
  ASSUME IInv,
         \/ NoConnection \/ Start \/ PollNothing
         \/ Continue \/ ResendRequest \/ ResendAck
  PROVE  IInv'
<1> USE DEF IInv
<1>1. /\ UNCHANGED <<tftp_blocknum, dest, server, to_client>>
      /\ pc' \in {"poll", "check", "done"}
      /\ tftp_status' \in {tftp_status, "failure"}
      /\ pc' = "poll" => tftp_status' = "pending"
  BY DEF NoConnection, Start, PollNothing, Continue, ResendRequest, ResendAck,
         LoopOrReturn, LinkInv, ClientInv
<1>2. tftp_blocknum \in Nat \ {0} /\ 0 \in Tids \cup {0}
  BY DEF TypeInv
<1>3. rport' \in Tids \cup {0} /\ (Linked => rport' = rport)
  BY <1>2 DEF NoConnection, Start, PollNothing, Continue, ResendRequest, ResendAck,
              Linked, TypeInv, LinkInv, ClientInv
<1>4. ASSUME NEW m \in to_server', m.kind = "ack", m \notin to_server
      PROVE  Linked /\ m.tid = rport /\ m.num = tftp_blocknum - 1
  <2>1. CASE Start \/ ResendRequest
    <3>1. m = Request
      BY <1>4, <2>1, Channels DEF Start, ResendRequest
    <3>2. QED
      BY <1>4, <3>1 DEF Request
  <2>2. CASE ResendAck
    <3>1. m = Ack(rport, tftp_blocknum - 1) /\ tftp_blocknum # 1
      BY <1>4, <2>2, Channels DEF ResendAck
    <3>2. QED
      BY <1>2, <3>1 DEF Ack, Linked
  <2>3. CASE NoConnection \/ PollNothing \/ Continue
    BY <1>4, <2>3 DEF NoConnection, PollNothing, Continue
  <2>4. QED
    BY <2>1, <2>2, <2>3
<1>5. QED
  BY <1>1, <1>3, <1>4, QuietKeeps

LEMMA DroppedKeeps ==
  ASSUME IInv, NEW m \in to_client,
         PollDropped(m) \/ PollError(m) \/ PollIgnored(m) \/ PollTooLarge(m)
  PROVE  IInv'
<1> USE DEF IInv
<1>1. /\ pc = "poll" /\ pc' = "check" /\ to_client' \in Received(to_client, m)
      /\ UNCHANGED <<tftp_blocknum, dest, server, to_server>>
      /\ tftp_status' \in {tftp_status, "failure"}
  BY DEF PollDropped, PollError, PollIgnored, PollTooLarge, PollExpected, Poll
<1>2. rport' = rport \/ (rport' = m.tid /\ rport \in {0, m.tid})
  BY DEF PollDropped, PollError, PollIgnored, PollTooLarge, PollExpected, Accepts, Latch
<1>3. rport' \in Tids \cup {0} /\ (Linked => rport' = rport)
  BY <1>2 DEF TypeInv, DataInv, LinkInv, ClientInv
<1>4. to_client' \subseteq to_client
  BY <1>1, Channels
<1>5. QED
  BY <1>1, <1>3, <1>4, QuietKeeps

LEMMA LastBlockKeeps ==
  ASSUME IInv, NEW m \in to_client, PollLastBlock(m)
  PROVE  IInv'
<1> USE DEF IInv
<1>1. /\ pc' = "check" /\ tftp_status' = "success" /\ to_client' \subseteq to_client
      /\ UNCHANGED <<tftp_blocknum, server, to_server>>
      /\ m.tid \in Tids /\ rport' = m.tid /\ (Linked => rport = m.tid)
  BY Channels, TakenIsNext DEF PollLastBlock, PollExpected, Poll
<1>2. Linked' = Linked
  BY <1>1 DEF Linked
<1>3. TypeInv'
  BY <1>1 DEF TypeInv, server
<1>4. ClientInv' /\ ServerInv' /\ LockStep'
  BY <1>1, <1>2 DEF LinkInv, ClientInv, ServerInv, LockStep, Linked, server
<1>5. DataInv' /\ AckInv'
  BY <1>1, <1>2 DEF DataInv, AckInv, server
<1>6. DestInv'
  BY <1>1 DEF DestInv
<1>7. QED
  BY <1>3, <1>4, <1>5, <1>6 DEF LinkInv

LEMMA BlockKeeps ==
  ASSUME IInv, NEW m \in to_client, PollBlock(m)
  PROVE  IInv'
<1> USE DEF IInv
<1> DEFINE b == tftp_blocknum
<1>1. /\ pc = "poll" /\ pc' = "check" /\ to_client' \subseteq to_client
      /\ tftp_blocknum' = b + 1 /\ tftp_status' = tftp_status /\ UNCHANGED server
      /\ to_server' \subseteq to_server \cup {Ack(m.tid, b)}
      /\ dest' = Append(dest, <<m.tid, m.num>>)
  BY Channels DEF PollBlock, PollExpected, Poll, CopyData
<1>2. /\ m.num = b /\ m.tid \in Tids /\ rport' = m.tid /\ (Linked => rport = m.tid)
      /\ m.kind = "data"
  BY TakenIsNext DEF PollBlock, PollExpected, Expected
<1>3. /\ b \in Nat \ {0} /\ Linked' /\ m.tid # 0
      /\ serving[m.tid] \in Nat /\ file[m.tid].blocks \in Nat
  <2>1. b \in Nat \ {0} /\ serving[m.tid] \in Nat /\ file[m.tid] \in Files
    BY <1>2 DEF TypeInv
  <2>2. Linked'
    BY <1>1, <2>1 DEF Linked
  <2>3. QED
    BY <1>2, <2>1, <2>2, Constants
<1>4. b + 1 <= file[m.tid].blocks /\ b <= serving[m.tid]
  <2>1. m.num \in 1 .. file[m.tid].blocks /\ m.num <= serving[m.tid]
    BY <1>2 DEF DataInv
  <2>2. BlockSize(m.tid, m.num) = TftpMaxBlockSize
    BY DEF PollBlock
  <2>3. file[m.tid] \in Files
    BY <1>2 DEF TypeInv
  <2>4. m.num < file[m.tid].blocks
    BY <2>2, <2>3, Constants DEF BlockSize
  <2>5. QED
    BY <1>2, <1>3, <2>1, <2>4
<1>5. TypeInv'
  BY <1>1, <1>2, <1>3 DEF TypeInv, server
<1>6. ClientInv'
  BY <1>1, <1>2, <1>3, <1>4 DEF ClientInv, server
<1>7. ServerInv' /\ LockStep'
  <2>1. serving[m.tid] \in {b, b + 1} \/ serving[m.tid] > file[m.tid].blocks
    BY <1>2, <1>3, <1>4 DEF LinkInv, ServerInv, Linked
  <2>2. ASSUME NEW t \in Tids, t # m.tid
        PROVE  serving[t] \in {0, 1} \/ serving[t] > file[t].blocks
    BY <1>2, <2>2 DEF LinkInv, ServerInv
  <2>3. ServerInv'
    BY <1>1, <1>2, <1>3, <2>1, <2>2 DEF ServerInv, server
  <2>4. LockStep'
    BY <1>1, <1>2, <1>3, <2>1 DEF LockStep, server
  <2>5. QED
    BY <2>3, <2>4
<1>8. DataInv'
  BY <1>1, <1>2, <1>3 DEF DataInv, server
<1>9. AckInv'
  <2>1. \A n \in to_server' : n \in to_server \/ n = Ack(m.tid, b)
    BY <1>1
  <2>2. Ack(m.tid, b).tid = m.tid /\ Ack(m.tid, b).num = b
    BY DEF Ack
  <2>3. QED
    BY <1>1, <1>2, <1>3, <2>1, <2>2 DEF AckInv
<1>10. DestInv'
  <2> SUFFICES ASSUME tftp_status' = "pending"
               PROVE  dest' = [i \in 1 .. b |-> <<m.tid, i>>]
    <3>1. tftp_blocknum' - 1 = b
      BY <1>1, <1>3
    <3>2. QED
      BY <1>2, <3>1 DEF DestInv
  <2>1. dest = [i \in 1 .. b - 1 |-> <<rport, i>>]
    BY <1>1 DEF DestInv
  <2>2. dest = [i \in 1 .. b - 1 |-> <<m.tid, i>>]
    <3>1. CASE Linked
      BY <1>2, <2>1, <3>1
    <3>2. CASE ~Linked
      <4>1. 1 .. b - 1 = {}
        BY <1>3, <3>2 DEF Linked
      <4>2. QED
        BY <2>1, <4>1
    <3>3. QED
      BY <3>1, <3>2
  <2>3. Len(dest) = b - 1 /\ dest \in Seq(Tids \X Nat)
    BY <1>2, <1>3, <2>2
  <2>4. QED
    BY <1>1, <1>2, <1>3, <2>2, <2>3
<1>11. QED
  BY <1>5, <1>6, <1>7, <1>8, <1>9, <1>10 DEF LinkInv

--------------------------------------------------------------------------------
(* A server answers: a session gets further and sends some packet.            *)
LEMMA ServerKeeps ==
  ASSUME IInv, NEW t \in Tids, NEW n \in Nat, NEW m,
         serving' = [serving EXCEPT ![t] = n], serving[t] <= n,
         to_client' \subseteq to_client \cup {m}, to_server' \subseteq to_server,
         UNCHANGED <<client, faulty, file>>,
         \/ n = 1
         \/ n > file[t].blocks
         \/ Linked /\ t = rport /\ n \in {tftp_blocknum - 1, tftp_blocknum},
         m.tid = t,
         m.kind = "data" =>
           /\ m.num \in 1 .. file[t].blocks /\ m.num <= n
           /\ m.num = 1 \/ (Linked /\ t = rport /\ m.num <= tftp_blocknum)
  PROVE  IInv'
<1> USE DEF IInv
<1>1. /\ Linked' = Linked /\ tftp_blocknum' = tftp_blocknum /\ rport' = rport
      /\ UNCHANGED <<pc, tftp_status, dest, file>>
      /\ \A s \in Tids : serving'[s] = IF s = t THEN n ELSE serving[s]
  BY DEF Linked, TypeInv, client
<1>2. TypeInv' /\ ClientInv' /\ AckInv' /\ DestInv'
  BY <1>1 DEF TypeInv, LinkInv, ClientInv, AckInv, DestInv
<1>3. ServerInv'
  BY <1>1 DEF LinkInv, ServerInv
<1>4. LockStep'
  <2>1. tftp_blocknum > 1 => rport \in Tids
    BY DEF LinkInv, LockStep, TypeInv
  <2>2. CASE t = rport /\ n = 1
    <3>1. tftp_blocknum > 1 => serving[t] \in {tftp_blocknum - 1, tftp_blocknum}
                              \/ serving[t] > file[t].blocks
      BY <2>2 DEF LinkInv, LockStep
    <3>2. serving[t] \in Nat /\ tftp_blocknum \in Nat \ {0} /\ file[t].blocks \in Nat \ {0}
      BY Constants DEF TypeInv
    <3>3. tftp_blocknum > 1 => serving[t] = n /\ serving[t] \in {tftp_blocknum - 1, tftp_blocknum}
      BY <2>2, <3>1, <3>2
    <3>4. serving'[rport] = n /\ (tftp_blocknum > 1 => rport # 0)
      BY <1>1, <2>1, <2>2, Constants
    <3>5. QED
      BY <1>1, <2>2, <3>3, <3>4 DEF LockStep
  <2>3. CASE t = rport /\ n # 1
    BY <1>1, <2>1, <2>3 DEF LinkInv, LockStep
  <2>4. CASE t # rport
    BY <1>1, <2>1, <2>4 DEF LinkInv, LockStep
  <2>5. QED
    BY <2>2, <2>3, <2>4
<1>5. DataInv'
  <2> SUFFICES ASSUME NEW d \in to_client', d.kind = "data"
               PROVE  /\ d.num \in 1 .. file[d.tid].blocks
                      /\ d.num <= serving'[d.tid]
                      /\ d.num = 1 \/ (Linked /\ d.tid = rport /\ d.num <= tftp_blocknum)
    BY <1>1 DEF DataInv
  <2>1. CASE d = m
    BY <1>1, <2>1
  <2>2. CASE d \in to_client
    <3>1. /\ d.tid \in Tids /\ d.num \in 1 .. file[d.tid].blocks
          /\ d.num <= serving[d.tid]
          /\ d.num = 1 \/ (Linked /\ d.tid = rport /\ d.num <= tftp_blocknum)
      BY <2>2 DEF DataInv
    <3>2. serving[d.tid] \in Nat /\ serving[d.tid] <= serving'[d.tid] /\ serving'[d.tid] \in Nat
      BY <1>1, <3>1 DEF TypeInv
    <3>3. QED
      BY <3>1, <3>2
  <2>3. QED
    BY <2>1, <2>2
<1>6. QED
  BY <1>2, <1>3, <1>4, <1>5 DEF LinkInv

LEMMA SessionsKeep ==
  ASSUME IInv, NEW t \in Tids,
         \/ ServerRequest(t) \/ ServerRefuse(t) \/ ServerRetransmit(t)
         \/ ServerGiveUp(t) \/ ServerNoise(t)
  PROVE  IInv'
<1>1. /\ serving[t] \in Nat /\ file[t].blocks \in Nat \ {0} /\ serving \in [Tids -> Nat]
      /\ tftp_blocknum \in Nat
  BY Constants DEF IInv, TypeInv
<1> DEFINE Sends(m, n) ==
             /\ m.tid = t
             /\ m.kind = "data" =>
                  /\ m.num \in 1 .. file[t].blocks /\ m.num <= n
                  /\ m.num = 1 \/ (Linked /\ t = rport /\ m.num <= tftp_blocknum)
           Serving(n) ==
             \/ n = 1
             \/ n > file[t].blocks
             \/ Linked /\ t = rport /\ n \in {tftp_blocknum - 1, tftp_blocknum}
<1>2. ASSUME NEW n \in Nat, NEW m, Sends(m, n), Serving(n), serving[t] <= n,
             serving' = [serving EXCEPT ![t] = n],
             to_client' \subseteq to_client \cup {m}, to_server' \subseteq to_server,
             UNCHANGED <<client, faulty, file>>
      PROVE  IInv'
  BY <1>2, ServerKeeps
<1>3. serving' = serving => serving' = [serving EXCEPT ![t] = serving[t]]
  BY <1>1
<1>4. CASE ServerRequest(t)
  <2>1. /\ serving[t] = 0 /\ serving' = [serving EXCEPT ![t] = 1]
        /\ to_client' \subseteq to_client \cup {Data(t, 1)}
        /\ to_server' \subseteq to_server /\ UNCHANGED <<client, faulty, file>>
    BY <1>4, Channels DEF ServerRequest
  <2>2. Sends(Data(t, 1), 1) /\ Serving(1) /\ serving[t] <= 1
    BY <1>1, <2>1 DEF Data
  <2>3. QED
    BY <1>2, <2>1, <2>2
<1>5. CASE ServerRefuse(t) \/ ServerGiveUp(t)
  <2> DEFINE over == file[t].blocks + 1
  <2>1. /\ serving[t] <= file[t].blocks
        /\ serving' = [serving EXCEPT ![t] = over]
        /\ to_client' \subseteq to_client \cup {Error(t)}
        /\ to_server' \subseteq to_server /\ UNCHANGED <<client, faulty, file>>
    BY <1>1, <1>5, Channels DEF ServerRefuse, ServerGiveUp, Active
  <2>2. Sends(Error(t), over) /\ Serving(over) /\ serving[t] <= over /\ over \in Nat
    BY <1>1, <2>1 DEF Error
  <2> HIDE DEF over
  <2>3. QED
    BY <1>2, <2>1, <2>2
<1>6. CASE ServerRetransmit(t)
  <2>1. /\ serving[t] \in 1 .. file[t].blocks /\ serving' = serving
        /\ to_client' \subseteq to_client \cup {Data(t, serving[t])}
        /\ to_server' \subseteq to_server /\ UNCHANGED <<client, faulty, file>>
    BY <1>6, Channels DEF ServerRetransmit, Active, server
  <2>2. Serving(serving[t])
    BY <1>1, <2>1 DEF IInv, LinkInv, ServerInv
  <2>3. Sends(Data(t, serving[t]), serving[t])
    BY <1>1, <2>1, <2>2 DEF Data
  <2>4. QED
    BY <1>1, <1>2, <1>3, <2>1, <2>2, <2>3
<1>7. CASE ServerNoise(t)
  <2>1. /\ serving[t] # 0 /\ serving' = serving
        /\ to_client' \subseteq to_client \cup {Other(t)}
        /\ to_server' \subseteq to_server /\ UNCHANGED <<client, faulty, file>>
    BY <1>7, Channels DEF ServerNoise, server
  <2>2. Serving(serving[t])
    BY <2>1 DEF IInv, LinkInv, ServerInv
  <2>3. Sends(Other(t), serving[t])
    BY DEF Other
  <2>4. QED
    BY <1>1, <1>2, <1>3, <2>1, <2>2, <2>3
<1>8. QED
  BY <1>4, <1>5, <1>6, <1>7

(* The ack a server takes is that of the block it waits for: the client has   *)
(* that block and no later one.                                               *)
LEMMA AckKeeps ==
  ASSUME IInv, NEW m \in to_server, ServerAck(m)
  PROVE  IInv'
<1> USE DEF IInv
<1> DEFINE s == serving[rport]
<1>1. /\ m.kind = "ack" /\ Linked /\ m.tid = rport /\ m.num \in 1 .. tftp_blocknum - 1
      /\ rport \in Tids
  BY DEF ServerAck, AckInv, LinkInv, ClientInv, TypeInv
<1>2. /\ s \in 1 .. file[rport].blocks /\ m.num % NumWrap = s % NumWrap
      /\ m.num >= s + 2 - NumWrap
      /\ serving' = [serving EXCEPT ![rport] = s + 1]
      /\ to_server' \subseteq to_server /\ UNCHANGED <<client, faulty, file>>
      /\ to_client' \subseteq to_client
         \/ (s < file[rport].blocks /\ to_client' \subseteq to_client \cup {Data(rport, s + 1)})
  BY <1>1, Channels DEF ServerAck, Active, Alive
<1>3. /\ tftp_blocknum \in Nat \ {0} /\ s \in Nat /\ NumWrap \in Nat \ {0, 1}
      /\ file[rport].blocks \in Nat
  BY <1>1, Constants DEF TypeInv
<1>4. s \in {tftp_blocknum - 1, tftp_blocknum}
  BY <1>1, <1>2, <1>3 DEF LinkInv, LockStep, Linked
<1>5. m.num = s
  <2>1. m.num \in Nat /\ m.num <= s /\ s - m.num < NumWrap
    BY <1>1, <1>2, <1>3, <1>4
  <2>2. QED
    BY <1>2, <1>3, <2>1, SameNumber
<1>6. s = tftp_blocknum - 1
  BY <1>1, <1>3, <1>4, <1>5
<1>7. /\ Data(rport, s + 1).tid = rport /\ Data(rport, s + 1).num = s + 1
      /\ Error(rport).tid = rport /\ Error(rport).kind = "error"
  BY DEF Data, Error
<1> HIDE DEF s
<1>8. s + 1 \in Nat /\ s <= s + 1 /\ s + 1 = tftp_blocknum
  BY <1>3, <1>6
<1>9. \E n \in {Data(rport, s + 1), Error(rport)} :
        /\ to_client' \subseteq to_client \cup {n}
        /\ n.kind = "data" => n.num \in 1 .. file[rport].blocks /\ n.num = s + 1
  <2>1. s < file[rport].blocks => s + 1 \in 1 .. file[rport].blocks
    BY <1>3
  <2>2. QED
    BY <1>2, <1>7, <2>1
<1>10. PICK n : /\ to_client' \subseteq to_client \cup {n} /\ n.tid = rport
                /\ n.kind = "data" => n.num \in 1 .. file[rport].blocks /\ n.num = s + 1
  BY <1>7, <1>9
<1>11. n.kind = "data" =>
         /\ n.num \in 1 .. file[rport].blocks /\ n.num <= s + 1
         /\ n.num = 1 \/ (Linked /\ rport = rport /\ n.num <= tftp_blocknum)
  BY <1>1, <1>3, <1>8, <1>10
<1>12. serving[rport] <= s + 1 /\ s + 1 \in {tftp_blocknum - 1, tftp_blocknum}
  BY <1>8 DEF s
<1>13. QED
  BY <1>1, <1>2, <1>8, <1>10, <1>11, <1>12, ServerKeeps

LEMMA IInvStep == IInv /\ [Next]_vars => IInv'
<1> SUFFICES ASSUME IInv, [Next]_vars PROVE IInv'
  OBVIOUS
<1>1. CASE UNCHANGED vars
  BY <1>1 DEF vars, client, server, IInv, TypeInv, LinkInv, ClientInv, ServerInv,
              LockStep, Linked, DataInv, AckInv, DestInv
<1>2. CASE Next
  BY <1>2, ClientKeeps, DroppedKeeps, LastBlockKeeps, BlockKeeps, SessionsKeep,
     AckKeeps DEF Next
<1>3. QED
  BY <1>1, <1>2

LEMMA Invariance == Spec => []IInv
BY IInvInit, IInvStep, PTL DEF Spec

\* tftp_read acknowledges only blocks it has: it is at most one block ahead of the
\* acks its server has seen, whatever the network loses, duplicates or reorders.
THEOREM NeverAhead == Spec => []LockStep
<1>1. IInv => LockStep
  BY DEF IInv, LinkInv
<1>2. QED
  BY <1>1, Invariance, PTL

--------------------------------------------------------------------------------
Lengths == [t \in Tids |-> file[t].blocks]

\* tftp_read gives its caller the blocks of one version of the file, in order, each
\* once, and success exactly when the last is there: it implements FileTransfer.
THEOREM DownloadsWholeFiles == Spec => TransfersFile
<1>1. Init => Abstract!Init
  <2> SUFFICES ASSUME Init PROVE Abstract!Init
    OBVIOUS
  <2>1. Lengths \in [Tids -> {f.blocks : f \in Files}]
    BY DEF Init, Lengths
  <2>2. QED
    BY <2>1 DEF Init, Abstract!Init, Lengths
<1>2. IInv /\ [Next]_vars => [Abstract!Next]_<<Lengths, dest, tftp_status>>
  <2> SUFFICES ASSUME IInv, [Next]_vars
               PROVE  Abstract!Next \/ UNCHANGED <<Lengths, dest, tftp_status>>
    OBVIOUS
  <2> USE DEF IInv
  <2>1. CASE NoConnection \/ \E m \in to_client : PollError(m) \/ PollTooLarge(m)
    <3>1. /\ tftp_status = "pending" /\ tftp_status' = "failure"
          /\ UNCHANGED <<file, dest>>
      BY <2>1 DEF NoConnection, PollError, PollTooLarge, PollExpected, Poll, server,
                  LinkInv, ClientInv
    <3>2. Abstract!Fail
      BY <3>1 DEF Abstract!Fail
    <3>3. QED
      BY <3>2 DEF Abstract!Next
  <2>2. ASSUME NEW m \in to_client, PollLastBlock(m) \/ PollBlock(m)
        PROVE  Abstract!Next
    <3> DEFINE b == tftp_blocknum
               t == m.tid
    <3>1. /\ tftp_status = "pending" /\ UNCHANGED file
          /\ dest' = Append(dest, <<t, m.num>>)
          /\ PollExpected(m)
      BY <2>2 DEF PollLastBlock, PollBlock, PollExpected, Poll, CopyData, server,
                  LinkInv, ClientInv
    <3>2. /\ m.num = b /\ t \in Tids /\ (Linked => rport = t)
      BY <3>1, TakenIsNext
    <3>3. /\ b \in Nat \ {0} /\ file[t] \in Files /\ file[t].blocks \in Nat
      BY <3>2, Constants DEF TypeInv
    <3>4. m.num \in 1 .. file[t].blocks
      BY <3>1 DEF PollExpected, Expected, DataInv
    <3>5. Len(dest) = b - 1 /\ (dest # <<>> => dest[1][1] = t)
      <4>1. dest = [i \in 1 .. b - 1 |-> <<rport, i>>]
        BY <3>1 DEF DestInv
      <4>2. Len(dest) = b - 1
        BY <3>3, <4>1
      <4>3. dest # <<>> => b > 1
        BY <3>3, <4>1
      <4>4. QED
        BY <3>2, <3>3, <4>1, <4>2, <4>3 DEF Linked
    <3>6. tftp_status' = IF b = file[t].blocks THEN "success" ELSE "pending"
      <4>1. CASE PollLastBlock(m)
        BY <3>2, <3>3, <3>4, <4>1, Constants DEF PollLastBlock, BlockSize
      <4>2. CASE PollBlock(m)
        <5>1. b # file[t].blocks
          BY <3>2, <3>3, <4>2, Constants DEF PollBlock, BlockSize
        <5>2. QED
          BY <3>1, <4>2, <5>1 DEF PollBlock
      <4>3. QED
        BY <2>2, <4>1, <4>2
    <3>7. Lengths[t] = file[t].blocks /\ Lengths' = Lengths
      BY <3>1, <3>2 DEF Lengths
    <3>8. Abstract!Append1(t)
      BY <3>1, <3>2, <3>3, <3>4, <3>5, <3>6, <3>7 DEF Abstract!Append1, Lengths
    <3>9. QED
      BY <3>2, <3>8 DEF Abstract!Next
  <2>3. CASE \/ UNCHANGED vars
             \/ Start \/ PollNothing \/ Continue \/ ResendRequest \/ ResendAck
             \/ \E m \in to_client : PollDropped(m) \/ PollIgnored(m)
             \/ \E t \in Tids : \/ ServerRequest(t) \/ ServerRefuse(t)
                                \/ ServerRetransmit(t) \/ ServerGiveUp(t)
                                \/ ServerNoise(t)
             \/ \E m \in to_server : ServerAck(m)
    <3>1. UNCHANGED <<file, dest, tftp_status>>
      BY <2>3 DEF vars, client, server, Start, PollNothing, Continue, ResendRequest,
                  ResendAck, PollDropped, PollIgnored, ServerRequest, ServerRefuse,
                  ServerRetransmit, ServerGiveUp, ServerNoise, ServerAck
    <3>2. QED
      BY <3>1 DEF Lengths
  <2>4. QED
    BY <2>1, <2>2, <2>3 DEF Next
<1>3. QED
  BY <1>1, <1>2, Invariance, PTL DEF Spec, TransfersFile, Abstract!Spec, Lengths
================================================================================
