-------------------------------- MODULE Tftp --------------------------------
(* The TFTP client of src/src/netboot/tftp.c: tftp_read and the callback   *)
(* uIP runs on every datagram for its connection, against servers and a    *)
(* network that lose, duplicate, delay and reorder datagrams.              *)
(*                                                                         *)
(* Every read request a server answers starts a session with a transfer id *)
(* (its UDP port), and each session serves its own version of the file.  A *)
(* data packet carries the block number modulo NumWrap; the model also     *)
(* keeps the number itself.  Sizes are in units of which a full block has  *)
(* TftpMaxBlockSize.                                                       *)
EXTENDS Integers, Sequences, FiniteSets

CONSTANTS
  Tids,              \* transfer ids, one for each answered read request
  Files,             \* files as [blocks, last]: number of blocks and size of
                     \* the last one, which is the only short one
  MaxSizes,          \* sizes of the caller's buffer
  TftpMaxBlockSize,  \* the size of a full block
  NumWrap,           \* block numbers on the wire are modulo NumWrap (2^16)
  ChannelSize,       \* bound: datagrams under way in each direction
  ServerMayFail,     \* whether servers send errors and give up: the cases to check
  Noise              \* whether servers send packets that are not data

ASSUME TftpAssumption ==
  /\ Tids \subseteq Nat \ {0}
  /\ TftpMaxBlockSize \in Nat \ {0}
  /\ Files \subseteq [blocks : Nat \ {0}, last : 0 .. TftpMaxBlockSize - 1]
  /\ MaxSizes \subseteq Nat
  /\ NumWrap \in Nat \ {0, 1}
  /\ ChannelSize \in Nat \ {0}
  /\ ServerMayFail \subseteq BOOLEAN
  /\ Noise \in BOOLEAN

VARIABLES
  pc,                 \* tftp_read: "start", "poll", "check" or "done"
  tftp_status,
  tftp_got_response,
  tftp_blocknum,
  tftp_total_size,
  tftp_max_size,
  dest,               \* the blocks copied to the caller, as <<tid, number>>
  rport,              \* the remote port of the uIP connection, 0 for any
  faulty,             \* whether the servers may send errors and give up
  file,               \* the file each session serves
  serving,            \* the block each session waits an ack for: 0 before the
                      \* session starts, one more than the last when it is over
  to_client,          \* datagrams under way
  to_server

client == <<pc, tftp_status, tftp_got_response, tftp_blocknum, tftp_total_size,
            tftp_max_size, dest, rport>>
server == <<faulty, file, serving>>
vars == <<client, server, to_client, to_server>>

Request == [kind |-> "rrq"]
Ack(t, n) == [kind |-> "ack", tid |-> t, num |-> n]
Data(t, n) == [kind |-> "data", tid |-> t, num |-> n]
Error(t) == [kind |-> "error", tid |-> t]
Other(t) == [kind |-> "other", tid |-> t]

BlockSize(t, n) ==
  IF n < file[t].blocks THEN TftpMaxBlockSize ELSE file[t].last
FileSize(t) == (file[t].blocks - 1) * TftpMaxBlockSize + file[t].last

TypeOK ==
  /\ pc \in {"start", "poll", "check", "done"}
  /\ tftp_status \in {"pending", "success", "failure"}
  /\ tftp_got_response \in BOOLEAN
  /\ tftp_blocknum \in Nat \ {0}
  /\ tftp_total_size \in Nat
  /\ tftp_max_size \in MaxSizes
  /\ dest \in Seq(Tids \X Nat)
  /\ rport \in Tids \cup {0}
  /\ faulty \in BOOLEAN
  /\ file \in [Tids -> Files]
  /\ serving \in [Tids -> Nat]

Init ==
  /\ pc = "start"
  /\ tftp_status = "pending"
  /\ tftp_got_response = FALSE
  /\ tftp_blocknum = 1
  /\ tftp_total_size = 0
  /\ tftp_max_size \in MaxSizes
  /\ dest = <<>>
  /\ rport = 0
  /\ file \in [Tids -> Files]
  /\ faulty \in ServerMayFail
  /\ serving = [t \in Tids |-> 0]
  /\ to_client = {}
  /\ to_server = {}

(* The network.  A datagram is lost or gets under way, at the expense of   *)
(* another one when the channel is full.                                   *)
Sent(chan, m) ==
  IF Cardinality(chan \cup {m}) <= ChannelSize
    THEN {chan, chan \cup {m}}
    ELSE {chan} \cup {(chan \ {x}) \cup {m} : x \in chan}

(* It is delivered, or delivered and duplicated.                           *)
Received(chan, m) == {chan, chan \ {m}}

(* No datagram outlives a whole turn of the block numbers.                 *)
Alive(m) == m.num >= serving[m.tid] + 2 - NumWrap

-----------------------------------------------------------------------------
(* tftp_read.                                                              *)

(* uip_udp_new finds no free connection.                                   *)
NoConnection ==
  /\ pc = "start"
  /\ pc' = "done"
  /\ tftp_status' = "failure"
  /\ UNCHANGED <<tftp_got_response, tftp_blocknum, tftp_total_size,
                 tftp_max_size, dest, rport, server, to_client, to_server>>

Start ==
  /\ pc = "start"
  /\ pc' = "poll"
  /\ to_server' \in Sent(to_server, Request)
  /\ rport' = 0
  /\ UNCHANGED <<tftp_status, tftp_got_response, tftp_blocknum,
                 tftp_total_size, tftp_max_size, dest, server, to_client>>

(* net_poll without a packet for the connection.                           *)
PollNothing ==
  /\ pc = "poll"
  /\ pc' = "check"
  /\ tftp_got_response' = FALSE
  /\ UNCHANGED <<tftp_status, tftp_blocknum, tftp_total_size, tftp_max_size,
                 dest, rport, server, to_client, to_server>>

(* net_poll delivers m.  uIP drops it unless it comes from the remote port *)
(* of the connection; the callback makes the first port it sees the remote *)
(* port.                                                                   *)
Poll(m) ==
  /\ pc = "poll"
  /\ m \in to_client
  /\ m.kind = "data" => Alive(m)
  /\ to_client' \in Received(to_client, m)
  /\ pc' = "check"

Accepts(m) == rport = 0 \/ rport = m.tid
Latch(m) == rport' = m.tid

PollDropped(m) ==
  /\ Poll(m)
  /\ ~Accepts(m)
  /\ tftp_got_response' = FALSE
  /\ UNCHANGED <<tftp_status, tftp_blocknum, tftp_total_size, tftp_max_size,
                 dest, rport, server, to_server>>

PollError(m) ==
  /\ Poll(m)
  /\ Accepts(m)
  /\ Latch(m)
  /\ m.kind = "error"
  /\ tftp_status' = "failure"
  /\ tftp_got_response' = FALSE
  /\ UNCHANGED <<tftp_blocknum, tftp_total_size, tftp_max_size, dest, server,
                 to_server>>

(* Blocks which are duplicated or out of order are ignored, as is anything *)
(* that is not data.                                                       *)
ExpectedAny(m) == m.kind = "data"        \* mutant: no duplicate check
Expected(m) == m.kind = "data" /\ m.num % NumWrap = tftp_blocknum % NumWrap

PollIgnored(m) ==
  /\ Poll(m)
  /\ Accepts(m)
  /\ Latch(m)
  /\ m.kind # "error"
  /\ ~Expected(m)
  /\ tftp_got_response' = FALSE
  /\ UNCHANGED <<tftp_status, tftp_blocknum, tftp_total_size, tftp_max_size,
                 dest, server, to_server>>

PollExpected(m) ==
  /\ Poll(m)
  /\ Accepts(m)
  /\ Latch(m)
  /\ Expected(m)

Fits(m) == BlockSize(m.tid, m.num) <= tftp_max_size - tftp_total_size

PollTooLarge(m) ==
  /\ PollExpected(m)
  /\ ~Fits(m)
  /\ tftp_status' = "failure"
  /\ tftp_got_response' = FALSE
  /\ UNCHANGED <<tftp_blocknum, tftp_total_size, tftp_max_size, dest, server,
                 to_server>>

CopyData(m) ==
  /\ dest' = Append(dest, <<m.tid, m.num>>)
  /\ tftp_total_size' = tftp_total_size + BlockSize(m.tid, m.num)

(* A block shorter than the maximum ends the transfer.                     *)
PollLastBlock(m) ==
  /\ PollExpected(m)
  /\ Fits(m)
  /\ BlockSize(m.tid, m.num) < TftpMaxBlockSize
  /\ CopyData(m)
  /\ tftp_status' = "success"
  /\ tftp_got_response' = FALSE
  /\ UNCHANGED <<tftp_blocknum, tftp_max_size, server, to_server>>

PollBlock(m) ==
  /\ PollExpected(m)
  /\ Fits(m)
  /\ BlockSize(m.tid, m.num) = TftpMaxBlockSize
  /\ CopyData(m)
  /\ to_server' \in Sent(to_server, Ack(m.tid, tftp_blocknum))
  /\ tftp_blocknum' = tftp_blocknum + 1
  /\ tftp_got_response' = TRUE
  /\ UNCHANGED <<tftp_status, tftp_max_size, server>>

(* The rest of the loop body, and its condition.                           *)
LoopOrReturn == pc' = IF tftp_status = "pending" THEN "poll" ELSE "done"

Continue ==
  /\ pc = "check"
  /\ tftp_got_response
  /\ LoopOrReturn
  /\ UNCHANGED <<tftp_status, tftp_got_response, tftp_blocknum,
                 tftp_total_size, tftp_max_size, dest, rport, server,
                 to_client, to_server>>

ResendRequest ==
  /\ pc = "check"
  /\ ~tftp_got_response
  /\ tftp_blocknum = 1
  /\ to_server' \in Sent(to_server, Request)
  /\ rport' = 0
  /\ LoopOrReturn
  /\ UNCHANGED <<tftp_status, tftp_got_response, tftp_blocknum,
                 tftp_total_size, tftp_max_size, dest, server, to_client>>

ResendAckCurrent ==           \* mutant: acknowledges the block it waits for
  /\ pc = "check"
  /\ ~tftp_got_response
  /\ tftp_blocknum # 1
  /\ to_server' \in Sent(to_server, Ack(rport, tftp_blocknum))
  /\ LoopOrReturn
  /\ UNCHANGED <<tftp_status, tftp_got_response, tftp_blocknum,
                 tftp_total_size, tftp_max_size, dest, rport, server,
                 to_client>>

ResendAckNever ==             \* mutant: lost acks are not sent again
  /\ pc = "check"
  /\ ~tftp_got_response
  /\ tftp_blocknum # 1
  /\ LoopOrReturn
  /\ UNCHANGED <<tftp_status, tftp_got_response, tftp_blocknum,
                 tftp_total_size, tftp_max_size, dest, rport, server,
                 to_client, to_server>>

ResendAck ==
  /\ pc = "check"
  /\ ~tftp_got_response
  /\ tftp_blocknum # 1
  /\ to_server' \in Sent(to_server, Ack(rport, tftp_blocknum - 1))
  /\ LoopOrReturn
  /\ UNCHANGED <<tftp_status, tftp_got_response, tftp_blocknum,
                 tftp_total_size, tftp_max_size, dest, rport, server,
                 to_client>>

-----------------------------------------------------------------------------
(* The servers: lock-step TFTP senders.                                    *)

ServerRequest(t) ==
  /\ serving[t] = 0
  /\ Request \in to_server
  /\ to_server' \in Received(to_server, Request)
  /\ serving' = [serving EXCEPT ![t] = 1]
  /\ to_client' \in Sent(to_client, Data(t, 1))
  /\ UNCHANGED <<client, faulty, file>>

(* The read request is refused, the file is not there for instance.        *)
ServerRefuse(t) ==
  /\ faulty
  /\ serving[t] = 0
  /\ Request \in to_server
  /\ to_server' \in Received(to_server, Request)
  /\ serving' = [serving EXCEPT ![t] = file[t].blocks + 1]
  /\ to_client' \in Sent(to_client, Error(t))
  /\ UNCHANGED <<client, faulty, file>>

Active(t) == serving[t] \in 1 .. file[t].blocks

ServerAck(m) ==
  /\ m \in to_server
  /\ m.kind = "ack"
  /\ Alive(m)
  /\ to_server' \in Received(to_server, m)
  /\ Active(m.tid)
  /\ m.num % NumWrap = serving[m.tid] % NumWrap
  /\ serving' = [serving EXCEPT ![m.tid] = @ + 1]
  /\ to_client' \in IF serving[m.tid] < file[m.tid].blocks
                      THEN Sent(to_client, Data(m.tid, serving[m.tid] + 1))
                      ELSE {to_client}
  /\ UNCHANGED <<client, faulty, file>>

ServerRetransmit(t) ==
  /\ Active(t)
  /\ to_client' \in Sent(to_client, Data(t, serving[t]))
  /\ UNCHANGED <<client, server, to_server>>

ServerGiveUp(t) ==
  /\ faulty
  /\ Active(t)
  /\ serving' = [serving EXCEPT ![t] = file[t].blocks + 1]
  /\ to_client' \in Sent(to_client, Error(t))
  /\ UNCHANGED <<client, faulty, file, to_server>>

ServerNoise(t) ==
  /\ Noise
  /\ serving[t] # 0
  /\ to_client' \in Sent(to_client, Other(t))
  /\ UNCHANGED <<client, server, to_server>>

-----------------------------------------------------------------------------
Next ==
  \/ NoConnection \/ Start
  \/ PollNothing
  \/ \E m \in to_client :
       \/ PollDropped(m) \/ PollError(m) \/ PollIgnored(m)
       \/ PollTooLarge(m) \/ PollLastBlock(m) \/ PollBlock(m)
  \/ Continue \/ ResendRequest \/ ResendAck
  \/ \E t \in Tids :
       \/ ServerRequest(t) \/ ServerRefuse(t) \/ ServerRetransmit(t)
       \/ ServerGiveUp(t) \/ ServerNoise(t)
  \/ \E m \in to_server : ServerAck(m)

Spec == Init /\ [][Next]_vars

(* The client runs its loop; a server retransmits what is not acknowledged;*)
(* of what is sent again and again some is delivered, and so is in the     *)
(* receive queue when the client polls.                                    *)
FairSpec ==
  /\ Spec
  /\ WF_vars(Start \/ PollNothing \/ Continue \/ ResendRequest \/ ResendAck)
  /\ SF_vars((ResendRequest \/ ResendAck) /\ to_server' # to_server)
  /\ SF_vars(\E m \in to_client :
               PollTooLarge(m) \/ PollLastBlock(m) \/ PollBlock(m))
  /\ SF_vars(\E t \in Tids : ServerRequest(t))
  /\ SF_vars(\E m \in to_server : ServerAck(m))
  /\ \A t \in Tids : SF_vars(/\ ServerRetransmit(t)
                             /\ pc = "poll"
                             /\ to_client' # to_client)

-----------------------------------------------------------------------------
(* What the caller gets is what FileTransfer promises: the blocks of one   *)
(* version of the file in order, none twice, none missing and none of      *)
(* another session, and TftpSuccess exactly when the file is complete.     *)
Abstract == INSTANCE FileTransfer WITH
  Versions <- Tids,
  Lengths <- {f.blocks : f \in Files},
  length <- [t \in Tids |-> file[t].blocks],
  got <- dest,
  result <- tftp_status
TransfersFile == Abstract!Spec

(* The client is at most one block ahead of the acks its server has seen:  *)
(* it never acknowledges a block that it has not got.                      *)
LockStep ==
  tftp_blocknum > 1 =>
    /\ rport # 0
    /\ serving[rport] \in {tftp_blocknum - 1, tftp_blocknum}
       \/ serving[rport] > file[rport].blocks

(* A download of a file that fits ends in success, whatever the network    *)
(* loses, as long as the servers send no errors and keep retransmitting.   *)
TransferSucceeds ==
  pc = "poll" /\ ~faulty /\ (\A t \in Tids : FileSize(t) <= tftp_max_size)
    ~> pc = "done" /\ tftp_status = "success"
=============================================================================
