------------------------------ MODULE TpmProofs --------------------------------
(* Theorems about the TPM and what is kept in it.  Of I2cTpm: the chip carries *)
(* out whole commands, each once, the answers are theirs, and a call that      *)
(* nothing goes wrong in succeeds, for any sizes of bursts, commands and       *)
(* responses, any number of calls, faults and attempts.  Of BootHandoff, which *)
(* writes vboot's data to the TPM and leaves it: the data is committed and     *)
(* locked, or its failure noted, on every way out, however cleanup passes nest.*)
EXTENDS I2cTpm, BootHandoff, TLAPS

(* I2cTpm.                                                                    *)
Opening == {"check", "request", "granted", "vendor", "release"}
Readying == {"send", "send_ready"}
Sending == {"send_burst", "send_data"}
Gone == {"go", "wait"}
Receiving == {"recv_burst", "recv_data", "recv_final", "done"}
Ending == {"cancel", "abort", "abort_ready", "failed"}
Outside == {"idle", "close"}

Byte == Nat \X Nat

TypeInv ==
  /\ pc \in Opening \cup Readying \cup Sending \cup {"send_final"} \cup Gone
            \cup Receiving \cup Ending \cup Outside
  /\ state \in {"idle", "ready", "reception", "execution", "completion"}
  /\ fifo \in Seq(Byte) /\ out \in Seq(Byte) /\ recvbuf \in Seq(Byte)
  /\ executed \in Seq(Seq(Byte)) /\ answers \in Seq(ResponseSizes)
  /\ Len(answers) = Len(executed)
  /\ sizes \in Seq(CommandSizes) /\ sent \in Nat
  /\ pc \notin Outside => Call > 0

\* What the chip holds in each of its states.
ChipInv ==
  /\ state \in {"idle", "ready"} => fifo = <<>> /\ out = <<>>
  /\ state = "reception" => out = <<>>
  /\ state = "execution" =>
       /\ out = <<>> /\ fifo[1][1] \in 1 .. Call /\ fifo = Command(fifo[1][1])
  /\ state = "completion" => fifo = <<>>

\* The call whose command was the e-th to be carried out.
Caller(e) == executed[e][1][1]
Last == Len(executed)

WorkInv ==
  /\ \A e \in 1 .. Last : Caller(e) \in 1 .. Call /\ executed[e] = Command(Caller(e))
  /\ \A e, f \in 1 .. Last : e < f => Caller(e) < Caller(f)
  /\ state = "execution" => \A e \in 1 .. Last : Caller(e) < fifo[1][1]

\* Nothing of this call has been carried out, nor will be without the go.
NotYet ==
  /\ \A e \in 1 .. Last : Caller(e) < Call
  /\ state = "execution" => fifo[1][1] < Call

\* The FIFO holds the first n bytes of the command, and nothing else.
Holds(n) == Len(fifo) = n /\ \A i \in 1 .. n : fifo[i] = <<Call, i>>

Least(a, b) == IF a <= b THEN a ELSE b

\* A chunk that was not the last has arrived again: the FIFO holds at least a
\* chunk more than was sent, so that it will be full before the last chunk.
Chunk == MaxBurst - 1
NextSent == Least(Size, sent + Chunk)
Ahead == Len(fifo) >= NextSent

SendInv ==
  /\ pc \in Opening \cup Readying => sent = 0
  /\ pc \in Sending =>
       /\ NotYet /\ sent < Size /\ Len(fifo) <= Size
       /\ \/ state = "ready" /\ sent = 0
          \/ state = "reception" /\ fifo # <<>> /\ fifo[1] = <<Call, 1>>
  /\ pc = "send_burst" => Holds(sent) \/ (sent > 0 /\ Ahead)
  /\ pc = "send_data" => Holds(sent) \/ Holds(NextSent) \/ (NextSent < Size /\ Ahead)
  /\ pc = "send_final" => NotYet /\ state = "reception" /\ Holds(Size)

Begun == state = "execution" /\ fifo[1][1] = Call
Answered ==
  /\ state = "completion" /\ Last > 0 /\ Caller(Last) = Call
  /\ Len(recvbuf) + Len(out) = answers[Last]
  /\ \A j \in 1 .. Len(recvbuf) : recvbuf[j] = <<Last, j>>
  /\ \A j \in 1 .. Len(out) : out[j] = <<Last, Len(recvbuf) + j>>

ReceiveInv ==
  /\ pc \in Opening \cup Readying \cup Sending \cup {"send_final"} \cup Gone => recvbuf = <<>>
  /\ pc \in Opening \cup Readying => NotYet
  /\ pc = "go" => \/ NotYet /\ state = "reception" /\ Holds(Size)
                  \/ Begun \/ Answered
  /\ pc = "wait" => Begun \/ Answered
  /\ pc \in Receiving => Answered
  /\ pc \in {"recv_burst", "recv_data"} => out # <<>>
  /\ pc \in {"recv_final", "done"} => out = <<>>
  /\ pc \in Outside /\ ret = "ok" /\ Call > 0 =>
       LET e == recvbuf[1][1]
       IN  /\ e \in 1 .. Last /\ executed[e] = Command(Call)
           /\ recvbuf = [j \in 1 .. answers[e] |-> <<e, j>>]

LocalityInv ==
  /\ initialized /\ ~closed => active
  /\ pc \in Opening => ~initialized
  /\ pc \in Readying => initialized
  /\ pc \in Sending \cup {"send_final"} \cup Gone \cup Receiving => active
  /\ pc = "vendor" => active
  /\ pc = "close" => closed

TooLarge == state = "completion" /\ answers # <<>> /\ answers[Len(answers)] > RoomSize

\* As long as nothing goes wrong.
CalmInv ==
  ~faulted /\ ~closed =>
    /\ pc \notin {"release", "cancel", "abort_ready"}
    /\ pc = "granted" => active
    /\ pc \in Sending => Holds(sent)
    /\ pc \in {"abort", "failed"} => TooLarge
    /\ pc = "idle" /\ Call > 0 => ret = "ok" \/ TooLarge

IInv == TypeInv /\ ChipInv /\ WorkInv /\ SendInv /\ ReceiveInv /\ LocalityInv /\ CalmInv

USE DEF Opening, Readying, Sending, Gone, Receiving, Ending, Outside

--------------------------------------------------------------------------------
LEMMA Constants ==
  /\ MaxBurst \in Nat /\ MaxBurst >= 2 /\ Chunk \in Nat \ {0}
  /\ \A n \in CommandSizes : n \in Nat /\ n > 0
  /\ \A n \in ResponseSizes : n \in Nat /\ n > 0
  /\ RoomSize \in Nat
BY I2cTpmAssumption DEF I2cTpmAssumption, Chunk

LEMMA LeastOfTwo ==
  ASSUME NEW a \in Int, NEW b \in Int
  PROVE  Min({a, b}) = Least(a, b)
<1>1. CASE a <= b
  BY <1>1 DEF Min, Least
<1>2. CASE ~(a <= b)
  BY <1>2 DEF Min, Least
<1>3. QED
  BY <1>1, <1>2

LEMMA Joined ==
  ASSUME NEW x \in Seq(Byte), NEW y \in Seq(Byte)
  PROVE  /\ x \o y \in Seq(Byte) /\ Len(x \o y) = Len(x) + Len(y)
         /\ \A i \in 1 .. Len(x) : (x \o y)[i] = x[i]
         /\ \A i \in 1 .. Len(y) : (x \o y)[Len(x) + i] = y[i]
<1>1. x \o y \in Seq(Byte) /\ Len(x \o y) = Len(x) + Len(y)
  OBVIOUS
<1>2. \A i \in 1 .. Len(x) : (x \o y)[i] = x[i]
  OBVIOUS
<1>3. \A i \in 1 .. Len(y) : (x \o y)[Len(x) + i] = y[i]
  OBVIOUS
<1>4. QED
  BY <1>1, <1>2, <1>3

(* A command, byte by byte.                                                   *)
LEMMA CommandBytes ==
  ASSUME TypeInv, NEW n \in 1 .. Call
  PROVE  /\ sizes[n] \in Nat /\ sizes[n] > 0
         /\ Command(n) \in Seq(Byte) /\ Len(Command(n)) = sizes[n]
         /\ \A i \in 1 .. sizes[n] : Command(n)[i] = <<n, i>>
         /\ Command(n)[1][1] = n
<1>1. sizes[n] \in Nat /\ sizes[n] > 0
  BY Constants DEF TypeInv, Call
<1>2. \A i \in 1 .. sizes[n] : <<n, i>> \in Byte
  BY <1>1 DEF Byte, Call
<1>3. Command(n) \in Seq(Byte) /\ Len(Command(n)) = sizes[n]
  BY <1>1, <1>2 DEF Command
<1>4. QED
  BY <1>1, <1>3 DEF Command

LEMMA CurrentSize ==
  ASSUME TypeInv, Call > 0
  PROVE  Size \in Nat /\ Size > 0 /\ Call \in 1 .. Call /\ Size = sizes[Call]
<1>1. Call \in 1 .. Call
  BY DEF TypeInv, Call
<1>2. QED
  BY <1>1, CommandBytes DEF Size

(* A FIFO that holds all of the command is the command.                       *)
LEMMA HeldCommand ==
  ASSUME TypeInv, Call > 0, Holds(Size)
  PROVE  fifo = Command(Call)
<1>1. Size \in Nat /\ Size > 0 /\ Call \in 1 .. Call /\ Size = sizes[Call]
  BY CurrentSize
<1>2. fifo \in Seq(Byte) /\ Command(Call) \in Seq(Byte) /\ Len(Command(Call)) = Len(fifo)
  BY <1>1, CommandBytes DEF Holds, TypeInv
<1>3. ASSUME NEW i \in 1 .. Len(fifo)
      PROVE  fifo[i] = Command(Call)[i]
  <2>1. i \in 1 .. Size /\ fifo[i] = <<Call, i>>
    BY DEF Holds
  <2>2. QED
    BY <1>1, <2>1, CommandBytes
<1>4. QED
  BY <1>2, <1>3

(* What depends on the chip, its work and the commands only.                  *)
LEMMA Unmoved ==
  ASSUME IInv, UNCHANGED <<chip, work, sizes>>
  PROVE  /\ ChipInv' /\ WorkInv' /\ (NotYet' <=> NotYet) /\ (Begun' <=> Begun)
         /\ Call' = Call /\ Size' = Size /\ Last' = Last
         /\ \A n : Holds(n)' <=> Holds(n)
<1>1. /\ state' = state /\ fifo' = fifo /\ out' = out /\ active' = active
      /\ executed' = executed /\ answers' = answers /\ sizes' = sizes
  BY DEF chip, work
<1>2. Call' = Call /\ Size' = Size /\ Last' = Last
  BY <1>1 DEF Call, Size, Last
<1>3. \A n : Command(n)' = Command(n) /\ Caller(n)' = Caller(n) /\ (Holds(n)' <=> Holds(n))
  BY <1>1, <1>2 DEF Command, Caller, Holds
<1>4. ChipInv'
  BY <1>1, <1>2, <1>3 DEF ChipInv, IInv
<1>5. WorkInv'
  BY <1>1, <1>2, <1>3 DEF WorkInv, IInv
<1>6. (NotYet' <=> NotYet) /\ (Begun' <=> Begun)
  BY <1>1, <1>2, <1>3 DEF NotYet, Begun
<1>7. QED
  BY <1>2, <1>3, <1>4, <1>5, <1>6

LEMMA AnsweredStays ==
  ASSUME UNCHANGED <<chip, work, sizes, recvbuf>>
  PROVE  (Answered' <=> Answered) /\ (TooLarge' <=> TooLarge)
BY DEF Answered, TooLarge, chip, work, Last, Caller, Call

(* The size of the command is in its first byte.                              *)
LEMMA Expects ==
  ASSUME TypeInv, ChipInv, Call > 0
  PROVE  /\ fifo # <<>> /\ fifo[1] = <<Call, 1>> => (Expect <=> Len(fifo) < Size)
         /\ \A n \in 1 .. Size : Holds(n) => fifo # <<>> /\ fifo[1] = <<Call, 1>>
         /\ state \in {"idle", "ready"} => Holds(0)
<1>1. fifo # <<>> => Len(fifo) > 0
  BY DEF TypeInv
<1>2. fifo # <<>> /\ fifo[1] = <<Call, 1>> => (Expect <=> Len(fifo) < Size)
  BY <1>1 DEF Expect, Size
<1>3. ASSUME NEW n \in 1 .. Size, Holds(n)
      PROVE  fifo # <<>> /\ fifo[1] = <<Call, 1>>
  <2>1. Size \in Nat
    BY CurrentSize
  <2>2. n \in Nat /\ 1 \in 1 .. n
    BY <2>1
  <2>3. QED
    BY <1>3, <2>2 DEF Holds
<1>4. state \in {"idle", "ready"} => Holds(0)
  BY DEF ChipInv, Holds
<1>5. QED
  BY <1>2, <1>3, <1>4

(* A step that only looks: at the status, at the burst count, at the locality.*)
Looks == CheckLocality \/ PollLocality \/ SendReady \/ SendTimeout \/ SendWait
         \/ SendFinal \/ Wait \/ RecvWait \/ RecvFinal \/ Abort

LEMMA LookKeeps ==
  ASSUME IInv, Looks
  PROVE  IInv'
<1> USE DEF IInv
<1>1. /\ UNCHANGED <<chip, work, driver>> /\ pc \notin Outside
      /\ pc' \notin Outside \cup {"done"} \/ (pc' = "done" /\ RecvFinal)
  BY DEF Looks, CheckLocality, PollLocality, SendReady, SendTimeout, SendWait, SendFinal,
         Wait, RecvWait, RecvFinal, Abort, Sends, Poll, Goto
<1>2. /\ UNCHANGED <<active, state, fifo, out, executed, answers, initialized, closed, sizes,
                     sent, recvbuf, ret>>
      /\ ChipInv' /\ WorkInv' /\ (NotYet' <=> NotYet) /\ (Begun' <=> Begun)
      /\ Call' = Call /\ Size' = Size /\ (Answered' <=> Answered) /\ (TooLarge' <=> TooLarge)
      /\ \A n : Holds(n)' <=> Holds(n)
  BY <1>1, Unmoved, AnsweredStays DEF chip, work, driver
<1>3. NextSent' = NextSent /\ (Ahead' <=> Ahead)
  BY <1>2 DEF NextSent, Ahead
<1>4. CASE CheckLocality
  <2>1. /\ pc = "check" /\ pc' \in {"vendor", "request"} /\ (pc' = "vendor" => active)
        /\ (~faulted' => ~faulted)
    BY <1>4 DEF CheckLocality, Sends, Poll, Goto, Fault, NoFault, CommandReady
  <2>2. TypeInv'
    BY <1>2, <2>1 DEF TypeInv
  <2>3. SendInv'
    BY <1>2, <1>3, <2>1 DEF SendInv
  <2>4. ReceiveInv'
    BY <1>2, <2>1 DEF ReceiveInv
  <2>5. LocalityInv'
    BY <1>2, <2>1 DEF LocalityInv
  <2>6. CalmInv'
    BY <1>2, <2>1 DEF CalmInv, LocalityInv
  <2>7. QED
    BY <1>2, <2>2, <2>3, <2>4, <2>5, <2>6
<1>5. CASE PollLocality
  <2>1. /\ pc = "granted" /\ (pc' = "vendor" => active)
        /\ pc' \in {"vendor", "failed"} /\ (pc' = "failed" => faulted' \/ ~active)
        /\ (~faulted' => ~faulted)
    BY <1>5 DEF PollLocality, Sends, Poll, Goto, Fault, NoFault, CommandReady
  <2>2. TypeInv'
    BY <1>2, <2>1 DEF TypeInv
  <2>3. SendInv'
    BY <1>2, <1>3, <2>1 DEF SendInv
  <2>4. ReceiveInv'
    BY <1>2, <2>1 DEF ReceiveInv
  <2>5. LocalityInv'
    BY <1>2, <2>1 DEF LocalityInv
  <2>6. CalmInv'
    BY <1>2, <2>1 DEF CalmInv, LocalityInv
  <2>7. QED
    BY <1>2, <2>2, <2>3, <2>4, <2>5, <2>6
<1>6. CASE SendReady
  <2>1. /\ pc = "send" /\ pc' \in {"send_burst", "send_ready"}
        /\ (pc' = "send_burst" => state = "ready" /\ active)
        /\ (~faulted' => ~faulted)
    BY <1>6 DEF SendReady, Sends, Poll, Goto, Fault, NoFault, CommandReady
  <2>2. TypeInv'
    BY <1>2, <2>1 DEF TypeInv
  <2>0. pc' = "send_burst" => Holds(sent) /\ sent = 0 /\ sent < Size /\ Len(fifo) <= Size /\ NotYet
    BY <1>1, <2>1, CurrentSize, Expects DEF Holds, SendInv, ReceiveInv, TypeInv
  <2>3. SendInv'
    BY <1>2, <1>3, <2>0, <2>1 DEF SendInv
  <2>4. ReceiveInv'
    BY <1>2, <2>1 DEF ReceiveInv
  <2>5. LocalityInv'
    BY <1>2, <2>1 DEF LocalityInv
  <2>6. CalmInv'
    BY <1>2, <2>0, <2>1 DEF CalmInv, LocalityInv
  <2>7. QED
    BY <1>2, <2>2, <2>3, <2>4, <2>5, <2>6
<1>7. CASE SendTimeout
  <2>1. /\ pc = "send" /\ pc' = "abort" /\ (faulted' \/ ~active)
        /\ (~faulted' => ~faulted)
    BY <1>7 DEF SendTimeout, Sends, Poll, Goto, Fault, NoFault, CommandReady
  <2>2. TypeInv'
    BY <1>2, <2>1 DEF TypeInv
  <2>3. SendInv'
    BY <1>2, <1>3, <2>1 DEF SendInv
  <2>4. ReceiveInv'
    BY <1>2, <2>1 DEF ReceiveInv
  <2>5. LocalityInv'
    BY <1>2, <2>1 DEF LocalityInv
  <2>6. CalmInv'
    BY <1>2, <2>1 DEF CalmInv, LocalityInv
  <2>7. QED
    BY <1>2, <2>2, <2>3, <2>4, <2>5, <2>6
<1>8. CASE SendWait
  <2>1. /\ pc = "send_burst" /\ pc' \in {"send_data", "abort"}
        /\ (pc' = "send_data" => SendBurst) /\ (pc' = "abort" => faulted' \/ ~SendBurst)
        /\ (~faulted' => ~faulted)
    BY <1>8 DEF SendWait, Sends, Poll, Goto, Fault, NoFault, CommandReady
  <2>2. TypeInv'
    BY <1>2, <2>1 DEF TypeInv
  <2>0. pc' = "send_data" => Holds(sent) \/ (NextSent < Size /\ Ahead)
    <3>1. SUFFICES ASSUME pc' = "send_data", sent > 0, Ahead
                   PROVE  NextSent < Size
      BY <2>1 DEF SendInv
    <3>2. state = "reception" /\ fifo # <<>> /\ fifo[1] = <<Call, 1>> /\ DataExpect
      BY <2>1, <3>1 DEF SendInv, SendBurst
    <3>3. Len(fifo) < Size
      BY <1>1, <3>2, Expects DEF DataExpect, TypeInv
    <3>4. Len(fifo) \in Nat /\ Size \in Nat /\ NextSent \in Int
      BY <1>1, Constants, CurrentSize DEF TypeInv, NextSent, Least
    <3>5. QED
      BY <3>1, <3>3, <3>4 DEF Ahead
  <2>3. SendInv'
    BY <1>2, <1>3, <2>0, <2>1 DEF SendInv
  <2>4. ReceiveInv'
    BY <1>2, <2>1 DEF ReceiveInv
  <2>5. LocalityInv'
    BY <1>2, <2>1 DEF LocalityInv
  <2>6. CalmInv'
    <3>1. active /\ Holds(sent) => SendBurst
      <4>1. SUFFICES ASSUME active, Holds(sent), sent > 0 PROVE DataExpect
        BY <2>1 DEF SendBurst, SendInv, TypeInv
      <4>2. sent \in 1 .. Size /\ Call > 0
        BY <1>1, <2>1, <4>1, CurrentSize DEF SendInv, TypeInv
      <4>3. fifo # <<>> /\ fifo[1] = <<Call, 1>> /\ state = "reception"
        BY <2>1, <4>1, <4>2, Expects DEF SendInv
      <4>4. Len(fifo) < Size
        BY <2>1, <4>1 DEF Holds, SendInv
      <4>5. QED
        BY <4>1, <4>2, <4>3, <4>4, Expects DEF DataExpect
    <3>2. QED
      BY <1>2, <2>1, <3>1 DEF CalmInv, LocalityInv
  <2>7. QED
    BY <1>2, <2>2, <2>3, <2>4, <2>5, <2>6
<1>9. CASE SendFinal
  <2>1. /\ pc = "send_final" /\ pc' \in {"go", "abort"}
        /\ (pc' = "abort" => faulted' \/ ~(active /\ ~DataExpect))
        /\ (~faulted' => ~faulted)
    BY <1>9 DEF SendFinal, Sends, Poll, Goto, Fault, NoFault, CommandReady
  <2>2. TypeInv'
    BY <1>2, <2>1 DEF TypeInv
  <2>3. SendInv'
    BY <1>2, <1>3, <2>1 DEF SendInv
  <2>4. ReceiveInv'
    BY <1>2, <2>1 DEF ReceiveInv, SendInv
  <2>5. LocalityInv'
    BY <1>2, <2>1 DEF LocalityInv
  <2>6. CalmInv'
    <3>1. Holds(Size) /\ Call > 0 /\ Size \in 1 .. Size
      BY <1>1, <2>1, CurrentSize DEF SendInv, TypeInv
    <3>2. ~DataExpect
      BY <3>1, CurrentSize, Expects DEF Holds, DataExpect
    <3>3. QED
      BY <1>2, <2>1, <3>2 DEF CalmInv, LocalityInv
  <2>7. QED
    BY <1>2, <2>2, <2>3, <2>4, <2>5, <2>6
<1>10. CASE Wait
  <2>1. /\ pc = "wait" /\ pc' \in {"recv_burst", "cancel"}
        /\ (pc' = "recv_burst" => DataAvail) /\ (pc' = "cancel" => faulted')
        /\ (~faulted' => ~faulted)
    BY <1>10 DEF Wait, Sends, Poll, Goto, Fault, NoFault, CommandReady
  <2>2. TypeInv'
    BY <1>2, <2>1 DEF TypeInv
  <2>3. SendInv'
    BY <1>2, <1>3, <2>1 DEF SendInv
  <2>4. ReceiveInv'
    BY <1>2, <2>1 DEF ReceiveInv, DataAvail, Begun
  <2>5. LocalityInv'
    BY <1>2, <2>1 DEF LocalityInv
  <2>6. CalmInv'
    BY <1>2, <2>1 DEF CalmInv, LocalityInv
  <2>7. QED
    BY <1>2, <2>2, <2>3, <2>4, <2>5, <2>6
<1>11. CASE RecvWait
  <2>1. /\ pc = "recv_burst" /\ pc' \in {"recv_data", "abort"}
        /\ (pc' = "abort" => faulted' \/ ~DataAvail)
        /\ (~faulted' => ~faulted)
    BY <1>11 DEF RecvWait, Sends, Poll, Goto, Fault, NoFault, CommandReady
  <2>2. TypeInv'
    BY <1>2, <2>1 DEF TypeInv
  <2>3. SendInv'
    BY <1>2, <1>3, <2>1 DEF SendInv
  <2>4. ReceiveInv'
    BY <1>2, <2>1 DEF ReceiveInv
  <2>5. LocalityInv'
    BY <1>2, <2>1 DEF LocalityInv
  <2>6. CalmInv'
    <3>1. state = "completion" /\ (pc = "recv_burst" <=> out # <<>>)
      BY <2>1 DEF ReceiveInv, Answered
    <3>2. QED
      BY <1>2, <2>1, <3>1 DEF CalmInv, LocalityInv, DataAvail
  <2>7. QED
    BY <1>2, <2>2, <2>3, <2>4, <2>5, <2>6
<1>12. CASE RecvFinal
  <2>1. /\ pc = "recv_final" /\ pc' \in {"done", "abort"}
        /\ (pc' = "abort" => faulted' \/ ~(active /\ ~DataAvail))
        /\ (~faulted' => ~faulted)
    BY <1>12 DEF RecvFinal, Sends, Poll, Goto, Fault, NoFault, CommandReady
  <2>2. TypeInv'
    BY <1>2, <2>1 DEF TypeInv
  <2>3. SendInv'
    BY <1>2, <1>3, <2>1 DEF SendInv
  <2>4. ReceiveInv'
    BY <1>2, <2>1 DEF ReceiveInv
  <2>5. LocalityInv'
    BY <1>2, <2>1 DEF LocalityInv
  <2>6. CalmInv'
    <3>1. state = "completion" /\ (pc = "recv_burst" <=> out # <<>>)
      BY <2>1 DEF ReceiveInv, Answered
    <3>2. QED
      BY <1>2, <2>1, <3>1 DEF CalmInv, LocalityInv, DataAvail
  <2>7. QED
    BY <1>2, <2>2, <2>3, <2>4, <2>5, <2>6
<1>13. CASE Abort
  <2>1. /\ pc = "abort" /\ pc' \in {"abort_ready", "failed"}
        /\ (pc' = "abort_ready" => state = "ready")
        /\ (~faulted' => ~faulted)
    BY <1>13 DEF Abort, Sends, Poll, Goto, Fault, NoFault, CommandReady
  <2>2. TypeInv'
    BY <1>2, <2>1 DEF TypeInv
  <2>3. SendInv'
    BY <1>2, <1>3, <2>1 DEF SendInv
  <2>4. ReceiveInv'
    BY <1>2, <2>1 DEF ReceiveInv
  <2>5. LocalityInv'
    BY <1>2, <2>1 DEF LocalityInv
  <2>6. CalmInv'
    BY <1>2, <2>1 DEF CalmInv, TooLarge, LocalityInv
  <2>7. QED
    BY <1>2, <2>2, <2>3, <2>4, <2>5, <2>6
<1>14. QED
  BY <1>4, <1>5, <1>6, <1>7, <1>8, <1>9, <1>10, <1>11, <1>12, <1>13 DEF Looks

--------------------------------------------------------------------------------
(* The beginning and the end of a call.                                       *)
LEMMA ReturnKeeps ==
  ASSUME IInv, Done \/ Fails
  PROVE  IInv'
<1> USE DEF IInv
<1>1. /\ UNCHANGED <<active, state, fifo, out, executed, answers, initialized, closed, sizes, sent>>
      /\ ChipInv' /\ WorkInv' /\ Call' = Call
      /\ pc \in {"done", "failed"} /\ pc' = "idle" /\ faulted' = faulted /\ Call > 0
  BY Unmoved DEF Done, Fails, Return, Goto, NoFault, chip, work, TypeInv
<1>2. TooLarge' <=> TooLarge
  BY <1>1 DEF TooLarge
<1>3. SendInv' /\ LocalityInv'
  BY <1>1 DEF SendInv, LocalityInv
<1>4. CASE Done
  <2>1. /\ ret' = "ok" /\ pc = "done" /\ recvbuf' = SubSeq(recvbuf, 1, Len(recvbuf))
    BY <1>4 DEF Done, Return
  <2>2. recvbuf' = recvbuf /\ recvbuf \in Seq(Byte)
    BY <2>1 DEF TypeInv
  <2>3. Answered /\ out = <<>>
    BY <2>1 DEF ReceiveInv
  <2>4. Last \in 1 .. Last /\ answers[Last] \in Nat /\ answers[Last] > 0
    BY <2>3, Constants DEF Answered, TypeInv, Last
  <2>5. Len(recvbuf) = answers[Last]
    BY <2>2, <2>3, <2>4 DEF Answered
  <2>6. recvbuf[1][1] = Last
    BY <2>3, <2>4, <2>5 DEF Answered
  <2>7. recvbuf = [j \in 1 .. answers[Last] |-> <<Last, j>>]
    <3>1. \A j \in 1 .. answers[Last] : recvbuf[j] = <<Last, j>>
      BY <2>3, <2>5 DEF Answered
    <3>2. recvbuf = [j \in 1 .. answers[Last] |-> recvbuf[j]]
      BY <2>2, <2>5
    <3>3. QED
      BY <3>1, <3>2
  <2>8. executed[Last] = Command(Call)
    BY <2>3, <2>4 DEF Answered, WorkInv
  <2>9. ReceiveInv'
    <3>1. Command(Call)' = Command(Call)
      BY <1>1 DEF Command
    <3>2. Last' = Last
      BY <1>1 DEF Last
    <3>3. QED
      BY <1>1, <2>2, <2>4, <2>6, <2>7, <2>8, <3>1, <3>2 DEF ReceiveInv
  <2>10. TypeInv' /\ CalmInv'
    BY <1>1, <2>1, <2>2 DEF TypeInv, CalmInv
  <2>11. QED
    BY <1>1, <1>3, <2>9, <2>10
<1>5. CASE Fails
  <2>1. ret' = "error" /\ pc = "failed" /\ recvbuf' = SubSeq(recvbuf, 1, 0)
    BY <1>5 DEF Fails, Return
  <2>2. recvbuf' \in Seq(Byte)
    BY <2>1 DEF TypeInv
  <2>3. ReceiveInv'
    BY <1>1, <2>1 DEF ReceiveInv
  <2>4. TypeInv' /\ CalmInv'
    BY <1>1, <1>2, <2>1, <2>2 DEF TypeInv, CalmInv
  <2>5. QED
    BY <1>1, <1>3, <2>3, <2>4
<1>6. QED
  BY <1>4, <1>5

LEMMA SetupKeeps ==
  ASSUME IInv, ReadVendor \/ Cleanup
  PROVE  IInv'
<1> USE DEF IInv
<1>1. /\ UNCHANGED <<active, state, fifo, out, executed, answers, sizes, sent, recvbuf, ret>>
      /\ ChipInv' /\ WorkInv' /\ Call' = Call /\ Last' = Last /\ (NotYet' <=> NotYet)
  BY Unmoved DEF ReadVendor, Cleanup, chip, work
<1>2. Command(Call)' = Command(Call)
  BY <1>1 DEF Command
<1>3. CASE ReadVendor
  <2>1. /\ pc = "vendor" /\ closed' = closed
        /\ \/ initialized' = TRUE /\ pc' = "send" /\ faulted' = faulted
           \/ initialized' = initialized /\ pc' = "release" /\ faulted'
    BY <1>3 DEF ReadVendor, Goto, Fault, NoFault
  <2>2. TypeInv' /\ SendInv' /\ ReceiveInv'
    BY <1>1, <2>1 DEF TypeInv, SendInv, ReceiveInv
  <2>3. LocalityInv' /\ CalmInv'
    BY <1>1, <2>1 DEF LocalityInv, CalmInv
  <2>4. QED
    BY <1>1, <2>2, <2>3
<1>4. CASE Cleanup
  <2>1. pc = "idle" /\ pc' = "close" /\ closed' /\ initialized' = initialized
    BY <1>4 DEF Cleanup, Goto
  <2>2. TypeInv' /\ SendInv'
    BY <1>1, <2>1 DEF TypeInv, SendInv
  <2>3. ReceiveInv'
    BY <1>1, <1>2, <2>1 DEF ReceiveInv
  <2>4. LocalityInv' /\ CalmInv'
    BY <1>1, <2>1 DEF LocalityInv, CalmInv
  <2>5. QED
    BY <1>1, <2>2, <2>3, <2>4
<1>5. QED
  BY <1>3, <1>4

LEMMA XmitKeeps ==
  ASSUME IInv, Xmit
  PROVE  IInv'
<1> USE DEF IInv
<1>1. PICK n \in CommandSizes : sizes' = Append(sizes, n)
  BY DEF Xmit
<1>2. /\ UNCHANGED <<active, state, fifo, out, executed, answers, initialized, closed>>
      /\ sent' = 0 /\ recvbuf' = <<>> /\ pc = "idle"
      /\ pc' = IF initialized THEN "send" ELSE "check"
  BY DEF Xmit, Goto, chip, work
<1>3. /\ sizes' \in Seq(CommandSizes) /\ Call \in Nat /\ Call' = Call + 1
      /\ \A c \in 1 .. Call : c \in 1 .. Call' /\ sizes'[c] = sizes[c]
  BY <1>1 DEF TypeInv, Call
<1>4. /\ \A c \in 1 .. Call : Command(c)' = Command(c)
      /\ \A e : Caller(e)' = Caller(e)
      /\ Last' = Last
  BY <1>2, <1>3 DEF Command, Caller, Last
<1>5. TypeInv'
  BY <1>2, <1>3 DEF TypeInv
<1>6. ChipInv'
  <2>1. state = "execution" => Command(fifo[1][1])' = Command(fifo[1][1])
    BY <1>2, <1>4 DEF ChipInv
  <2>2. QED
    BY <1>2, <1>3, <1>4, <2>1 DEF ChipInv
<1>7. WorkInv'
  BY <1>2, <1>3, <1>4 DEF WorkInv
<1>8. NotYet'
  <2>1. \A e \in 1 .. Last : Caller(e) < Call'
    BY <1>3 DEF WorkInv
  <2>2. state = "execution" => fifo[1][1] < Call'
    BY <1>3 DEF ChipInv
  <2>3. QED
    BY <1>2, <1>4, <2>1, <2>2 DEF NotYet
<1>9. SendInv' /\ ReceiveInv'
  BY <1>2, <1>8 DEF SendInv, ReceiveInv
<1>10. LocalityInv' /\ CalmInv'
  BY <1>2 DEF LocalityInv, CalmInv
<1>11. QED
  BY <1>5, <1>6, <1>7, <1>9, <1>10

--------------------------------------------------------------------------------
(* Writes to the chip.                                                        *)
LEMMA LocalityKeeps ==
  ASSUME IInv, RequestLocality \/ ReleaseLocality
  PROVE  IInv'
<1> USE DEF IInv
<1>1. /\ UNCHANGED <<state, fifo, out, executed, answers, initialized, closed, sizes, sent,
                     recvbuf, ret>>
  BY DEF RequestLocality, ReleaseLocality, Write, TakeLocality, DropLocality, chip, work, driver
<1>2. /\ Call' = Call /\ Last' = Last
      /\ \A n : Command(n)' = Command(n) /\ Caller(n)' = Caller(n)
  BY <1>1 DEF Call, Last, Command, Caller
<1>3. ChipInv' /\ WorkInv' /\ (NotYet' <=> NotYet)
  BY <1>1, <1>2 DEF ChipInv, WorkInv, NotYet
<1>4. TooLarge' <=> TooLarge
  BY <1>1 DEF TooLarge
<1>5. CASE RequestLocality
  <2>1. /\ pc = "request" /\ (~faulted' => ~faulted)
        /\ \/ pc' = "granted" /\ active'
           \/ pc' \in {"request", "failed"} /\ faulted' /\ (active' \/ active' = active)
    BY <1>5 DEF RequestLocality, Write, TakeLocality, Goto, Fault, NoFault, chip
  <2>2. TypeInv' /\ SendInv' /\ ReceiveInv'
    BY <1>1, <1>2, <1>3, <2>1 DEF TypeInv, SendInv, ReceiveInv
  <2>3. LocalityInv' /\ CalmInv'
    BY <1>1, <2>1 DEF LocalityInv, CalmInv
  <2>4. QED
    BY <1>3, <2>2, <2>3
<1>6. CASE ReleaseLocality
  <2>1. /\ pc \in {"release", "close"} /\ pc' \in {pc, IF pc = "close" THEN "idle" ELSE "failed"}
        /\ (~faulted' => ~faulted)
    BY <1>6 DEF ReleaseLocality, Write, Goto, Fault, NoFault
  <2>2. TypeInv' /\ SendInv'
    BY <1>1, <1>2, <1>3, <2>1 DEF TypeInv, SendInv
  <2>3. ReceiveInv'
    BY <1>1, <1>2, <1>3, <2>1 DEF ReceiveInv
  <2>4. LocalityInv' /\ CalmInv'
    BY <1>1, <1>2, <1>4, <2>1 DEF LocalityInv, CalmInv
  <2>5. QED
    BY <1>3, <2>2, <2>3, <2>4
<1>7. QED
  BY <1>5, <1>6

(* The chip drops what it has, and may be ready for a new command.            *)
LEMMA ReadyWrites ==
  ASSUME IInv, TakeReady \/ UNCHANGED chip, UNCHANGED <<work, sizes>>
  PROVE  /\ ChipInv' /\ WorkInv' /\ (NotYet => NotYet') /\ active' = active
         /\ state' \in {"idle", "ready", "reception", "execution", "completion"}
         /\ fifo' \in Seq(Byte) /\ out' \in Seq(Byte)
         /\ Call' = Call /\ Last' = Last
<1> USE DEF IInv
<1>1. CASE UNCHANGED chip
  <2>1. UNCHANGED <<active, state, fifo, out>>
    BY <1>1 DEF chip
  <2>2. QED
    BY <1>1, <2>1, Unmoved DEF TypeInv
<1>2. CASE TakeReady /\ ~(UNCHANGED chip)
  <2>1. active' = active /\ fifo' = <<>> /\ out' = <<>> /\ state' \in {"ready", "idle"}
    BY <1>2 DEF TakeReady
  <2>2. /\ executed' = executed /\ sizes' = sizes /\ Call' = Call /\ Last' = Last
        /\ \A n : Command(n)' = Command(n) /\ Caller(n)' = Caller(n)
    BY DEF work, Call, Last, Command, Caller
  <2>3. ChipInv' /\ WorkInv' /\ (NotYet => NotYet')
    BY <2>1, <2>2 DEF ChipInv, WorkInv, NotYet
  <2>4. QED
    BY <2>1, <2>2, <2>3
<1>3. QED
  BY <1>1, <1>2

LEMMA ReadyKeeps ==
  ASSUME IInv, SendReadyWrite \/ Cancel \/ AbortReady
  PROVE  IInv'
<1> USE DEF IInv
<1>1. /\ TakeReady \/ UNCHANGED chip
      /\ UNCHANGED <<executed, answers, initialized, closed, sizes, sent, recvbuf, ret>>
      /\ UNCHANGED <<work, sizes>>
      /\ pc \in {"send_ready", "cancel", "abort_ready"}
      /\ pc' \in {pc, IF pc = "send_ready" THEN "send" ELSE "failed"}
      /\ (~faulted' => ~faulted)
  BY DEF SendReadyWrite, Cancel, AbortReady, Sends, Write, Goto, Fault, NoFault, work, driver
<1>2. /\ ChipInv' /\ WorkInv' /\ (NotYet => NotYet') /\ active' = active
      /\ state' \in {"idle", "ready", "reception", "execution", "completion"}
      /\ fifo' \in Seq(Byte) /\ out' \in Seq(Byte)
      /\ Call' = Call /\ Last' = Last
  BY <1>1, ReadyWrites
<1>3. TypeInv' /\ SendInv'
  BY <1>1, <1>2 DEF TypeInv, SendInv
<1>4. ReceiveInv'
  BY <1>1, <1>2 DEF ReceiveInv
<1>5. LocalityInv' /\ CalmInv'
  BY <1>1, <1>2 DEF LocalityInv, CalmInv
<1>6. QED
  BY <1>2, <1>3, <1>4, <1>5

--------------------------------------------------------------------------------
(* The next chunk, and what the FIFO holds when it has taken it.              *)
Bytes == SubSeq(Command(Call), sent + 1, sent + SendLimit)

LEMMA NextChunk ==
  ASSUME IInv, pc = "send_data"
  PROVE  /\ Call \in 1 .. Call /\ Size \in Nat /\ sent \in Nat /\ sent < Size
         /\ SendLimit \in Nat /\ SendLimit > 0 /\ NextSent = sent + SendLimit
         /\ NextSent <= Size /\ (NextSent < Size => SendLimit = Chunk)
         /\ Bytes \in Seq(Byte) /\ Len(Bytes) = SendLimit
         /\ \A i \in 1 .. SendLimit : Bytes[i] = <<Call, sent + i>>
<1> USE DEF IInv
<1>1. Call > 0 /\ sent \in Nat /\ sent < Size
  BY DEF TypeInv, SendInv
<1>2. Size \in Nat /\ Call \in 1 .. Call /\ Size = sizes[Call]
  BY <1>1, CurrentSize
<1>3. state # "completion"
  BY DEF SendInv
<1>4. BurstCount = MaxBurst
  BY <1>3 DEF BurstCount, DataAvail
<1>5. SendLimit = Least(Chunk, Size - sent)
  BY <1>1, <1>2, <1>4, Constants, LeastOfTwo DEF SendLimit, Chunk
<1>6. Size - sent \in Nat /\ Size - sent > 0 /\ Chunk \in Nat /\ Chunk > 0
  BY <1>1, <1>2, Constants
<1>7. /\ SendLimit \in Nat /\ SendLimit > 0 /\ NextSent = sent + SendLimit
      /\ NextSent <= Size /\ (NextSent < Size => SendLimit = Chunk)
  BY <1>1, <1>2, <1>5, <1>6 DEF Least, NextSent
<1>8. /\ Command(Call) \in Seq(Byte) /\ Len(Command(Call)) = Size
      /\ \A i \in 1 .. Size : Command(Call)[i] = <<Call, i>>
  BY <1>2, CommandBytes
<1>9. /\ Bytes \in Seq(Byte) /\ Len(Bytes) = SendLimit
      /\ \A i \in 1 .. SendLimit : Bytes[i] = <<Call, sent + i>>
  <2>1. PICK c \in Seq(Byte) : c = Command(Call)
    BY <1>8
  <2>2. PICK m \in Nat : m = SendLimit
    BY <1>7
  <2>3. sent + m <= Len(c)
    BY <1>7, <1>8, <2>1, <2>2
  <2>4. Bytes = SubSeq(c, sent + 1, sent + m)
    BY <2>1, <2>2 DEF Bytes
  <2>5. /\ Bytes \in Seq(Byte) /\ Len(Bytes) = m
        /\ \A i \in 1 .. m : Bytes[i] = c[sent + i]
    <3>1. sent \in Nat /\ sent + 1 \in Nat \ {0} /\ sent + m \in Nat /\ Len(c) \in Nat
      BY <1>1
    <3>2. Bytes \in Seq(Byte) /\ Len(Bytes) = m
      BY <2>3, <2>4, <3>1
    <3>3. \A i \in 1 .. m : Bytes[i] = c[sent + i]
      BY <2>3, <2>4, <3>1
    <3>4. QED
      BY <3>2, <3>3
  <2>6. \A i \in 1 .. m : sent + i \in 1 .. Size
    BY <1>1, <1>8, <2>1, <2>3
  <2>7. QED
    BY <1>8, <2>1, <2>2, <2>5, <2>6
<1>10. QED
  BY <1>1, <1>2, <1>7, <1>9

LEMMA ChunkTaken ==
  ASSUME IInv, pc = "send_data", TakeData(Bytes), UNCHANGED sizes
  PROVE  /\ UNCHANGED <<active, out>> /\ state' = "reception"
         /\ fifo' \in Seq(Byte) /\ Len(fifo') = Least(Len(fifo) + SendLimit, Size)
         /\ fifo' # <<>> /\ fifo'[1] = <<Call, 1>>
         /\ Holds(sent) => Len(fifo') = NextSent /\ \A i \in 1 .. NextSent : fifo'[i] = <<Call, i>>
         /\ Holds(Size) => Holds(Size)'
<1> USE DEF IInv
<1>1. /\ Call \in 1 .. Call /\ Size \in Nat /\ sent \in Nat /\ sent < Size
      /\ SendLimit \in Nat /\ SendLimit > 0 /\ NextSent = sent + SendLimit
      /\ NextSent <= Size
      /\ Bytes \in Seq(Byte) /\ Len(Bytes) = SendLimit
      /\ \A i \in 1 .. SendLimit : Bytes[i] = <<Call, sent + i>>
  BY NextChunk
<1>2. /\ state \in {"ready", "reception"} /\ fifo \in Seq(Byte) /\ Len(fifo) <= Size
      /\ \/ fifo = <<>> /\ sent = 0
         \/ fifo # <<>> /\ fifo[1] = <<Call, 1>>
  BY DEF SendInv, ChipInv, TypeInv
<1>3. PICK all \in Seq(Byte) : all = fifo \o Bytes
  BY <1>1, <1>2, Joined
<1>4. /\ Len(all) = Len(fifo) + SendLimit
      /\ \A i \in 1 .. Len(fifo) : all[i] = fifo[i]
      /\ \A i \in 1 .. SendLimit : all[Len(fifo) + i] = Bytes[i]
  <2>1. PICK b \in Seq(Byte) : b = Bytes
    BY <1>1
  <2>2. /\ Len(fifo \o b) = Len(fifo) + Len(b)
        /\ \A i \in 1 .. Len(fifo) : (fifo \o b)[i] = fifo[i]
        /\ \A i \in 1 .. Len(b) : (fifo \o b)[Len(fifo) + i] = b[i]
    BY <1>2, Joined
  <2>3. all = fifo \o b /\ Len(b) = SendLimit
    BY <1>1, <1>3, <2>1
  <2>4. QED
    BY <2>1, <2>2, <2>3
<1>5. all[1] = <<Call, 1>>
  <2>1. CASE fifo = <<>>
    <3>1. Len(fifo) = 0 /\ sent = 0 /\ 1 \in 1 .. SendLimit
      BY <1>1, <1>2, <2>1
    <3>2. all[0 + 1] = Bytes[1] /\ Bytes[1] = <<Call, 0 + 1>>
      BY <1>1, <1>4, <3>1
    <3>3. QED
      BY <3>2
  <2>2. CASE fifo # <<>>
    BY <1>2, <1>4, <2>2
  <2>3. QED
    BY <2>1, <2>2
<1>6. PICK n \in Nat : n = Least(Len(fifo) + SendLimit, Size)
  BY <1>1, <1>2 DEF Least
<1>7. Min({Len(all), sizes[all[1][1]]}) = n
  <2>1. sizes[all[1][1]] = Size
    BY <1>5 DEF Size
  <2>2. Min({Len(all), Size}) = Least(Len(all), Size)
    BY <1>1, LeastOfTwo
  <2>3. QED
    BY <1>4, <1>6, <2>1, <2>2
<1>8. fifo' = SubSeq(all, 1, n) /\ state' = "reception" /\ UNCHANGED <<active, out>>
  BY <1>2, <1>3, <1>7 DEF TakeData
<1>9. n > 0 /\ n <= Len(all)
  BY <1>1, <1>2, <1>4, <1>6 DEF Least
<1>10. /\ fifo' \in Seq(Byte) /\ Len(fifo') = n
       /\ \A i \in 1 .. n : fifo'[i] = all[i]
  BY <1>8, <1>9
<1>11. fifo' # <<>> /\ fifo'[1] = <<Call, 1>>
  <2>1. 1 \in 1 .. n
    BY <1>9
  <2>2. QED
    BY <1>5, <1>9, <1>10, <2>1
<1>12. Call' = Call
  BY DEF Call
<1>13. ASSUME Holds(sent)
       PROVE  Len(fifo') = NextSent /\ \A i \in 1 .. NextSent : fifo'[i] = <<Call, i>>
  <2>1. n = sent + SendLimit /\ Len(fifo) = sent
    BY <1>1, <1>6, <1>13 DEF Holds, Least
  <2>2. ASSUME NEW i \in 1 .. n
        PROVE  all[i] = <<Call, i>>
    <3>1. CASE i <= sent
      <4>1. i \in 1 .. Len(fifo)
        BY <2>1, <3>1
      <4>2. QED
        BY <1>4, <1>13, <2>1, <4>1 DEF Holds
    <3>2. CASE i > sent
      <4>1. i - sent \in 1 .. SendLimit /\ sent + (i - sent) = i
        BY <1>1, <2>1, <3>2
      <4>2. all[sent + (i - sent)] = Bytes[i - sent]
        BY <1>4, <2>1, <4>1
      <4>3. Bytes[i - sent] = <<Call, sent + (i - sent)>>
        BY <1>1, <4>1
      <4>4. QED
        BY <4>1, <4>2, <4>3
    <3>3. QED
      BY <1>1, <3>1, <3>2
  <2>3. QED
    BY <1>1, <1>10, <2>1, <2>2
<1>14. ASSUME Holds(Size)
       PROVE  Holds(Size)'
  <2>1. n = Size /\ Len(fifo) = Size
    BY <1>1, <1>6, <1>14 DEF Holds, Least
  <2>2. \A i \in 1 .. Size : fifo'[i] = <<Call, i>>
    BY <1>4, <1>10, <1>14, <2>1 DEF Holds
  <2>3. Size' = Size
    BY DEF Size, Call
  <2>4. QED
    BY <1>10, <1>12, <2>1, <2>2, <2>3 DEF Holds
<1>15. QED
  BY <1>6, <1>8, <1>10, <1>11, <1>13, <1>14

LEMMA SendDataKeeps ==
  ASSUME IInv, SendData
  PROVE  IInv'
<1> USE DEF IInv
<1>1. /\ pc = "send_data"
      /\ UNCHANGED <<executed, answers, initialized, closed, sizes, recvbuf, ret>>
      /\ TakeData(Bytes) \/ UNCHANGED chip
      /\ (~faulted' => ~faulted)
      /\ \/ /\ TakeData(Bytes) /\ pc' = IF NextSent < Size THEN "send_burst" ELSE "send_final"
            /\ sent' = NextSent
         \/ pc' \in {"send_data", "abort"} /\ sent' = sent /\ faulted'
  <2>1. NextSent = sent + SendLimit
    BY NextChunk DEF SendData
  <2>2. QED
    BY <2>1 DEF SendData, Write, Goto, Fault, NoFault, work, Bytes
<1>2. /\ Call \in 1 .. Call /\ Size \in Nat /\ sent \in Nat /\ sent < Size
      /\ SendLimit \in Nat /\ SendLimit > 0 /\ NextSent = sent + SendLimit
      /\ NextSent <= Size /\ (NextSent < Size => SendLimit = Chunk)
  BY <1>1, NextChunk
<1>3. /\ Call' = Call /\ Size' = Size /\ Last' = Last /\ Chunk \in Nat
      /\ \A n : Command(n)' = Command(n) /\ Caller(n)' = Caller(n)
  BY <1>1, Constants DEF Call, Size, Last, Command, Caller
<1>4. /\ NotYet /\ Len(fifo) \in Nat /\ Len(fifo) <= Size
      /\ \/ Holds(sent) \/ Holds(NextSent) \/ (NextSent < Size /\ Ahead)
  BY <1>1 DEF SendInv, TypeInv
<1>5. ASSUME UNCHANGED chip, pc' \in {"send_data", "abort"}, sent' = sent, faulted'
      PROVE  IInv'
  <2>1. /\ UNCHANGED <<active, state, fifo, out>> /\ ChipInv' /\ WorkInv' /\ (NotYet' <=> NotYet)
        /\ \A n : Holds(n)' <=> Holds(n)
    BY <1>1, <1>5, Unmoved DEF chip, work
  <2>2. NextSent' = NextSent /\ (Ahead' <=> Ahead)
    BY <1>3, <1>5, <2>1 DEF NextSent, Ahead
  <2>3. TypeInv' /\ SendInv'
    BY <1>1, <1>3, <1>5, <2>1, <2>2 DEF TypeInv, SendInv
  <2>4. ReceiveInv' /\ LocalityInv' /\ CalmInv'
    BY <1>1, <1>5, <2>1 DEF ReceiveInv, LocalityInv, CalmInv
  <2>5. QED
    BY <2>1, <2>3, <2>4
<1>6. ASSUME TakeData(Bytes)
      PROVE  IInv'
  <2>1. /\ UNCHANGED <<active, out>> /\ state' = "reception"
        /\ fifo' \in Seq(Byte) /\ Len(fifo') = Least(Len(fifo) + SendLimit, Size)
        /\ fifo' # <<>> /\ fifo'[1] = <<Call, 1>>
        /\ Holds(sent) => Len(fifo') = NextSent /\ \A i \in 1 .. NextSent : fifo'[i] = <<Call, i>>
        /\ Holds(Size) => Holds(Size)'
    BY <1>1, <1>6, ChunkTaken
  <2>2. ChipInv' /\ WorkInv' /\ NotYet'
    <3>1. out = <<>>
      BY <1>1 DEF SendInv, ChipInv
    <3>2. QED
      BY <1>1, <1>3, <1>4, <2>1, <3>1 DEF ChipInv, WorkInv, NotYet
  <2>3. Len(fifo') <= Size /\ Len(fifo') \in Nat
    BY <1>2, <1>4, <2>1 DEF Least
  <2>4. Holds(sent) => \A n : n = NextSent =>
                        (Len(fifo') = n /\ \A i \in 1 .. n : fifo'[i] = <<Call', i>>)
    BY <1>3, <2>1
  <2>5. CASE pc' \in {"send_data", "abort"} /\ sent' = sent /\ faulted'
    <3>1. NextSent' = NextSent
      BY <1>3, <2>5 DEF NextSent
    <3>2. Holds(sent) => Holds(NextSent)'
      BY <2>4, <3>1 DEF Holds
    <3>3. Holds(NextSent) /\ NextSent = Size => Holds(NextSent)'
      <4>1. Holds(Size)' => Holds(NextSent)' \/ NextSent # Size
        BY <1>3, <3>1 DEF Holds
      <4>2. QED
        BY <2>1, <4>1
    <3>4. Holds(NextSent) \/ Ahead => Ahead'
      BY <1>2, <1>4, <2>1, <3>1 DEF Holds, Ahead, Least
    <3>5. Holds(NextSent)' \/ (NextSent < Size /\ Ahead')
      BY <1>2, <1>4, <3>2, <3>3, <3>4
    <3>6. SendInv'
      BY <1>2, <1>3, <2>1, <2>2, <2>3, <2>5, <3>1, <3>5 DEF SendInv
    <3>7. TypeInv' /\ ReceiveInv'
      BY <1>1, <1>3, <2>1, <2>5 DEF TypeInv, ReceiveInv
    <3>8. LocalityInv' /\ CalmInv'
      BY <1>1, <2>1, <2>5 DEF LocalityInv, CalmInv
    <3>9. QED
      BY <2>2, <3>6, <3>7, <3>8
  <2>6. CASE NextSent < Size /\ pc' = "send_burst" /\ sent' = NextSent
    <3>1. Holds(sent) => Holds(sent)'
      BY <2>4, <2>6 DEF Holds
    <3>2. Holds(NextSent) \/ Ahead => Ahead' /\ sent' > 0
      <4>1. SendLimit = Chunk /\ NextSent' = Least(Size, NextSent + Chunk)
        BY <1>2, <1>3, <2>6 DEF NextSent
      <4>2. Holds(NextSent) \/ Ahead => Len(fifo) >= NextSent
        BY <1>4 DEF Holds, Ahead
      <4>3. Len(fifo) >= NextSent => Len(fifo') >= Least(Size, NextSent + Chunk)
        BY <1>2, <1>3, <1>4, <2>1, <4>1 DEF Least
      <4>4. QED
        BY <1>2, <2>6, <4>1, <4>2, <4>3 DEF Ahead
    <3>3. SendInv'
      BY <1>2, <1>3, <1>4, <2>1, <2>2, <2>3, <2>6, <3>1, <3>2 DEF SendInv
    <3>4. TypeInv' /\ ReceiveInv' /\ LocalityInv'
      BY <1>1, <1>2, <1>3, <2>1, <2>6 DEF TypeInv, ReceiveInv, LocalityInv
    <3>5. CalmInv'
      BY <1>1, <2>6, <3>1 DEF CalmInv
    <3>6. QED
      BY <2>2, <3>3, <3>4, <3>5
  <2>7. CASE NextSent = Size /\ pc' = "send_final" /\ sent' = NextSent
    <3>1. Holds(sent) => Holds(Size)'
      BY <1>3, <2>4, <2>7 DEF Holds
    <3>2. Holds(Size)'
      <4>1. ~(NextSent < Size)
        BY <1>2, <2>7
      <4>2. Holds(sent) \/ Holds(Size)
        BY <1>4, <2>7, <4>1
      <4>3. QED
        BY <2>1, <3>1, <4>2
    <3>3. SendInv'
      BY <2>1, <2>2, <2>7, <3>2 DEF SendInv
    <3>4. TypeInv' /\ ReceiveInv' /\ LocalityInv'
      BY <1>1, <1>2, <1>3, <2>1, <2>7 DEF TypeInv, ReceiveInv, LocalityInv
    <3>5. CalmInv'
      BY <1>1, <2>7 DEF CalmInv
    <3>6. QED
      BY <2>2, <3>3, <3>4, <3>5
  <2>8. QED
    BY <1>1, <1>2, <2>5, <2>6, <2>7
<1>7. QED
  BY <1>1, <1>5, <1>6

(* The go starts the command that the FIFO holds, once.                       *)
LEMMA GoKeeps ==
  ASSUME IInv, Go
  PROVE  IInv'
<1> USE DEF IInv
<1>1. /\ pc = "go"
      /\ TakeGo \/ UNCHANGED chip
      /\ UNCHANGED <<executed, answers, initialized, closed, sizes, sent, recvbuf, ret>>
      /\ (~faulted' => ~faulted)
      /\ \/ pc' = "wait" /\ TakeGo
         \/ pc' \in {"go", "abort"} /\ faulted'
  BY DEF Go, Sends, Write, Goto, Fault, NoFault, work, driver
<1>2. /\ Call' = Call /\ Size' = Size /\ Last' = Last /\ Call \in 1 .. Call
      /\ Size \in 1 .. Size
      /\ \A n : Command(n)' = Command(n) /\ Caller(n)' = Caller(n)
  <2>1. Call \in 1 .. Call /\ Size \in 1 .. Size
    BY <1>1, CurrentSize DEF TypeInv
  <2>2. /\ Call' = Call /\ Size' = Size /\ Last' = Last
        /\ \A n : Command(n)' = Command(n) /\ Caller(n)' = Caller(n)
    BY <1>1 DEF Call, Size, Last, Command, Caller
  <2>3. QED
    BY <2>1, <2>2
<1>3. CASE UNCHANGED chip /\ pc' # "wait"
  <2>1. /\ UNCHANGED <<active, state, fifo, out>> /\ ChipInv' /\ WorkInv'
        /\ (NotYet' <=> NotYet) /\ (Begun' <=> Begun) /\ (Answered' <=> Answered)
        /\ \A n : Holds(n)' <=> Holds(n)
    BY <1>1, <1>3, Unmoved, AnsweredStays DEF chip, work
  <2>2. TypeInv' /\ SendInv'
    BY <1>1, <1>2, <1>3, <2>1 DEF TypeInv, SendInv
  <2>3. ReceiveInv'
    BY <1>1, <1>2, <1>3, <2>1 DEF ReceiveInv
  <2>4. LocalityInv' /\ CalmInv'
    BY <1>1, <1>3, <2>1 DEF LocalityInv, CalmInv
  <2>5. QED
    BY <2>1, <2>2, <2>3, <2>4
<1>4. CASE TakeGo
  <2>1. active' = active /\ fifo' = fifo /\ out' = out
    BY <1>4 DEF TakeGo, chip
  <2>2. ASSUME NotYet /\ state = "reception" /\ Holds(Size)
        PROVE  state' = "execution" /\ ChipInv' /\ WorkInv' /\ Begun'
    <3>1. fifo = Command(Call) /\ fifo[1][1] = Call
      BY <1>2, <2>2, HeldCommand, CommandBytes
    <3>2. ~Expect
      BY <1>2, <2>2, Expects DEF Holds
    <3>3. state' = "execution"
      BY <1>4, <2>2, <3>2 DEF TakeGo
    <3>4. ChipInv' /\ WorkInv'
      BY <1>1, <1>2, <2>1, <2>2, <3>1, <3>3 DEF ChipInv, WorkInv, NotYet
    <3>5. QED
      BY <1>2, <2>1, <3>1, <3>3, <3>4 DEF Begun
  <2>3. ASSUME Begun \/ Answered
        PROVE  state' = state /\ ChipInv' /\ WorkInv' /\ (Begun' \/ Answered')
    <3>1. UNCHANGED chip
      BY <1>4, <2>3 DEF TakeGo, Begun, Answered
    <3>2. QED
      BY <1>1, <2>3, <3>1, Unmoved, AnsweredStays DEF chip, work
  <2>4. /\ active' = active /\ fifo' \in Seq(Byte) /\ out' \in Seq(Byte)
        /\ state' \in {"idle", "ready", "reception", "execution", "completion"}
        /\ ChipInv' /\ WorkInv' /\ (Begun' \/ Answered')
    BY <1>1, <2>1, <2>2, <2>3 DEF ReceiveInv, TypeInv
  <2>5. TypeInv' /\ SendInv'
    BY <1>1, <1>2, <2>4 DEF TypeInv, SendInv
  <2>6. ReceiveInv'
    BY <1>1, <1>2, <2>4 DEF ReceiveInv
  <2>7. LocalityInv' /\ CalmInv'
    BY <1>1, <2>4 DEF LocalityInv, CalmInv
  <2>8. QED
    BY <2>4, <2>5, <2>6, <2>7
<1>5. QED
  BY <1>1, <1>3, <1>4

--------------------------------------------------------------------------------
(* The response.                                                              *)
LEMMA Popping ==
  ASSUME IInv, pc = "recv_data", NEW n \in 0 .. Len(out), Popped(n),
         UNCHANGED <<executed, answers, sizes>>
  PROVE  /\ UNCHANGED <<active, state, fifo>>
         /\ out' \in Seq(Byte) /\ Len(out') = Len(out) - n
         /\ \A j \in 1 .. Len(out') : out'[j] = out[n + j]
         /\ ChipInv' /\ WorkInv' /\ Call' = Call /\ Last' = Last /\ Caller(Last)' = Caller(Last)
<1> USE DEF IInv
<1>1. UNCHANGED <<active, state, fifo>> /\ out' = SubSeq(out, n + 1, Len(out)) /\ out \in Seq(Byte)
  BY DEF Popped, TypeInv
<1>2. /\ out' \in Seq(Byte) /\ Len(out') = Len(out) - n
      /\ \A j \in 1 .. Len(out') : out'[j] = out[n + j]
  BY <1>1
<1>3. /\ Call' = Call /\ Last' = Last
      /\ \A c : Command(c)' = Command(c) /\ Caller(c)' = Caller(c)
  BY DEF Call, Last, Command, Caller
<1>4. Caller(Last)' = Caller(Last)
  BY <1>3 DEF Caller, Last
<1>5. state = "completion"
  BY DEF ReceiveInv, Answered
<1>6. ChipInv' /\ WorkInv'
  BY <1>1, <1>3, <1>5 DEF ChipInv, WorkInv
<1>7. QED
  BY <1>1, <1>2, <1>3, <1>4, <1>6

LEMMA Limit ==
  ASSUME IInv, pc = "recv_data"
  PROVE  /\ Last \in 1 .. Last /\ answers[Last] \in Nat /\ answers[Last] > 0
         /\ RecvLimit \in 1 .. Len(out) /\ RecvLimit \in Nat
<1> USE DEF IInv
<1>1. /\ Answered /\ out # <<>> /\ active
      /\ out \in Seq(Byte) /\ recvbuf \in Seq(Byte)
  BY DEF ReceiveInv, LocalityInv, TypeInv
<1>2. Last \in 1 .. Last /\ answers[Last] \in Nat /\ answers[Last] > 0
  BY <1>1, Constants DEF Answered, TypeInv, Last
<1>3. Len(out) \in Nat /\ Len(out) > 0 /\ Len(recvbuf) \in Nat
  BY <1>1
<1>4. DataAvail
  BY <1>1 DEF DataAvail, Answered
<1>5. BurstCount = Least(MaxBurst, Len(out))
  BY <1>3, <1>4, Constants, LeastOfTwo DEF BurstCount
<1>6. BurstCount \in 1 .. Len(out)
  BY <1>3, <1>5, Constants DEF Least
<1>7. recvbuf = <<>> => RecvLimit \in 1 .. Len(out)
  BY <1>6 DEF RecvLimit
<1>8. ASSUME recvbuf # <<>>
      PROVE  RecvLimit \in 1 .. Len(out)
  <2>1. Len(recvbuf) > 0
    BY <1>1, <1>8
  <2>2. recvbuf[1] = <<Last, 1>>
    BY <1>1, <1>3, <2>1 DEF Answered
  <2>3. Expected - Len(recvbuf) = Len(out)
    BY <1>1, <1>2, <1>3, <2>2 DEF Answered, Expected
  <2>4. RecvLimit = Least(BurstCount, Len(out))
    BY <1>3, <1>6, <1>8, <2>3, LeastOfTwo DEF RecvLimit
  <2>5. QED
    BY <1>3, <1>6, <2>4 DEF Least
<1>9. RecvLimit \in 1 .. Len(out)
  BY <1>7, <1>8
<1>10. QED
  BY <1>2, <1>3, <1>9

LEMMA RecvKeeps ==
  ASSUME IInv, RecvData
  PROVE  IInv'
<1> USE DEF IInv
<1>1. /\ pc = "recv_data" /\ Popped(RecvLimit)
      /\ recvbuf' = recvbuf \o SubSeq(out, 1, RecvLimit)
      /\ UNCHANGED <<executed, answers, initialized, closed, sizes, sent, ret, faulted>>
      /\ pc' = IF answers[recvbuf'[1][1]] > RoomSize THEN "abort"
               ELSE IF Len(recvbuf') < answers[recvbuf'[1][1]] THEN "recv_burst" ELSE "recv_final"
  BY DEF RecvData, Goto, NoFault, work
<1>2. /\ Last \in 1 .. Last /\ answers[Last] \in Nat /\ answers[Last] > 0
      /\ RecvLimit \in 1 .. Len(out) /\ RecvLimit \in Nat
  BY <1>1, Limit
<1>3. PICK n \in Nat : n = RecvLimit
  BY <1>2
<1>4. n \in 0 .. Len(out) /\ n > 0 /\ n <= Len(out)
  BY <1>2, <1>3
<1>5. /\ UNCHANGED <<active, state, fifo>>
      /\ out' \in Seq(Byte) /\ Len(out') = Len(out) - n
      /\ \A j \in 1 .. Len(out') : out'[j] = out[n + j]
      /\ ChipInv' /\ WorkInv' /\ Call' = Call /\ Last' = Last /\ Caller(Last)' = Caller(Last)
  BY <1>1, <1>3, <1>4, Popping
<1>6. /\ Answered /\ active /\ out \in Seq(Byte) /\ recvbuf \in Seq(Byte)
  BY <1>1 DEF ReceiveInv, LocalityInv, TypeInv
<1>7. /\ SubSeq(out, 1, n) \in Seq(Byte) /\ Len(SubSeq(out, 1, n)) = n
      /\ \A j \in 1 .. n : SubSeq(out, 1, n)[j] = out[j]
  BY <1>4, <1>6
<1>8. /\ recvbuf' \in Seq(Byte) /\ Len(recvbuf') = Len(recvbuf) + n
      /\ \A j \in 1 .. Len(recvbuf) : recvbuf'[j] = recvbuf[j]
      /\ \A j \in 1 .. n : recvbuf'[Len(recvbuf) + j] = out[j]
  <2>1. PICK new \in Seq(Byte) : new = SubSeq(out, 1, n)
    BY <1>7
  <2>2. /\ recvbuf' = recvbuf \o new /\ Len(new) = n
        /\ \A j \in 1 .. n : new[j] = out[j]
    BY <1>1, <1>3, <1>7, <2>1
  <2>3. QED
    BY <1>6, <2>2, Joined
<1>9. PICK m \in Nat : m = Len(recvbuf)
  BY <1>6
<1>10. PICK l \in Nat : l = Len(out)
  BY <1>6
<1>11. \A j \in 1 .. m + n : recvbuf'[j] = <<Last, j>>
  <2> TAKE j \in 1 .. m + n
  <2>1. CASE j <= m
    BY <1>6, <1>8, <1>9, <2>1 DEF Answered
  <2>2. CASE j > m
    <3>1. j - m \in 1 .. n /\ j - m \in 1 .. Len(out) /\ m + (j - m) = j
      BY <1>4, <1>10, <2>2
    <3>2. recvbuf'[m + (j - m)] = out[j - m]
      BY <1>8, <1>9, <3>1
    <3>3. out[j - m] = <<Last, m + (j - m)>>
      BY <1>6, <1>9, <3>1 DEF Answered
    <3>4. QED
      BY <3>1, <3>2, <3>3
  <2>3. QED
    BY <2>1, <2>2
<1>12. \A j \in 1 .. Len(out') : out'[j] = <<Last, (m + n) + j>>
  <2> TAKE j \in 1 .. Len(out')
  <2>1. n + j \in 1 .. Len(out) /\ m + (n + j) = (m + n) + j
    BY <1>4, <1>5, <1>10
  <2>2. out[n + j] = <<Last, m + (n + j)>>
    BY <1>6, <1>9, <2>1 DEF Answered
  <2>3. QED
    BY <1>5, <2>1, <2>2
<1>13. Len(recvbuf') + Len(out') = answers[Last] /\ recvbuf'[1][1] = Last
  <2>1. 1 \in 1 .. m + n
    BY <1>4
  <2>2. m + l = answers[Last]
    BY <1>6, <1>9, <1>10 DEF Answered
  <2>3. Len(recvbuf') = m + n /\ Len(out') = l - n
    BY <1>5, <1>8, <1>9, <1>10
  <2>4. recvbuf'[1] = <<Last, 1>>
    BY <1>11, <2>1
  <2>5. QED
    BY <2>2, <2>3, <2>4
<1>14. Answered'
  <2>1. state = "completion" /\ Last > 0 /\ Caller(Last) = Call
    BY <1>6 DEF Answered
  <2>2. Len(recvbuf') = m + n
    BY <1>8, <1>9
  <2>3. QED
    BY <1>1, <1>5, <1>11, <1>12, <1>13, <2>1, <2>2 DEF Answered
<1>15. /\ pc' = "abort" => TooLarge'
       /\ pc' = "recv_burst" => out' # <<>>
       /\ pc' = "recv_final" => out' = <<>>
       /\ pc' \in {"abort", "recv_burst", "recv_final"}
  <2>1. Len(recvbuf') \in Nat /\ Len(out') \in Nat
    BY <1>5, <1>8
  <2>2. pc' = "abort" => answers[Last] > RoomSize
    BY <1>1, <1>13
  <2>3. answers' = answers /\ Len(answers) = Last /\ answers # <<>> /\ state' = "completion"
    BY <1>1, <1>2, <1>5, <1>6 DEF Answered, TypeInv, Last
  <2>7. pc' = "abort" => TooLarge'
    BY <2>2, <2>3 DEF TooLarge
  <2>8. pc' \in {"abort", "recv_burst", "recv_final"}
    BY <1>1
  <2>4. pc' = "recv_burst" => Len(out') > 0
    BY <1>1, <1>2, <1>13, <2>1
  <2>5. pc' = "recv_final" => Len(out') = 0
    BY <1>1, <1>2, <1>13, <2>1
  <2>6. QED
    BY <1>5, <2>4, <2>5, <2>7, <2>8
<1>16. TypeInv' /\ SendInv'
  BY <1>1, <1>5, <1>8, <1>15 DEF TypeInv, SendInv
<1>17. ReceiveInv'
  BY <1>14, <1>15 DEF ReceiveInv
<1>18. LocalityInv' /\ CalmInv'
  BY <1>1, <1>5, <1>15 DEF LocalityInv, CalmInv
<1>19. QED
  BY <1>5, <1>16, <1>17, <1>18

LEMMA RecvFailsKeeps ==
  ASSUME IInv, RecvDataFails
  PROVE  IInv'
<1> USE DEF IInv
<1>1. /\ pc = "recv_data" /\ pc' = "abort" /\ faulted'
      /\ UNCHANGED <<executed, answers, initialized, closed, sizes, sent, recvbuf, ret>>
  BY DEF RecvDataFails, Sends, Goto, Fault, work, driver
<1>2. PICK n \in 0 .. RecvLimit : Popped(n)
  BY DEF RecvDataFails
<1>3. n \in 0 .. Len(out)
  BY <1>1, <1>2, Limit
<1>4. /\ UNCHANGED <<active, state, fifo>> /\ out' \in Seq(Byte)
      /\ ChipInv' /\ WorkInv' /\ Call' = Call
  BY <1>1, <1>2, <1>3, Popping
<1>5. TypeInv' /\ SendInv' /\ ReceiveInv'
  BY <1>1, <1>4 DEF TypeInv, SendInv, ReceiveInv
<1>6. LocalityInv' /\ CalmInv'
  BY <1>1, <1>4 DEF LocalityInv, CalmInv
<1>7. QED
  BY <1>4, <1>5, <1>6

(* The chip carries out what it has, at any moment.                           *)
LEMMA ExecuteKeeps ==
  ASSUME IInv, Execute
  PROVE  IInv'
<1> USE DEF IInv
<1>1. PICK n \in ResponseSizes :
        /\ answers' = Append(answers, n)
        /\ out' = [j \in 1 .. n |-> <<Len(executed'), j>>]
  BY DEF Execute
<1>2. /\ state = "execution" /\ state' = "completion" /\ fifo' = <<>>
      /\ executed' = Append(executed, fifo)
      /\ UNCHANGED <<active, initialized, closed, sizes, sent, recvbuf, ret, pc, faulted>>
  BY DEF Execute, driver
<1>3. PICK c \in 1 .. Call : c = fifo[1][1] /\ fifo = Command(c)
  BY <1>2 DEF ChipInv
<1>4. /\ executed \in Seq(Seq(Byte)) /\ answers \in Seq(ResponseSizes) /\ fifo \in Seq(Byte)
      /\ Last \in Nat /\ Len(answers) = Last /\ n \in Nat /\ n > 0
  BY Constants DEF TypeInv, Last
<1>5. /\ executed' \in Seq(Seq(Byte)) /\ answers' \in Seq(ResponseSizes)
      /\ Last' = Last + 1 /\ Len(answers') = Last + 1 /\ Len(executed') = Last + 1
      /\ executed'[Last + 1] = fifo /\ answers'[Last + 1] = n
      /\ \A e \in 1 .. Last : executed'[e] = executed[e] /\ answers'[e] = answers[e]
  BY <1>1, <1>2, <1>4 DEF Last
<1>6. /\ out' \in Seq(Byte) /\ Len(out') = n
      /\ \A j \in 1 .. n : out'[j] = <<Last + 1, j>>
  <2>1. out' = [j \in 1 .. n |-> <<Last + 1, j>>]
    BY <1>1, <1>5
  <2>2. \A j \in 1 .. n : <<Last + 1, j>> \in Byte
    BY <1>4 DEF Byte
  <2>3. QED
    BY <1>4, <2>1, <2>2
<1>7. /\ Call' = Call /\ Size' = Size /\ \A k : Command(k)' = Command(k)
  BY <1>2 DEF Call, Size, Command
<1>8. /\ \A e \in 1 .. Last : Caller(e)' = Caller(e) /\ Caller(e) < c
      /\ \A e : Caller(e)' = executed'[e][1][1]
      /\ executed'[Last + 1][1][1] = c
  <2>1. \A e : Caller(e)' = executed'[e][1][1]
    BY DEF Caller
  <2>2. \A e \in 1 .. Last : Caller(e)' = Caller(e)
    BY <1>5, <2>1 DEF Caller
  <2>3. \A e \in 1 .. Last : Caller(e) < c
    BY <1>2, <1>3 DEF WorkInv
  <2>4. QED
    BY <1>3, <1>5, <2>1, <2>2, <2>3
<1>9. TypeInv'
  BY <1>2, <1>4, <1>5, <1>6, <1>7 DEF TypeInv, Last
<1>10. ChipInv'
  BY <1>2 DEF ChipInv
<1>11. WorkInv'
  <2>1. \A e \in 1 .. Last + 1 : e \in 1 .. Last \/ e = Last + 1
    BY <1>4
  <2>2. ASSUME NEW e \in 1 .. Last + 1
        PROVE  Caller(e)' \in 1 .. Call /\ executed'[e] = Command(Caller(e)')
    <3>1. CASE e \in 1 .. Last
      <4>1. Caller(e) \in 1 .. Call /\ executed[e] = Command(Caller(e))
        BY <3>1 DEF WorkInv
      <4>2. Caller(e)' = Caller(e) /\ executed'[e] = executed[e]
        BY <1>5, <1>8, <3>1
      <4>3. QED
        BY <4>1, <4>2
    <3>2. CASE e = Last + 1
      <4>1. Caller(e)' = c /\ executed'[e] = fifo
        BY <1>5, <1>8, <3>2
      <4>2. QED
        BY <1>3, <4>1
    <3>3. QED
      BY <2>1, <3>1, <3>2
  <2>3. ASSUME NEW e \in 1 .. Last + 1, NEW f \in 1 .. Last + 1, e < f
        PROVE  Caller(e)' < Caller(f)'
    <3>1. e \in 1 .. Last
      BY <1>4, <2>3
    <3>2. CASE f \in 1 .. Last
      <4>1. Caller(e) < Caller(f)
        BY <2>3, <3>1, <3>2 DEF WorkInv
      <4>2. QED
        BY <1>8, <3>1, <3>2, <4>1
    <3>3. CASE f = Last + 1
      <4>1. Caller(f)' = c /\ Caller(e)' = Caller(e) /\ Caller(e) < c
        BY <1>8, <3>1, <3>3
      <4>2. QED
        BY <4>1
    <3>4. QED
      BY <2>1, <3>2, <3>3
  <2>4. \A k : Command(k)' = Command(k)
    BY <1>7
  <2>5. \A e \in 1 .. Last' : Caller(e)' \in 1 .. Call' /\ executed'[e] = Command(Caller(e))'
    <3> TAKE e \in 1 .. Last'
    <3>1. e \in 1 .. Last + 1
      BY <1>5
    <3>2. Caller(e)' \in 1 .. Call /\ executed'[e] = Command(Caller(e)')
      BY <2>2, <3>1
    <3>3. Command(Caller(e))' = Command(Caller(e)')
      BY <1>2 DEF Command
    <3>4. QED
      BY <1>7, <3>2, <3>3
  <2>6. \A e, f \in 1 .. Last' : e < f => Caller(e)' < Caller(f)'
    BY <1>5, <2>3
  <2>7. QED
    BY <1>2, <2>5, <2>6 DEF WorkInv
<1>12. SendInv'
  BY <1>2 DEF SendInv
<1>13. NotYet => NotYet'
  <2>1. SUFFICES ASSUME NotYet PROVE NotYet'
    OBVIOUS
  <2>2. c < Call
    BY <1>2, <1>3, <2>1 DEF NotYet
  <2>3. ASSUME NEW e \in 1 .. Last'
        PROVE  Caller(e)' < Call'
    <3>1. e \in 1 .. Last \/ e = Last + 1
      BY <1>4, <1>5
    <3>2. e \in 1 .. Last => Caller(e)' < Call
      BY <1>8, <2>1 DEF NotYet
    <3>3. e = Last + 1 => Caller(e)' < Call
      BY <1>8, <2>2
    <3>4. QED
      BY <1>7, <3>1, <3>2, <3>3
  <2>4. QED
    BY <1>2, <2>3 DEF NotYet
<1>14. Begun /\ recvbuf = <<>> => Answered'
  <2>1. SUFFICES ASSUME c = Call, recvbuf = <<>> PROVE Answered'
    BY <1>3 DEF Begun
  <2>2. Len(recvbuf') = 0
    BY <1>2, <2>1
  <2>3. Last' > 0 /\ Caller(Last)' = Call'
    BY <1>4, <1>5, <1>7, <1>8, <2>1 DEF Caller
  <2>4. Len(recvbuf') + Len(out') = answers'[Last']
    BY <1>4, <1>5, <1>6, <2>2
  <2>5. \A j \in 1 .. Len(out') : out'[j] = <<Last', Len(recvbuf') + j>>
    BY <1>4, <1>5, <1>6, <2>2
  <2>6. \A j \in 1 .. Len(recvbuf') : recvbuf'[j] = <<Last', j>>
    BY <2>2
  <2>7. QED
    BY <1>2, <2>3, <2>4, <2>5, <2>6 DEF Answered
<1>15. ReceiveInv'
  <2>1. ~Answered
    BY <1>2 DEF Answered
  <2>2. pc \notin Receiving /\ ~(pc = "go" /\ state = "reception")
    BY <1>2, <2>1 DEF ReceiveInv
  <2>3. pc \in Opening \cup Readying => NotYet'
    BY <1>13 DEF ReceiveInv
  <2>4. pc \in Gone => Answered'
    BY <1>2, <1>14, <2>1 DEF ReceiveInv
  <2>5. ASSUME pc \in Outside, ret = "ok", Call > 0, NEW e, e = recvbuf[1][1]
        PROVE  /\ e \in 1 .. Last' /\ executed'[e] = Command(Call)'
               /\ recvbuf' = [j \in 1 .. answers'[e] |-> <<e, j>>]
    <3>1. /\ e \in 1 .. Last /\ executed[e] = Command(Call)
          /\ recvbuf = [j \in 1 .. answers[e] |-> <<e, j>>]
      BY <2>5 DEF ReceiveInv
    <3>2. e \in 1 .. Last' /\ executed'[e] = executed[e] /\ answers'[e] = answers[e]
      BY <1>4, <1>5, <3>1
    <3>3. Command(Call)' = Command(Call)
      BY <1>2, <1>7 DEF Command
    <3>4. QED
      BY <1>2, <3>1, <3>2, <3>3
  <2>6. pc' = pc /\ recvbuf' = recvbuf /\ ret' = ret /\ Call' = Call
    BY <1>2, <1>7
  <2>7. /\ pc' \in Opening \cup Readying \cup Sending \cup {"send_final"} \cup Gone
             => recvbuf' = <<>>
        /\ pc' \in Opening \cup Readying => NotYet'
        /\ pc' = "go" => Answered'
        /\ pc' = "wait" => Answered'
        /\ pc' \notin Receiving
    BY <2>2, <2>3, <2>4, <2>6 DEF ReceiveInv
  <2>8. pc' \in Outside /\ ret' = "ok" /\ Call' > 0 =>
          /\ recvbuf'[1][1] \in 1 .. Last' /\ executed'[recvbuf'[1][1]] = Command(Call)'
          /\ recvbuf' = [j \in 1 .. answers'[recvbuf'[1][1]] |-> <<recvbuf'[1][1], j>>]
    BY <2>5, <2>6
  <2>9. QED
    BY <2>7, <2>8 DEF ReceiveInv
<1>16. LocalityInv' /\ CalmInv'
  <2>1. pc \notin Sending /\ ~TooLarge
    BY <1>2 DEF SendInv, TooLarge
  <2>2. LocalityInv'
    BY <1>2 DEF LocalityInv
  <2>3. CalmInv'
    BY <1>2, <1>7, <2>1 DEF CalmInv
  <2>4. QED
    BY <2>2, <2>3
<1>17. QED
  BY <1>9, <1>10, <1>11, <1>12, <1>15, <1>16

--------------------------------------------------------------------------------
LEMMA IInvInit == Init => IInv
<1> SUFFICES ASSUME Init PROVE IInv
  OBVIOUS
<1>1. /\ Call = 0 /\ Last = 0 /\ pc = "idle" /\ state = "idle"
      /\ 1 .. Last = {}
  BY DEF Init, Call, Last
<1>2. TypeInv
  BY <1>1 DEF Init, TypeInv, Call
<1>3. ChipInv /\ WorkInv
  BY <1>1 DEF Init, ChipInv, WorkInv
<1>4. SendInv /\ ReceiveInv
  BY <1>1 DEF Init, SendInv, ReceiveInv
<1>5. LocalityInv /\ CalmInv
  BY <1>1 DEF Init, LocalityInv, CalmInv
<1>6. QED
  BY <1>2, <1>3, <1>4, <1>5 DEF IInv

LEMMA IInvStep == IInv /\ [Next]_vars => IInv'
<1> SUFFICES ASSUME IInv, [Next]_vars PROVE IInv'
  OBVIOUS
<1>1. CASE Start
  BY <1>1, LookKeeps, SetupKeeps, XmitKeeps, LocalityKeeps DEF Start, Looks
<1>2. CASE Send
  BY <1>2, LookKeeps, ReadyKeeps, SendDataKeeps, GoKeeps DEF Send, Looks
<1>3. CASE Recv
  BY <1>3, LookKeeps, ReturnKeeps, ReadyKeeps, RecvKeeps, RecvFailsKeeps DEF Recv, Looks
<1>4. CASE Execute
  BY <1>4, ExecuteKeeps
<1>5. CASE UNCHANGED vars
  <2>1. /\ UNCHANGED <<active, state, fifo, out, executed, answers, initialized, closed, sizes,
                       sent, recvbuf, ret, pc, faulted>>
        /\ ChipInv' /\ WorkInv' /\ (NotYet' <=> NotYet) /\ (Begun' <=> Begun)
        /\ Call' = Call /\ Size' = Size /\ Last' = Last
        /\ (Answered' <=> Answered) /\ (TooLarge' <=> TooLarge)
        /\ \A n : Holds(n)' <=> Holds(n)
    BY <1>5, Unmoved, AnsweredStays DEF vars, chip, work, driver
  <2>2. NextSent' = NextSent /\ (Ahead' <=> Ahead) /\ Command(Call)' = Command(Call)
    BY <2>1 DEF NextSent, Ahead, Command
  <2>3. TypeInv' /\ LocalityInv' /\ CalmInv'
    BY <2>1 DEF IInv, TypeInv, LocalityInv, CalmInv
  <2>4. SendInv' /\ ReceiveInv'
    BY <2>1, <2>2 DEF IInv, SendInv, ReceiveInv
  <2>5. QED
    BY <2>1, <2>3, <2>4 DEF IInv
<1>6. QED
  BY <1>1, <1>2, <1>3, <1>4, <1>5 DEF Next

LEMMA Invariant == Spec => []IInv
<1>1. Init => IInv
  BY IInvInit
<1>2. IInv /\ [Next]_vars => IInv'
  BY IInvStep
<1>3. QED
  BY <1>1, <1>2, PTL DEF Spec

--------------------------------------------------------------------------------
(* Whatever transfer fails, before or after the chip has taken the bytes, is  *)
(* tried again or is given up, the chip carries out the whole command of a    *)
(* call, as i2ctpm_xmit was given it, and the command of no call twice.       *)
THEOREM WholeCommandsOnce == Spec => []ExecutesWhatWasSent
<1>1. IInv => ExecutesWhatWasSent
  <2> SUFFICES ASSUME IInv PROVE ExecutesWhatWasSent
    OBVIOUS
  <2>1. DOMAIN executed = 1 .. Last /\ DOMAIN sizes = 1 .. Call /\ Last \in Nat
    BY DEF IInv, TypeInv, Last, Call
  <2>2. \A e \in 1 .. Last : Caller(e) \in 1 .. Call /\ executed[e] = Command(Caller(e))
    BY DEF IInv, WorkInv
  <2>3. \A e, f \in 1 .. Last : e < f => Caller(e) < Caller(f)
    BY DEF IInv, WorkInv
  <2>4. ASSUME NEW e \in 1 .. Last, NEW f \in 1 .. Last, executed[e] = executed[f]
        PROVE  e = f
    <3>1. Caller(e) = Caller(f) /\ Caller(e) \in Int
      BY <2>2, <2>4 DEF Caller, Call
    <3>2. ~(e < f) /\ ~(f < e)
      BY <2>3, <3>1
    <3>3. QED
      BY <2>1, <3>2
  <2>5. QED
    BY <2>1, <2>2, <2>4 DEF ExecutesWhatWasSent
<1>2. QED
  BY Invariant, <1>1, PTL

(* What i2ctpm_xmit returns as a response is the whole answer of the chip to  *)
(* the command of the same call, byte by byte: nothing of an answer to an     *)
(* earlier command that was left in the FIFO, and no part of it twice.        *)
THEOREM AnswersAreTheirs == Spec => []AnswerIsTheCommands
<1>1. IInv => AnswerIsTheCommands
  BY DEF IInv, ReceiveInv, AnswerIsTheCommands
<1>2. QED
  BY Invariant, <1>1, PTL

(* A call of i2ctpm_xmit that no fault hits succeeds unless the driver has    *)
(* been cleaned up or the response is larger than the caller's buffer: no     *)
(* state of the chip in which calls that were broken off leave it makes the   *)
(* next one fail, because cr50_i2c_tpm_send makes the chip ready out of any.  *)
THEOREM NextCallSucceeds == Spec => []RecoversAtOnce
<1>1. IInv => RecoversAtOnce
  BY DEF IInv, CalmInv, TooLarge, RecoversAtOnce
<1>2. QED
  BY Invariant, <1>1, PTL

--------------------------------------------------------------------------------
(* BootHandoff.                                                              *)
Funcs == {"commit", "powerbtn", "tpm", "finalize"}
Kinds == {[type |-> "reboot", exit |-> "reset"], [type |-> "reboot", exit |-> "ec"],
          [type |-> "poweroff", exit |-> "off"], [type |-> "legacy", exit |-> "payload"],
          [type |-> "handoff", exit |-> "entry"], [type |-> "handoff", exit |-> "kernel"]}
Kind(pass) == [type |-> pass.type, exit |-> pass.exit]
Passes == {pass \in [type : CleanupTypes, rest : Seq(Funcs), exit : Exits] : Kind(pass) \in Kinds}
Hands(pass) == pass.type \in {"handoff", "legacy"}

Setup == {"start", "fwmp", "register"}
Committing == {"commit_kernel", "commit_firmware", "commit_nvdata", "committed"}
Alone == Setup \cup {"vboot", "boot", "entry", "alternative", "ec", "payload"}

Commits(list) == \E i \in 1 .. Len(list) : list[i] = "commit"
Saved == recovery \/ "nvdata" \notin dirty

ListInv ==
  /\ cleanup_funcs \in Seq(Funcs)
  /\ step \notin Setup => Commits(cleanup_funcs)

\* Passes nest only where a commit or a lock has failed.
NestInv ==
  /\ passes \in Seq(Passes) /\ Len(passes) <= 2
  /\ Len(passes) = 2 => Kind(Pass) = [type |-> "reboot", exit |-> "reset"]
  /\ step \in Alone => passes = <<>>
  /\ step \in {"cleanup", "lock"} => passes # <<>>
  /\ step = "lock" => Hands(Pass) /\ caller = "cleanup"
  /\ step \in Committing =>
       /\ caller = "vboot" <=> passes = <<>>
       /\ caller = "lockfail" => Hands(Pass)
  /\ step \in Committing \cup {"lock"} /\ passes # <<>> =>
       Pass.rest # <<>> /\ Pass.rest[1] = "commit"

DataInv ==
  /\ dirty = changed /\ dirty \subseteq Items
  /\ secdata_kernel_locked = tpm_locked /\ tpm_locked \in BOOLEAN
  /\ commit_rv \in {"success", "error"} /\ caller \in {"vboot", "cleanup", "lockfail"}

\* How far a commit has come.
CommitInv ==
  /\ ~recovery /\ commit_rv = "success" =>
       /\ step \in {"commit_firmware", "commit_nvdata"} => "kernel" \notin dirty
       /\ step = "commit_nvdata" => "firmware" \notin dirty
       /\ step = "committed" => dirty = {}
  /\ step = "committed" => Saved
  /\ step = "lock" => dirty = {} /\ ~recovery

\* A pass has its commit before it, or behind it and nothing has changed since.
PassInv ==
  /\ step = "cleanup" /\ ~Commits(Pass.rest) =>
       Saved /\ (Hands(Pass) => CommittedAndLocked)
  /\ step \in {"kernel", "payload", "entry"} => CommittedAndLocked
  /\ step \in {"kernel", "payload", "reset", "off", "ec"} => Saved

\* The commit comes before the function of the TPM.
Early(list) ==
  \E i \in 1 .. Len(list) : list[i] = "commit" /\ \A j \in 1 .. i : list[j] # "tpm"
EarlyInv ==
  /\ step \in Setup => tpm \in {"unused", "open"} /\ ~tpm_early /\ caller = "vboot"
  /\ step = "vboot" /\ tpm_early => caller = "vboot"
  /\ tpm_early /\ caller = "vboot" =>
       /\ tpm \in {"open", "disabled"} /\ Early(cleanup_funcs)
       /\ step = "cleanup" => Early(Pass.rest)

HandoffInv == ListInv /\ NestInv /\ DataInv /\ CommitInv /\ PassInv /\ EarlyInv

USE DEF Setup, Committing, Alone

--------------------------------------------------------------------------------
(* The list of functions only grows, at its front.                            *)
LEMMA Registered ==
  ASSUME cleanup_funcs \in Seq(Funcs), NEW f \in Funcs, Register(f)
  PROVE  /\ cleanup_funcs' \in Seq(Funcs)
         /\ Commits(cleanup_funcs) => Commits(cleanup_funcs')
         /\ f = "commit" => Commits(cleanup_funcs') /\ Early(cleanup_funcs')
<1>1. cleanup_funcs' = <<f>> \o cleanup_funcs /\ <<f>> \in Seq(Funcs) /\ Len(<<f>>) = 1
  BY DEF Register
<1>2. /\ cleanup_funcs' \in Seq(Funcs) /\ Len(cleanup_funcs') = Len(cleanup_funcs) + 1
      /\ cleanup_funcs'[1] = f
      /\ \A i \in 1 .. Len(cleanup_funcs) : cleanup_funcs'[i + 1] = cleanup_funcs[i]
  BY <1>1
<1>3. Commits(cleanup_funcs) => Commits(cleanup_funcs')
  <2>1. SUFFICES ASSUME NEW i \in 1 .. Len(cleanup_funcs), cleanup_funcs[i] = "commit"
                 PROVE  Commits(cleanup_funcs')
    BY DEF Commits
  <2>2. i + 1 \in 1 .. Len(cleanup_funcs') /\ cleanup_funcs'[i + 1] = "commit"
    BY <1>2, <2>1
  <2>3. QED
    BY <2>2 DEF Commits
<1>4. 1 \in 1 .. Len(cleanup_funcs')
  BY <1>2
<1>5. f = "commit" => Commits(cleanup_funcs') /\ Early(cleanup_funcs')
  BY <1>2, <1>4 DEF Commits, Early
<1>6. QED
  BY <1>2, <1>3, <1>5

(* A command to the TPM may open it, and registers its function then.         *)
LEMMA Talks ==
  ASSUME ListInv, TpmAnswers \/ TpmRefuses
  PROVE  /\ cleanup_funcs' \in Seq(Funcs)
         /\ Commits(cleanup_funcs) => Commits(cleanup_funcs')
         /\ tpm' \in {tpm, "open"}
         /\ tpm \in {"open", "disabled"} => UNCHANGED <<tpm, cleanup_funcs>>
BY Registered DEF ListInv, TpmAnswers, TpmRefuses, Funcs

LEMMA Depth ==
  ASSUME NestInv
  PROVE  /\ passes \in Seq(Passes) /\ Len(passes) \in {0, 1, 2}
         /\ passes = <<>> <=> Len(passes) = 0
         /\ passes # <<>> /\ Pass.type # "reboot" => Len(passes) = 1
<1>1. passes \in Seq(Passes) /\ Len(passes) <= 2
  BY DEF NestInv
<1>2. PICK n \in Nat : n = Len(passes)
  BY <1>1
<1>3. n = 0 \/ n = 1 \/ n = 2
  BY <1>1, <1>2
<1>4. passes = <<>> <=> Len(passes) = 0
  BY <1>1
<1>5. Len(passes) = 2 => Pass.type = "reboot"
  BY DEF NestInv, Kind
<1>6. QED
  BY <1>1, <1>2, <1>3, <1>4, <1>5

LEMMA Pushed ==
  ASSUME ListInv, NestInv, NEW type, NEW exit, [type |-> type, exit |-> exit] \in Kinds,
         RunCleanup(type, exit)
  PROVE  /\ step' = "cleanup" /\ passes' \in Seq(Passes) /\ Len(passes') = Len(passes) + 1
         /\ passes' # <<>> /\ Pass'.rest = cleanup_funcs
         /\ Kind(Pass') = [type |-> type, exit |-> exit]
<1> DEFINE new == [type |-> type, rest |-> cleanup_funcs, exit |-> exit]
<1>1. new \in Passes
  BY DEF Passes, Kinds, Kind, CleanupTypes, Exits, ListInv
<1>2. passes' = <<new>> \o passes /\ step' = "cleanup"
  BY DEF RunCleanup
<1> HIDE DEF new
<1>3. passes' \in Seq(Passes) /\ Len(passes') = Len(passes) + 1 /\ passes'[1] = new
  BY <1>1, <1>2 DEF NestInv
<1>4. passes' # <<>>
  BY <1>3 DEF NestInv
<1>5. QED
  BY <1>2, <1>3, <1>4 DEF new, Pass, Kind

LEMMA Left ==
  ASSUME ListInv, NestInv, passes # <<>>, Pass.rest # <<>>, Leave
  PROVE  /\ passes' \in Seq(Passes) /\ Len(passes') = Len(passes) /\ passes' # <<>>
         /\ Pass'.rest = Tail(Pass.rest) /\ Pass.rest \in Seq(Funcs)
         /\ Pass'.type = Pass.type /\ Kind(Pass') = Kind(Pass)
<1>1. passes \in Seq(Passes) /\ Len(passes) > 0
  BY DEF NestInv
<1>2. Pass \in Passes
  BY <1>1 DEF Pass
<1> DEFINE new == [Pass EXCEPT !.rest = Tail(Pass.rest)]
<1>3. /\ Pass.rest \in Seq(Funcs) /\ Tail(Pass.rest) \in Seq(Funcs)
  BY <1>2 DEF Passes
<1>4. new = [type |-> Pass.type, rest |-> Tail(Pass.rest), exit |-> Pass.exit]
  <2>1. PICK pass \in [type : CleanupTypes, rest : Seq(Funcs), exit : Exits] : pass = Pass
    BY <1>2 DEF Passes
  <2>2. ASSUME NEW rest
        PROVE  [pass EXCEPT !.rest = rest] = [type |-> pass.type, rest |-> rest, exit |-> pass.exit]
    OBVIOUS
  <2>3. QED
    BY <2>1, <2>2
<1>5. new \in Passes
  BY <1>2, <1>3, <1>4 DEF Passes, Kind
<1>6. passes' = <<new>> \o Tail(passes)
  BY DEF Leave
<1>7. new.rest = Tail(Pass.rest) /\ new.type = Pass.type /\ Kind(new) = Kind(Pass)
  BY <1>4 DEF Kind
<1> HIDE DEF new
<1>8. Tail(passes) \in Seq(Passes) /\ Len(Tail(passes)) = Len(passes) - 1
  BY <1>1
<1>9. passes' \in Seq(Passes) /\ Len(passes') = Len(passes) /\ passes'[1] = new
  BY <1>1, <1>5, <1>6, <1>8
<1>10. QED
  BY <1>1, <1>3, <1>7, <1>9 DEF Pass

(* What is left of a list without its first function.                         *)
LEMMA Shorter ==
  ASSUME NEW list \in Seq(Funcs), list # <<>>, list[1] # "commit"
  PROVE  /\ Commits(list) => Commits(Tail(list))
         /\ Early(list) => list[1] # "tpm" /\ Early(Tail(list))
<1>1. /\ Tail(list) \in Seq(Funcs) /\ Len(list) \in Nat /\ Len(list) > 0
      /\ Len(Tail(list)) = Len(list) - 1
      /\ \A i \in 1 .. Len(list) - 1 : Tail(list)[i] = list[i + 1]
  OBVIOUS
<1>2. ASSUME NEW i \in 1 .. Len(list), list[i] = "commit"
      PROVE  i - 1 \in 1 .. Len(Tail(list)) /\ Tail(list)[i - 1] = "commit"
  <2>1. i # 1
    BY <1>2
  <2>2. i - 1 \in 1 .. Len(list) - 1 /\ (i - 1) + 1 = i
    BY <1>1, <2>1
  <2>3. QED
    BY <1>1, <1>2, <2>2
<1>3. Commits(list) => Commits(Tail(list))
  BY <1>2 DEF Commits
<1>4. ASSUME NEW i \in 1 .. Len(list), list[i] = "commit", \A j \in 1 .. i : list[j] # "tpm"
      PROVE  list[1] # "tpm" /\ Early(Tail(list))
  <2>1. i - 1 \in 1 .. Len(Tail(list)) /\ Tail(list)[i - 1] = "commit"
    BY <1>2, <1>4
  <2>2. \A j \in 1 .. i - 1 : j + 1 \in 1 .. i /\ j \in 1 .. Len(list) - 1
    BY <1>1
  <2>3. \A j \in 1 .. i - 1 : Tail(list)[j] # "tpm"
    BY <1>1, <1>4, <2>2
  <2>4. 1 \in 1 .. i
    BY <1>1
  <2>5. QED
    BY <1>4, <2>1, <2>3, <2>4 DEF Early
<1>5. QED
  BY <1>3, <1>4 DEF Early

--------------------------------------------------------------------------------
(* Steps that change nothing but where the firmware is.                       *)
Moves == VbSucceeds \/ BootReturns \/ StartKernel \/ BootGivesUp \/ BootLegacyKernel
         \/ BootFails \/ EcResets

LEMMA MovesKeep ==
  ASSUME HandoffInv, Moves
  PROVE  HandoffInv'
<1> USE DEF HandoffInv
<1>1. /\ UNCHANGED <<recovery, changed, dirty, commit_rv, caller, tpm, tpm_locked,
                     secdata_kernel_locked, cleanup_funcs, passes, tpm_early>>
      /\ step \in {"vboot", "boot", "entry", "alternative", "ec"}
      /\ step' \in {"boot", "halt", "kernel", "alternative", "legacy_kernel", "reset"}
      /\ step' = "kernel" => step = "entry"
      /\ step' = "reset" => step = "ec"
  BY DEF Moves, VbSucceeds, BootReturns, StartKernel, BootGivesUp, BootLegacyKernel, BootFails,
         EcResets, data, tpm_chip
<1>2. ListInv' /\ DataInv' /\ CommitInv' /\ EarlyInv'
  BY <1>1 DEF ListInv, DataInv, CommitInv, EarlyInv
<1>3. NestInv'
  BY <1>1 DEF NestInv, Pass
<1>4. PassInv'
  BY <1>1 DEF PassInv, Saved, CommittedAndLocked
<1>5. QED
  BY <1>2, <1>3, <1>4

LEMMA BackToVbootKeeps ==
  ASSUME HandoffInv, CommittedForVboot \/ PayloadReturn
  PROVE  HandoffInv'
<1> USE DEF HandoffInv
<1>1. /\ UNCHANGED <<recovery, changed, dirty, commit_rv, caller, tpm, tpm_locked,
                     secdata_kernel_locked, cleanup_funcs, passes>>
      /\ step' = "vboot" /\ step \in {"committed", "payload"}
      /\ step = "committed" => caller = "vboot" /\ tpm_early' = tpm_early
      /\ step = "payload" => ~tpm_early'
  BY DEF CommittedForVboot, PayloadReturn, data, tpm_chip
<1>2. ListInv' /\ DataInv' /\ CommitInv' /\ PassInv' /\ EarlyInv'
  BY <1>1 DEF ListInv, DataInv, CommitInv, PassInv, EarlyInv
<1>3. NestInv'
  BY <1>1 DEF NestInv, Pass
<1>4. QED
  BY <1>2, <1>3

LEMMA CommitBeginsKeeps ==
  ASSUME HandoffInv, VbCommit \/ CleanupCommit
  PROVE  HandoffInv'
<1> USE DEF HandoffInv
<1>1. /\ UNCHANGED <<recovery, changed, dirty, tpm, tpm_locked,
                     secdata_kernel_locked, cleanup_funcs, passes, tpm_early>>
      /\ step' = "commit_kernel" /\ commit_rv' = "success"
      /\ \/ step = "vboot" /\ caller' = "vboot"
         \/ step = "cleanup" /\ caller' = "cleanup" /\ Runs("commit")
  BY DEF VbCommit, CleanupCommit, Runs, data, tpm_chip
<1>2. ListInv' /\ DataInv' /\ CommitInv' /\ PassInv' /\ EarlyInv'
  BY <1>1 DEF ListInv, DataInv, CommitInv, PassInv, EarlyInv
<1>3. NestInv'
  BY <1>1 DEF NestInv, Pass, Runs
<1>4. QED
  BY <1>2, <1>3

LEMMA GoLockKeeps ==
  ASSUME HandoffInv, GoLock
  PROVE  HandoffInv'
<1> USE DEF HandoffInv
<1>1. /\ UNCHANGED <<recovery, changed, dirty, commit_rv, caller, tpm, tpm_locked,
                     secdata_kernel_locked, cleanup_funcs, passes, tpm_early>>
      /\ step = "committed" /\ step' = "lock" /\ caller = "cleanup" /\ commit_rv = "success"
      /\ ~recovery /\ Hands(Pass)
  BY DEF GoLock, NeedsLock, Hands, data, tpm_chip
<1>2. ListInv' /\ DataInv' /\ CommitInv' /\ PassInv' /\ EarlyInv'
  BY <1>1 DEF ListInv, DataInv, CommitInv, PassInv, EarlyInv
<1>3. NestInv'
  BY <1>1 DEF NestInv, Pass
<1>4. QED
  BY <1>2, <1>3

--------------------------------------------------------------------------------
(* Passes begin and end.                                                      *)
Enters == VbLegacy \/ VbReboot \/ VbShutdown \/ VbRebootEc \/ EcCommandReturns \/ BootKernel
          \/ BootMultiboot \/ CommitFailedReboots

LEMMA EntersKeep ==
  ASSUME HandoffInv, Enters
  PROVE  HandoffInv'
<1> USE DEF HandoffInv
<1>1. /\ UNCHANGED <<recovery, changed, dirty, commit_rv, caller, tpm, tpm_locked,
                     secdata_kernel_locked, cleanup_funcs, tpm_early>>
      /\ step \notin Setup
  BY DEF Enters, VbLegacy, VbReboot, VbShutdown, VbRebootEc, EcCommandReturns, BootKernel,
         BootMultiboot, CommitFailedReboots, data, tpm_chip
<1>2. PICK type, exit : /\ RunCleanup(type, exit) /\ [type |-> type, exit |-> exit] \in Kinds
                        /\ \/ passes = <<>>
                           \/ type = "reboot" /\ exit = "reset" /\ Len(passes) = 1
  <2>1. CASE CommitFailedReboots
    <3>1. Pass.type # "reboot" /\ passes # <<>> /\ RunCleanup("reboot", "reset")
      BY <2>1 DEF CommitFailedReboots, ColdReboot, NestInv, Hands
    <3>2. Len(passes) = 1
      BY <3>1, Depth
    <3>3. [type |-> "reboot", exit |-> "reset"] \in Kinds
      BY DEF Kinds
    <3>4. QED
      BY <3>1, <3>2, <3>3
  <2>2. CASE ~CommitFailedReboots
    <3>1. step \in Alone
      BY <2>2 DEF Enters, VbLegacy, VbReboot, VbShutdown, VbRebootEc, EcCommandReturns,
                  BootKernel, BootMultiboot
    <3>2. PICK pair \in Kinds : RunCleanup(pair.type, pair.exit)
      BY <2>2 DEF Enters, VbLegacy, VbReboot, VbShutdown, VbRebootEc, EcCommandReturns,
                  BootKernel, BootMultiboot, ColdReboot, PowerOff, Kinds
    <3>3. [type |-> pair.type, exit |-> pair.exit] \in Kinds
      BY <3>2 DEF Kinds
    <3>4. passes = <<>>
      BY <3>1 DEF NestInv
    <3>5. QED
      BY <3>2, <3>3, <3>4
  <2>3. QED
    BY <2>1, <2>2
<1>3. /\ step' = "cleanup" /\ passes' \in Seq(Passes) /\ Len(passes') = Len(passes) + 1
      /\ passes' # <<>> /\ Pass'.rest = cleanup_funcs
      /\ Kind(Pass') = [type |-> type, exit |-> exit]
  BY <1>2, Pushed
<1>4. ListInv' /\ DataInv' /\ CommitInv'
  BY <1>1, <1>3 DEF ListInv, DataInv, CommitInv
<1>5. NestInv'
  <2>1. Len(passes') <= 2 /\ (Len(passes') = 2 => type = "reboot" /\ exit = "reset")
    <3>1. PICK n \in {0, 1, 2} : n = Len(passes)
      BY Depth
    <3>2. /\ Len(passes') = n + 1
          /\ n = 0 \/ n = 1
          /\ n = 1 => type = "reboot" /\ exit = "reset"
      BY <1>2, <1>3, <3>1, Depth
    <3>3. QED
      BY <3>2
  <2>2. QED
    BY <1>3, <2>1 DEF NestInv
<1>6. PassInv' /\ EarlyInv'
  BY <1>1, <1>3 DEF PassInv, EarlyInv, ListInv
<1>7. QED
  BY <1>4, <1>5, <1>6

LEMMA DoneKeeps ==
  ASSUME HandoffInv, CleanupDone
  PROVE  HandoffInv'
<1> USE DEF HandoffInv
<1>1. /\ UNCHANGED <<recovery, changed, dirty, commit_rv, caller, tpm, tpm_locked,
                     secdata_kernel_locked, cleanup_funcs, tpm_early>>
      /\ step = "cleanup" /\ Pass.rest = <<>> /\ passes' = Tail(passes) /\ step' = Pass.exit
  BY DEF CleanupDone, data, tpm_chip
<1>2. passes \in Seq(Passes) /\ Len(passes) \in {1, 2} /\ passes # <<>>
  BY <1>1, Depth DEF NestInv
<1>3. Pass \in Passes
  BY <1>2 DEF Pass
<1>4. /\ passes' \in Seq(Passes) /\ Len(passes') = Len(passes) - 1
      /\ Len(passes) = 1 => passes' = <<>>
  BY <1>1, <1>2
<1>5. /\ Len(passes) = 2 => step' = "reset"
      /\ step' \in {"reset", "ec", "off", "payload", "entry", "kernel"}
      /\ step' \in {"payload", "entry", "kernel"} => Hands(Pass)
  BY <1>1, <1>3 DEF NestInv, Passes, Kinds, Kind, Hands
<1>6. ~Commits(Pass.rest)
  BY <1>1 DEF Commits
<1>7. ListInv' /\ DataInv' /\ CommitInv' /\ EarlyInv'
  BY <1>1, <1>5 DEF ListInv, DataInv, CommitInv, EarlyInv
<1>8. NestInv'
  <2>1. Len(passes') \in {0, 1}
    <3>1. PICK n \in {1, 2} : n = Len(passes)
      BY <1>2
    <3>2. QED
      BY <1>4, <3>1
  <2>2. step' # "reset" => passes' = <<>>
    BY <1>2, <1>4, <1>5
  <2>3. step' \notin Committing \cup {"cleanup", "lock"}
    BY <1>5
  <2>4. Len(passes') <= 2 /\ Len(passes') # 2
    <3>1. PICK m \in {0, 1} : m = Len(passes')
      BY <2>1
    <3>2. m <= 2 /\ m # 2
      OBVIOUS
    <3>3. QED
      BY <3>1, <3>2
  <2>5. passes' \in Seq(Passes)
    BY <1>4
  <2>6. step' \in Alone => passes' = <<>>
    BY <2>2
  <2>7. step' \notin {"cleanup", "lock"} /\ step' # "lock" /\ step' \notin Committing
    BY <2>3
  <2>8. QED
    <3> HIDE DEF Setup, Committing, Alone
    <3>1. QED
      BY <2>3, <2>4, <2>5, <2>6, <2>7 DEF NestInv
<1>9. PassInv'
  BY <1>1, <1>5, <1>6 DEF PassInv, Saved, CommittedAndLocked
<1>10. QED
  BY <1>7, <1>8, <1>9

(* A cleanup function returns, and the next one is up.                        *)
LEMMA CleansKeep ==
  ASSUME HandoffInv, CleanupPowerButton \/ CleanupTpm \/ CleanupOther
  PROVE  HandoffInv'
<1> USE DEF HandoffInv
<1>1. /\ UNCHANGED <<step, recovery, changed, dirty, commit_rv, caller, tpm_locked,
                     secdata_kernel_locked, cleanup_funcs, tpm_early>>
      /\ Leave /\ step = "cleanup" /\ Pass.rest # <<>> /\ Pass.rest[1] # "commit"
      /\ tpm' = tpm \/ Pass.rest[1] = "tpm"
  BY DEF CleanupPowerButton, CleanupTpm, CleanupOther, Runs, data, tpm_chip
<1>2. /\ passes' \in Seq(Passes) /\ Len(passes') = Len(passes) /\ passes' # <<>>
      /\ Pass'.rest = Tail(Pass.rest) /\ Pass.rest \in Seq(Funcs)
      /\ Pass'.type = Pass.type /\ Kind(Pass') = Kind(Pass)
  BY <1>1, Left DEF NestInv
<1>3. /\ Commits(Pass.rest) => Commits(Tail(Pass.rest))
      /\ Early(Pass.rest) => Pass.rest[1] # "tpm" /\ Early(Tail(Pass.rest))
  BY <1>1, <1>2, Shorter
<1>4. ListInv' /\ DataInv' /\ CommitInv'
  BY <1>1 DEF ListInv, DataInv, CommitInv
<1>5. NestInv'
  BY <1>1, <1>2 DEF NestInv
<1>6. PassInv'
  BY <1>1, <1>2, <1>3 DEF PassInv, Saved, CommittedAndLocked, Hands
<1>7. EarlyInv'
  BY <1>1, <1>2, <1>3 DEF EarlyInv
<1>8. QED
  BY <1>4, <1>5, <1>6, <1>7

LEMMA CommitReturnsKeeps ==
  ASSUME HandoffInv, CommitCleanupReturns
  PROVE  HandoffInv'
<1> USE DEF HandoffInv
<1>1. /\ UNCHANGED <<recovery, changed, dirty, commit_rv, caller, tpm, tpm_locked,
                     secdata_kernel_locked, cleanup_funcs, tpm_early>>
      /\ Leave /\ step = "committed" /\ step' = "cleanup" /\ caller = "cleanup"
      /\ Hands(Pass) => recovery
  BY DEF CommitCleanupReturns, NeedsLock, DataInv, Hands, data, tpm_chip
<1>2. passes # <<>> /\ Pass.rest # <<>>
  BY <1>1 DEF NestInv
<1>3. /\ passes' \in Seq(Passes) /\ Len(passes') = Len(passes) /\ passes' # <<>>
      /\ Pass'.rest = Tail(Pass.rest)
      /\ Pass'.type = Pass.type /\ Kind(Pass') = Kind(Pass)
  BY <1>1, <1>2, Left
<1>4. ListInv' /\ DataInv' /\ CommitInv' /\ EarlyInv'
  BY <1>1 DEF ListInv, DataInv, CommitInv, EarlyInv
<1>5. NestInv'
  BY <1>1, <1>3 DEF NestInv
<1>6. PassInv'
  BY <1>1, <1>3 DEF PassInv, CommitInv, Saved, CommittedAndLocked, Hands
<1>7. QED
  BY <1>4, <1>5, <1>6

LEMMA LockKeeps ==
  ASSUME HandoffInv, LockKernel
  PROVE  HandoffInv'
<1> USE DEF HandoffInv
<1>1. /\ UNCHANGED <<recovery, changed, dirty, commit_rv, caller, tpm_early>>
      /\ Leave /\ step = "lock" /\ step' = "cleanup"
      /\ Lock \/ (secdata_kernel_locked /\ UNCHANGED <<tpm_chip, cleanup_funcs>>)
  BY DEF LockKernel, data
<1>2. /\ tpm_locked' = TRUE /\ secdata_kernel_locked' = TRUE
      /\ cleanup_funcs' \in Seq(Funcs)
      /\ Commits(cleanup_funcs) => Commits(cleanup_funcs')
  BY <1>1, Talks DEF Lock, tpm_chip, DataInv, ListInv
<1>3. passes # <<>> /\ Pass.rest # <<>> /\ caller = "cleanup"
  BY <1>1 DEF NestInv
<1>4. /\ passes' \in Seq(Passes) /\ Len(passes') = Len(passes) /\ passes' # <<>>
      /\ Pass'.rest = Tail(Pass.rest)
      /\ Pass'.type = Pass.type /\ Kind(Pass') = Kind(Pass)
  BY <1>1, <1>3, Left
<1>5. ListInv' /\ DataInv' /\ CommitInv' /\ EarlyInv'
  BY <1>1, <1>2, <1>3 DEF ListInv, DataInv, CommitInv, EarlyInv
<1>6. NestInv'
  BY <1>1, <1>4 DEF NestInv
<1>7. PassInv'
  BY <1>1, <1>2 DEF PassInv, CommitInv, Saved, CommittedAndLocked
<1>8. QED
  BY <1>5, <1>6, <1>7

--------------------------------------------------------------------------------
(* The commit.                                                                *)
LEMMA ChangeKeeps ==
  ASSUME HandoffInv, NEW item \in Items, VbChange(item)
  PROVE  HandoffInv'
<1> USE DEF HandoffInv
<1>1. /\ UNCHANGED <<step, recovery, commit_rv, caller, tpm, tpm_locked,
                     secdata_kernel_locked, cleanup_funcs, passes, tpm_early>>
      /\ changed' = changed \cup {item} /\ dirty' = dirty \cup {item} /\ step = "vboot"
  BY DEF VbChange, tpm_chip
<1>2. ListInv' /\ DataInv' /\ CommitInv' /\ PassInv' /\ EarlyInv'
  BY <1>1 DEF ListInv, DataInv, CommitInv, PassInv, EarlyInv
<1>3. NestInv'
  BY <1>1 DEF NestInv, Pass
<1>4. QED
  BY <1>2, <1>3

LEMMA SecdataKeeps ==
  ASSUME HandoffInv, CommitKernel \/ CommitFirmware
  PROVE  HandoffInv'
<1> USE DEF HandoffInv
<1> DEFINE item == IF step = "commit_kernel" THEN "kernel" ELSE "firmware"
<1>1. /\ UNCHANGED <<recovery, caller, tpm_locked, secdata_kernel_locked, passes, tpm_early>>
      /\ \/ step = "commit_kernel" /\ step' = "commit_firmware"
         \/ step = "commit_firmware" /\ step' = "commit_nvdata"
      /\ \/ item \notin changed /\ UNCHANGED <<changed, dirty, commit_rv, tpm, cleanup_funcs>>
         \/ TpmAnswers /\ Written(item) /\ commit_rv' = commit_rv
         \/ TpmRefuses /\ WriteFails
  BY DEF CommitKernel, CommitFirmware, data
<1>2. /\ cleanup_funcs' \in Seq(Funcs)
      /\ Commits(cleanup_funcs) => Commits(cleanup_funcs')
      /\ tpm \in {"open", "disabled"} => UNCHANGED <<tpm, cleanup_funcs>>
  BY <1>1, Talks DEF ListInv
<1>3. /\ dirty' = changed' /\ dirty' \subseteq Items
      /\ commit_rv' \in {"success", "error"}
      /\ ~recovery /\ commit_rv' = "success" =>
           commit_rv = "success" /\ dirty' \subseteq dirty /\ item \notin dirty'
  BY <1>1 DEF DataInv, Items, Written, WriteFails, NoteFailure, data
<1>4. ListInv' /\ DataInv' /\ EarlyInv'
  BY <1>1, <1>2, <1>3 DEF ListInv, DataInv, EarlyInv
<1>5. CommitInv'
  BY <1>1, <1>3 DEF CommitInv
<1>6. NestInv' /\ PassInv'
  BY <1>1 DEF NestInv, PassInv, Pass
<1>7. QED
  BY <1>4, <1>5, <1>6

LEMMA NvdataKeeps ==
  ASSUME HandoffInv, CommitNvdata \/ CommitNvdataFails
  PROVE  HandoffInv'
<1> USE DEF HandoffInv
<1>1. /\ UNCHANGED <<recovery, caller, tpm, tpm_locked, secdata_kernel_locked, cleanup_funcs,
                     passes, tpm_early>>
      /\ step = "commit_nvdata" /\ step' \in {"committed", "died"}
      /\ dirty' = changed' /\ dirty' \subseteq dirty
      /\ commit_rv' \in {"success", "error"}
      /\ step' = "committed" => recovery \/ (commit_rv' = commit_rv /\ "nvdata" \notin dirty')
  BY DEF CommitNvdata, CommitNvdataFails, Written, DataInv, data, tpm_chip
<1>2. ListInv' /\ DataInv' /\ PassInv' /\ EarlyInv'
  BY <1>1 DEF ListInv, DataInv, PassInv, EarlyInv
<1>3. CommitInv'
  BY <1>1 DEF CommitInv, DataInv, Items, Saved
<1>4. NestInv'
  BY <1>1 DEF NestInv, Pass
<1>5. QED
  BY <1>2, <1>3, <1>4

LEMMA LockFailsKeeps ==
  ASSUME HandoffInv, LockFails
  PROVE  HandoffInv'
<1> USE DEF HandoffInv
<1>1. /\ UNCHANGED <<recovery, tpm, cleanup_funcs, tpm_locked, secdata_kernel_locked, passes,
                     tpm_early>>
      /\ step = "lock" /\ step' = "commit_kernel" /\ caller' = "lockfail"
      /\ commit_rv' = "success" /\ NoteFailure
  BY DEF LockFails, TpmRefuses
<1>2. ListInv' /\ DataInv' /\ CommitInv' /\ PassInv' /\ EarlyInv'
  BY <1>1 DEF ListInv, DataInv, CommitInv, PassInv, EarlyInv, NoteFailure, Items
<1>3. NestInv'
  BY <1>1 DEF NestInv, Pass
<1>4. QED
  BY <1>2, <1>3

--------------------------------------------------------------------------------
(* Functions are registered.                                                  *)
LEMMA RegistersKeep ==
  ASSUME HandoffInv, InhibitPowerButton \/ ReadFwmp
  PROVE  HandoffInv'
<1> USE DEF HandoffInv
<1>1. /\ UNCHANGED <<recovery, changed, dirty, commit_rv, caller, tpm_locked,
                     secdata_kernel_locked, passes, tpm_early>>
      /\ step \in Setup /\ step' \in Setup
  BY DEF InhibitPowerButton, ReadFwmp, data, tpm_chip
<1>2. cleanup_funcs' \in Seq(Funcs) /\ tpm' \in {"unused", "open"}
  BY Registered, Talks DEF InhibitPowerButton, ReadFwmp, ListInv, EarlyInv, Funcs, tpm_chip
<1>3. ListInv' /\ DataInv' /\ CommitInv' /\ PassInv' /\ EarlyInv'
  BY <1>1, <1>2 DEF ListInv, DataInv, CommitInv, PassInv, EarlyInv
<1>4. NestInv'
  BY <1>1 DEF NestInv, Pass
<1>5. QED
  BY <1>3, <1>4

LEMMA RegisterCommitKeeps ==
  ASSUME HandoffInv, RegisterCommit
  PROVE  HandoffInv'
<1> USE DEF HandoffInv
<1>1. /\ UNCHANGED <<recovery, changed, dirty, commit_rv, caller, tpm, tpm_locked,
                     secdata_kernel_locked, passes>>
      /\ step = "register" /\ step' = "vboot" /\ (tpm_early' => tpm # "unused")
      /\ Register("commit")
  BY DEF RegisterCommit, data, tpm_chip
<1>2. cleanup_funcs' \in Seq(Funcs) /\ Commits(cleanup_funcs') /\ Early(cleanup_funcs')
  BY <1>1, Registered DEF ListInv, Funcs
<1>3. ListInv' /\ DataInv' /\ CommitInv' /\ PassInv' /\ EarlyInv'
  BY <1>1, <1>2 DEF ListInv, DataInv, CommitInv, PassInv, EarlyInv
<1>4. NestInv'
  BY <1>1 DEF NestInv, Pass
<1>5. QED
  BY <1>3, <1>4

LEMMA SetModeKeeps ==
  ASSUME HandoffInv, VbTpmSetModeDisabled
  PROVE  HandoffInv'
<1> USE DEF HandoffInv
<1>1. /\ UNCHANGED <<step, recovery, changed, dirty, commit_rv, caller, passes, tpm_early>>
      /\ step = "vboot" /\ tpm_locked' = TRUE /\ secdata_kernel_locked' = TRUE
      /\ tpm' \in {"disabled", IF tpm = "unused" THEN "open" ELSE tpm}
      /\ IF tpm = "unused" THEN Register("tpm") ELSE UNCHANGED cleanup_funcs
  BY DEF VbTpmSetModeDisabled, data
<1>2. /\ cleanup_funcs' \in Seq(Funcs)
      /\ Commits(cleanup_funcs) => Commits(cleanup_funcs')
  BY <1>1, Registered DEF ListInv, Funcs
<1>3. ListInv' /\ DataInv' /\ CommitInv' /\ PassInv' /\ EarlyInv'
  BY <1>1, <1>2 DEF ListInv, DataInv, CommitInv, PassInv, EarlyInv
<1>4. NestInv'
  BY <1>1 DEF NestInv, Pass
<1>5. QED
  BY <1>3, <1>4

--------------------------------------------------------------------------------
LEMMA HandoffInvInit == HandoffInit => HandoffInv
<1> SUFFICES ASSUME HandoffInit PROVE HandoffInv
  OBVIOUS
<1>1. /\ <<"finalize">> \in Seq({"commit", "powerbtn", "tpm", "finalize"})
      /\ <<"tpm", "finalize">> \in Seq({"commit", "powerbtn", "tpm", "finalize"})
  OBVIOUS
<1>2. ListInv
  BY <1>1 DEF HandoffInit, ListInv, Funcs
<1>3. NestInv
  BY DEF HandoffInit, NestInv
<1>4. DataInv /\ CommitInv /\ PassInv /\ EarlyInv
  BY DEF HandoffInit, DataInv, CommitInv, PassInv, EarlyInv, Items
<1>5. QED
  BY <1>2, <1>3, <1>4 DEF HandoffInv

LEMMA HandoffInvStep == HandoffInv /\ [HandoffNext]_handoff_vars => HandoffInv'
<1> SUFFICES ASSUME HandoffInv, [HandoffNext]_handoff_vars PROVE HandoffInv'
  OBVIOUS
<1>1. CASE UNCHANGED handoff_vars
  BY <1>1 DEF HandoffInv, ListInv, NestInv, DataInv, CommitInv, PassInv, EarlyInv, Saved,
              CommittedAndLocked, Pass, handoff_vars, data, tpm_chip
<1>2. CASE Vboot
  BY <1>2, MovesKeep, CommitBeginsKeeps, EntersKeep, ChangeKeeps, SetModeKeeps
     DEF Vboot, Moves, Enters
<1>3. CASE Firmware
  BY <1>3, MovesKeep, BackToVbootKeeps, CommitBeginsKeeps, GoLockKeeps, EntersKeep, DoneKeeps,
     CleansKeep, CommitReturnsKeeps, LockKeeps, SecdataKeeps, NvdataKeeps, LockFailsKeeps,
     RegistersKeep, RegisterCommitKeeps DEF Firmware, Moves, Enters
<1>4. CASE EcResets \/ PayloadReturn
  BY <1>4, MovesKeep, BackToVbootKeeps DEF Moves
<1>5. QED
  BY <1>1, <1>2, <1>3, <1>4 DEF HandoffNext

LEMMA HandoffInvariance == HandoffSpec => []HandoffInv
BY HandoffInvInit, HandoffInvStep, PTL DEF HandoffSpec

(* Outside recovery mode a kernel that boot() or multiboot starts, or a       *)
(* payload, runs with all data of vboot written and the kernel space of the   *)
(* TPM locked: whatever failed on the way, and however often payloads have    *)
(* returned before.                                                           *)
THEOREM CommittedAtHandoff == HandoffSpec => []HandoffCommitted
<1>1. HandoffInv => HandoffCommitted
  BY DEF HandoffInv, PassInv, HandoffCommitted
<1>2. QED
  BY <1>1, HandoffInvariance, PTL

(* A failure that vboot or commit_and_lock_cleanup_func has noted is written  *)
(* to nvdata before this boot is left by any exit.                            *)
THEOREM FailureIsSaved == HandoffSpec => []FailureSaved
<1>1. HandoffInv => FailureSaved
  BY DEF HandoffInv, PassInv, Saved, FailureSaved
<1>2. QED
  BY <1>1, HandoffInvariance, PTL

(* When a cleanup function reboots from inside a pass, the pass that goes on  *)
(* is the one that reboots: no pass that failed ends in a handoff.            *)
THEOREM InnerPassReboots == HandoffSpec => []NestedPassReboots
<1>1. HandoffInv => NestedPassReboots
  <2> SUFFICES ASSUME HandoffInv, Len(passes) > 1
               PROVE  passes[1].type = "reboot" /\ passes[1].exit = "reset"
    BY DEF NestedPassReboots
  <2>1. Len(passes) = 2
    BY Depth DEF HandoffInv
  <2>2. QED
    BY <2>1 DEF HandoffInv, NestInv, Kind, Pass
<1>2. QED
  BY <1>1, HandoffInvariance, PTL

(* A TPM that was in use before vboot registered its commit is still open at  *)
(* the first commit on the way out: the function registered last runs first.  *)
THEOREM CommitFindsTpmOpen == HandoffSpec => CommitBeforeTpmClose
<1>1. HandoffInv /\ [HandoffNext]_handoff_vars =>
        [step = "cleanup" /\ step' = "commit_kernel" /\ caller = "vboot" /\ tpm_early
           => tpm # "closed"]_handoff_vars
  BY DEF HandoffInv, EarlyInv
<1>2. QED
  BY <1>1, HandoffInvariance, PTL DEF HandoffSpec, CommitBeforeTpmClose
================================================================================
