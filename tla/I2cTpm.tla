-------------------------------- MODULE I2cTpm --------------------------------
(* TPM commands over I2C: i2ctpm_xmit (drivers/tpm/i2c.c) and the driver of  *)
(* the Cr50 (drivers/tpm/cr50_i2c.c).  A command goes to a FIFO in chunks,   *)
(* its response is read out of it in chunks, and status and burst count are  *)
(* polled in between.  Transfers fail after the chip has taken them as well  *)
(* as before, writes are tried again, and every wait may come to its end.    *)
(*                                                                           *)
(* Byte i of the command of call n is <<n, i>>, byte j of the answer to the  *)
(* e-th command that the chip carried out is <<e, j>>.                       *)
EXTENDS Integers, Sequences, FiniteSetsExt

CONSTANTS
  MaxBurst,      \* Cr50MaxBufSize: the chip's burst count is at most this
  WakeRetries,   \* Cr50WakeRetries
  CommandSizes,
  ResponseSizes,
  RoomSize,      \* the caller's buffer
  MaxCalls,      \* bound on the number of commands
  MaxFaults      \* bound on failed transfers and on waits that end too soon

ASSUME I2cTpmAssumption ==
  /\ MaxBurst \in Nat \ {0, 1} /\ WakeRetries \in Nat \ {0}
  /\ CommandSizes \subseteq Nat \ {0} /\ ResponseSizes \subseteq Nat \ {0}
  /\ RoomSize \in Nat /\ RoomSize >= MaxBurst

VARIABLES
  active,        \* the chip: its locality is active
  state,         \* the chip: "idle", "ready", "reception", "execution" or
                 \* "completion"
  fifo, out,     \* the chip: the bytes of the command, and of the response
  executed,      \* the commands that the chip has carried out
  answers,       \* the sizes of its answers to them
  initialized,
  closed,        \* the cleanup function has run
  pc,
  try,           \* of cr50_i2c_write_raw
  sizes,         \* the sizes of the commands so far, the last in progress
  sent,          \* bytes sent
  recvbuf,       \* bytes received
  ret,
  faults,
  faulted        \* history: a fault has hit this call

chip == <<active, state, fifo, out>>
work == <<executed, answers>>
driver == <<initialized, closed, sizes, sent, recvbuf, ret>>
vars == <<chip, work, driver, pc, try, faults, faulted>>

Call == Len(sizes)
Size == sizes[Call]
Command(n) == [i \in 1 .. sizes[n] |-> <<n, i>>]

-------------------------------------------------------------------------------
(* The chip.                                                                 *)

\* The size is in the first bytes of the command.
Expect == fifo = <<>> \/ Len(fifo) < sizes[fifo[1][1]]

CommandReady == active /\ state = "ready"
DataAvail == active /\ state = "completion" /\ out # <<>>
DataExpect == active /\ state = "reception" /\ Expect
BurstCount == IF DataAvail THEN Min({MaxBurst, Len(out)}) ELSE MaxBurst

\* TpmStsCommandReady: aborts, and takes one more of its kind to be ready
TakeReady ==
  IF active
    THEN /\ fifo' = <<>> /\ out' = <<>>
         /\ state' \in {"ready"} \cup (IF state \in {"idle", "ready"}
                                        THEN {} ELSE {"idle"})
         /\ UNCHANGED active
    ELSE UNCHANGED chip

\* Bytes behind the end of the command are dropped.
TakeData(bytes) ==
  LET all == fifo \o bytes
      n == Min({Len(all), sizes[all[1][1]]})
  IN  IF state \in {"ready", "reception"}
        THEN /\ fifo' = SubSeq(all, 1, n)
             /\ state' = "reception"
             /\ UNCHANGED <<active, out>>
        ELSE UNCHANGED chip

TakeGo ==
  IF state = "reception" /\ ~Expect
    THEN state' = "execution" /\ UNCHANGED <<active, fifo, out>>
    ELSE UNCHANGED chip

TakeLocality == active' = TRUE /\ UNCHANGED <<state, fifo, out>>
DropLocality == active' = FALSE /\ UNCHANGED <<state, fifo, out>>

Execute ==
  /\ state = "execution"
  /\ executed' = Append(executed, fifo)
  /\ \E n \in ResponseSizes :
       /\ answers' = Append(answers, n)
       /\ out' = [j \in 1 .. n |-> <<Len(executed'), j>>]
  /\ state' = "completion" /\ fifo' = <<>>
  /\ UNCHANGED <<active, driver, pc, try, faults, faulted>>

-------------------------------------------------------------------------------
(* Transfers.                                                                *)
Fault == faults < MaxFaults /\ faults' = faults + 1 /\ faulted' = TRUE
NoFault == UNCHANGED <<faults, faulted>>

Goto(label) == pc' = label /\ try' = 0

(* cr50_i2c_write: up to WakeRetries attempts, each of which may fail with   *)
(* the chip having taken the bytes, and a wait for the chip's interrupt.     *)
Write(Take, next, failed) ==
  \/ Take /\ Goto(next) /\ NoFault
  \/ /\ Take \/ UNCHANGED chip
     /\ Fault
     /\ IF try < WakeRetries - 1 THEN try' = try + 1 /\ UNCHANGED pc
                                 ELSE Goto(failed)
  \/ Take /\ Goto(failed) /\ Fault

(* A poll of the status until it has what it should, or the time is over:    *)
(* too soon, or because it would never have.                                 *)
Poll(has, next, failed) ==
  \/ has /\ Goto(next) /\ NoFault
  \/ has /\ Goto(failed) /\ Fault
  \/ ~has /\ Goto(failed) /\ NoFault

Return(result, n) ==
  /\ ret' = result
  /\ Goto("idle")
  /\ recvbuf' = SubSeq(recvbuf, 1, n)
  /\ NoFault
  /\ UNCHANGED <<chip, work, initialized, closed, sizes, sent>>

-------------------------------------------------------------------------------
(* i2ctpm_xmit and i2ctpm_init.                                              *)
Init ==
  /\ active \in BOOLEAN /\ state = "idle" /\ fifo = <<>> /\ out = <<>>
  /\ executed = <<>> /\ answers = <<>>
  /\ initialized = FALSE /\ closed = FALSE
  /\ pc = "idle" /\ try = 0
  /\ sizes = <<>> /\ sent = 0 /\ recvbuf = <<>> /\ ret = "none"
  /\ faults = 0 /\ faulted = FALSE

Xmit ==
  /\ pc = "idle" /\ Call < MaxCalls
  /\ \E n \in CommandSizes : sizes' = Append(sizes, n)
  /\ sent' = 0 /\ recvbuf' = <<>> /\ faulted' = FALSE
  /\ Goto(IF initialized THEN "send" ELSE "check")
  /\ UNCHANGED <<chip, work, initialized, closed, ret, faults>>

(* check_locality; its failure counts as no.                                 *)
CheckLocality ==
  /\ pc = "check"
  /\ \/ active /\ Goto("vendor") /\ NoFault
     \/ ~active /\ Goto("request") /\ NoFault
     \/ Goto("request") /\ Fault
  /\ UNCHANGED <<chip, work, driver>>

RequestLocality ==
  /\ pc = "request"
  /\ Write(TakeLocality, "granted", "failed")
  /\ UNCHANGED <<work, driver>>

PollLocality ==
  /\ pc = "granted"
  /\ Poll(active, "vendor", "failed")
  /\ UNCHANGED <<chip, work, driver>>

ReadVendor ==
  /\ pc = "vendor"
  /\ \/ initialized' = TRUE /\ Goto("send") /\ NoFault
     \/ UNCHANGED initialized /\ Goto("release") /\ Fault
  /\ UNCHANGED <<chip, work, closed, sizes, sent, recvbuf, ret>>

(* release_locality with force, after a failed init and at the cleanup.      *)
ReleaseLocality ==
  /\ pc \in {"release", "close"}
  /\ LET after == IF pc = "close" THEN "idle" ELSE "failed"
     IN  \/ Write(DropLocality, after, after)
         \/ UNCHANGED chip /\ Goto(after) /\ Fault
  /\ UNCHANGED <<work, driver>>

Cleanup ==
  /\ pc = "idle" /\ initialized /\ ~closed
  /\ closed' = TRUE
  /\ Goto("close")
  /\ UNCHANGED <<chip, work, initialized, sizes, sent, recvbuf, ret, faults,
                 faulted>>

-------------------------------------------------------------------------------
(* cr50_i2c_tpm_send.  First the chip is brought to its ready state, out of  *)
(* whatever an earlier call has left; a status that cannot be read is 0.     *)
Sends(label) == pc = label /\ UNCHANGED <<work, driver>>

SendReadyOrDataAvail ==                                           \* mutant
  /\ Sends("send")
  /\ Goto(IF CommandReady \/ DataAvail THEN "send_burst" ELSE "send_ready")
  /\ NoFault /\ UNCHANGED chip
SendReady ==
  /\ Sends("send")
  /\ \/ CommandReady /\ Goto("send_burst") /\ NoFault
     \/ ~CommandReady /\ Goto("send_ready") /\ NoFault
     \/ CommandReady /\ Goto("send_ready") /\ Fault
  /\ UNCHANGED chip

SendReadyWriteOnce ==                                             \* mutant
  Sends("send_ready") /\ Write(TakeReady, "send_burst", "send_burst")
SendReadyWrite ==
  /\ Sends("send_ready")
  /\ Write(TakeReady, "send", "send")

SendTimeout ==
  /\ Sends("send")
  /\ IF active THEN Fault ELSE NoFault
  /\ Goto("abort")
  /\ UNCHANGED chip

SendBurstAny == BurstCount > 0                                    \* mutant
SendBurst == active /\ (sent > 0 => DataExpect)

SendWait ==
  /\ Sends("send_burst")
  /\ Poll(SendBurst, "send_data", "abort")
  /\ UNCHANGED chip

(* One byte of the burst is the register's address.                          *)
SendLimit == Min({BurstCount - 1, Size - sent})

SendData ==
  /\ pc = "send_data"
  /\ Write(TakeData(SubSeq(Command(Call), sent + 1, sent + SendLimit)),
           IF sent + SendLimit < Size THEN "send_burst" ELSE "send_final", "abort")
  /\ sent' = IF pc' \in {"send_burst", "send_final"} THEN sent + SendLimit ELSE sent
  /\ UNCHANGED <<work, initialized, closed, sizes, recvbuf, ret>>

SendFinal ==
  /\ Sends("send_final")
  /\ Poll(active /\ ~DataExpect, "go", "abort")
  /\ UNCHANGED chip

Go ==
  /\ Sends("go")
  /\ Write(TakeGo, "wait", "abort")

-------------------------------------------------------------------------------
(* i2ctpm_xmit waits for the response, two minutes at most, and cancels.     *)
(* req_canceled is a status without TpmStsValid, which a Cr50 does not have. *)
Wait ==
  /\ Sends("wait")
  /\ \/ DataAvail /\ Goto("recv_burst") /\ NoFault
     \/ state = "execution" /\ Goto("cancel") /\ Fault
  /\ UNCHANGED chip

Cancel ==
  /\ Sends("cancel")
  /\ Write(TakeReady, "failed", "failed")

(* cr50_i2c_tpm_recv.                                                        *)
RecvWait ==
  /\ Sends("recv_burst")
  /\ Poll(DataAvail, "recv_data", "abort")
  /\ UNCHANGED chip

\* From the first chunk on the driver knows the size of the response.
Expected == answers[recvbuf[1][1]]
RecvLimit == IF recvbuf = <<>> THEN BurstCount
                               ELSE Min({BurstCount, Expected - Len(recvbuf)})

Popped(n) == out' = SubSeq(out, n + 1, Len(out)) /\ UNCHANGED <<active, state, fifo>>

RecvData ==
  /\ pc = "recv_data"
  /\ Popped(RecvLimit)
  /\ recvbuf' = recvbuf \o SubSeq(out, 1, RecvLimit)
  /\ LET expected == answers[recvbuf'[1][1]]
     IN  Goto(IF expected > RoomSize THEN "abort"
              ELSE IF Len(recvbuf') < expected THEN "recv_burst" ELSE "recv_final")
  /\ NoFault
  /\ UNCHANGED <<work, initialized, closed, sizes, sent, ret>>

RecvDataFails ==
  /\ Sends("recv_data")
  /\ \E n \in 0 .. RecvLimit : Popped(n)
  /\ Goto("abort") /\ Fault

RecvFinal ==
  /\ Sends("recv_final")
  /\ Poll(active /\ ~DataAvail, "done", "abort")
  /\ UNCHANGED chip

Done == pc = "done" /\ Return("ok", Len(recvbuf))

(* out_err: the chip is made ready if its status says that it is.            *)
Abort ==
  /\ Sends("abort")
  /\ \/ CommandReady /\ Goto("abort_ready") /\ NoFault
     \/ ~CommandReady /\ Goto("failed") /\ NoFault
     \/ CommandReady /\ Goto("failed") /\ Fault
  /\ UNCHANGED chip

AbortReady ==
  /\ Sends("abort_ready")
  /\ Write(TakeReady, "failed", "failed")

Fails == pc = "failed" /\ Return("error", 0)

Start == Xmit \/ CheckLocality \/ RequestLocality \/ PollLocality \/ ReadVendor
         \/ ReleaseLocality \/ Cleanup
Send == SendReady \/ SendReadyWrite \/ SendTimeout \/ SendWait \/ SendData
        \/ SendFinal \/ Go
Recv == Wait \/ Cancel \/ RecvWait \/ RecvData \/ RecvDataFails \/ RecvFinal
        \/ Done \/ Abort \/ AbortReady \/ Fails

Next == Start \/ Send \/ Recv \/ Execute

Spec == Init /\ [][Next]_vars

-------------------------------------------------------------------------------
(* Properties.                                                               *)

(* What the chip carries out is the whole command of some call, as it was    *)
(* passed, and that of each call once at most: although a chunk, or the go,  *)
(* may arrive several times, and calls are broken off at every point.        *)
ExecutesWhatWasSent ==
  /\ \A e \in DOMAIN executed : \E n \in DOMAIN sizes : executed[e] = Command(n)
  /\ \A e, f \in DOMAIN executed : executed[e] = executed[f] => e = f

(* A response that i2ctpm_xmit returns is the whole answer to the command of *)
(* this call, whatever earlier calls have left in the FIFO.                  *)
AnswerIsTheCommands ==
  pc = "idle" /\ ret = "ok" /\ Call > 0 =>
    LET e == recvbuf[1][1]
    IN  /\ executed[e] = Command(Call)
        /\ recvbuf = [j \in 1 .. answers[e] |-> <<e, j>>]

(* A call that nothing goes wrong in succeeds, whatever state broken-off     *)
(* calls have left the chip in, unless the driver is closed already or the   *)
(* response is larger than the caller's buffer.                              *)
RecoversAtOnce ==
  pc = "idle" /\ Call > 0 /\ ~faulted /\ ~closed =>
    ret = "ok" \/ (answers # <<>> /\ answers[Len(answers)] > RoomSize)
================================================================================
