-------------------------------- MODULE Nvme ---------------------------------
(* The I/O queue pair of src/src/drivers/storage/nvme.c: nvme_read and     *)
(* nvme_write cut a request into chunks, put one command for each into the *)
(* submission queue, and poll the completion queue when the former is full *)
(* and at the end.  nvme_write is nvme_read with another opcode.           *)
(*                                                                         *)
(* The controller is known from what the driver relies on: it takes the    *)
(* commands up to the doorbell in order, finishes them in any order, and   *)
(* posts an entry whose phase tells it from those of the last round.       *)
EXTENDS Naturals, FiniteSets

CONSTANTS
  CSQ_SIZE, CCQ_SIZE,   \* NVME_CSQ_SIZE and NVME_CCQ_SIZE
  MQES,                 \* CAP.MQES: the queue size the controller allows
  MaxTransfer,          \* max_transfer_blocks: no more than one PRP list holds
  DirectBlocks,         \* a chunk of at most this fits two PRP entries
  Requests,             \* the requests: <<opc, start, count>>
  MaxRequests           \* bound: how many requests are made

SizeMin(a, b) == IF b > a THEN a ELSE b
iosq_sz == SizeMin(MQES, CSQ_SIZE)
iocq_sz == SizeMin(MQES, CCQ_SIZE)

(* Left out are the requests of no blocks, for which the driver counts a   *)
(* whole ring and waits until its patience ends, and a controller whose    *)
(* MDTS lets through chunks that are too long for a PRP list: then         *)
(* nvme_fill_prp refuses the first chunk and the call returns -1 with no   *)
(* command put.                                                            *)
ASSUME NvmeAssumption ==
  /\ CSQ_SIZE \in Nat /\ CSQ_SIZE >= 2 /\ CCQ_SIZE \in Nat /\ CCQ_SIZE >= 2
  /\ MQES \in Nat /\ MQES >= 2
  /\ MaxTransfer \in Nat \ {0} /\ DirectBlocks \in Nat
  /\ Requests \subseteq {"read", "write"} \X Nat \X (Nat \ {0})
  /\ MaxRequests \in Nat \ {0}

VARIABLES
  pc,            \* idle, cut (in the loop over chunks), submit, poll, last
                 \* (the poll at the end), undefined
  requests,      \* how many requests there were; it names their buffers
  req,           \* the request at hand
  start, count,  \* what is left of it
  buffer,        \* the offset of that in the request's buffer
  sq_t, cq_h, pt, sqhd, cid,
  ncmds,         \* completions still awaited
  sq, prp_list,  \* the ring of commands, and where each PRP list leads
  cq,            \* the ring of completions
  ctrl,          \* the controller: doorbells, positions and phase
  inflight,      \* commands it has taken and not finished
  result,        \* what the last call returned: ok or error
  open,          \* history: commands put whose completion was not taken
  moved,         \* history: the blocks moved, <<opc, block, buffer address>>
  late,          \* history: a poll timed out
  failed         \* history: a command completed with an error status

driver == <<requests, req, start, count, buffer, sq_t, cq_h, pt, sqhd, cid,
            ncmds, sq, prp_list, result, open, late>>
vars == <<pc, driver, cq, ctrl, inflight, moved, failed>>

Address == (1 .. MaxRequests) \X Nat
NoCommand == [opc |-> "none"]
Indices(n) == 0 .. n - 1

(* The driver counts what it awaits modulo the size of the completion queue. *)
(* When more is open, after timeouts, it has lost count, and open stays where *)
(* it is.                                                                    *)
Counted == open <= CCQ_SIZE

IsCommand(c) ==
  /\ c.opc \in {"read", "write"}
  /\ c.slba \in Nat /\ c.nlb \in 1 .. MaxTransfer
  /\ c.cid \in Nat /\ c.prp \in Address

TypeOK ==
  /\ pc \in {"idle", "cut", "submit", "poll", "last", "undefined"}
  /\ requests \in 0 .. MaxRequests
  /\ req \in Requests /\ start \in Nat /\ count \in Nat /\ buffer \in Nat
  /\ sq_t \in Indices(iosq_sz) /\ sqhd \in Indices(iosq_sz)
  /\ cq_h \in Indices(CCQ_SIZE)
  /\ pt \in {0, 1} /\ cid \in Nat /\ ncmds \in Nat
  /\ DOMAIN sq = Indices(iosq_sz)
  /\ \A i \in DOMAIN sq : sq[i] = NoCommand \/ IsCommand(sq[i])
  /\ prp_list \in [Indices(iosq_sz) -> Address \cup {<<>>}]
  /\ cq \in [Indices(CCQ_SIZE) -> [phase: {0, 1}, sqhd: Indices(iosq_sz)]]
  /\ ctrl \in [tail: Indices(iosq_sz), head: Indices(iosq_sz),
               cq_head: Indices(CCQ_SIZE), cq_tail: Indices(iocq_sz),
               phase: {0, 1}]
  /\ \A c \in inflight : IsCommand(c)
  /\ IsFiniteSet(moved) /\ open \in 0 .. CCQ_SIZE + 1
  /\ result \in {"ok", "error"} /\ late \in BOOLEAN /\ failed \in BOOLEAN

Init ==
  /\ pc = "idle" /\ requests = 0 /\ req \in Requests
  /\ start = 0 /\ count = 0 /\ buffer = 0
  /\ sq_t = 0 /\ cq_h = 0 /\ pt = 0 /\ sqhd = 0 /\ cid = 0 /\ ncmds = 0
  /\ sq = [i \in Indices(iosq_sz) |-> NoCommand]
  /\ prp_list = [i \in Indices(iosq_sz) |-> <<>>]
  /\ cq = [i \in Indices(CCQ_SIZE) |-> [phase |-> 0, sqhd |-> 0]]
  /\ ctrl = [tail |-> 0, head |-> 0, cq_head |-> 0, cq_tail |-> 0, phase |-> 1]
  /\ inflight = {} /\ moved = {} /\ open = 0
  /\ result = "ok" /\ late = FALSE /\ failed = FALSE

-----------------------------------------------------------------------------
(* The driver.                                                             *)

\* nvme_read or nvme_write is called.
Request ==
  /\ pc = "idle" /\ requests < MaxRequests
  /\ \E r \in Requests : req' = r /\ start' = r[2] /\ count' = r[3]
  /\ requests' = requests + 1
  /\ buffer' = 0
  /\ pc' = "cut"
  /\ UNCHANGED <<sq_t, cq_h, pt, sqhd, cid, ncmds, sq, prp_list, result, open,
                 late, cq, ctrl, inflight, moved, failed>>

FullWithoutWrap == sq_t + 1 = sqhd   \* mutant
Full == (sq_t + 1) % iosq_sz = sqhd

Outstanding == IF cq_h < sq_t THEN sq_t - cq_h ELSE (CCQ_SIZE - cq_h) + sq_t

\* The doorbell is rung and nvme_complete_cmds_polled starts to count.
StartPoll ==
  /\ ctrl' = [ctrl EXCEPT !.tail = sq_t]
  /\ ncmds' = Outstanding
  /\ UNCHANGED <<requests, req, start, count, buffer, sq_t, cq_h, pt, sqhd,
                 cid, sq, prp_list, result, open, late, cq, inflight, moved, failed>>

CompleteInFlight == pc = "cut" /\ count > 0 /\ Full /\ pc' = "poll" /\ StartPoll
CompleteAll == pc = "cut" /\ count = 0 /\ pc' = "last" /\ StartPoll

Chunk == SizeMin(MaxTransfer, count)
MayPut == \/ pc = "cut" /\ count > 0 /\ ~Full
          \/ pc = "submit"

\* nvme_fill_prp: the command leads to its data through a PRP list of its own,
\* unless two addresses are enough.
UsesList(n) == n > DirectBlocks

FillPrp(c) ==
  prp_list' = IF UsesList(c.nlb) THEN [prp_list EXCEPT ![c.cid] = c.prp]
              ELSE prp_list

NextTail == IF sq_t + 1 > iosq_sz - 1 THEN 0 ELSE sq_t + 1

AdvanceNotBuffer ==   \* mutant
  /\ start' = start + Chunk
  /\ buffer' = buffer
  /\ count' = count - Chunk

Advance ==
  /\ start' = start + Chunk
  /\ buffer' = buffer + Chunk
  /\ count' = count - Chunk

\* nvme_internal_read puts the command for one chunk into the queue.
Put ==
  /\ MayPut
  /\ UsesList(Chunk) => cid < iosq_sz
  /\ LET c == [opc |-> req[1], slba |-> start, nlb |-> Chunk, cid |-> cid,
               prp |-> <<requests, buffer>>]
     IN sq' = [sq EXCEPT ![sq_t] = c] /\ FillPrp(c)
  /\ cid' = cid + 1
  /\ sq_t' = NextTail
  /\ Advance
  /\ pc' = "cut"
  /\ open' = SizeMin(open + 1, CCQ_SIZE + 1)
  /\ UNCHANGED <<requests, req, cq_h, pt, sqhd, ncmds, result, late,
                 cq, ctrl, inflight, moved, failed>>

\* It fills a PRP list that was never allocated: nothing is known from here on.
PutUndefined ==
  /\ MayPut /\ UsesList(Chunk) /\ cid >= iosq_sz
  /\ pc' = "undefined"
  /\ UNCHANGED <<driver, cq, ctrl, inflight, moved, failed>>

Polling == pc \in {"poll", "last"}
Ready == cq[cq_h].phase # pt

\* One completion is taken from the ring.
TakeCompletionSamePhase ==   \* mutant
  /\ Polling /\ ncmds > 0 /\ Ready
  /\ ncmds' = ncmds - 1
  /\ cq_h' = IF cq_h + 1 > CCQ_SIZE - 1 THEN 0 ELSE cq_h + 1
  /\ sqhd' = cq[cq_h].sqhd
  /\ open' = IF open \in 1 .. CCQ_SIZE THEN open - 1 ELSE open
  /\ UNCHANGED <<pc, pt, requests, req, start, count, buffer, sq_t, cid, sq,
                 prp_list, result, late, cq, ctrl, inflight, moved, failed>>

TakeCompletion ==
  /\ Polling /\ ncmds > 0 /\ Ready
  /\ ncmds' = ncmds - 1
  /\ cq_h' = IF cq_h + 1 > CCQ_SIZE - 1 THEN 0 ELSE cq_h + 1
  /\ pt' = IF cq_h' = 0 THEN 1 - pt ELSE pt
  /\ sqhd' = cq[cq_h].sqhd
  /\ open' = IF open \in 1 .. CCQ_SIZE THEN open - 1 ELSE open
  /\ UNCHANGED <<pc, requests, req, start, count, buffer, sq_t, cid, sq,
                 prp_list, result, late, cq, ctrl, inflight, moved, failed>>

\* The call ends.  The last poll's status is thrown away.
Return(ok) ==
  /\ pc' = IF pc = "poll" /\ ok THEN "submit" ELSE "idle"
  /\ result' = IF pc = "last" THEN "ok" ELSE IF ok THEN result ELSE "error"

PollTimeoutResets ==   \* mutant
  /\ Polling /\ ncmds > 0 /\ ~Ready
  /\ late' = TRUE /\ cid' = 0
  /\ Return(FALSE)
  /\ UNCHANGED <<requests, req, start, count, buffer, sq_t, cq_h, pt, sqhd,
                 ncmds, sq, prp_list, open, cq, ctrl, inflight, moved, failed>>

\* NVME_TIMEOUT: the doorbell is not rung, and cid goes on from where it is.
PollTimeout ==
  /\ Polling /\ ncmds > 0 /\ ~Ready
  /\ late' = TRUE
  /\ Return(FALSE)
  /\ UNCHANGED <<requests, req, start, count, buffer, sq_t, cq_h, pt, sqhd,
                 cid, ncmds, sq, prp_list, open, cq, ctrl, inflight, moved, failed>>

PollDone ==
  /\ Polling /\ ncmds = 0
  /\ ctrl' = [ctrl EXCEPT !.cq_head = cq_h]
  /\ cid' = IF sq_t = sqhd THEN 0 ELSE cid
  /\ Return(TRUE)
  /\ UNCHANGED <<requests, req, start, count, buffer, sq_t, cq_h, pt, sqhd,
                 ncmds, sq, prp_list, open, late, cq, inflight, moved, failed>>

-----------------------------------------------------------------------------
(* The controller.                                                         *)

\* It takes the next command.
Fetch ==
  /\ ctrl.head # ctrl.tail
  /\ inflight' = inflight \cup {sq[ctrl.head]}
  /\ ctrl' = [ctrl EXCEPT !.head = (@ + 1) % iosq_sz]
  /\ UNCHANGED <<pc, driver, cq, moved, failed>>

MayPost == (ctrl.cq_tail + 1) % iocq_sz # ctrl.cq_head

Post(c) ==
  /\ MayPost
  /\ inflight' = inflight \ {c}
  /\ cq' = [cq EXCEPT ![ctrl.cq_tail] =
                        [phase |-> ctrl.phase, sqhd |-> ctrl.head]]
  /\ ctrl' = [ctrl EXCEPT !.cq_tail = (@ + 1) % iocq_sz,
                          !.phase = IF ctrl.cq_tail + 1 = iocq_sz THEN 1 - @ ELSE @]
  /\ UNCHANGED <<pc, driver>>

\* Where the command's data is.
DataAt(c) == IF UsesList(c.nlb) THEN prp_list[c.cid] ELSE c.prp

Blocks(opc, lba, at, n) == {<<opc, lba + i, at[1], at[2] + i>> : i \in Indices(n)}

Complete ==
  \E c \in inflight :
    /\ Post(c)
    /\ moved' = moved \cup Blocks(c.opc, c.slba, DataAt(c), c.nlb)
    /\ UNCHANGED failed

\* A command fails: its entry has an error status, which the driver only
\* prints in debug builds.
CompleteWithError ==
  \E c \in inflight :
    /\ Post(c)
    /\ failed' = TRUE
    /\ UNCHANGED moved

-----------------------------------------------------------------------------
Next ==
  \/ Request
  \/ CompleteInFlight
  \/ CompleteAll
  \/ Put
  \/ PutUndefined
  \/ TakeCompletion
  \/ PollTimeout
  \/ PollDone
  \/ Fetch
  \/ Complete
  \/ CompleteWithError

Spec == Init /\ [][Next]_vars

-----------------------------------------------------------------------------
(* Properties.                                                             *)

\* Positions in the submission queue that the controller has not taken yet,
\* whether the doorbell was rung for them or not.
Pending == {(ctrl.head + i) % iosq_sz :
              i \in Indices((sq_t + iosq_sz - ctrl.head) % iosq_sz)}
Waiting == {sq[i] : i \in Pending}

(* A call that reports success has moved exactly the blocks it was asked   *)
(* for, each to its place in the buffer, however the request was cut and   *)
(* in whichever order the chunks were finished: unless a command failed or *)
(* the driver's patience ended, which nvme_read does not tell its caller.  *)
DataMoved ==
  pc = "idle" /\ requests > 0 /\ result = "ok" /\ ~late /\ ~failed =>
    {m \in moved : m[3] = requests} =
      Blocks(req[1], req[2], <<requests, 0>>, req[3])

(* The driver counts completions that will come: when it waits for an      *)
(* entry, the controller has a command to take or to finish and room for   *)
(* the entry.  Else every call would end in the timeout of five seconds.   *)
NoDeadWait ==
  Polling /\ ncmds > 0 /\ ~Ready /\ ~late =>
    ctrl.head # ctrl.tail \/ (inflight # {} /\ MayPost)

(* A command in the ring stays there until the controller takes it: the    *)
(* check for a full queue works with the head of the last completion, and  *)
(* the tail must not overtake the real one.  It holds after timeouts too,  *)
(* as long as no more commands are open than the driver can count.         *)
CommandsKept == [][Counted => Waiting \subseteq Waiting' \cup inflight']_vars

(* The PRP list of a command leads to its own data until the command is    *)
(* finished: a late command of a call that timed out never finds its list  *)
(* filled for another, as long as the driver can count what is open.       *)
ListsKept ==
  Counted => \A c \in Waiting \cup inflight :
               UsesList(c.nlb) => prp_list[c.cid] = c.prp
=============================================================================
