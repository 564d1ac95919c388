-------------------------- MODULE FirmwareSyncProofs --------------------------
(* Theorems about Auxfw and the modules below it: software sync starts no    *)
(* kernel beside incomplete or unprotected firmware, asks for recovery mode  *)
(* with a reason only and keeps the mask of the lid switch, and ec_command   *)
(* runs a command once at most, for any number of bursts, chips and faults,  *)
(* and whichever commands are slow.                                          *)
EXTENDS Auxfw, TLAPS, SequenceTheorems

-------------------------------------------------------------------------------
(* Types.                                                                    *)
Flags == Asserted \cup ProtectNow
Words == {"ro", "rw", "busy", "done", "match", "differs", "limit", "lid_closed"}
           \cup Asserted \cup ProtectNow
Answers == [ok: BOOLEAN, data: SUBSET Words]

\* The commands without parameters.
Plain ==
  {"version", "hash_get", "hash_start", "region_info", "erase", "get_cmd_versions",
   "flash_info", "jump_rw", "hello", "disable_jump", "reboot_at_shutdown", "limit",
   "get_mask", "set_mask", "protect_tunnels", "none"}

Shapes == [op: Plain \cup {"write", "protect"}, n: Nat, mask: SUBSET Flags,
           flags: SUBSET (Flags \cup {"lid_closed"})]
Commands ==
  {c \in Shapes :
     /\ c.op = "write" => c.n \in 1 .. Bursts
     /\ c.op = "protect" => c.flags \in {{}, ProtectNow} /\ c.mask = ProtectNow}

EcStates ==
  [image: {"ro", "rw"}, rw: [1 .. Bursts -> Cells],
   hash: {{}, {"busy"}, {"done", "match"}, {"done", "differs"}},
   jump: BOOLEAN, flags: SUBSET Flags, at_once: BOOLEAN, limit: BOOLEAN,
   at_shutdown: BOOLEAN, lid: BOOLEAN, tunnels: BOOLEAN,
   pending: Commands, own: BOOLEAN, saved: Answers \cup {Unavailable}]

\* Where the AP waits for a command, and where it does not.
Waiting ==
  {"running_rw", "hash", "hash_start", "unprotect", "protect", "region", "erase",
   "versions", "flash_info", "write", "jump_rw", "hello", "disable_jump",
   "reboot_to_ro", "limit", "get_mask", "clear_get", "clear_set",
   "restore_get", "restore_set", "tunnels"}
Thinking ==
  {"update", "auxfw", "screen", "chip", "apply", "recheck", "end", "return",
   "booted", "recovery", "shutdown"}

TypeInv ==
  /\ ec \in EcStates
  /\ pc \in Waiting \cup Thinking
  /\ burst \in 1 .. Bursts
  /\ call = CommandAt(pc, burst)
  /\ phase \in {"none", "send", "poll", "resend", "answered"}
  /\ pc \in Thinking <=> phase = "none"
  /\ answer \in Answers \cup {NoAnswer}
  /\ phase = "answered" => answer \in Answers
  /\ ran \in Answers \cup {NotRun}
  /\ board \in Boards
  /\ recovery \in BOOLEAN /\ in_rw \in BOOLEAN

(* A slow command: while the EC works on it its result is not known, and     *)
(* what it has to hand out after that is the result, or nothing.             *)
CallInv ==
  /\ ec.own <=> phase = "poll" /\ ec.pending # NoCmd
  /\ ec.own => ec.pending = call /\ ran = NotRun
  /\ phase = "send" => ran = NotRun
  /\ phase = "resend" => ec.pending = NoCmd
  /\ phase \in {"poll", "resend"} /\ ec.pending = NoCmd =>
       ec.saved \in {Unavailable, ran}
  /\ phase = "answered" /\ answer.ok => ec.pending = NoCmd

-------------------------------------------------------------------------------
(* What an answer says of the EC, until the AP goes on.                      *)
Confirms(a, p, e) ==
  /\ a.ok /\ "match" \in a.data => e.rw = Image("new")
  /\ p = "running_rw" /\ a.ok => a.data = {"rw"} \/ e.image = "ro"
  /\ p = "unprotect" /\ a.ok =>
       "all_at_boot" \notin e.flags /\ ("all_now" \in e.flags => "all_now" \in a.data)
  /\ p = "protect" /\ a.ok =>
       /\ "all_at_boot" \in e.flags
       /\ Asserted \subseteq e.flags => Asserted \subseteq a.data
       /\ Asserted \subseteq e.flags /\ "all_now" \in a.data => "all_now" \in e.flags

AnswersRight ==
  /\ "match" \in ec.hash => ec.rw = Image("new")
  /\ phase \in {"poll", "resend"} /\ ec.pending = NoCmd => Confirms(ec.saved, pc, ec)
  /\ phase = "answered" => Confirms(answer, pc, ec)

\* Where the image has been compared, and where it is protected too.
Protecteds ==
  {"disable_jump", "limit", "auxfw", "screen", "chip", "get_mask", "clear_get",
   "clear_set", "apply", "recheck", "end", "restore_get", "restore_set",
   "return", "tunnels", "booted"}
Compareds == {"jump_rw", "hello", "protect"} \cup Protecteds

\* Where the EC is known not to run the image being checked or written.
Opens == {"region", "erase", "versions", "flash_info", "write"}
Checks == {"hash", "hash_start", "update", "unprotect"}

SyncInv ==
  /\ pc \in Opens \/ (pc \in Checks /\ ~in_rw) =>
       ec.image = "ro" /\ ec.pending.op # "jump_rw"
  /\ pc \in Opens =>
       ec.flags \cap ProtectNow = {} /\ ec.pending.op # "protect"
  /\ pc \in {"update", "unprotect"} => ~in_rw
  /\ recovery => pc \in {"limit", "recovery", "shutdown"}
  /\ pc \in Compareds /\ ~recovery =>
       ec.rw = Image("new") /\ ec.pending.op \notin {"erase", "write"}
  /\ pc \in Protecteds /\ ~recovery =>
       /\ "all_at_boot" \in ec.flags /\ ec.pending.op # "protect"
       /\ Asserted \subseteq ec.flags => "all_now" \in ec.flags

ChipInv ==
  /\ chips \in Seq([update: {"none", "fast", "slow"}, fw: {"new", "old", "bad"}])
  /\ pc \in {"tunnels", "booted"} =>
       \A i \in DOMAIN chips : chips[i].update # "none" => chips[i].fw = "new"

IInv == TypeInv /\ CallInv /\ AnswersRight /\ SyncInv /\ ChipInv

-------------------------------------------------------------------------------
LEMMA CommandValues ==
  ASSUME NEW n \in 1 .. Bursts
  PROVE  /\ CommandAt("running_rw", n) = Cmd("version")
         /\ CommandAt("hash", n) = Cmd("hash_get")
         /\ CommandAt("hash_start", n) = Cmd("hash_start")
         /\ CommandAt("region", n) = Cmd("region_info")
         /\ CommandAt("erase", n) = Cmd("erase")
         /\ CommandAt("versions", n) = Cmd("get_cmd_versions")
         /\ CommandAt("flash_info", n) = Cmd("flash_info")
         /\ CommandAt("jump_rw", n) = Cmd("jump_rw")
         /\ CommandAt("hello", n) = Cmd("hello")
         /\ CommandAt("disable_jump", n) = Cmd("disable_jump")
         /\ CommandAt("reboot_to_ro", n) = Cmd("reboot_at_shutdown")
         /\ CommandAt("limit", n) = Cmd("limit")
         /\ CommandAt("clear_set", n) = Cmd("set_mask")
         /\ CommandAt("tunnels", n) = Cmd("protect_tunnels")
         /\ \A p \in {"get_mask", "clear_get", "restore_get"} :
              CommandAt(p, n) = Cmd("get_mask")
         /\ \A p \in Thinking : CommandAt(p, n) = NoCmd
         /\ CommandAt("unprotect", n) = Unprotect
         /\ CommandAt("protect", n) =
              [Cmd("protect") EXCEPT !.mask = ProtectNow, !.flags = ProtectNow]
         /\ CommandAt("write", n) = [Cmd("write") EXCEPT !.n = n]
         /\ CommandAt("restore_set", n) = [Cmd("set_mask") EXCEPT !.flags = {"lid_closed"}]
BY DEF CommandAt, Thinking

LEMMA ParameterValues ==
  ASSUME NEW n \in 1 .. Bursts
  PROVE  /\ Unprotect = [op |-> "protect", n |-> 0, mask |-> ProtectNow, flags |-> {}]
         /\ CommandAt("protect", n) =
              [op |-> "protect", n |-> 0, mask |-> ProtectNow, flags |-> ProtectNow]
         /\ CommandAt("write", n) = [op |-> "write", n |-> n, mask |-> {}, flags |-> {}]
         /\ CommandAt("restore_set", n) =
              [op |-> "set_mask", n |-> 0, mask |-> {}, flags |-> {"lid_closed"}]
<1>1. Unprotect = [op |-> "protect", n |-> 0, mask |-> ProtectNow, flags |-> {}]
  BY DEF Unprotect, Cmd
<1>2. CommandAt("protect", n) =
        [op |-> "protect", n |-> 0, mask |-> ProtectNow, flags |-> ProtectNow]
  <2>1. CommandAt("protect", n) =
          [Cmd("protect") EXCEPT !.mask = ProtectNow, !.flags = ProtectNow]
    BY CommandValues
  <2>2. QED
    BY <2>1 DEF Cmd
<1>3. CommandAt("write", n) = [op |-> "write", n |-> n, mask |-> {}, flags |-> {}]
  <2>1. CommandAt("write", n) = [Cmd("write") EXCEPT !.n = n]
    BY CommandValues
  <2>2. QED
    BY <2>1 DEF Cmd
<1>4. CommandAt("restore_set", n) =
        [op |-> "set_mask", n |-> 0, mask |-> {}, flags |-> {"lid_closed"}]
  <2>1. CommandAt("restore_set", n) = [Cmd("set_mask") EXCEPT !.flags = {"lid_closed"}]
    BY CommandValues
  <2>2. QED
    BY <2>1 DEF Cmd
<1>5. QED
  BY <1>1, <1>2, <1>3, <1>4

LEMMA PlainTyped ==
  \A op \in Plain : Cmd(op) \in Commands /\ Cmd(op).op = op
<1> TAKE op \in Plain
<1>1. op \notin {"write", "protect"}
  BY DEF Plain
<1>2. Cmd(op) \in Shapes /\ Cmd(op).op = op
  BY <1>1 DEF Cmd, Shapes
<1>3. QED
  BY <1>1, <1>2 DEF Commands

LEMMA CommandsTyped ==
  ASSUME NEW p \in Waiting \cup Thinking, NEW n \in 1 .. Bursts
  PROVE  /\ CommandAt(p, n) \in Commands
         /\ CommandAt(p, n) = NoCmd <=> p \in Thinking
         /\ CommandAt(p, n).op = "none" <=> p \in Thinking
         /\ CommandAt(p, n).op \in {"erase", "write", "jump_rw"} =>
              p = CommandAt(p, n).op
         /\ CommandAt(p, n).op = "protect" => p \in {"protect", "unprotect"}
         /\ CommandAt(p, n).op = "version" => p = "running_rw"
         /\ CommandAt(p, n).op = "hash_get" => p = "hash"
<1>1. Bursts \in Nat \ {0}
  BY EcCommandAssumption DEF EcCommandAssumption
<1>2. CASE p \in Thinking
  BY <1>2, CommandValues, PlainTyped DEF NoCmd, Plain
<1>3. CASE p \in Waiting \ {"unprotect", "protect", "write", "restore_set"}
  <2>1. PICK op \in Plain : CommandAt(p, n) = Cmd(op) /\ op # "none"
                             /\ (op \in {"erase", "jump_rw"} => p = op)
                             /\ (op = "version" => p = "running_rw")
                             /\ (op = "hash_get" => p = "hash")
    BY <1>3, CommandValues DEF Waiting, Plain
  <2>2. p \notin Thinking /\ op \notin {"write", "protect"}
    BY <1>3 DEF Waiting, Thinking, Plain
  <2>3. Cmd(op).op = op /\ Cmd(op) \in Commands /\ NoCmd.op = "none"
    BY PlainTyped DEF NoCmd, Plain
  <2>4. QED
    BY <2>1, <2>2, <2>3
<1>4. CASE p \in {"unprotect", "protect", "write", "restore_set"}
  <2>1. p \notin Thinking /\ NoCmd.op = "none"
    BY <1>4 DEF Thinking, NoCmd, Cmd
  <2>2. CommandAt(p, n) \in Commands
    <3>1. CASE p = "unprotect"
      BY <3>1, CommandValues, ParameterValues DEF Commands, Shapes, Flags
    <3>2. CASE p = "protect"
      BY <3>2, CommandValues, ParameterValues DEF Commands, Shapes, Flags
    <3>3. CASE p = "write"
      BY <1>1, <3>3, CommandValues, ParameterValues DEF Commands, Shapes
    <3>4. CASE p = "restore_set"
      BY <3>4, CommandValues, ParameterValues DEF Commands, Shapes, Plain
    <3>5. QED
      BY <1>4, <3>1, <3>2, <3>3, <3>4
  <2>3. CommandAt(p, n).op = IF p \in {"unprotect", "protect"} THEN "protect"
                             ELSE IF p = "write" THEN "write" ELSE "set_mask"
    BY <1>4, CommandValues, ParameterValues
  <2>4. QED
    BY <1>4, <2>1, <2>2, <2>3
<1>5. QED
  BY <1>2, <1>3, <1>4

LEMMA CallsListed ==
  ASSUME NEW p \in Waiting \cup Thinking, NEW n \in 1 .. Bursts
  PROVE  \E q \in Steps, k \in 1 .. Bursts : CommandAt(p, n) = CommandAt(q, k)
<1>1. \A m \in 1 .. Bursts :
        /\ CommandAt("clear_get", m) = CommandAt("get_mask", m)
        /\ CommandAt("restore_get", m) = CommandAt("get_mask", m)
        /\ p \in Thinking => CommandAt(p, m) = CommandAt("booted", m)
  BY DEF CommandAt, Thinking
<1>2. CASE p \in {"clear_get", "restore_get"}
  BY <1>1, <1>2 DEF Steps
<1>3. CASE p \in Thinking
  BY <1>1, <1>3 DEF Steps
<1>4. CASE p \in Steps
  BY <1>4
<1>5. QED
  BY <1>2, <1>3, <1>4 DEF Waiting, Steps

-------------------------------------------------------------------------------
(* The EC.                                                                   *)
LEMMA ProtectedFlags ==
  ASSUME NEW e \in EcStates, NEW c \in Commands, c.op = "protect"
  PROVE  /\ Protected(c, e) \in SUBSET Flags
         /\ Asserted \subseteq Protected(c, e) <=> Asserted \subseteq e.flags
         /\ c.flags = ProtectNow => "all_at_boot" \in Protected(c, e)
         /\ c.flags = {} => "all_at_boot" \notin Protected(c, e)
<1>1. e.flags \in SUBSET Flags /\ c.mask = ProtectNow /\ c.flags \in {{}, ProtectNow}
  BY DEF EcStates, Commands
<1>2. QED
  BY <1>1 DEF Protected, Flags, ProtectNow, Asserted

LEMMA EffectTyped ==
  ASSUME NEW e \in EcStates, NEW c \in Commands
  PROVE  /\ Effect(c, e) \in EcStates
         /\ Effect(c, e).own = e.own /\ Effect(c, e).pending = e.pending
         /\ Effect(c, e).saved = e.saved
         /\ c.op \notin {"erase", "write"} => Effect(c, e).rw = e.rw
         /\ Effect(c, e).flags = IF c.op = "protect" THEN Protected(c, e) ELSE e.flags
         /\ c.op # "jump_rw" => Effect(c, e).image = e.image
         /\ "match" \in Effect(c, e).hash =>
              Effect(c, e).hash = e.hash /\ Effect(c, e).rw = e.rw
         /\ c.op = "hash_get" => Effect(c, e) = e
<1>1. CASE c.op = "erase"
  <2>1. Effect(c, e) = [e EXCEPT !.rw = Image("erased"), !.hash = {}]
    BY <1>1 DEF Effect
  <2>2. Image("erased") \in [1 .. Bursts -> Cells]
    BY DEF Image, Cells
  <2>3. QED
    BY <1>1, <2>1, <2>2 DEF EcStates
<1>2. CASE c.op = "write"
  <2>1. Effect(c, e) = [e EXCEPT !.rw[c.n] = IF @ = "erased" THEN "new" ELSE "mixed",
                                 !.hash = {}]
    BY <1>2 DEF Effect
  <2>2. c.n \in 1 .. Bursts /\ e.rw \in [1 .. Bursts -> Cells]
    BY <1>2 DEF Commands, EcStates
  <2>3. [e.rw EXCEPT ![c.n] = IF @ = "erased" THEN "new" ELSE "mixed"] \in [1 .. Bursts -> Cells]
    BY <2>2 DEF Cells
  <2>4. QED
    BY <1>2, <2>1, <2>3 DEF EcStates
<1>3. CASE c.op = "protect"
  <2>1. Effect(c, e) = [e EXCEPT !.flags = Protected(c, e)]
    BY <1>3 DEF Effect
  <2>2. QED
    BY <1>3, <2>1, ProtectedFlags DEF EcStates
<1>4. CASE c.op \in {"hash_start", "jump_rw", "disable_jump", "reboot_at_shutdown", "set_mask", "protect_tunnels"}
  <2>1. CASE c.op = "hash_start"
    BY <2>1 DEF Effect, EcStates
  <2>2. CASE c.op = "jump_rw"
    BY <2>2 DEF Effect, EcStates
  <2>3. CASE c.op \in {"disable_jump", "reboot_at_shutdown"}
    BY <2>3 DEF Effect, EcStates
  <2>4. CASE c.op = "set_mask"
    BY <2>4 DEF Effect, EcStates
  <2>5. CASE c.op = "protect_tunnels"
    BY <2>5 DEF Effect, EcStates
  <2>6. QED
    BY <1>4, <2>1, <2>2, <2>3, <2>4, <2>5
<1>5. CASE c.op \notin {"erase", "write", "protect", "hash_start", "jump_rw", "disable_jump",
                       "reboot_at_shutdown", "set_mask", "protect_tunnels"}
  BY <1>5 DEF Effect
<1>6. QED
  BY <1>1, <1>2, <1>3, <1>4, <1>5

LEMMA RunTyped ==
  ASSUME NEW e \in EcStates, NEW c \in Commands
  PROVE  /\ Run(c, e) \in EcStates /\ Result(c, e) \in Answers
         /\ Run(c, e).own = e.own /\ Run(c, e).pending = e.pending
         /\ Run(c, e).saved = e.saved
         /\ c.op \notin {"erase", "write"} => Run(c, e).rw = e.rw
         /\ c.op # "protect" => Run(c, e).flags = e.flags
         /\ c.op # "jump_rw" => Run(c, e).image = e.image
         /\ "match" \in Run(c, e).hash => Run(c, e).hash = e.hash /\ Run(c, e).rw = e.rw
<1>1. Data(c, e) \in SUBSET Words
  <2>1. CASE c.op = "protect"
    BY <2>1, ProtectedFlags DEF Data, Words, Flags
  <2>2. CASE c.op # "protect"
    BY <2>2 DEF Data, Words, EcStates
  <2>3. QED
    BY <2>1, <2>2
<1>2. QED
  BY <1>1, EffectTyped DEF Run, Result, Error, Ok, Answers

LEMMA ResultMeans ==
  ASSUME NEW e \in EcStates, NEW c \in Commands
  PROVE  /\ "match" \in Result(c, e).data => "match" \in e.hash /\ Run(c, e) = e
         /\ c.op = "version" => Result(c, e).data = {e.image} /\ Run(c, e) = e
         /\ c.op = "protect" =>
              Result(c, e).data = Protected(c, e) /\ Run(c, e).flags = Protected(c, e)
<1>1. CASE c.op = "hash_get"
  BY <1>1, EffectTyped DEF Result, Run, Error, Ok, Data
<1>2. CASE c.op = "version"
  BY <1>2 DEF Result, Run, Refused, Ok, Data, Effect, EcStates
<1>3. CASE c.op = "protect"
  <2>1. ~Refused(c, e)
    BY <1>3 DEF Refused
  <2>2. Result(c, e).data = Protected(c, e) /\ Run(c, e).flags = Protected(c, e)
    BY <1>3, <2>1, EffectTyped DEF Result, Run, Ok, Data
  <2>3. "match" \notin Protected(c, e)
    BY <1>3, ProtectedFlags DEF Flags, Asserted, ProtectNow
  <2>4. QED
    BY <1>3, <2>2, <2>3
<1>4. CASE c.op \notin {"hash_get", "version", "protect"}
  BY <1>4 DEF Result, Error, Ok, Data
<1>5. QED
  BY <1>1, <1>2, <1>3, <1>4

LEMMA ResetTyped ==
  ASSUME NEW e \in EcStates, NEW d \in Damaged(e)
  PROVE  /\ Reset(d) \in EcStates
         /\ Reset(d).own = FALSE /\ Reset(d).pending = NoCmd
         /\ Reset(d).saved = Unavailable
         /\ Reset(d).hash = {} /\ Reset(d).image = "ro" /\ Reset(d).jump = TRUE
         /\ e.pending.op \notin {"erase", "write"} => Reset(d).rw = e.rw
         /\ Reset(d).flags = IF Asserted \cup {"all_at_boot"} \subseteq e.flags
                             THEN e.flags \cup {"all_now"} ELSE e.flags \ {"all_now"}
<1>1. d \in EcStates /\ d.flags = e.flags
      /\ (e.pending.op \notin {"erase", "write"} => d.rw = e.rw)
  <2>1. CASE d = e
    BY <2>1
  <2>2. CASE e.pending.op = "erase" /\ d = [e EXCEPT !.rw = Image("mixed")]
    BY <2>2 DEF EcStates, Image, Cells
  <2>3. CASE e.pending.op = "write" /\ d = [e EXCEPT !.rw[e.pending.n] = "mixed"]
    <3>1. [e.rw EXCEPT ![e.pending.n] = "mixed"] \in [1 .. Bursts -> Cells]
      BY DEF EcStates, Cells
    <3>2. QED
      BY <2>3, <3>1 DEF EcStates
  <2>4. QED
    BY <2>1, <2>2, <2>3 DEF Damaged
<1>2. NoCmd \in Commands
  BY PlainTyped DEF NoCmd, Plain
<1>3. /\ Unavailable \in Answers \cup {Unavailable}
      /\ \A f \in SUBSET Flags :
           f \cup {"all_now"} \in SUBSET Flags /\ f \ {"all_now"} \in SUBSET Flags
  BY DEF Flags, ProtectNow
<1> DEFINE flags == IF Asserted \cup {"all_at_boot"} \subseteq d.flags
                    THEN d.flags \cup {"all_now"} ELSE d.flags \ {"all_now"}
<1>4. Reset(d) =
        [d EXCEPT !.image = "ro", !.hash = {}, !.jump = TRUE, !.at_shutdown = FALSE,
                  !.lid = FALSE, !.tunnels = FALSE, !.flags = flags,
                  !.pending = NoCmd, !.own = FALSE, !.saved = Unavailable]
  BY <1>1 DEF Reset, EcStates
<1>5. flags \in SUBSET Flags
  BY <1>1, <1>3 DEF EcStates
<1> HIDE DEF flags
<1> DEFINE r == [d EXCEPT !.image = "ro", !.hash = {}, !.jump = TRUE, !.at_shutdown = FALSE]
           s == [r EXCEPT !.lid = FALSE, !.tunnels = FALSE, !.flags = flags,
                          !.pending = NoCmd, !.own = FALSE, !.saved = Unavailable]
<1>6. r \in EcStates /\ r.rw = d.rw /\ r.hash = {} /\ r.image = "ro" /\ r.jump = TRUE
  BY <1>1 DEF EcStates
<1>7. Reset(d) = s
  BY <1>1, <1>4 DEF EcStates
<1> HIDE DEF r
<1>8. /\ s \in EcStates /\ s.flags = flags /\ s.rw = r.rw
      /\ s.own = FALSE /\ s.pending = NoCmd /\ s.saved = Unavailable
      /\ s.hash = r.hash /\ s.image = r.image /\ s.jump = r.jump
  BY <1>2, <1>5, <1>6 DEF EcStates
<1> HIDE DEF s
<1>9. QED
  BY <1>1, <1>6, <1>7, <1>8 DEF flags

-------------------------------------------------------------------------------
(* The steps of the AP that go on to another step: each forgets the command  *)
(* at hand, and the EC works for nobody.                                     *)
Moved ==
  \E p \in Waiting \cup Thinking, n \in 1 .. Bursts :
    /\ Goto(p, n) /\ burst' = n
    /\ ec' \in EcStates /\ ec'.own = FALSE
    /\ ec'.hash = {} \/ (ec'.hash = ec.hash /\ ec'.rw = ec.rw)
    /\ in_rw' \in BOOLEAN /\ recovery' \in BOOLEAN

Stays == UNCHANGED <<pc, board, sync, aux>>

LEMMA Quiet ==
  ASSUME TypeInv, CallInv, phase \in {"answered", "none"}
  PROVE  ec.own = FALSE
BY DEF TypeInv, CallInv, EcStates

LEMMA GoOnMoves ==
  ASSUME TypeInv, ec.own = FALSE, NEW p \in Waiting \cup Thinking,
         GoOn(p) \/ NewLoop(p) \/ Again(p)
  PROVE  Moved /\ ec' = ec /\ in_rw' = in_rw /\ recovery' = recovery /\ pc' = p
<1>1. /\ Goto(p, burst) /\ ec' = ec /\ burst' = burst
      /\ in_rw' = in_rw /\ recovery' = recovery
  BY DEF GoOn, NewLoop, Again, sync
<1>2. QED
  BY <1>1 DEF Moved, TypeInv, Goto

LEMMA StartApMoves ==
  ASSUME TypeInv, NEW e \in EcStates, NEW rec \in BOOLEAN, NEW disp,
         StartAp(e, rec, disp), e = ec \/ e.hash = {}
  PROVE  /\ Moved /\ recovery' = rec /\ in_rw' = FALSE
         /\ pc' = IF rec THEN "limit" ELSE "running_rw"
         /\ ec'.rw = e.rw /\ ec'.pending = e.pending /\ ec'.hash = e.hash
         /\ ec'.flags = e.flags /\ ec'.image = e.image
<1>1. board.lid_gbb \in BOOLEAN /\ board.x86 \in BOOLEAN
  BY EcSyncAssumption DEF EcSyncAssumption, TypeInv
<1>2. /\ ec' = [e EXCEPT !.own = FALSE, !.lid = board.x86 /\ ~board.lid_gbb]
      /\ Goto(IF rec THEN "limit" ELSE "running_rw", 1) /\ burst' = 1
      /\ in_rw' = FALSE /\ recovery' = rec
  BY DEF StartAp
<1>3. /\ ec' \in EcStates /\ ec'.own = FALSE
      /\ ec'.hash = {} \/ (ec'.hash = ec.hash /\ ec'.rw = ec.rw)
  BY <1>1, <1>2 DEF EcStates
<1>4. 1 \in 1 .. Bursts
  BY EcCommandAssumption DEF EcCommandAssumption
<1>5. (IF rec THEN "limit" ELSE "running_rw") \in Waiting \cup Thinking
  BY DEF Waiting
<1>6. Moved
  BY <1>2, <1>3, <1>4, <1>5 DEF Moved
<1>7. QED
  BY <1>2, <1>6 DEF Goto, EcStates

LEMMA RestartMoves ==
  ASSUME TypeInv, Recover \/ Restart
  PROVE  /\ Moved /\ in_rw' = FALSE
         /\ pc' = IF recovery' THEN "limit" ELSE "running_rw"
         /\ ec'.rw = ec.rw /\ ec'.pending = ec.pending /\ ec'.hash = ec.hash
         /\ ec'.flags = ec.flags /\ ec'.image = ec.image
BY StartApMoves DEF TypeInv, Recover, Restart

LEMMA RestartSafe ==
  ASSUME TypeInv, Recover \/ Restart
  PROVE  Moved /\ SyncInv'
<1>1. pc' = IF recovery' THEN "limit" ELSE "running_rw"
  BY RestartMoves
<1>2. SyncInv'
  BY <1>1 DEF SyncInv, Opens, Checks, Compareds, Protecteds
<1>3. QED
  BY <1>2, RestartMoves

LEMMA RestartedSafe ==
  ASSUME TypeInv, NEW e \in EcStates, NEW rec \in BOOLEAN, NEW disp,
         StartAp(e, rec, disp), e = ec \/ e.hash = {}
  PROVE  Moved /\ SyncInv'
<1>1. pc' = IF recovery' THEN "limit" ELSE "running_rw"
  BY StartApMoves
<1>2. SyncInv'
  BY <1>1 DEF SyncInv, Opens, Checks, Compareds, Protecteds
<1>3. QED
  BY <1>2, StartApMoves

(* Every step of software sync keeps what is known of the EC.                *)
LEMMA SyncMoves ==
  ASSUME IInv, SyncStep
  PROVE  Moved /\ SyncInv'
<1> USE DEF IInv
<1> DEFINE places == Waiting \cup Thinking
<1>0. /\ phase \in {"answered", "none"} => ec.own = FALSE
      /\ pc \in Thinking => phase = "none"
      /\ phase = "answered" /\ answer.ok => ec.pending = NoCmd
      /\ phase = "answered" => Confirms(answer, pc, ec) /\ answer \in Answers
      /\ NoCmd.op = "none" /\ ec \in EcStates /\ recovery \in BOOLEAN
  BY Quiet, PlainTyped DEF TypeInv, CallInv, AnswersRight, NoCmd, Plain
<1>1. CASE RunningRw
  <2>1. CASE Recover
    BY <2>1, RestartSafe
  <2>2. CASE ~Recover
    <3>1. /\ Answered("running_rw") /\ answer.ok /\ Goto("hash", burst) /\ ec' = ec
          /\ in_rw' = ("rw" \in answer.data) /\ recovery' = recovery /\ burst' = burst
      BY <1>1, <2>2 DEF RunningRw
    <3>2. Moved
      BY <1>0, <3>1 DEF Moved, Answered, TypeInv, Waiting
    <3>3. in_rw' \/ ec.image = "ro"
      BY <1>0, <3>1 DEF Confirms, Answered
    <3>4. SyncInv'
      BY <1>0, <3>1, <3>3 DEF SyncInv, Answered, Goto, Opens, Checks, Compareds, Protecteds
    <3>5. QED
      BY <3>2, <3>4
  <2>3. QED
    BY <2>1, <2>2
<1>2. CASE HashFails \/ ExpectedHashMissing \/ ImageMissing
  BY <1>0, <1>2, RestartedSafe DEF HashFails, ExpectedHashMissing, ImageMissing
<1>3. CASE HashAgain
  <2>1. pc = "hash" /\ ec.own = FALSE
    BY <1>0, <1>3 DEF HashAgain, Answered
  <2>2. PICK p \in {"hash_start", "hash"} : GoOn(p) \/ Again(p)
    BY <1>3 DEF HashAgain
  <2>3. Moved /\ ec' = ec /\ in_rw' = in_rw /\ recovery' = recovery /\ pc' = p
    BY <2>1, <2>2, GoOnMoves DEF Waiting
  <2>4. QED
    BY <2>1, <2>3 DEF SyncInv, Opens, Checks, Compareds, Protecteds
<1>4. CASE HashStarted
  <2>1. CASE Recover
    BY <2>1, RestartSafe
  <2>2. CASE ~Recover
    <3>1. /\ Answered("hash_start") /\ Goto("hash", burst) /\ ec' = ec
          /\ in_rw' = in_rw /\ recovery' = recovery /\ burst' = burst
      BY <1>4, <2>2 DEF HashStarted
    <3>2. Moved
      BY <1>0, <3>1 DEF Moved, Answered, TypeInv, Waiting
    <3>3. SyncInv'
      BY <3>1 DEF SyncInv, Answered, Goto, Opens, Checks, Compareds, Protecteds
    <3>4. QED
      BY <3>2, <3>3
  <2>3. QED
    BY <2>1, <2>2
<1>5. CASE HashCompared
  <2>1. pc = "hash" /\ ec.own = FALSE /\ answer.ok /\ ec.pending = NoCmd
    BY <1>0, <1>5 DEF HashCompared, Answered
  <2>2. CASE "match" \in answer.data
    <3>1. PICK p \in {"protect", "jump_rw"} : NewLoop(p)
      BY <1>5, <2>2 DEF HashCompared
    <3>2. ec.rw = Image("new")
      BY <1>0, <1>5, <2>2 DEF HashCompared, Answered, Confirms
    <3>3. Moved /\ ec' = ec /\ in_rw' = in_rw /\ recovery' = recovery /\ pc' = p
      BY <2>1, <3>1, GoOnMoves DEF Waiting
    <3>4. QED
      BY <1>0, <2>1, <3>2, <3>3 DEF SyncInv, Opens, Checks, Compareds, Protecteds
  <2>3. CASE "match" \notin answer.data
    <3>1. CASE Recover
      BY <3>1, RestartSafe
    <3>2. CASE GoOn("reboot_to_ro")
      <4>1. Moved /\ ec' = ec /\ in_rw' = in_rw /\ recovery' = recovery /\ pc' = "reboot_to_ro"
        BY <2>1, <3>2, GoOnMoves DEF Waiting
      <4>2. QED
        BY <2>1, <4>1 DEF SyncInv, Opens, Checks, Compareds, Protecteds
    <3>3. CASE ~in_rw /\ GoOn("update")
      <4>1. Moved /\ ec' = ec /\ in_rw' = in_rw /\ recovery' = recovery /\ pc' = "update"
        BY <2>1, <3>3, GoOnMoves DEF Thinking
      <4>2. QED
        BY <2>1, <3>3, <4>1 DEF SyncInv, Opens, Checks, Compareds, Protecteds
    <3>4. QED
      BY <1>5, <2>3, <3>1, <3>2, <3>3 DEF HashCompared
  <2>4. QED
    BY <2>2, <2>3
<1>6. CASE UpdateImage
  <2>1. pc = "update" /\ ec.own = FALSE
    BY <1>0, <1>6 DEF UpdateImage, Thinking
  <2>2. CASE StartAp(ec, recovery, TRUE)
    BY <1>0, <2>2, RestartedSafe
  <2>3. CASE GoOn("unprotect")
    <3>1. Moved /\ ec' = ec /\ in_rw' = in_rw /\ recovery' = recovery /\ pc' = "unprotect"
      BY <2>1, <2>3, GoOnMoves DEF Waiting
    <3>2. QED
      BY <2>1, <3>1 DEF SyncInv, Opens, Checks, Compareds, Protecteds
  <2>4. QED
    BY <1>6, <2>2, <2>3 DEF UpdateImage
<1>7. CASE Unprotected
  <2>1. pc = "unprotect" /\ ec.own = FALSE
    BY <1>0, <1>7 DEF Unprotected, Answered
  <2>2. CASE Recover
    BY <2>2, RestartSafe
  <2>3. CASE GoOn("reboot_to_ro")
    <3>1. Moved /\ ec' = ec /\ in_rw' = in_rw /\ recovery' = recovery /\ pc' = "reboot_to_ro"
      BY <2>1, <2>3, GoOnMoves DEF Waiting
    <3>2. QED
      BY <2>1, <3>1 DEF SyncInv, Opens, Checks, Compareds, Protecteds
  <2>4. CASE answer.ok /\ "all_now" \notin answer.data /\ GoOn("region")
    <3>1. Moved /\ ec' = ec /\ in_rw' = in_rw /\ recovery' = recovery /\ pc' = "region"
      BY <2>1, <2>4, GoOnMoves DEF Waiting
    <3>2. ec.pending = NoCmd /\ ec.flags \cap ProtectNow = {}
      BY <1>0, <1>7, <2>1, <2>4 DEF Unprotected, Answered, Confirms, ProtectNow
    <3>3. QED
      BY <1>0, <2>1, <3>1, <3>2 DEF SyncInv, Opens, Checks, Compareds, Protecteds
  <2>5. QED
    BY <1>7, <2>2, <2>3, <2>4 DEF Unprotected
<1>8. CASE RegionKnown \/ RegionErased \/ VersionsKnown \/ BurstSizeKnown
  <2>1. pc \in Opens /\ ec.own = FALSE
    BY <1>0, <1>8 DEF RegionKnown, RegionErased, VersionsKnown, BurstSizeKnown, Answered, Opens
  <2>2. CASE Recover \/ StartAp(ec, TRUE, display)
    BY <1>0, <2>2, RestartSafe, RestartedSafe
  <2>3. CASE \E p \in Opens : GoOn(p)
    <3>1. PICK p \in Opens : GoOn(p)
      BY <2>3
    <3>2. Moved /\ ec' = ec /\ in_rw' = in_rw /\ recovery' = recovery /\ pc' = p
      BY <2>1, <3>1, GoOnMoves DEF Waiting, Opens
    <3>3. QED
      BY <2>1, <3>2 DEF SyncInv, Opens, Checks, Compareds, Protecteds
  <2>4. QED
    BY <1>8, <2>2, <2>3 DEF RegionKnown, RegionErased, VersionsKnown, BurstSizeKnown, Opens
<1>9. CASE Written
  <2>1. pc = "write" /\ ec.own = FALSE
    BY <1>0, <1>9 DEF Written, Answered
  <2>2. CASE Recover
    BY <2>2, RestartSafe
  <2>3. CASE ~Recover
    <3>1. /\ \/ burst < Bursts /\ Goto("write", burst + 1) /\ burst' = burst + 1
             \/ Goto("hash", burst) /\ burst' = burst
          /\ ec' = ec /\ in_rw' = in_rw /\ recovery' = recovery
      BY <1>9, <2>3 DEF Written
    <3>2. burst \in 1 .. Bursts /\ Bursts \in Nat
      BY EcCommandAssumption DEF EcCommandAssumption, TypeInv
    <3>3. Moved
      <4>1. CASE burst < Bursts /\ Goto("write", burst + 1) /\ burst' = burst + 1
        <5>1. burst + 1 \in 1 .. Bursts
          BY <3>2, <4>1
        <5>2. QED
          BY <1>0, <2>1, <3>1, <4>1, <5>1 DEF Moved, TypeInv, Waiting
      <4>2. CASE Goto("hash", burst) /\ burst' = burst
        BY <1>0, <2>1, <3>1, <3>2, <4>2 DEF Moved, TypeInv, Waiting
      <4>3. QED
        BY <3>1, <4>1, <4>2
    <3>4. pc' \in {"write", "hash"}
      BY <3>1 DEF Goto
    <3>5. QED
      BY <2>1, <3>1, <3>3, <3>4 DEF SyncInv, Opens, Checks, Compareds, Protecteds
  <2>4. QED
    BY <2>2, <2>3
<1>10. CASE JumpedToRw \/ Hello \/ LimitWait \/ JumpDisabled \/ LimitDone
  <2>1. ec.own = FALSE /\ pc \in {"jump_rw", "hello", "limit", "disable_jump"}
    BY <1>0, <1>10 DEF JumpedToRw, Hello, LimitWait, JumpDisabled, LimitDone, Answered
  <2>2. CASE Recover \/ Restart
    BY <2>2, RestartSafe
  <2>3. CASE \E p \in {"hello", "protect"} : pc \in {"jump_rw", "hello"} /\ (NewLoop(p) \/ Again(p))
    <3>1. PICK p \in {"hello", "protect"} : NewLoop(p) \/ Again(p)
      BY <2>3
    <3>2. Moved /\ ec' = ec /\ in_rw' = in_rw /\ recovery' = recovery /\ pc' = p
      BY <2>1, <3>1, GoOnMoves DEF Waiting
    <3>3. QED
      BY <2>3, <3>2 DEF SyncInv, Opens, Checks, Compareds, Protecteds
  <2>4. CASE pc \in {"disable_jump", "limit"} /\ (NewLoop("limit") \/ Again("limit"))
    <3>1. Moved /\ ec' = ec /\ in_rw' = in_rw /\ recovery' = recovery /\ pc' = "limit"
      BY <2>1, <2>4, GoOnMoves DEF Waiting
    <3>2. QED
      BY <2>4, <3>1 DEF SyncInv, Opens, Checks, Compareds, Protecteds
  <2>5. CASE \E p \in {"shutdown", "recovery", "auxfw"} :
               pc = "limit" /\ GoOn(p) /\ (recovery => p # "auxfw")
    <3>1. PICK p \in {"shutdown", "recovery", "auxfw"} : GoOn(p) /\ (recovery => p # "auxfw")
      BY <2>5
    <3>2. Moved /\ ec' = ec /\ in_rw' = in_rw /\ recovery' = recovery /\ pc' = p
      BY <2>1, <3>1, GoOnMoves DEF Thinking
    <3>3. QED
      BY <2>5, <3>1, <3>2 DEF SyncInv, Opens, Checks, Compareds, Protecteds
  <2>6. QED
    BY <1>0, <1>10, <2>2, <2>3, <2>4, <2>5
    DEF JumpedToRw, Hello, LimitWait, JumpDisabled, LimitDone, Answered
<1>11. CASE ProtectSet
  <2>1. pc = "protect" /\ ec.own = FALSE
    BY <1>0, <1>11 DEF ProtectSet, Answered
  <2>2. CASE Recover
    BY <2>2, RestartSafe
  <2>3. CASE GoOn("reboot_to_ro")
    <3>1. Moved /\ ec' = ec /\ in_rw' = in_rw /\ recovery' = recovery /\ pc' = "reboot_to_ro"
      BY <2>1, <2>3, GoOnMoves DEF Waiting
    <3>2. QED
      BY <2>1, <3>1 DEF SyncInv, Opens, Checks, Compareds, Protecteds
  <2>4. CASE /\ answer.ok /\ GoOn("disable_jump")
             /\ ~(Asserted \subseteq answer.data) \/ "all_now" \in answer.data
    <3>1. Moved /\ ec' = ec /\ in_rw' = in_rw /\ recovery' = recovery /\ pc' = "disable_jump"
      BY <2>1, <2>4, GoOnMoves DEF Waiting
    <3>2. /\ ec.pending = NoCmd /\ "all_at_boot" \in ec.flags
          /\ Asserted \subseteq ec.flags => "all_now" \in ec.flags
      BY <1>0, <1>11, <2>1, <2>4 DEF ProtectSet, Answered, Confirms
    <3>3. QED
      BY <1>0, <2>1, <3>1, <3>2 DEF SyncInv, Opens, Checks, Compareds, Protecteds
  <2>5. QED
    BY <1>11, <2>2, <2>3, <2>4 DEF ProtectSet
<1>12. CASE RebootToRo
  <2>1. CASE ec.at_shutdown
    <3>1. PICK d \in Damaged(ec) : StartAp(Reset(d), recovery, FALSE)
      BY <1>12, <2>1 DEF RebootToRo
    <3>2. Reset(d) \in EcStates /\ Reset(d).hash = {}
      BY <1>0, ResetTyped
    <3>3. QED
      BY <1>0, <3>1, <3>2, RestartedSafe
  <2>2. CASE ~ec.at_shutdown
    <3>1. StartAp(ec, recovery, FALSE)
      BY <1>12, <2>2 DEF RebootToRo
    <3>2. QED
      BY <1>0, <3>1, RestartedSafe
  <2>3. QED
    BY <2>1, <2>2
<1>13. QED
  BY <1>1, <1>2, <1>3, <1>4, <1>5, <1>6, <1>7, <1>8, <1>9, <1>10, <1>11, <1>12 DEF SyncStep

-------------------------------------------------------------------------------
(* The update of auxiliary firmware.                                         *)
ChipStates == [update: {"none", "fast", "slow"}, fw: {"new", "old", "bad"}]

LEMMA ChipsTyped ==
  ASSUME chips \in Seq(ChipStates), NEW fw \in {"new", "bad"},
         chips' = [chips EXCEPT ![chip].fw = fw]
  PROVE  chips' \in Seq(ChipStates)
<1>1. Len(chips) \in Nat /\ DOMAIN chips = 1 .. Len(chips)
      /\ \A i \in 1 .. Len(chips) : chips[i] \in ChipStates
  OBVIOUS
<1>2. /\ DOMAIN chips' = 1 .. Len(chips)
      /\ \A i \in 1 .. Len(chips) : chips'[i] \in ChipStates
  BY <1>1 DEF ChipStates
<1>3. chips' \in [1 .. Len(chips) -> ChipStates]
  BY <1>1, <1>2
<1>4. QED
  BY <1>1, <1>3, SeqDef

\* The largest severity is that of some chip, and no other's is larger.
LEMMA LargestSeverity ==
  ASSUME chips \in Seq(ChipStates),
         severity' = [i \in DOMAIN chips |-> Severity(chips[i])],
         ~(MaxSeverity > NO_UPDATE)
  PROVE  \A i \in DOMAIN chips : chips[i].update # "none" => chips[i].fw = "new"
<1> DEFINE all == {severity'[i] : i \in DOMAIN chips}
<1>1. \A i \in DOMAIN chips :
        /\ chips[i] \in ChipStates /\ severity'[i] = Severity(chips[i])
        /\ severity'[i] \in 0 .. 3
        /\ ~(severity'[i] > 1) => chips[i].update = "none" \/ chips[i].fw = "new"
  <2> TAKE i \in DOMAIN chips
  <2>1. chips[i] \in ChipStates
    OBVIOUS
  <2>2. QED
    BY <2>1 DEF Severity, ChipStates, NO_DEVICE, NO_UPDATE, FAST_UPDATE, SLOW_UPDATE
<1>2. all \subseteq 0 .. 3
  BY <1>1
<1>3. SUFFICES ASSUME NEW k \in DOMAIN chips PROVE ~(severity'[k] > 1)
  BY <1>1
<1>4. severity'[k] \in all /\ chips # <<>>
  OBVIOUS
<1> HIDE DEF all
<1>5. \E m \in all : \A n \in all : n <= m
  <2>1. ASSUME NEW m \in all, \A j \in m + 1 .. 3 : j \notin all
        PROVE  \A n \in all : n <= m
    <3> TAKE n \in all
    <3>1. m \in 0 .. 3 /\ n \in 0 .. 3
      BY <1>2
    <3>2. n \notin m + 1 .. 3
      BY <2>1
    <3>3. QED
      BY <3>1, <3>2
  <2>2. \E m \in all : \A j \in m + 1 .. 3 : j \notin all
    <3>1. CASE 3 \in all
      BY <3>1
    <3>2. CASE 3 \notin all /\ 2 \in all
      BY <3>2
    <3>3. CASE 3 \notin all /\ 2 \notin all /\ 1 \in all
      <4>1. \A j \in 1 + 1 .. 3 : j = 2 \/ j = 3
        OBVIOUS
      <4>2. QED
        BY <3>3, <4>1
    <3>4. CASE 3 \notin all /\ 2 \notin all /\ 1 \notin all
      <4>1. severity'[k] \notin {1, 2, 3} /\ severity'[k] \in 0 .. 3
        BY <1>1, <1>4, <3>4
      <4>2. \A j \in 0 + 1 .. 3 : j = 1 \/ j = 2 \/ j = 3
        OBVIOUS
      <4>3. severity'[k] = 0
        BY <4>1
      <4>4. QED
        BY <1>4, <3>4, <4>2, <4>3
    <3>5. QED
      BY <3>1, <3>2, <3>3, <3>4
  <2>3. QED
    BY <2>1, <2>2
<1>6. \E m \in all : \A i \in DOMAIN chips : severity'[i] <= m
  BY <1>5 DEF all
<1>7. MaxSeverity = CHOOSE m \in all : \A i \in DOMAIN chips : severity'[i] <= m
  BY <1>4 DEF MaxSeverity, all
<1>8. MaxSeverity \in all /\ severity'[k] <= MaxSeverity
  BY <1>6, <1>7
<1>9. QED
  BY <1>1, <1>2, <1>8 DEF NO_UPDATE

(* Every step of the update keeps what is known of the EC, and the kernel is *)
(* not started before a check finds all chips current.                       *)
LEMMA AuxMoves ==
  ASSUME IInv, AuxStep \/ AuxfwCheckFails
  PROVE  Moved /\ SyncInv' /\ ChipInv'
<1> USE DEF IInv
<1>0. /\ phase \in {"answered", "none"} => ec.own = FALSE
      /\ pc \in Thinking => phase = "none"
      /\ ec \in EcStates /\ recovery \in BOOLEAN
      /\ chips \in Seq(ChipStates)
  BY Quiet DEF TypeInv, CallInv, ChipInv, ChipStates
<1>1. ASSUME NEW p \in {"screen", "tunnels", "chip", "apply", "get_mask", "clear_get",
                        "clear_set", "recheck", "end", "restore_get", "restore_set",
                        "return", "booted", "reboot_to_ro"},
             GoOn(p), ec.own = FALSE,
             pc \in Protecteds \ {"disable_jump", "limit", "booted"}
      PROVE  Moved /\ SyncInv' /\ pc' = p
  <2>1. Moved /\ ec' = ec /\ in_rw' = in_rw /\ recovery' = recovery /\ pc' = p
    BY <1>1, GoOnMoves DEF Waiting, Thinking
  <2>2. QED
    BY <1>1, <2>1 DEF SyncInv, Opens, Checks, Compareds, Protecteds
<1>2. ASSUME Recover \/ Restart, chips' = chips
      PROVE  Moved /\ SyncInv' /\ ChipInv'
  <2>1. pc' = IF recovery' THEN "limit" ELSE "running_rw"
    BY <1>2, RestartMoves
  <2>2. QED
    BY <1>2, <2>1, RestartSafe DEF ChipInv
<1>3. ASSUME pc' \notin {"tunnels", "booted"}, chips' = chips
      PROVE  ChipInv'
  BY <1>3 DEF ChipInv
<1>4. ASSUME NEW fw \in {"new", "bad"}, chips' = [chips EXCEPT ![chip].fw = fw],
             pc' \notin {"tunnels", "booted"}
      PROVE  ChipInv'
  BY <1>0, <1>4, ChipsTyped DEF ChipInv, ChipStates
<1>5. CASE AuxfwCheck
  <2>1. pc = "auxfw" /\ chips' = chips /\ ec.own = FALSE
    BY <1>0, <1>5 DEF AuxfwCheck, Thinking
  <2>2. CASE MaxSeverity > NO_UPDATE
    <3>1. GoOn("screen")
      BY <1>5, <2>2 DEF AuxfwCheck
    <3>2. QED
      BY <1>1, <1>3, <2>1, <3>1 DEF Protecteds
  <2>3. CASE ~(MaxSeverity > NO_UPDATE)
    <3>1. GoOn("tunnels") /\ severity' = [i \in DOMAIN chips |-> Severity(chips[i])]
      BY <1>5, <2>3 DEF AuxfwCheck
    <3>2. \A i \in DOMAIN chips : chips[i].update # "none" => chips[i].fw = "new"
      BY <1>0, <2>3, <3>1, LargestSeverity
    <3>3. Moved /\ SyncInv'
      BY <1>1, <2>1, <3>1 DEF Protecteds
    <3>4. QED
      BY <2>1, <3>2, <3>3 DEF ChipInv
  <2>4. QED
    BY <2>2, <2>3
<1>6. CASE AuxfwCheckFails
  BY <1>2, <1>6 DEF AuxfwCheckFails, aux
<1>7. CASE SyncScreen
  <2>1. pc = "screen" /\ chips' = chips /\ ec.own = FALSE
    BY <1>0, <1>7 DEF SyncScreen, Thinking, aux
  <2>2. CASE StartAp(ec, recovery, TRUE)
    <3>1. pc' = IF recovery' THEN "limit" ELSE "running_rw"
      BY <1>0, <2>2, StartApMoves
    <3>2. QED
      BY <1>0, <1>3, <2>1, <2>2, <3>1, RestartedSafe
  <2>3. CASE GoOn("chip")
    BY <1>1, <1>3, <2>1, <2>3 DEF Protecteds
  <2>4. QED
    BY <1>7, <2>2, <2>3 DEF SyncScreen
<1>8. CASE SkipChip \/ UpdateChip \/ LastChip
  <2>1. pc = "chip" /\ chips' = chips /\ ec.own = FALSE
    BY <1>0, <1>8 DEF SkipChip, UpdateChip, LastChip, NextChip, Thinking, aux
  <2>2. PICK p \in {"chip", "apply", "get_mask", "end"} : GoOn(p)
    BY <1>8 DEF SkipChip, UpdateChip, LastChip
  <2>3. QED
    BY <1>1, <1>3, <2>1, <2>2 DEF Protecteds
<1>9. CASE MaskKnown \/ ClearMask \/ MaskCleared \/ RestoreMask \/ MaskRestored
  <2>1. /\ pc \in {"get_mask", "clear_get", "clear_set", "restore_get", "restore_set"}
        /\ chips' = chips /\ ec.own = FALSE
    BY <1>0, <1>9 DEF MaskKnown, ClearMask, MaskCleared, RestoreMask, MaskRestored,
                      MaskAnswer, Answered
  <2>2. PICK p \in {"clear_get", "apply", "clear_set", "restore_set", "return"} : GoOn(p)
    BY <1>9 DEF MaskKnown, ClearMask, MaskCleared, RestoreMask, MaskRestored
  <2>3. QED
    BY <1>1, <1>3, <2>1, <2>2 DEF Protecteds
<1>10. CASE ApplyUpdate
  <2>1. pc = "apply" /\ ec.own = FALSE /\ GoOn("recheck")
    BY <1>0, <1>10 DEF ApplyUpdate, Thinking
  <2>2. PICK fw \in {"new", "bad"} : chips' = [chips EXCEPT ![chip].fw = fw]
    BY <1>10 DEF ApplyUpdate
  <2>3. QED
    BY <1>1, <1>4, <2>1, <2>2 DEF Protecteds
<1>11. CASE ApplyBusy
  <2>1. pc = "apply" /\ ec.own = FALSE /\ GoOn("chip") /\ chips' = chips
    BY <1>0, <1>11 DEF ApplyBusy, NextChip, Thinking
  <2>2. QED
    BY <1>1, <1>3, <2>1 DEF Protecteds
<1>12. ASSUME Fail, ec.own = FALSE, pc \in {"apply", "recheck"}
       PROVE  Moved /\ SyncInv' /\ pc' = "end"
  <2>1. /\ Goto("end", burst) /\ ec' = ec /\ burst' = burst
        /\ in_rw' = in_rw /\ recovery' = recovery
    BY <1>12 DEF Fail, sync
  <2>2. Moved /\ pc' = "end"
    BY <1>12, <2>1 DEF Moved, TypeInv, Goto, Thinking
  <2>3. QED
    BY <1>12, <2>1, <2>2 DEF SyncInv, Opens, Checks, Compareds, Protecteds
<1>13. CASE ApplyFails
  <2>1. /\ pc = "apply" /\ ec.own = FALSE /\ Fail
        /\ chips' = chips \/ chips' = [chips EXCEPT ![chip].fw = "bad"]
    BY <1>0, <1>13 DEF ApplyFails, Thinking
  <2>2. Moved /\ SyncInv' /\ pc' = "end"
    BY <1>12, <2>1
  <2>3. CASE chips' = chips
    BY <1>3, <2>2, <2>3
  <2>4. CASE chips' = [chips EXCEPT ![chip].fw = "bad"]
    BY <1>4, <2>2, <2>4
  <2>5. QED
    BY <2>1, <2>3, <2>4
<1>14. CASE Recheck
  <2>1. pc = "recheck" /\ ec.own = FALSE /\ chips' = chips
    BY <1>0, <1>14 DEF Recheck, NextChip, Thinking
  <2>2. CASE GoOn("chip")
    BY <1>1, <1>3, <2>1, <2>2 DEF Protecteds
  <2>3. CASE Fail
    BY <1>3, <1>12, <2>1, <2>3
  <2>4. QED
    BY <1>14, <2>2, <2>3 DEF Recheck
<1>15. CASE EndRestoring
  <2>1. pc = "end" /\ ec.own = FALSE /\ chips' = chips
    BY <1>0, <1>15 DEF EndRestoring, Thinking, aux
  <2>2. PICK p \in {"restore_get", "return"} : GoOn(p)
    BY <1>15 DEF EndRestoring
  <2>3. QED
    BY <1>1, <1>3, <2>1, <2>2 DEF Protecteds
<1>16. CASE AuxfwReturn
  <2>1. pc = "return" /\ ec.own = FALSE /\ chips' = chips
    BY <1>0, <1>16 DEF AuxfwReturn, Thinking, aux
  <2>2. CASE Recover
    BY <1>2, <2>1, <2>2
  <2>3. CASE GoOn("reboot_to_ro")
    BY <1>1, <1>3, <2>1, <2>3 DEF Protecteds
  <2>4. QED
    BY <1>16, <2>2, <2>3 DEF AuxfwReturn
<1>17. CASE TunnelsProtected
  <2>1. pc = "tunnels" /\ ec.own = FALSE /\ chips' = chips
    BY <1>0, <1>17 DEF TunnelsProtected, Answered, aux
  <2>2. CASE Restart
    BY <1>2, <2>1, <2>2
  <2>3. CASE GoOn("booted")
    <3>1. Moved /\ SyncInv'
      BY <1>1, <2>1, <2>3 DEF Protecteds
    <3>2. QED
      BY <2>1, <3>1 DEF ChipInv
  <2>4. QED
    BY <1>17, <2>2, <2>3 DEF TunnelsProtected
<1>18. QED
  BY <1>5, <1>6, <1>7, <1>8, <1>9, <1>10, <1>11, <1>13, <1>14, <1>15, <1>16, <1>17
  DEF AuxStep

LEMMA PowerLossMoves ==
  ASSUME IInv, PowerLoss, Stays \/ UNCHANGED aux
  PROVE  Moved /\ SyncInv' /\ ChipInv'
<1> USE DEF IInv
<1>1. PICK d \in Damaged(ec) : StartAp(Reset(d), recovery, FALSE)
  BY DEF PowerLoss
<1>2. ec \in EcStates /\ recovery \in BOOLEAN
  BY DEF TypeInv
<1>3. Reset(d) \in EcStates /\ Reset(d).hash = {}
  BY <1>2, ResetTyped
<1>4. pc' = IF recovery' THEN "limit" ELSE "running_rw"
  BY <1>1, <1>2, <1>3, StartApMoves
<1>5. Moved /\ SyncInv'
  BY <1>1, <1>2, <1>3, RestartedSafe
<1>6. chips' = chips
  BY DEF Stays, aux
<1>7. QED
  BY <1>4, <1>5, <1>6 DEF ChipInv

(* After such a step a command waits to be sent, or there is none.           *)
LEMMA MovedKeeps ==
  ASSUME IInv, Moved
  PROVE  TypeInv' /\ CallInv' /\ AnswersRight'
<1> USE DEF IInv
<1>1. PICK p \in Waiting \cup Thinking, n \in 1 .. Bursts :
        /\ Goto(p, n) /\ burst' = n
        /\ ec' \in EcStates /\ ec'.own = FALSE
        /\ ec'.hash = {} \/ (ec'.hash = ec.hash /\ ec'.rw = ec.rw)
        /\ in_rw' \in BOOLEAN /\ recovery' \in BOOLEAN
  BY DEF Moved
<1>2. /\ pc' = p /\ call' = CommandAt(p, n) /\ ran' = NotRun
      /\ phase' = IF p \in Thinking THEN "none" ELSE "send"
      /\ answer' = answer /\ board' = board
  BY <1>1, CommandsTyped DEF Goto
<1>3. TypeInv'
  BY <1>1, <1>2 DEF TypeInv
<1>4. CallInv'
  BY <1>1, <1>2 DEF CallInv
<1>5. AnswersRight'
  BY <1>1, <1>2 DEF AnswersRight
<1>6. QED
  BY <1>3, <1>4, <1>5

-------------------------------------------------------------------------------
(* The driver's steps and the EC's.  The place of the AP stays.              *)
\* What an answered command is known to have shown.
LEMMA ResultConfirms ==
  ASSUME TypeInv, "match" \in ec.hash => ec.rw = Image("new"),
         NEW e \in EcStates, e.rw = Run(call, ec).rw, e.flags = Run(call, ec).flags,
         e.image = Run(call, ec).image
  PROVE  Confirms(Result(call, ec), pc, e)
<1>1. ec \in EcStates /\ call \in Commands /\ call = CommandAt(pc, burst)
      /\ pc \in Waiting \cup Thinking /\ burst \in 1 .. Bursts
  BY CommandsTyped DEF TypeInv
<1> DEFINE a == Result(call, ec)
<1>2. "match" \in a.data => e.rw = Image("new")
  BY <1>1, ResultMeans
<1>3. ASSUME pc = "running_rw"
      PROVE  a.data = {"rw"} \/ e.image = "ro"
  <2>1. call.op = "version"
    BY <1>1, <1>3, CommandValues DEF Cmd
  <2>2. a.data = {ec.image} /\ e.image = ec.image
    BY <1>1, <2>1, ResultMeans
  <2>3. QED
    BY <1>1, <2>2 DEF EcStates
<1>4. ASSUME pc \in {"unprotect", "protect"}
      PROVE  a.data = Protected(call, ec) /\ e.flags = a.data /\ call.op = "protect"
             /\ (pc = "unprotect" => call.flags = {})
             /\ (pc = "protect" => call.flags = ProtectNow)
  <2>1. call.op = "protect" /\ (pc = "unprotect" => call.flags = {})
        /\ (pc = "protect" => call.flags = ProtectNow)
    BY <1>1, <1>4, CommandValues, ParameterValues
  <2>2. QED
    BY <1>1, <2>1, ResultMeans
<1> HIDE DEF a
<1>5. ASSUME pc = "unprotect"
      PROVE  "all_at_boot" \notin e.flags /\ ("all_now" \in e.flags => "all_now" \in a.data)
  BY <1>1, <1>4, <1>5, ProtectedFlags
<1>6. ASSUME pc = "protect"
      PROVE  /\ "all_at_boot" \in e.flags
             /\ Asserted \subseteq e.flags => Asserted \subseteq a.data
             /\ Asserted \subseteq e.flags /\ "all_now" \in a.data => "all_now" \in e.flags
  BY <1>1, <1>4, <1>6, ProtectedFlags
<1>7. Confirms(a, pc, e)
  BY <1>2, <1>3, <1>5, <1>6 DEF Confirms
<1>8. QED
  BY <1>7 DEF a

\* What every one of these steps finds.
LEMMA AtCommand ==
  ASSUME IInv
  PROVE  /\ ec \in EcStates /\ call \in Commands /\ ec.pending \in Commands
         /\ phase # "none" => call # NoCmd
         /\ call.op \in {"erase", "write", "jump_rw"} => pc = call.op
         /\ call.op = "protect" => pc \in {"protect", "unprotect"}
         /\ ec.own <=> phase = "poll" /\ ec.pending # NoCmd
         /\ "match" \in ec.hash => ec.rw = Image("new")
         /\ NoCmd \in Commands /\ NoCmd.op = "none"
BY CommandsTyped, PlainTyped DEF IInv, TypeInv, CallInv, AnswersRight, EcStates, NoCmd, Plain

\* An answer that is an error says nothing.
LEMMA ErrorsSayNothing ==
  /\ Error \in Answers /\ Error.ok = FALSE
  /\ Unavailable.ok = FALSE /\ Unavailable \notin Answers /\ NotRun \notin Answers
  /\ NoAnswer \notin Answers /\ Unavailable # NotRun
  /\ \A a, p, e : a.ok = FALSE => Confirms(a, p, e)
<1>1. Error \in Answers /\ Error.ok = FALSE /\ Unavailable.ok = FALSE
  BY DEF Error, Unavailable, Answers
<1>2. Unavailable \notin Answers /\ NotRun \notin Answers /\ NoAnswer \notin Answers
  BY DEF Unavailable, NotRun, NoAnswer, Answers, Words, Asserted, ProtectNow
<1>3. Unavailable # NotRun
  BY DEF Unavailable, NotRun
<1>4. \A a, p, e : a.ok = FALSE => Confirms(a, p, e)
  BY DEF Confirms
<1>5. QED
  BY <1>1, <1>2, <1>3, <1>4

\* The EC carries out a command: c = call, or one that it was still at.
LEMMA RunKeepsSync ==
  ASSUME IInv, UNCHANGED <<pc, board, sync, chips>>, NEW c \in Commands,
         c = call \/ c = ec.pending, ec' \in EcStates,
         ec'.rw = Run(c, ec).rw, ec'.flags = Run(c, ec).flags,
         ec'.image = Run(c, ec).image,
         ec'.pending = ec.pending \/ ec'.pending = NoCmd
  PROVE  SyncInv' /\ ChipInv'
<1>1. /\ c.op \notin {"erase", "write"} => ec'.rw = ec.rw
      /\ c.op # "protect" => ec'.flags = ec.flags
      /\ c.op # "jump_rw" => ec'.image = ec.image
  BY AtCommand, RunTyped
<1>2. /\ pc' = pc /\ in_rw' = in_rw /\ recovery' = recovery /\ chips' = chips
      /\ SyncInv /\ ChipInv /\ NoCmd.op = "none"
  BY AtCommand DEF IInv, sync
<1>3. CASE c = call
  <2>1. /\ c.op \in {"erase", "write", "jump_rw"} => pc = c.op
        /\ c.op = "protect" => pc \in {"protect", "unprotect"}
    BY <1>3, AtCommand
  <2>2. QED
    BY <1>1, <1>2, <2>1 DEF SyncInv, ChipInv, Opens, Checks, Compareds, Protecteds
<1>4. CASE c = ec.pending
  BY <1>1, <1>2, <1>4 DEF SyncInv, ChipInv, Opens, Checks, Compareds, Protecteds
<1>5. QED
  BY <1>3, <1>4

\* The EC's memory stays: only what it is at or has to hand out changes.
LEMMA SameKeepsSync ==
  ASSUME IInv, UNCHANGED <<pc, board, sync, chips>>,
         ec'.rw = ec.rw, ec'.flags = ec.flags, ec'.image = ec.image,
         \/ ec'.pending = ec.pending
         \/ phase = "send" /\ ec'.pending = call
  PROVE  SyncInv' /\ ChipInv'
<1>1. /\ pc' = pc /\ in_rw' = in_rw /\ recovery' = recovery /\ chips' = chips
      /\ SyncInv /\ ChipInv
  BY DEF IInv, sync
<1>2. /\ call.op \in {"erase", "write", "jump_rw"} => pc = call.op
      /\ call.op = "protect" => pc \in {"protect", "unprotect"}
  BY AtCommand
<1>3. QED
  BY <1>1, <1>2 DEF SyncInv, ChipInv, Opens, Checks, Compareds, Protecteds

LEMMA EcKeeps ==
  ASSUME IInv, EcStep \/ EcReset, UNCHANGED <<pc, board, sync, chips>>
  PROVE  IInv'
<1> USE DEF IInv
<1>0. /\ pc' = pc /\ in_rw' = in_rw /\ recovery' = recovery /\ chips' = chips
      /\ board' = board /\ burst' = burst
  BY DEF sync
<1>1. CASE Finish
  <2> DEFINE c == ec.pending
             r == Run(c, ec)
  <2>1. /\ c # NoCmd /\ call' = call /\ phase' = phase /\ answer' = answer
        /\ ec' = [r EXCEPT !.pending = NoCmd, !.own = FALSE, !.saved = Result(c, ec)]
        /\ ran' = IF ec.own THEN Result(c, ec) ELSE ran
    BY <1>1 DEF Finish
  <2>2. /\ r \in EcStates /\ Result(c, ec) \in Answers
        /\ "match" \in r.hash => r.hash = ec.hash /\ r.rw = ec.rw
    BY AtCommand, RunTyped
  <2>3. /\ ec' \in EcStates /\ ec'.pending = NoCmd /\ ec'.own = FALSE
        /\ ec'.saved = Result(c, ec) /\ ec'.rw = r.rw /\ ec'.flags = r.flags
        /\ ec'.image = r.image /\ ec'.hash = r.hash
    BY <2>1, <2>2, AtCommand DEF EcStates
  <2> HIDE DEF r
  <2>4. TypeInv'
    BY <1>0, <2>1, <2>2, <2>3 DEF TypeInv
  <2>5. phase = "poll" => ec.own = TRUE /\ c = call
    BY <2>1, AtCommand DEF CallInv, EcStates
  <2>6. CallInv'
    BY <2>1, <2>2, <2>3, <2>5, AtCommand DEF CallInv
  <2>7. "match" \in ec'.hash => ec'.rw = Image("new")
    BY <2>2, <2>3, AtCommand
  <2>8. phase = "poll" => Confirms(ec'.saved, pc, ec')
    BY <2>3, <2>5, AtCommand, ResultConfirms DEF r
  <2>9. phase # "resend" /\ (phase = "answered" => answer.ok = FALSE)
    <3>1. phase = "answered" => answer \in Answers
      BY DEF TypeInv
    <3>2. QED
      BY <2>1, <3>1 DEF CallInv, Answers
  <2>10. AnswersRight'
    BY <1>0, <2>1, <2>7, <2>8, <2>9, ErrorsSayNothing DEF AnswersRight
  <2>11. SyncInv' /\ ChipInv'
    BY <2>3, AtCommand, RunKeepsSync DEF r
  <2>12. QED
    BY <2>4, <2>6, <2>10, <2>11
<1>2. CASE HashDone \/ LimitEnds
  <2>1. /\ call' = call /\ phase' = phase /\ answer' = answer /\ ran' = ran
        /\ ec' \in EcStates /\ ec'.pending = ec.pending /\ ec'.own = ec.own
        /\ ec'.saved = ec.saved /\ ec'.rw = ec.rw /\ ec'.flags = ec.flags
        /\ ec'.image = ec.image
        /\ "match" \in ec'.hash => ec'.rw = Image("new")
    <3>1. ec \in EcStates /\ ("match" \in ec.hash => ec.rw = Image("new"))
      BY AtCommand
    <3>2. CASE HashDone /\ ec.rw = Image("new")
      <4>1. ec' = [ec EXCEPT !.hash = {"done", "match"}]
        BY <3>2 DEF HashDone
      <4>2. QED
        BY <3>1, <3>2, <4>1 DEF HashDone, command, EcStates
    <3>3. CASE HashDone /\ ec.rw # Image("new")
      <4>1. ec' = [ec EXCEPT !.hash = {"done", "differs"}]
        BY <3>3 DEF HashDone
      <4>2. QED
        BY <3>1, <3>3, <4>1 DEF HashDone, command, EcStates
    <3>4. CASE LimitEnds
      BY <3>1, <3>4 DEF LimitEnds, command, EcStates
    <3>5. QED
      BY <1>2, <3>2, <3>3, <3>4
  <2>2. TypeInv' /\ CallInv'
    BY <1>0, <2>1 DEF TypeInv, CallInv
  <2>3. \A a : Confirms(a, pc, ec) => Confirms(a, pc, ec')
    BY <2>1 DEF Confirms
  <2>4. AnswersRight'
    BY <1>0, <2>1, <2>3 DEF AnswersRight
  <2>5. SyncInv' /\ ChipInv'
    BY <2>1, SameKeepsSync
  <2>6. QED
    BY <2>2, <2>4, <2>5
<1>3. CASE EcReset
  <2>1. PICK d \in Damaged(ec) : ec' = Reset(d)
    BY <1>3 DEF EcReset
  <2>2. call' = call /\ phase' = phase /\ answer' = answer /\ ran' = ran
    BY <1>3 DEF EcReset, command
  <2>3. /\ ec' \in EcStates /\ ec'.own = FALSE /\ ec'.pending = NoCmd
        /\ ec'.saved = Unavailable /\ ec'.hash = {} /\ ec'.image = "ro"
        /\ ec.pending.op \notin {"erase", "write"} => ec'.rw = ec.rw
        /\ ec'.flags = IF Asserted \cup {"all_at_boot"} \subseteq ec.flags
                       THEN ec.flags \cup {"all_now"} ELSE ec.flags \ {"all_now"}
    BY <2>1, AtCommand, ResetTyped
  <2>4. TypeInv' /\ CallInv'
    BY <1>0, <2>2, <2>3 DEF TypeInv, CallInv
  <2>5. phase = "answered" => Confirms(answer, pc, ec')
    <3>1. phase = "answered" /\ answer.ok => ec.pending = NoCmd
      BY DEF CallInv
    <3>2. ASSUME phase = "answered", answer.ok
          PROVE  Confirms(answer, pc, ec')
      <4>1. ec'.rw = ec.rw /\ Confirms(answer, pc, ec)
        BY <2>3, <3>1, <3>2, AtCommand DEF AnswersRight
      <4>2. QED
        BY <2>3, <4>1 DEF Confirms, Asserted
    <3>3. QED
      BY <3>2 DEF Confirms
  <2>6. AnswersRight'
    BY <1>0, <2>2, <2>3, <2>5, ErrorsSayNothing DEF AnswersRight
  <2>7. SyncInv' /\ ChipInv'
    BY <1>0, <2>3, AtCommand
    DEF SyncInv, ChipInv, Opens, Checks, Compareds, Protecteds, Asserted, ProtectNow
  <2>8. QED
    BY <2>4, <2>6, <2>7
<1>4. QED
  BY <1>1, <1>2, <1>3 DEF EcStep

LEMMA DriverKeeps ==
  ASSUME IInv, DriverStep \/ Loss, UNCHANGED <<pc, board, sync, chips>>
  PROVE  IInv'
<1> USE DEF IInv
<1>0. /\ pc' = pc /\ in_rw' = in_rw /\ recovery' = recovery /\ chips' = chips
      /\ board' = board /\ burst' = burst
  BY DEF sync
<1>1. \A a : Confirms(a, pc, ec)
              => \A e : e.rw = ec.rw /\ e.flags = ec.flags /\ e.image = ec.image
                       => Confirms(a, pc, e)
  BY DEF Confirms
\* The call ends with an error, and the EC may go on for nobody.
<1>2. ASSUME call' = call, phase \in {"send", "poll", "resend"}, phase' = "answered",
             answer' = Error, ran' \in Answers \cup {NotRun},
             ec' \in EcStates, ec'.own = FALSE,
             "match" \in ec'.hash => ec'.rw = Image("new"), SyncInv', ChipInv'
      PROVE  IInv'
  <2>1. TypeInv'
    BY <1>0, <1>2, ErrorsSayNothing DEF TypeInv, Waiting, Thinking
  <2>2. CallInv'
    BY <1>2, ErrorsSayNothing DEF CallInv
  <2>3. AnswersRight'
    BY <1>2, ErrorsSayNothing DEF AnswersRight
  <2>4. QED
    BY <1>2, <2>1, <2>2, <2>3
<1>3. ran \in Answers \cup {NotRun}
  BY DEF TypeInv
\* The EC carries out the command and answers it.
<1>4. ASSUME phase = "send", ec' = Run(call, ec)
      PROVE  /\ ec' \in EcStates /\ ec'.own = FALSE /\ ec'.pending = ec.pending
             /\ "match" \in ec'.hash => ec'.rw = Image("new")
             /\ Result(call, ec) \in Answers /\ Confirms(Result(call, ec), pc, ec')
             /\ SyncInv' /\ ChipInv'
  <2>1. /\ ec' \in EcStates /\ ec'.own = ec.own /\ ec'.pending = ec.pending
        /\ Result(call, ec) \in Answers
        /\ "match" \in ec'.hash => ec'.hash = ec.hash /\ ec'.rw = ec.rw
    BY <1>4, AtCommand, RunTyped
  <2>2. ec.own = FALSE
    BY <1>4, AtCommand DEF EcStates
  <2>3. Confirms(Result(call, ec), pc, ec')
    BY <1>4, <2>1, AtCommand, ResultConfirms
  <2>4. SyncInv' /\ ChipInv'
    BY <1>4, <2>1, AtCommand, RunKeepsSync
  <2>5. QED
    BY <2>1, <2>2, <2>3, <2>4, AtCommand
<1>5. CASE SendFast
  <2>1. /\ phase = "send" /\ ec.pending = NoCmd /\ ec' = Run(call, ec)
        /\ ran' = Result(call, ec) /\ answer' = Result(call, ec)
        /\ phase' = "answered" /\ call' = call
    BY <1>5 DEF SendFast, Answer
  <2>2. TypeInv'
    BY <1>0, <1>4, <2>1 DEF TypeInv, Waiting, Thinking
  <2>3. CallInv'
    BY <1>4, <2>1 DEF CallInv
  <2>4. AnswersRight'
    BY <1>0, <1>4, <2>1 DEF AnswersRight
  <2>5. QED
    BY <1>4, <2>1, <2>2, <2>3, <2>4
<1>6. ASSUME phase = "send",
             ec' = [ec EXCEPT !.pending = call] \/ ec' = StartSlow(ec)
      PROVE  /\ ec' \in EcStates /\ ec'.pending = call /\ ec'.hash = ec.hash /\ ec'.rw = ec.rw
             /\ ec'.own = IF ec' = StartSlow(ec) THEN TRUE ELSE FALSE
             /\ SyncInv' /\ ChipInv'
  <2>1. ec \in EcStates /\ call \in Commands /\ ec.own = FALSE
    BY <1>6, AtCommand DEF EcStates
  <2>2. /\ ec' \in EcStates /\ ec'.pending = call /\ ec'.hash = ec.hash /\ ec'.rw = ec.rw
        /\ ec'.flags = ec.flags /\ ec'.image = ec.image
        /\ ec' = [ec EXCEPT !.pending = call] => ec'.own = FALSE
        /\ ec' = StartSlow(ec) => ec'.own = TRUE
    <3>1. CASE ec' = [ec EXCEPT !.pending = call]
      BY <2>1, <3>1 DEF EcStates, StartSlow
    <3>2. CASE ec' = StartSlow(ec)
      BY <2>1, <3>2 DEF EcStates, StartSlow
    <3>3. QED
      BY <1>6, <3>1, <3>2
  <2>3. SyncInv' /\ ChipInv'
    BY <1>6, <2>2, SameKeepsSync
  <2>4. QED
    BY <1>6, <2>2, <2>3
<1>7. CASE SendSlow
  <2>1. /\ phase = "send" /\ ec.pending = NoCmd /\ ec' = StartSlow(ec) /\ phase' = "poll"
        /\ call' = call /\ answer' = answer /\ ran' = ran
    BY <1>7 DEF SendSlow
  <2>2. ec' \in EcStates /\ ec'.pending = call /\ ec'.own = TRUE /\ call # NoCmd
        /\ ec'.hash = ec.hash /\ ec'.rw = ec.rw /\ SyncInv' /\ ChipInv'
    BY <1>6, <2>1, AtCommand
  <2>3. TypeInv'
    BY <1>0, <2>1, <2>2 DEF TypeInv, Waiting, Thinking
  <2>4. CallInv'
    BY <2>1, <2>2 DEF CallInv
  <2>5. AnswersRight'
    BY <2>1, <2>2 DEF AnswersRight
  <2>6. QED
    BY <2>2, <2>3, <2>4, <2>5
<1>8. CASE SendRefused
  <2>1. /\ phase = "send" /\ ec' = ec /\ phase' = "answered" /\ answer' = Error
        /\ call' = call /\ ran' = ran
    BY <1>8 DEF SendRefused, Answer
  <2>2. ec.own = FALSE
    BY <2>1, AtCommand DEF EcStates
  <2>3. SyncInv' /\ ChipInv'
    BY <2>1, SameKeepsSync
  <2>4. QED
    BY <1>2, <1>3, <2>1, <2>2, <2>3, AtCommand
<1>9. CASE GetCommsStatus
  <2>1. /\ phase = "poll" /\ phase' = IF ec.pending # NoCmd THEN "poll" ELSE "resend"
        /\ ec' = ec /\ call' = call /\ answer' = answer /\ ran' = ran
    BY <1>9 DEF GetCommsStatus
  <2>2. TypeInv'
    BY <1>0, <2>1 DEF TypeInv, Waiting, Thinking
  <2>3. CallInv'
    BY <2>1 DEF CallInv
  <2>4. AnswersRight'
    BY <1>0, <2>1 DEF AnswersRight
  <2>5. SyncInv' /\ ChipInv'
    BY <2>1, SameKeepsSync
  <2>6. QED
    BY <2>2, <2>3, <2>4, <2>5
<1>10. CASE CommsTimeout \/ LoseRequest
  <2>1. /\ phase \in {"send", "poll", "resend"} /\ phase' = "answered" /\ answer' = Error
        /\ call' = call /\ ran' = ran /\ ec' = [ec EXCEPT !.own = FALSE]
    BY <1>10 DEF CommsTimeout, LoseRequest, Answer, GiveUp
  <2>2. /\ ec' \in EcStates /\ ec'.own = FALSE /\ ec'.pending = ec.pending
        /\ ec'.hash = ec.hash /\ ec'.rw = ec.rw /\ ec'.flags = ec.flags /\ ec'.image = ec.image
    BY <2>1, AtCommand DEF EcStates
  <2>3. SyncInv' /\ ChipInv'
    BY <2>2, SameKeepsSync
  <2>4. QED
    BY <1>2, <1>3, <2>1, <2>2, <2>3, AtCommand
\* The EC gives its result away.
<1>11. ASSUME phase = "resend", ec' = [ec EXCEPT !.saved = Unavailable]
       PROVE  /\ ec' \in EcStates /\ ec'.own = FALSE /\ ec'.pending = ec.pending
              /\ ec'.pending = NoCmd
              /\ ec'.hash = ec.hash /\ ec'.rw = ec.rw /\ ec'.flags = ec.flags
              /\ ec'.image = ec.image /\ SyncInv' /\ ChipInv'
  <2>1. ec \in EcStates /\ ec.own = FALSE /\ ec.pending = NoCmd
    BY <1>11, AtCommand DEF EcStates, CallInv
  <2>2. /\ ec' \in EcStates /\ ec'.own = FALSE /\ ec'.pending = ec.pending
        /\ ec'.hash = ec.hash /\ ec'.rw = ec.rw /\ ec'.flags = ec.flags /\ ec'.image = ec.image
    BY <1>11, <2>1 DEF EcStates
  <2>3. QED
    BY <2>1, <2>2, SameKeepsSync
<1>12. CASE ResendResponse
  <2>1. /\ phase = "resend" /\ ec' = [ec EXCEPT !.saved = Unavailable] /\ phase' = "answered"
        /\ answer' = (IF ec.saved = Unavailable THEN Error ELSE ec.saved)
        /\ call' = call /\ ran' = ran
    BY <1>12 DEF ResendResponse, Answer, Resent
  <2>2. answer' \in Answers
    BY <2>1, AtCommand, ErrorsSayNothing DEF EcStates
  <2>3. Confirms(answer', pc, ec')
    <3>1. CASE ec.saved = Unavailable
      BY <2>1, <3>1, ErrorsSayNothing
    <3>2. CASE ec.saved # Unavailable
      BY <1>1, <1>11, <2>1, <3>2 DEF AnswersRight
    <3>3. QED
      BY <3>1, <3>2
  <2>4. TypeInv'
    BY <1>0, <1>11, <2>1, <2>2 DEF TypeInv, Waiting, Thinking
  <2>5. CallInv'
    BY <1>11, <2>1 DEF CallInv
  <2>6. AnswersRight'
    BY <1>0, <1>11, <2>1, <2>3 DEF AnswersRight
  <2>7. QED
    BY <1>11, <2>1, <2>4, <2>5, <2>6
<1>13. CASE LoseAnswer
  <2>1. /\ phase' = "answered" /\ answer' = Error /\ call' = call
    BY <1>13 DEF LoseAnswer, Answer
  <2>2. CASE phase = "resend"
    <3>1. ec' = [ec EXCEPT !.saved = Unavailable] /\ ran' = ran
      BY <1>13, <2>2 DEF LoseAnswer
    <3>2. QED
      BY <1>2, <1>3, <1>11, <2>1, <2>2, <3>1, AtCommand
  <2>3. CASE phase = "send" /\ ec' = [ec EXCEPT !.pending = call] /\ ran' = ran
    <3>1. ec' # StartSlow(ec)
      BY <2>3, AtCommand DEF StartSlow, EcStates
    <3>2. QED
      BY <1>2, <1>3, <1>6, <2>1, <2>3, <3>1, AtCommand
  <2>4. CASE phase = "send" /\ ec' = Run(call, ec) /\ ran' = Result(call, ec)
    BY <1>2, <1>4, <2>1, <2>4
  <2>5. QED
    BY <1>13, <2>2, <2>3, <2>4 DEF LoseAnswer
<1>14. QED
  BY <1>5, <1>7, <1>8, <1>9, <1>10, <1>12, <1>13 DEF DriverStep, Loss

-------------------------------------------------------------------------------
LEMMA IInvStep == IInv /\ [Next]_vars => IInv'
<1> SUFFICES ASSUME IInv, [Next]_vars PROVE IInv'
  OBVIOUS
<1>1. CASE DriverStep /\ UNCHANGED <<pc, board, sync, aux>>
  BY <1>1, DriverKeeps DEF aux
<1>2. CASE SyncStep /\ UNCHANGED aux
  <2>1. Moved /\ SyncInv'
    BY <1>2, SyncMoves
  <2>2. ChipInv'
    <3>1. chips' = chips
      BY <1>2 DEF aux
    <3>2. pc' \notin {"tunnels", "booted"}
      BY <1>2 DEF SyncStep, RunningRw, HashFails, ExpectedHashMissing,
         ImageMissing, HashAgain, HashStarted, HashCompared,
         UpdateImage, Unprotected, RegionKnown, RegionErased, VersionsKnown,
         BurstSizeKnown, Written, JumpedToRw, Hello, ProtectSet, JumpDisabled,
         RebootToRo, LimitWait, LimitDone, Recover, Restart, StartAp, GoOn, NewLoop,
         Again, Goto
    <3>3. QED
      BY <3>1, <3>2 DEF IInv, ChipInv
  <2>3. QED
    BY <2>1, <2>2, MovedKeeps DEF IInv
<1>3. CASE AuxStep \/ AuxfwCheckFails
  BY <1>3, AuxMoves, MovedKeeps DEF IInv
<1>4. CASE (EcStep \/ Loss) /\ UNCHANGED <<pc, board, sync, aux>>
  BY <1>4, EcKeeps, DriverKeeps DEF aux
<1>5. CASE EcReset /\ UNCHANGED <<pc, board, sync, chips>>
  BY <1>5, EcKeeps
<1>6. CASE PowerLoss /\ UNCHANGED aux
  BY <1>6, PowerLossMoves, MovedKeeps DEF IInv
<1>7. CASE UNCHANGED vars
  BY <1>7 DEF vars, syncVars, command, sync, aux, IInv, TypeInv, CallInv, AnswersRight,
              SyncInv, ChipInv, Confirms
<1>8. QED
  BY <1>1, <1>2, <1>3, <1>4, <1>5, <1>6, <1>7 DEF Next, ApStep

LEMMA IInvInit == Init => IInv
<1> SUFFICES ASSUME Init PROVE IInv
  OBVIOUS
<1>1. Bursts \in Nat \ {0} /\ 1 \in 1 .. Bursts
  BY EcCommandAssumption DEF EcCommandAssumption
<1>2. NoCmd \in Commands /\ Cmd("version") = CommandAt("running_rw", 1)
  BY <1>1, PlainTyped, CommandValues DEF NoCmd, Plain
<1>3. /\ ec \in EcStates /\ ec.own = FALSE /\ ec.hash \in {{}, {"busy"}}
      /\ ec.pending = NoCmd
  BY <1>2 DEF Init, EcStates, Image, Cells, Flags, Asserted, ProtectNow
<1>4. /\ pc = "running_rw" /\ call = CommandAt("running_rw", 1) /\ phase = "send"
      /\ answer = NoAnswer /\ ran = NotRun /\ burst = 1 /\ in_rw = FALSE
      /\ recovery = FALSE /\ board \in Boards /\ chips \in ChipSets
  BY <1>2 DEF Init
<1>5. TypeInv /\ CallInv /\ AnswersRight /\ SyncInv
  BY <1>1, <1>3, <1>4 DEF TypeInv, CallInv, AnswersRight, SyncInv, Waiting, Thinking,
     Opens, Checks, Compareds, Protecteds
<1>6. ChipInv
  BY <1>4, AuxfwAssumption DEF AuxfwAssumption, ChipInv
<1>7. QED
  BY <1>5, <1>6 DEF IInv

LEMMA Invariance == Spec => []IInv
BY IInvInit, IInvStep, PTL DEF Spec

-------------------------------------------------------------------------------
(* The theorems.                                                             *)

\* Software sync never has the EC jump into an RW image that is not the
\* complete new one, and never starts a kernel beside such an image, in whatever
\* state the EC was found and whatever was lost (vboot_update_image, ec_reboot).
THEOREM RunsOnlyIntactImages == Spec => []StartsIntact
<1>1. IInv => StartsIntact
  <2> SUFFICES ASSUME IInv, pc = "booted" \/ (phase = "send" /\ call.op = "jump_rw")
               PROVE  ec.rw = Image("new")
    BY DEF StartsIntact
  <2>1. pc \in {"booted", "jump_rw"}
    BY AtCommand
  <2>2. QED
    BY <2>1 DEF IInv, SyncInv, Compareds, Protecteds
<1>2. QED
  BY <1>1, Invariance, PTL

\* A kernel on a machine whose write protection is asserted finds the EC's flash
\* protected, also when the EC restarted after vb2ex_ec_protect.
THEOREM KernelFindsProtection == Spec => []ProtectedAtBoot
<1>1. IInv => ProtectedAtBoot
  <2> SUFFICES ASSUME IInv, pc = "booted", Asserted \subseteq ec.flags
               PROVE  "all_now" \in ec.flags
    BY DEF ProtectedAtBoot
  <2>1. QED
    BY DEF IInv, SyncInv, Protecteds
<1>2. QED
  BY <1>1, Invariance, PTL

\* No kernel is started while a chip that can be updated has old or spoilt
\* firmware, for any list of chips (update_vboot_auxfw).
THEOREM KernelFindsCurrentChips == Spec => []ChipsCurrent
<1>1. IInv => ChipsCurrent
  BY DEF IInv, ChipInv, ChipsCurrent
<1>2. QED
  BY <1>1, Invariance, PTL

\* ec_flash_erase and ec_flash_write are called only when the EC is known to run
\* RO with nothing protected, so that it never refuses them.
THEOREM NothingRefused == Spec => []WritesAccepted
<1>1. IInv => WritesAccepted
  <2> SUFFICES ASSUME IInv, phase = "send", call.op \in {"erase", "write"}
               PROVE  ~Refused(call, ec)
    BY DEF WritesAccepted
  <2>1. pc \in Opens
    BY AtCommand DEF Opens
  <2>2. ec.image = "ro" /\ "all_now" \notin ec.flags
    BY <2>1 DEF IInv, SyncInv, ProtectNow
  <2>3. QED
    BY <2>2 DEF Refused
<1>2. QED
  BY <1>1, Invariance, PTL

-------------------------------------------------------------------------------
(* The steps of EcCall that the driver's and the EC's steps are.             *)
AbstractAnswer == IF phase = "answered" THEN answer ELSE NoAnswer

LEMMA SentCallIsListed ==
  ASSUME TypeInv
  PROVE  call \in {CommandAt(p, n) : p \in Steps, n \in 1 .. Bursts}
BY CallsListed DEF TypeInv

LEMMA AbstractSteps ==
  /\ Abstract!Issue <=> /\ call' \in {CommandAt(p, n) : p \in Steps, n \in 1 .. Bursts}
                        /\ ran' = NotRun /\ AbstractAnswer' = NoAnswer
  /\ Abstract!Run <=> /\ AbstractAnswer = NoAnswer /\ ran = NotRun /\ ran' \in Answers
                      /\ AbstractAnswer' \in {NoAnswer, Error, ran'} /\ call' = call
  /\ Abstract!Return <=> /\ AbstractAnswer = NoAnswer
                         /\ AbstractAnswer' \in {Error} \cup ({ran} \ {NotRun})
                         /\ call' = call /\ ran' = ran
  /\ UNCHANGED Abstract!vars <=>
       call' = call /\ ran' = ran /\ AbstractAnswer' = AbstractAnswer
BY DEF Abstract!Issue, Abstract!Run, Abstract!Return, Abstract!vars, AbstractAnswer,
       Answers, Words

LEMMA CommandSteps ==
  ASSUME IInv, DriverStep \/ Loss \/ Finish
  PROVE  Abstract!Next \/ UNCHANGED Abstract!vars
<1> USE DEF IInv
<1>1. /\ ec \in EcStates /\ call \in Commands /\ ec.pending \in Commands
      /\ Result(call, ec) \in Answers /\ Result(ec.pending, ec) \in Answers
  BY AtCommand, RunTyped
<1>2. CASE SendFast
  <2>1. Abstract!Run
    BY <1>1, <1>2, AbstractSteps DEF SendFast, Answer, AbstractAnswer, CallInv
  <2>2. QED
    BY <2>1 DEF Abstract!Next
<1>3. CASE SendSlow \/ GetCommsStatus
  <2>1. /\ phase # "answered" /\ phase' # "answered" /\ call' = call /\ ran' = ran
    BY <1>3 DEF SendSlow, GetCommsStatus
  <2>2. QED
    BY <2>1, AbstractSteps DEF AbstractAnswer
<1>4. CASE SendRefused \/ CommsTimeout \/ LoseRequest
  <2>1. /\ phase # "answered" /\ phase' = "answered" /\ answer' = Error
        /\ call' = call /\ ran' = ran
    BY <1>4 DEF SendRefused, CommsTimeout, LoseRequest, Answer
  <2>2. Abstract!Return
    BY <2>1, AbstractSteps DEF AbstractAnswer
  <2>3. QED
    BY <2>2 DEF Abstract!Next
<1>5. CASE ResendResponse
  <2>1. /\ phase = "resend" /\ phase' = "answered" /\ answer' = Resent(ec.saved)
        /\ call' = call /\ ran' = ran
    BY <1>5 DEF ResendResponse, Answer
  <2>2. ec.saved \in {Unavailable, ran} /\ ec.saved \in Answers \cup {Unavailable}
    BY <1>1, <2>1 DEF CallInv, EcStates
  <2>3. answer' \in {Error} \cup ({ran} \ {NotRun})
    BY <2>1, <2>2, ErrorsSayNothing DEF Resent
  <2>4. Abstract!Return
    BY <2>1, <2>3, AbstractSteps DEF AbstractAnswer
  <2>5. QED
    BY <2>4 DEF Abstract!Next
<1>6. CASE LoseAnswer
  <2>1. /\ phase \in {"send", "resend"} /\ phase' = "answered" /\ answer' = Error
        /\ call' = call
        /\ ran' = ran \/ (phase = "send" /\ ran' = Result(call, ec))
    BY <1>6 DEF LoseAnswer, Answer
  <2>2. CASE ran' = ran
    <3>1. Abstract!Return
      BY <2>1, <2>2, AbstractSteps DEF AbstractAnswer
    <3>2. QED
      BY <3>1 DEF Abstract!Next
  <2>3. CASE phase = "send" /\ ran' = Result(call, ec)
    <3>1. Abstract!Run
      BY <1>1, <2>1, <2>3, AbstractSteps DEF AbstractAnswer, CallInv
    <3>2. QED
      BY <3>1 DEF Abstract!Next
  <2>4. QED
    BY <2>1, <2>2, <2>3
<1>7. CASE Finish
  <2>1. phase' = phase /\ answer' = answer /\ call' = call
        /\ ran' = IF ec.own THEN Result(ec.pending, ec) ELSE ran
    BY <1>7 DEF Finish
  <2>2. CASE ec.own
    <3>1. phase = "poll" /\ ran = NotRun
      BY <2>2 DEF CallInv
    <3>2. Abstract!Run
      BY <1>1, <2>1, <2>2, <3>1, AbstractSteps DEF AbstractAnswer
    <3>3. QED
      BY <3>2 DEF Abstract!Next
  <2>3. CASE ~ec.own
    BY <2>1, <2>3, AbstractSteps DEF AbstractAnswer
  <2>4. QED
    BY <2>2, <2>3
<1>8. QED
  BY <1>2, <1>3, <1>4, <1>5, <1>6, <1>7 DEF DriverStep, Loss

LEMMA MovedIssues ==
  ASSUME IInv, Moved
  PROVE  Abstract!Next
<1>1. TypeInv'
  BY MovedKeeps
<1>2. /\ call' \in {CommandAt(p, n) : p \in Steps, n \in 1 .. Bursts}
  BY <1>1, CallsListed DEF TypeInv
<1>3. ran' = NotRun /\ phase' \in {"none", "send"}
  BY DEF Moved, Goto
<1>4. Abstract!Issue
  BY <1>2, <1>3, AbstractSteps DEF AbstractAnswer
<1>5. QED
  BY <1>4 DEF Abstract!Next

\* ec_command runs a command at most once for one call, and never hands out the
\* answer of another command: every step of software sync is one of EcCall's or
\* changes nothing of it, whatever the EC loses and whichever commands are slow.
THEOREM OneRunPerCall == Spec => CallsRunOnce
<1>1. Init => Abstract!Init
  <2> SUFFICES ASSUME Init PROVE Abstract!Init
    OBVIOUS
  <2>1. call \in {CommandAt(p, n) : p \in Steps, n \in 1 .. Bursts}
    BY IInvInit, SentCallIsListed DEF IInv
  <2>2. ran = NotRun /\ phase = "send"
    BY DEF Init
  <2>3. QED
    BY <2>1, <2>2 DEF Abstract!Init
<1>2. IInv /\ [Next]_vars => [Abstract!Next]_(Abstract!vars)
  <2> SUFFICES ASSUME IInv, [Next]_vars
               PROVE  Abstract!Next \/ UNCHANGED Abstract!vars
    OBVIOUS
  <2>1. CASE DriverStep \/ Loss \/ Finish
    BY <2>1, CommandSteps
  <2>2. CASE HashDone \/ LimitEnds \/ EcReset \/ UNCHANGED vars
    <3>1. UNCHANGED command
      BY <2>2 DEF HashDone, LimitEnds, EcReset, vars, syncVars, command
    <3>2. QED
      BY <3>1, AbstractSteps DEF command, AbstractAnswer
  <2>3. CASE SyncStep
    BY <2>3, SyncMoves, MovedIssues
  <2>4. CASE AuxStep \/ AuxfwCheckFails
    BY <2>4, AuxMoves, MovedIssues
  <2>5. CASE PowerLoss /\ UNCHANGED aux
    BY <2>5, PowerLossMoves, MovedIssues
  <2>6. QED
    BY <2>1, <2>2, <2>3, <2>4, <2>5 DEF Next, ApStep, EcStep
<1>3. QED
  BY <1>1, <1>2, Invariance, PTL DEF Spec, CallsRunOnce, Abstract!Spec
-------------------------------------------------------------------------------
(* As long as no command has failed or timed out.                            *)
\* The EC has not run the command at hand.
NotYet == phase = "send" \/ (phase = "poll" /\ ec.pending # NoCmd)

\* What an answer says then.
Shows(a, p, e) ==
  /\ a.ok
  /\ p = "running_rw" => a.data = {e.image}
  /\ p = "hash" => /\ a.data \in {{}, {"busy"}, {"done", "match"}, {"done", "differs"}}
                   /\ started => a.data # {}
                   /\ a.data = {} => e.hash = {}
                   /\ updated => "differs" \notin a.data
  /\ p = "hash_start" => e.hash # {}
  /\ p = "erase" => e.rw = Image("erased") /\ e.hash = {}
  /\ p = "jump_rw" => e.image = "rw"
  /\ p = "protect" => "all_at_boot" \in a.data

CalmAnswers ==
  /\ ec.pending # NoCmd => phase = "poll"
  /\ phase = "answered" => Shows(answer, pc, ec)
  /\ phase \in {"poll", "resend"} /\ ec.pending = NoCmd =>
       ec.saved = Unavailable \/ Shows(ec.saved, pc, ec)

\* The EC as e, before and after it runs the command at hand: one that runs its
\* read-only image can be told to jump, a hash that was asked for is there, and
\* the image is written as far as the update has come.
CalmEc(e, todo) ==
  /\ e.jump \/ e.image = "rw"
  /\ pc \in {"hello", "protect", "disable_jump"} => e.image = "rw"
  /\ pc \in {"hash", "hash_start"} /\ in_rw => e.image = "rw"
  /\ pc = "jump_rw" /\ todo => e.image = "ro"
  /\ pc = "hash" /\ started => e.hash # {}
  /\ pc = "hash_start" /\ todo => e.hash = {}
  /\ updated => e.rw = Image("new") /\ "differs" \notin e.hash
  /\ pc \in {"versions", "flash_info"} => e.rw = Image("erased") /\ e.hash = {}
  /\ pc = "write" =>
       /\ e.hash = {}
       /\ \A i \in 1 .. Bursts :
            e.rw[i] = IF i < burst \/ (i = burst /\ ~todo) THEN "new" ELSE "erased"

CalmPlace ==
  /\ pc = "running_rw" => ~started
  /\ updated => pc \notin {"running_rw", "update", "unprotect"} \cup Opens
  /\ updated \/ pc = "write" \/ burst = 1
  /\ in_rw => pc \notin Opens
  /\ recovery = FALSE /\ status = "ok"

Calm == CalmAnswers /\ CalmEc(ec, NotYet) /\ CalmPlace
CalmInv == troubled \in BOOLEAN /\ (~troubled => Calm)

(* The mask of the lid switch while chips are updated, as long as no command *)
(* about it failed.                                                          *)
ShowsLid(a, p, e) ==
  a.ok => /\ p \in {"get_mask", "clear_get", "restore_get"} => (a.data # {} <=> e.lid)
          /\ p = "clear_set" => ~e.lid
          /\ p = "restore_set" => e.lid

Updating == {"chip", "get_mask", "clear_get", "clear_set", "apply", "recheck", "end",
             "restore_get", "restore_set", "return"}

LidAnswers ==
  /\ ec.pending \in {NoCmd, call}
  /\ phase \in {"none", "send"} => ec.pending = NoCmd
  /\ phase = "answered" => ShowsLid(answer, pc, ec)
  /\ phase \in {"poll", "resend"} /\ ec.pending = NoCmd => ShowsLid(ec.saved, pc, ec)

LidAt(lid) ==
  /\ lid_before \in BOOLEAN /\ lid_shutdown_disabled \in BOOLEAN
  /\ pc \in {"chip", "apply", "recheck", "end"} =>
       IF lid_shutdown_disabled THEN ~lid /\ lid_before ELSE lid = lid_before
  /\ pc = "apply" /\ board.x86 => ~lid
  /\ pc = "get_mask" => ~lid_shutdown_disabled /\ lid = lid_before
  /\ pc = "clear_get" => ~lid_shutdown_disabled /\ lid /\ lid_before
  /\ pc = "clear_set" => ~lid_shutdown_disabled /\ lid_before
  /\ pc \in {"restore_get", "restore_set"} => lid_before
  /\ pc = "return" => lid = lid_before

LidInv ==
  /\ lid_lost \in BOOLEAN
  /\ pc \in {"auxfw", "screen"} => ec.pending = NoCmd
  /\ pc \in Updating /\ ~lid_lost => LidAnswers /\ LidAt(ec.lid)
\* What the commands do to the EC and return, when they are not refused.
LEMMA RunDoes ==
  ASSUME NEW e \in EcStates, NEW c \in Commands
  PROVE  /\ ~Refused(c, e) <=> Result(c, e).ok
         /\ c.op = "erase" /\ ~Refused(c, e) =>
              Run(c, e).rw = Image("erased") /\ Run(c, e).hash = {}
         /\ c.op = "write" /\ ~Refused(c, e) =>
              /\ Run(c, e).hash = {}
              /\ Run(c, e).rw[c.n] = IF e.rw[c.n] = "erased" THEN "new" ELSE "mixed"
              /\ \A i \in 1 .. Bursts : i # c.n => Run(c, e).rw[i] = e.rw[i]
         /\ c.op = "hash_start" => Run(c, e).hash = {"busy"}
         /\ c.op = "jump_rw" /\ ~Refused(c, e) => Run(c, e).image = "rw" /\ Run(c, e).hash = {}
         /\ c.op \notin {"erase", "write", "hash_start", "jump_rw"} => Run(c, e).hash = e.hash
         /\ c.op # "disable_jump" => Run(c, e).jump = e.jump
         /\ Run(c, e).lid = IF c.op = "set_mask" THEN c.flags # {} ELSE e.lid
         /\ c.op = "hash_get" => Result(c, e).data = e.hash
         /\ c.op = "get_mask" => (Result(c, e).data # {} <=> e.lid)
<1>1. ~Refused(c, e) <=> Result(c, e).ok
  BY DEF Result, Error, Ok
<1>2. CASE c.op = "erase"
  <2>1. Run(c, e) = IF Refused(c, e) THEN e ELSE [e EXCEPT !.rw = Image("erased"), !.hash = {}]
    BY <1>2 DEF Run, Effect
  <2>2. QED
    BY <1>1, <1>2, <2>1 DEF EcStates
<1>3. CASE c.op = "write"
  <2>1. Run(c, e) = IF Refused(c, e) THEN e
                    ELSE [e EXCEPT !.rw[c.n] = IF @ = "erased" THEN "new" ELSE "mixed",
                                   !.hash = {}]
    BY <1>3 DEF Run, Effect
  <2>2. c.n \in 1 .. Bursts /\ e.rw \in [1 .. Bursts -> Cells]
    BY <1>3 DEF Commands, EcStates
  <2>3. /\ Run(c, e).lid = e.lid /\ Run(c, e).jump = e.jump
        /\ ~Refused(c, e) =>
             /\ Run(c, e).hash = {}
             /\ Run(c, e).rw = [e.rw EXCEPT ![c.n] = IF @ = "erased" THEN "new" ELSE "mixed"]
    BY <2>1 DEF EcStates
  <2>4. ~Refused(c, e) =>
          /\ Run(c, e).rw[c.n] = IF e.rw[c.n] = "erased" THEN "new" ELSE "mixed"
          /\ \A i \in 1 .. Bursts : i # c.n => Run(c, e).rw[i] = e.rw[i]
    BY <2>2, <2>3
  <2>5. QED
    BY <1>1, <1>3, <2>3, <2>4
<1>4. CASE c.op = "hash_start"
  <2>1. Run(c, e) = IF Refused(c, e) THEN e ELSE [e EXCEPT !.hash = {"busy"}]
    BY <1>4 DEF Run, Effect
  <2>2. Refused(c, e) => e.hash = {"busy"}
    BY <1>4 DEF Refused
  <2>3. QED
    BY <1>1, <1>4, <2>1, <2>2 DEF EcStates
<1>5. CASE c.op = "jump_rw"
  <2>1. Run(c, e) = IF Refused(c, e) THEN e ELSE [e EXCEPT !.image = "rw", !.hash = {}]
    BY <1>5 DEF Run, Effect
  <2>2. QED
    BY <1>1, <1>5, <2>1 DEF EcStates
<1>6. CASE c.op = "set_mask"
  <2>1. Run(c, e) = [e EXCEPT !.lid = c.flags # {}]
    BY <1>6 DEF Run, Effect, Refused
  <2>2. QED
    BY <1>1, <1>6, <2>1 DEF EcStates
<1>7. CASE c.op \in {"disable_jump", "protect", "reboot_at_shutdown", "protect_tunnels"}
  BY <1>1, <1>7 DEF Run, Effect, Refused, EcStates
<1>8. CASE c.op \notin {"erase", "write", "hash_start", "jump_rw", "set_mask", "disable_jump",
                       "protect", "reboot_at_shutdown", "protect_tunnels"}
  <2>1. Run(c, e) = e /\ Result(c, e) = Ok(Data(c, e))
    BY <1>8 DEF Run, Effect, Refused, Result
  <2>2. c.op = "get_mask" => (Data(c, e) # {} <=> e.lid)
    BY DEF Data, EcStates
  <2>3. c.op = "hash_get" => Data(c, e) = e.hash
    BY DEF Data
  <2>4. QED
    BY <1>1, <1>8, <2>1, <2>2, <2>3 DEF Ok
<1>9. QED
  BY <1>2, <1>3, <1>4, <1>5, <1>6, <1>7, <1>8

\* Where the AP waits for a command, by the command.
LEMMA CallNames ==
  ASSUME TypeInv
  PROVE  /\ call.op = "version" <=> pc = "running_rw"
         /\ call.op = "hash_get" <=> pc = "hash"
         /\ \A p \in {"hash_start", "erase", "write", "jump_rw", "disable_jump"} :
              call.op = p <=> pc = p
         /\ call.op = "protect" <=> pc \in {"protect", "unprotect"}
         /\ call.op = "set_mask" <=> pc \in {"clear_set", "restore_set"}
         /\ call.op = "get_mask" <=> pc \in {"get_mask", "clear_get", "restore_get"}
         /\ pc = "write" => call.n = burst
         /\ pc = "protect" => call.flags = ProtectNow
         /\ pc = "clear_set" => call.flags = {}
         /\ pc = "restore_set" => call.flags # {}
         /\ pc = "unprotect" => call.flags = {}
<1>1. /\ pc \in Waiting \cup Thinking /\ burst \in 1 .. Bursts /\ call = CommandAt(pc, burst)
  BY DEF TypeInv
<1>2. CASE pc \in Thinking
  BY <1>1, <1>2, CommandValues DEF Thinking, NoCmd, Cmd
<1>3. CASE pc \in {"unprotect", "protect", "write", "restore_set"}
  BY <1>1, <1>3, ParameterValues, CommandValues
<1>4. CASE pc \in Waiting \ {"unprotect", "protect", "write", "restore_set"}
  BY <1>1, <1>4, CommandValues DEF Waiting, Cmd
<1>5. QED
  BY <1>1, <1>2, <1>3, <1>4
\* The EC runs the command at hand, and e is the EC then.
LEMMA RunCalm ==
  ASSUME IInv, Calm, NotYet, NEW e \in EcStates,
         e.rw = Run(call, ec).rw, e.image = Run(call, ec).image,
         e.jump = Run(call, ec).jump, e.hash = Run(call, ec).hash
  PROVE  CalmEc(e, FALSE) /\ Shows(Result(call, ec), pc, e)
<1>1. /\ ec \in EcStates /\ call \in Commands /\ TypeInv /\ SyncInv
      /\ burst \in 1 .. Bursts /\ Bursts \in Nat
  BY AtCommand, EcCommandAssumption DEF IInv, TypeInv, EcCommandAssumption
<1>2. CalmEc(ec, TRUE) /\ CalmPlace
  BY DEF Calm, NotYet, CalmEc
<1>3. ~Refused(call, ec)
  <2>1. call.op \in {"erase", "write"} => ec.image = "ro" /\ "all_now" \notin ec.flags
    BY <1>1, CallNames DEF SyncInv, Opens, ProtectNow
  <2>2. call.op = "hash_start" => ec.hash = {}
    BY <1>1, <1>2, CallNames DEF CalmEc
  <2>3. call.op = "jump_rw" => ec.jump
    BY <1>1, <1>2, CallNames DEF CalmEc
  <2>4. QED
    BY <2>1, <2>2, <2>3 DEF Refused
<1>4. /\ Result(call, ec).ok
      /\ pc = "erase" => e.rw = Image("erased") /\ e.hash = {}
      /\ pc = "hash_start" => e.hash = {"busy"}
      /\ pc = "jump_rw" => e.image = "rw" /\ e.hash = {}
      /\ pc \notin {"erase", "write", "hash_start", "jump_rw"} => e.hash = ec.hash
      /\ pc \notin {"erase", "write"} => e.rw = ec.rw
      /\ pc # "jump_rw" => e.image = ec.image
      /\ pc # "disable_jump" => e.jump = ec.jump
      /\ pc = "hash" => Result(call, ec).data = ec.hash
      /\ pc = "running_rw" => Result(call, ec).data = {ec.image}
      /\ pc = "protect" => "all_at_boot" \in Result(call, ec).data
  <2>1. pc = "protect" => "all_at_boot" \in Result(call, ec).data
    BY <1>1, CallNames, ResultMeans, ProtectedFlags
  <2>2. QED
    BY <1>1, <1>3, <2>1, CallNames, RunDoes, RunTyped, ResultMeans
<1>5. CASE pc = "write"
  <2>1. /\ e.hash = {} /\ \A i \in 1 .. Bursts : i # burst => e.rw[i] = ec.rw[i]
        /\ e.rw[burst] = IF ec.rw[burst] = "erased" THEN "new" ELSE "mixed"
    BY <1>1, <1>3, <1>5, CallNames, RunDoes
  <2>2. \A i \in 1 .. Bursts : ec.rw[i] = IF i < burst THEN "new" ELSE "erased"
    BY <1>2, <1>5 DEF CalmEc
  <2>3. \A i \in 1 .. Bursts : e.rw[i] = IF i < burst \/ i = burst THEN "new" ELSE "erased"
    BY <1>1, <2>1, <2>2
  <2>4. ~updated /\ e.jump = ec.jump /\ e.image = ec.image
    BY <1>2, <1>4, <1>5 DEF CalmPlace, Opens
  <2>5. CalmEc(e, FALSE)
    BY <1>2, <1>5, <2>1, <2>3, <2>4 DEF CalmEc
  <2>6. QED
    BY <1>4, <1>5, <2>5 DEF Shows
<1>6. CASE pc # "write"
  <2>1. ec.hash \in {{}, {"busy"}, {"done", "match"}, {"done", "differs"}}
    BY <1>1 DEF EcStates
  <2>2. pc = "erase" => ~updated
    BY <1>2 DEF CalmPlace, Opens
  <2>3. CalmEc(e, FALSE)
    BY <1>2, <1>4, <1>6, <2>2 DEF CalmEc
  <2>4. Shows(Result(call, ec), pc, e)
    BY <1>2, <1>4, <1>6, <2>1 DEF Shows, CalmEc
  <2>5. QED
    BY <2>3, <2>4
<1>7. QED
  BY <1>5, <1>6

\* The steps of the driver and of the EC.
LEMMA CalmDriver ==
  ASSUME IInv, CalmInv, DriverStep \/ EcStep \/ Loss \/ EcReset, UNCHANGED <<pc, board, sync>>,
         status' = status
  PROVE  CalmInv'
<1>1. /\ pc' = pc /\ in_rw' = in_rw /\ started' = started /\ burst' = burst
      /\ updated' = updated /\ recovery' = recovery
  BY DEF sync
<1>2. troubled' \in BOOLEAN /\ (~troubled' => ~troubled)
  BY DEF CalmInv, DriverStep, EcStep, Loss, EcReset, SendFast, SendSlow, SendRefused,
     GetCommsStatus, CommsTimeout, ResendResponse, LoseRequest, LoseAnswer, Finish, HashDone, LimitEnds
<1> SUFFICES ASSUME ~troubled' PROVE Calm'
  BY <1>2 DEF CalmInv
<1>3. /\ CalmAnswers /\ CalmEc(ec, NotYet) /\ CalmPlace /\ Calm
      /\ ec \in EcStates /\ call \in Commands
      /\ ec.pending # NoCmd => phase = "poll" /\ ec.pending = call
      /\ phase = "resend" => ec.pending = NoCmd
  BY <1>2, AtCommand DEF CalmInv, Calm, CalmAnswers, IInv, CallInv
<1>4. CalmPlace'
  BY <1>1, <1>3 DEF CalmPlace
<1>5. CASE SendFast
  <2>1. /\ phase = "send" /\ ec.pending = NoCmd /\ ec' = Run(call, ec)
        /\ answer' = Result(call, ec) /\ phase' = "answered"
    BY <1>5 DEF SendFast, Answer
  <2>2. ec' \in EcStates /\ ec'.pending = NoCmd
    BY <1>3, <2>1, RunTyped
  <2>3. CalmEc(ec', FALSE) /\ Shows(answer', pc, ec')
    BY <1>3, <2>1, <2>2, RunCalm DEF NotYet
  <2>4. CalmEc(ec, NotYet)'
    BY <1>1, <2>1, <2>3 DEF CalmEc, NotYet
  <2>5. CalmAnswers'
    BY <1>1, <2>1, <2>2, <2>3 DEF CalmAnswers, Shows
  <2>6. QED
    BY <1>4, <2>4, <2>5 DEF Calm
<1>6. ASSUME ec'.rw = ec.rw, ec'.image = ec.image, ec'.jump = ec.jump, ec'.hash = ec.hash,
             NotYet' <=> NotYet
      PROVE  CalmEc(ec, NotYet)'
  BY <1>1, <1>3, <1>6 DEF CalmEc
<1>7. CASE SendSlow
  <2>1. /\ phase = "send" /\ ec' = StartSlow(ec) /\ phase' = "poll"
    BY <1>7 DEF SendSlow
  <2>2. /\ ec'.rw = ec.rw /\ ec'.image = ec.image /\ ec'.jump = ec.jump /\ ec'.hash = ec.hash
        /\ ec'.pending = call /\ call # NoCmd
    BY <1>3, <2>1, AtCommand DEF EcStates, StartSlow
  <2>3. CalmEc(ec, NotYet)'
    BY <1>6, <2>1, <2>2 DEF NotYet
  <2>4. CalmAnswers'
    BY <2>1, <2>2 DEF CalmAnswers
  <2>5. QED
    BY <1>4, <2>3, <2>4 DEF Calm
<1>8. CASE GetCommsStatus
  <2>1. /\ phase = "poll" /\ phase' = (IF ec.pending # NoCmd THEN "poll" ELSE "resend") /\ ec' = ec
    BY <1>8 DEF GetCommsStatus
  <2>2. CalmEc(ec, NotYet)'
    BY <1>6, <2>1 DEF NotYet
  <2>3. CalmAnswers'
    BY <1>1, <1>3, <2>1 DEF CalmAnswers, Shows
  <2>4. QED
    BY <1>4, <2>2, <2>3 DEF Calm
<1>9. CASE SendRefused \/ CommsTimeout \/ Loss \/ EcReset
  BY <1>9 DEF SendRefused, CommsTimeout, Loss, LoseRequest, LoseAnswer, EcReset
<1>10. CASE ResendResponse
  <2>1. /\ phase = "resend" /\ ec' = [ec EXCEPT !.saved = Unavailable] /\ phase' = "answered"
        /\ answer' = ec.saved /\ ec.saved # Unavailable
    BY <1>2, <1>10 DEF ResendResponse, Answer, Resent
  <2>2. /\ ec'.rw = ec.rw /\ ec'.image = ec.image /\ ec'.jump = ec.jump /\ ec'.hash = ec.hash
        /\ ec'.pending = ec.pending /\ ec.pending = NoCmd
    BY <1>3, <2>1 DEF EcStates
  <2>3. CalmEc(ec, NotYet)'
    BY <1>6, <2>1, <2>2 DEF NotYet
  <2>4. Shows(ec.saved, pc, ec)
    BY <1>3, <2>1, <2>2 DEF CalmAnswers
  <2>5. CalmAnswers'
    BY <1>1, <2>1, <2>2, <2>4 DEF CalmAnswers, Shows
  <2>6. QED
    BY <1>4, <2>3, <2>5 DEF Calm
<1>11. CASE Finish
  <2> DEFINE r == Run(call, ec)
  <2>1. /\ ec.pending = call /\ phase = "poll" /\ phase' = "poll" /\ ec.pending # NoCmd
        /\ ec' = [r EXCEPT !.pending = NoCmd, !.own = FALSE, !.saved = Result(call, ec)]
    BY <1>3, <1>11 DEF Finish
  <2>2. r \in EcStates /\ Result(call, ec) \in Answers /\ NoCmd \in Commands
    BY <1>3, RunTyped, AtCommand
  <2>3. /\ ec' \in EcStates /\ ec'.pending = NoCmd /\ ec'.saved = Result(call, ec)
        /\ ec'.rw = r.rw /\ ec'.image = r.image /\ ec'.jump = r.jump /\ ec'.hash = r.hash
    BY <2>1, <2>2 DEF EcStates
  <2>4. CalmEc(ec', FALSE) /\ Shows(Result(call, ec), pc, ec')
    BY <1>3, <2>1, <2>3, RunCalm DEF NotYet
  <2>5. CalmEc(ec, NotYet)'
    BY <1>1, <2>1, <2>3, <2>4 DEF CalmEc, NotYet
  <2>6. CalmAnswers'
    BY <1>1, <2>1, <2>3, <2>4 DEF CalmAnswers, Shows
  <2>7. QED
    BY <1>4, <2>5, <2>6 DEF Calm
<1>12. CASE LimitEnds
  <2>1. /\ ec'.rw = ec.rw /\ ec'.image = ec.image /\ ec'.jump = ec.jump /\ ec'.hash = ec.hash
        /\ ec'.pending = ec.pending /\ ec'.saved = ec.saved /\ phase' = phase /\ answer' = answer
    BY <1>3, <1>12 DEF LimitEnds, command, EcStates
  <2>2. CalmEc(ec, NotYet)'
    BY <1>6, <2>1 DEF NotYet
  <2>3. CalmAnswers'
    BY <1>1, <1>3, <2>1 DEF CalmAnswers, Shows
  <2>4. QED
    BY <1>4, <2>2, <2>3 DEF Calm
<1>13. CASE HashDone
  <2>1. /\ ec.hash = {"busy"} /\ ec'.rw = ec.rw /\ ec'.image = ec.image /\ ec'.jump = ec.jump
        /\ ec'.hash = {"done", IF ec.rw = Image("new") THEN "match" ELSE "differs"}
        /\ ec'.pending = ec.pending /\ ec'.saved = ec.saved /\ phase' = phase /\ answer' = answer
    BY <1>3, <1>13 DEF HashDone, command, EcStates
  <2>2. ec'.hash # {} /\ (ec.rw = Image("new") => "differs" \notin ec'.hash)
    BY <2>1
  <2>3. CalmEc(ec, NotYet)'
    BY <1>1, <1>3, <2>1, <2>2 DEF CalmEc, NotYet
  <2>4. \A a : Shows(a, pc, ec) => Shows(a, pc, ec')
    BY <2>1, <2>2 DEF Shows
  <2>5. CalmAnswers'
    BY <1>1, <1>3, <2>1, <2>4 DEF CalmAnswers, Shows
  <2>6. QED
    BY <1>4, <2>3, <2>5 DEF Calm
<1>14. QED
  BY <1>5, <1>7, <1>8, <1>9, <1>10, <1>11, <1>12, <1>13 DEF DriverStep, EcStep
\* What a step of the AP that leaves the EC alone does.
LEMMA GoOnDoes ==
  ASSUME TypeInv, NEW p \in Waiting \cup Thinking, GoOn(p) \/ NewLoop(p) \/ Again(p)
  PROVE  /\ pc' = p /\ ec' = ec /\ troubled' = troubled /\ phase' \in {"send", "none"}
         /\ in_rw' = in_rw /\ burst' = burst /\ updated' = updated /\ recovery' = recovery
         /\ started' = started \/ (NewLoop(p) /\ started' = FALSE)
         /\ call' = CommandAt(p, burst) /\ (p \in Waiting => phase' = "send")
         /\ (p \in Thinking => phase' = "none")
<1>1. burst \in 1 .. Bursts
  BY DEF TypeInv
<1>2. CommandAt(p, burst) = NoCmd <=> p \in Thinking
  BY <1>1, CommandsTyped
<1>3. p \in Waiting => p \notin Thinking
  BY DEF Waiting, Thinking
<1>4. QED
  BY <1>2, <1>3 DEF GoOn, NewLoop, Again, Goto, sync

\* The AP starts again, after a command, without trouble.
LEMMA StartCalm ==
  ASSUME Calm, NEW e \in EcStates, NEW disp, StartAp(e, recovery, disp), status' = status,
         e.pending = NoCmd, e.jump \/ e.image = "rw", TypeInv
  PROVE  Calm'
<1>1. recovery = FALSE /\ status = "ok"
  BY DEF Calm, CalmPlace
<1>2. /\ pc' = "running_rw" /\ phase' \in {"none", "send"} /\ started' = FALSE /\ burst' = 1
      /\ updated' = FALSE /\ recovery' = FALSE /\ in_rw' = FALSE
      /\ ec' = [e EXCEPT !.own = FALSE, !.lid = board.x86 /\ ~board.lid_gbb]
  BY <1>1 DEF StartAp, Goto
<1>3. ec'.pending = NoCmd /\ (ec'.jump \/ ec'.image = "rw")
  BY <1>2 DEF EcStates
<1>4. CalmAnswers'
  BY <1>2, <1>3 DEF CalmAnswers
<1>5. CalmEc(ec, NotYet)'
  BY <1>2, <1>3 DEF CalmEc
<1>6. CalmPlace'
  BY <1>1, <1>2 DEF CalmPlace, Opens
<1>7. QED
  BY <1>4, <1>5, <1>6 DEF Calm

\* What the AP finds when it goes on.
LEMMA AtAnswer ==
  ASSUME IInv, Calm, phase \in {"answered", "none"}
  PROVE  /\ ec.pending = NoCmd /\ ec \in EcStates /\ TypeInv /\ SyncInv
         /\ CalmEc(ec, FALSE) /\ CalmPlace
         /\ phase = "answered" => answer.ok /\ Shows(answer, pc, ec) /\ answer \in Answers
<1>1. ec.pending = NoCmd
  BY DEF Calm, CalmAnswers
<1>2. CalmEc(ec, FALSE)
  BY DEF Calm, NotYet, CalmEc
<1>3. phase = "answered" => answer.ok /\ Shows(answer, pc, ec) /\ answer \in Answers
  BY DEF Calm, CalmAnswers, Shows, IInv, TypeInv
<1>4. QED
  BY <1>1, <1>2, <1>3 DEF IInv, TypeInv, Calm

\* Software sync goes on without trouble, and does not ask for recovery mode.
LEMMA CalmSync ==
  ASSUME IInv, CalmInv, SyncStep, status' = status
  PROVE  CalmInv'
<1>1. troubled' \in BOOLEAN /\ (~troubled' => ~troubled)
  BY DEF CalmInv, SyncStep, RunningRw, HashFails, ExpectedHashMissing,
     ImageMissing, HashAgain, HashStarted, HashCompared,
     UpdateImage, Unprotected, RegionKnown, RegionErased, VersionsKnown, BurstSizeKnown,
     Written, JumpedToRw, Hello, ProtectSet, JumpDisabled, RebootToRo, LimitWait, LimitDone,
     Recover, Restart, GoOn, NewLoop, Again
<1> SUFFICES ASSUME ~troubled' PROVE Calm'
  BY <1>1 DEF CalmInv
<1>2. Calm /\ phase \in {"answered", "none"}
  <2>1. pc = "update" => phase = "none"
    BY DEF IInv, TypeInv, Thinking
  <2>2. QED
    BY <1>1, <2>1 DEF CalmInv, SyncStep, RunningRw, HashFails, ExpectedHashMissing,
       ImageMissing, HashAgain, HashStarted,
       HashCompared, UpdateImage, Unprotected, RegionKnown, RegionErased, VersionsKnown,
       BurstSizeKnown, Written, JumpedToRw, Hello, ProtectSet, JumpDisabled, RebootToRo,
       LimitWait, LimitDone, Answered
<1>3. /\ ec.pending = NoCmd /\ ec \in EcStates /\ TypeInv /\ SyncInv
      /\ CalmEc(ec, FALSE) /\ CalmPlace
      /\ phase = "answered" => answer.ok /\ Shows(answer, pc, ec) /\ answer \in Answers
      /\ burst \in 1 .. Bursts /\ Bursts \in Nat
  BY <1>2, AtAnswer, EcCommandAssumption DEF TypeInv, EcCommandAssumption
\* The EC stays, and the AP has not sent the next command yet.
<1>4. ASSUME ec' = ec, phase' = "send" \/ (phase' = "none" /\ pc' \in Thinking),
             CalmEc(ec, TRUE)', CalmPlace'
      PROVE  Calm'
  <2>1. CalmAnswers'
    BY <1>3, <1>4 DEF CalmAnswers
  <2>2. CalmEc(ec, NotYet)'
    BY <1>4 DEF CalmEc, NotYet, Thinking
  <2>3. QED
    BY <1>4, <2>1, <2>2 DEF Calm
\* Such a step to a place where nothing more is to be known.
<1>5. ASSUME NEW p \in Waiting \cup Thinking, GoOn(p) \/ NewLoop(p) \/ Again(p),
             p \notin {"running_rw", "hello", "protect", "disable_jump", "hash", "hash_start",
                      "jump_rw", "versions", "flash_info", "write"},
             updated => p \notin {"update", "unprotect"} \cup Opens, in_rw => p \notin Opens,
             pc # "write"
      PROVE  Calm'
  <2>1. /\ pc' = p /\ ec' = ec /\ phase' = (IF p \in Waiting THEN "send" ELSE "none")
        /\ in_rw' = in_rw /\ burst' = burst /\ updated' = updated /\ recovery' = recovery
    BY <1>3, <1>5, GoOnDoes
  <2>2. CalmEc(ec, TRUE)'
    BY <1>3, <1>5, <2>1 DEF CalmEc
  <2>3. CalmPlace'
    BY <1>3, <1>5, <2>1 DEF CalmPlace
  <2>4. QED
    BY <1>4, <2>1, <2>2, <2>3
<1>6. CASE RunningRw
  <2>1. /\ pc = "running_rw" /\ Goto("hash", burst) /\ ec' = ec /\ answer.data = {ec.image}
        /\ in_rw' = ("rw" \in answer.data) /\ recovery' = recovery /\ burst' = burst
        /\ started' = started /\ updated' = updated
    BY <1>2, <1>3, <1>6 DEF RunningRw, Answered, Shows
  <2>2. pc' = "hash" /\ phase' = "send"
    BY <1>3, <2>1, CommandsTyped DEF Goto, Waiting, Thinking
  <2>3. CalmEc(ec, TRUE)'
    BY <1>3, <2>1, <2>2 DEF CalmEc, CalmPlace
  <2>4. CalmPlace'
    BY <1>3, <2>1, <2>2 DEF CalmPlace, Opens
  <2>5. QED
    BY <1>4, <2>1, <2>2, <2>3, <2>4
<1>7. CASE HashFails \/ ExpectedHashMissing \/ ImageMissing
  <2>0. HashFails
    BY <1>7 DEF ExpectedHashMissing, ImageMissing
  <2>1. pc = "hash" /\ answer.ok /\ Shows(answer, pc, ec) /\ answer.data # {"busy"}
    BY <1>3, <2>0 DEF HashFails, Answered
  <2>2. answer.data = {} /\ started
    BY <2>0, <2>1 DEF HashFails
  <2>3. QED
    BY <2>1, <2>2 DEF Shows
<1>8. CASE HashAgain
  <2>1. pc = "hash" /\ phase = "answered" /\ Shows(answer, pc, ec)
    BY <1>3, <1>8 DEF HashAgain, Answered
  <2>2. CASE answer.data = {} /\ ~started /\ GoOn("hash_start")
    <3>1. /\ pc' = "hash_start" /\ ec' = ec /\ phase' = "send" /\ in_rw' = in_rw
          /\ burst' = burst /\ updated' = updated /\ recovery' = recovery
      BY <1>3, <2>2, GoOnDoes DEF Waiting
    <3>2. ec.hash = {}
      BY <2>1, <2>2 DEF Shows
    <3>3. CalmEc(ec, TRUE)'
      BY <1>3, <2>1, <3>1, <3>2 DEF CalmEc
    <3>4. CalmPlace'
      BY <1>3, <2>1, <3>1 DEF CalmPlace, Opens
    <3>5. QED
      BY <1>4, <3>1, <3>3, <3>4
  <2>3. CASE Again("hash")
    <3>1. /\ pc' = "hash" /\ ec' = ec /\ phase' = "send" /\ in_rw' = in_rw /\ started' = started
          /\ burst' = burst /\ updated' = updated /\ recovery' = recovery
      BY <1>3, <2>3, GoOnDoes DEF Waiting, Again
    <3>2. CalmEc(ec, TRUE)'
      BY <1>3, <2>1, <3>1 DEF CalmEc
    <3>3. CalmPlace'
      BY <1>3, <2>1, <3>1 DEF CalmPlace, Opens
    <3>4. QED
      BY <1>4, <3>1, <3>2, <3>3
  <2>4. QED
    BY <1>8, <2>2, <2>3 DEF HashAgain
<1>9. CASE HashStarted
  <2>1. /\ pc = "hash_start" /\ Goto("hash", burst) /\ ec' = ec /\ ec.hash # {}
        /\ in_rw' = in_rw /\ recovery' = recovery /\ burst' = burst
        /\ updated' = updated
    BY <1>2, <1>3, <1>9 DEF HashStarted, Answered, Shows
  <2>2. pc' = "hash" /\ phase' = "send"
    BY <1>3, <2>1, CommandsTyped DEF Goto, Waiting, Thinking
  <2>3. CalmEc(ec, TRUE)'
    BY <1>3, <2>1, <2>2 DEF CalmEc
  <2>4. CalmPlace'
    BY <1>3, <2>1, <2>2 DEF CalmPlace, Opens
  <2>5. QED
    BY <1>4, <2>1, <2>2, <2>3, <2>4
<1>10. CASE HashCompared
  <2>1. pc = "hash" /\ phase = "answered" /\ Shows(answer, pc, ec) /\ "done" \in answer.data
    BY <1>3, <1>10 DEF HashCompared, Answered
  <2>2. "match" \in answer.data \/ ~updated
    <3>1. answer.data \in {{}, {"busy"}, {"done", "match"}, {"done", "differs"}}
      BY <2>1 DEF Shows
    <3>2. updated => "differs" \notin answer.data
      BY <2>1 DEF Shows
    <3>3. QED
      BY <2>1, <3>1, <3>2
  <2>3. CASE "match" \in answer.data
    <3>1. PICK p \in {"protect", "jump_rw"} : NewLoop(p) /\ p = IF in_rw THEN "protect" ELSE "jump_rw"
      BY <1>10, <2>3 DEF HashCompared
    <3>2. /\ pc' = p /\ ec' = ec /\ phase' = "send" /\ in_rw' = in_rw
          /\ burst' = burst /\ updated' = updated /\ recovery' = recovery
      BY <1>3, <3>1, GoOnDoes DEF Waiting
    <3>3. ~in_rw => ec.image = "ro"
      BY <1>3, <2>1 DEF SyncInv, Checks
    <3>4. CalmEc(ec, TRUE)'
      BY <1>3, <2>1, <3>1, <3>2, <3>3 DEF CalmEc
    <3>5. CalmPlace'
      BY <1>3, <2>1, <3>1, <3>2 DEF CalmPlace, Opens
    <3>6. QED
      BY <1>4, <3>2, <3>4, <3>5
  <2>4. CASE "match" \notin answer.data
    <3>1. \E p \in {"reboot_to_ro", "update"} : GoOn(p)
      BY <1>10, <2>2, <2>4 DEF HashCompared
    <3>2. QED
      BY <1>5, <2>1, <2>2, <2>4, <3>1 DEF Waiting, Thinking, Opens
  <2>5. QED
    BY <2>3, <2>4
<1>11. CASE UpdateImage
  <2>1. pc = "update" /\ ~updated
    BY <1>3, <1>11 DEF UpdateImage, CalmPlace
  <2>2. CASE StartAp(ec, recovery, TRUE)
    BY <1>2, <1>3, <2>2, StartCalm DEF CalmEc
  <2>3. CASE GoOn("unprotect")
    BY <1>5, <2>1, <2>3 DEF Waiting, Opens
  <2>4. QED
    BY <1>11, <2>2, <2>3 DEF UpdateImage
<1>12. CASE Unprotected
  <2>1. pc = "unprotect" /\ ~updated /\ ~in_rw /\ answer.ok
    BY <1>3, <1>12 DEF Unprotected, Answered, CalmPlace, SyncInv
  <2>2. \E p \in {"reboot_to_ro", "region"} : GoOn(p)
    BY <1>12, <2>1 DEF Unprotected
  <2>3. QED
    BY <1>5, <2>1, <2>2 DEF Waiting
<1>13. CASE RegionKnown
  <2>1. pc = "region" /\ ~updated /\ ~in_rw /\ answer.ok /\ board.fits
    BY <1>1, <1>3, <1>13 DEF RegionKnown, Answered, CalmPlace, Opens
  <2>2. GoOn("erase")
    BY <1>13, <2>1 DEF RegionKnown
  <2>3. QED
    BY <1>5, <2>1, <2>2 DEF Waiting
<1>14. CASE RegionErased
  <2>1. pc = "erase" /\ ~updated /\ ~in_rw /\ answer.ok /\ Shows(answer, pc, ec)
    BY <1>3, <1>14 DEF RegionErased, Answered, CalmPlace, Opens
  <2>2. GoOn("versions")
    BY <1>14, <2>1 DEF RegionErased
  <2>3. /\ pc' = "versions" /\ ec' = ec /\ phase' = "send" /\ in_rw' = in_rw
        /\ burst' = burst /\ updated' = updated /\ recovery' = recovery
    BY <1>3, <2>2, GoOnDoes DEF Waiting
  <2>4. CalmEc(ec, TRUE)'
    BY <1>3, <2>1, <2>3 DEF CalmEc, Shows
  <2>5. CalmPlace'
    BY <1>3, <2>1, <2>3 DEF CalmPlace
  <2>6. QED
    BY <1>4, <2>3, <2>4, <2>5
<1>15. CASE VersionsKnown \/ BurstSizeKnown
  <2>1. pc \in {"versions", "flash_info"} /\ ~updated /\ ~in_rw /\ answer.ok /\ burst = 1
    BY <1>3, <1>15 DEF VersionsKnown, BurstSizeKnown, Answered, CalmPlace, Opens
  <2>2. PICK p \in {"write", "flash_info"} : GoOn(p)
    BY <1>15, <2>1 DEF VersionsKnown, BurstSizeKnown
  <2>3. /\ pc' = p /\ ec' = ec /\ phase' = "send" /\ in_rw' = in_rw
        /\ burst' = burst /\ updated' = updated /\ recovery' = recovery
    BY <1>3, <2>2, GoOnDoes DEF Waiting
  <2>4. ec.rw = Image("erased") /\ ec.hash = {}
    BY <1>3, <2>1 DEF CalmEc
  <2>5. \A i \in 1 .. Bursts : ~(i < 1) /\ ec.rw[i] = "erased"
    BY <1>3, <2>4 DEF Image
  <2>6. CalmEc(ec, TRUE)'
    BY <1>3, <2>1, <2>3, <2>4, <2>5 DEF CalmEc
  <2>7. CalmPlace'
    BY <1>3, <2>1, <2>3 DEF CalmPlace
  <2>8. QED
    BY <1>4, <2>3, <2>6, <2>7
<1>16. CASE Written
  <2>1. /\ pc = "write" /\ ~updated /\ ~in_rw /\ answer.ok /\ ec' = ec /\ in_rw' = in_rw
        /\ recovery' = recovery
    BY <1>3, <1>16 DEF Written, Answered, CalmPlace, Opens
  <2>2. /\ ec.hash = {} /\ (ec.jump \/ ec.image = "rw")
        /\ \A i \in 1 .. Bursts : ec.rw[i] = IF i < burst \/ i = burst THEN "new" ELSE "erased"
    BY <1>3, <2>1 DEF CalmEc
  <2>3. CASE burst < Bursts
    <3>1. /\ pc' = "write" /\ burst' = burst + 1 /\ updated' = updated /\ phase' = "send"
      <4>1. Goto("write", burst + 1) /\ burst' = burst + 1 /\ updated' = updated
        BY <1>16, <2>1, <2>3 DEF Written
      <4>2. burst + 1 \in 1 .. Bursts
        BY <1>3, <2>3
      <4>3. QED
        BY <4>1, <4>2, CommandsTyped DEF Goto, Waiting, Thinking
    <3>2. \A i \in 1 .. Bursts : i < burst + 1 <=> i < burst \/ i = burst
      BY <1>3
    <3>3. CalmEc(ec, TRUE)'
      BY <2>1, <2>2, <3>1, <3>2 DEF CalmEc
    <3>4. CalmPlace'
      BY <1>3, <2>1, <3>1 DEF CalmPlace
    <3>5. QED
      BY <1>4, <2>1, <3>1, <3>3, <3>4
  <2>4. CASE ~(burst < Bursts)
    <3>1. /\ pc' = "hash" /\ burst' = burst /\ updated' = TRUE /\ phase' = "send" /\ started' = FALSE
      <4>1. Goto("hash", burst) /\ burst' = burst /\ updated' = TRUE /\ started' = FALSE
        BY <1>16, <2>1, <2>4 DEF Written
      <4>2. QED
        BY <1>3, <4>1, CommandsTyped DEF Goto, Waiting, Thinking
    <3>2. ec.rw = Image("new")
      <4>1. \A i \in 1 .. Bursts : i < burst \/ i = burst
        BY <1>3, <2>4
      <4>2. ec.rw \in [1 .. Bursts -> Cells] /\ \A i \in 1 .. Bursts : ec.rw[i] = "new"
        BY <1>3, <2>2, <4>1 DEF EcStates
      <4>3. QED
        BY <4>2 DEF Image
    <3>3. CalmEc(ec, TRUE)'
      BY <2>1, <2>2, <3>1, <3>2 DEF CalmEc
    <3>4. CalmPlace'
      BY <1>3, <2>1, <3>1 DEF CalmPlace, Opens
    <3>5. QED
      BY <1>4, <2>1, <3>1, <3>3, <3>4
  <2>5. QED
    BY <2>3, <2>4
<1>17. CASE JumpedToRw \/ Hello
  <2>1. pc \in {"jump_rw", "hello"} /\ answer.ok /\ ec.image = "rw"
    BY <1>3, <1>17 DEF JumpedToRw, Hello, Answered, Shows, CalmEc
  <2>2. PICK p \in {"hello", "protect"} : NewLoop(p)
    BY <1>17, <2>1 DEF JumpedToRw, Hello
  <2>3. /\ pc' = p /\ ec' = ec /\ phase' = "send" /\ in_rw' = in_rw
        /\ burst' = burst /\ updated' = updated /\ recovery' = recovery
    BY <1>3, <2>2, GoOnDoes DEF Waiting
  <2>4. CalmEc(ec, TRUE)'
    BY <1>3, <2>1, <2>3 DEF CalmEc
  <2>5. CalmPlace'
    BY <1>3, <2>1, <2>3 DEF CalmPlace, Opens
  <2>6. QED
    BY <1>4, <2>3, <2>4, <2>5
<1>18. CASE ProtectSet
  <2>1. /\ pc = "protect" /\ answer.ok /\ "all_at_boot" \in answer.data /\ ec.image = "rw"
    BY <1>3, <1>18 DEF ProtectSet, Answered, Shows, CalmEc
  <2>2. CASE GoOn("reboot_to_ro")
    BY <1>5, <2>1, <2>2 DEF Waiting, Opens
  <2>3. CASE GoOn("disable_jump")
    <3>1. /\ pc' = "disable_jump" /\ ec' = ec /\ phase' = "send" /\ in_rw' = in_rw
          /\ burst' = burst /\ updated' = updated /\ recovery' = recovery
      BY <1>3, <2>3, GoOnDoes DEF Waiting
    <3>2. CalmEc(ec, TRUE)'
      BY <1>3, <2>1, <3>1 DEF CalmEc
    <3>3. CalmPlace'
      BY <1>3, <2>1, <3>1 DEF CalmPlace, Opens
    <3>4. QED
      BY <1>4, <3>1, <3>2, <3>3
  <2>4. QED
    BY <1>18, <2>1, <2>2, <2>3 DEF ProtectSet
<1>19. CASE JumpDisabled \/ LimitWait \/ LimitDone
  <2>1. pc \in {"disable_jump", "limit"} /\ answer.ok
    BY <1>3, <1>19 DEF JumpDisabled, LimitWait, LimitDone, Answered
  <2>2. \E p \in {"limit", "shutdown", "recovery", "auxfw"} : GoOn(p) \/ NewLoop(p) \/ Again(p)
    BY <1>19, <2>1 DEF JumpDisabled, LimitWait, LimitDone
  <2>3. QED
    BY <1>5, <2>1, <2>2 DEF Waiting, Thinking, Opens
<1>20. CASE RebootToRo
  <2>1. CASE ec.at_shutdown
    <3>1. PICK d \in Damaged(ec) : StartAp(Reset(d), recovery, FALSE)
      BY <1>20, <2>1 DEF RebootToRo
    <3>2. Reset(d) \in EcStates /\ Reset(d).pending = NoCmd /\ Reset(d).jump = TRUE
      BY <1>3, ResetTyped
    <3>3. QED
      BY <1>2, <1>3, <3>1, <3>2, StartCalm
  <2>2. CASE ~ec.at_shutdown
    <3>1. StartAp(ec, recovery, FALSE)
      BY <1>20, <2>2 DEF RebootToRo
    <3>2. QED
      BY <1>2, <1>3, <3>1, StartCalm DEF CalmEc
  <2>3. QED
    BY <2>1, <2>2
<1>21. QED
  BY <1>6, <1>7, <1>8, <1>9, <1>10, <1>11, <1>12, <1>13, <1>14, <1>15, <1>16, <1>17, <1>18,
     <1>19, <1>20 DEF SyncStep
\* The steps of the update of auxiliary firmware: the EC stays as it is, and a
\* failure to update a chip counts as trouble.
LEMMA CalmGoOn ==
  ASSUME IInv, Calm, phase \in {"answered", "none"}, status' = "ok",
         pc \notin Opens \cup {"hash"},
         NEW p \in {"screen", "tunnels", "chip", "apply", "get_mask", "clear_get", "clear_set",
                    "recheck", "end", "restore_get", "restore_set", "return", "booted",
                    "reboot_to_ro"},
         GoOn(p)
  PROVE  Calm'
<1>1. /\ ec.pending = NoCmd /\ TypeInv /\ CalmEc(ec, FALSE) /\ CalmPlace
  BY AtAnswer
<1>2. p \in Waiting \cup Thinking
  BY DEF Waiting, Thinking
<1>3. /\ pc' = p /\ ec' = ec /\ phase' \in {"send", "none"} /\ in_rw' = in_rw
      /\ burst' = burst /\ updated' = updated /\ recovery' = recovery
  BY <1>1, <1>2, GoOnDoes
<1>4. CalmAnswers'
  BY <1>1, <1>3 DEF CalmAnswers
<1>5. CalmEc(ec, NotYet)'
  BY <1>1, <1>3 DEF CalmEc
<1>6. CalmPlace'
  BY <1>1, <1>3 DEF CalmPlace, Opens
<1>7. QED
  BY <1>4, <1>5, <1>6 DEF Calm

LEMMA CalmAux ==
  ASSUME IInv, CalmInv, AuxStep \/ AuxfwCheckFails
  PROVE  CalmInv'
<1>1. troubled' \in BOOLEAN /\ (~troubled' => ~troubled)
  BY DEF CalmInv, AuxStep, AuxfwCheck, AuxfwCheckFails, SyncScreen, SkipChip, UpdateChip,
     MaskKnown, ClearMask, MaskCleared, ApplyUpdate, ApplyBusy, ApplyFails, Recheck, LastChip,
     EndRestoring, RestoreMask, MaskRestored, AuxfwReturn, TunnelsProtected, Fail,
     Recover, Restart, GoOn
<1> SUFFICES ASSUME ~troubled' PROVE Calm'
  BY <1>1 DEF CalmInv
<1>2. Calm /\ TypeInv /\ phase \in {"answered", "none"} /\ pc \notin Opens \cup {"hash"}
  <2>1. pc \in Thinking => phase = "none"
    BY DEF IInv, TypeInv
  <2>2. pc \in Thinking \/ phase = "answered"
    BY DEF AuxStep, AuxfwCheck, AuxfwCheckFails, SyncScreen, SkipChip, UpdateChip,
       MaskKnown, ClearMask, MaskCleared, ApplyUpdate, ApplyBusy, ApplyFails, Recheck, LastChip,
       EndRestoring, RestoreMask, MaskRestored, AuxfwReturn, TunnelsProtected, MaskAnswer,
       Answered, Thinking
  <2>3. pc \notin Opens \cup {"hash"}
    BY DEF AuxStep, AuxfwCheck, AuxfwCheckFails, SyncScreen, SkipChip, UpdateChip,
       MaskKnown, ClearMask, MaskCleared, ApplyUpdate, ApplyBusy, ApplyFails, Recheck, LastChip,
       EndRestoring, RestoreMask, MaskRestored, AuxfwReturn, TunnelsProtected, MaskAnswer,
       Answered, Opens
  <2>4. QED
    BY <1>1, <2>1, <2>2, <2>3 DEF CalmInv, IInv
<1>3. /\ ec.pending = NoCmd /\ ec \in EcStates /\ (ec.jump \/ ec.image = "rw")
      /\ status = "ok" /\ (phase = "answered" => answer.ok)
  BY <1>2, AtAnswer DEF CalmEc, CalmPlace
<1>4. CASE AuxfwCheck
  <2>1. status' = "ok" /\ \E p \in {"screen", "tunnels"} : GoOn(p)
    BY <1>3, <1>4 DEF AuxfwCheck
  <2>2. QED
    BY <1>2, <2>1, CalmGoOn
<1>5. CASE AuxfwCheckFails
  <2>1. StartAp(ec, recovery, display) /\ status' = status
    BY <1>5 DEF AuxfwCheckFails, Restart, aux
  <2>2. QED
    BY <1>2, <1>3, <2>1, StartCalm
<1>6. CASE SyncScreen
  <2>1. CASE StartAp(ec, recovery, TRUE) /\ UNCHANGED <<troubled, aux>>
    <3>1. status' = status
      BY <2>1 DEF aux
    <3>2. QED
      BY <1>2, <1>3, <2>1, <3>1, StartCalm
  <2>2. CASE GoOn("chip") /\ status' = "ok"
    BY <1>2, <2>2, CalmGoOn
  <2>3. QED
    BY <1>6, <2>1, <2>2 DEF SyncScreen
<1>7. CASE SkipChip \/ UpdateChip \/ MaskKnown \/ ClearMask \/ MaskCleared
  <2>1. status' = "ok"
    BY <1>3, <1>7 DEF SkipChip, UpdateChip, NextChip, aux, MaskKnown, ClearMask, MaskCleared,
       MaskAnswer
  <2>2. \E p \in {"chip", "apply", "get_mask", "clear_get", "clear_set"} : GoOn(p)
    BY <1>7 DEF SkipChip, UpdateChip, MaskKnown, ClearMask, MaskCleared
  <2>3. QED
    BY <1>2, <2>1, <2>2, CalmGoOn
<1>8. CASE ApplyUpdate \/ ApplyBusy \/ LastChip \/ EndRestoring \/ RestoreMask \/ MaskRestored
  <2>1. status' = "ok"
    BY <1>3, <1>8 DEF ApplyUpdate, ApplyBusy, NextChip, aux, LastChip, EndRestoring, RestoreMask,
       MaskRestored, MaskAnswer
  <2>2. \E p \in {"recheck", "chip", "end", "restore_get", "restore_set", "return"} : GoOn(p)
    BY <1>8 DEF ApplyUpdate, ApplyBusy, LastChip, EndRestoring, RestoreMask, MaskRestored
  <2>3. QED
    BY <1>2, <2>1, <2>2, CalmGoOn
<1>9. CASE ApplyFails
  BY <1>9 DEF ApplyFails, Fail
<1>10. CASE Recheck
  <2>1. GoOn("chip") /\ status' = "ok"
    BY <1>3, <1>10 DEF Recheck, Fail, NextChip
  <2>2. QED
    BY <1>2, <2>1, CalmGoOn
<1>11. CASE AuxfwReturn \/ TunnelsProtected
  <2>1. status' = "ok" /\ \E p \in {"reboot_to_ro", "booted"} : GoOn(p)
    BY <1>3, <1>11 DEF AuxfwReturn, TunnelsProtected, Answered, aux
  <2>2. QED
    BY <1>2, <2>1, CalmGoOn
<1>12. QED
  BY <1>4, <1>5, <1>6, <1>7, <1>8, <1>9, <1>10, <1>11 DEF AuxStep

LEMMA CalmInit == Init => CalmInv
<1> SUFFICES ASSUME Init PROVE Calm /\ troubled \in BOOLEAN
  BY DEF CalmInv
<1>1. /\ pc = "running_rw" /\ phase = "send" /\ burst = 1 /\ troubled = FALSE
      /\ started = FALSE /\ updated = FALSE /\ recovery = FALSE /\ status = "ok"
      /\ in_rw = FALSE /\ ec.pending = NoCmd /\ ec.jump = TRUE
  BY DEF Init
<1>2. CalmAnswers /\ CalmEc(ec, NotYet) /\ CalmPlace
  BY <1>1 DEF CalmAnswers, CalmEc, CalmPlace
<1>3. QED
  BY <1>1, <1>2 DEF Calm

LEMMA CalmStep == IInv /\ CalmInv /\ [Next]_vars => CalmInv'
<1> SUFFICES ASSUME IInv, CalmInv, [Next]_vars PROVE CalmInv'
  OBVIOUS
<1>1. CASE (DriverStep \/ EcStep \/ Loss) /\ UNCHANGED <<pc, board, sync, aux>>
  <2>1. status' = status /\ UNCHANGED <<pc, board, sync>>
    BY <1>1 DEF aux
  <2>2. QED
    BY <1>1, <2>1, CalmDriver
<1>2. CASE SyncStep /\ UNCHANGED aux
  <2>1. status' = status
    BY <1>2 DEF aux
  <2>2. QED
    BY <1>2, <2>1, CalmSync
<1>3. CASE AuxStep \/ AuxfwCheckFails
  BY <1>3, CalmAux
<1>4. CASE EcReset /\ UNCHANGED <<pc, board, sync, status>>
  BY <1>4 DEF EcReset, CalmInv
<1>5. CASE PowerLoss
  BY <1>5 DEF PowerLoss, CalmInv
<1>6. CASE UNCHANGED vars
  BY <1>6 DEF vars, syncVars, aux, command, sync, CalmInv, Calm, CalmAnswers, Shows, CalmEc,
     NotYet, CalmPlace
<1>7. QED
  BY <1>1, <1>2, <1>3, <1>4, <1>5, <1>6 DEF Next, ApStep

\* The machine goes into recovery mode only when a command failed or timed out,
\* the image does not fit, it or its hash cannot be read from CBFS, a chip could
\* not be updated, or the EC or the power failed:
\* whatever the EC runs, holds and hashes when the AP starts, each question of
\* software sync has an answer then that lets it go on (vboot_hash_image,
\* vboot_update_image, ec_reboot, vboot_set_region_protection).
THEOREM RecoveryHasReason == Spec => []RecoveryJustified
<1>1. CalmInv => RecoveryJustified
  BY DEF CalmInv, Calm, CalmPlace, RecoveryJustified
<1>2. Spec => [](IInv /\ CalmInv)
  BY IInvInit, IInvStep, CalmInit, CalmStep, PTL DEF Spec
<1>3. QED
  BY <1>1, <1>2, PTL
\* What the command at hand does to the mask and says of it.
LEMMA RunLid ==
  ASSUME IInv, pc \in Updating, call # NoCmd
  PROVE  /\ Run(call, ec).lid = IF pc = "clear_set" THEN FALSE
                                ELSE IF pc = "restore_set" THEN TRUE ELSE ec.lid
         /\ ShowsLid(Result(call, ec), pc, Run(call, ec))
         /\ Run(call, ec) \in EcStates
         /\ Run(call, ec).pending = ec.pending /\ Run(call, ec).saved = ec.saved
<1>1. ec \in EcStates /\ call \in Commands /\ TypeInv
  BY AtCommand DEF IInv
<1>2. Run(call, ec).lid = IF pc = "clear_set" THEN FALSE
                          ELSE IF pc = "restore_set" THEN TRUE ELSE ec.lid
  BY <1>1, RunDoes, CallNames
<1>3. pc \in {"get_mask", "clear_get", "restore_get"} => (Result(call, ec).data # {} <=> ec.lid)
  BY <1>1, RunDoes, CallNames
<1>4. QED
  BY <1>1, <1>2, <1>3, RunTyped DEF ShowsLid

\* The steps of the driver and of the EC while chips are updated.
LEMMA LidDriver ==
  ASSUME IInv, LidInv, DriverStep \/ EcStep \/ Loss, UNCHANGED <<pc, board, sync, aux>>
  PROVE  LidInv'
<1>1. /\ pc' = pc /\ lid_lost' = lid_lost /\ lid_before' = lid_before
      /\ lid_shutdown_disabled' = lid_shutdown_disabled
      /\ ec \in EcStates /\ call \in Commands /\ NoCmd \in Commands /\ call' = call
      /\ phase # "none" => call # NoCmd
      /\ phase = "resend" => ec.pending = NoCmd
      /\ phase = "answered" /\ answer.ok => ec.pending = NoCmd
  BY AtCommand DEF aux, IInv, CallInv, DriverStep, EcStep, Loss, SendFast, SendSlow, SendRefused,
     GetCommsStatus, CommsTimeout, ResendResponse, LoseRequest, LoseAnswer, Finish, HashDone,
     LimitEnds, command
<1>2. ASSUME pc \in {"auxfw", "screen"}
      PROVE  ec'.pending = NoCmd
  <2>1. phase = "none" /\ ec.pending = NoCmd
    BY <1>2 DEF LidInv, IInv, TypeInv, Thinking
  <2>2. HashDone \/ LimitEnds
    BY <2>1 DEF DriverStep, EcStep, Loss, SendFast, SendSlow, SendRefused, GetCommsStatus,
       CommsTimeout, ResendResponse, LoseRequest, LoseAnswer, Finish
  <2>3. QED
    BY <1>1, <2>1, <2>2 DEF HashDone, LimitEnds, EcStates
<1>3. ASSUME pc \in Updating, ~lid_lost
      PROVE  LidAnswers' /\ LidAt(ec.lid)'
  <2>1. /\ LidAnswers /\ LidAt(ec.lid)
        /\ ec.pending # NoCmd => ec.pending = call
        /\ phase \in {"none", "send"} => ec.pending = NoCmd
    BY <1>3 DEF LidInv, LidAnswers
  <2>2. ASSUME ec'.lid = ec.lid \/ pc \in {"clear_set", "restore_set"}
        PROVE  LidAt(ec.lid)'
    BY <1>1, <2>1, <2>2 DEF LidAt
  <2>3. CASE SendFast
    <3>1. /\ phase = "send" /\ ec' = Run(call, ec) /\ answer' = Result(call, ec)
          /\ phase' = "answered"
      BY <2>3 DEF SendFast, Answer
    <3>2. LidAt(ec.lid)'
      BY <1>1, <1>3, <2>2, <3>1, RunLid
    <3>3. LidAnswers'
      BY <1>1, <1>3, <2>1, <3>1, RunLid DEF LidAnswers
    <3>4. QED
      BY <3>2, <3>3
  <2>4. CASE SendSlow
    <3>1. /\ phase' = "poll" /\ ec'.pending = call /\ ec'.lid = ec.lid /\ call # NoCmd
      BY <1>1, <2>4 DEF SendSlow, StartSlow, EcStates
    <3>2. LidAnswers'
      BY <1>1, <3>1 DEF LidAnswers
    <3>3. QED
      BY <2>2, <3>1, <3>2
  <2>5. CASE GetCommsStatus
    <3>1. /\ phase = "poll" /\ phase' = (IF ec.pending # NoCmd THEN "poll" ELSE "resend")
          /\ ec' = ec
      BY <2>5 DEF GetCommsStatus
    <3>2. LidAnswers'
      BY <1>1, <2>1, <3>1 DEF LidAnswers, ShowsLid
    <3>3. QED
      BY <2>2, <3>1, <3>2
  <2>6. CASE SendRefused \/ CommsTimeout \/ LoseRequest
    <3>1. /\ phase' = "answered" /\ answer' = Error /\ ec'.pending = ec.pending /\ ec'.lid = ec.lid
      BY <1>1, <2>6 DEF SendRefused, CommsTimeout, LoseRequest, Answer, GiveUp, EcStates
    <3>2. LidAnswers'
      BY <1>1, <2>1, <3>1 DEF LidAnswers, ShowsLid, Error
    <3>3. QED
      BY <2>2, <3>1, <3>2
  <2>7. CASE ResendResponse
    <3>1. /\ phase = "resend" /\ phase' = "answered" /\ answer' = Resent(ec.saved)
          /\ ec'.pending = ec.pending /\ ec'.lid = ec.lid /\ ec.pending = NoCmd
      BY <1>1, <2>7 DEF ResendResponse, Answer, EcStates
    <3>2. ShowsLid(answer', pc, ec)
      BY <2>1, <3>1 DEF LidAnswers, ShowsLid, Resent, Error
    <3>3. LidAnswers'
      BY <1>1, <3>1, <3>2 DEF LidAnswers, ShowsLid
    <3>4. QED
      BY <2>2, <3>1, <3>3
  <2>8. CASE LoseAnswer
    <3>1. /\ phase \in {"send", "resend"} /\ phase' = "answered" /\ answer' = Error
          /\ ec.pending = NoCmd
          /\ \/ ec' = [ec EXCEPT !.saved = Unavailable]
             \/ ec' = [ec EXCEPT !.pending = call]
             \/ ec' = Run(call, ec)
      BY <2>8 DEF LoseAnswer, Answer
    <3>2. /\ ec'.pending \in {NoCmd, call}
          /\ ec'.lid = ec.lid \/ pc \in {"clear_set", "restore_set"}
      BY <1>1, <1>3, <3>1, RunLid DEF EcStates
    <3>3. LidAnswers'
      BY <1>1, <3>1, <3>2 DEF LidAnswers, ShowsLid, Error
    <3>4. QED
      BY <2>2, <3>2, <3>3
  <2>9. CASE Finish
    <3>1. /\ ec.pending = call /\ call # NoCmd /\ phase' = phase /\ answer' = answer
          /\ phase \notin {"none", "send"} /\ phase # "resend"
          /\ phase = "answered" => ~answer.ok
          /\ ec' = [Run(call, ec) EXCEPT !.pending = NoCmd, !.own = FALSE,
                                         !.saved = Result(call, ec)]
      BY <1>1, <2>1, <2>9 DEF Finish
    <3>2. /\ ec'.lid = Run(call, ec).lid /\ ec'.pending = NoCmd
          /\ ec'.saved = Result(call, ec)
      BY <1>3, <3>1, RunLid DEF EcStates
    <3>3. LidAt(ec.lid)'
      BY <1>3, <2>2, <3>1, <3>2, RunLid
    <3>4. ShowsLid(Result(call, ec), pc, ec')
      BY <1>3, <3>1, <3>2, RunLid DEF ShowsLid
    <3>5. LidAnswers'
      BY <1>1, <3>1, <3>2, <3>4 DEF LidAnswers, ShowsLid
    <3>6. QED
      BY <3>3, <3>5
  <2>10. CASE HashDone \/ LimitEnds
    <3>1. /\ ec'.lid = ec.lid /\ ec'.pending = ec.pending /\ ec'.saved = ec.saved
          /\ phase' = phase /\ answer' = answer
      BY <1>1, <2>10 DEF HashDone, LimitEnds, command, EcStates
    <3>2. LidAnswers'
      BY <1>1, <2>1, <3>1 DEF LidAnswers, ShowsLid
    <3>3. QED
      BY <2>2, <3>1, <3>2
  <2>11. QED
    BY <2>3, <2>4, <2>5, <2>6, <2>7, <2>8, <2>9, <2>10 DEF DriverStep, EcStep, Loss
<1>4. QED
  BY <1>1, <1>2, <1>3 DEF LidInv

\* Software sync comes to the update of chips with nothing left to do for the EC.
LEMMA LidSync ==
  ASSUME IInv, LidInv, SyncStep, UNCHANGED aux
  PROVE  LidInv'
<1>1. lid_lost' = lid_lost
  BY DEF aux
<1>2. pc' \notin Updating \cup {"screen"}
  BY DEF SyncStep, RunningRw, HashFails, ExpectedHashMissing,
     ImageMissing, HashAgain, HashStarted, HashCompared, UpdateImage,
     Unprotected, RegionKnown, RegionErased, VersionsKnown, BurstSizeKnown, Written, JumpedToRw,
     Hello, ProtectSet, JumpDisabled, RebootToRo, LimitWait, LimitDone, GoOn, NewLoop, Again,
     Goto, Recover, Restart, StartAp, Updating
<1>3. ASSUME pc' = "auxfw" PROVE ec'.pending = NoCmd
  <2>1. LimitDone
    BY <1>3 DEF SyncStep, RunningRw, HashFails, ExpectedHashMissing,
       ImageMissing, HashAgain, HashStarted, HashCompared,
       UpdateImage, Unprotected, RegionKnown, RegionErased, VersionsKnown, BurstSizeKnown,
       Written, JumpedToRw, Hello, ProtectSet, JumpDisabled, RebootToRo, LimitWait, GoOn,
       NewLoop, Again, Goto, Recover, Restart, StartAp
  <2>2. phase = "answered" /\ answer.ok /\ ec' = ec
    BY <1>3, <2>1 DEF LimitDone, Answered, Restart, StartAp, Goto, GoOn
  <2>3. QED
    BY <2>2 DEF IInv, CallInv
<1>4. QED
  BY <1>1, <1>2, <1>3 DEF LidInv

\* A step on while chips are updated, with the EC at rest.
LEMMA LidGoOn ==
  ASSUME TypeInv, ~lid_lost' => ec.pending = NoCmd, lid_lost' \in BOOLEAN,
         NEW p \in Updating, Goto(p, burst), ec' = ec, ~lid_lost' => LidAt(ec.lid)'
  PROVE  LidInv'
<1>1. pc' = p /\ phase' \in {"none", "send"} /\ p \notin {"auxfw", "screen"}
  BY DEF Goto, Updating
<1>2. ~lid_lost' => LidAnswers'
  BY <1>1 DEF LidAnswers
<1>3. QED
  BY <1>1, <1>2 DEF LidInv

\* The steps of the update itself.
LEMMA LidAux ==
  ASSUME IInv, LidInv, AuxStep \/ AuxfwCheckFails
  PROVE  LidInv'
<1>1. /\ TypeInv /\ lid_lost \in BOOLEAN /\ ec \in EcStates /\ ec.lid \in BOOLEAN
      /\ phase = "answered" => answer \in Answers /\ answer.ok \in BOOLEAN
      /\ phase = "answered" /\ answer.ok => ec.pending = NoCmd
      /\ pc \in Thinking => phase = "none"
  BY DEF IInv, TypeInv, CallInv, LidInv, EcStates, Answers
<1>2. ASSUME pc \in Updating, ~lid_lost PROVE LidAnswers /\ LidAt(ec.lid)
  BY <1>2 DEF LidInv
<1>3. ASSUME NEW p, p \notin Updating \cup {"auxfw", "screen"}, pc' = p, lid_lost' = lid_lost
      PROVE  LidInv'
  BY <1>1, <1>3 DEF LidInv
<1>4. CASE AuxfwCheck
  <2>1. PICK p \in {"screen", "tunnels"} : GoOn(p)
    BY <1>4 DEF AuxfwCheck
  <2>2. pc' = p /\ ec' = ec /\ ec.pending = NoCmd /\ lid_lost' = lid_lost
    BY <1>4, <2>1 DEF AuxfwCheck, GoOn, Goto, LidInv
  <2>3. QED
    BY <1>1, <2>2 DEF LidInv, Updating
<1>5. CASE AuxfwCheckFails
  <2>1. pc' \in {"limit", "running_rw"} /\ lid_lost' = lid_lost
    BY <1>5 DEF AuxfwCheckFails, Restart, StartAp, Goto, aux
  <2>2. QED
    BY <1>3, <2>1 DEF Updating
<1>6. CASE SyncScreen
  <2>1. CASE StartAp(ec, recovery, TRUE) /\ UNCHANGED <<troubled, aux>>
    <3>1. pc' \in {"limit", "running_rw"} /\ lid_lost' = lid_lost
      BY <2>1 DEF StartAp, Goto, aux
    <3>2. QED
      BY <1>3, <3>1 DEF Updating
  <2>2. CASE GoOn("chip") /\ lid_shutdown_disabled' = FALSE /\ lid_before' = ec.lid
             /\ lid_lost' = FALSE
    <3>1. /\ Goto("chip", burst) /\ ec' = ec /\ pc' = "chip" /\ ec.pending = NoCmd
      BY <1>6, <2>2 DEF GoOn, Goto, SyncScreen, LidInv
    <3>2. LidAt(ec.lid)'
      BY <1>1, <2>2, <3>1 DEF LidAt
    <3>3. QED
      BY <1>1, <2>2, <3>1, <3>2, LidGoOn DEF Updating
  <2>3. QED
    BY <1>6, <2>1, <2>2 DEF SyncScreen
<1>7. ASSUME pc \in {"chip", "apply", "recheck", "end"}, NEW p \in Updating, Goto(p, burst),
             ec' = ec, lid_lost' = lid_lost, lid_before' = lid_before,
             lid_shutdown_disabled' = lid_shutdown_disabled,
             p \in {"chip", "recheck", "end"}
               \/ (p = "apply" /\ (lid_shutdown_disabled \/ ~board.x86))
               \/ (p \in {"get_mask", "return"} /\ ~lid_shutdown_disabled)
               \/ (p = "restore_get" /\ lid_shutdown_disabled)
      PROVE  LidInv'
  <2>1. ~lid_lost => ec.pending = NoCmd /\ LidAt(ec.lid)
    BY <1>1, <1>2, <1>7 DEF Updating, Thinking, LidAnswers
  <2>2. pc' = p /\ board' = board
    BY <1>7 DEF Goto
  <2>3. ~lid_lost => LidAt(ec.lid)'
    BY <1>7, <2>1, <2>2 DEF LidAt
  <2>4. QED
    BY <1>1, <1>7, <2>1, <2>3, LidGoOn
<1>8. CASE SkipChip \/ UpdateChip \/ LastChip \/ EndRestoring
  <2>1. /\ pc \in {"chip", "end"} /\ lid_lost' = lid_lost /\ lid_before' = lid_before
        /\ lid_shutdown_disabled' = lid_shutdown_disabled
    BY <1>8 DEF SkipChip, UpdateChip, LastChip, EndRestoring, NextChip, aux
  <2>2. \E p \in {"chip", "apply", "get_mask", "end", "restore_get", "return"} :
          /\ GoOn(p)
          /\ p = "apply" => lid_shutdown_disabled \/ ~board.x86
          /\ p = "restore_get" => lid_shutdown_disabled
          /\ p \in {"get_mask", "return"} => ~lid_shutdown_disabled
    BY <1>8 DEF SkipChip, UpdateChip, LastChip, EndRestoring
  <2>3. QED
    BY <1>7, <2>1, <2>2 DEF GoOn, Updating
<1>9. CASE ApplyUpdate \/ ApplyBusy \/ ApplyFails \/ Recheck
  <2>1. /\ pc \in {"apply", "recheck"} /\ lid_lost' = lid_lost /\ lid_before' = lid_before
        /\ lid_shutdown_disabled' = lid_shutdown_disabled
    BY <1>9 DEF ApplyUpdate, ApplyBusy, ApplyFails, Recheck, Fail, NextChip
  <2>2. \E p \in {"recheck", "chip", "end"} : Goto(p, burst) /\ ec' = ec
    BY <1>9 DEF ApplyUpdate, ApplyBusy, ApplyFails, Recheck, Fail, GoOn
  <2>3. QED
    BY <1>7, <2>1, <2>2 DEF Updating
\* Where a command has been answered: with an error, all that follows counts as lost.
<1>10. ASSUME NEW q \in {"get_mask", "clear_get", "clear_set", "restore_get", "restore_set"},
              MaskAnswer(q)
       PROVE  /\ lid_lost' \in BOOLEAN /\ lid_before' = lid_before /\ pc = q
              /\ ~lid_lost' =>
                   /\ answer.ok /\ ec.pending = NoCmd /\ ShowsLid(answer, q, ec)
                   /\ LidAt(ec.lid)
  <2>1. /\ pc = q /\ phase = "answered" /\ lid_lost' = (lid_lost \/ ~answer.ok)
        /\ lid_before' = lid_before /\ pc \in Updating
    BY <1>10 DEF MaskAnswer, Answered, Updating
  <2>2. QED
    BY <1>1, <1>2, <2>1 DEF LidAnswers
<1>11. CASE MaskKnown
  <2>1. MaskAnswer("get_mask") /\ lid_shutdown_disabled' = lid_shutdown_disabled
    BY <1>11 DEF MaskKnown
  <2>2. PICK p \in {"clear_get", "apply"} :
          GoOn(p) /\ p = IF answer.ok /\ answer.data # {} THEN "clear_get" ELSE "apply"
    BY <1>11 DEF MaskKnown
  <2>3. pc' = p /\ ec' = ec /\ Goto(p, burst)
    BY <2>2 DEF GoOn, Goto
  <2>4. ~lid_lost' => LidAt(ec.lid)'
    BY <1>1, <1>10, <2>1, <2>2, <2>3 DEF LidAt, ShowsLid
  <2>5. QED
    BY <1>1, <1>10, <2>1, <2>3, <2>4, LidGoOn DEF Updating
<1>12. CASE ClearMask
  <2>1. MaskAnswer("clear_get") /\ lid_shutdown_disabled' = lid_shutdown_disabled
    BY <1>12 DEF ClearMask
  <2>2. PICK p \in {"clear_set", "apply"} :
          GoOn(p) /\ p = IF answer.ok THEN "clear_set" ELSE "apply"
    BY <1>12 DEF ClearMask
  <2>3. pc' = p /\ ec' = ec /\ Goto(p, burst)
    BY <2>2 DEF GoOn, Goto
  <2>4. ASSUME ~lid_lost' PROVE LidAt(ec.lid)'
    <3>1. answer.ok /\ LidAt(ec.lid) /\ pc = "clear_get" /\ lid_before' = lid_before
      BY <1>10, <2>1, <2>4
    <3>2. ~lid_shutdown_disabled /\ ec.lid /\ lid_before /\ pc' = "clear_set"
      BY <2>2, <2>3, <3>1 DEF LidAt
    <3>3. QED
      BY <2>1, <2>3, <3>1, <3>2 DEF LidAt
  <2>5. QED
    BY <1>1, <1>10, <2>1, <2>3, <2>4, LidGoOn DEF Updating
<1>13. CASE MaskCleared
  <2>1. /\ MaskAnswer("clear_set") /\ lid_shutdown_disabled' = answer.ok /\ GoOn("apply")
        /\ Answered("clear_set")
    BY <1>13 DEF MaskCleared, MaskAnswer
  <2>2. pc' = "apply" /\ ec' = ec /\ Goto("apply", burst)
    BY <2>1 DEF GoOn, Goto
  <2>3. ASSUME ~lid_lost' PROVE LidAt(ec.lid)'
    <3>1. /\ answer.ok /\ LidAt(ec.lid) /\ pc = "clear_set" /\ lid_before' = lid_before
          /\ ShowsLid(answer, "clear_set", ec)
      BY <1>10, <2>1, <2>3
    <3>2. ~ec.lid /\ lid_before = TRUE /\ lid_shutdown_disabled' = TRUE
      BY <1>1, <2>1, <3>1 DEF LidAt, ShowsLid, Answered
    <3>3. QED
      BY <2>2, <3>1, <3>2 DEF LidAt
  <2>4. QED
    BY <1>1, <1>10, <2>1, <2>2, <2>3, LidGoOn DEF Updating
<1>14. CASE RestoreMask
  <2>1. MaskAnswer("restore_get") /\ lid_shutdown_disabled' = lid_shutdown_disabled
    BY <1>14 DEF RestoreMask
  <2>2. PICK p \in {"restore_set", "return"} :
          GoOn(p) /\ p = IF answer.ok THEN "restore_set" ELSE "return"
    BY <1>14 DEF RestoreMask
  <2>3. pc' = p /\ ec' = ec /\ Goto(p, burst)
    BY <2>2 DEF GoOn, Goto
  <2>4. ASSUME ~lid_lost' PROVE LidAt(ec.lid)'
    <3>1. answer.ok /\ LidAt(ec.lid) /\ pc = "restore_get" /\ lid_before' = lid_before
      BY <1>10, <2>1, <2>4
    <3>2. lid_before /\ pc' = "restore_set"
      BY <2>2, <2>3, <3>1 DEF LidAt
    <3>3. QED
      BY <2>1, <2>3, <3>1, <3>2 DEF LidAt
  <2>5. QED
    BY <1>1, <1>10, <2>1, <2>3, <2>4, LidGoOn DEF Updating
<1>15. CASE MaskRestored
  <2>1. /\ MaskAnswer("restore_set") /\ lid_shutdown_disabled' = lid_shutdown_disabled
        /\ GoOn("return")
    BY <1>15 DEF MaskRestored
  <2>2. pc' = "return" /\ ec' = ec /\ Goto("return", burst)
    BY <2>1 DEF GoOn, Goto
  <2>3. ~lid_lost' => LidAt(ec.lid)'
    BY <1>1, <1>10, <2>1, <2>2 DEF LidAt, ShowsLid
  <2>4. QED
    BY <1>1, <1>10, <2>1, <2>2, <2>3, LidGoOn DEF Updating
<1>16. CASE AuxfwReturn \/ TunnelsProtected
  <2>1. pc' \in {"reboot_to_ro", "limit", "running_rw", "booted"} /\ lid_lost' = lid_lost
    BY <1>16 DEF AuxfwReturn, TunnelsProtected, GoOn, Recover, Restart, StartAp, Goto, aux
  <2>2. QED
    BY <1>3, <2>1 DEF Updating
<1>17. QED
  BY <1>4, <1>5, <1>6, <1>8, <1>9, <1>11, <1>12, <1>13, <1>14, <1>15, <1>16 DEF AuxStep

LEMMA LidStep == IInv /\ LidInv /\ [Next]_vars => LidInv'
<1> SUFFICES ASSUME IInv, LidInv, [Next]_vars PROVE LidInv'
  OBVIOUS
<1>1. CASE (DriverStep \/ EcStep \/ Loss) /\ UNCHANGED <<pc, board, sync, aux>>
  BY <1>1, LidDriver
<1>2. CASE SyncStep /\ UNCHANGED aux
  BY <1>2, LidSync
<1>3. CASE AuxStep \/ AuxfwCheckFails
  BY <1>3, LidAux
<1>4. CASE EcReset /\ lid_lost' = TRUE
  <2>1. PICK d \in Damaged(ec) : ec' = Reset(d)
    BY <1>4 DEF EcReset
  <2>2. ec'.pending = NoCmd
    BY <2>1, ResetTyped DEF IInv, TypeInv
  <2>3. QED
    BY <1>4, <2>2 DEF LidInv
<1>5. CASE PowerLoss /\ UNCHANGED aux
  <2>1. pc' \in {"limit", "running_rw"} /\ lid_lost' = lid_lost
    BY <1>5 DEF PowerLoss, StartAp, Goto, aux
  <2>2. QED
    BY <2>1 DEF LidInv, Updating
<1>6. CASE UNCHANGED vars
  BY <1>6 DEF vars, syncVars, aux, command, LidInv, LidAnswers, ShowsLid, LidAt
<1>7. QED
  BY <1>1, <1>2, <1>3, <1>4, <1>5, <1>6 DEF Next, ApStep

\* While a chip is updated a closed lid does not switch the machine off, and when
\* update_vboot_auxfw returns it does as it did before, on every way out of the
\* loop (a chip that is busy, one that fails, an error of its driver), unless a
\* command about the mask failed or the EC restarted.  Only boards with x86 mask it.
THEOREM LidMaskIsKept == Spec => []LidMask
<1>1. Init => LidInv
  BY DEF Init, LidInv, Updating
<1>2. LidInv => LidMask
  BY DEF LidInv, LidMask, LidAt, Updating
<1>3. QED
  BY <1>1, <1>2, LidStep, IInvInit, IInvStep, PTL DEF Spec
================================================================================
