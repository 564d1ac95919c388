------------------------------ MODULE Netboot -------------------------------
(* netboot() of src/src/netboot/netboot.c: an address from DHCP (module    *)
(* Dhcp), up to three downloads over TFTP (module Tftp) into the kernel's  *)
(* memory and the command line, and the boot.  A download gives the whole  *)
(* file or fails after any part of it has been stored (FileTransfer).      *)
(*                                                                         *)
(* cmd_line is a sequence of characters: "a" printable ones of the         *)
(* arguments it was called with, "f" of a file, "s" a space, "c" a control *)
(* character and "t" the option that names the TFTP server.                *)
EXTENDS Naturals, Sequences

CONSTANTS
  KernelSize,    \* CONFIG_KERNEL_SIZE; memory is counted from its start
  Page,          \* the alignment of the ramdisk
  LineSize,      \* sizeof(cmd_line) - 1
  ArgsFiles,     \* what the args file may hold
  MaxRuns        \* bound: how often the command line calls netboot

ASSUME NetbootAssumption ==
  /\ KernelSize \in Nat \ {0}
  /\ Page \in Nat \ {0}
  /\ LineSize \in Nat \ {0}
  /\ \A f \in ArgsFiles : f \in Seq({"f", "s", "c"}) /\ Len(f) <= LineSize
  /\ MaxRuns \in Nat \ {0}

NoAddress == KernelSize + 1      \* NULL

VARIABLES
  stage,
  cli,            \* called by a developer (command line, Ctrl-N): args is NULL
  runs,
  bootsize,       \* the size of the downloaded bootfile
  ramdisk,        \* its address, or NoAddress
  ramdisk_size,
  cmd_line,
  argsfile,       \* history: <<file>> when it was downloaded, else <<>>
  lease           \* DHCP has given an address

netboot_vars ==
  <<stage, cli, runs, bootsize, ramdisk, ramdisk_size, cmd_line, argsfile, lease>>

Args == <<"a">>

NetbootTypeOK ==
  /\ stage \in {"dhcp", "bootfile", "ramdisk", "args", "strip", "release",
             "boot", "booted", "halt", "returned", "undefined"}
  /\ cli \in BOOLEAN
  /\ runs \in 1 .. MaxRuns
  /\ bootsize \in 0 .. KernelSize
  /\ ramdisk \in 0 .. KernelSize \cup {NoAddress}
  /\ ramdisk_size \in 0 .. KernelSize
  /\ cmd_line \in Seq({"a", "f", "s", "c", "t"}) /\ Len(cmd_line) <= LineSize
  /\ argsfile \in {<<>>} \cup {<<f>> : f \in ArgsFiles}
  /\ lease \in BOOLEAN

NetbootInit ==
  /\ stage = "dhcp"
  /\ cli \in BOOLEAN
  /\ runs = 1
  /\ bootsize = 0
  /\ ramdisk = NoAddress
  /\ ramdisk_size = 0
  /\ cmd_line = Args
  /\ argsfile = <<>>
  /\ lease = FALSE

-----------------------------------------------------------------------------
(* The loop around try_dhcp.                                               *)
TryDhcp ==
  /\ stage = "dhcp"
  /\ lease' = TRUE
  /\ stage' = "bootfile"
  /\ UNCHANGED <<cli, runs, bootsize, ramdisk, ramdisk_size, cmd_line, argsfile>>

Bootfile ==
  /\ stage = "bootfile"
  /\ bootsize' \in 0 .. KernelSize
  /\ stage' = "ramdisk"
  /\ UNCHANGED <<cli, runs, ramdisk, ramdisk_size, cmd_line, argsfile, lease>>

BootfileFails ==        \* the address is released, or that fails too
  /\ stage = "bootfile"
  /\ lease' \in BOOLEAN
  /\ stage' = "halt"
  /\ UNCHANGED <<cli, runs, bootsize, ramdisk, ramdisk_size, cmd_line, argsfile>>

(* The ramdisk goes behind the bootfile, at the next page.                 *)
AlignDown == (bootsize \div Page) * Page                       \* mutant
Aligned == ((bootsize + Page - 1) \div Page) * Page

Ramdisk ==
  /\ stage = "ramdisk"
  /\ cli
  /\ Aligned < KernelSize
  /\ ramdisk' = Aligned
  /\ ramdisk_size' \in 0 .. KernelSize - Aligned
  /\ stage' = "args"
  /\ UNCHANGED <<cli, runs, bootsize, cmd_line, argsfile, lease>>

(* None is asked for, there is no space, or the download fails.            *)
NoRamdisk ==
  /\ stage = "ramdisk"
  /\ ramdisk' = NoAddress
  /\ ramdisk_size' = 0
  /\ stage' = "args"
  /\ UNCHANGED <<cli, runs, bootsize, cmd_line, argsfile, lease>>

(* TFTP writes to cmd_line itself; what is behind the file stays there     *)
(* until the line is cut off.                                              *)
Overwritten(file, n) ==
  SubSeq(file, 1, n) \o SubSeq(cmd_line, n + 1, Len(cmd_line))

Argsfile(file) ==
  /\ stage = "args"
  /\ cmd_line' = Overwritten(file, Len(file))
  /\ argsfile' = <<file>>
  /\ stage' = "strip"
  /\ UNCHANGED <<cli, runs, bootsize, ramdisk, ramdisk_size, lease>>

(* No args file is asked for, or it cannot be downloaded to its end.  The  *)
(* arguments are taken as they are, in cmd_line, or are NULL.              *)
ArgsfileFails(file) ==
  /\ stage = "args"
  /\ \E n \in 0 .. Len(file) : cmd_line' = Overwritten(file, n)
  /\ argsfile' = <<>>
  /\ stage' = "release"
  /\ UNCHANGED <<cli, runs, bootsize, ramdisk, ramdisk_size, lease>>

(* Trailing white space is cut off, control characters become spaces.      *)
Blank == {"s", "c"}
SizeOnce(file) ==                                              \* mutant
  IF file[Len(file)] \in Blank THEN Len(file) - 1 ELSE Len(file)
StrippedSize(file) ==
  CHOOSE n \in 0 .. Len(file) :
    /\ n > 0 => file[n] \notin Blank
    /\ \A i \in n + 1 .. Len(file) : file[i] \in Blank
Spaced(c) == IF c = "c" THEN "s" ELSE c

Strip ==
  /\ stage = "strip"
  /\ argsfile[1] # <<>>
  /\ cmd_line' = [i \in 1 .. StrippedSize(argsfile[1]) |-> Spaced(cmd_line[i])]
  /\ stage' = "release"
  /\ UNCHANGED <<cli, runs, bootsize, ramdisk, ramdisk_size, argsfile, lease>>

(* With an empty file the loop looks at cmd_line[-1]: a printable byte     *)
(* there ends it, another one makes size wrap.                             *)
StripEmpty ==
  /\ stage = "strip"
  /\ argsfile[1] = <<>>
  /\ \/ stage' = "release" /\ cmd_line' = <<>>
     \/ stage' = "undefined" /\ UNCHANGED cmd_line
  /\ UNCHANGED <<cli, runs, bootsize, ramdisk, ramdisk_size, argsfile, lease>>

ReleaseAddress ==
  /\ stage = "release"
  /\ lease' = FALSE
  /\ stage' = "boot"
  /\ UNCHANGED <<cli, runs, bootsize, ramdisk, ramdisk_size, cmd_line, argsfile>>

(* dhcp_release finds no connection left.                                  *)
ReleaseFails ==
  /\ stage = "release"
  /\ stage' = "halt"
  /\ UNCHANGED <<cli, runs, bootsize, ramdisk, ramdisk_size, cmd_line,
                 argsfile, lease>>

(* The TFTP server's address is put at the end of the line.                *)
Fits == Len(cmd_line) + 1 <= LineSize

Boot ==
  /\ stage = "boot"
  /\ Fits
  /\ cmd_line' = Append(cmd_line, "t")
  /\ stage' \in {"booted", "returned"}      \* crossystem_setup or boot() may fail
  /\ UNCHANGED <<cli, runs, bootsize, ramdisk, ramdisk_size, argsfile, lease>>

OutOfSpace ==
  /\ stage = "boot"
  /\ ~Fits
  /\ stage' = "returned"
  /\ UNCHANGED <<cli, runs, bootsize, ramdisk, ramdisk_size, cmd_line,
                 argsfile, lease>>

(* The command line may try again, netboot_entry halts.                    *)
Again ==
  /\ stage = "returned"
  /\ cli
  /\ runs < MaxRuns
  /\ runs' = runs + 1
  /\ ramdisk' = NoAddress
  /\ ramdisk_size' = 0
  /\ bootsize' = 0
  /\ argsfile' = <<>>
  /\ stage' = "dhcp"
  /\ UNCHANGED <<cli, cmd_line, lease>>

Halt ==
  /\ stage = "returned"
  /\ ~cli
  /\ stage' = "halt"
  /\ UNCHANGED <<cli, runs, bootsize, ramdisk, ramdisk_size, cmd_line,
                 argsfile, lease>>

NetbootNext ==
  \/ TryDhcp \/ Bootfile \/ BootfileFails \/ Ramdisk \/ NoRamdisk
  \/ \E file \in ArgsFiles : Argsfile(file) \/ ArgsfileFails(file)
  \/ Strip \/ StripEmpty \/ ReleaseAddress \/ ReleaseFails \/ Boot \/ OutOfSpace
  \/ Again \/ Halt

NetbootSpec == NetbootInit /\ [][NetbootNext]_netboot_vars

-----------------------------------------------------------------------------
(* What the kernel is given as ramdisk lies behind the bootfile and within *)
(* the kernel's memory.                                                    *)
RamdiskApart ==
  stage = "booted" /\ ramdisk # NoAddress =>
    bootsize <= ramdisk /\ ramdisk + ramdisk_size <= KernelSize

(* A kernel booted with an args file gets the file and then the server,    *)
(* without control characters, without blanks at its end and without       *)
(* anything of an older line, also if netboot ran before.                  *)
FileIsLine ==
  stage = "booted" /\ argsfile # <<>> =>
    LET n == Len(cmd_line) - 1
    IN  /\ cmd_line[n + 1] = "t"
        /\ n > 0 => cmd_line[n] # "s"
        /\ \A i \in 1 .. n : cmd_line[i] = Spaced(argsfile[1][i])
        /\ \A i \in n + 1 .. Len(argsfile[1]) : argsfile[1][i] \in Blank
=============================================================================
