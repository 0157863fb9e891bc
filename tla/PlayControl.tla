---------------------------- MODULE PlayControl ----------------------------
(***************************************************************************)
(* Playing a signal file: two consoles, the TCP receiver and the host's    *)
(* serial line, each run their commands in a thread of their own and share *)
(* the FPGA's registers, the axidma stream, the record of the chosen file  *)
(* and the power amplifier (PA).  Only the transfer itself is under a      *)
(* mutex (pa_mutex); the play and write enable registers are not.          *)
(*                                                                         *)
(* The receivers of two sessions hold sock.mutex while they run a command, *)
(* so there is one "net" thread.  A file is an abstract name with a size   *)
(* in bytes (below 4 GiB, what the u32 length carries) and the length of   *)
(* that name; files of those names are only in /opt/signal.  The PL takes  *)
(* what the axidma stream brings only while its write enable is on: with   *)
(* it off a write may still succeed, and its data is lost.  The working    *)
(* directory open_in_dir changes is the process's: the threads share it.   *)
(***************************************************************************)
EXTENDS Integers

CONSTANTS
  File,       \* names of signal files a console may ask for
  Stored,     \* those that exist in /opt/signal
  Size,       \* [File -> size in bytes]
  NameLen,    \* [File -> length of the name]
  Packet,     \* what one usr_dma_write moves (64 KiB)
  Length,     \* what one read moves (256 MiB)
  MaxFailed,  \* bound: reads of one transfer that fail
  Empty,      \* record.txt is empty
  Garbled     \* record.txt holds a name nobody wrote

ASSUME PlayAssumption ==
  /\ Stored \subseteq File
  /\ Size \in [File -> Nat] /\ NameLen \in [File -> Nat \ {0}]
  /\ Packet \in Nat \ {0}
  /\ Length \in Nat \ {0} /\ Length % Packet = 0
  /\ MaxFailed \in Nat
  /\ Empty \notin File /\ Garbled \notin File /\ Empty # Garbled

(* The sizes for which a transfer is whole packets. *)
Aligned == \A f \in File : Size[f] % Packet = 0

VARIABLES
  play, write_enable, length,  \* the FPGA's registers
  buffer,    \* [File -> how much of it the PL took since it was cleared]
  pa,        \* what the last frame told the power amplifier
  record,    \* what record.txt holds
  cwd,       \* the process's working directory
  pa_mutex,  \* holder of res->sock[0].pa_mutex
  pc,        \* [Thread -> ..] control of the command it runs
  enable,    \* [Thread -> ..] the command's enable bit
  file,      \* [Thread -> ..] the file it is about
  old_cwd,   \* [Thread -> ..] what open_in_dir goes back to ("home" outside of it)
  job,       \* [Thread -> ..] the locals of usr_net_xdma_play
  lone       \* history: the thread of the last command, if it ran alone

regs  == <<play, write_enable, length>>
local == <<enable, file, old_cwd, job>>
dirs  == <<cwd, old_cwd>>
vars  == <<regs, buffer, pa, record, cwd, pa_mutex, pc, local, lone>>

Thread == {"net", "ser"}
Nobody == "nobody"

Dir == {"home", "signal"}

Pc == {"idle", "check", "get", "open", "chdir", "file", "back", "trunc", "write",
       "play", "lock", "clear", "length", "enable", "read", "send", "disable",
       "on", "off", "stop", "hush"}

(* off is what the loop counts, at the position in the file: they part     *)
(* when a read fails.  -1 is what a failed read returns, and the largest   *)
(* size_t.  ok: no read and no write of the transfer has failed.           *)
Job == [opened : BOOLEAN, off : Nat \cup {-1}, at : Nat, readlen : Nat \cup {-1},
        i : Nat, ok : BOOLEAN]

NewJob == [opened |-> FALSE, off |-> 0, at |-> 0, readlen |-> 0, i |-> 0, ok |-> TRUE]

(* After the transfer only that there was one is kept, for the history.    *)
Sent == [NewJob EXCEPT !.opened = TRUE]

(* After usr_dma_error_set: nothing plays and no file is in the buffer. *)
Init ==
  /\ play = 0 /\ write_enable = FALSE /\ length = 0
  /\ buffer = [f \in File |-> 0]
  /\ pa = "off"
  /\ record \in Stored \cup {Empty}
  /\ cwd = "home"
  /\ pa_mutex = Nobody
  /\ pc = [t \in Thread |-> "idle"]
  /\ old_cwd = [t \in Thread |-> "home"]
  /\ enable = [t \in Thread |-> FALSE]
  /\ file = [t \in Thread |-> Empty]
  /\ job = [t \in Thread |-> NewJob]
  /\ lone = Nobody

Goto(t, next) == pc' = [pc EXCEPT ![t] = next]

Idle == \A t \in Thread : pc[t] = "idle"

(* A command of thread t arrives, for file f. *)
Begin(t, en, f, next) ==
  /\ pc[t] = "idle"
  /\ Goto(t, next)
  /\ enable' = [enable EXCEPT ![t] = en]
  /\ file' = [file EXCEPT ![t] = f]
  /\ job' = [job EXCEPT ![t] = NewJob]
  /\ lone' = IF Idle THEN t ELSE Nobody
  /\ UNCHANGED <<regs, buffer, pa, record, dirs, pa_mutex>>

-----------------------------------------------------------------------------
(* usr_net_ctrl_replay and usr_net_chan_config. *)

NetReplay == \E en \in BOOLEAN :
  Begin("net", en, Empty, IF en THEN "check" ELSE "off")

(* find_file_in_path: the name is in the directory /opt/signal. *)
Found(f) == f \in Stored

(* A file that is not there is answered and not recorded. *)
NetChanConfig == \E f \in File : Found(f) /\ Begin("net", FALSE, f, "trunc")

(* usr_play_file_get *)
NetGet ==
  /\ pc["net"] = "get"
  /\ file' = [file EXCEPT !["net"] = record]
  /\ Goto("net", IF record = Empty THEN "on" ELSE "open")
  /\ UNCHANGED <<regs, buffer, pa, record, dirs, pa_mutex, enable, job, lone>>

-----------------------------------------------------------------------------
(* usr_ser_param_set: a start of a file that does not exist is a stop,     *)
(* except that its frame goes to the amplifier with its enable bit set.    *)

SerParamSet == \E en \in BOOLEAN, f \in File :
  Begin("ser", en, f, IF en /\ Found(f) THEN "check" ELSE "off")

-----------------------------------------------------------------------------
(* What both do. *)

Check(t) ==
  /\ pc[t] = "check"
  /\ Goto(t, IF play = 2 THEN "on" ELSE IF t = "net" THEN "get" ELSE "open")
  /\ UNCHANGED <<regs, buffer, pa, record, cwd, pa_mutex, local, lone>>

(* open_in_dir: getcwd, chdir to /opt/signal, open, chdir back.            *)
OpenGetCwd(t) ==
  /\ pc[t] = "open"
  /\ old_cwd' = [old_cwd EXCEPT ![t] = cwd]
  /\ Goto(t, "chdir")
  /\ UNCHANGED <<regs, buffer, pa, record, cwd, pa_mutex, enable, file, job, lone>>

(* Mutant: the directory is not changed. *)
OpenChDirNot(t) ==
  /\ pc[t] = "chdir"
  /\ Goto(t, "file")
  /\ UNCHANGED <<cwd, regs, buffer, pa, record, pa_mutex, local, lone>>

OpenChDir(t) ==
  /\ pc[t] = "chdir"
  /\ cwd' = "signal"
  /\ Goto(t, "file")
  /\ UNCHANGED <<regs, buffer, pa, record, pa_mutex, local, lone>>

OpenFile(t) ==
  /\ pc[t] = "file"
  /\ job' = [job EXCEPT ![t].opened = cwd = "signal" /\ file[t] \in Stored]
  /\ Goto(t, "back")
  /\ UNCHANGED <<regs, buffer, pa, record, dirs, pa_mutex, enable, file, lone>>

(* The TCP console looks at the result, the serial one does not.           *)
OpenBack(t) ==
  /\ pc[t] = "back"
  /\ cwd' = old_cwd[t]
  /\ old_cwd' = [old_cwd EXCEPT ![t] = "home"]
  /\ Goto(t, IF t = "ser" THEN "trunc" ELSE IF job[t].opened THEN "play" ELSE "on")
  /\ UNCHANGED <<regs, buffer, pa, record, pa_mutex, enable, file, job, lone>>

(* Mutant: the record is overwritten without O_TRUNC. *)
RecordTruncNot(t) ==
  /\ pc[t] = "trunc"
  /\ Goto(t, "write")
  /\ UNCHANGED <<record, regs, buffer, pa, cwd, pa_mutex, local, lone>>

(* usr_play_file_record: open with O_TRUNC, then write at offset 0. *)
RecordTrunc(t) ==
  /\ pc[t] = "trunc"
  /\ record' = Empty
  /\ Goto(t, "write")
  /\ UNCHANGED <<regs, buffer, pa, cwd, pa_mutex, local, lone>>

RecordWrite(t) ==
  /\ pc[t] = "write"
  /\ record' = IF \/ record = Empty
                  \/ record \in File /\ NameLen[file[t]] >= NameLen[record]
               THEN file[t] ELSE Garbled
  /\ Goto(t, IF enable[t] THEN "play" ELSE "idle")
  /\ UNCHANGED <<regs, buffer, pa, cwd, pa_mutex, local, lone>>

SetPlay(t) ==
  /\ pc[t] = "play"
  /\ play' = 2
  /\ Goto(t, "lock")
  /\ UNCHANGED <<write_enable, length, buffer, pa, record, cwd, pa_mutex, local, lone>>

-----------------------------------------------------------------------------
(* usr_net_xdma_play *)

(* Mutant: the transfer does not take pa_mutex. *)
LockNot(t) ==
  /\ pc[t] = "lock"
  /\ IF job[t].opened
     THEN UNCHANGED pa_mutex /\ Goto(t, "clear")
     ELSE UNCHANGED pa_mutex /\ Goto(t, "on")
  /\ UNCHANGED <<regs, buffer, pa, record, cwd, local, lone>>

(* Mutant: when fstat fails pa_mutex stays locked. *)
LockKept(t) ==
  /\ pc[t] = "lock" /\ pa_mutex = Nobody
  /\ pa_mutex' = t
  /\ Goto(t, IF job[t].opened THEN "clear" ELSE "on")
  /\ UNCHANGED <<regs, buffer, pa, record, cwd, local, lone>>

(* fstat fails on the descriptor -1: unlock at once, nothing is sent. *)
Lock(t) ==
  /\ pc[t] = "lock" /\ pa_mutex = Nobody
  /\ IF job[t].opened
     THEN pa_mutex' = t /\ Goto(t, "clear")
     ELSE UNCHANGED pa_mutex /\ Goto(t, "on")
  /\ UNCHANGED <<regs, buffer, pa, record, cwd, local, lone>>

ClearBuffer(t) ==
  /\ pc[t] = "clear"
  /\ buffer' = [f \in File |-> 0]
  /\ Goto(t, "length")
  /\ UNCHANGED <<regs, pa, record, cwd, pa_mutex, local, lone>>

(* fpga_dma_set_length: the register counts words of four bytes. *)
Words(bytes) == bytes \div 4

SetLength(t) ==
  /\ pc[t] = "length"
  /\ length' = Words(Size[file[t]])
  /\ Goto(t, "enable")
  /\ UNCHANGED <<play, write_enable, buffer, pa, record, cwd, pa_mutex, local, lone>>

WriteEnable(t) ==
  /\ pc[t] = "enable"
  /\ write_enable' = TRUE
  /\ Goto(t, "read")
  /\ UNCHANGED <<play, length, buffer, pa, record, cwd, pa_mutex, local, lone>>

Least(m, n) == IF m < n THEN m ELSE n

(* while (off < file_len), with off a size_t: -1 is the largest one.  A     *)
(* read brings what is left up to Length, which is nothing at the end of   *)
(* the file.  It fails on an error, or because malloc did; off goes back   *)
(* by one then, the position stays, and nobody looks.                      *)
Read(t) ==
  /\ pc[t] = "read"
  /\ LET size == Size[file[t]]
         n    == Least(Length, size - job[t].at)
     IN  \/ /\ job[t].off \in 0 .. size - 1
            /\ \/ job' = [job EXCEPT ![t].readlen = n, ![t].off = @ + n, ![t].at = @ + n,
                                     ![t].i = 0]
               \/ /\ job[t].at - job[t].off < MaxFailed
                  /\ job' = [job EXCEPT ![t].readlen = -1, ![t].off = @ - 1,
                                        ![t].ok = FALSE, ![t].i = 0]
            /\ Goto(t, "send")
         \/ /\ job[t].off \notin 0 .. size - 1
            /\ Goto(t, "disable") /\ UNCHANGED job
  /\ UNCHANGED <<regs, buffer, pa, record, dirs, pa_mutex, enable, file, lone>>

(* readlen / packet: unsigned, so after a failed read more packets than    *)
(* the buffer holds.  Those behind the buffer are left out.                *)
Packets(readlen) == (IF readlen = -1 THEN Length ELSE readlen) \div Packet

(* The size of every packet of a read, the last one or not. *)
PacketSize(readlen) ==
  IF readlen % Packet = 0 THEN Packet ELSE readlen % Packet

(* What a packet adds to the file in the PL: nothing after a failed read,  *)
(* when it is whatever the memory holds, nor while the write enable is off. *)
Taken(t) ==
  IF ~write_enable \/ job[t].readlen = -1 THEN buffer
  ELSE [buffer EXCEPT ![file[t]] = @ + PacketSize(job[t].readlen)]

(* for (i = 0; i < readlen / packet; i++); a failed write ends it. *)
Send(t) ==
  /\ pc[t] = "send"
  /\ IF job[t].i < Packets(job[t].readlen)
     THEN \/ /\ buffer' = Taken(t)
             /\ job' = [job EXCEPT ![t].i = @ + 1]
             /\ UNCHANGED pc
          \/ /\ job' = [job EXCEPT ![t].ok = FALSE]
             /\ Goto(t, "read")
             /\ UNCHANGED buffer
     ELSE Goto(t, "read") /\ UNCHANGED <<buffer, job>>
  /\ UNCHANGED <<regs, pa, record, dirs, pa_mutex, enable, file, lone>>

(* Mutant: the write enable stays on after the transfer. *)
WriteDisableNot(t) ==
  /\ pc[t] = "disable"
  /\ pa_mutex' = Nobody
  /\ job' = [job EXCEPT ![t] = Sent]
  /\ Goto(t, "on")
  /\ UNCHANGED <<regs, buffer, pa, record, dirs, enable, file, lone>>

(* Write enable off, then the file is closed and pa_mutex released. *)
WriteDisable(t) ==
  /\ pc[t] = "disable"
  /\ write_enable' = FALSE
  /\ pa_mutex' = Nobody
  /\ job' = [job EXCEPT ![t] = Sent]
  /\ Goto(t, "on")
  /\ UNCHANGED <<play, length, buffer, pa, record, dirs, enable, file, lone>>

-----------------------------------------------------------------------------
(* The frame for the amplifier, and the end of a command. *)

Frame(t) == IF enable[t] THEN "on" ELSE "off"

AmplifierOn(t) ==
  /\ pc[t] = "on"
  /\ pa' = Frame(t)
  /\ Goto(t, "idle")
  /\ UNCHANGED <<regs, buffer, record, cwd, pa_mutex, local, lone>>

AmplifierOff(t) ==
  /\ pc[t] = "off"
  /\ pa' = Frame(t)
  /\ Goto(t, "stop")
  /\ UNCHANGED <<regs, buffer, record, cwd, pa_mutex, local, lone>>

StopPlay(t) ==
  /\ pc[t] = "stop"
  /\ play' = 0
  /\ Goto(t, IF t = "net" THEN "idle" ELSE "hush")
  /\ UNCHANGED <<write_enable, length, buffer, pa, record, cwd, pa_mutex, local, lone>>

(* The serial stop also clears the write enable, without pa_mutex. *)
SerHush ==
  /\ pc["ser"] = "hush"
  /\ write_enable' = FALSE
  /\ Goto("ser", "idle")
  /\ UNCHANGED <<play, length, buffer, pa, record, cwd, pa_mutex, local, lone>>

-----------------------------------------------------------------------------
Arrive == NetReplay \/ NetChanConfig \/ SerParamSet

Transfer(t) ==
  \/ ClearBuffer(t) \/ SetLength(t) \/ WriteEnable(t)
  \/ Read(t) \/ Send(t) \/ WriteDisable(t)

Common(t) ==
  \/ Check(t) \/ OpenGetCwd(t) \/ OpenChDir(t) \/ OpenFile(t) \/ OpenBack(t)
  \/ RecordTrunc(t) \/ RecordWrite(t) \/ SetPlay(t) \/ Transfer(t)
  \/ AmplifierOn(t) \/ AmplifierOff(t) \/ StopPlay(t)

NetStep == NetGet \/ Common("net")
SerStep == SerHush \/ Common("ser")

Next == Arrive \/ NetStep \/ SerStep \/ \E t \in Thread : Lock(t)

Spec == Init /\ [][Next]_vars

(* Both threads keep running; a thread that waits for pa_mutex gets it, as *)
(* the other sleeps 100 ms and waits for a new command in between.         *)
Fairness ==
  /\ WF_vars(NetStep) /\ WF_vars(SerStep)
  /\ SF_vars(Lock("net")) /\ SF_vars(Lock("ser"))

FairSpec == Spec /\ Fairness

-----------------------------------------------------------------------------
TypeOK ==
  /\ play \in {0, 2} /\ write_enable \in BOOLEAN /\ length \in Nat
  /\ buffer \in [File -> Nat]
  /\ pa \in {"on", "off"}
  /\ record \in File \cup {Empty, Garbled}
  /\ cwd \in Dir /\ old_cwd \in [Thread -> Dir]
  /\ pa_mutex \in Thread \cup {Nobody}
  /\ pc \in [Thread -> Pc]
  /\ enable \in [Thread -> BOOLEAN]
  /\ file \in [Thread -> File \cup {Empty, Garbled}]
  /\ job \in [Thread -> Job]
  /\ lone \in Thread \cup {Nobody}

(* Between WriteEnable and WriteDisable. *)
Sending == {"read", "send", "disable"}

(* Between Lock and WriteDisable. *)
Transferring == Sending \cup {"clear", "length", "enable"}

(* Whatever the consoles ask for at the same time, a transfer none of      *)
(* whose reads and writes failed leaves exactly its file in the PL, with   *)
(* the length register set for it: no packet of another transfer, none     *)
(* twice.  That the serial console's own stop does not meet it is no       *)
(* condition, as that thread is busy; a transfer of the TCP console has to *)
(* find its write enable still on at the end, for a serial stop in the     *)
(* middle takes it away and the packets after that are lost.               *)
TransferComplete ==
  \A t \in Thread :
    pc[t] = "disable" /\ job[t].ok /\ (t = "net" => write_enable) =>
      /\ buffer = [f \in File |-> IF f = file[t] THEN Size[f] ELSE 0]
      /\ length = Words(Size[file[t]])

(* A thread holds pa_mutex exactly while it transfers. *)
OneTransfer == \A t \in Thread : pc[t] \in Transferring <=> pa_mutex = t

(* Steps of a command before its transfer moves anything. *)
Opening == {"check", "get", "open", "chdir", "file"}

Before == Opening \cup {"back", "trunc", "write", "play", "lock", "clear", "length", "enable"}

(* What is recorded or opened exists; only an opened file is transferred,  *)
(* and read no further than it goes.                                       *)
FileKnown ==
  \A t \in Thread :
    /\ pc[t] \in {"trunc", "write"} \/ job[t].opened => file[t] \in Stored
    /\ t = "ser" /\ pc[t] \in Opening \cup {"back"} => file[t] \in Stored
    /\ pc[t] \in Opening => ~job[t].opened
    /\ pc[t] \in Transferring => job[t].opened
    /\ pc[t] \in Sending => job[t].at <= Size[file[t]]
    /\ pc[t] \in Before => job[t].off = 0 /\ job[t].at = 0 /\ job[t].ok

(* How far a transfer is.  While nothing failed off is the position in the *)
(* file; and while the write enable was not taken away either, but for the *)
(* packets of the current read that are still to come all that was read is *)
(* in the PL.  A transfer of the serial console keeps its write enable.    *)
Progress ==
  \A t \in Thread : LET j == job[t]  f == file[t] IN
    /\ pc[t] \in {"length", "enable"} => \A g \in File : buffer[g] = 0
    /\ pc[t] \in Sending => \A g \in File \ {f} : buffer[g] = 0
    /\ pc[t] \in {"enable"} \cup Sending => length = Words(Size[f])
    /\ pc[t] \in Sending => j.at % Packet = 0
    /\ pc[t] \in Sending /\ j.ok => j.off = j.at
    /\ pc[t] \in Sending /\ t = "ser" => write_enable
    /\ pc[t] \in {"read", "disable"} /\ j.ok /\ write_enable => buffer[f] = j.at
    /\ pc[t] = "disable" /\ j.ok => j.at = Size[f]
    /\ pc[t] = "send" /\ j.ok =>
         /\ j.readlen \in Nat /\ j.readlen % Packet = 0 /\ j.readlen <= j.at
         /\ j.i <= j.readlen \div Packet
    /\ pc[t] = "send" /\ j.ok /\ write_enable =>
         buffer[f] = j.at - j.readlen + j.i * Packet

(* The inductive invariant, for files of whole packets. *)
PlayInv == TypeOK /\ OneTransfer /\ FileKnown /\ Progress

(* The write enable is on only while a transfer is under way, so nothing   *)
(* streams into the PL behind the back of an idle device.                  *)
WriteEnableOwned ==
  write_enable => \E t \in Thread : pc[t] \in Sending /\ pa_mutex = t

Stopping(t)  == ~enable[t] /\ (t = "net" => file[t] = Empty)
Choosing(t)  == t = "net" /\ ~enable[t] /\ file[t] # Empty

(* However the commands before it overlapped, one command that ran alone   *)
(* has put the device right: after a stop the amplifier is off and nothing *)
(* plays, after a start that opened its file both are on, and after a      *)
(* choice of file record.txt holds its name and no rest of another.        *)
LoneCommandDecides ==
  \A t \in Thread : Idle /\ lone = t =>
    /\ Stopping(t) => play = 0 /\ pa = "off" /\ ~write_enable
    /\ job[t].opened => play = 2
    /\ enable[t] => pa = "on"
    /\ Choosing(t) => record = file[t]

(* Commands that overlap may leave the process in /opt/signal, or open in  *)
(* the wrong directory; but a start that runs alone finds a stored file,   *)
(* wherever the ones before it have left the process.                      *)
LoneOpenFinds ==
  \A t \in Thread :
    lone = t /\ pc[t] = "back" /\ file[t] \in Stored => job[t].opened

(* All of the file has been read, but off counted a failed read as -1 and  *)
(* stopped short of the size: from now on every read brings nothing, and   *)
(* the loop goes on with pa_mutex locked.                                  *)
Endless(t) ==
  /\ pc[t] \in {"read", "send"}
  /\ job[t].at = Size[file[t]] /\ job[t].off \in 0 .. job[t].at - 1

(* Every command ends, and with it the sock.mutex the net thread holds:    *)
(* with DMA errors, without its file, and behind a transfer of the other   *)
(* console.  The one exception is in the code: a failed read behind the    *)
(* first one makes its transfer endless, and what waits for it, too.       *)
CommandsFinish ==
  \A t \in Thread : pc[t] # "idle" ~> pc[t] = "idle" \/ \E u \in Thread : Endless(u)

(* "1. save the old working directory to come back to", "4. whether it     *)
(* worked or not, restore the old working directory".                      *)
WorkDirRestored == Idle => cwd = "home"

(* "4. set write enable", "5. axidma send data to pl", "6. set write       *)
(* disable": data goes to the PL while the write enable is on.             *)
SentWhileEnabled ==
  [][(\E t \in Thread : job'[t].i > job[t].i) => write_enable]_vars
=============================================================================
