------------------------------- MODULE Device -------------------------------
(***************************************************************************)
(* The life of the process: main opens the registers, the server socket,   *)
(* the DMA device and the two serial ports (usr_thread_res_init), stops    *)
(* what the player was left doing (usr_dma_error_set), starts the threads  *)
(* and joins them.  Nearly every result is ignored, so the model follows   *)
(* what a failed step leaves behind: -1, a number that is closed, a        *)
(* descriptor nobody closes, an id that was never filled in.               *)
(*                                                                         *)
(* The process can be killed and started again at any moment; the          *)
(* registers of the PL outlive it.  What the threads do to the player is   *)
(* PlayControl's; here a command sets it to anything.                      *)
(***************************************************************************)
EXTENDS SerialPort, Sequences, FiniteSets

CONSTANTS Failures   \* bound: calls that fail in one life of the process

DeviceFiles == {"mem", "sock", "dma", "i2c"}
ASSUME DeviceAssumption ==
  /\ Port = {"host", "pa"} /\ DeviceFiles \subseteq File \ {Console}
  /\ Failures \in Nat

VARIABLES
  mpc,        \* main's program point, an index of Program
  mem, base,  \* fpga_bram.fd, .base_addr
  sock, dma,  \* res.server_fd, res.chan0_dma_fd
  regs,       \* the PL's registers
  running,    \* the threads that run: their ids are filled in
  commanded,  \* history: a console has given a command
  ipc, i2c,   \* usr_i2c_read_reg: where its caller is, and its fd
  freed,      \* usr_thread_res_free has run
  lost,       \* history: descriptors dropped on error paths
  failed,     \* calls that failed
  alive       \* the process runs

opens   == <<mem, base, sock, dma>>
threads == <<running, commanded, ipc, i2c>>
lifeVars == <<mpc, opens, regs, threads, freed, lost, failed, alive>>
deviceVars == <<portVars, lifeVars>>

(***************************************************************************)
(* main, step by step.                                                     *)
(***************************************************************************)
Starts == << <<"open", "mem">>, <<"open", "sock">>, <<"open", "dma">>,
             <<"serial", "host">>, <<"serial", "pa">>,
             <<"reset", "begin">>, <<"reset", "end">>,
             <<"create", "host">>, <<"create", "rcv">>, <<"create", "pa">>,
             <<"create", "server">> >>

\* Mutant: the player is stopped when the threads run already.
ProgramResetsLate ==
  SubSeq(Starts, 1, 5) \o SubSeq(Starts, 8, 11) \o SubSeq(Starts, 6, 7)
    \o << <<"join", "server">>, <<"join", "host">>, <<"join", "pa">>, <<"join", "rcv">>,
          <<"free", "all">> >>

\* Mutant: one thread is joined twice and the serial receiver is not.
ProgramSkipsJoin == Starts \o << <<"join", "server">>, <<"join", "host">>,
                                 <<"join", "pa">>, <<"join", "pa">>,
                                 <<"free", "all">> >>

Program == Starts \o << <<"join", "server">>, <<"join", "host">>,
                        <<"join", "pa">>, <<"join", "rcv">>,
                        <<"free", "all">> >>

Threads == {"host", "rcv", "pa", "server"}
At(op, x) == alive /\ mpc <= Len(Program) /\ Program[mpc] = <<op, x>>

Goes  == mpc' = mpc + 1
Fails == failed < Failures /\ failed' = failed + 1

\* Undefined behaviour that ends the process; everything else is left as it is.
Dies == /\ alive' = FALSE
        /\ UNCHANGED <<portVars, mpc, opens, regs, threads, freed, lost, failed>>

\* The static fpga_bram, and main before its first call.
Fresh == /\ mpc = 1 /\ mem = NoFd /\ base = "null" /\ sock = NoFd /\ dma = NoFd
         /\ running = {} /\ commanded = FALSE /\ ipc = "idle" /\ i2c = NoFd
         /\ freed = FALSE /\ lost = 0 /\ failed = 0 /\ alive = TRUE

\* The player as the last process, or whoever loaded the PL, left it.
Regs == [play : {0, 2}, wen : BOOLEAN, clr : BOOLEAN, reset : BOOLEAN]
DeviceInit == PortInit /\ Fresh /\ regs \in Regs

-----------------------------------------------------------------------------
(* The descriptors of usr_thread_res_init. *)

\* A call that yields a descriptor of x, or one that does not.
Yields(x, f) == LowestUnused(f) /\ fdt' = [fdt EXCEPT ![f] = x]
Rest == UNCHANGED <<fd, tty, stale, asked, regs, threads, freed, alive>>

\* fpga_res_init: the address of a mapping that failed is not NULL.
OpenMem ==
  /\ At("open", "mem") /\ Goes
  /\ \/ \E f \in Fd : /\ Yields("mem", f) /\ mem' = f
                      /\ \/ base' = "mapped" /\ UNCHANGED failed
                         \/ base' = "failed" /\ Fails
     \/ Fails /\ mem' = NoFd /\ UNCHANGED <<base, fdt>>
  /\ Rest /\ UNCHANGED <<sock, dma, lost>>

\* usr_create_socket: setsockopt, bind or listen may fail behind socket.
OpenSocket ==
  /\ At("open", "sock") /\ Goes
  /\ \/ \E f \in Fd : /\ Yields("sock", f)
                      /\ \/ sock' = f /\ UNCHANGED <<lost, failed>>
                         \/ sock' = NoFd /\ lost' = lost + 1 /\ Fails
     \/ Fails /\ sock' = NoFd /\ UNCHANGED <<lost, fdt>>
  /\ Rest /\ UNCHANGED <<mem, base, dma>>

OpenDma ==
  /\ At("open", "dma") /\ Goes
  /\ \/ \E f \in Fd : Yields("dma", f) /\ dma' = f /\ UNCHANGED failed
     \/ Fails /\ dma' = NoFd /\ UNCHANGED fdt
  /\ Rest /\ UNCHANGED <<mem, base, sock, lost>>

\* serial_open: the result is not looked at.
EightN1 == [databits |-> 8, parity |-> "none", stopbits |-> 1,
            xonxoff |-> FALSE, rtscts |-> FALSE, baudrate |-> 115200]
OpenSerial(p) ==
  /\ At("serial", p) /\ Goes
  /\ \/ Open(p, EightN1) /\ UNCHANGED failed
     \/ OpenFails(p, EightN1) /\ Fails
     \/ OpenUnset(p, EightN1) /\ Fails
  /\ UNCHANGED <<opens, regs, threads, freed, lost, alive>>

-----------------------------------------------------------------------------
(* The registers. *)

\* fpga_res_check, in fpga_bram_read and fpga_bram_write.
Checked == mem # NoFd /\ base # "null"
BramWrite(r, reg, val) == IF Checked THEN [r EXCEPT ![reg] = val] ELSE r
\* Mutant: the mode is made a flag.
SetPlayFlag(r, play) == BramWrite(r, "play", IF play = 0 THEN 0 ELSE 1)
SetPlay(r, play)   == BramWrite(r, "play", play)
SetEnable(r, on)   == BramWrite(r, "wen", on)

\* Mutant: the clear bit is not taken back.
CtrlCfgHolds(r) == BramWrite(BramWrite(r, "clr", TRUE), "reset", TRUE)
\* fpga_dma_ctrl_cfg(TRUE, TRUE) sets the clear and the reset bit, and takes only
\* the clear bit back.
CtrlCfg(r) ==
  BramWrite(BramWrite(BramWrite(r, "clr", TRUE), "reset", TRUE), "clr", FALSE)

\* usr_dma_error_set: an empty transfer in repeat mode, then the player is idle.
\* The DMA write takes a while, and its result is not looked at.
Reset(step, r) ==
  /\ At("reset", step)
  /\ IF Checked /\ base = "failed" THEN Dies
     ELSE /\ regs' = r /\ Goes
          /\ UNCHANGED <<portVars, opens, threads, freed, lost, failed, alive>>
ResetBegins == Reset("begin", SetEnable(SetPlay(CtrlCfg(regs), 2), TRUE))
ResetEnds   == Reset("end", SetEnable(SetPlay(regs, 0), FALSE))

-----------------------------------------------------------------------------
(* usr_thread_create, usr_thread_join and usr_thread_res_free. *)

\* Without a server socket the server is not created.
Create(t) ==
  /\ At("create", t) /\ Goes
  /\ \/ running' = running /\ t = "server" /\ sock = NoFd /\ UNCHANGED failed
     \/ running' = running \cup {t} /\ (t = "server" => sock # NoFd) /\ UNCHANGED failed
     \/ running' = running /\ (t = "server" => sock # NoFd) /\ Fails
  /\ UNCHANGED <<portVars, opens, regs, commanded, ipc, i2c, freed, lost, alive>>

\* No thread ever returns, so the join of one that runs blocks for good.  The
\* join of an id that was never filled in is undefined: an error, or the end.
Join(t) ==
  /\ At("join", t) /\ t \notin running
  /\ \/ Goes /\ UNCHANGED <<portVars, opens, regs, threads, freed, lost, failed, alive>>
     \/ Dies

Closes(f) == IF f = NoFd THEN {} ELSE {f}
\* snd_buf is freed twice: libc ends the process, or does not notice.
Free ==
  /\ At("free", "all")
  /\ \/ /\ Goes /\ freed' = TRUE
        /\ fdt' = [f \in Fd |-> IF f \in Closes(sock) \cup Closes(dma)
                                THEN NoFile ELSE fdt[f]]
        /\ UNCHANGED <<fd, tty, stale, asked, opens, regs, threads, lost, failed, alive>>
     \/ Dies

-----------------------------------------------------------------------------
(* The threads. *)

\* A command of either console, as far as the registers tell; it may be between
\* the two writes of its fpga_dma_ctrl_cfg.
ConsoleCommands ==
  /\ alive /\ running \cap {"rcv", "server"} # {}
  /\ commanded' = TRUE
  /\ \E play \in {0, 2}, on \in BOOLEAN, clr \in BOOLEAN :
       regs' = BramWrite(SetEnable(SetPlay(regs, play), on), "clr", clr)
  /\ UNCHANGED <<portVars, mpc, opens, running, ipc, i2c, freed, lost, failed, alive>>

\* serial_read puts the number into an fd_set before it asks anybody: with -1
\* that is undefined, and it may pass as a read of nothing.
ReadUnopened ==
  /\ alive
  /\ \/ "rcv" \in running /\ fd["host"] = NoFd
     \/ "pa" \in running /\ fd["pa"] = NoFd
  /\ Dies

\* usr_i2c_read_reg, called for every feedback frame by threads that hold
\* sock.mutex: one at a time.  A failing write or read returns at once.
Reader == alive /\ running \cap {"host", "server"} # {}
I2cRest == UNCHANGED <<fd, tty, stale, asked, mpc, opens, regs, running, commanded,
                       freed, alive>>
I2cOpen == /\ Reader /\ ipc = "idle"
           /\ \E f \in Fd : Yields("i2c", f) /\ i2c' = f
           /\ ipc' = "write"
           /\ I2cRest /\ UNCHANGED <<lost, failed>>
I2cWorks == /\ ipc \in {"write", "read"} /\ Reader
            /\ ipc' = IF ipc = "write" THEN "read" ELSE "close"
            /\ I2cRest /\ UNCHANGED <<fdt, i2c, lost, failed>>
I2cFails == /\ ipc \in {"write", "read"} /\ Reader
            /\ ipc' = "idle" /\ i2c' = NoFd
            /\ lost' = lost + 1 /\ Fails
            /\ I2cRest /\ UNCHANGED fdt
\* Mutant: the number is forgotten and not closed.
I2cCloseForgets == /\ ipc = "close" /\ Reader
                   /\ ipc' = "idle" /\ i2c' = NoFd
                   /\ I2cRest /\ UNCHANGED <<fdt, lost, failed>>
I2cClose == /\ ipc = "close" /\ Reader
            /\ fdt' = [fdt EXCEPT ![i2c] = NoFile]
            /\ ipc' = "idle" /\ i2c' = NoFd
            /\ I2cRest /\ UNCHANGED <<lost, failed>>

\* The process has ended or is killed, and is started again.
StartAgain ==
  /\ mpc' = 1 /\ mem' = NoFd /\ base' = "null" /\ sock' = NoFd /\ dma' = NoFd
  /\ running' = {} /\ commanded' = FALSE /\ ipc' = "idle" /\ i2c' = NoFd
  /\ freed' = FALSE /\ lost' = 0 /\ failed' = 0 /\ alive' = TRUE
  /\ fd' = [p \in Port |-> NoFd]
  /\ fdt' = [f \in Fd |-> IF f = 0 THEN Console ELSE NoFile]
  /\ stale' = {}
  /\ UNCHANGED <<tty, asked, regs>>

DeviceNext ==
  \/ OpenMem \/ OpenSocket \/ OpenDma \/ \E p \in Port : OpenSerial(p)
  \/ ResetBegins \/ ResetEnds
  \/ \E t \in Threads : Create(t) \/ Join(t)
  \/ Free
  \/ ConsoleCommands \/ ReadUnopened
  \/ I2cOpen \/ I2cWorks \/ I2cFails \/ I2cClose
  \/ StartAgain

DeviceSpec == DeviceInit /\ [][DeviceNext]_deviceVars

(***************************************************************************)
(* Properties                                                              *)
(***************************************************************************)
MaybeFd == Fd \cup {NoFd}
DeviceTypeOK ==
  /\ PortTypeOK
  /\ mpc \in 1 .. Len(Program) + 1
  /\ mem \in MaybeFd /\ sock \in MaybeFd /\ dma \in MaybeFd /\ i2c \in MaybeFd
  /\ base \in {"null", "failed", "mapped"}
  /\ regs \in Regs /\ running \in SUBSET Threads
  /\ ipc \in {"idle", "write", "read", "close"}
  /\ commanded \in BOOLEAN /\ freed \in BOOLEAN /\ alive \in BOOLEAN
  /\ lost \in Nat /\ failed \in 0 .. Failures

\* Whatever failed, what usr_thread_res_free takes away is used by no thread:
\* main gets there only when none was started, for none ever ends.
FreedAtRest == freed => running = {}

\* However the process before was killed or crashed, also in the middle of a
\* transfer or of usr_dma_error_set: if this one could open /dev/mem, nothing
\* plays and write enable and clear bit are off when the first thread starts, and
\* until a console commands it.  The reset bit stays on from usr_dma_error_set.
\* If /dev/mem could not be opened the registers are out of the program's reach:
\* the threads start all the same, and the player stays as it was left.
Quiet == [play |-> 0, wen |-> FALSE, clr |-> FALSE, reset |-> TRUE]
StartsIdle == running # {} /\ ~commanded /\ mem # NoFd => regs = Quiet

\* A mapping that failed passes for one in fpga_res_check, and yet no thread
\* ever meets it: the process ends in usr_dma_error_set.
NoThreadMeetsBadMapping == running # {} => base # "failed"

\* Every descriptor of the registers, the socket, the DMA device and the i2c bus
\* is in the hands of the one who opened it, but for those dropped by a failed
\* socket set-up and by failed i2c transfers; and nobody holds another's.
Held == UNION {Closes(f) : f \in {mem, sock, dma, i2c}}
Orphans == {f \in Fd : fdt[f] \in DeviceFiles} \ Held
DescriptorsAccounted ==
  /\ Cardinality(Orphans) = lost
  /\ ~freed => /\ mem # NoFd => fdt[mem] = "mem"
               /\ sock # NoFd => fdt[sock] = "sock"
               /\ dma # NoFd => fdt[dma] = "dma"
               /\ i2c # NoFd => fdt[i2c] = "i2c"
=============================================================================
