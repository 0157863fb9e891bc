------------------------------ MODULE HostLink ------------------------------
(***************************************************************************)
(* The host's commands on the serial line: the receiving end of SerialLink *)
(* with what serial_rcv_host_thread does with a frame, which is to carry   *)
(* it out (usr_ser_param_set, PlayControl's serial console).  `state` is   *)
(* the number of the last command the host has sent; it sends each once.   *)
(*                                                                         *)
(* usr_recv_serial_frame accepts whatever 24 bytes the buffer holds when a *)
(* read brought at least one.  With the amplifier's status that is         *)
(* harmless (PaStatus); here the frame is a command.                       *)
(***************************************************************************)
EXTENDS SerialLink

VARIABLES executed,   \* history: the commands carried out, in order
          short       \* history: a read has returned less than a frame

hostVars == <<linkVars, executed, short>>

HostInit == LinkInit /\ executed = <<>> /\ short = FALSE

\* The next command, subject to the host's pauses.
HostSends ==
  /\ state < LastState /\ Len(line) + L <= LineMax
  /\ burst < Burst \/ Paused
  /\ state' = state + 1
  /\ line' = line \o Frame(state + 1)
  /\ burst' = IF Paused THEN 1 ELSE burst + 1
  /\ UNCHANGED <<faults, buf, got, rx, executed, short>>

Carried == Fault \/ Check \/ \E n \in 1 .. L : ReadSome(n)
HostReads == \/ Carried /\ UNCHANGED <<executed, short>>
             \/ (TimeOut \/ ReadFails) /\ short' = TRUE /\ UNCHANGED executed

\* The command in the buffer; 0 stands for one with another one's parameters.
CommandOf(b) == IF b[2].of = b[3].of THEN b[2].of ELSE 0

\* serial_rcv_host_thread carries it out; a transfer may take long, and the host
\* goes on sending.
Carry == /\ rx = "use" /\ rx' = "read"
         /\ executed' = Append(executed, CommandOf(buf))
         /\ UNCHANGED <<peer, buf, got, short>>

HostNext == HostSends \/ HostReads \/ Carry
HostSpec == HostInit /\ [][HostNext]_hostVars

(***************************************************************************)
(* Properties                                                              *)
(***************************************************************************)
HostTypeOK ==
  /\ state \in 0 .. LastState /\ burst \in 0 .. Burst
  /\ line \in Seq(Cells) /\ Len(line) <= LineMax /\ faults \in 0 .. Faults
  /\ buf \in [1 .. L -> Cells] /\ got \in 0 .. L
  /\ rx \in {"read", "check", "use"}
  /\ executed \in Seq(1 .. LastState) /\ short \in BOOLEAN

\* However the line is cut, losing and damaged, the host's commands are carried
\* out whole and in order; the last one possibly again, never an older one.
HostOrder == INSTANCE CommandLink WITH Repeats <- TRUE, sent <- state, ran <- executed
HostInOrder == HostOrder!Spec

\* A command is carried out a second time only if a read returned less than a
\* frame; and with nothing lost or damaged either, every command is carried out
\* exactly once, up to what is on its way.
Pending == Len(line) + (IF rx = "read" THEN got ELSE L)
OnceUnlessShort ==
  ~short => /\ \A i, j \in DOMAIN executed : i < j => executed[i] < executed[j]
            /\ faults = 0 => L * Len(executed) + Pending = L * state
=============================================================================
