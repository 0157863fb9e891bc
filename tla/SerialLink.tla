----------------------------- MODULE SerialLink -----------------------------
(***************************************************************************)
(* One receiving end of a serial line of the device: the peer that sends   *)
(* frames, the bytes on their way, and the thread that calls               *)
(* usr_recv_serial_frame, which reads with serial_read into a buffer that  *)
(* is never cleared.  Both ends of the device (the host's commands, the    *)
(* amplifier's status) run this code; what the thread does with a frame is *)
(* left to the module that extends this one.                               *)
(*                                                                         *)
(* A frame is four cells: the two bytes 0x7B, the 19 bytes of payload in   *)
(* two parts, and the CRC with the two bytes 0x7D.  The head is the same   *)
(* in every frame and only the CRC varies in the tail, so a read that      *)
(* splits a head or a tail leaves what a read that splits between cells    *)
(* leaves; one that ends within the payload leaves the parts of two frames *)
(* side by side.  Frames are numbered by the state of the peer they carry. *)
(* The CRC is taken to tell the payload of one frame from that of another  *)
(* and from any mix of two; SerialFrame says what crc8 does tell.          *)
(***************************************************************************)
EXTENDS Naturals, Sequences

CONSTANTS LastState,   \* bound: how often the peer's state changes
          LineMax,     \* bound: cells on their way or in the tty's buffer
          Burst,       \* frames the peer sends without a pause between them
          Faults       \* bound: cells lost or damaged

ASSUME LinkAssumption ==
  LastState \in Nat /\ LineMax \in Nat /\ Burst \in Nat \ {0} /\ Faults \in Nat

VARIABLES state,    \* what the peer has to say, a number that grows
          burst,    \* frames sent since the last pause
          line,     \* cells sent and not read, in order
          faults,   \* cells lost or damaged so far
          buf,      \* the receive buffer, as the last reads left it
          got,      \* serial_read's bytes_read, in cells
          rx        \* where the thread is: "read", "check", "use"

peer == <<state, burst, line, faults>>
linkVars == <<state, burst, line, faults, buf, got, rx>>

L == 4
\* Bytes no frame has, with a value no state has.
Junk == [part |-> "junk", of |-> LastState + 1]
Frame(f) == << [part |-> "head", of |-> 0],
               [part |-> "body", of |-> f],
               [part |-> "rest", of |-> f],
               [part |-> "tail", of |-> f] >>

Cells == {Junk, [part |-> "head", of |-> 0]}
           \cup [part : {"body", "rest", "tail"}, of : 0 .. LastState]

LinkInit == /\ state = 0 /\ burst = 0 /\ line = <<>> /\ faults = 0
            /\ buf = [i \in 1 .. L |-> Junk] /\ got = 0 /\ rx = "read"

(***************************************************************************)
(* The peer and the wire.  Up to Burst frames follow each other without a  *)
(* pause in which the reader gives up on what it has.                      *)
(***************************************************************************)
Changes == /\ state < LastState
           /\ state' = state + 1
           /\ UNCHANGED <<burst, line, faults, buf, got, rx>>

\* A pause: when the frame begins, the call before has ended with nothing left.
Paused == line = <<>> /\ got = 0
PeerSends == /\ Len(line) + L <= LineMax
             /\ burst < Burst \/ Paused
             /\ line' = line \o Frame(state)
             /\ burst' = IF Paused THEN 1 ELSE burst + 1
             /\ UNCHANGED <<state, faults, buf, got, rx>>

\* Bytes are lost (the UART overruns) or damaged.
Lost(i) == line' = SubSeq(line, 1, i - 1) \o SubSeq(line, i + 1, Len(line))
Damaged(i) == line' = [line EXCEPT ![i] = Junk]
Fault == /\ faults < Faults
         /\ faults' = faults + 1
         /\ \E i \in 1 .. Len(line) : Lost(i) \/ Damaged(i)
         /\ UNCHANGED <<state, burst, buf, got, rx>>

(***************************************************************************)
(* serial_read: select and read until 24 bytes are there or the 5 ms are   *)
(* over, which select counts down over the whole call.                     *)
(***************************************************************************)
\* Mutant: what comes next is put at the beginning of the buffer.
FillOver(n) == buf' = [i \in 1 .. L |-> IF i \in 1 .. n THEN line[i] ELSE buf[i]]
\* read returns the n cells that have arrived, behind those of this call.
Fill(n) == buf' = [i \in 1 .. L |->
                     IF i \in got + 1 .. got + n THEN line[i - got] ELSE buf[i]]

ReadSome(n) == /\ rx = "read" /\ n <= Len(line) /\ got + n <= L
               /\ Fill(n)
               /\ line' = SubSeq(line, n + 1, Len(line))
               /\ got' = got + n
               /\ rx' = IF got + n = L THEN "check" ELSE "read"
               /\ UNCHANGED <<state, burst, faults>>

\* The time is over: what was read is returned, be it less than a frame.
\* With nothing read the call returns -1 and changes nothing.
TimeOut == /\ rx = "read" /\ got > 0
           /\ rx' = "check"
           /\ UNCHANGED <<peer, buf, got>>

\* select or read fails, or read returns nothing: what was read stays in
\* the buffer and is not looked at.
ReadFails == /\ rx = "read" /\ got > 0
             /\ got' = 0
             /\ UNCHANGED <<peer, buf, rx>>

(***************************************************************************)
(* usr_recv_serial_frame looks at 24 bytes whatever serial_read returned.  *)
(***************************************************************************)
Marked(b) == b[1].part = "head" /\ b[L].part = "tail"
\* Mutant: the CRC is not compared.
CrcUnchecked(b) == b[2].part # "head"
\* Mutant: the CRC is computed over the first part of the payload only.
CrcOfPart(b) == b[2].part = "body" /\ b[2].of = b[L].of
CrcMatches(b) == /\ b[2].part = "body" /\ b[2].of = b[L].of
                 /\ b[3].part = "rest" /\ b[3].of = b[L].of
Accepts(b) == Marked(b) /\ CrcMatches(b)

\* The next call starts at the beginning of the buffer.
RestartNot == got' = got
Restart == got' = 0
Check == /\ rx = "check"
         /\ Restart
         /\ rx' = IF Accepts(buf) THEN "use" ELSE "read"
         /\ UNCHANGED <<peer, buf>>

LinkNext == \/ Changes \/ PeerSends \/ Fault
            \/ \E n \in 1 .. L : ReadSome(n)
            \/ TimeOut \/ ReadFails \/ Check

(***************************************************************************)
(* A frame that is all there when the call begins is read in one piece.    *)
(***************************************************************************)
ReadFrame == /\ got = 0 /\ Len(line) >= L
             /\ \E f \in 0 .. state : SubSeq(line, 1, L) = Frame(f)
             /\ ReadSome(L)
=============================================================================
