----------------------------- MODULE TcpFramer -----------------------------
(***************************************************************************)
(* How recv_from_socket takes commands out of the byte stream of a TCP     *)
(* connection: one recv for the header, which tells the length of the      *)
(* frame, and one recv for what is left of it.  recv returns what has      *)
(* arrived, up to what was asked for; what is short is dropped, and the    *)
(* next recv for a header begins where the bytes before it ended.          *)
(*                                                                         *)
(* A cell of the stream is a piece of a frame that the reads do not tell   *)
(* apart further: the header's first (0xA5A5 and the length) and second    *)
(* (the command), then Body cells, the last of which ends in 0x7E7E.       *)
(* Assumed: no parameter holds 0xA5A5 where a header can be looked for,    *)
(* and the frames fit into the buffer (the code does not compare them).    *)
(* Errors and the end of the connection are TcpSession's.                  *)
(***************************************************************************)
EXTENDS Integers, Sequences, SequencesExt

CONSTANTS MaxFrames,   \* bound: frames the client sends
          Body,        \* [1 .. MaxFrames -> cells of the frame behind the header]
          Known,       \* the frames whose command is in cmd_tbl
          BufSize      \* cells of sock[0].rcv_buf

HdrSize == 2    \* usr_net_cmd_hdr_size

ASSUME FramerAssumption ==
  /\ MaxFrames \in Nat /\ Body \in [1 .. MaxFrames -> Nat \ {0}]
  /\ BufSize \in Nat /\ \A k \in 1 .. MaxFrames : HdrSize + Body[k] <= BufSize
  /\ Known \subseteq 1 .. MaxFrames

VARIABLES sent,      \* frames the client has sent, numbered from 1
          wire,      \* cells on their way
          arrived,   \* kernel: cells that have arrived, not yet received
          rpc,       \* where the receiver is: "header", "body", "handle"
          frame_len, \* cells it waits for behind the header
          rcv_buf,   \* sock[0].rcv_buf
          ran,       \* history: the commands carried out
          quiet,     \* history: frames sent when the line was last at rest
          whole      \* history: since then only whole frames have arrived at once

stream == <<sent, wire, arrived>>
framerVars == <<stream, rpc, frame_len, rcv_buf, ran, quiet, whole>>

FrameCells(k) == [i \in 1 .. HdrSize + Body[k] |-> [of |-> k, at |-> i]]
\* What the buffer holds before anything was received.
NoCell == [of |-> 0, at |-> 0]
IsTail(c) == c.of # 0 /\ c.at = HdrSize + Body[c.of]
BufCells == 1 .. BufSize
Cell == {NoCell} \cup UNION {ToSet(FrameCells(k)) : k \in 1 .. MaxFrames}

FramerInit ==
  /\ sent = 0 /\ wire = <<>> /\ arrived = <<>>
  /\ rpc = "header" /\ frame_len = 0
  /\ rcv_buf = [i \in BufCells |-> NoCell]
  /\ ran = <<>> /\ quiet = 0 /\ whole = TRUE

(***************************************************************************)
(* The client and the network: segments end anywhere.                      *)
(***************************************************************************)
AtRest == wire = <<>> /\ arrived = <<>> /\ rpc = "header"

ClientSends ==
  /\ sent < MaxFrames
  /\ sent' = sent + 1
  /\ wire' = wire \o FrameCells(sent + 1)
  /\ IF AtRest THEN quiet' = sent /\ whole' = TRUE
               ELSE UNCHANGED <<quiet, whole>>
  /\ UNCHANGED <<arrived, rpc, frame_len, rcv_buf, ran>>

Arrive(n) ==
  /\ n <= Len(wire)
  /\ arrived' = arrived \o SubSeq(wire, 1, n)
  /\ wire' = SubSeq(wire, n + 1, Len(wire))
  /\ whole' = (whole /\ IsTail(wire[n]))
  /\ UNCHANGED <<sent, rpc, frame_len, rcv_buf, ran, quiet>>

(***************************************************************************)
(* recv_from_socket.                                                       *)
(***************************************************************************)
\* recv: at least one byte has arrived and at most ask are taken.  They are put
\* where the caller says, behind the end of the buffer too.
Taken(ask) == IF ask <= Len(arrived) THEN ask ELSE Len(arrived)
Recv(at, n) ==
  /\ rcv_buf' = [i \in DOMAIN rcv_buf \cup (at + 1 .. at + n) |->
                   IF i \in at + 1 .. at + n THEN arrived[i - at] ELSE rcv_buf[i]]
  /\ arrived' = SubSeq(arrived, n + 1, Len(arrived))

\* Mutant: the length in the header is taken for that of what follows it.
PackSizeTwice(c) == IF c.at = 1 THEN 2 * HdrSize + Body[c.of] ELSE -1
\* usr_net_get_pack_size: -1 without the mark of a header.
PackSize(c) == IF c.at = 1 THEN HdrSize + Body[c.of] ELSE -1

\* Mutant: the first recv asks for all that fits into the buffer.
AskAll == BufSize
AskHeader == HdrSize

Sane(n) == n >= 0

RecvHeader ==
  /\ rpc = "header" /\ arrived # <<>>
  /\ LET n == Taken(AskHeader) IN
       /\ Recv(0, n)
       /\ IF n = AskHeader /\ Sane(PackSize(arrived[1]) - HdrSize)
          THEN rpc' = "body" /\ frame_len' = PackSize(arrived[1]) - HdrSize
          ELSE UNCHANGED <<rpc, frame_len>>
  /\ UNCHANGED <<sent, wire, ran, quiet, whole>>

\* Mutant: how much came is not compared with what the header told.
CompleteUnchecked(n) == IsTail(rcv_buf'[HdrSize + frame_len])
Complete(n) == n = frame_len /\ IsTail(rcv_buf'[HdrSize + frame_len])

RecvBody ==
  /\ rpc = "body" /\ arrived # <<>>
  /\ LET n == Taken(frame_len) IN
       /\ Recv(HdrSize, n)
       /\ rpc' = IF Complete(n) THEN "handle" ELSE "header"
  /\ UNCHANGED <<sent, wire, frame_len, ran, quiet, whole>>

\* Nothing comes for 3 s: the header is forgotten.
BodyTimeout ==
  /\ rpc = "body" /\ arrived = <<>>
  /\ rpc' = "header"
  /\ UNCHANGED <<stream, frame_len, rcv_buf, ran, quiet, whole>>

\* usr_net_cmd_handler: the command in the header, with the parameters that are
\* in the buffer; 0 stands for a command with another one's parameters.
Command(b, n) ==
  IF \A i \in 1 .. HdrSize + n : b[i] = [of |-> b[1].of, at |-> i] THEN b[1].of ELSE 0
Handle ==
  /\ rpc = "handle" /\ rpc' = "header"
  /\ ran' = IF rcv_buf[HdrSize].of \in Known
            THEN Append(ran, Command(rcv_buf, frame_len)) ELSE ran
  /\ UNCHANGED <<stream, frame_len, rcv_buf, quiet, whole>>

FramerNext == \/ ClientSends \/ \E n \in 1 .. Len(wire) : Arrive(n)
              \/ RecvHeader \/ RecvBody \/ BodyTimeout \/ Handle
FramerSpec == FramerInit /\ [][FramerNext]_framerVars

\* The network delivers and the receiver runs.
FramerFairness == /\ WF_framerVars(\E n \in 1 .. Len(wire) : Arrive(n))
                  /\ WF_framerVars(RecvHeader) /\ WF_framerVars(RecvBody)
                  /\ WF_framerVars(Handle)

(***************************************************************************)
(* Properties                                                              *)
(***************************************************************************)
\* Nothing was ever stored behind the end of the buffer, which is the domain of
\* rcv_buf, and no command was carried out with another one's parameters (0).
FramerTypeOK ==
  /\ sent \in 0 .. MaxFrames /\ wire \in Seq(Cell) /\ arrived \in Seq(Cell)
  /\ rpc \in {"header", "body", "handle"} /\ frame_len \in Nat
  /\ rcv_buf \in [BufCells -> Cell]
  /\ ran \in Seq(1 .. MaxFrames) /\ quiet \in 0 .. MaxFrames /\ whole \in BOOLEAN

\* However the network cuts the stream, the commands carried out are whole, in
\* the order they were sent, and none is carried out twice.
Order == INSTANCE CommandLink WITH Repeats <- FALSE
CommandsInOrder == Order!Spec

\* The device loses no command by itself: those a client sends from a moment of
\* rest on, as long as every segment ends with a frame (be it one frame or many
\* in a row), are all carried out or still on their way.
OnItsWay(k) ==
  \/ FrameCells(k)[1] \in ToSet(wire) \cup ToSet(arrived)
  \/ rpc # "header" /\ rcv_buf[1] = FrameCells(k)[1]
WholeFramesHandled ==
  whole => \A k \in Known : k > quiet /\ k <= sent => k \in ToSet(ran) \/ OnItsWay(k)

\* And each of them is carried out in the end: the receiver never waits for what
\* does not come, nor gives up what does.
Due(k) == whole /\ k > quiet /\ k <= sent
FramesGetThrough == \A k \in Known : Due(k) ~> (k \in ToSet(ran) \/ ~Due(k))
=============================================================================
