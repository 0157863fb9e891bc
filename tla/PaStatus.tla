------------------------------ MODULE PaStatus ------------------------------
(***************************************************************************)
(* The amplifier's status on its way through the device: the amplifier     *)
(* sends frames (SerialLink), serial_pa_thread copies the fields of an     *)
(* accepted one into the pa_* variables, one by one and without a lock,    *)
(* and the feedback threads (the serial console's and those of the TCP     *)
(* connections) read them one by one into the frames they send.  A field's *)
(* value is the number of the state it was reported in; "temp" stands for  *)
(* the fields of one byte, "vol" for the 16-bit ones, which are stored at  *)
(* once and read twice (high byte, low byte).  The one is in the first     *)
(* part of the payload, the other in the second.                           *)
(***************************************************************************)
EXTENDS SerialLink

CONSTANTS Reporters    \* the threads that send feedback

VARIABLES pa,          \* pa_pre_temp, pa_pre_vol, ..., pa_sts
          stored,      \* fields of the accepted frame stored so far
          reading,     \* per reporter: the bytes read for the next frame
          report       \* per reporter: those of the last frame it sent

vars == <<linkVars, pa, stored, reading, report>>

Stores == <<"temp", "vol">>
Reads  == <<"temp", "vol", "vol">>
Fields == {"temp", "vol"}

Init == /\ LinkInit
        /\ pa = [x \in Fields |-> 0] /\ stored = 0
        /\ reading = [r \in Reporters |-> <<>>]
        /\ report = [r \in Reporters |-> [i \in 1 .. Len(Reads) |-> 0]]

\* serial_pa_thread: one field after the other, from the buffer.
Store == /\ rx = "use"
         /\ pa' = [pa EXCEPT ![Stores[stored + 1]] = buf[stored + 2].of]
         /\ \/ /\ stored + 1 < Len(Stores)
               /\ stored' = stored + 1 /\ rx' = rx
            \/ /\ stored + 1 = Len(Stores)
               /\ stored' = 0 /\ rx' = "read"
         /\ UNCHANGED <<peer, buf, got, reading, report>>

\* period_feedback_buf_set: the next byte that comes from the amplifier.
ReadByte(r) == /\ Len(reading[r]) < Len(Reads)
               /\ reading' = [reading EXCEPT
                    ![r] = Append(@, pa[Reads[Len(@) + 1]])]
               /\ UNCHANGED <<linkVars, pa, stored, report>>

\* The frame is built and sent; the next one is read anew.
Report(r) == /\ Len(reading[r]) = Len(Reads)
             /\ report' = [report EXCEPT ![r] = reading[r]]
             /\ reading' = [reading EXCEPT ![r] = <<>>]
             /\ UNCHANGED <<linkVars, pa, stored>>

Link == LinkNext /\ UNCHANGED <<pa, stored, reading, report>>
Next == Link \/ Store \/ \E r \in Reporters : ReadByte(r) \/ Report(r)
Spec == Init /\ [][Next]_vars

(***************************************************************************)
(* The threads run, the amplifier goes on sending, and a frame that is     *)
(* there when the thread looks is read in one piece again and again: the   *)
(* thread sleeps 10 ms between reads, a frame takes 2 ms at 115200 baud.   *)
(***************************************************************************)
Keep == UNCHANGED <<pa, stored, reading, report>>
Receives == TimeOut \/ Check \/ \E n \in 1 .. L : ReadSome(n)
Fairness == /\ WF_vars(PeerSends /\ Keep)
            /\ SF_vars(ReadFrame /\ Keep)
            /\ WF_vars((Receives /\ Keep) \/ Store)
            /\ \A r \in Reporters : WF_vars(ReadByte(r) \/ Report(r))
FairSpec == Spec /\ Fairness

(***************************************************************************)
(* Properties                                                              *)
(***************************************************************************)
TypeOK == /\ state \in 0 .. LastState /\ burst \in 0 .. Burst /\ line \in Seq(Cells)
          /\ Len(line) <= LineMax /\ faults \in 0 .. Faults
          /\ buf \in [1 .. L -> Cells] /\ got \in 0 .. L
          /\ rx \in {"read", "check", "use"}
          /\ pa \in [Fields -> 0 .. LastState] /\ stored \in 0 .. Len(Stores) - 1
          /\ reading \in [Reporters -> Seq(0 .. LastState)]
          /\ report \in [Reporters -> [1 .. Len(Reads) -> 0 .. LastState]]

\* The tags that carry a state are in the order of the states, on the line and
\* from the buffer to the line; nothing is newer than the peer, and what the
\* buffer holds where a payload belongs is no older than what is stored.
Tagged(s) == {i \in DOMAIN s : s[i].part \in {"body", "rest", "tail"}}
LineOrdered ==
  /\ \A i, j \in Tagged(line) : i <= j => line[i].of <= line[j].of
  /\ \A i \in Tagged(line) : line[i].of <= state
BufferOrdered ==
  /\ \A i \in Tagged(buf) : buf[i].of <= state
  /\ \A i \in Tagged(buf), j \in Tagged(line) : buf[i].of <= line[j].of
  /\ \A x \in Fields :
       /\ pa[x] <= state
       /\ \A j \in Tagged(line) : pa[x] <= line[j].of
       /\ buf[2].part = "body" => pa[x] <= buf[2].of
       /\ buf[3].part = "rest" => pa[x] <= buf[3].of
  /\ rx = "use" => Accepts(buf)
\* What was sent, what has been read for the next frame, and what is stored now
\* tell of the same state or of later and later ones, byte by byte.
Forward(r) ==
  /\ Len(reading[r]) <= Len(Reads)
  /\ \A i \in 1 .. Len(reading[r]) :
       report[r][i] <= reading[r][i] /\ reading[r][i] <= pa[Reads[i]]
  /\ \A i \in 1 .. Len(Reads) : report[r][i] <= pa[Reads[i]]
ReportsOrdered == \A r \in Reporters : Forward(r)
PaInv == TypeOK /\ LineOrdered /\ BufferOrdered /\ ReportsOrdered

\* However reads are split, cells lost or damaged and threads interleaved, no
\* byte of a feedback frame tells of an older state of the amplifier than the
\* same byte of the frame before (usr_recv_serial_frame accepts the frame
\* before again when a read brings less than a frame: that is harmless here).
ReportsNeverGoBack ==
  [][\A r \in Reporters : report'[r] # report[r] =>
       \A i \in 1 .. Len(Reads) : report'[r][i] >= report[r][i]]_vars

\* When the amplifier's status no longer changes, every feedback frame tells it
\* in the end and for ever, whatever was lost, damaged or read in pieces before.
ReportsSettle ==
  <>[](\A r \in Reporters : \A i \in 1 .. Len(Reads) : report[r][i] = state)
=============================================================================
