---------------------------- MODULE BoundedFifo ----------------------------
(***************************************************************************)
(* What rngbuf.c promises to one producer and one consumer: a queue of at  *)
(* most Capacity bytes.  A put or a get is a call and a return, with calls *)
(* of the other side in between; how much it moves is decided by the state *)
(* of the queue "at the time of the call".                                 *)
(***************************************************************************)
EXTENDS Integers, Sequences, SequencesExt

CONSTANTS
  Byte, Capacity,
  MaxRequest  \* bound: the longest put or get asked for

VARIABLES
  queue,      \* the bytes in the buffer
  putting,    \* the call in progress: its bytes and the room it found
  getting,    \* the call in progress: its limit and the bytes it found
  ahead,      \* bytes put ahead, not yet in the queue
  accepted,   \* what the last put returned
  delivered   \* what the last get delivered

vars == <<queue, putting, getting, ahead, accepted, delivered>>

None == <<>>

Fewer(m, n) == IF m < n THEN m ELSE n

Init ==
  /\ queue = <<>> /\ ahead = <<>>
  /\ putting = None /\ getting = None
  /\ accepted = 0 /\ delivered = <<>>

PutCall(s) ==
  /\ putting = None
  /\ putting' = <<s, Capacity - Len(queue)>>
  /\ ahead' = <<>>
  /\ UNCHANGED <<queue, getting, accepted, delivered>>

PutReturn ==
  /\ putting # None
  /\ LET n == Fewer(Len(putting[1]), putting[2]) IN
       /\ queue' = queue \o SubSeq(putting[1], 1, n)
       /\ accepted' = n
  /\ putting' = None
  /\ UNCHANGED <<getting, ahead, delivered>>

GetCall(max) ==
  /\ getting = None
  /\ getting' = <<max, Len(queue)>>
  /\ UNCHANGED <<queue, putting, ahead, accepted, delivered>>

GetReturn ==
  /\ getting # None
  /\ LET n == Fewer(getting[1], getting[2]) IN
       /\ delivered' = SubSeq(queue, 1, n)
       /\ queue' = SubSeq(queue, n + 1, Len(queue))
  /\ getting' = None
  /\ UNCHANGED <<putting, ahead, accepted>>

(* One byte: put if there is room, got if there is one. *)
PutElem(b) ==
  /\ putting = None
  /\ \/ Len(queue) < Capacity /\ queue' = Append(queue, b) /\ accepted' = 1
     \/ Len(queue) = Capacity /\ UNCHANGED queue /\ accepted' = 0
  /\ ahead' = <<>>
  /\ UNCHANGED <<putting, getting, delivered>>

GetElem ==
  /\ getting = None
  /\ \/ /\ queue # <<>>
        /\ delivered' = <<Head(queue)>> /\ queue' = Tail(queue)
     \/ queue = <<>> /\ delivered' = <<>> /\ UNCHANGED queue
  /\ UNCHANGED <<putting, getting, ahead, accepted>>

(* Bytes put ahead enter the queue all at once. *)
PutAhead(b, offset) ==
  /\ putting = None
  /\ offset <= Len(ahead) /\ offset + 1 <= Capacity - Len(queue)
  /\ ahead' = IF offset = Len(ahead) THEN Append(ahead, b)
                                    ELSE ReplaceAt(ahead, offset + 1, b)
  /\ UNCHANGED <<queue, putting, getting, accepted, delivered>>

MoveAhead(n) ==
  /\ putting = None /\ n <= Len(ahead)
  /\ queue' = queue \o SubSeq(ahead, 1, n)
  /\ ahead' = SubSeq(ahead, n + 1, Len(ahead))
  /\ UNCHANGED <<putting, getting, accepted, delivered>>

(* Only while neither side is at work. *)
Flush ==
  /\ putting = None /\ getting = None
  /\ queue' = <<>> /\ ahead' = <<>>
  /\ UNCHANGED <<putting, getting, accepted, delivered>>

Next ==
  \/ \E s \in BoundedSeq(Byte, MaxRequest) : PutCall(s)
  \/ \E n \in 0 .. MaxRequest : GetCall(n)
  \/ PutReturn \/ GetReturn \/ GetElem \/ Flush
  \/ \E b \in Byte : PutElem(b)
  \/ \E b \in Byte, n \in 0 .. Capacity : PutAhead(b, n) \/ MoveAhead(n)

Spec == Init /\ [][Next]_vars
=============================================================================
