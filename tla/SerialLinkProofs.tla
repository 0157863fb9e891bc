-------------------------- MODULE SerialLinkProofs --------------------------
(***************************************************************************)
(* Proofs about the two receivers of a serial line, for any number of      *)
(* states or commands, of frames in a burst, of cells on the line and of   *)
(* faults.                                                                 *)
(*                                                                         *)
(*   PaStatus  the amplifier's status never goes back, from the line       *)
(*             through the buffer and the variables to the frames sent,    *)
(*             for any number of reporters                                 *)
(*   HostLink  the host's commands are carried out in order, and again     *)
(*             only after a read that was short                            *)
(***************************************************************************)
EXTENDS PaStatus, HostLink, SequenceTheorems, TLAPS

(* What the line holds after each of the steps that change it. *)
LEMMA FrameTyped ==
  ASSUME NEW f \in 0 .. LastState
  PROVE  Frame(f) \in Seq(Cells) /\ Len(Frame(f)) = L /\ Junk \in Cells
PROOF
  BY DEF Frame, Cells, Junk, L

(* A frame that is sent stands at the end of the line. *)
LEMMA SentLine ==
  ASSUME NEW s \in Seq(Cells), NEW f \in 0 .. LastState
  PROVE  LET t == s \o Frame(f)
         IN  /\ t \in Seq(Cells) /\ Len(t) = Len(s) + L
             /\ \A i \in 1 .. Len(t) : i <= Len(s) => t[i] = s[i]
             /\ \A i \in 1 .. Len(t) :
                  (i > Len(s) /\ t[i].part \in {"body", "rest", "tail"}) => t[i].of = f
PROOF
<1>1. Frame(f) \in Seq(Cells) /\ Len(Frame(f)) = L
  BY FrameTyped
<1>2. \A i \in 1 .. L : Frame(f)[i].part \in {"body", "rest", "tail"} => Frame(f)[i].of = f
  BY DEF Frame, L
<1> DEFINE t == s \o Frame(f)
<1>3. /\ t \in Seq(Cells) /\ Len(t) = Len(s) + L
      /\ \A i \in 1 .. Len(s) + L :
           t[i] = IF i <= Len(s) THEN s[i] ELSE Frame(f)[i - Len(s)]
  BY <1>1, ConcatProperties
<1>4. Len(s) \in Nat
  BY LenProperties
<1> HIDE DEF t
<1>5. ASSUME NEW i \in 1 .. Len(t), i > Len(s), t[i].part \in {"body", "rest", "tail"}
      PROVE  t[i].of = f
  <2>1. i - Len(s) \in 1 .. L /\ t[i] = Frame(f)[i - Len(s)]
    BY <1>3, <1>4, <1>5 DEF L
  <2> QED
    BY <1>2, <1>5, <2>1
<1>6. \A i \in 1 .. Len(t) : i <= Len(s) => t[i] = s[i]
  BY <1>3
<1> QED
  BY <1>3, <1>5, <1>6 DEF t

(* A lost cell leaves the others in their order. *)
LEMMA LostLine ==
  ASSUME NEW s \in Seq(Cells), NEW k \in 1 .. Len(s)
  PROVE  LET t == SubSeq(s, 1, k - 1) \o SubSeq(s, k + 1, Len(s))
         IN  /\ t \in Seq(Cells) /\ Len(t) = Len(s) - 1
             /\ \A i \in 1 .. Len(t) : t[i] = IF i < k THEN s[i] ELSE s[i + 1]
PROOF
<1> DEFINE a == SubSeq(s, 1, k - 1)
           b == SubSeq(s, k + 1, Len(s))
<1>1. Len(s) \in Nat
  BY LenProperties
<1>2. a \in Seq(Cells) /\ Len(a) = k - 1 /\ \A i \in 1 .. k - 1 : a[i] = s[i]
  BY <1>1, SubSeqProperties
<1>3. /\ b \in Seq(Cells) /\ Len(b) = Len(s) - k
      /\ \A i \in 1 .. Len(s) - k : b[i] = s[i + k]
  BY <1>1, SubSeqProperties
<1> HIDE DEF a, b
<1>con. /\ a \o b \in Seq(Cells) /\ Len(a \o b) = Len(a) + Len(b)
        /\ \A i \in 1 .. Len(a) + Len(b) :
             (a \o b)[i] = IF i <= Len(a) THEN a[i] ELSE b[i - Len(a)]
  <2>1. a \in Seq(Cells) /\ b \in Seq(Cells)
    BY <1>2, <1>3
  <2> QED
    BY <2>1, ConcatProperties
<1>4. a \o b \in Seq(Cells) /\ Len(a \o b) = Len(s) - 1
  BY <1>1, <1>2, <1>3, <1>con
<1>5. ASSUME NEW i \in 1 .. Len(s) - 1
      PROVE  (a \o b)[i] = IF i < k THEN s[i] ELSE s[i + 1]
  <2>1. (a \o b)[i] = IF i <= k - 1 THEN a[i] ELSE b[i - (k - 1)]
    BY <1>1, <1>2, <1>3, <1>con
  <2>2. CASE i < k
    BY <1>1, <1>2, <2>1, <2>2
  <2>3. CASE i >= k
    <3>1. i - (k - 1) \in 1 .. Len(s) - k /\ (i - (k - 1)) + k = i + 1
      BY <1>1, <2>3
    <3> QED
      BY <1>1, <1>3, <2>1, <2>3, <3>1
  <2>4. i < k \/ i >= k
    BY <1>1
  <2> QED
    BY <2>2, <2>3, <2>4, Zenon
<1> QED
  BY <1>4, <1>5 DEF a, b

(* A read leaves the line without its first cells. *)
LEMMA ReadLine ==
  ASSUME NEW s \in Seq(Cells), NEW n \in Nat, n <= Len(s)
  PROVE  LET t == SubSeq(s, n + 1, Len(s))
         IN  /\ t \in Seq(Cells) /\ Len(t) = Len(s) - n
             /\ \A i \in 1 .. Len(t) : t[i] = s[i + n]
PROOF
<1>1. Len(s) \in Nat
  BY LenProperties
<1> QED
  BY <1>1, SubSeqProperties

-----------------------------------------------------------------------------
(* The state that the frame in the buffer tells, in all its cells.         *)
StoredOf == buf[2].of

LEMMA StoreTakes ==
  ASSUME TypeOK, BufferOrdered, Store
  PROVE  /\ StoredOf \in 0 .. LastState /\ pa' = [pa EXCEPT ![Stores[stored + 1]] = StoredOf]
         /\ buf[2].part = "body" /\ buf[3].part = "rest"
         /\ buf[2].of = StoredOf /\ buf[3].of = StoredOf
PROOF
<1>1. buf[2].part = "body" /\ buf[3].part = "rest" /\ buf[3].of = buf[2].of
  BY DEF Store, BufferOrdered, Accepts, CrcMatches, L
<1>2. buf[2] \in Cells
  BY DEF TypeOK, L
<1>3. buf[2].of \in 0 .. LastState
  BY <1>1, <1>2 DEF Cells, Junk
<1>4. stored = 0 \/ stored = 1
  BY DEF TypeOK, Stores
<1>5. buf[stored + 2].of = buf[2].of
  BY <1>1, <1>4
<1> QED
  BY <1>1, <1>3, <1>5 DEF Store, StoredOf

(* What holds of the line and the values on it, for any line t whose cells *)
(* are cells of the line before, in the same order.                        *)
LEMMA TypeStep ==
  ASSUME TypeOK, BufferOrdered, [Next]_vars
  PROVE  TypeOK'
PROOF
<1> USE LinkAssumption DEF TypeOK, linkVars, peer
<1>len. Len(line) \in Nat /\ \A i \in 1 .. Len(line) : line[i] \in Cells
  BY LenProperties, ElementOfSeq
<1>1. CASE LinkNext /\ UNCHANGED <<pa, stored, reading, report>>
  <2>1. CASE Changes
    BY <1>1, <2>1 DEF Changes
  <2>2. CASE PeerSends
    <3>1. state \in 0 .. LastState
      OBVIOUS
    <3>2. line' \in Seq(Cells) /\ Len(line') = Len(line) + L
      BY <2>2, <3>1, SentLine DEF PeerSends
    <3>3. burst' \in 0 .. Burst
      BY <2>2 DEF PeerSends
    <3> QED
      BY <1>1, <2>2, <3>2, <3>3, <1>len DEF PeerSends
  <2>3. CASE Fault
    <3>1. PICK k \in 1 .. Len(line) : Lost(k) \/ Damaged(k)
      BY <2>3 DEF Fault
    <3>2. line' \in Seq(Cells) /\ Len(line') <= Len(line) /\ Len(line') \in Nat
      <4>1. CASE Lost(k)
        <5>1. line' \in Seq(Cells) /\ Len(line') = Len(line) - 1
          BY <4>1, LostLine DEF Lost
        <5> QED
          BY <5>1, <1>len, <3>1
      <4>2. CASE Damaged(k)
        BY <4>2, ExceptSeq, FrameTyped, <1>len DEF Damaged, Junk, Cells
      <4> QED
        BY <3>1, <4>1, <4>2
    <3> QED
      BY <1>1, <2>3, <3>2, <1>len DEF Fault
  <2>4. ASSUME NEW n \in 1 .. L, ReadSome(n) PROVE TypeOK'
    <3>1. line' \in Seq(Cells) /\ Len(line') = Len(line) - n
      BY SMTT(30), <2>4, ReadLine DEF ReadSome, L
    <3>2. buf' \in [1 .. L -> Cells]
      BY <2>4, <1>len DEF ReadSome, Fill, L
    <3> QED
      BY SMTT(30), <1>1, <2>4, <3>1, <3>2, <1>len DEF ReadSome, L
  <2>5. CASE TimeOut \/ ReadFails \/ Check
    BY SMTT(30), <1>1, <2>5 DEF TimeOut, ReadFails, Check, Restart, L
  <2> QED
    BY <1>1, <2>1, <2>2, <2>3, <2>4, <2>5 DEF LinkNext
<1>2. CASE Store
  <2>2. StoredOf \in 0 .. LastState /\ pa' = [pa EXCEPT ![Stores[stored + 1]] = StoredOf]
    BY <1>2, StoreTakes
  <2>3. pa' \in [Fields -> 0 .. LastState]
    BY <2>2
  <2>4. Len(Stores) = 2
    BY DEF Stores
  <2>5. stored' \in 0 .. Len(Stores) - 1 /\ rx' \in {"read", "use"}
    BY <1>2, <2>4 DEF Store
  <2> QED
    BY <1>2, <2>3, <2>5 DEF Store
<1>3. ASSUME NEW r \in Reporters, ReadByte(r) PROVE TypeOK'
  <2>1. Len(reading[r]) \in Nat /\ Len(reading[r]) + 1 \in 1 .. Len(Reads)
    BY <1>3, LenProperties DEF ReadByte, Reads
  <2>2. pa[Reads[Len(reading[r]) + 1]] \in 0 .. LastState
    BY SMTT(30), <2>1 DEF Reads, Fields
  <2>3. reading' \in [Reporters -> Seq(0 .. LastState)]
    BY <1>3, <2>2, AppendProperties DEF ReadByte
  <2> QED
    BY <1>3, <2>3 DEF ReadByte
<1>4. ASSUME NEW r \in Reporters, Report(r) PROVE TypeOK'
  <2>1. reading[r] \in [1 .. Len(Reads) -> 0 .. LastState]
    BY <1>4, LenProperties DEF Report
  <2>2. <<>> \in Seq(0 .. LastState)
    BY EmptySeq
  <2> QED
    BY <1>4, <2>1, <2>2 DEF Report
<1>5. CASE UNCHANGED vars
  BY <1>5 DEF vars
<1> QED
  BY <1>1, <1>2, <1>3, <1>4, <1>5 DEF Next, Link

(* A line made of cells of another, in their order, some of them damaged, is *)
(* ordered as that one is and carries no other state.                      *)
LEMMA Selected ==
  ASSUME NEW s \in Seq(Cells), NEW t \in Seq(Cells),
         NEW h \in [1 .. Len(t) -> 1 .. Len(s)],
         \A i \in 1 .. Len(t) : t[i] = s[h[i]] \/ t[i] = Junk,
         \A i, j \in 1 .. Len(t) : i < j => h[i] < h[j],
         \A i, j \in Tagged(s) : i <= j => s[i].of <= s[j].of
  PROVE  /\ \A i, j \in Tagged(t) : i <= j => t[i].of <= t[j].of
         /\ \A i \in Tagged(t) : h[i] \in Tagged(s) /\ t[i].of = s[h[i]].of
PROOF
<1>1. DOMAIN s = 1 .. Len(s) /\ DOMAIN t = 1 .. Len(t)
  BY LenProperties
<1>2. \A i \in Tagged(t) :
        i \in 1 .. Len(t) /\ h[i] \in Tagged(s) /\ t[i].of = s[h[i]].of
  BY <1>1 DEF Tagged, Junk
<1>3. ASSUME NEW i \in Tagged(t), NEW j \in Tagged(t), i <= j
      PROVE  t[i].of <= t[j].of
  <2>1. i \in 1 .. Len(t) /\ j \in 1 .. Len(t) /\ h[i] \in 1 .. Len(s) /\ h[j] \in 1 .. Len(s)
    BY <1>2
  <2>2. h[i] <= h[j]
    BY <1>3, <2>1, LenProperties
  <2> QED
    BY <1>2, <2>2
<1> QED
  BY <1>2, <1>3

(* The line afterwards is made of cells of the line, in their order, some of *)
(* them damaged.                                                           *)
Selection ==
  \E h \in [1 .. Len(line') -> 1 .. Len(line)] :
    /\ \A i \in 1 .. Len(line') : line'[i] = line[h[i]] \/ line'[i] = Junk
    /\ \A i, j \in 1 .. Len(line') : i < j => h[i] < h[j]

(* Losing, damaging and reading cells select from the line.                *)
LEMMA LineTaken ==
  ASSUME line \in Seq(Cells),
         \/ \E k \in 1 .. Len(line) : Lost(k) \/ Damaged(k)
         \/ \E n \in 1 .. L : ReadSome(n)
  PROVE  line' \in Seq(Cells) /\ Selection
PROOF
<1>len. Len(line) \in Nat
  BY LenProperties
<1>1. ASSUME NEW k \in 1 .. Len(line), Lost(k) PROVE line' \in Seq(Cells) /\ Selection
  <2>1. /\ line' \in Seq(Cells) /\ Len(line') = Len(line) - 1
        /\ \A i \in 1 .. Len(line') : line'[i] = IF i < k THEN line[i] ELSE line[i + 1]
    BY <1>1, <1>len, LostLine DEF Lost
  <2> DEFINE h == [i \in 1 .. Len(line') |-> IF i < k THEN i ELSE i + 1]
  <2>2. h \in [1 .. Len(line') -> 1 .. Len(line)]
    BY <2>1, <1>len
  <2>3. \A i \in 1 .. Len(line') : line'[i] = line[h[i]]
    BY <2>1
  <2>4. \A i, j \in 1 .. Len(line') : i < j => h[i] < h[j]
    BY <2>1, <1>len
  <2> HIDE DEF h
  <2> QED
    BY <2>1, <2>2, <2>3, <2>4 DEF Selection
<1>2. ASSUME NEW k \in 1 .. Len(line), Damaged(k) PROVE line' \in Seq(Cells) /\ Selection
  <2>1. /\ line' \in Seq(Cells) /\ Len(line') = Len(line)
        /\ \A i \in 1 .. Len(line') : line'[i] = IF i = k THEN Junk ELSE line[i]
    BY <1>2, <1>len, ExceptSeq, FrameTyped DEF Damaged, Junk, Cells
  <2> DEFINE h == [i \in 1 .. Len(line') |-> i]
  <2>2. h \in [1 .. Len(line') -> 1 .. Len(line)]
    BY <2>1
  <2>3. /\ \A i \in 1 .. Len(line') : line'[i] = line[h[i]] \/ line'[i] = Junk
        /\ \A i, j \in 1 .. Len(line') : i < j => h[i] < h[j]
    BY <2>1
  <2> HIDE DEF h
  <2> QED
    BY <2>1, <2>2, <2>3 DEF Selection
<1>3. ASSUME NEW n \in 1 .. L, ReadSome(n) PROVE line' \in Seq(Cells) /\ Selection
  <2>a. n \in Nat /\ n <= Len(line) /\ line' = SubSeq(line, n + 1, Len(line))
    BY <1>3 DEF ReadSome, L
  <2>1. /\ line' \in Seq(Cells) /\ Len(line') = Len(line) - n
        /\ \A i \in 1 .. Len(line') : line'[i] = line[i + n]
    BY <2>a, <1>len, ReadLine
  <2> DEFINE h == [i \in 1 .. Len(line') |-> i + n]
  <2>2. h \in [1 .. Len(line') -> 1 .. Len(line)]
    BY <2>a, <2>1, <1>len
  <2>3. \A i \in 1 .. Len(line') : line'[i] = line[h[i]]
    BY <2>1
  <2>4. \A i, j \in 1 .. Len(line') : i < j => h[i] < h[j]
    BY <2>a, <2>1, <1>len
  <2> HIDE DEF h
  <2> QED
    BY <2>1, <2>2, <2>3, <2>4 DEF Selection
<1> QED
  BY <1>1, <1>2, <1>3

(* What each step does to the line: it sends, it takes cells away or damages *)
(* one, or it leaves the line alone.                                       *)
LEMMA LineStep ==
  ASSUME TypeOK, BufferOrdered, [Next]_vars
  PROVE  \/ /\ UNCHANGED line /\ state' \in state .. LastState
         \/ /\ PeerSends /\ line' = line \o Frame(state)
         \/ /\ state' = state /\ Selection
PROOF
<1>len. line \in Seq(Cells) /\ state \in 0 .. LastState
  BY DEF TypeOK
<1>1. CASE LinkNext
  <2>1. CASE Changes
    BY <2>1, <1>len, LinkAssumption DEF Changes
  <2>2. CASE PeerSends
    BY <2>2 DEF PeerSends
  <2>3. CASE Fault
    BY <2>3, <1>len, LineTaken DEF Fault
  <2>4. ASSUME NEW n \in 1 .. L, ReadSome(n) PROVE state' = state /\ Selection
    BY <2>4, <1>len, LineTaken DEF ReadSome
  <2>5. CASE TimeOut \/ ReadFails \/ Check
    BY <2>5, <1>len, LinkAssumption DEF TimeOut, ReadFails, Check, peer
  <2> QED
    BY <1>1, <2>1, <2>2, <2>3, <2>4, <2>5 DEF LinkNext
<1>2. CASE ~LinkNext
  BY <1>2, <1>len, LinkAssumption
     DEF Next, Link, Store, ReadByte, Report, vars, linkVars, peer
<1> QED
  BY <1>1, <1>2

(* What is on the line stays in order, and no older than what was read. *)
LEMMA OrderStep ==
  ASSUME TypeOK, LineOrdered, BufferOrdered, [Next]_vars
  PROVE  LineOrdered'
PROOF
<1>len. /\ Len(line) \in Nat /\ DOMAIN line = 1 .. Len(line)
        /\ line \in Seq(Cells)
        /\ \A i \in 1 .. Len(line) : line[i] \in Cells
        /\ state \in 0 .. LastState
  BY LenProperties, ElementOfSeq DEF TypeOK
<1>typ. line' \in Seq(Cells) /\ DOMAIN line' = 1 .. Len(line') /\ Len(line') \in Nat
  BY TypeStep, LenProperties DEF TypeOK
<1>of. \A i \in Tagged(line) : line[i].of \in 0 .. LastState
  BY <1>len DEF Tagged, Cells, Junk
<1>1. CASE UNCHANGED line /\ state' \in state .. LastState
  BY <1>1, <1>len, <1>of, LinkAssumption DEF LineOrdered, Tagged
<1>2. CASE PeerSends
  <2>1. /\ Len(line') = Len(line) + L /\ state' = state
        /\ \A i \in 1 .. Len(line') : i <= Len(line) => line'[i] = line[i]
        /\ \A i \in 1 .. Len(line') : (i > Len(line) /\ line'[i].part \in {"body", "rest", "tail"}) =>
             line'[i].of = state
    BY <1>2, <1>len, SentLine DEF PeerSends
  <2>2. \A i \in Tagged(line') : i <= Len(line) => i \in Tagged(line) /\ line'[i] = line[i]
    BY <1>len, <1>typ, <2>1 DEF Tagged
  <2>3. \A i \in Tagged(line') : i > Len(line) => line'[i].of = state
    BY <1>len, <1>typ, <2>1 DEF Tagged
  <2>4. \A i \in Tagged(line') : line'[i].of <= state
    BY <1>len, <1>typ, <2>2, <2>3 DEF LineOrdered, Tagged
  <2>5. ASSUME NEW i \in Tagged(line'), NEW j \in Tagged(line'), i <= j
        PROVE  line'[i].of <= line'[j].of
    <3>1. i \in 1 .. Len(line') /\ j \in 1 .. Len(line')
      BY <1>typ DEF Tagged
    <3>2. CASE j <= Len(line)
      BY <1>len, <1>typ, <2>2, <2>5, <3>1, <3>2 DEF LineOrdered
    <3>3. CASE j > Len(line)
      BY <2>3, <2>4, <3>3
    <3> QED
      BY <1>len, <1>typ, <3>1, <3>2, <3>3
  <2> QED
    BY <2>1, <2>4, <2>5 DEF LineOrdered
<1>3. ASSUME state' = state,
             NEW h \in [1 .. Len(line') -> 1 .. Len(line)],
             \A i \in 1 .. Len(line') : line'[i] = line[h[i]] \/ line'[i] = Junk,
             \A i, j \in 1 .. Len(line') : i < j => h[i] < h[j]
      PROVE  LineOrdered'
  <2>1. \A i, j \in Tagged(line) : i <= j => line[i].of <= line[j].of
    BY DEF LineOrdered
  <2>2. /\ \A i, j \in Tagged(line') : i <= j => line'[i].of <= line'[j].of
        /\ \A i \in Tagged(line') : h[i] \in Tagged(line) /\ line'[i].of = line[h[i]].of
    BY <1>3, <1>len, <1>typ, <2>1, Selected
  <2> QED
    BY <1>3, <2>2 DEF LineOrdered
<1> QED
  BY <1>1, <1>2, <1>3, LineStep DEF Selection

-----------------------------------------------------------------------------
(* The states on the line after a step were there before, or are the present *)
(* one.                                                                    *)
LEMMA TagsStep ==
  ASSUME TypeOK, LineOrdered, BufferOrdered, [Next]_vars
  PROVE  \A j \in Tagged(line') :
           line'[j].of = state \/ \E k \in Tagged(line) : line'[j].of = line[k].of
PROOF
<1>len. /\ Len(line) \in Nat /\ DOMAIN line = 1 .. Len(line)
        /\ line \in Seq(Cells) /\ state \in 0 .. LastState
  BY LenProperties DEF TypeOK
<1>typ. line' \in Seq(Cells) /\ DOMAIN line' = 1 .. Len(line') /\ Len(line') \in Nat
  BY TypeStep, LenProperties DEF TypeOK
<1>1. CASE UNCHANGED line
  BY <1>1
<1>2. CASE PeerSends
  <2>1. /\ Len(line') = Len(line) + L
        /\ \A i \in 1 .. Len(line') : i <= Len(line) => line'[i] = line[i]
        /\ \A i \in 1 .. Len(line') : (i > Len(line) /\ line'[i].part \in {"body", "rest", "tail"}) =>
             line'[i].of = state
    BY <1>2, <1>len, SentLine DEF PeerSends
  <2> QED
    BY <1>len, <1>typ, <2>1 DEF Tagged
<1>3. ASSUME NEW h \in [1 .. Len(line') -> 1 .. Len(line)],
             \A i \in 1 .. Len(line') : line'[i] = line[h[i]] \/ line'[i] = Junk,
             \A i, j \in 1 .. Len(line') : i < j => h[i] < h[j],
             NEW j \in Tagged(line')
      PROVE  \E k \in Tagged(line) : line'[j].of = line[k].of
  <2>1. \A i, k \in Tagged(line) : i <= k => line[i].of <= line[k].of
    BY DEF LineOrdered
  <2>2. \A i \in Tagged(line') : h[i] \in Tagged(line) /\ line'[i].of = line[h[i]].of
    BY <1>3, <1>len, <1>typ, <2>1, Selected
  <2> QED
    BY <2>2
<1> QED
  BY <1>1, <1>2, <1>3, LineStep DEF Selection

(* While the buffer and the variables stay, the order holds whatever happens *)
(* to the line.                                                            *)
LEMMA BufferKept ==
  ASSUME TypeOK, LineOrdered, BufferOrdered, [Next]_vars,
         UNCHANGED <<buf, pa>>, rx' = "use" => Accepts(buf)
  PROVE  BufferOrdered'
PROOF
<1>len. /\ state \in 0 .. LastState /\ state' \in state .. LastState
        /\ buf \in [1 .. L -> Cells] /\ pa \in [Fields -> 0 .. LastState]
  <2>1. state' \in state .. LastState
    BY LineStep, LinkAssumption DEF TypeOK, PeerSends
  <2> QED
    BY <2>1 DEF TypeOK
<1>of. \A i \in Tagged(buf) : buf[i].of \in 0 .. LastState
  BY <1>len DEF Tagged, Cells, Junk
<1>1. ASSUME NEW i \in Tagged(buf'), NEW j \in Tagged(line')
      PROVE  buf'[i].of <= line'[j].of
  BY <1>1, TagsStep DEF BufferOrdered
<1>2. ASSUME NEW x \in Fields, NEW j \in Tagged(line') PROVE pa'[x] <= line'[j].of
  BY <1>2, TagsStep DEF BufferOrdered
<1>3. \A i \in Tagged(buf') : buf'[i].of <= state'
  BY <1>len, <1>of, LinkAssumption DEF BufferOrdered
<1>4. \A x \in Fields : pa'[x] <= state'
  BY <1>len, LinkAssumption DEF BufferOrdered
<1>5. \A x \in Fields : /\ buf'[2].part = "body" => pa'[x] <= buf'[2].of
                       /\ buf'[3].part = "rest" => pa'[x] <= buf'[3].of
  BY DEF BufferOrdered
<1>6. rx' = "use" => Accepts(buf')
  OBVIOUS
<1> QED
  BY <1>1, <1>2, <1>3, <1>4, <1>5, <1>6 DEF BufferOrdered

(* What a read puts into the buffer was on the line, before what is left.  *)
LEMMA BufferRead ==
  ASSUME TypeOK, LineOrdered, BufferOrdered, UNCHANGED pa,
         NEW n \in 1 .. L, ReadSome(n)
  PROVE  BufferOrdered'
PROOF
<1>len. /\ Len(line) \in Nat /\ DOMAIN line = 1 .. Len(line)
        /\ \A i \in 1 .. Len(line) : line[i] \in Cells
        /\ state \in 0 .. LastState /\ state' = state
        /\ buf \in [1 .. L -> Cells] /\ pa \in [Fields -> 0 .. LastState]
        /\ got \in 0 .. L /\ n \in Nat /\ n <= Len(line)
  BY LenProperties, ElementOfSeq DEF TypeOK, ReadSome, L
<1>1. /\ Len(line') = Len(line) - n /\ line' \in Seq(Cells)
      /\ \A i \in 1 .. Len(line') : line'[i] = line[i + n]
  BY <1>len, ReadLine DEF ReadSome, TypeOK
<1>2. /\ DOMAIN line' = 1 .. Len(line')
      /\ \A j \in Tagged(line') : j + n \in Tagged(line) /\ line'[j].of = line[j + n].of
  <2>1. DOMAIN line' = 1 .. Len(line')
    BY <1>1, LenProperties
  <2> QED
    BY <1>len, <1>1, <2>1 DEF Tagged
<1>3. DOMAIN buf' = 1 .. L /\ DOMAIN buf = 1 .. L
  BY <1>len DEF ReadSome, Fill
<1>4. ASSUME NEW i \in 1 .. L
      PROVE  \/ buf'[i] = buf[i]
             \/ i - got \in 1 .. n /\ buf'[i] = line[i - got]
  BY <1>len DEF ReadSome, Fill, L
<1>5. ASSUME NEW i \in Tagged(buf')
      PROVE  \/ i \in Tagged(buf) /\ buf'[i].of = buf[i].of
             \/ /\ i - got \in 1 .. n /\ i - got \in Tagged(line)
                /\ buf'[i].of = line[i - got].of
  <2>1. i \in 1 .. L /\ buf'[i].part \in {"body", "rest", "tail"}
    BY <1>3 DEF Tagged
  <2>2. CASE buf'[i] = buf[i]
    BY <1>3, <2>1, <2>2 DEF Tagged
  <2>3. CASE i - got \in 1 .. n /\ buf'[i] = line[i - got]
    BY <1>len, <2>1, <2>3 DEF Tagged
  <2> QED
    BY <1>4, <2>1, <2>2, <2>3
<1>6. ASSUME NEW i \in Tagged(buf') PROVE buf'[i].of <= state'
  BY <1>5, <1>len DEF BufferOrdered, LineOrdered
<1>7. ASSUME NEW i \in Tagged(buf'), NEW j \in Tagged(line')
      PROVE  buf'[i].of <= line'[j].of
  <2>1. j \in 1 .. Len(line') /\ j + n \in Tagged(line) /\ line'[j].of = line[j + n].of
    BY <1>2 DEF Tagged
  <2>2. CASE i \in Tagged(buf) /\ buf'[i].of = buf[i].of
    BY <2>1, <2>2 DEF BufferOrdered
  <2>3. CASE /\ i - got \in 1 .. n /\ i - got \in Tagged(line)
             /\ buf'[i].of = line[i - got].of
    <3>1. i - got <= j + n
      BY <1>len, <1>1, <2>1, <2>3
    <3> QED
      BY <2>1, <2>3, <3>1 DEF LineOrdered
  <2> QED
    BY <1>5, <2>2, <2>3
<1>8. ASSUME NEW x \in Fields, NEW i \in {2, 3}, i \in Tagged(buf'),
             i \in Tagged(buf) /\ buf'[i] = buf[i] => pa[x] <= buf[i].of
      PROVE  pa'[x] <= buf'[i].of
  <2>1. CASE buf'[i] = buf[i]
    BY <1>3, <1>8, <2>1 DEF Tagged
  <2>2. CASE i - got \in 1 .. n /\ buf'[i] = line[i - got]
    <3>1. i - got \in Tagged(line)
      BY <1>len, <1>8, <2>2 DEF Tagged
    <3> QED
      BY <2>2, <3>1 DEF BufferOrdered
  <2> QED
    BY <1>4, <2>1, <2>2 DEF L
<1>9. ASSUME NEW x \in Fields
      PROVE  /\ pa'[x] <= state'
             /\ \A j \in Tagged(line') : pa'[x] <= line'[j].of
             /\ buf'[2].part = "body" => pa'[x] <= buf'[2].of
             /\ buf'[3].part = "rest" => pa'[x] <= buf'[3].of
  <2>1. /\ buf'[2].part = "body" => 2 \in Tagged(buf')
        /\ buf'[3].part = "rest" => 3 \in Tagged(buf')
    BY <1>3 DEF Tagged, L
  <2>2. /\ buf[2].part = "body" => pa[x] <= buf[2].of
        /\ buf[3].part = "rest" => pa[x] <= buf[3].of
    BY DEF BufferOrdered
  <2> QED
    BY <1>len, <1>2, <1>8, <2>1, <2>2 DEF BufferOrdered
<1>10. rx' # "use"
  BY DEF ReadSome
<1> QED
  BY <1>6, <1>7, <1>9, <1>10 DEF BufferOrdered

(* The buffer and the variables stay in the order of the states. *)
LEMMA BufferStep ==
  ASSUME TypeOK, LineOrdered, BufferOrdered, [Next]_vars
  PROVE  BufferOrdered'
PROOF
<1>1. CASE Link
  <2>1. CASE Changes \/ PeerSends \/ Fault \/ TimeOut \/ ReadFails
    BY <1>1, <2>1, BufferKept
       DEF Link, Changes, PeerSends, Fault, TimeOut, ReadFails, peer, BufferOrdered
  <2>2. CASE Check
    BY <1>1, <2>2, BufferKept DEF Link, Check
  <2>3. ASSUME NEW n \in 1 .. L, ReadSome(n) PROVE BufferOrdered'
    BY <1>1, <2>3, BufferRead DEF Link
  <2> QED
    BY <1>1, <2>1, <2>2, <2>3 DEF Link, LinkNext
<1>2. CASE Store
  <2>1. /\ StoredOf \in 0 .. LastState /\ pa' = [pa EXCEPT ![Stores[stored + 1]] = StoredOf]
        /\ buf[2].part = "body" /\ buf[2].of = StoredOf /\ buf[3].of = StoredOf
    BY <1>2, StoreTakes
  <2>2. /\ Accepts(buf) /\ 2 \in Tagged(buf) /\ UNCHANGED <<buf, line, state>>
        /\ pa \in [Fields -> 0 .. LastState]
    BY <1>2, <2>1 DEF Store, BufferOrdered, L, TypeOK, Tagged, peer
  <2>3. \A x \in Fields : pa'[x] = pa[x] \/ pa'[x] = StoredOf
    BY <2>1, <2>2
  <2>4. \A x \in Fields :
          /\ pa'[x] <= state
          /\ \A j \in Tagged(line) : pa'[x] <= line[j].of
          /\ pa'[x] <= StoredOf
    BY <2>1, <2>2, <2>3 DEF BufferOrdered
  <2> QED
    BY <2>1, <2>2, <2>4 DEF BufferOrdered
<1>3. ASSUME NEW r \in Reporters, ReadByte(r) \/ Report(r) PROVE BufferOrdered'
  BY <1>3, BufferKept DEF ReadByte, Report, linkVars, BufferOrdered
<1>4. CASE UNCHANGED vars
  BY <1>4, BufferKept DEF vars, linkVars, BufferOrdered
<1> QED
  BY <1>1, <1>2, <1>3, <1>4 DEF Next

-----------------------------------------------------------------------------
(* The variables never go back.                                            *)
LEMMA VariablesGrow ==
  ASSUME TypeOK, BufferOrdered, [Next]_vars
  PROVE  \A x \in Fields : pa'[x] >= pa[x]
PROOF
<1>1. pa \in [Fields -> 0 .. LastState]
  BY DEF TypeOK
<1>2. CASE Store
  <2>1. /\ StoredOf \in 0 .. LastState /\ pa' = [pa EXCEPT ![Stores[stored + 1]] = StoredOf]
        /\ buf[2].part = "body" /\ buf[2].of = StoredOf
    BY <1>2, StoreTakes
  <2>2. \A x \in Fields : pa'[x] = pa[x] \/ pa'[x] = StoredOf
    BY <1>1, <2>1
  <2>3. \A x \in Fields : pa[x] <= StoredOf
    BY <2>1 DEF BufferOrdered
  <2> QED
    BY <1>1, <2>1, <2>2, <2>3, LinkAssumption
<1>3. CASE UNCHANGED pa
  BY <1>1, <1>3, LinkAssumption
<1> QED
  BY <1>2, <1>3 DEF Next, Link, ReadByte, Report, vars

(* The feedback frames stay in the order of the states. *)
LEMMA ReportsStep ==
  ASSUME TypeOK, BufferOrdered, ReportsOrdered, [Next]_vars
  PROVE  ReportsOrdered'
PROOF
<1>1. /\ \A x \in Fields : pa'[x] >= pa[x]
      /\ pa \in [Fields -> 0 .. LastState] /\ pa' \in [Fields -> 0 .. LastState]
      /\ reading \in [Reporters -> Seq(0 .. LastState)]
      /\ report \in [Reporters -> [1 .. Len(Reads) -> 0 .. LastState]]
  BY VariablesGrow, TypeStep DEF TypeOK
<1>2. Len(Reads) = 3 /\ \A i \in 1 .. Len(Reads) : Reads[i] \in Fields
  BY DEF Reads, Fields
<1>3. ASSUME NEW r \in Reporters
      PROVE  /\ Len(reading[r]) \in Nat
             /\ \A i \in 1 .. Len(reading[r]) : reading[r][i] \in 0 .. LastState
             /\ Forward(r)
  <2>1. reading[r] \in Seq(0 .. LastState)
    BY <1>1
  <2> QED
    BY <2>1, LenProperties, ElementOfSeq DEF ReportsOrdered
<1>4. ASSUME NEW r \in Reporters, NEW i \in 1 .. Len(Reads)
      PROVE  report[r][i] <= pa'[Reads[i]]
  <2>1. report[r][i] <= pa[Reads[i]] /\ pa[Reads[i]] <= pa'[Reads[i]]
    BY <1>1, <1>2, <1>3 DEF Forward
  <2>2. Reads[i] \in Fields /\ LastState \in Nat
    BY <1>2, LinkAssumption
  <2>3. report[r] \in [1 .. Len(Reads) -> 0 .. LastState]
    BY <1>1
  <2>4. report[r][i] \in 0 .. LastState
    BY <2>3
  <2>5. pa[Reads[i]] \in 0 .. LastState /\ pa'[Reads[i]] \in 0 .. LastState
    BY <1>1, <2>2
  <2>6. report[r][i] \in Nat /\ pa[Reads[i]] \in Nat /\ pa'[Reads[i]] \in Nat
    BY ONLY <2>2, <2>4, <2>5
  <2> QED
    BY ONLY <2>1, <2>6
<1>5. ASSUME NEW r \in Reporters, NEW i \in 1 .. Len(reading[r])
      PROVE  report[r][i] <= reading[r][i] /\ reading[r][i] <= pa'[Reads[i]]
  <2>1. i \in 1 .. Len(Reads) /\ Len(reading[r]) <= Len(Reads)
    BY <1>2, <1>3 DEF Forward
  <2>2. /\ report[r][i] <= reading[r][i] /\ reading[r][i] <= pa[Reads[i]]
        /\ pa[Reads[i]] <= pa'[Reads[i]]
    BY <1>1, <1>2, <1>3, <2>1 DEF Forward
  <2>3. /\ reading[r][i] \in Int /\ pa[Reads[i]] \in Int
        /\ pa'[Reads[i]] \in Int
    BY SMTT(30), <1>1, <1>2, <1>3, <2>1, LinkAssumption
  <2> QED
    BY <2>2, <2>3
<1>6. ASSUME NEW r \in Reporters, reading'[r] = reading[r], report'[r] = report[r]
      PROVE  Forward(r)'
  BY <1>3, <1>4, <1>5, <1>6 DEF Forward
<1>7. ASSUME NEW r \in Reporters, ReadByte(r) PROVE ReportsOrdered'
  <2>1. /\ reading' = [reading EXCEPT ![r] = Append(@, pa[Reads[Len(@) + 1]])]
        /\ report' = report /\ pa' = pa /\ Len(reading[r]) < Len(Reads)
    BY <1>7 DEF ReadByte
  <2> DEFINE n == Len(reading[r])
  <2>2. n + 1 \in 1 .. Len(Reads) /\ pa[Reads[n + 1]] \in 0 .. LastState
    BY <1>1, <1>2, <1>3, <2>1
  <2>3. reading'[r] = Append(reading[r], pa[Reads[n + 1]])
    BY <1>1, <2>1
  <2>4. /\ Len(reading'[r]) = n + 1
        /\ \A i \in 1 .. n + 1 :
             reading'[r][i] = IF i <= n THEN reading[r][i] ELSE pa[Reads[n + 1]]
    <3>1. reading[r] \in Seq(0 .. LastState)
      BY <1>1
    <3> QED
      BY <1>3, <2>2, <2>3, <3>1, AppendProperties
  <2>5. ASSUME NEW i \in 1 .. n + 1
        PROVE  report[r][i] <= reading'[r][i] /\ reading'[r][i] <= pa'[Reads[i]]
    <3>1. CASE i <= n
      BY <1>3, <1>5, <2>4, <3>1
    <3>2. CASE i = n + 1
      BY <1>1, <1>2, <1>3, <1>4, <2>1, <2>2, <2>4, <3>2, LinkAssumption
    <3> QED
      BY <1>3, <3>1, <3>2
  <2>6. Forward(r)'
    BY <1>2, <1>3, <1>4, <2>1, <2>2, <2>4, <2>5 DEF Forward
  <2>7. \A q \in Reporters : q # r => reading'[q] = reading[q] /\ report'[q] = report[q]
    BY <1>1, <2>1
  <2> QED
    BY <1>6, <2>6, <2>7 DEF ReportsOrdered
<1>8. ASSUME NEW r \in Reporters, Report(r) PROVE ReportsOrdered'
  <2>1. /\ Len(reading[r]) = Len(Reads) /\ report'[r] = reading[r]
        /\ reading'[r] = <<>>
        /\ \A q \in Reporters : q # r => reading'[q] = reading[q] /\ report'[q] = report[q]
    BY <1>1, <1>8 DEF Report
  <2>2. Forward(r)'
    BY <1>2, <1>5, <2>1 DEF Forward
  <2> QED
    BY <1>6, <2>1, <2>2 DEF ReportsOrdered
<1>9. CASE UNCHANGED <<reading, report>>
  BY <1>6, <1>9 DEF ReportsOrdered
<1> QED
  BY <1>7, <1>8, <1>9 DEF Next, Link, Store, vars

(* At the start there is one state only. *)
LEMMA PaAtFirst == Init => PaInv
PROOF
<1> SUFFICES ASSUME Init PROVE PaInv
  OBVIOUS
<1> USE LinkAssumption DEF Init, LinkInit
<1>1. <<>> \in Seq(Cells) /\ <<>> \in Seq(0 .. LastState) /\ Len(<<>>) = 0
  BY EmptySeq
<1>2. TypeOK
  BY <1>1, FrameTyped DEF TypeOK, L, Stores, Fields, Reads
<1>3. LineOrdered
  BY DEF LineOrdered, Tagged
<1>4. BufferOrdered
  BY DEF BufferOrdered, Tagged, Junk, Fields, L
<1>5. ReportsOrdered
  BY <1>1 DEF ReportsOrdered, Forward, Reads, Fields
<1> QED
  BY <1>2, <1>3, <1>4, <1>5 DEF PaInv

-----------------------------------------------------------------------------
(* The inductive invariant of the status path: its order on the line, in   *)
(* the buffer, in the variables and in the reports.                        *)
THEOREM PaIsInvariant == Spec => []PaInv
PROOF
<1>1. PaInv /\ [Next]_vars => PaInv'
  BY TypeStep, OrderStep, BufferStep, ReportsStep DEF PaInv
<1> QED
  BY <1>1, PaAtFirst, PTL DEF Spec

(* No feedback frame tells, in any byte, of an older state of the amplifier *)
(* than the frame its sender sent before, however reads are split, bytes   *)
(* lost or damaged, and threads interleaved.                               *)
THEOREM ReportsAreMonotone == Spec => ReportsNeverGoBack
PROOF
<1> DEFINE Ahead == \A r \in Reporters : report'[r] # report[r] =>
                      \A i \in 1 .. Len(Reads) : report'[r][i] >= report[r][i]
<1>1. PaInv /\ [Next]_vars => [Ahead]_vars
  <2> SUFFICES ASSUME PaInv, Next PROVE Ahead
    BY DEF vars
  <2>1. /\ reading \in [Reporters -> Seq(0 .. LastState)]
        /\ report \in [Reporters -> [1 .. Len(Reads) -> 0 .. LastState]]
        /\ \A r \in Reporters : Forward(r)
    BY DEF PaInv, TypeOK, ReportsOrdered
  <2>2. ASSUME NEW r \in Reporters, report'[r] # report[r]
        PROVE  Len(reading[r]) = Len(Reads) /\ report'[r] = reading[r]
    <3>1. PICK q \in Reporters : Report(q)
      BY <2>2 DEF Next, Link, Store, ReadByte
    <3> QED
      BY <2>1, <2>2, <3>1 DEF Report
  <2>3. ASSUME NEW r \in Reporters, report'[r] # report[r], NEW i \in 1 .. Len(Reads)
        PROVE  report'[r][i] >= report[r][i]
    <3>1. report[r][i] <= reading[r][i] /\ report'[r][i] = reading[r][i]
      BY <2>1, <2>2, <2>3 DEF Forward
    <3>2. reading[r][i] \in 0 .. LastState /\ report[r][i] \in 0 .. LastState
      <4>1. reading[r] \in Seq(0 .. LastState) /\ i \in 1 .. Len(reading[r])
        BY <2>1, <2>2, <2>3
      <4> QED
        BY <2>1, <4>1, ElementOfSeq
    <3> QED
      BY <3>1, <3>2, LinkAssumption
  <2> QED
    BY <2>3
<1> QED
  BY <1>1, PaIsInvariant, PTL DEF Spec, ReportsNeverGoBack

-----------------------------------------------------------------------------
(* The host's end of the line. *)

(* The last command carried out, 0 before the first. *)
Last == HostOrder!Latest(executed)

HostTyped ==
  /\ state \in 0 .. LastState /\ line \in Seq(Cells) /\ buf \in [1 .. L -> Cells]
  /\ got \in 0 .. L /\ executed \in Seq(1 .. LastState)

(* The commands on the line and in the buffer are ones that were sent, in  *)
(* their order, and none of them is older than the last one carried out.   *)
HostLineOrdered ==
  /\ \A i, j \in Tagged(line) : i <= j => line[i].of <= line[j].of
  /\ \A i \in Tagged(line) : line[i].of \in 1 .. state

HostBufOrdered ==
  /\ \A i \in Tagged(buf) : buf[i].of \in 1 .. state
  /\ \A i \in Tagged(buf), j \in Tagged(line) : buf[i].of <= line[j].of
  /\ rx = "use" => Accepts(buf)

HostRan ==
  /\ Last \in 0 .. state /\ (executed # <<>> => Last > 0)
  /\ \A j \in Tagged(line) : Last <= line[j].of
  /\ buf[2].part = "body" => Last <= buf[2].of

HostInv == HostTyped /\ HostLineOrdered /\ HostBufOrdered /\ HostRan

(* What is at hand about the line and the buffer before a step. *)
LEMMA HostFacts ==
  ASSUME HostInv
  PROVE  /\ Len(line) \in Nat /\ DOMAIN line = 1 .. Len(line) /\ line \in Seq(Cells)
         /\ \A i \in 1 .. Len(line) : line[i] \in Cells
         /\ state \in 0 .. LastState /\ state \in Nat /\ LastState \in Nat
         /\ \A i \in Tagged(line) : i \in Nat /\ line[i].of \in Nat
         /\ DOMAIN buf = 1 .. L /\ \A i \in Tagged(buf) : i \in Nat /\ buf[i].of \in Nat
PROOF
  BY LenProperties, ElementOfSeq, LinkAssumption
     DEF HostInv, HostTyped, HostLineOrdered, HostBufOrdered, Tagged, L

(* After a selection from the line it is in order and carries nothing new. *)
LEMMA HostSelected ==
  ASSUME HostInv, Selection, line' \in Seq(Cells), state' = state
  PROVE  /\ HostLineOrdered'
         /\ \A j \in Tagged(line') : \E k \in Tagged(line) : line'[j].of = line[k].of
PROOF
<1>1. PICK h \in [1 .. Len(line') -> 1 .. Len(line)] :
        /\ \A i \in 1 .. Len(line') : line'[i] = line[h[i]] \/ line'[i] = Junk
        /\ \A i, j \in 1 .. Len(line') : i < j => h[i] < h[j]
  BY DEF Selection
<1>2. \A i, j \in Tagged(line) : i <= j => line[i].of <= line[j].of
  BY DEF HostInv, HostLineOrdered
<1>3. /\ \A i, j \in Tagged(line') : i <= j => line'[i].of <= line'[j].of
      /\ \A i \in Tagged(line') : h[i] \in Tagged(line) /\ line'[i].of = line[h[i]].of
  BY <1>1, <1>2, HostFacts, Selected
<1> QED
  BY <1>3 DEF HostInv, HostLineOrdered

(* A command the host sends is newer than those on the line.               *)
LEMMA HostSent ==
  ASSUME HostInv, HostSends
  PROVE  /\ line' \in Seq(Cells) /\ HostLineOrdered'
         /\ \A j \in Tagged(line') :
              line'[j].of = state + 1 \/ \E k \in Tagged(line) : line'[j].of = line[k].of
PROOF
<1>1. state' = state + 1 /\ state + 1 \in 0 .. LastState /\ line' = line \o Frame(state + 1)
  BY HostFacts DEF HostSends
<1>2. /\ line' \in Seq(Cells) /\ Len(line') = Len(line) + L
      /\ \A i \in 1 .. Len(line') : i <= Len(line) => line'[i] = line[i]
      /\ \A i \in 1 .. Len(line') : (i > Len(line) /\ line'[i].part \in {"body", "rest", "tail"}) =>
           line'[i].of = state + 1
  BY <1>1, HostFacts, SentLine
<1>3. DOMAIN line' = 1 .. Len(line') /\ Len(line') \in Nat
  BY <1>2, LenProperties
<1>4. \A i \in Tagged(line') :
        /\ i \in Nat
        /\ i <= Len(line) => i \in Tagged(line) /\ line'[i].of = line[i].of
        /\ i > Len(line) => line'[i].of = state + 1
  BY <1>2, <1>3, HostFacts DEF Tagged
<1>5. \A i \in Tagged(line') : line'[i].of \in 1 .. state + 1
  BY <1>4, HostFacts DEF HostInv, HostLineOrdered
<1>6. ASSUME NEW i \in Tagged(line'), NEW j \in Tagged(line'), i <= j
      PROVE  line'[i].of <= line'[j].of
  <2>1. CASE j <= Len(line)
    BY <1>4, <1>6, <2>1, HostFacts DEF HostInv, HostLineOrdered
  <2>2. CASE j > Len(line)
    BY <1>4, <1>5, <1>6, <2>2, HostFacts
  <2> QED
    BY <1>4, <2>1, <2>2, HostFacts
<1>7. HostLineOrdered'
  BY <1>1, <1>5, <1>6 DEF HostLineOrdered
<1>8. ASSUME NEW j \in Tagged(line')
      PROVE  line'[j].of = state + 1 \/ \E k \in Tagged(line) : line'[j].of = line[k].of
  <2>1. j <= Len(line) \/ j > Len(line)
    BY <1>4, HostFacts
  <2> QED
    BY <1>4, <2>1, Zenon
<1> QED
  BY <1>2, <1>7, <1>8

(* While the buffer and the commands carried out stay, the order holds.    *)
LEMMA HostKept ==
  ASSUME HostInv, UNCHANGED <<buf, executed>>, got' \in 0 .. L,
         state' \in {state, state + 1}, state' \in 0 .. LastState,
         line' \in Seq(Cells), HostLineOrdered',
         \A j \in Tagged(line') :
           (state' = state + 1 /\ line'[j].of = state + 1)
             \/ \E k \in Tagged(line) : line'[j].of = line[k].of,
         rx' = "use" => Accepts(buf)
  PROVE  HostInv' /\ UNCHANGED executed
PROOF
<1>1. HostTyped'
  BY DEF HostInv, HostTyped
<1>2. ASSUME NEW i \in Tagged(buf'), NEW j \in Tagged(line')
      PROVE  buf'[i].of <= line'[j].of
  BY <1>2, HostFacts DEF HostInv, HostBufOrdered
<1>3. \A i \in Tagged(buf') : buf'[i].of \in 1 .. state'
  BY HostFacts DEF HostInv, HostBufOrdered
<1>4. Last' = Last /\ Last \in 0 .. state
  BY DEF Last, HostInv, HostRan
<1>5. ASSUME NEW j \in Tagged(line')
      PROVE  Last <= line'[j].of
  BY <1>4, <1>5, HostFacts DEF HostInv, HostRan
<1>6. HostRan'
  BY <1>4, <1>5, HostFacts DEF HostInv, HostRan
<1> QED
  BY <1>1, <1>2, <1>3, <1>6 DEF HostInv, HostBufOrdered

(* What a read puts into the buffer was on the line, before what is left.  *)
LEMMA HostRead ==
  ASSUME HostInv, NEW n \in 1 .. L, ReadSome(n), UNCHANGED executed
  PROVE  HostInv'
PROOF
<1>len. /\ state' = state /\ got \in 0 .. L /\ n \in Nat /\ n <= Len(line)
        /\ buf \in [1 .. L -> Cells] /\ rx' # "use"
  BY DEF HostInv, HostTyped, ReadSome, L
<1>1. /\ Len(line') = Len(line) - n /\ line' \in Seq(Cells)
      /\ \A i \in 1 .. Len(line') : line'[i] = line[i + n]
  BY <1>len, HostFacts, ReadLine DEF ReadSome
<1>2. HostLineOrdered' /\ \A j \in Tagged(line') : \E k \in Tagged(line) : line'[j].of = line[k].of
  BY <1>len, <1>1, HostFacts, LineTaken, HostSelected
<1>3. \A j \in Tagged(line') :
        j \in Nat /\ j + n \in Tagged(line) /\ line'[j].of = line[j + n].of /\ j + n > n
  <2>1. DOMAIN line' = 1 .. Len(line')
    BY <1>1, LenProperties
  <2> QED
    BY <1>len, <1>1, <2>1, HostFacts DEF Tagged
<1>4. buf' \in [1 .. L -> Cells] /\ got' \in 0 .. L
  <2>1. got' = got + n /\ got + n <= L
    BY DEF ReadSome
  <2>2. ASSUME NEW i \in 1 .. L, i \in got + 1 .. got + n
        PROVE  line[i - got] \in Cells
    <3>1. i - got \in 1 .. Len(line)
      BY <1>len, <2>2, HostFacts
    <3> QED
      BY <3>1, HostFacts
  <2>3. buf' \in [1 .. L -> Cells]
    BY <1>len, <2>2 DEF ReadSome, Fill
  <2> QED
    BY <1>len, <2>1, <2>3 DEF L
<1>5. ASSUME NEW i \in 1 .. L
      PROVE  \/ buf'[i] = buf[i]
             \/ i - got \in 1 .. n /\ buf'[i] = line[i - got]
  BY <1>len DEF ReadSome, Fill, L
<1>6. ASSUME NEW i \in Tagged(buf')
      PROVE  \/ i \in Tagged(buf) /\ buf'[i].of = buf[i].of
             \/ /\ i - got \in 1 .. n /\ i - got \in Tagged(line)
                /\ buf'[i].of = line[i - got].of
  <2>1. i \in 1 .. L /\ buf'[i].part \in {"body", "rest", "tail"}
    BY <1>4 DEF Tagged
  <2>2. CASE buf'[i] = buf[i]
    BY <1>len, <2>1, <2>2 DEF Tagged
  <2>3. CASE i - got \in 1 .. n /\ buf'[i] = line[i - got]
    BY <1>len, <2>1, <2>3, HostFacts DEF Tagged
  <2> QED
    BY <1>5, <2>1, <2>2, <2>3
<1>7. ASSUME NEW i \in Tagged(buf')
      PROVE  buf'[i].of \in 1 .. state' /\ \A j \in Tagged(line') : buf'[i].of <= line'[j].of
  <2>1. CASE i \in Tagged(buf) /\ buf'[i].of = buf[i].of
    BY <1>len, <1>3, <2>1 DEF HostInv, HostBufOrdered
  <2>2. CASE /\ i - got \in 1 .. n /\ i - got \in Tagged(line)
             /\ buf'[i].of = line[i - got].of
    <3>1. \A j \in Tagged(line') : i - got <= j + n
      BY <1>len, <1>3, <2>2
    <3> QED
      BY <1>len, <1>3, <2>2, <3>1 DEF HostInv, HostLineOrdered
  <2> QED
    BY <1>6, <2>1, <2>2
<1>8. Last' = Last /\ (executed' # <<>> => Last > 0) /\ Last \in 0 .. state
  BY DEF Last, HostInv, HostRan
<1>9. \A j \in Tagged(line') : Last <= line'[j].of
  BY <1>3 DEF HostInv, HostRan
<1>10. ASSUME buf'[2].part = "body" PROVE Last <= buf'[2].of
  <2>1. CASE buf'[2] = buf[2]
    BY <1>10, <2>1 DEF HostInv, HostRan
  <2>2. CASE 2 - got \in 1 .. n /\ buf'[2] = line[2 - got]
    <3>1. 2 - got \in Tagged(line)
      BY <1>len, <1>10, <2>2, HostFacts DEF Tagged
    <3> QED
      BY <2>2, <3>1 DEF HostInv, HostRan
  <2> QED
    BY <1>5, <2>1, <2>2 DEF L
<1>11. HostTyped'
  BY <1>len, <1>1, <1>4 DEF HostInv, HostTyped
<1>12. HostRan'
  BY <1>len, <1>8, <1>9, <1>10 DEF HostRan
<1> QED
  BY <1>len, <1>2, <1>7, <1>11, <1>12 DEF HostInv, HostBufOrdered

(* Carrying out a command: a newer one, or the last one again.             *)
LEMMA HostCarries ==
  ASSUME HostInv, Carry
  PROVE  HostInv' /\ HostOrder!Next
PROOF
<1>1. /\ UNCHANGED <<state, line, buf, got>> /\ rx' = "read" /\ Accepts(buf)
      /\ executed' = Append(executed, buf[2].of) /\ executed \in Seq(1 .. LastState)
  BY DEF Carry, CommandOf, Accepts, CrcMatches, peer, HostInv, HostTyped, HostBufOrdered
<1>2. PICK k : k = buf[2].of
  OBVIOUS
<1>3. k \in 1 .. state /\ Last <= k /\ \A j \in Tagged(line) : k <= line[j].of
  <2>1. buf[2].part = "body" /\ 2 \in Tagged(buf)
    BY <1>1, HostFacts DEF Accepts, CrcMatches, Tagged, L
  <2> QED
    BY <1>2, <2>1 DEF HostInv, HostBufOrdered, HostRan
<1>4. k \in 1 .. LastState
  BY <1>3, HostFacts
<1>5. executed' \in Seq(1 .. LastState) /\ executed' # <<>> /\ Last' = k
  <2>1. /\ Append(executed, k) \in Seq(1 .. LastState)
        /\ Len(Append(executed, k)) = Len(executed) + 1 /\ Len(executed) \in Nat
        /\ Append(executed, k)[Len(executed) + 1] = k
    BY <1>1, <1>4, AppendProperties, LenProperties
  <2>2. Append(executed, k) # <<>>
    BY <2>1, EmptySeq
  <2> QED
    BY <1>1, <1>2, <2>1, <2>2 DEF Last, HostOrder!Latest
<1>6. HostInv'
  <2>1. HostTyped' /\ HostLineOrdered' /\ HostBufOrdered'
    BY <1>1, <1>5 DEF HostInv, HostTyped, HostLineOrdered, HostBufOrdered
  <2>2. HostRan'
    BY <1>1, <1>2, <1>3, <1>5, HostFacts DEF HostRan
  <2> QED
    BY <2>1, <2>2 DEF HostInv
<1>7. CASE Last < k
  <2>1. HostOrder!Execute
    BY <1>1, <1>2, <1>3, <1>7 DEF HostOrder!Execute, Last
  <2> QED
    BY <1>6, <2>1 DEF HostOrder!Next
<1>8. CASE Last = k
  <2>1. executed # <<>>
    BY <1>3, <1>8, HostFacts DEF Last, HostOrder!Latest
  <2>2. HostOrder!Again
    BY <1>1, <1>2, <1>8, <2>1 DEF HostOrder!Again, Last
  <2> QED
    BY <1>6, <2>2 DEF HostOrder!Next
<1> QED
  BY <1>3, <1>7, <1>8, HostFacts DEF HostInv, HostRan

(* Every step keeps the order and is a step of CommandLink or none. *)
LEMMA HostStep ==
  ASSUME HostInv, [HostNext]_hostVars
  PROVE  HostInv' /\ [HostOrder!Next]_<<state, executed>>
PROOF
<1>1. CASE HostSends
  <2>1. /\ UNCHANGED <<buf, executed, got, rx>> /\ state' = state + 1
        /\ state' \in 0 .. LastState /\ got \in 0 .. L /\ (rx = "use" => Accepts(buf))
    BY <1>1, HostFacts DEF HostSends, HostInv, HostTyped, HostBufOrdered
  <2>2. HostInv'
    BY <1>1, <2>1, HostSent, HostKept
  <2>3. HostOrder!Send
    BY <2>1 DEF HostOrder!Send
  <2> QED
    BY <2>2, <2>3 DEF HostOrder!Next
<1>2. CASE Fault /\ UNCHANGED executed
  <2>1. /\ UNCHANGED <<buf, executed, got, rx, state>> /\ state \in 0 .. LastState
        /\ got \in 0 .. L /\ (rx = "use" => Accepts(buf)) /\ line' \in Seq(Cells) /\ Selection
    BY <1>2, HostFacts, LineTaken DEF Fault, HostInv, HostTyped, HostBufOrdered
  <2>2. HostInv'
    BY <2>1, HostSelected, HostKept
  <2> QED
    BY <2>1, <2>2
<1>3. CASE (Check \/ TimeOut \/ ReadFails) /\ UNCHANGED executed
  <2>1. /\ UNCHANGED <<buf, executed, state, line>> /\ got' \in 0 .. L
        /\ (rx' = "use" => Accepts(buf))
    BY <1>3 DEF Check, Restart, TimeOut, ReadFails, peer, HostInv, HostTyped, HostBufOrdered, L
  <2>2. HostTyped' /\ HostLineOrdered' /\ HostBufOrdered' /\ HostRan'
    BY <2>1 DEF HostInv, HostTyped, HostLineOrdered, HostBufOrdered, HostRan, Last
  <2> QED
    BY <2>1, <2>2 DEF HostInv
<1>4. ASSUME NEW n \in 1 .. L, ReadSome(n), UNCHANGED executed
      PROVE  HostInv' /\ [HostOrder!Next]_<<state, executed>>
  BY <1>4, HostRead DEF ReadSome
<1>5. CASE Carry
  BY <1>5, HostCarries
<1>6. CASE UNCHANGED hostVars
  BY <1>6 DEF hostVars, linkVars, HostInv, HostTyped, HostLineOrdered, HostBufOrdered, HostRan, Last
<1> QED
  BY <1>1, <1>2, <1>3, <1>4, <1>5, <1>6 DEF HostNext, HostReads, Carried

(* With nothing sent the order holds. *)
LEMMA HostStarts == HostInit => HostInv /\ HostOrder!Init
PROOF
<1>1. <<>> \in Seq(Cells) /\ <<>> \in Seq(1 .. LastState) /\ Len(<<>>) = 0
  BY EmptySeq
<1>2. HostInit => HostTyped
  BY <1>1, FrameTyped, LinkAssumption DEF HostInit, LinkInit, HostTyped, L
<1>3. HostInit => HostLineOrdered /\ HostBufOrdered /\ HostRan /\ HostOrder!Init
  BY LinkAssumption DEF HostInit, LinkInit, HostLineOrdered, HostBufOrdered, HostRan, Tagged,
                        Junk, L, Last, HostOrder!Latest, HostOrder!Init
<1> QED
  BY <1>2, <1>3 DEF HostInv

(* serial_rcv_host_thread: however reads are split, cells lost or damaged, *)
(* the host's commands are carried out whole and in the order they were    *)
(* sent; the last one possibly again, never an older one.                  *)
THEOREM HostCommandsInOrder == HostSpec => HostInOrder
PROOF
<1>1. HostInv /\ [HostNext]_hostVars => HostInv' /\ [HostOrder!Next]_<<state, executed>>
  BY HostStep
<1> QED
  BY <1>1, HostStarts, PTL DEF HostSpec, HostInOrder, HostOrder!Spec

-----------------------------------------------------------------------------
(* A command is carried out again only after a read that was short. *)

(* How much of the buffer the present call of serial_read has filled.      *)
Cur == IF rx = "read" THEN got ELSE L

Bodies(s, n) == {i \in 1 .. n : s[i].part = "body"}
OnLine == Bodies(line, Len(line))
InBuf  == Bodies(buf, Cur)

(* Every payload that is still to come is of a command not carried out.    *)
HostStrict ==
  /\ \A i, j \in OnLine : i < j => line[i].of < line[j].of
  /\ \A i \in InBuf, j \in OnLine : buf[i].of < line[j].of
  /\ \A i \in InBuf : Last < buf[i].of
  /\ \A j \in OnLine : Last < line[j].of
  /\ \A i, j \in DOMAIN executed : i < j => executed[i] < executed[j]

(* The frames not carried out, from the buffer to the end of the line, are *)
(* whole and the first begins where the buffer does.                       *)
HostAligned ==
  /\ L * Len(executed) + Pending = L * state
  /\ \A k \in 1 .. state, i \in 1 .. L, p \in 1 .. Len(line) :
       L * (k - 1) + i = L * state - Len(line) + p => line[p] = Frame(k)[i]
  /\ \A i \in 1 .. Cur : buf[i] = Frame(Len(executed) + 1)[i]

OnceInv ==
  /\ faults \in Nat /\ (rx = "use" => got = 0)
  /\ ~short => HostStrict /\ (faults = 0 => HostAligned)

(* The cells of a frame. *)
LEMMA FrameCellsAre ==
  ASSUME NEW f
  PROVE  /\ Frame(f)[1].part = "head" /\ Frame(f)[2].part = "body"
         /\ Frame(f)[3].part = "rest" /\ Frame(f)[4].part = "tail"
         /\ Frame(f)[2].of = f /\ Frame(f)[3].of = f /\ Frame(f)[4].of = f
PROOF
  BY DEF Frame

(* Where the cells of a frame that is sent come to lie. *)
LEMMA SentCells ==
  ASSUME HostInv, HostSends
  PROVE  /\ Len(line') = Len(line) + L
         /\ \A p \in 1 .. Len(line) : line'[p] = line[p]
         /\ \A i \in 1 .. L : line'[Len(line) + i] = Frame(state + 1)[i]
PROOF
<1>1. state + 1 \in 0 .. LastState /\ line' = line \o Frame(state + 1)
  BY HostFacts DEF HostSends
<1>2. /\ Frame(state + 1) \in Seq(Cells) /\ Len(Frame(state + 1)) = L
      /\ line \in Seq(Cells) /\ Len(line) \in Nat
  BY <1>1, FrameTyped, HostFacts
<1>3. /\ Len(line') = Len(line) + L
      /\ \A p \in 1 .. Len(line) + L :
           line'[p] = IF p <= Len(line) THEN line[p] ELSE Frame(state + 1)[p - Len(line)]
  BY <1>1, <1>2, ConcatProperties
<1>4. ASSUME NEW i \in 1 .. L
      PROVE  line'[Len(line) + i] = Frame(state + 1)[i]
  <2>1. /\ Len(line) + i \in 1 .. Len(line) + L /\ ~(Len(line) + i <= Len(line))
        /\ (Len(line) + i) - Len(line) = i
    BY <1>2 DEF L
  <2> QED
    BY <1>3, <2>1
<1>5. \A p \in 1 .. Len(line) : line'[p] = line[p]
  BY <1>2, <1>3 DEF L
<1> QED
  BY <1>3, <1>4, <1>5

(* What is at hand about payloads. *)
LEMMA BodyFacts ==
  ASSUME HostInv
  PROVE  /\ \A i \in OnLine : i \in 1 .. Len(line) /\ line[i].of \in 1 .. state
         /\ \A i \in InBuf : i \in 1 .. L /\ buf[i].of \in 1 .. state
         /\ Last \in 0 .. state /\ Cur \in 0 .. L /\ state \in Nat /\ Len(line) \in Nat
PROOF
<1>1. /\ \A i \in OnLine : i \in 1 .. Len(line) /\ i \in Tagged(line)
      /\ Cur \in 0 .. L
  BY HostFacts DEF OnLine, Bodies, Tagged, Cur, HostInv, HostTyped, L
<1>2. \A i \in InBuf : i \in 1 .. L /\ i \in Tagged(buf)
  BY <1>1, HostFacts DEF InBuf, Bodies, Tagged, L
<1> QED
  BY <1>1, <1>2, HostFacts DEF HostInv, HostLineOrdered, HostBufOrdered, HostRan

(* A new command is not the same as one that is on the line. *)
LEMMA StrictSent ==
  ASSUME HostInv, HostStrict, HostSends
  PROVE  HostStrict'
PROOF
<1>1. /\ state' = state + 1 /\ Last' = Last /\ InBuf' = InBuf /\ UNCHANGED <<buf, executed>>
  BY DEF HostSends, Last, InBuf, Bodies, Cur
<1>2. ASSUME NEW i \in OnLine'
      PROVE  \/ i \in OnLine /\ line'[i].of = line[i].of
             \/ i = Len(line) + 2 /\ line'[i].of = state + 1
  <2>1. i \in 1 .. Len(line) + L /\ line'[i].part = "body"
    BY SentCells DEF OnLine, Bodies
  <2>2. CASE i <= Len(line)
    BY <2>1, <2>2, SentCells, BodyFacts DEF OnLine, Bodies
  <2>3. CASE ~(i <= Len(line))
    <3>1. PICK d \in 1 .. L : i = Len(line) + d
      <4>1. i - Len(line) \in 1 .. L /\ i = Len(line) + (i - Len(line))
        BY <2>1, <2>3, BodyFacts DEF L
      <4> QED
        BY <4>1
    <3>2. line'[i] = Frame(state + 1)[d]
      BY <3>1, SentCells
    <3>3. d = 2
      BY <2>1, <3>1, <3>2, FrameCellsAre DEF L
    <3> QED
      BY <3>1, <3>2, <3>3, FrameCellsAre
  <2> QED
    BY <2>2, <2>3
<1>3. \A i, j \in OnLine' : i < j => line'[i].of < line'[j].of
  BY <1>2, BodyFacts DEF HostStrict
<1>4. \A i \in InBuf, j \in OnLine' : buf[i].of < line'[j].of
  BY <1>2, BodyFacts DEF HostStrict
<1>5. \A j \in OnLine' : Last < line'[j].of
  BY <1>2, BodyFacts DEF HostStrict
<1> QED
  BY <1>1, <1>3, <1>4, <1>5 DEF HostStrict

(* A frame that is sent keeps the frames that are to come whole. *)
LEMMA AlignedSent ==
  ASSUME HostInv, HostAligned, HostSends
  PROVE  HostAligned'
PROOF
<1>1. /\ state' = state + 1 /\ UNCHANGED <<buf, executed, got, rx>> /\ Cur' = Cur
  BY DEF HostSends, Cur
<1>2. PICK n, m : n = Len(line) /\ m = Len(line')
  OBVIOUS
<1>3. /\ n \in Nat /\ m = n + 4 /\ state \in Nat
      /\ \A p \in 1 .. n : line'[p] = line[p]
      /\ \A i \in 1 .. 4 : line'[n + i] = Frame(state + 1)[i]
  BY <1>2, SentCells, BodyFacts DEF L
<1>4. \A k \in 1 .. state, i \in 1 .. 4, p \in 1 .. n :
        4 * (k - 1) + i = 4 * state - n + p => line[p] = Frame(k)[i]
  BY <1>2 DEF HostAligned, L
<1>5. ASSUME NEW k \in 1 .. state + 1, NEW i \in 1 .. 4, NEW p \in 1 .. m,
             4 * (k - 1) + i = 4 * (state + 1) - m + p
      PROVE  line'[p] = Frame(k)[i]
  <2>1. CASE p <= n
    <3>1. k \in 1 .. state /\ p \in 1 .. n /\ 4 * (k - 1) + i = 4 * state - n + p
      BY <1>3, <1>5, <2>1
    <3> QED
      BY <1>3, <1>4, <3>1
  <2>2. CASE ~(p <= n)
    <3>1. k = state + 1 /\ p = n + i
      BY <1>3, <1>5, <2>2
    <3> QED
      BY <1>3, <3>1
  <2> QED
    BY <2>1, <2>2
<1>6. L * Len(executed) + Pending' = L * (state + 1)
  <2>1. Pending = n + Cur /\ Pending' = m + Cur
    BY <1>1, <1>2 DEF Pending, Cur
  <2>2. Len(executed) \in Nat /\ Cur \in Nat
    BY LenProperties, BodyFacts DEF HostInv, HostTyped, L
  <2>3. PICK e, c : e = Len(executed) /\ c = Cur
    OBVIOUS
  <2>4. e \in Nat /\ c \in Nat /\ n \in Nat /\ m = n + 4 /\ state \in Nat
    BY <1>3, <2>2, <2>3
  <2>5. 4 * e + (n + c) = 4 * state
    BY <2>1, <2>3 DEF HostAligned, L
  <2>6. 4 * e + (m + c) = 4 * (state + 1)
    BY ONLY <2>4, <2>5
  <2> QED
    BY <2>1, <2>3, <2>6 DEF L
<1> QED
  BY <1>1, <1>2, <1>5, <1>6 DEF HostAligned, L

(* Losing or damaging cells leaves the payloads' order. *)
LEMMA StrictFault ==
  ASSUME HostInv, HostStrict, Fault, UNCHANGED executed
  PROVE  HostStrict'
PROOF
<1>1. /\ Last' = Last /\ InBuf' = InBuf /\ UNCHANGED <<buf, executed>>
  BY DEF Fault, Last, InBuf, Bodies, Cur
<1>2. Selection /\ line' \in Seq(Cells)
  BY LineTaken DEF Fault, HostInv, HostTyped
<1>3. PICK h \in [1 .. Len(line') -> 1 .. Len(line)] :
        /\ \A i \in 1 .. Len(line') : line'[i] = line[h[i]] \/ line'[i] = Junk
        /\ \A i, j \in 1 .. Len(line') : i < j => h[i] < h[j]
  BY <1>2 DEF Selection
<1>4. \A i \in OnLine' : i \in 1 .. Len(line') /\ h[i] \in OnLine /\ line'[i].of = line[h[i]].of
  BY <1>3 DEF OnLine, Bodies, Junk
<1>5. \A i, j \in OnLine' : i < j => line'[i].of < line'[j].of
  BY <1>3, <1>4 DEF HostStrict
<1> QED
  BY <1>1, <1>4, <1>5 DEF HostStrict

(* What a read moves from the line to the buffer. *)
LEMMA ReadCells ==
  ASSUME HostInv, NEW n \in 1 .. L, ReadSome(n)
  PROVE  /\ Len(line') = Len(line) - n /\ n <= Len(line) /\ n \in Nat
         /\ \A p \in 1 .. Len(line') : line'[p] = line[p + n]
         /\ Cur = got /\ Cur' = got + n /\ got + n <= L /\ got \in Nat
         /\ \A i \in 1 .. got : buf'[i] = buf[i]
         /\ \A i \in 1 .. n : buf'[got + i] = line[i]
PROOF
<1>1. n \in Nat /\ n <= Len(line) /\ got + n <= L /\ got \in Nat
  BY DEF ReadSome, HostInv, HostTyped, L
<1>2. Len(line') = Len(line) - n /\ \A p \in 1 .. Len(line') : line'[p] = line[p + n]
  BY <1>1, HostFacts, ReadLine DEF ReadSome
<1>3. Cur = got /\ Cur' = got + n
  BY <1>1 DEF ReadSome, Cur, L
<1>4. \A i \in 1 .. got : buf'[i] = buf[i]
  BY <1>1 DEF ReadSome, Fill, L
<1>5. ASSUME NEW i \in 1 .. n PROVE buf'[got + i] = line[i]
  <2>1. got + i \in 1 .. L /\ got + i \in got + 1 .. got + n /\ (got + i) - got = i
    BY <1>1 DEF L
  <2> QED
    BY <2>1 DEF ReadSome, Fill
<1> QED
  BY <1>1, <1>2, <1>3, <1>4, <1>5

(* A read takes the payloads in their order. *)
LEMMA StrictRead ==
  ASSUME HostInv, HostStrict, NEW n \in 1 .. L, ReadSome(n), UNCHANGED executed
  PROVE  HostStrict'
PROOF
<1>1. Last' = Last
  BY DEF Last
<1>2. \A j \in OnLine' : j \in Nat /\ j > 0 /\ j + n \in OnLine /\ line'[j].of = line[j + n].of
  <2>1. ASSUME NEW j \in OnLine' PROVE j \in 1 .. Len(line') /\ line'[j].part = "body"
    BY <2>1 DEF OnLine, Bodies
  <2>2. ASSUME NEW j \in 1 .. Len(line')
        PROVE  j \in Nat /\ j > 0 /\ j + n \in 1 .. Len(line) /\ line'[j] = line[j + n]
    BY <2>2, ReadCells, BodyFacts
  <2> QED
    BY <2>1, <2>2 DEF OnLine, Bodies
<1>3. ASSUME NEW i \in InBuf'
      PROVE  \/ i \in InBuf /\ buf'[i].of = buf[i].of
             \/ i - got \in 1 .. n /\ i - got \in OnLine /\ buf'[i].of = line[i - got].of
  <2>1. i \in 1 .. got + n /\ buf'[i].part = "body"
    BY <1>3, ReadCells DEF InBuf, Bodies
  <2>2. CASE i <= got
    BY <2>1, <2>2, ReadCells DEF InBuf, Bodies
  <2>3. CASE ~(i <= got)
    <3>1. i - got \in 1 .. n /\ got + (i - got) = i
      BY <2>1, <2>3, ReadCells
    <3>2. buf'[i] = line[i - got]
      BY <3>1, ReadCells
    <3> QED
      BY <2>1, <3>1, <3>2, ReadCells, BodyFacts DEF OnLine, Bodies
  <2> QED
    BY <2>2, <2>3
<1>4. \A i, j \in OnLine' : i < j => line'[i].of < line'[j].of
  <2>1. \A i, j \in OnLine' : i < j => i + n < j + n
    BY <1>2, ReadCells
  <2> QED
    BY <1>2, <2>1 DEF HostStrict
<1>5. ASSUME NEW i \in InBuf', NEW j \in OnLine'
      PROVE  buf'[i].of < line'[j].of
  <2>1. CASE i \in InBuf /\ buf'[i].of = buf[i].of
    BY <1>2, <2>1 DEF HostStrict
  <2>2. CASE i - got \in 1 .. n /\ i - got \in OnLine /\ buf'[i].of = line[i - got].of
    <3>1. i - got < j + n
      BY <1>2, <2>2, ReadCells
    <3> QED
      BY <1>2, <2>2, <3>1 DEF HostStrict
  <2> QED
    BY <1>3, <2>1, <2>2
<1>6. \A i \in InBuf' : Last < buf'[i].of
  BY <1>3 DEF HostStrict
<1>7. \A j \in OnLine' : Last < line'[j].of
  BY <1>2 DEF HostStrict
<1> QED
  BY <1>1, <1>4, <1>5, <1>6, <1>7 DEF HostStrict

(* A read that is not short fills the buffer where the frame goes on. *)
LEMMA AlignedRead ==
  ASSUME HostInv, HostAligned, NEW n \in 1 .. L, ReadSome(n), UNCHANGED executed
  PROVE  HostAligned'
PROOF
<1>1. PICK e, a, b, f : e = Len(executed) /\ a = Len(line) /\ b = Len(line') /\ f = Frame(e + 1)
  OBVIOUS
<1>2. /\ e \in Nat /\ a \in Nat /\ b = a - n /\ n <= a /\ n \in Nat /\ state \in Nat
      /\ got \in Nat /\ Cur = got /\ Cur' = got + n /\ got + n <= 4
      /\ state' = state
  BY <1>1, ReadCells, BodyFacts, LenProperties DEF HostInv, HostTyped, ReadSome, L
<1>3. Pending = a + got /\ Pending' = b + (got + n)
  BY <1>1, <1>2 DEF Pending, Cur
<1>4. /\ 4 * e + (a + got) = 4 * state
      /\ \A k \in 1 .. state, i \in 1 .. 4, p \in 1 .. a :
           4 * (k - 1) + i = 4 * state - a + p => line[p] = Frame(k)[i]
      /\ \A i \in 1 .. got : buf[i] = f[i]
  BY <1>1, <1>2, <1>3 DEF HostAligned, L
<1>5. ASSUME NEW k \in 1 .. state, NEW i \in 1 .. 4, NEW p \in 1 .. b,
             4 * (k - 1) + i = 4 * state - b + p
      PROVE  line'[p] = Frame(k)[i]
  <2>1. p + n \in 1 .. a /\ 4 * (k - 1) + i = 4 * state - a + (p + n)
    BY <1>2, <1>5
  <2>2. line'[p] = line[p + n]
    BY <1>1, ReadCells
  <2> QED
    BY <1>4, <2>1, <2>2
<1>6. ASSUME NEW i \in 1 .. got + n
      PROVE  buf'[i] = f[i]
  <2>1. CASE i <= got
    BY <1>2, <1>4, <2>1, ReadCells
  <2>2. CASE ~(i <= got)
    <3>1. PICK p \in 1 .. n : i = got + p
      <4>1. i - got \in 1 .. n /\ i = got + (i - got)
        BY <1>2, <2>2
      <4> QED
        BY <4>1
    <3>2. /\ e + 1 \in 1 .. state /\ i \in 1 .. 4 /\ p \in 1 .. a
          /\ 4 * ((e + 1) - 1) + i = 4 * state - a + p
      <4>1. /\ e \in Nat /\ a \in Nat /\ n \in Nat /\ n <= a /\ got \in Nat /\ state \in Nat
            /\ got + n <= 4 /\ p \in 1 .. n /\ i = got + p
        BY <1>2, <3>1
      <4>2. 4 * e + (a + got) = 4 * state
        BY <1>4
      <4>3. i \in 1 .. 4 /\ p \in 1 .. a
        BY ONLY <4>1
      <4>4. 4 * e < 4 * state
        BY ONLY <4>1, <4>2
      <4>5. e + 1 \in 1 .. state
        BY ONLY <4>1, <4>4
      <4>6. (e + 1) - 1 = e
        BY ONLY <4>1
      <4>7. 4 * e + i = 4 * state - a + p
        BY ONLY <4>1, <4>2
      <4> QED
        BY ONLY <4>3, <4>5, <4>6, <4>7
    <3>3. line[p] = f[i]
      BY <1>1, <1>4, <3>2
    <3> QED
      BY <3>1, <3>3, ReadCells
  <2> QED
    BY <2>1, <2>2
<1>7. 4 * e + (b + (got + n)) = 4 * state
  BY <1>2, <1>4
<1> QED
  BY <1>1, <1>2, <1>3, <1>5, <1>6, <1>7 DEF HostAligned, L

(* A call that has read a whole frame is checked. *)
LEMMA OnceCheck ==
  ASSUME HostInv, OnceInv, Check, UNCHANGED <<executed, short>>
  PROVE  OnceInv'
PROOF
<1>1. /\ UNCHANGED <<state, line, faults, buf, executed, short>> /\ rx = "check" /\ got' = 0
      /\ rx' = IF Accepts(buf) THEN "use" ELSE "read"
      /\ Cur = 4 /\ Cur' = IF Accepts(buf) THEN 4 ELSE 0
  BY DEF Check, Restart, peer, Cur, L
<1>2. ASSUME HostStrict PROVE HostStrict'
  <2>1. InBuf' \subseteq InBuf /\ OnLine' = OnLine /\ Last' = Last
    BY <1>1 DEF InBuf, OnLine, Bodies, Last
  <2> QED
    BY <1>1, <1>2, <2>1 DEF HostStrict
<1>3. ASSUME HostAligned PROVE HostAligned'
  <2>1. \A i \in 1 .. 4 : buf[i] = Frame(Len(executed) + 1)[i]
    BY <1>1, <1>3 DEF HostAligned
  <2>2. Accepts(buf)
    BY <2>1, FrameCellsAre DEF Accepts, Marked, CrcMatches, L
  <2>3. Cur' = Cur /\ Pending' = Pending
    BY <1>1, <2>2 DEF Pending, L
  <2> QED
    BY <1>1, <1>3, <2>3 DEF HostAligned
<1> QED
  BY <1>1, <1>2, <1>3 DEF OnceInv

(* What is carried out was not carried out before. *)
LEMMA StrictCarry ==
  ASSUME HostInv, HostStrict, Carry, rx' = "read", got' = 0
  PROVE  HostStrict'
PROOF
<1>1. PICK k : k = buf[2].of
  OBVIOUS
<1>2. /\ UNCHANGED <<state, line, buf>> /\ Accepts(buf) /\ Cur = 4 /\ Cur' = 0
      /\ executed' = Append(executed, k) /\ executed \in Seq(1 .. LastState)
  BY <1>1 DEF Carry, CommandOf, Accepts, CrcMatches, peer, HostInv, HostTyped, HostBufOrdered, Cur, L
<1>3. 2 \in InBuf
  BY <1>2 DEF Accepts, CrcMatches, InBuf, Bodies
<1>4. /\ Last < k /\ k \in 1 .. LastState /\ k \in Nat /\ Last \in Nat
      /\ \A j \in OnLine : k < line[j].of
  <2>1. k \in 1 .. state
    BY <1>1, <1>3, BodyFacts
  <2> QED
    BY <1>1, <1>3, <2>1, BodyFacts, HostFacts DEF HostStrict
<1>5. /\ Len(executed) \in Nat /\ executed' \in Seq(1 .. LastState)
      /\ Len(executed') = Len(executed) + 1
      /\ DOMAIN executed = 1 .. Len(executed) /\ DOMAIN executed' = 1 .. Len(executed')
      /\ \A i \in 1 .. Len(executed) : executed'[i] = executed[i] /\ executed[i] \in Nat
      /\ executed'[Len(executed) + 1] = k
  <2>1. executed \in Seq(1 .. LastState) /\ k \in 1 .. LastState
    BY <1>2, <1>4
  <2>2. /\ executed' \in Seq(1 .. LastState) /\ Len(executed') = Len(executed) + 1
        /\ \A i \in 1 .. Len(executed) : executed'[i] = executed[i]
        /\ executed'[Len(executed) + 1] = k
    BY <1>2, <2>1, AppendProperties
  <2>3. Len(executed) \in Nat /\ DOMAIN executed = 1 .. Len(executed)
    BY <2>1, LenProperties
  <2>4. DOMAIN executed' = 1 .. Len(executed')
    BY <2>2, LenProperties
  <2>5. ASSUME NEW i \in 1 .. Len(executed) PROVE executed[i] \in Nat
    <3>1. executed[i] \in 1 .. LastState
      BY <2>1, <2>5, ElementOfSeq
    <3> QED
      BY <3>1, HostFacts
  <2> QED
    BY <2>2, <2>3, <2>4, <2>5
<1>6. Last' = k
  BY <1>5, EmptySeq DEF Last, HostOrder!Latest
<1>7. ASSUME NEW i \in 1 .. Len(executed)
      PROVE  executed[i] <= Last
  <2>1. executed # <<>> /\ Last = executed[Len(executed)]
    BY <1>5, <1>7, EmptySeq DEF Last, HostOrder!Latest
  <2> QED
    BY <1>5, <1>7, <2>1 DEF HostStrict
<1>8. ASSUME NEW i \in 1 .. Len(executed) + 1, NEW j \in 1 .. Len(executed) + 1, i < j
      PROVE  executed'[i] < executed'[j]
  <2>1. CASE j <= Len(executed)
    <3>1. i \in 1 .. Len(executed) /\ j \in 1 .. Len(executed)
      BY <1>5, <1>8, <2>1
    <3>2. executed[i] < executed[j]
      BY <1>5, <1>8, <3>1 DEF HostStrict
    <3> QED
      BY <1>5, <3>1, <3>2
  <2>2. CASE j = Len(executed) + 1
    <3>1. i \in 1 .. Len(executed)
      BY <1>5, <1>8, <2>2
    <3>2. executed[i] <= Last /\ executed[i] \in Nat /\ executed'[i] = executed[i]
      BY <1>5, <1>7, <3>1
    <3>3. executed'[j] = k
      BY <1>5, <2>2
    <3> QED
      BY <1>4, <3>2, <3>3
  <2> QED
    BY <1>5, <1>8, <2>1, <2>2
<1>9. InBuf' = {} /\ OnLine' = OnLine
  BY <1>2 DEF InBuf, OnLine, Bodies
<1>10. \A j \in OnLine' : Last' < line'[j].of
  BY <1>2, <1>4, <1>6, <1>9
<1>11. \A i, j \in DOMAIN executed' : i < j => executed'[i] < executed'[j]
  BY <1>5, <1>8
<1> QED
  BY <1>2, <1>9, <1>10, <1>11 DEF HostStrict

(* The frame carried out is the next one; the buffer starts anew. *)
LEMMA AlignedCarry ==
  ASSUME HostInv, HostAligned, Carry, rx' = "read", got' = 0
  PROVE  HostAligned'
PROOF
<1>1. /\ UNCHANGED <<state, line>> /\ Pending = Len(line) + 4 /\ Pending' = Len(line) /\ Cur' = 0
      /\ executed' = Append(executed, buf[2].of) /\ executed \in Seq(1 .. LastState)
  BY DEF Carry, CommandOf, Accepts, CrcMatches, peer, Pending, Cur, L, HostInv, HostTyped, HostBufOrdered
<1>2. Len(executed') = Len(executed) + 1 /\ Len(executed) \in Nat
  BY <1>1, LenProperties DEF HostInv, HostTyped
<1> QED
  BY <1>1, <1>2, BodyFacts DEF HostAligned, L

(* Every step keeps the payloads to come new and the frames whole. *)
LEMMA OnceStep ==
  ASSUME HostInv, OnceInv, [HostNext]_hostVars
  PROVE  OnceInv'
PROOF
<1>1. CASE HostSends
  <2>1. UNCHANGED <<faults, rx, got, short>>
    BY <1>1 DEF HostSends
  <2> QED
    BY <1>1, <2>1, StrictSent, AlignedSent DEF OnceInv
<1>2. CASE Fault /\ UNCHANGED <<executed, short>>
  <2>1. faults' \in Nat /\ faults' # 0 /\ UNCHANGED <<rx, got, short>>
    BY <1>2 DEF Fault, OnceInv
  <2> QED
    BY <1>2, <2>1, StrictFault DEF OnceInv
<1>3. ASSUME NEW n \in 1 .. L, ReadSome(n), UNCHANGED <<executed, short>>
      PROVE  OnceInv'
  <2>1. UNCHANGED faults /\ rx' # "use"
    BY <1>3 DEF ReadSome
  <2> QED
    BY <1>3, <2>1, StrictRead, AlignedRead DEF OnceInv
<1>4. CASE (TimeOut \/ ReadFails) /\ short' = TRUE
  BY <1>4 DEF TimeOut, ReadFails, peer, OnceInv
<1>5. CASE Check /\ UNCHANGED <<executed, short>>
  BY <1>5, OnceCheck
<1>6. CASE Carry
  <2>1. UNCHANGED <<faults, short>> /\ rx' = "read" /\ got' = 0
    BY <1>6 DEF Carry, peer, OnceInv
  <2> QED
    BY <1>6, <2>1, StrictCarry, AlignedCarry DEF OnceInv
<1>7. CASE UNCHANGED hostVars
  BY <1>7 DEF hostVars, linkVars, OnceInv, HostStrict, HostAligned, InBuf, OnLine, Bodies, Last,
              Cur, Pending
<1> QED
  BY <1>1, <1>2, <1>3, <1>4, <1>5, <1>6, <1>7 DEF HostNext, HostReads, Carried

(* With nothing sent all of it holds. *)
LEMMA OnceStarts == HostInit => OnceInv
PROOF
<1>1. Len(<<>>) = 0
  BY EmptySeq
<1> QED
  BY <1>1 DEF HostInit, LinkInit, OnceInv, HostStrict, HostAligned, InBuf, OnLine, Bodies, Last,
              Cur, Pending, L, HostOrder!Latest

(* usr_recv_serial_frame: a command of the host is carried out a second    *)
(* time only if a read returned less than a frame; and when no byte is     *)
(* lost or damaged either, every command is carried out, once.             *)
THEOREM CommandsOnce == HostSpec => []OnceUnlessShort
PROOF
<1>1. HostInv /\ OnceInv /\ [HostNext]_hostVars => HostInv' /\ OnceInv'
  BY HostStep, OnceStep
<1>2. OnceInv => OnceUnlessShort
  BY DEF OnceInv, HostStrict, HostAligned, OnceUnlessShort
<1> QED
  BY <1>1, <1>2, HostStarts, OnceStarts, PTL DEF HostSpec

-----------------------------------------------------------------------------
(* Types of the host's end. *)

(* What HostTyped does not say of the variables. *)
HostBounded ==
  /\ burst \in 0 .. Burst /\ Len(line) <= LineMax /\ faults \in 0 .. Faults
  /\ rx \in {"read", "check", "use"} /\ short \in BOOLEAN

LEMMA BoundedStep ==
  ASSUME HostInv, HostBounded, [HostNext]_hostVars
  PROVE  HostBounded'
PROOF
<1> USE LinkAssumption DEF HostBounded
<1>1. CASE HostSends
  <2>1. state + 1 \in 0 .. LastState
    BY <1>1, HostFacts DEF HostSends
  <2>2. Len(line') = Len(line) + L
    BY <1>1, <2>1, HostFacts, SentLine DEF HostSends
  <2>3. burst' \in 0 .. Burst
    BY <1>1 DEF HostSends
  <2> QED
    BY <1>1, <2>2, <2>3 DEF HostSends
<1>2. CASE Fault /\ UNCHANGED <<executed, short>>
  <2>1. PICK k \in 1 .. Len(line) : Lost(k) \/ Damaged(k)
    BY <1>2 DEF Fault
  <2>2. CASE Lost(k)
    <3>1. Len(line') = Len(line) - 1
      <4>1. line \in Seq(Cells) /\ k \in 1 .. Len(line)
        BY HostFacts
      <4> QED
        BY <2>2, <4>1, LostLine DEF Lost
    <3>2. Len(line') <= LineMax
      BY <3>1, HostFacts
    <3> QED
      BY <1>2, <3>2 DEF Fault
  <2>3. CASE Damaged(k)
    <3>1. Len(line') = Len(line)
      <4>1. line \in Seq(Cells) /\ k \in 1 .. Len(line) /\ Junk \in Cells
        BY HostFacts DEF Cells
      <4> QED
        BY <2>3, <4>1, ExceptSeq DEF Damaged
    <3>2. Len(line') <= LineMax
      BY <3>1
    <3> QED
      BY <1>2, <3>2 DEF Fault
  <2> QED
    BY <2>1, <2>2, <2>3
<1>3. ASSUME NEW n \in 1 .. L, ReadSome(n), UNCHANGED <<executed, short>>
      PROVE  HostBounded'
  <2>1. n \in Nat /\ n <= Len(line) /\ line' = SubSeq(line, n + 1, Len(line))
    BY <1>3 DEF ReadSome, L
  <2>2. Len(line') = Len(line) - n
    <3>1. line \in Seq(Cells)
      BY HostFacts
    <3> QED
      BY <2>1, <3>1, ReadLine
  <2>3. Len(line') <= LineMax
    <3>1. PICK a, b : a = Len(line) /\ b = Len(line')
      OBVIOUS
    <3>2. b = a - n /\ a \in Nat /\ a <= LineMax
      BY <2>2, <3>1, HostFacts
    <3>3. b <= LineMax
      BY ONLY <2>1, <3>2, LinkAssumption, SMT
    <3> QED
      BY <3>1, <3>3
  <2> QED
    BY <1>3, <2>3 DEF ReadSome
<1>4. CASE (TimeOut \/ ReadFails) /\ short' = TRUE
  BY <1>4 DEF TimeOut, ReadFails, peer
<1>5. CASE Check /\ UNCHANGED <<executed, short>>
  BY <1>5 DEF Check, peer
<1>6. CASE Carry
  BY <1>6 DEF Carry, peer
<1>7. CASE UNCHANGED hostVars
  BY <1>7 DEF hostVars, linkVars
<1> QED
  BY <1>1, <1>2, <1>3, <1>4, <1>5, <1>6, <1>7 DEF HostNext, HostReads, Carried

(* usr_recv_serial_frame on the host's port: a read never goes beyond the  *)
(* frame's bytes of the buffer, and only commands of the host are carried  *)
(* out.                                                                    *)
THEOREM HostIsTyped == HostSpec => []HostTypeOK
PROOF
<1>1. HostInit => HostInv /\ HostBounded
  <2>1. Len(<<>>) = 0
    BY EmptySeq
  <2>2. ASSUME HostInit
        PROVE  HostBounded
    <3>1. burst = 0 /\ faults = 0 /\ rx = "read" /\ short = FALSE /\ line = <<>>
      BY <2>2 DEF HostInit, LinkInit
    <3>2. Len(line) = 0
      BY <2>1, <3>1, Zenon
    <3>3. 0 \in 0 .. Burst /\ 0 \in 0 .. Faults /\ 0 <= LineMax
      BY LinkAssumption
    <3>4. FALSE \in BOOLEAN /\ "read" \in {"read", "check", "use"}
      OBVIOUS
    <3> QED
      BY <3>1, <3>2, <3>3, <3>4, Zenon DEF HostBounded
  <2> QED
    BY <2>2, HostStarts
<1>2. HostInv /\ HostBounded /\ [HostNext]_hostVars => HostInv' /\ HostBounded'
  BY HostStep, BoundedStep
<1>3. ASSUME HostInv, HostBounded
      PROVE  HostTypeOK
  BY <1>3 DEF HostInv, HostTyped, HostBounded, HostTypeOK
<1> QED
  BY <1>1, <1>2, <1>3, PTL DEF HostSpec
=============================================================================
