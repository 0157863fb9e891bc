-------------------------- MODULE TcpFramerProofs --------------------------
(***************************************************************************)
(* Proofs about TcpFramer, for any number of frames of any lengths: it     *)
(* implements CommandLink (the commands carried out are whole, in order    *)
(* and none twice, however the network cuts the stream), and while every   *)
(* segment ends with a frame no command is lost.                           *)
(***************************************************************************)
EXTENDS TcpFramer, SequenceTheorems, TLAPS

(***************************************************************************)
(* The inductive invariant.  What has been sent and not received is one    *)
(* sequence, whose order says how far a cell is from the end of its frame. *)
(***************************************************************************)
Size(k) == HdrSize + Body[k]
CellAt(k, i) == [of |-> k, at |-> i]
Cells(n) == [of : 1 .. n, at : Nat]

\* From cell i of t on, its frame goes on to its end, and later frames follow.
FrameFrom(t, i) ==
  LET k == t[i].of  a == t[i].at  end == i + Size(k) - a
  IN  /\ a \in 1 .. Size(k) /\ end <= Len(t)
      /\ \A d \in 0 .. Size(k) - a : t[i + d] = CellAt(k, a + d)
      /\ \A j \in 1 .. Len(t) : j > end => t[j].of > k

\* Cells of the frames up to n, in order.
FramesOf(t, n) == t \in Seq(Cells(n)) /\ \A i \in 1 .. Len(t) : FrameFrom(t, i)

\* Named, so that a fact about them is found without looking into them.
Join(a, w) == a \o w
Rest(a, m) == SubSeq(a, m + 1, Len(a))

\* A receive of n of the cells a, with w behind them, takes the first n and keeps the rest.
Leaves(S, a, w, n) ==
  LET t == Join(a, w)
      u == Join(Rest(a, n), w)
  IN  /\ Rest(a, n) \in Seq(S) /\ u \in Seq(S)
      /\ n \in 0 .. Len(t) /\ Len(u) = Len(t) - n
      /\ \A i \in 1 .. Len(u) : u[i] = t[i + n]
      /\ \A i \in 1 .. n : a[i] = t[i]

\* Moving the first n cells of w behind a keeps the stream.
Regroups(S, a, w, n) ==
  /\ a \o SubSeq(w, 1, n) \in Seq(S) /\ SubSeq(w, n + 1, Len(w)) \in Seq(S)
  /\ (a \o SubSeq(w, 1, n)) \o SubSeq(w, n + 1, Len(w)) = a \o w

Stream == Join(arrived, wire)

\* Nothing that is still to come was carried out.
Ahead(t, k) == \A i \in 1 .. Len(t) : t[i].of > k

InBody(t, k) ==
  /\ 1 \in DOMAIN rcv_buf /\ 2 \in DOMAIN rcv_buf
  /\ rcv_buf[1] = CellAt(k, 1) /\ rcv_buf[2] = CellAt(k, 2) /\ frame_len = Body[k]
  /\ Len(t) > 0 /\ t[1] = CellAt(k, 3)

InHandle(t, k) ==
  /\ \A i \in 1 .. Size(k) : rcv_buf[i] = CellAt(k, i)
  /\ frame_len = Body[k] /\ Ahead(t, k)

StreamTyped ==
  /\ sent \in 0 .. MaxFrames
  /\ wire \in Seq(Cells(sent)) /\ arrived \in Seq(Cells(sent))
  /\ ran \in Seq(1 .. sent)

FramerInv ==
  /\ StreamTyped /\ FramesOf(Stream, sent) /\ Ahead(Stream, Order!Latest(ran))
  /\ rpc = "body" => \E k \in 1 .. sent : k > Order!Latest(ran) /\ InBody(Stream, k)
  /\ rpc = "handle" => \E k \in 1 .. sent : k > Order!Latest(ran) /\ InHandle(Stream, k)

(***************************************************************************)
(* The stream.                                                             *)
(***************************************************************************)
LEMMA SizeIs ==
  ASSUME NEW k \in 1 .. MaxFrames
  PROVE  Body[k] \in Nat /\ Body[k] > 0 /\ Size(k) \in Nat /\ Size(k) = 2 + Body[k]
         /\ Size(k) <= BufSize /\ BufSize \in Nat
PROOF
  BY FramerAssumption DEF Size, HdrSize

LEMMA CellIs ==
  ASSUME NEW n, NEW t \in Seq(Cells(n)), NEW i \in 1 .. Len(t)
  PROVE  t[i].of \in 1 .. n /\ t[i].at \in Nat /\ t[i] = CellAt(t[i].of, t[i].at)
PROOF
<1>1. t[i] \in Cells(n)
  BY ElementOfSeq
<1> QED
  BY <1>1 DEF Cells, CellAt

LEMMA FrameIs ==
  ASSUME NEW k \in 1 .. MaxFrames
  PROVE  /\ FrameCells(k) \in Seq(Cells(k)) /\ Len(FrameCells(k)) = Size(k)
         /\ \A i \in 1 .. Size(k) : FrameCells(k)[i] = CellAt(k, i)
PROOF
<1>1. k \in Nat /\ Size(k) \in Nat
  BY FramerAssumption, SizeIs
<1>2. FrameCells(k) = [i \in 1 .. Size(k) |-> CellAt(k, i)]
  BY DEF FrameCells, Size, CellAt
<1>3. \A i \in 1 .. Size(k) : CellAt(k, i) \in Cells(k)
  BY <1>1 DEF CellAt, Cells
<1> QED
  BY <1>1, <1>2, <1>3

LEMMA CellsGrow ==
  ASSUME NEW n \in Nat, NEW t \in Seq(Cells(n))
  PROVE  t \in Seq(Cells(n + 1))
PROOF
<1>1. \A c \in Cells(n) : c \in Cells(n + 1)
  BY DEF Cells
<1>2. \A i \in 1 .. Len(t) : t[i] \in Cells(n + 1)
  BY <1>1, ElementOfSeq
<1> QED
  BY <1>2, SeqDef, LenProperties

\* The cells behind t when a frame is added.
LEMMA AddedCells ==
  ASSUME NEW n \in 0 .. MaxFrames - 1, NEW t \in Seq(Cells(n)),
         NEW u, u = Join(t, FrameCells(n + 1))
  PROVE  /\ n + 1 \in 1 .. MaxFrames /\ Size(n + 1) \in Nat /\ Len(t) \in Nat
         /\ Len(u) = Len(t) + Size(n + 1)
         /\ \A i \in 1 .. Len(t) : u[i] = t[i]
         /\ \A i \in 1 .. Size(n + 1) : u[Len(t) + i] = CellAt(n + 1, i)
PROOF
<1>1. PICK k, f : k = n + 1 /\ f = FrameCells(k)
  OBVIOUS
<1>2. k \in 1 .. MaxFrames /\ n \in Nat /\ k \in Nat /\ Len(t) \in Nat
  BY <1>1, FramerAssumption, LenProperties
<1>3. Size(k) \in Nat
  BY <1>2, SizeIs
<1>4. f \in Seq(Cells(k)) /\ Len(f) = Size(k) /\ \A i \in 1 .. Size(k) : f[i] = CellAt(k, i)
  BY <1>1, <1>2, FrameIs
<1>5. t \in Seq(Cells(k))
  BY <1>1, <1>2, CellsGrow
<1>6. u = t \o f
  BY <1>1, Zenon DEF Join
<1>7. /\ Len(u) = Len(t) + Len(f)
      /\ \A i \in 1 .. Len(t) + Len(f) : u[i] = IF i <= Len(t) THEN t[i] ELSE f[i - Len(t)]
  BY <1>4, <1>5, <1>6, ConcatProperties
<1>8. \A i \in 1 .. Len(t) : u[i] = t[i]
  BY <1>2, <1>3, <1>4, <1>7
<1>9. \A i \in 1 .. Size(k) : u[Len(t) + i] = CellAt(k, i)
  <2> TAKE i \in 1 .. Size(k)
  <2>1. /\ Len(t) + i \in 1 .. Len(t) + Len(f) /\ ~(Len(t) + i <= Len(t))
        /\ Len(t) + i - Len(t) = i
    BY <1>2, <1>3, <1>4
  <2> QED
    BY <1>4, <1>7, <2>1
<1> QED
  BY <1>1, <1>2, <1>3, <1>4, <1>7, <1>8, <1>9

\* A frame behind the last.
LEMMA FrameBehind ==
  ASSUME NEW n \in 0 .. MaxFrames - 1, NEW t, FramesOf(t, n)
  PROVE  FramesOf(t \o FrameCells(n + 1), n + 1)
PROOF
<1>1. PICK k : k = n + 1
  OBVIOUS
<1>2. PICK f : f = FrameCells(k)
  OBVIOUS
<1>3. k \in 1 .. MaxFrames /\ n \in Nat /\ k \in Nat /\ t \in Seq(Cells(n)) /\ Len(t) \in Nat
  BY <1>1, FramerAssumption, LenProperties DEF FramesOf
<1>4. Size(k) \in Nat
  BY <1>3, SizeIs
<1>5. f \in Seq(Cells(k)) /\ Len(f) = Size(k) /\ \A i \in 1 .. Size(k) : f[i] = CellAt(k, i)
  BY <1>2, <1>3, FrameIs
<1>6. t \in Seq(Cells(k))
  BY <1>1, <1>3, CellsGrow
<1>7. PICK u : u = t \o f
  OBVIOUS
<1>8. /\ u \in Seq(Cells(k)) /\ Len(u) = Len(t) + Size(k)
      /\ \A i \in 1 .. Len(t) : u[i] = t[i]
      /\ \A i \in 1 .. Size(k) : u[Len(t) + i] = CellAt(k, i)
  <2>1. u \in Seq(Cells(k))
    BY <1>5, <1>6, <1>7, ConcatProperties
  <2>2. u = Join(t, FrameCells(n + 1))
    BY <1>1, <1>2, <1>7, Zenon DEF Join
  <2> QED
    BY <1>1, <1>3, <2>1, <2>2, AddedCells
<1>9. ASSUME NEW i \in 1 .. Len(t)
      PROVE  FrameFrom(u, i)
  <2>0. PICK o, a : o = t[i].of /\ a = t[i].at
    OBVIOUS
  <2>1. t[i] = CellAt(o, a) /\ o \in 1 .. n /\ a \in Nat
    BY <1>3, <2>0, CellIs
  <2>2. t[i].of = o /\ t[i].at = a /\ u[i] = t[i]
    BY <1>8, <2>1 DEF CellAt
  <2>3. o \in 1 .. MaxFrames /\ Size(o) \in Nat
    BY <2>1, FramerAssumption, SizeIs
  <2>4. /\ a \in 1 .. Size(o) /\ i + Size(o) - a <= Len(t)
        /\ \A d \in 0 .. Size(o) - a : t[i + d] = CellAt(o, a + d)
        /\ \A j \in 1 .. Len(t) : j > i + Size(o) - a => t[j].of > o
    BY <2>2 DEF FramesOf, FrameFrom
  <2>5. \A d \in 0 .. Size(o) - a : i + d \in 1 .. Len(t)
    BY <1>3, <2>3, <2>4
  <2>6. \A d \in 0 .. Size(o) - a : u[i + d] = CellAt(o, a + d)
    BY <1>8, <2>4, <2>5
  <2>7. ASSUME NEW j \in 1 .. Len(u), j > i + Size(o) - a
        PROVE  u[j].of > o
    <3>1. CASE j \in 1 .. Len(t)
      BY <1>8, <2>4, <2>7, <3>1
    <3>2. CASE j \notin 1 .. Len(t)
      <4>1. j - Len(t) \in 1 .. Size(k) /\ Len(t) + (j - Len(t)) = j
        BY <1>3, <1>4, <1>8, <3>2
      <4>2. u[j] = CellAt(k, j - Len(t))
        BY <1>8, <4>1
      <4> QED
        BY <1>1, <1>3, <2>1, <4>2 DEF CellAt
    <3> QED
      BY <3>1, <3>2
  <2>8. i + Size(o) - a <= Len(u)
    BY <1>3, <1>4, <1>8, <2>3, <2>4
  <2> QED
    BY <2>2, <2>4, <2>6, <2>7, <2>8 DEF FrameFrom
<1>10. ASSUME NEW e \in 1 .. Size(k)
      PROVE  FrameFrom(u, Len(t) + e)
  <2>0. u[Len(t) + e] = CellAt(k, e)
    BY <1>8
  <2>1. u[Len(t) + e].of = k /\ u[Len(t) + e].at = e
    BY <2>0 DEF CellAt
  <2>2. \A d \in 0 .. Size(k) - e : u[Len(t) + e + d] = CellAt(k, e + d)
    <3> TAKE d \in 0 .. Size(k) - e
    <3>1. e + d \in 1 .. Size(k) /\ Len(t) + e + d = Len(t) + (e + d)
      BY <1>3, <1>4
    <3> QED
      BY <1>8, <3>1
  <2>3. \A j \in 1 .. Len(u) : ~(j > Len(t) + e + Size(k) - e)
    BY <1>3, <1>4, <1>8
  <2>4. Len(t) + e + Size(k) - e <= Len(u)
    BY <1>3, <1>4, <1>8
  <2> QED
    BY <2>1, <2>2, <2>3, <2>4 DEF FrameFrom
<1>11. ASSUME NEW i \in 1 .. Len(u)
      PROVE  FrameFrom(u, i)
  <2>1. CASE i \notin 1 .. Len(t)
    <3>1. i - Len(t) \in 1 .. Size(k) /\ Len(t) + (i - Len(t)) = i
      BY <1>3, <1>4, <1>8, <2>1
    <3>2. FrameFrom(u, Len(t) + (i - Len(t)))
      BY <1>10, <3>1
    <3> QED
      BY <3>1, <3>2
  <2> QED
    BY <1>9, <2>1
<1> QED
  BY <1>1, <1>2, <1>8, <1>11, <1>7 DEF FramesOf

\* What is left when the first m cells have been received.
LEMMA FramesLeft ==
  ASSUME NEW n \in 0 .. MaxFrames, NEW t, FramesOf(t, n), NEW m \in 0 .. Len(t),
         NEW u \in Seq(Cells(n)), Len(u) = Len(t) - m,
         \A i \in 1 .. Len(u) : u[i] = t[i + m]
  PROVE  FramesOf(u, n)
PROOF
<1>1. n \in Nat /\ t \in Seq(Cells(n)) /\ Len(t) \in Nat /\ Len(u) \in Nat /\ m \in Nat
  BY FramerAssumption, LenProperties DEF FramesOf
<1>2. ASSUME NEW i \in 1 .. Len(u)
      PROVE  FrameFrom(u, i)
  <2>1. i + m \in 1 .. Len(t) /\ u[i] = t[i + m]
    BY <1>1
  <2>0. PICK o, a : o = t[i + m].of /\ a = t[i + m].at
    OBVIOUS
  <2>2. t[i + m] = CellAt(o, a) /\ o \in 1 .. n /\ a \in Nat
    BY <1>1, <2>0, <2>1, CellIs
  <2>3. t[i + m].of = o /\ t[i + m].at = a /\ u[i].of = o /\ u[i].at = a
    BY <2>1, <2>2 DEF CellAt
  <2>4. o \in 1 .. MaxFrames /\ Size(o) \in Nat
    BY <2>2, FramerAssumption, SizeIs
  <2>5. /\ a \in 1 .. Size(o) /\ (i + m) + Size(o) - a <= Len(t)
        /\ \A d \in 0 .. Size(o) - a : t[(i + m) + d] = CellAt(o, a + d)
        /\ \A j \in 1 .. Len(t) : j > (i + m) + Size(o) - a => t[j].of > o
    BY <2>1, <2>3 DEF FramesOf, FrameFrom
  <2>6. \A d \in 0 .. Size(o) - a : u[i + d] = CellAt(o, a + d)
    <3> TAKE d \in 0 .. Size(o) - a
    <3>1. i + d \in 1 .. Len(u) /\ (i + d) + m = (i + m) + d
      BY <1>1, <2>4, <2>5
    <3> QED
      BY <2>5, <3>1
  <2>7. \A j \in 1 .. Len(u) : j > i + Size(o) - a => u[j].of > o
    <3> TAKE j \in 1 .. Len(u)
    <3>1. j + m \in 1 .. Len(t)
      BY <1>1
    <3>2. j \in Nat /\ i \in Nat /\ a \in Nat /\ Size(o) \in Nat /\ m \in Nat
      BY <1>1, <2>2, <2>4
    <3>3. j > i + Size(o) - a => j + m > (i + m) + Size(o) - a
      BY ONLY <3>2, SMT
    <3> QED
      BY <2>5, <3>1, <3>3
  <2>8. i + Size(o) - a <= Len(u)
    BY <1>1, <2>4, <2>5
  <2> QED
    BY <2>3, <2>5, <2>6, <2>7, <2>8 DEF FrameFrom
<1> QED
  BY <1>2 DEF FramesOf

LEMMA Regrouped ==
  \A S : \A a, p, q \in Seq(S) : (a \o p) \o q = a \o (p \o q)
PROOF
  BY ConcatAssociative

\* The network moves cells within the stream, a receive takes the first.
LEMMA Moved ==
  ASSUME NEW S, NEW a \in Seq(S), NEW w \in Seq(S), NEW n \in 1 .. Len(w)
  PROVE  Regroups(S, a, w, n)
PROOF
<1>1. Len(w) \in Nat
  BY LenProperties
<1>2. \A i \in 1 .. Len(w) : w[i] \in S
  BY ElementOfSeq
<1>3. SubSeq(w, 1, n) \in Seq(S)
  BY <1>1, <1>2, SubSeqProperties
<1>4. SubSeq(w, n + 1, Len(w)) \in Seq(S)
  BY <1>1, <1>2, SubSeqProperties
<1>5. SubSeq(w, 1, n) \o SubSeq(w, n + 1, Len(w)) = SubSeq(w, 1, Len(w))
  <2>1. 1 \in 1 .. Len(w) + 1 /\ n \in 1 - 1 .. Len(w) /\ Len(w) \in n .. Len(w)
    BY <1>1
  <2> QED
    BY <2>1, ConcatAdjacentSubSeq
<1>6. SubSeq(w, 1, Len(w)) = w
  BY SubSeqFull
<1>7. (a \o SubSeq(w, 1, n)) \o SubSeq(w, n + 1, Len(w))
        = a \o (SubSeq(w, 1, n) \o SubSeq(w, n + 1, Len(w)))
  <2>1. PICK p, q : p = SubSeq(w, 1, n) /\ q = SubSeq(w, n + 1, Len(w))
    OBVIOUS
  <2>2. a \in Seq(S) /\ p \in Seq(S) /\ q \in Seq(S)
    BY <1>3, <1>4, <2>1, Zenon
  <2>3. (a \o p) \o q = a \o (p \o q)
    BY ONLY <2>2, Regrouped, SMTT(30)
  <2> QED
    BY <2>1, <2>3, Zenon
<1>8. a \o SubSeq(w, 1, n) \in Seq(S)
  BY <1>3, ConcatProperties
<1> QED
  BY <1>4, <1>5, <1>6, <1>7, <1>8, Zenon DEF Regroups

\* A receive takes the first cells of the stream and leaves the others as they are.
LEMMA Received ==
  ASSUME NEW S, NEW a \in Seq(S), NEW w \in Seq(S), NEW n \in 0 .. Len(a)
  PROVE  Leaves(S, a, w, n)
PROOF
<1>0. PICK b, t, u : b = Rest(a, n) /\ t = Join(a, w) /\ u = Join(b, w)
  OBVIOUS
<1>1. Len(w) \in Nat /\ Len(a) \in Nat /\ n \in Nat
  BY LenProperties
<1>2. \A i \in 1 .. Len(a) : a[i] \in S
  BY ElementOfSeq
<1>3. /\ b \in Seq(S) /\ Len(b) = Len(a) - n
      /\ \A i \in 1 .. Len(a) - n : b[i] = a[n + i]
  <2>1. n + 1 \in Int /\ Len(a) \in Int /\ \A i \in n + 1 .. Len(a) : a[i] \in S
    BY <1>1, <1>2
  <2>2. /\ b \in Seq(S) /\ Len(b) = IF n + 1 <= Len(a) THEN Len(a) - (n + 1) + 1 ELSE 0
        /\ \A i \in 1 .. Len(a) - (n + 1) + 1 : b[i] = a[(n + 1) + i - 1]
    BY <1>0, <2>1, SubSeqProperties DEF Rest
  <2> QED
    BY <1>1, <2>2
<1>4. /\ t \in Seq(S) /\ Len(t) = Len(a) + Len(w)
      /\ \A i \in 1 .. Len(a) + Len(w) : t[i] = IF i <= Len(a) THEN a[i] ELSE w[i - Len(a)]
  BY <1>0, ConcatProperties DEF Join
<1>5. /\ u \in Seq(S) /\ Len(u) = Len(b) + Len(w)
      /\ \A i \in 1 .. Len(b) + Len(w) : u[i] = IF i <= Len(b) THEN b[i] ELSE w[i - Len(b)]
  BY <1>0, <1>3, ConcatProperties DEF Join
<1>6. /\ \A i \in 1 .. Len(a) - n + Len(w) : u[i] = t[i + n]
      /\ \A i \in 1 .. n : a[i] = t[i]
  <2>1. /\ \A i \in 1 .. Len(a) - n + Len(w) :
             u[i] = IF i <= Len(a) - n THEN b[i] ELSE w[i - (Len(a) - n)]
    BY <1>3, <1>5, Zenon
  <2>2. n \in 0 .. Len(a)
    OBVIOUS
  <2>3. PICK la, lw : la = Len(a) /\ lw = Len(w)
    OBVIOUS
  <2>4. /\ la \in Nat /\ lw \in Nat /\ n \in 0 .. la
        /\ \A i \in 1 .. la - n : b[i] = a[n + i]
        /\ \A i \in 1 .. la + lw : t[i] = IF i <= la THEN a[i] ELSE w[i - la]
        /\ \A i \in 1 .. la - n + lw : u[i] = IF i <= la - n THEN b[i] ELSE w[i - (la - n)]
    BY <1>1, <1>3, <1>4, <2>1, <2>2, <2>3, Zenon
  <2>5. /\ \A i \in 1 .. la - n + lw : u[i] = t[i + n]
        /\ \A i \in 1 .. n : a[i] = t[i]
    <3>1. ASSUME NEW i \in 1 .. la - n + lw
          PROVE  u[i] = t[i + n]
      <4>1. i + n \in 1 .. la + lw /\ (i + n) - la = i - (la - n) /\ i + n = n + i
        BY ONLY <2>4, i \in 1 .. la - n + lw, SMT
      <4>2. CASE i <= la - n
        <5>1. i \in 1 .. la - n /\ i + n <= la
          BY ONLY <2>4, <4>2, i \in 1 .. la - n + lw, SMT
        <5>2. u[i] = b[i] /\ b[i] = a[n + i] /\ t[i + n] = a[i + n]
          BY ONLY <2>4, <4>1, <4>2, <5>1, i \in 1 .. la - n + lw, Zenon
        <5> QED
          BY ONLY <4>1, <5>2, Zenon
      <4>3. CASE ~(i <= la - n)
        <5>1. ~(i + n <= la)
          BY ONLY <2>4, <4>3, i \in 1 .. la - n + lw, SMT
        <5>2. u[i] = w[i - (la - n)] /\ t[i + n] = w[(i + n) - la]
          BY ONLY <2>4, <4>1, <4>3, <5>1, i \in 1 .. la - n + lw, Zenon
        <5> QED
          BY ONLY <4>1, <5>2, Zenon
      <4> QED
        BY <4>2, <4>3
    <3>2. ASSUME NEW i \in 1 .. n
          PROVE  a[i] = t[i]
      <4>1. i \in 1 .. la + lw /\ i <= la
        BY ONLY <2>4, i \in 1 .. n, SMT
      <4> QED
        BY ONLY <2>4, <4>1, Zenon
    <3> QED
      BY ONLY <3>1, <3>2, Zenon
  <2> QED
    BY <2>3, <2>5, Zenon
<1>7. Len(u) = Len(a) - n + Len(w) /\ Len(t) = Len(a) + Len(w)
  BY <1>3, <1>4, <1>5, Zenon
<1>8. n \in 0 .. Len(t) /\ Len(u) = Len(t) - n
  <2>1. PICK lu, lt : lu = Len(u) /\ lt = Len(t)
    OBVIOUS
  <2>2. PICK la, lw : la = Len(a) /\ lw = Len(w)
    OBVIOUS
  <2>3. lu = la - n + lw /\ lt = la + lw /\ la \in Nat /\ lw \in Nat /\ n \in 0 .. la
    BY <1>1, <1>7, <2>1, <2>2, Zenon
  <2>4. n \in 0 .. lt /\ lu = lt - n
    BY <2>3, SMT
  <2> QED
    BY <2>1, <2>4, Zenon
<1> QED
  <2>1. /\ b \in Seq(S) /\ u \in Seq(S) /\ n \in 0 .. Len(t) /\ Len(u) = Len(t) - n
        /\ \A i \in 1 .. Len(u) : u[i] = t[i + n]
        /\ \A i \in 1 .. n : a[i] = t[i]
    BY <1>3, <1>5, <1>6, <1>7, <1>8, Zenon
  <2> QED
    BY <1>0, <2>1 DEF Leaves

\* The last command carried out.
LEMMA LatestIs ==
  ASSUME NEW n \in Nat, NEW s \in Seq(1 .. n)
  PROVE  /\ Order!Latest(s) \in 0 .. n
         /\ \A k \in 1 .. n : Append(s, k) \in Seq(1 .. n) /\ Order!Latest(Append(s, k)) = k
PROOF
<1>1. Order!Latest(s) \in 0 .. n
  <2>1. CASE s = <<>>
    BY <2>1 DEF Order!Latest
  <2>2. CASE s # <<>>
    <3>1. Len(s) \in 1 .. Len(s)
      BY <2>2, EmptySeq, LenProperties
    <3>2. s[Len(s)] \in 1 .. n
      BY <3>1, ElementOfSeq
    <3> QED
      BY <2>2, <3>2 DEF Order!Latest
  <2> QED
    BY <2>1, <2>2
<1>2. ASSUME NEW k \in 1 .. n
      PROVE  Append(s, k) \in Seq(1 .. n) /\ Order!Latest(Append(s, k)) = k
  BY AppendProperties DEF Order!Latest
<1> QED
  BY <1>1, <1>2

\* What a receive of m cells leaves of the stream.
LEMMA Dropped ==
  ASSUME NEW n \in 0 .. MaxFrames, NEW a \in Seq(Cells(n)), NEW w \in Seq(Cells(n)),
         NEW l, NEW t, t = Join(a, w), FramesOf(t, n), Ahead(t, l),
         NEW m \in 0 .. Len(a), NEW b, b = Rest(a, m), NEW u, u = Join(b, w)
  PROVE  /\ b \in Seq(Cells(n)) /\ FramesOf(u, n) /\ Ahead(u, l)
         /\ m \in 0 .. Len(t) /\ Len(u) = Len(t) - m
         /\ \A i \in 1 .. Len(u) : u[i] = t[i + m]
         /\ \A i \in 1 .. m : a[i] = t[i]
PROOF
<1>1. /\ b \in Seq(Cells(n)) /\ u \in Seq(Cells(n))
      /\ m \in 0 .. Len(t) /\ Len(u) = Len(t) - m
      /\ \A i \in 1 .. Len(u) : u[i] = t[i + m]
      /\ \A i \in 1 .. m : a[i] = t[i]
  <2>1. PICK S : S = Cells(n)
    OBVIOUS
  <2>2. a \in Seq(S) /\ w \in Seq(S)
    BY <2>1
  <2>3. /\ b \in Seq(S) /\ u \in Seq(S)
        /\ m \in 0 .. Len(t) /\ Len(u) = Len(t) - m
        /\ \A i \in 1 .. Len(u) : u[i] = t[i + m]
        /\ \A i \in 1 .. m : a[i] = t[i]
    <3>1. Leaves(S, a, w, m)
      BY ONLY <2>2, m \in 0 .. Len(a), Received, Zenon
    <3>2. Rest(a, m) = b /\ Join(a, w) = t
      OBVIOUS
    <3>3. Join(Rest(a, m), w) = u
      BY ONLY <3>2, u = Join(b, w), Zenon
    <3> QED
      BY ONLY <3>1, <3>2, <3>3 DEF Leaves
  <2> QED
    BY <2>1, <2>3, Zenon
<1>2. FramesOf(u, n)
  BY <1>1, FramesLeft, ZenonT(30)
<1>3. Ahead(u, l)
  <2>1. PICK lu, lt : lu = Len(u) /\ lt = Len(t)
    OBVIOUS
  <2>2. t \in Seq(Cells(n)) /\ Len(t) \in Nat
    BY LenProperties, Zenon DEF FramesOf
  <2>3. /\ lt \in Nat /\ m \in 0 .. lt /\ lu = lt - m
        /\ \A i \in 1 .. lu : u[i] = t[i + m]
        /\ \A i \in 1 .. lt : t[i].of > l
    BY <1>1, <2>1, <2>2, Zenon DEF Ahead
  <2>4. \A i \in 1 .. lu : u[i].of > l
    <3> TAKE i \in 1 .. lu
    <3>1. i + m \in 1 .. lt
      BY ONLY <2>3, i \in 1 .. lu, SMT
    <3> QED
      BY <2>3, <3>1, Zenon
  <2> QED
    BY <2>1, <2>4, Zenon DEF Ahead
<1> QED
  BY <1>1, <1>2, <1>3, Zenon

\* The frame at the head of the stream, from its cell e on.
LEMMA HeadFrame ==
  ASSUME NEW n \in 0 .. MaxFrames, NEW t, FramesOf(t, n), NEW lt, lt = Len(t), lt > 0,
         NEW k, NEW e, t[1].of = k, t[1].at = e
  PROVE  /\ k \in 1 .. n /\ k \in 1 .. MaxFrames /\ lt \in Nat
         /\ e \in 1 .. Size(k) /\ 1 + Size(k) - e <= lt
         /\ \A d \in 0 .. Size(k) - e : t[1 + d] = CellAt(k, e + d)
         /\ \A j \in 1 .. lt : j > 1 + Size(k) - e => t[j].of > k
PROOF
<1>1. t \in Seq(Cells(n)) /\ lt \in Nat /\ 1 \in 1 .. lt
  BY LenProperties DEF FramesOf
<1>2. t[1].of \in 1 .. n
  BY <1>1, CellIs
<1>3. FrameFrom(t, 1)
  BY <1>1 DEF FramesOf
<1> QED
  BY <1>1, <1>2, <1>3, FramerAssumption DEF FrameFrom

(***************************************************************************)
(* The steps.                                                              *)
(***************************************************************************)
LEMMA FramerStarts ==
  FramerInit => FramerInv /\ Order!Init
PROOF
<1> SUFFICES ASSUME FramerInit
    PROVE  FramerInv /\ Order!Init
  OBVIOUS
<1>1. StreamTyped /\ rpc = "header" /\ sent = 0 /\ ran = <<>>
  BY FramerAssumption DEF FramerInit, StreamTyped
<1>2. Stream \in Seq(Cells(0)) /\ Len(Stream) = 0
  <2>1. Stream = <<>> \o <<>>
    BY DEF FramerInit, Stream, Join
  <2>2. <<>> \o <<>> = <<>>
    BY ConcatEmptySeq, EmptySeq
  <2> QED
    BY <2>1, <2>2, EmptySeq
<1>3. FramesOf(Stream, sent) /\ Ahead(Stream, Order!Latest(ran))
  BY <1>1, <1>2 DEF FramesOf, Ahead
<1> QED
  BY <1>1, <1>3 DEF FramerInv, Order!Init

\* What the invariant says of the commands carried out.
LEMMA RanIs ==
  ASSUME StreamTyped
  PROVE  sent \in Nat /\ sent <= MaxFrames /\ Order!Latest(ran) \in 0 .. sent
PROOF
<1>1. sent \in Nat /\ sent <= MaxFrames /\ ran \in Seq(1 .. sent)
  BY FramerAssumption DEF StreamTyped
<1> QED
  BY <1>1, LatestIs

LEMMA ArriveStep ==
  ASSUME FramerInv, NEW n \in 1 .. Len(wire), Arrive(n)
  PROVE  FramerInv' /\ UNCHANGED <<sent, ran>>
PROOF
<1>1. sent' = sent /\ ran' = ran /\ rpc' = rpc /\ rcv_buf' = rcv_buf /\ frame_len' = frame_len
  BY DEF Arrive
<1>2. /\ arrived' \in Seq(Cells(sent)) /\ wire' \in Seq(Cells(sent))
      /\ Join(arrived', wire') = Join(arrived, wire)
  <2>1. PICK S : S = Cells(sent)
    OBVIOUS
  <2>2. arrived \in Seq(S) /\ wire \in Seq(S)
    BY <2>1 DEF FramerInv, StreamTyped
  <2>3. Regroups(S, arrived, wire, n)
    BY ONLY <2>2, n \in 1 .. Len(wire), Moved, Zenon
  <2>4. arrived' = arrived \o SubSeq(wire, 1, n) /\ wire' = SubSeq(wire, n + 1, Len(wire))
    BY DEF Arrive
  <2> QED
    BY <2>1, <2>3, <2>4, Zenon DEF Join, Regroups
<1>3. Stream' = Stream
  BY <1>2, Zenon DEF Stream
<1>4. StreamTyped'
  BY <1>1, <1>2, Zenon DEF FramerInv, StreamTyped
<1> QED
  BY <1>1, <1>3, <1>4, Zenon DEF FramerInv, InBody, InHandle

\* What a new frame adds to the stream lies behind it and is of that frame.
LEMMA Added ==
  ASSUME NEW n \in 0 .. MaxFrames - 1, NEW t, FramesOf(t, n),
         NEW u, u = Join(t, FrameCells(n + 1)), NEW l, l <= n, l \in Nat, Ahead(t, l)
  PROVE  /\ FramesOf(u, n + 1) /\ Ahead(u, l) /\ Len(t) \in Nat /\ Len(u) >= Len(t)
         /\ \A i \in 1 .. Len(t) : u[i] = t[i]
PROOF
<1>1. FramesOf(u, n + 1)
  BY FrameBehind DEF Join
<1>2. PICK k, f : k = n + 1 /\ f = FrameCells(k)
  OBVIOUS
<1>3. k \in 1 .. MaxFrames /\ n \in Nat /\ k \in Nat /\ t \in Seq(Cells(n)) /\ Len(t) \in Nat
  BY <1>2, FramerAssumption, LenProperties DEF FramesOf
<1>4. Size(k) \in Nat
  BY <1>3, SizeIs
<1>5. f \in Seq(Cells(k)) /\ Len(f) = Size(k) /\ \A i \in 1 .. Size(k) : f[i] = CellAt(k, i)
  BY <1>2, <1>3, FrameIs
<1>6. t \in Seq(Cells(k))
  BY <1>2, <1>3, CellsGrow
<1>7. u = t \o f
  BY <1>2, Zenon DEF Join
<1>8. /\ Len(u) = Len(t) + Size(k)
      /\ \A i \in 1 .. Len(t) + Size(k) : u[i] = IF i <= Len(t) THEN t[i] ELSE f[i - Len(t)]
  BY <1>5, <1>6, <1>7, ConcatProperties
<1>9. PICK lt, lu : lt = Len(t) /\ lu = Len(u)
  OBVIOUS
<1>10. \A i \in 1 .. lu : u[i].of > l
  <2>1. /\ lt \in Nat /\ Size(k) \in Nat /\ lu = lt + Size(k)
        /\ \A i \in 1 .. lt + Size(k) : u[i] = IF i <= lt THEN t[i] ELSE f[i - lt]
        /\ \A i \in 1 .. lt : t[i].of > l
    BY <1>3, <1>4, <1>8, <1>9, Zenon DEF Ahead
  <2> TAKE i \in 1 .. lu
  <2>2. CASE i <= lt
    BY <2>1, <2>2
  <2>3. CASE ~(i <= lt)
    <3>1. i - lt \in 1 .. Size(k) /\ i \in 1 .. lt + Size(k)
      BY <2>1, <2>3
    <3>2. u[i] = CellAt(k, i - lt)
      <4>1. u[i] = f[i - lt]
        BY ONLY <2>1, <2>3, <3>1, SMT
      <4>2. f[i - lt] = CellAt(k, i - lt)
        BY <1>5, <3>1, Zenon
      <4> QED
        BY <4>1, <4>2, Zenon
    <3>3. u[i].of = n + 1
      BY <1>2, <3>2 DEF CellAt
    <3> QED
      BY <1>3, <3>3
  <2> QED
    BY <2>2, <2>3
<1> QED
  BY <1>1, <1>3, <1>4, <1>8, <1>9, <1>10 DEF Ahead

LEMMA ClientSendsStep ==
  ASSUME FramerInv, ClientSends
  PROVE  FramerInv' /\ Order!Send
PROOF
<1>1. /\ sent' = sent + 1 /\ ran' = ran /\ rpc' = rpc /\ rcv_buf' = rcv_buf
      /\ frame_len' = frame_len /\ arrived' = arrived /\ wire' = wire \o FrameCells(sent + 1)
      /\ sent \in 0 .. MaxFrames - 1 /\ sent + 1 \in 1 .. MaxFrames /\ sent \in Nat
  BY FramerAssumption DEF ClientSends, FramerInv, StreamTyped
<1>2. arrived \in Seq(Cells(sent + 1)) /\ wire \in Seq(Cells(sent + 1))
  BY <1>1, CellsGrow DEF FramerInv, StreamTyped
<1>3. FrameCells(sent + 1) \in Seq(Cells(sent + 1))
  BY <1>1, FrameIs
<1>4. ran \in Seq(1 .. sent + 1)
  <2>1. \A i \in 1 .. Len(ran) : ran[i] \in 1 .. sent + 1
    BY <1>1, ElementOfSeq DEF FramerInv, StreamTyped
  <2> QED
    BY <2>1, SeqDef, LenProperties DEF FramerInv, StreamTyped
<1>5. StreamTyped'
  <2>1. wire \o FrameCells(sent + 1) \in Seq(Cells(sent + 1))
    BY <1>2, <1>3, ConcatProperties
  <2>2. sent + 1 \in 0 .. MaxFrames
    BY <1>1
  <2> QED
    BY <1>1, <1>2, <1>4, <2>1, <2>2, Zenon DEF StreamTyped
<1>6. Stream' = Join(Stream, FrameCells(sent + 1))
  <2>1. PICK S, f : S = Cells(sent + 1) /\ f = FrameCells(sent + 1)
    OBVIOUS
  <2>2. arrived \in Seq(S) /\ wire \in Seq(S) /\ f \in Seq(S)
    BY <1>2, <1>3, <2>1
  <2>3. (arrived \o wire) \o f = arrived \o (wire \o f)
    BY ONLY <2>2, Regrouped, SMTT(30)
  <2> QED
    BY <1>1, <2>1, <2>3, Zenon DEF Stream, Join
<1>7. /\ FramesOf(Stream', sent + 1) /\ Ahead(Stream', Order!Latest(ran))
      /\ Len(Stream) \in Nat /\ Len(Stream') >= Len(Stream)
      /\ \A i \in 1 .. Len(Stream) : Stream'[i] = Stream[i]
  <2>1. PICK l, u : l = Order!Latest(ran) /\ u = Stream'
    OBVIOUS
  <2>2. FramesOf(Stream, sent) /\ Ahead(Stream, l) /\ l <= sent /\ l \in Nat
    BY <2>1, RanIs DEF FramerInv
  <2>3. u = Join(Stream, FrameCells(sent + 1))
    BY <1>6, <2>1, Zenon
  <2>4. /\ FramesOf(u, sent + 1) /\ Ahead(u, l) /\ Len(Stream) \in Nat /\ Len(u) >= Len(Stream)
        /\ \A i \in 1 .. Len(Stream) : u[i] = Stream[i]
    BY <1>1, <2>2, <2>3, Added
  <2> QED
    BY <2>1, <2>4, Zenon
<1>8. ASSUME NEW k \in 1 .. sent, InBody(Stream, k)
      PROVE  InBody(Stream, k)'
  BY <1>1, <1>7, <1>8 DEF InBody
<1>9. ASSUME NEW k \in 1 .. sent, InHandle(Stream, k)
      PROVE  InHandle(Stream, k)'
  <2>1. Ahead(Stream', k)
    <3>1. PICK u : u = Stream'
      OBVIOUS
    <3>2. FramesOf(Stream, sent) /\ Ahead(Stream, k) /\ k <= sent /\ k \in Nat
      BY <1>1, <1>9 DEF FramerInv, InHandle
    <3>3. u = Join(Stream, FrameCells(sent + 1))
      BY <1>6, <3>1, Zenon
    <3>4. Ahead(u, k)
      BY <1>1, <3>2, <3>3, Added
    <3> QED
      BY <3>1, <3>4, Zenon
  <2> QED
    BY <1>1, <1>9, <2>1, Zenon DEF InHandle
<1>10. \A k \in 1 .. sent : k \in 1 .. sent + 1
  BY <1>1
<1>11. Order!Send
  BY <1>1, Zenon DEF Order!Send
<1> QED
  BY <1>1, <1>5, <1>7, <1>8, <1>9, <1>10, <1>11, Zenon DEF FramerInv

\* What any receive does to the buffer: it grows by what is put behind its end.
Puts(at, n) ==
  /\ DOMAIN rcv_buf' = DOMAIN rcv_buf \cup (at + 1 .. at + n)
  /\ \A i \in at + 1 .. at + n : rcv_buf'[i] = arrived[i - at]
  /\ \A i \in DOMAIN rcv_buf : i \notin at + 1 .. at + n => rcv_buf'[i] = rcv_buf[i]

LEMMA RecvPuts ==
  ASSUME NEW at \in Nat, NEW n \in Nat, Recv(at, n)
  PROVE  Puts(at, n)
PROOF
<1>1. PICK D, R : D = DOMAIN rcv_buf \cup R /\ R = at + 1 .. at + n
  OBVIOUS
<1>2. rcv_buf' = [i \in D |-> IF i \in R THEN arrived[i - at] ELSE rcv_buf[i]]
  BY <1>1, Zenon DEF Recv
<1>3. \A i \in R : i \in D /\ rcv_buf'[i] = arrived[i - at]
  BY <1>1, <1>2, Zenon
<1>4. \A i \in DOMAIN rcv_buf : i \in D /\ (i \notin R => rcv_buf'[i] = rcv_buf[i])
  BY <1>1, <1>2, Zenon
<1>5. DOMAIN rcv_buf' = D
  BY <1>2, Zenon
<1> QED
  BY <1>1, <1>3, <1>4, <1>5, Zenon DEF Puts

\* What any receive does to the stream.
LEMMA RecvStep ==
  ASSUME FramerInv, arrived # <<>>, NEW ask \in Nat \ {0}, NEW at \in Nat,
         Recv(at, Taken(ask)), UNCHANGED <<sent, wire, ran>>
  PROVE  /\ StreamTyped' /\ FramesOf(Stream', sent) /\ Ahead(Stream', Order!Latest(ran))
         /\ Taken(ask) \in 1 .. Len(Stream) /\ Taken(ask) <= ask
         /\ Len(Stream') = Len(Stream) - Taken(ask)
         /\ \A i \in 1 .. Len(Stream') : Stream'[i] = Stream[i + Taken(ask)]
         /\ \A i \in 1 .. Taken(ask) : arrived[i] = Stream[i]
PROOF
<1>1. /\ sent \in 0 .. MaxFrames /\ arrived \in Seq(Cells(sent)) /\ wire \in Seq(Cells(sent))
      /\ FramesOf(Stream, sent) /\ Ahead(Stream, Order!Latest(ran))
  BY DEF FramerInv, StreamTyped
<1>2. Len(arrived) \in Nat /\ Len(arrived) > 0
  BY <1>1, EmptySeq, LenProperties
<1>3. PICK m : m = Taken(ask)
  OBVIOUS
<1>4. m \in 1 .. Len(arrived) /\ m <= ask /\ m \in 0 .. Len(arrived)
  BY <1>2, <1>3 DEF Taken
<1>5. arrived' = Rest(arrived, m)
  BY <1>3, Zenon DEF Recv, Rest
<1>6. PICK l, t, b, u : /\ l = Order!Latest(ran) /\ t = Stream
                        /\ b = arrived' /\ u = Stream'
  OBVIOUS
<1>7. t = Join(arrived, wire) /\ u = Join(b, wire) /\ b = Rest(arrived, m)
  BY <1>5, <1>6, Zenon DEF Stream
<1>8. FramesOf(t, sent) /\ Ahead(t, l)
  BY <1>1, <1>6, Zenon
<1>9. /\ b \in Seq(Cells(sent)) /\ FramesOf(u, sent) /\ Ahead(u, l)
      /\ m \in 0 .. Len(t) /\ Len(u) = Len(t) - m
      /\ \A i \in 1 .. Len(u) : u[i] = t[i + m]
      /\ \A i \in 1 .. m : arrived[i] = t[i]
  BY <1>1, <1>4, <1>7, <1>8, Dropped
<1>10. m \in 1 .. Len(t)
  BY <1>2, <1>4, <1>9
<1>11. StreamTyped'
  BY <1>6, <1>9, Zenon DEF StreamTyped, FramerInv
<1> QED
  BY <1>3, <1>4, <1>6, <1>9, <1>10, <1>11, Zenon

LEMMA RecvHeaderStep ==
  ASSUME FramerInv, RecvHeader
  PROVE  FramerInv' /\ UNCHANGED <<sent, ran>>
PROOF
<1>1. /\ sent' = sent /\ ran' = ran /\ wire' = wire /\ rpc = "header" /\ arrived # <<>>
      /\ Recv(0, Taken(2)) /\ HdrSize = 2 /\ AskHeader = 2
  BY DEF RecvHeader, AskHeader, HdrSize
<1>2. /\ StreamTyped' /\ FramesOf(Stream', sent) /\ Ahead(Stream', Order!Latest(ran))
      /\ Taken(2) \in 1 .. Len(Stream) /\ Taken(2) <= 2
      /\ Len(Stream') = Len(Stream) - Taken(2)
      /\ \A i \in 1 .. Len(Stream') : Stream'[i] = Stream[i + Taken(2)]
      /\ \A i \in 1 .. Taken(2) : arrived[i] = Stream[i]
  BY <1>1, RecvStep
<1>3. CASE rpc' = rpc
  BY <1>1, <1>2, <1>3 DEF FramerInv
<1>4. CASE rpc' # rpc
  <2>1. /\ rpc' = "body" /\ Taken(2) = 2 /\ Sane(PackSize(arrived[1]) - 2)
        /\ frame_len' = PackSize(arrived[1]) - 2
    BY <1>1, <1>4 DEF RecvHeader
  <2>2. arrived[1] = Stream[1] /\ arrived[2] = Stream[2] /\ Len(Stream) \in Nat
    BY <1>1, <1>2, <2>1, LenProperties DEF FramerInv, FramesOf
  <2>3. Stream[1].at = 1
    BY <2>1, <2>2 DEF PackSize, Sane
  <2>4. PICK k, lt, t : k = Stream[1].of /\ lt = Len(Stream) /\ t = Stream
    OBVIOUS
  <2>5. /\ k \in 1 .. sent /\ k \in 1 .. MaxFrames /\ lt \in Nat
        /\ 1 + Size(k) - 1 <= lt
        /\ \A d \in 0 .. Size(k) - 1 : t[1 + d] = CellAt(k, 1 + d)
    <3>1. FramesOf(t, sent) /\ lt = Len(t) /\ lt > 0 /\ t[1].of = k /\ t[1].at = 1
      BY <1>2, <2>2, <2>3, <2>4 DEF FramerInv
    <3>2. sent \in 0 .. MaxFrames
      BY DEF FramerInv, StreamTyped
    <3> QED
      BY <3>1, <3>2, HeadFrame
  <2>6. Size(k) \in Nat /\ Size(k) = 2 + Body[k] /\ Body[k] \in Nat /\ Body[k] > 0
        /\ Size(k) <= BufSize /\ BufSize \in Nat
    BY <2>5, SizeIs
  <2>7. t[1] = CellAt(k, 1) /\ t[2] = CellAt(k, 2) /\ t[3] = CellAt(k, 3) /\ lt >= 3
    BY <2>5, <2>6
  <2>8. /\ rcv_buf'[1] = CellAt(k, 1) /\ rcv_buf'[2] = CellAt(k, 2)
        /\ 1 \in DOMAIN rcv_buf' /\ 2 \in DOMAIN rcv_buf'
    <3>1. Puts(0, 2)
      BY <1>1, <2>1, RecvPuts
    <3>2. /\ rcv_buf'[1] = arrived[1] /\ rcv_buf'[2] = arrived[2]
          /\ 1 \in DOMAIN rcv_buf' /\ 2 \in DOMAIN rcv_buf'
      BY <3>1 DEF Puts
    <3>3. arrived[1] = CellAt(k, 1) /\ arrived[2] = CellAt(k, 2)
      BY <2>2, <2>4, <2>7, Zenon
    <3> QED
      BY <3>2, <3>3, Zenon
  <2>9. frame_len' = Body[k]
    BY <1>1, <2>1, <2>2, <2>3, <2>4, <2>6 DEF PackSize
  <2>10. Len(Stream') > 0 /\ Stream'[1] = CellAt(k, 3)
    <3>1. Len(Stream') = lt - 2
      BY <1>2, <2>1, <2>4
    <3>2. 1 \in 1 .. Len(Stream')
      BY <2>5, <2>7, <3>1
    <3>3. Stream'[1] = Stream[1 + 2]
      BY <1>2, <2>1, <3>2
    <3> QED
      BY <2>4, <2>7, <3>2, <3>3
  <2>11. InBody(Stream, k)'
    BY <2>8, <2>9, <2>10 DEF InBody
  <2>12. k > Order!Latest(ran)
    BY <1>2, <2>4 DEF FramerInv, Ahead
  <2> QED
    BY <1>1, <1>2, <2>1, <2>5, <2>11, <2>12 DEF FramerInv
<1> QED
  BY <1>1, <1>3, <1>4

LEMMA RecvBodyStep ==
  ASSUME FramerInv, RecvBody
  PROVE  FramerInv' /\ UNCHANGED <<sent, ran>>
PROOF
<1>1. /\ sent' = sent /\ ran' = ran /\ wire' = wire /\ rpc = "body" /\ arrived # <<>>
      /\ Recv(2, Taken(frame_len)) /\ frame_len' = frame_len
      /\ rpc' = IF Complete(Taken(frame_len)) THEN "handle" ELSE "header"
  BY DEF RecvBody, HdrSize
<1>2. PICK k \in 1 .. sent : k > Order!Latest(ran) /\ InBody(Stream, k)
  BY <1>1 DEF FramerInv
<1>3. k \in 1 .. MaxFrames
  <2>1. sent \in Nat /\ sent <= MaxFrames
    BY RanIs DEF FramerInv
  <2> QED
    BY <1>2, <2>1, FramerAssumption
<1>4. Size(k) \in Nat /\ Size(k) = 2 + Body[k] /\ Body[k] \in Nat /\ Body[k] > 0
      /\ Size(k) <= BufSize /\ BufSize \in Nat
  BY <1>3, SizeIs
<1>5. frame_len = Body[k] /\ frame_len \in Nat \ {0}
  BY <1>2, <1>4 DEF InBody
<1>6. PICK n : n = Taken(frame_len)
  OBVIOUS
<1>7. /\ StreamTyped' /\ FramesOf(Stream', sent) /\ Ahead(Stream', Order!Latest(ran))
      /\ n \in 1 .. Len(Stream) /\ n <= frame_len
      /\ Len(Stream') = Len(Stream) - n
      /\ \A i \in 1 .. Len(Stream') : Stream'[i] = Stream[i + n]
      /\ \A i \in 1 .. n : arrived[i] = Stream[i]
  BY <1>1, <1>5, <1>6, RecvStep
<1>8. CASE ~Complete(n)
  BY <1>1, <1>6, <1>7, <1>8 DEF FramerInv
<1>9. CASE Complete(n)
  <2>1. rpc' = "handle" /\ n = Body[k]
    BY <1>1, <1>5, <1>6, <1>9 DEF Complete
  <2>2. PICK lt, t, u, lu : lt = Len(Stream) /\ t = Stream /\ u = Stream' /\ lu = Len(Stream')
    OBVIOUS
  <2>3. /\ lt \in Nat
        /\ 1 + Size(k) - 3 <= lt
        /\ \A d \in 0 .. Size(k) - 3 : t[1 + d] = CellAt(k, 3 + d)
        /\ \A j \in 1 .. lt : j > 1 + Size(k) - 3 => t[j].of > k
    <3>1. FramesOf(t, sent) /\ lt = Len(t) /\ lt > 0 /\ t[1] = CellAt(k, 3)
      BY <1>2, <2>2 DEF FramerInv, InBody
    <3>2. t[1].of = k /\ t[1].at = 3
      BY <3>1 DEF CellAt
    <3>3. sent \in 0 .. MaxFrames
      BY DEF FramerInv, StreamTyped
    <3> QED
      BY <3>1, <3>2, <3>3, HeadFrame
  <2>4. ASSUME NEW i \in 1 .. Size(k)
        PROVE  rcv_buf'[i] = CellAt(k, i)
    <3>1. Puts(2, n) /\ n \in Nat
      BY <1>1, <1>4, <1>6, <2>1, RecvPuts
    <3>2. 1 \in DOMAIN rcv_buf /\ 2 \in DOMAIN rcv_buf
      BY <1>2 DEF InBody
    <3>3. CASE i <= 2
      <4>1. i \notin 2 + 1 .. 2 + n /\ (i = 1 \/ i = 2)
        BY <1>4, <3>1, <3>3
      <4>2. rcv_buf'[i] = rcv_buf[i]
        BY <3>1, <3>2, <4>1, Zenon DEF Puts
      <4> QED
        BY <1>2, <4>1, <4>2 DEF InBody
    <3>4. CASE i > 2
      <4>1. i \in 2 + 1 .. 2 + n /\ i - 2 \in 1 .. n /\ i - 3 \in 0 .. Size(k) - 3
            /\ 1 + (i - 3) = i - 2 /\ 3 + (i - 3) = i
        BY <1>4, <2>1, <3>4
      <4>2. rcv_buf'[i] = arrived[i - 2]
        BY <3>1, <4>1, Zenon DEF Puts
      <4>3. arrived[i - 2] = t[i - 2]
        BY <1>7, <2>2, <4>1, Zenon
      <4>4. t[i - 2] = CellAt(k, i)
        BY <2>3, <4>1
      <4> QED
        BY <4>2, <4>3, <4>4, Zenon
    <3> QED
      BY <3>3, <3>4
  <2>5. Ahead(u, k)
    <3>1. lu = lt - n /\ \A i \in 1 .. lu : u[i] = t[i + n]
      BY <1>7, <2>2, Zenon
    <3>2. ASSUME NEW i \in 1 .. lu
          PROVE  u[i].of > k
      <4>1. i + n \in 1 .. lt /\ i + n > 1 + Size(k) - 3
        BY <1>4, <2>1, <2>3, <3>1
      <4>2. t[i + n].of > k
        BY <2>3, <4>1
      <4> QED
        BY <3>1, <4>2, Zenon
    <3> QED
      BY <2>2, <3>2, Zenon DEF Ahead
  <2>6. InHandle(Stream, k)'
    BY <1>1, <1>5, <2>2, <2>4, <2>5, Zenon DEF InHandle
  <2> QED
    BY <1>1, <1>2, <1>7, <2>1, <2>6 DEF FramerInv
<1> QED
  BY <1>1, <1>8, <1>9

LEMMA BodyTimeoutStep ==
  ASSUME FramerInv, BodyTimeout
  PROVE  FramerInv' /\ UNCHANGED <<sent, ran>>
PROOF
<1>1. /\ UNCHANGED <<sent, wire, arrived, ran>> /\ rpc' = "header"
  BY DEF BodyTimeout, stream
<1>2. StreamTyped' /\ Stream' = Stream
  BY <1>1 DEF FramerInv, StreamTyped, Stream
<1> QED
  BY <1>1, <1>2 DEF FramerInv

\* The frame that is handled is in the buffer from its header to its end.
LEMMA HandledIs ==
  ASSUME FramerInv, rpc = "handle"
  PROVE  \E k \in 1 .. sent :
           /\ k > Order!Latest(ran) /\ InHandle(Stream, k)
           /\ Command(rcv_buf, frame_len) = k
           /\ rcv_buf[1] = CellAt(k, 1) /\ rcv_buf[HdrSize].of = k
PROOF
<1>1. PICK k \in 1 .. sent : k > Order!Latest(ran) /\ InHandle(Stream, k)
  BY DEF FramerInv
<1>2. k \in 1 .. MaxFrames
  <2>1. sent \in Nat /\ sent <= MaxFrames
    BY RanIs DEF FramerInv
  <2> QED
    BY <2>1, FramerAssumption
<1>3. Size(k) \in Nat /\ Size(k) >= 2
  BY <1>2, SizeIs
<1>4. \A i \in 1 .. Size(k) : rcv_buf[i] = CellAt(k, i)
  BY <1>1 DEF InHandle
<1>5. rcv_buf[1] = CellAt(k, 1) /\ rcv_buf[2] = CellAt(k, 2)
  <2>1. 1 \in 1 .. Size(k) /\ 2 \in 1 .. Size(k)
    BY <1>3
  <2> QED
    BY <1>4, <2>1, Zenon
<1>6. rcv_buf[1].of = k /\ rcv_buf[2].of = k
  BY <1>5 DEF CellAt
<1>7. HdrSize + frame_len = Size(k)
  BY <1>1 DEF InHandle, Size
<1>8. Command(rcv_buf, frame_len) = k
  BY <1>4, <1>6, <1>7, Zenon DEF Command, CellAt
<1> QED
  BY <1>1, <1>5, <1>6, <1>8 DEF HdrSize

\* What is carried out is the next command.
LEMMA HandleStep ==
  ASSUME FramerInv, Handle
  PROVE  FramerInv' /\ (Order!Execute \/ UNCHANGED <<sent, ran>>)
PROOF
<1>1. /\ UNCHANGED <<sent, wire, arrived>> /\ rpc = "handle" /\ rpc' = "header"
      /\ Stream' = Stream
  BY DEF Handle, stream, Stream
<1>2. PICK k \in 1 .. sent : /\ k > Order!Latest(ran) /\ InHandle(Stream, k)
                             /\ Command(rcv_buf, frame_len) = k
  BY <1>1, HandledIs
<1>3. sent \in Nat
  BY RanIs DEF FramerInv
<1>4. CASE ran' = ran
  BY <1>1, <1>4 DEF FramerInv, StreamTyped
<1>5. CASE ran' # ran
  <2>1. ran' = Append(ran, k)
    BY <1>2, <1>5 DEF Handle
  <2>2. ran' \in Seq(1 .. sent) /\ Order!Latest(ran') = k
    BY <1>2, <1>3, <2>1, LatestIs DEF FramerInv, StreamTyped
  <2>3. Ahead(Stream, k)
    BY <1>2 DEF InHandle
  <2>4. Order!Execute
    BY <1>1, <1>2, <2>1 DEF Order!Execute
  <2> QED
    BY <1>1, <2>2, <2>3, <2>4 DEF FramerInv, StreamTyped
<1> QED
  BY <1>4, <1>5

LEMMA FramerStep ==
  ASSUME FramerInv, [FramerNext]_framerVars
  PROVE  FramerInv' /\ [Order!Next]_<<sent, ran>>
PROOF
<1>1. CASE ClientSends
  BY <1>1, ClientSendsStep DEF Order!Next
<1>2. ASSUME NEW n \in 1 .. Len(wire), Arrive(n)
      PROVE  FramerInv' /\ [Order!Next]_<<sent, ran>>
  BY <1>2, ArriveStep
<1>3. CASE RecvHeader
  BY <1>3, RecvHeaderStep
<1>4. CASE RecvBody
  BY <1>4, RecvBodyStep
<1>5. CASE BodyTimeout
  BY <1>5, BodyTimeoutStep
<1>6. CASE Handle
  BY <1>6, HandleStep DEF Order!Next
<1>7. CASE UNCHANGED framerVars
  <2>1. /\ sent' = sent /\ ran' = ran /\ wire' = wire /\ arrived' = arrived
        /\ rpc' = rpc /\ rcv_buf' = rcv_buf /\ frame_len' = frame_len
    BY <1>7 DEF framerVars, stream
  <2>2. Stream' = Stream
    BY <2>1, Zenon DEF Stream
  <2> QED
    BY <2>1, <2>2, Zenon DEF FramerInv, StreamTyped, InBody, InHandle
<1> QED
  BY <1>1, <1>2, <1>3, <1>4, <1>5, <1>6, <1>7 DEF FramerNext

\* recv_from_socket and usr_net_cmd_handler: however the network cuts the bytes
\* of a client, and whatever the receiver drops of them, the commands carried out
\* are whole, in the order they were sent, and none is carried out twice.
THEOREM FramesAreCommands == FramerSpec => CommandsInOrder
PROOF
<1>1. FramerInit => FramerInv /\ Order!Init
  BY FramerStarts
<1>2. FramerInv /\ [FramerNext]_framerVars => FramerInv' /\ [Order!Next]_<<sent, ran>>
  BY FramerStep
<1> QED
  BY <1>1, <1>2, PTL DEF FramerSpec, CommandsInOrder, Order!Spec

(***************************************************************************)
(* No command is lost while only whole frames arrive at once.              *)
(***************************************************************************)
\* A cell behind the end of a frame begins the next one.
Contiguous(t) ==
  \A i \in 1 .. Len(t) - 1 : t[i].at = Size(t[i].of) => t[i + 1].at = 1

\* What has arrived ends with a frame, and the receiver looks for a header where one is.
EndsWhole == Len(arrived) > 0 => IsTail(arrived[Len(arrived)])
HeadWhole == rpc # "body" /\ Len(Stream) > 0 => Stream[1].at = 1
BodyThere == rpc = "body" => Len(arrived) > 0

\* WholeFramesHandled's two cases, by positions.
Awaited(k) ==
  \/ \E i \in 1 .. Len(ran) : ran[i] = k
  \/ \E i \in 1 .. Len(Stream) : Stream[i] = CellAt(k, 1)
  \/ rpc # "header" /\ rcv_buf[1] = CellAt(k, 1)

WholeInv ==
  /\ Contiguous(Stream)
  /\ whole => /\ EndsWhole /\ HeadWhole /\ BodyThere
              /\ \A k \in Known : k > quiet /\ k <= sent => Awaited(k)

\* A frame that is added begins behind the end of one.
LEMMA ContiguousBehind ==
  ASSUME NEW n \in 0 .. MaxFrames - 1, NEW t \in Seq(Cells(n)), Contiguous(t),
         NEW u, u = Join(t, FrameCells(n + 1))
  PROVE  Contiguous(u)
PROOF
<1>1. PICK k, lt, lu, s : k = n + 1 /\ lt = Len(t) /\ lu = Len(u) /\ s = Size(k)
  OBVIOUS
<1>2. /\ lt \in Nat /\ s \in Nat /\ lu = lt + s
      /\ \A i \in 1 .. lt : u[i] = t[i]
      /\ \A i \in 1 .. s : u[lt + i] = CellAt(k, i)
  BY <1>1, AddedCells
<1>3. ASSUME NEW i \in 1 .. lu - 1, u[i].at = Size(u[i].of)
      PROVE  u[i + 1].at = 1
  <2>1. CASE i < lt
    <3>1. i \in 1 .. lt /\ i + 1 \in 1 .. lt /\ i \in 1 .. lt - 1
      BY ONLY <1>2, <2>1, i \in 1 .. lu - 1, SMT
    <3>2. u[i] = t[i] /\ u[i + 1] = t[i + 1]
      BY <1>2, <3>1, Zenon
    <3> QED
      BY <1>1, <1>3, <3>1, <3>2, Zenon DEF Contiguous
  <2>2. CASE i = lt
    <3>1. 1 \in 1 .. s
      BY ONLY <1>2, <2>2, i \in 1 .. lu - 1, SMT
    <3>2. u[i + 1] = CellAt(k, 1)
      BY <1>2, <2>2, <3>1, Zenon
    <3> QED
      BY <3>2 DEF CellAt
  <2>3. CASE i > lt
    <3>1. i - lt \in 1 .. s /\ lt + (i - lt) = i /\ i - lt < s /\ i - lt # s
      BY ONLY <1>2, <2>3, i \in 1 .. lu - 1, SMT
    <3>2. u[i] = CellAt(k, i - lt)
      <4>1. u[lt + (i - lt)] = CellAt(k, i - lt)
        BY <1>2, <3>1, Zenon
      <4> QED
        BY <3>1, <4>1, Zenon
    <3>3. u[i].of = k /\ u[i].at = i - lt
      BY <3>2 DEF CellAt
    <3>4. i - lt = s
      BY <1>1, <1>3, <3>3, Zenon
    <3> QED
      BY <3>1, <3>4, Zenon
  <2> QED
    BY <1>2, <2>1, <2>2, <2>3
<1> QED
  BY <1>1, <1>3, Zenon DEF Contiguous

\* What is left of the stream is as contiguous as it was.
LEMMA ContiguousLeft ==
  ASSUME NEW t, Contiguous(t), Len(t) \in Nat, NEW m \in 0 .. Len(t),
         NEW u, Len(u) = Len(t) - m, \A i \in 1 .. Len(u) : u[i] = t[i + m]
  PROVE  Contiguous(u)
PROOF
<1>1. PICK lt, lu : lt = Len(t) /\ lu = Len(u)
  OBVIOUS
<1>2. lt \in Nat /\ m \in 0 .. lt /\ lu = lt - m /\ \A i \in 1 .. lu : u[i] = t[i + m]
  BY <1>1
<1>3. ASSUME NEW i \in 1 .. lu - 1, u[i].at = Size(u[i].of)
      PROVE  u[i + 1].at = 1
  <2>1. i \in 1 .. lu /\ i + 1 \in 1 .. lu /\ i + m \in 1 .. lt - 1 /\ (i + 1) + m = (i + m) + 1
    BY ONLY <1>2, i \in 1 .. lu - 1, SMT
  <2>2. u[i] = t[i + m] /\ u[i + 1] = t[(i + m) + 1]
    <3>1. u[i + 1] = t[(i + 1) + m]
      BY <1>2, <2>1, Zenon
    <3> QED
      BY <1>2, <2>1, <3>1, Zenon
  <2>3. t[i + m].at = Size(t[i + m].of)
    BY <1>3, <2>2, Zenon
  <2> QED
    BY <1>1, <2>1, <2>2, <2>3, Zenon DEF Contiguous
<1> QED
  BY <1>1, <1>3, Zenon DEF Contiguous

\* When what has arrived ends with a frame, the one at its head is there to the end.
LEMMA Reaches ==
  ASSUME FramerInv, EndsWhole, NEW la, la = Len(arrived), la > 0,
         NEW k, NEW e, Stream[1].of = k, Stream[1].at = e
  PROVE  Size(k) - e + 1 <= la
PROOF
<1>1. /\ sent \in 0 .. MaxFrames /\ arrived \in Seq(Cells(sent)) /\ wire \in Seq(Cells(sent))
      /\ FramesOf(Stream, sent)
  BY DEF FramerInv, StreamTyped
<1>2. la \in Nat /\ la \in 0 .. Len(arrived)
  BY <1>1, LenProperties
<1>3. PICK t, lt, S : t = Stream /\ lt = Len(Stream) /\ S = Cells(sent)
  OBVIOUS
<1>4. la \in 0 .. lt /\ \A i \in 1 .. la : arrived[i] = t[i]
  <2>1. arrived \in Seq(S) /\ wire \in Seq(S)
    BY <1>1, <1>3
  <2>2. Leaves(S, arrived, wire, la)
    BY ONLY <1>2, <2>1, Received, Zenon
  <2>3. Join(arrived, wire) = t
    BY <1>3, Zenon DEF Stream
  <2> QED
    BY ONLY <1>3, <2>2, <2>3, Zenon DEF Leaves
<1>5. /\ k \in 1 .. MaxFrames /\ lt \in Nat /\ e \in 1 .. Size(k)
      /\ \A d \in 0 .. Size(k) - e : t[1 + d] = CellAt(k, e + d)
  <2>1. FramesOf(t, sent) /\ lt = Len(t) /\ t[1].of = k /\ t[1].at = e
    BY <1>1, <1>3
  <2>2. lt > 0
    <3>1. lt \in Nat
      BY <2>1, LenProperties DEF FramesOf
    <3> QED
      BY <1>2, <1>4, <3>1
  <2> QED
    BY <1>1, <2>1, <2>2, HeadFrame
<1>6. Size(k) \in Nat /\ Size(k) = HdrSize + Body[k]
  BY <1>5, SizeIs DEF Size
<1>7. ASSUME ~(Size(k) - e + 1 <= la) PROVE FALSE
  <2>1. PICK s : s = Size(k)
    OBVIOUS
  <2>2. s \in Nat /\ e \in 1 .. s /\ la \in Nat /\ la > 0 /\ ~(s - e + 1 <= la)
    BY <1>2, <1>5, <1>6, <1>7, <2>1
  <2>3. la - 1 \in 0 .. s - e /\ 1 + (la - 1) = la /\ e + (la - 1) # s /\ la \in 1 .. la
    BY ONLY <2>2, SMT
  <2>4. t[la] = CellAt(k, e + (la - 1))
    <3>1. t[1 + (la - 1)] = CellAt(k, e + (la - 1))
      BY <1>5, <2>1, <2>3, Zenon
    <3> QED
      BY <2>3, <3>1, Zenon
  <2>5. arrived[la] = CellAt(k, e + (la - 1))
    BY <1>4, <2>3, <2>4, Zenon
  <2>6. IsTail(arrived[la])
    BY Zenon DEF EndsWhole
  <2>7. arrived[la].of = k /\ arrived[la].at = e + (la - 1)
    BY <2>5 DEF CellAt
  <2>8. e + (la - 1) = s
    BY <1>6, <2>1, <2>6, <2>7, Zenon DEF IsTail
  <2> QED
    BY <2>3, <2>8, Zenon
<1> QED
  BY <1>7

\* A receive of no more than the frame at the head gets what it asks for.
LEMMA WholeRecv ==
  ASSUME FramerInv, EndsWhole, arrived # <<>>, NEW ask \in Nat \ {0}, NEW at \in Nat,
         Recv(at, Taken(ask)), NEW k, NEW e, Stream[1].of = k, Stream[1].at = e,
         NEW left \in Nat, left = Size(k) - e + 1, ask <= left
  PROVE  Taken(ask) = ask /\ EndsWhole' /\ (ask < left => Len(arrived') > 0)
PROOF
<1>1. arrived \in Seq(Cells(sent))
  BY DEF FramerInv, StreamTyped
<1>2. PICK la, b : la = Len(arrived) /\ b = arrived'
  OBVIOUS
<1>3. la \in Nat /\ la > 0
  BY <1>1, <1>2, EmptySeq, LenProperties
<1>4. left <= la
  BY <1>2, <1>3, Reaches
<1>5. ask \in 1 .. la /\ Taken(ask) = ask
  BY <1>2, <1>3, <1>4 DEF Taken
<1>6. Len(b) = la - ask /\ \A i \in 1 .. la - ask : b[i] = arrived[ask + i]
  <2>1. b = SubSeq(arrived, ask + 1, la)
    BY <1>2, <1>5, Zenon DEF Recv
  <2>2. \A i \in ask + 1 .. la : arrived[i] \in Cells(sent)
    BY <1>1, <1>2, <1>3, <1>5, ElementOfSeq
  <2>3. /\ Len(b) = IF ask + 1 <= la THEN la - (ask + 1) + 1 ELSE 0
        /\ \A i \in 1 .. la - (ask + 1) + 1 : b[i] = arrived[(ask + 1) + i - 1]
    BY <1>3, <1>5, <2>1, <2>2, SubSeqProperties
  <2> QED
    BY <1>3, <1>5, <2>3
<1>7. EndsWhole'
  <2>1. CASE Len(b) > 0
    <3>1. la - ask \in 1 .. la - ask /\ ask + (la - ask) = la
      BY <1>3, <1>5, <1>6, <2>1
    <3>2. b[Len(b)] = arrived[la]
      BY <1>6, <3>1, Zenon
    <3>3. IsTail(arrived[la])
      BY <1>2, <1>3, Zenon DEF EndsWhole
    <3>4. IsTail(arrived'[Len(arrived')])
      BY <1>2, <3>2, <3>3, Zenon
    <3> QED
      BY <3>4, Zenon DEF EndsWhole
  <2>2. CASE ~(Len(b) > 0)
    BY <1>2, <2>2, Zenon DEF EndsWhole
  <2> QED
    BY <2>1, <2>2, Zenon
<1>8. ask < left => Len(b) > 0
  BY <1>3, <1>4, <1>5, <1>6
<1> QED
  BY <1>2, <1>5, <1>7, <1>8, Zenon

\* The header of a frame that is there as a whole is received.
LEMMA WholeHeader ==
  ASSUME FramerInv, WholeInv, RecvHeader
  PROVE  WholeInv'
PROOF
<1>1. /\ sent' = sent /\ ran' = ran /\ wire' = wire /\ quiet' = quiet /\ whole' = whole
      /\ rpc = "header" /\ arrived # <<>>
      /\ Recv(0, Taken(2)) /\ HdrSize = 2 /\ AskHeader = 2
  BY DEF RecvHeader, AskHeader, HdrSize
<1>2. PICK t, u, lt, lu, n : /\ t = Stream /\ u = Stream' /\ lt = Len(Stream) /\ lu = Len(Stream')
                             /\ n = Taken(2)
  OBVIOUS
<1>3. /\ n \in 1 .. lt /\ lu = lt - n
      /\ \A i \in 1 .. lu : u[i] = t[i + n]
      /\ \A i \in 1 .. n : arrived[i] = t[i]
  BY <1>1, <1>2, RecvStep
<1>4. FramesOf(t, sent) /\ sent \in 0 .. MaxFrames /\ lt \in Nat
  BY <1>2, LenProperties DEF FramerInv, StreamTyped, FramesOf
<1>5. Contiguous(Stream')
  <2>1. Contiguous(t) /\ Len(t) \in Nat /\ n \in 0 .. Len(t) /\ Len(u) = Len(t) - n
        /\ \A i \in 1 .. Len(u) : u[i] = t[i + n]
    BY <1>2, <1>3, <1>4 DEF WholeInv
  <2> QED
    BY <1>2, <2>1, ContiguousLeft, Zenon
<1>6. ASSUME whole
      PROVE  EndsWhole' /\ HeadWhole' /\ BodyThere'
             /\ \A k \in Known : k > quiet /\ k <= sent => Awaited(k)'
  <2>1. EndsWhole /\ t[1].at = 1 /\ lt > 0
        /\ \A k \in Known : k > quiet /\ k <= sent => Awaited(k)
    BY <1>1, <1>2, <1>3, <1>4, <1>6 DEF WholeInv, HeadWhole
  <2>2. PICK k : k = t[1].of
    OBVIOUS
  <2>3. /\ k \in 1 .. MaxFrames /\ 1 + Size(k) - 1 <= lt
        /\ \A d \in 0 .. Size(k) - 1 : t[1 + d] = CellAt(k, 1 + d)
    BY <1>2, <1>4, <2>1, <2>2, HeadFrame
  <2>4. Size(k) \in Nat /\ Size(k) = 2 + Body[k] /\ Body[k] \in Nat /\ Body[k] > 0
        /\ Size(k) <= BufSize /\ BufSize \in Nat
    BY <2>3, SizeIs
  <2>5. n = 2 /\ EndsWhole' /\ Len(arrived') > 0
    <3>1. Size(k) = Size(k) - 1 + 1 /\ 2 <= Size(k) /\ 2 < Size(k) /\ 2 \in Nat \ {0} /\ 0 \in Nat
      BY <2>4
    <3>2. Stream[1].of = k /\ Stream[1].at = 1
      BY <1>2, <2>1, <2>2, Zenon
    <3> QED
      BY <1>1, <1>2, <2>1, <2>4, <3>1, <3>2, WholeRecv
  <2>6. t[1] = CellAt(k, 1) /\ t[2] = CellAt(k, 2) /\ lt >= 3
    <3>1. 0 \in 0 .. Size(k) - 1 /\ 1 \in 0 .. Size(k) - 1 /\ 1 + 0 = 1 /\ 1 + 1 = 2
      BY <2>4
    <3>2. t[1 + 0] = CellAt(k, 1 + 0) /\ t[1 + 1] = CellAt(k, 1 + 1)
      BY <2>3, <3>1, Zenon
    <3>3. lt >= 3
      BY <1>4, <2>3, <2>4
    <3> QED
      BY <3>1, <3>2, <3>3, Zenon
  <2>7. arrived[1] = t[1]
    BY <1>3, <2>5
  <2>8. rpc' = "body"
    <3>1. PackSize(arrived[1]) - 2 = Body[k]
      BY <1>1, <2>4, <2>6, <2>7 DEF PackSize, CellAt
    <3>2. Sane(PackSize(arrived[1]) - HdrSize) /\ Taken(AskHeader) = AskHeader
      BY <1>1, <1>2, <2>4, <2>5, <3>1 DEF Sane
    <3> QED
      BY <3>2 DEF RecvHeader
  <2>9. rcv_buf'[1] = CellAt(k, 1)
    <3>1. Puts(0, 2)
      BY <1>1, <1>2, <2>5, RecvPuts
    <3>2. rcv_buf'[1] = arrived[1]
      BY <3>1 DEF Puts
    <3> QED
      BY <2>6, <2>7, <3>2, Zenon
  <2>10. ASSUME NEW j \in Known, j > quiet, j <= sent
         PROVE  Awaited(j)'
    <3>1. Awaited(j)
      BY <2>1, <2>10
    <3>2. CASE \E i \in 1 .. Len(ran) : ran[i] = j
      BY <1>1, <3>2, Zenon DEF Awaited
    <3>3. CASE \E i \in 1 .. Len(Stream) : Stream[i] = CellAt(j, 1)
      <4>1. PICK i \in 1 .. lt : t[i] = CellAt(j, 1)
        BY <1>2, <3>3, Zenon
      <4>2. CASE i = 1
        <5>1. rcv_buf'[1] = CellAt(j, 1)
          BY <2>6, <2>9, <4>1, <4>2, Zenon
        <5> QED
          BY <2>8, <5>1 DEF Awaited
      <4>3. CASE i = 2
        BY <2>6, <4>1, <4>3 DEF CellAt
      <4>4. CASE i # 1 /\ i # 2
        <5>1. i - 2 \in 1 .. lu /\ (i - 2) + 2 = i
          BY <1>3, <1>4, <2>5, <4>4
        <5>2. u[i - 2] = CellAt(j, 1)
          BY <1>3, <2>5, <4>1, <5>1, Zenon
        <5> QED
          BY <1>2, <5>1, <5>2, Zenon DEF Awaited
      <4> QED
        BY <4>2, <4>3, <4>4
    <3> QED
      BY <1>1, <3>1, <3>2, <3>3, Zenon DEF Awaited
  <2> QED
    BY <1>1, <2>5, <2>8, <2>10 DEF HeadWhole, BodyThere
<1> QED
  BY <1>1, <1>5, <1>6, Zenon DEF WholeInv

\* What is behind the header of a frame that is there as a whole is received.
LEMMA WholeBody ==
  ASSUME FramerInv, WholeInv, RecvBody
  PROVE  WholeInv'
PROOF
<1>1. /\ sent' = sent /\ ran' = ran /\ wire' = wire /\ quiet' = quiet /\ whole' = whole
      /\ rpc = "body" /\ arrived # <<>> /\ frame_len' = frame_len
      /\ Recv(2, Taken(frame_len)) /\ HdrSize = 2
      /\ rpc' = IF Complete(Taken(frame_len)) THEN "handle" ELSE "header"
  BY DEF RecvBody, HdrSize
<1>2. PICK k \in 1 .. sent : InBody(Stream, k)
  BY <1>1 DEF FramerInv
<1>3. PICK t, u, lt, lu, n : /\ t = Stream /\ u = Stream' /\ lt = Len(Stream) /\ lu = Len(Stream')
                             /\ n = Taken(frame_len)
  OBVIOUS
<1>4. FramesOf(t, sent) /\ sent \in 0 .. MaxFrames /\ lt \in Nat
  BY <1>3, LenProperties DEF FramerInv, StreamTyped, FramesOf
<1>5. k \in 1 .. MaxFrames
  BY <1>4, FramerAssumption
<1>6. Size(k) \in Nat /\ Size(k) = 2 + Body[k] /\ Body[k] \in Nat /\ Body[k] > 0
      /\ Size(k) <= BufSize /\ BufSize \in Nat
  BY <1>5, SizeIs
<1>7. /\ frame_len = Body[k] /\ frame_len \in Nat \ {0}
      /\ rcv_buf[1] = CellAt(k, 1) /\ t[1] = CellAt(k, 3) /\ lt > 0
  BY <1>2, <1>3, <1>6 DEF InBody
<1>8. t[1].of = k /\ t[1].at = 3
  BY <1>7 DEF CellAt
<1>9. /\ n \in 1 .. lt /\ lu = lt - n
      /\ \A i \in 1 .. lu : u[i] = t[i + n]
      /\ \A i \in 1 .. n : arrived[i] = t[i]
  BY <1>1, <1>3, <1>7, RecvStep
<1>10. Contiguous(t) /\ Contiguous(Stream')
  <2>1. Contiguous(t) /\ Len(t) \in Nat /\ n \in 0 .. Len(t) /\ Len(u) = Len(t) - n
        /\ \A i \in 1 .. Len(u) : u[i] = t[i + n]
    BY <1>3, <1>4, <1>9 DEF WholeInv
  <2> QED
    BY <1>3, <2>1, ContiguousLeft, Zenon
<1>11. \A d \in 0 .. Size(k) - 3 : t[1 + d] = CellAt(k, 3 + d)
  <2>1. lt = Len(t) /\ lt > 0
    BY <1>3, <1>7
  <2> QED
    BY ONLY <1>4, <1>8, <2>1, HeadFrame
<1>12. ASSUME whole
       PROVE  EndsWhole' /\ HeadWhole' /\ BodyThere'
              /\ \A j \in Known : j > quiet /\ j <= sent => Awaited(j)'
  <2>1. EndsWhole /\ \A j \in Known : j > quiet /\ j <= sent => Awaited(j)
    BY <1>12 DEF WholeInv
  <2>2. n = Body[k] /\ EndsWhole'
    <3>1. Body[k] = Size(k) - 3 + 1 /\ 2 \in Nat /\ Body[k] <= Body[k] /\ Body[k] \in Nat \ {0}
      BY <1>6
    <3>2. Stream[1].of = k /\ Stream[1].at = 3 /\ Recv(2, Taken(Body[k])) /\ n = Taken(Body[k])
      BY <1>1, <1>3, <1>7, <1>8, Zenon
    <3> QED
      BY <1>1, <1>6, <2>1, <3>1, <3>2, WholeRecv
  <2>3. t[n] = CellAt(k, Size(k))
    <3>1. n - 1 \in 0 .. Size(k) - 3 /\ 1 + (n - 1) = n /\ 3 + (n - 1) = Size(k)
      BY <1>6, <2>2
    <3>2. t[1 + (n - 1)] = CellAt(k, 3 + (n - 1))
      BY <1>11, <3>1, Zenon
    <3> QED
      BY <3>1, <3>2, Zenon
  <2>4. Puts(2, n) /\ n \in Nat
    BY <1>1, <1>3, <1>6, <2>2, RecvPuts
  <2>5. rcv_buf'[2 + n] = CellAt(k, Size(k))
    <3>1. 2 + n \in 2 + 1 .. 2 + n /\ (2 + n) - 2 = n /\ n \in 1 .. n
      BY <1>6, <2>2
    <3>2. rcv_buf'[2 + n] = arrived[n]
      BY <2>4, <3>1, Zenon DEF Puts
    <3>3. arrived[n] = t[n]
      BY <1>9, <3>1, Zenon
    <3> QED
      BY <2>3, <3>2, <3>3, Zenon
  <2>6. rcv_buf'[1] = CellAt(k, 1)
    <3>1. 1 \in DOMAIN rcv_buf /\ 1 \notin 2 + 1 .. 2 + n
      BY <1>2, <2>4 DEF InBody
    <3>2. rcv_buf'[1] = rcv_buf[1]
      BY <2>4, <3>1, Zenon DEF Puts
    <3> QED
      BY <1>7, <3>2, Zenon
  <2>7. rpc' = "handle"
    <3>1. k # 0
      BY <1>5
    <3>2. HdrSize + Body[k] = Size(k)
      BY DEF Size
    <3>3. rcv_buf'[2 + n].of = k /\ rcv_buf'[2 + n].at = Size(k)
      BY <2>5 DEF CellAt
    <3>4. IsTail(rcv_buf'[2 + n])
      BY <3>1, <3>2, <3>3, Zenon DEF IsTail
    <3>5. n = frame_len
      BY <1>7, <2>2, Zenon
    <3>6. Complete(n)
      BY <1>1, <3>4, <3>5, Zenon DEF Complete
    <3> QED
      BY <1>1, <1>3, <3>6
  <2>8. lu > 0 => u[1].at = 1
    <3> SUFFICES ASSUME lu > 0 PROVE u[1].at = 1
      OBVIOUS
    <3>1. n \in 1 .. lt - 1 /\ 1 \in 1 .. lu /\ 1 + n = n + 1
      BY <1>4, <1>9
    <3>2. u[1] = t[n + 1]
      <4>1. u[1] = t[1 + n]
        BY <1>9, <3>1, Zenon
      <4> QED
        BY <3>1, <4>1, Zenon
    <3>3. t[n].at = Size(t[n].of)
      BY <2>3 DEF CellAt
    <3>4. t[n + 1].at = 1
      BY <1>3, <1>10, <3>1, <3>3, Zenon DEF Contiguous
    <3> QED
      BY <3>2, <3>4, Zenon
  <2>9. ASSUME NEW j \in Known, j > quiet, j <= sent
        PROVE  Awaited(j)'
    <3>1. Awaited(j)
      BY <2>1, <2>9
    <3>2. CASE \E i \in 1 .. Len(ran) : ran[i] = j
      BY <1>1, <3>2, Zenon DEF Awaited
    <3>3. CASE \E i \in 1 .. Len(Stream) : Stream[i] = CellAt(j, 1)
      <4>1. PICK i \in 1 .. lt : t[i] = CellAt(j, 1)
        BY <1>3, <3>3, Zenon
      <4>2. CASE i <= n
        <5>1. i - 1 \in 0 .. Size(k) - 3 /\ 1 + (i - 1) = i /\ 3 + (i - 1) # 1
          BY <1>4, <1>6, <2>2, <4>2
        <5>2. t[1 + (i - 1)] = CellAt(k, 3 + (i - 1))
          BY <1>11, <5>1, Zenon
        <5>3. t[i] = CellAt(k, 3 + (i - 1))
          BY <5>1, <5>2, Zenon
        <5>4. t[i].at = 3 + (i - 1) /\ t[i].at = 1
          <6>1. t[i].at = 3 + (i - 1)
            BY <5>3 DEF CellAt
          <6>2. t[i].at = 1
            BY <4>1 DEF CellAt
          <6> QED
            BY <6>1, <6>2
        <5> QED
          BY <5>1, <5>4, Zenon
      <4>3. CASE ~(i <= n)
        <5>1. i - n \in 1 .. lu /\ (i - n) + n = i
          BY <1>4, <1>9, <4>3
        <5>2. u[i - n] = CellAt(j, 1)
          BY <1>9, <4>1, <5>1, Zenon
        <5> QED
          BY <1>3, <5>1, <5>2, Zenon DEF Awaited
      <4> QED
        BY <4>2, <4>3
    <3>4. CASE rpc # "header" /\ rcv_buf[1] = CellAt(j, 1)
      <4>1. rcv_buf'[1] = CellAt(j, 1)
        BY <1>7, <2>6, <3>4, Zenon
      <4> QED
        BY <2>7, <4>1 DEF Awaited
    <3> QED
      BY <3>1, <3>2, <3>3, <3>4, Zenon DEF Awaited
  <2> QED
    BY <1>3, <2>2, <2>7, <2>8, <2>9 DEF HeadWhole, BodyThere
<1> QED
  BY <1>1, <1>10, <1>12, Zenon DEF WholeInv

\* A new frame comes behind those on their way; at rest it is the only one.
LEMMA WholeSends ==
  ASSUME FramerInv, WholeInv, ClientSends
  PROVE  WholeInv'
PROOF
<1>1. /\ sent' = sent + 1 /\ ran' = ran /\ rpc' = rpc /\ rcv_buf' = rcv_buf
      /\ arrived' = arrived /\ wire' = wire \o FrameCells(sent + 1)
      /\ sent \in 0 .. MaxFrames - 1 /\ sent \in Nat
  BY FramerAssumption DEF ClientSends, FramerInv, StreamTyped
<1>2. PICK t, u, lt, lu, k : /\ t = Stream /\ u = Stream' /\ lt = Len(Stream) /\ lu = Len(Stream')
                             /\ k = sent + 1
  OBVIOUS
<1>3. u = Join(t, FrameCells(sent + 1))
  <2>1. arrived \in Seq(Cells(sent + 1)) /\ wire \in Seq(Cells(sent + 1))
    BY <1>1, CellsGrow DEF FramerInv, StreamTyped
  <2>2. FrameCells(sent + 1) \in Seq(Cells(sent + 1))
    <3>1. sent + 1 \in 1 .. MaxFrames
      BY <1>1, FramerAssumption
    <3> QED
      BY <3>1, FrameIs
  <2>3. PICK S, f : S = Cells(sent + 1) /\ f = FrameCells(sent + 1)
    OBVIOUS
  <2>4. arrived \in Seq(S) /\ wire \in Seq(S) /\ f \in Seq(S)
    BY <2>1, <2>2, <2>3
  <2>5. (arrived \o wire) \o f = arrived \o (wire \o f)
    BY ONLY <2>4, Regrouped, SMTT(30)
  <2> QED
    BY <1>1, <1>2, <2>3, <2>5, Zenon DEF Stream, Join
<1>4. t \in Seq(Cells(sent)) /\ lt \in Nat
  BY <1>2, LenProperties DEF FramerInv, FramesOf
<1>5. Contiguous(Stream')
  <2>1. Contiguous(t)
    BY <1>2 DEF WholeInv
  <2> QED
    BY <1>1, <1>2, <1>3, <1>4, <2>1, ContiguousBehind, Zenon
<1>6. /\ k \in 1 .. MaxFrames /\ Size(k) \in Nat /\ lu = lt + Size(k)
      /\ \A i \in 1 .. lt : u[i] = t[i]
      /\ \A i \in 1 .. Size(k) : u[lt + i] = CellAt(k, i)
  BY <1>1, <1>2, <1>3, <1>4, AddedCells
<1>7. u[lt + 1] = CellAt(k, 1) /\ lt + 1 \in 1 .. lu /\ \A i \in 1 .. lt : i \in 1 .. lu
  <2>1. 1 \in 1 .. Size(k)
    BY <1>6, SizeIs
  <2> QED
    BY <1>4, <1>6, <2>1
<1>8. Awaited(k)'
  BY <1>2, <1>7, Zenon DEF Awaited
<1>9. HeadWhole => HeadWhole'
  <2>1. CASE lt > 0
    <3>1. u[1] = t[1]
      BY <1>4, <1>6, <2>1
    <3> QED
      BY <1>1, <1>2, <2>1, <3>1, Zenon DEF HeadWhole
  <2>2. CASE ~(lt > 0)
    <3>1. lt + 1 = 1
      BY <1>4, <2>2
    <3>2. u[1] = CellAt(k, 1)
      BY <1>7, <3>1, Zenon
    <3>3. u[1].at = 1
      BY <3>2 DEF CellAt
    <3> QED
      BY <1>2, <3>3, Zenon DEF HeadWhole
  <2> QED
    BY <2>1, <2>2
<1>10. (EndsWhole => EndsWhole') /\ (BodyThere => BodyThere')
  BY <1>1 DEF EndsWhole, BodyThere
<1>11. ASSUME NEW j, Awaited(j) PROVE Awaited(j)'
  <2>1. CASE \E i \in 1 .. Len(Stream) : Stream[i] = CellAt(j, 1)
    <3>1. PICK i \in 1 .. lt : t[i] = CellAt(j, 1)
      BY <1>2, <2>1, Zenon
    <3>2. i \in 1 .. lu /\ u[i] = CellAt(j, 1)
      BY <1>6, <1>7, <3>1, Zenon
    <3> QED
      BY <1>2, <3>2, Zenon DEF Awaited
  <2> QED
    BY <1>1, <1>11, <2>1, Zenon DEF Awaited
<1>12. CASE AtRest
  <2>1. quiet' = sent /\ arrived = <<>> /\ wire = <<>> /\ rpc = "header"
    BY <1>12 DEF ClientSends, AtRest
  <2>2. Len(arrived) = 0
    BY <2>1, EmptySeq
  <2>3. lt = 0
    <3>1. <<>> \o <<>> = <<>>
      BY ConcatEmptySeq, EmptySeq
    <3>2. Stream = <<>>
      BY <2>1, <3>1, Zenon DEF Stream, Join
    <3> QED
      BY <1>2, <2>1, <2>2, <3>2, Zenon
  <2>4. EndsWhole /\ HeadWhole /\ BodyThere
    BY <1>2, <2>1, <2>2, <2>3 DEF EndsWhole, HeadWhole, BodyThere
  <2>5. \A j \in Known : j > quiet' /\ j <= sent' => j = k
    BY <1>1, <1>2, <2>1, FramerAssumption
  <2> QED
    BY <1>5, <1>8, <1>9, <1>10, <2>4, <2>5, Zenon DEF WholeInv
<1>13. CASE ~AtRest
  <2>1. quiet' = quiet /\ whole' = whole
    BY <1>13 DEF ClientSends
  <2>2. \A j \in Known : j <= sent' => j <= sent \/ j = k
    BY <1>1, <1>2, FramerAssumption
  <2>3. ASSUME whole, NEW j \in Known, j > quiet, j <= sent'
        PROVE  Awaited(j)'
    <3>1. CASE j <= sent
      BY <1>11, <2>3, <3>1, Zenon DEF WholeInv
    <3> QED
      BY <1>8, <2>2, <2>3, <3>1, Zenon
  <2> QED
    BY <1>5, <1>9, <1>10, <2>1, <2>3, Zenon DEF WholeInv
<1> QED
  BY <1>12, <1>13

\* The network brings whole frames, or the line is whole no longer.
LEMMA WholeArrive ==
  ASSUME FramerInv, WholeInv, NEW n \in 1 .. Len(wire), Arrive(n)
  PROVE  WholeInv'
PROOF
<1>1. /\ sent' = sent /\ ran' = ran /\ rpc' = rpc /\ rcv_buf' = rcv_buf /\ quiet' = quiet
      /\ arrived' = arrived \o SubSeq(wire, 1, n) /\ wire' = SubSeq(wire, n + 1, Len(wire))
      /\ whole' = (whole /\ IsTail(wire[n]))
  BY DEF Arrive
<1>2. PICK S : S = Cells(sent)
  OBVIOUS
<1>3. arrived \in Seq(S) /\ wire \in Seq(S) /\ Len(arrived) \in Nat /\ Len(wire) \in Nat
  BY <1>2, LenProperties DEF FramerInv, StreamTyped
<1>4. Stream' = Stream
  <2>1. Regroups(S, arrived, wire, n)
    BY ONLY <1>3, n \in 1 .. Len(wire), Moved, Zenon
  <2> QED
    BY <1>1, <2>1, Zenon DEF Regroups, Stream, Join
<1>5. Len(arrived') > 0 /\ arrived'[Len(arrived')] = wire[n]
  <2>1. PICK p, la : p = SubSeq(wire, 1, n) /\ la = Len(arrived)
    OBVIOUS
  <2>2. \A i \in 1 .. n : wire[i] \in S
    BY <1>3, ElementOfSeq
  <2>3. p \in Seq(S) /\ Len(p) = n /\ p[n] = wire[n] /\ n \in Nat /\ n > 0
    <3>1. /\ p \in Seq(S)
          /\ Len(p) = IF 1 <= n THEN n - 1 + 1 ELSE 0
          /\ \A i \in 1 .. n - 1 + 1 : p[i] = wire[1 + i - 1]
      BY <1>3, <2>1, <2>2, SubSeqProperties
    <3>2. n \in Nat /\ n > 0 /\ n \in 1 .. n - 1 + 1 /\ 1 + n - 1 = n /\ n - 1 + 1 = n
      BY <1>3
    <3> QED
      BY <3>1, <3>2
  <2>4. /\ Len(arrived') = la + n
        /\ \A i \in 1 .. la + n : arrived'[i] = IF i <= la THEN arrived[i] ELSE p[i - la]
    BY <1>1, <1>3, <2>1, <2>3, ConcatProperties
  <2>5. la + n \in 1 .. la + n /\ ~(la + n <= la) /\ (la + n) - la = n /\ la + n > 0
    BY <1>3, <2>1, <2>3
  <2>6. arrived'[la + n] = p[n]
    BY <2>4, <2>5, Zenon
  <2> QED
    BY <2>3, <2>4, <2>5, <2>6, Zenon
<1>6. ASSUME whole'
      PROVE  EndsWhole' /\ HeadWhole' /\ BodyThere'
             /\ \A k \in Known : k > quiet /\ k <= sent => Awaited(k)'
  <2>1. EndsWhole' /\ BodyThere'
    BY <1>1, <1>5, <1>6, Zenon DEF EndsWhole, BodyThere
  <2>2. HeadWhole'
    BY <1>1, <1>4, <1>6, Zenon DEF WholeInv, HeadWhole
  <2>3. \A k : Awaited(k) => Awaited(k)'
    BY <1>1, <1>4, Zenon DEF Awaited
  <2> QED
    BY <1>1, <1>6, <2>1, <2>2, <2>3, Zenon DEF WholeInv
<1> QED
  BY <1>1, <1>4, <1>6, Zenon DEF WholeInv

\* Nothing is given up while whole frames arrive.
LEMMA WholeTimeout ==
  ASSUME FramerInv, WholeInv, BodyTimeout
  PROVE  WholeInv'
PROOF
<1>1. /\ UNCHANGED <<sent, wire, arrived, ran, quiet, whole>>
      /\ rpc = "body" /\ arrived = <<>>
  BY DEF BodyTimeout, stream
<1>2. Stream' = Stream
  BY <1>1, Zenon DEF Stream
<1>3. ~whole
  <2>1. Len(arrived) = 0
    BY <1>1, EmptySeq
  <2> QED
    BY <1>1, <2>1 DEF WholeInv, BodyThere
<1> QED
  BY <1>1, <1>2, <1>3, Zenon DEF WholeInv

\* A known command that is in the buffer as a whole is carried out.
LEMMA WholeHandle ==
  ASSUME FramerInv, WholeInv, Handle
  PROVE  WholeInv'
PROOF
<1>1. /\ UNCHANGED <<sent, wire, arrived, rcv_buf, quiet, whole>> /\ rpc = "handle" /\ rpc' = "header"
      /\ ran' = IF rcv_buf[HdrSize].of \in Known
                THEN Append(ran, Command(rcv_buf, frame_len)) ELSE ran
  BY DEF Handle, stream
<1>2. Stream' = Stream
  BY <1>1, Zenon DEF Stream
<1>3. PICK k \in 1 .. sent : /\ Command(rcv_buf, frame_len) = k
                             /\ rcv_buf[1] = CellAt(k, 1) /\ rcv_buf[HdrSize].of = k
  BY <1>1, HandledIs
<1>4. ran \in Seq(1 .. sent) /\ Len(ran) \in Nat
  BY LenProperties DEF FramerInv, StreamTyped
<1>5. /\ \A i \in 1 .. Len(ran) : i \in 1 .. Len(ran') /\ ran'[i] = ran[i]
      /\ k \in Known => \E i \in 1 .. Len(ran') : ran'[i] = k
  <2>1. CASE k \in Known
    <3>1. ran' = Append(ran, k)
      BY <1>1, <1>3, <2>1
    <3>2. /\ Len(ran') = Len(ran) + 1 /\ ran'[Len(ran) + 1] = k
          /\ \A i \in 1 .. Len(ran) : ran'[i] = ran[i]
      BY <1>3, <1>4, <3>1, AppendProperties
    <3>3. Len(ran) + 1 \in 1 .. Len(ran') /\ \A i \in 1 .. Len(ran) : i \in 1 .. Len(ran')
      BY <1>4, <3>2
    <3> QED
      BY <3>2, <3>3, Zenon
  <2>2. CASE k \notin Known
    BY <1>1, <1>3, <2>2, Zenon
  <2> QED
    BY <2>1, <2>2
<1>6. ASSUME NEW j \in Known, Awaited(j)
      PROVE  Awaited(j)'
  <2>1. CASE \E i \in 1 .. Len(ran) : ran[i] = j
    <3>1. PICK i \in 1 .. Len(ran) : ran[i] = j
      BY <2>1
    <3>2. i \in 1 .. Len(ran') /\ ran'[i] = j
      BY <1>5, <3>1, Zenon
    <3> QED
      BY <3>2, Zenon DEF Awaited
  <2>2. CASE \E i \in 1 .. Len(Stream) : Stream[i] = CellAt(j, 1)
    BY <1>2, <2>2, Zenon DEF Awaited
  <2>3. CASE rcv_buf[1] = CellAt(j, 1)
    <3>1. j = k
      BY <1>3, <2>3 DEF CellAt
    <3> QED
      BY <1>5, <3>1, Zenon DEF Awaited
  <2> QED
    BY <1>6, <2>1, <2>2, <2>3, Zenon DEF Awaited
<1>7. HeadWhole => HeadWhole'
  BY <1>1, <1>2 DEF HeadWhole
<1>8. (EndsWhole => EndsWhole') /\ BodyThere'
  BY <1>1 DEF EndsWhole, BodyThere
<1> QED
  BY <1>1, <1>2, <1>6, <1>7, <1>8, Zenon DEF WholeInv

\* Every step keeps the frames whole.
LEMMA WholeStep ==
  ASSUME FramerInv, WholeInv, [FramerNext]_framerVars
  PROVE  WholeInv'
PROOF
<1>1. CASE UNCHANGED framerVars
  <2>1. UNCHANGED <<sent, wire, arrived, rpc, frame_len, rcv_buf, ran, quiet, whole>>
    BY <1>1 DEF framerVars, stream
  <2>2. Stream' = Stream
    BY <2>1, Zenon DEF Stream
  <2> QED
    BY <2>1, <2>2, Zenon DEF WholeInv, EndsWhole, HeadWhole, BodyThere, Awaited
<1> QED
  BY <1>1, WholeSends, WholeArrive, WholeHeader, WholeBody, WholeTimeout, WholeHandle
     DEF FramerNext

\* With nothing sent there is nothing to wait for.
LEMMA WholeStarts == FramerInit => WholeInv
PROOF
<1> SUFFICES ASSUME FramerInit PROVE WholeInv
  OBVIOUS
<1>1. arrived = <<>> /\ rpc = "header" /\ sent = 0 /\ quiet = 0
  BY DEF FramerInit
<1>2. Stream = <<>>
  <2>1. <<>> \o <<>> = <<>>
    BY ConcatEmptySeq, EmptySeq
  <2> QED
    BY <2>1 DEF FramerInit, Stream, Join
<1>3. Len(Stream) = 0 /\ Len(arrived) = 0
  BY <1>1, <1>2, EmptySeq
<1>4. \A k \in Known : ~(k > quiet /\ k <= sent)
  BY <1>1, FramerAssumption
<1> QED
  BY <1>1, <1>3, <1>4 DEF WholeInv, Contiguous, EndsWhole, HeadWhole, BodyThere

\* What is awaited by its position is carried out or on its way.
LEMMA AwaitedIs ==
  ASSUME FramerInv, NEW k \in 1 .. MaxFrames, Awaited(k)
  PROVE  k \in ToSet(ran) \/ OnItsWay(k)
PROOF
<1>1. FrameCells(k)[1] = CellAt(k, 1)
  <2>1. 1 \in 1 .. Size(k)
    BY SizeIs
  <2> QED
    BY <2>1, FrameIs
<1>2. CASE \E i \in 1 .. Len(ran) : ran[i] = k
  <2>1. DOMAIN ran = 1 .. Len(ran)
    BY LenProperties DEF FramerInv, StreamTyped
  <2> QED
    BY <1>2, <2>1, Zenon DEF ToSet
<1>3. CASE \E i \in 1 .. Len(Stream) : Stream[i] = CellAt(k, 1)
  <2>1. PICK a, w, t : a = arrived /\ w = wire /\ t = Stream
    OBVIOUS
  <2>2. a \in Seq(Cells(sent)) /\ w \in Seq(Cells(sent)) /\ t = a \o w
    BY <2>1, Zenon DEF FramerInv, StreamTyped, Stream, Join
  <2>3. /\ Len(a) \in Nat /\ Len(w) \in Nat
        /\ DOMAIN a = 1 .. Len(a) /\ DOMAIN w = 1 .. Len(w)
    BY <2>2, LenProperties
  <2>4. /\ Len(t) = Len(a) + Len(w)
        /\ \A i \in 1 .. Len(a) + Len(w) : t[i] = IF i <= Len(a) THEN a[i] ELSE w[i - Len(a)]
    BY <2>2, ConcatProperties
  <2>5. PICK i \in 1 .. Len(a) + Len(w) : t[i] = CellAt(k, 1)
    BY <1>3, <2>1, <2>4, Zenon
  <2>6. CASE i <= Len(a)
    <3>1. i \in DOMAIN a /\ a[i] = CellAt(k, 1)
      BY <2>3, <2>4, <2>5, <2>6
    <3>2. CellAt(k, 1) \in ToSet(a)
      BY <3>1, Zenon DEF ToSet
    <3> QED
      BY <1>1, <2>1, <3>2, Zenon DEF OnItsWay
  <2>7. CASE ~(i <= Len(a))
    <3>1. i - Len(a) \in DOMAIN w /\ w[i - Len(a)] = CellAt(k, 1)
      BY <2>3, <2>4, <2>5, <2>7
    <3>2. CellAt(k, 1) \in ToSet(w)
      BY <3>1, Zenon DEF ToSet
    <3> QED
      BY <1>1, <2>1, <3>2, Zenon DEF OnItsWay
  <2> QED
    BY <2>6, <2>7
<1>4. CASE rpc # "header" /\ rcv_buf[1] = CellAt(k, 1)
  BY <1>1, <1>4, Zenon DEF OnItsWay
<1> QED
  BY <1>2, <1>3, <1>4, Zenon DEF Awaited

\* recv_from_socket: as long as every segment ends with a frame, the known commands
\* sent since the line was last at rest are carried out or on their way.
THEOREM WholeFramesAreHandled == FramerSpec => []WholeFramesHandled
PROOF
<1>1. FramerInit => FramerInv /\ WholeInv
  BY FramerStarts, WholeStarts
<1>2. FramerInv /\ WholeInv /\ [FramerNext]_framerVars => FramerInv' /\ WholeInv'
  BY FramerStep, WholeStep
<1>3. FramerInv /\ WholeInv => WholeFramesHandled
  BY AwaitedIs, FramerAssumption DEF WholeInv, WholeFramesHandled
<1> QED
  BY <1>1, <1>2, <1>3, PTL DEF FramerSpec

(***************************************************************************)
(* Types.                                                                  *)
(***************************************************************************)
\* What FramerInv does not say of the variables.
RestTyped ==
  /\ rpc \in {"header", "body", "handle"} /\ frame_len \in Nat
  /\ rcv_buf \in [BufCells -> Cell] /\ quiet \in 0 .. MaxFrames /\ whole \in BOOLEAN

\* What a sequence is a sequence of, told by its elements.
LEMMA Retyped ==
  ASSUME NEW S, NEW T, NEW s \in Seq(S), \A i \in 1 .. Len(s) : s[i] \in T
  PROVE  s \in Seq(T)
PROOF
  BY LenProperties, SeqDef

\* Cells of frames that were sent lie within their frames.
LEMMA CellsInFrames ==
  ASSUME NEW n \in 0 .. MaxFrames, NEW t, FramesOf(t, n), NEW i \in 1 .. Len(t)
  PROVE  t[i] \in Cell
PROOF
<1>1. t \in Seq(Cells(n)) /\ t[i].at \in 1 .. Size(t[i].of)
  BY DEF FramesOf, FrameFrom
<1>2. t[i].of \in 1 .. n /\ t[i] = CellAt(t[i].of, t[i].at)
  BY <1>1, CellIs
<1>3. PICK k, a : k = t[i].of /\ a = t[i].at
  OBVIOUS
<1>4. k \in 1 .. MaxFrames /\ a \in 1 .. Size(k) /\ t[i] = CellAt(k, a)
  BY <1>1, <1>2, <1>3, FramerAssumption
<1>5. FrameCells(k)[a] = CellAt(k, a) /\ a \in DOMAIN FrameCells(k)
  BY <1>4, FrameIs DEF FrameCells, Size
<1>6. t[i] \in ToSet(FrameCells(k))
  BY <1>4, <1>5, Zenon DEF ToSet
<1> QED
  BY <1>4, <1>6, Zenon DEF Cell

LEMMA StreamCells ==
  ASSUME FramerInv
  PROVE  /\ arrived \in Seq(Cell) /\ wire \in Seq(Cell)
         /\ \A i \in 1 .. Len(arrived) : arrived[i] \in Cell
PROOF
<1>1. PICK a, w, t : a = arrived /\ w = wire /\ t = Stream
  OBVIOUS
<1>2. /\ sent \in 0 .. MaxFrames /\ a \in Seq(Cells(sent)) /\ w \in Seq(Cells(sent))
      /\ t = a \o w /\ FramesOf(t, sent)
  BY <1>1, Zenon DEF FramerInv, StreamTyped, Stream, Join
<1>3. Len(a) \in Nat /\ Len(w) \in Nat
  BY <1>2, LenProperties
<1>4. /\ Len(t) = Len(a) + Len(w)
      /\ \A i \in 1 .. Len(a) + Len(w) : t[i] = IF i <= Len(a) THEN a[i] ELSE w[i - Len(a)]
  BY <1>2, ConcatProperties
<1>5. \A i \in 1 .. Len(t) : t[i] \in Cell
  BY <1>2, CellsInFrames
<1>6. PICK la, lw : la = Len(a) /\ lw = Len(w)
  OBVIOUS
<1>7. \A i \in 1 .. la + lw : t[i] \in Cell /\ t[i] = IF i <= la THEN a[i] ELSE w[i - la]
  BY <1>4, <1>5, <1>6, Zenon
<1>8. /\ la \in Nat /\ lw \in Nat
  BY <1>3, <1>6, Zenon
<1>9. ASSUME NEW i \in 1 .. la
      PROVE  a[i] \in Cell
  BY ONLY <1>7, <1>8, SMT
<1>10. ASSUME NEW i \in 1 .. lw
       PROVE  w[i] \in Cell
  <2>1. i + la \in 1 .. la + lw /\ ~(i + la <= la) /\ (i + la) - la = i
    BY ONLY <1>8, SMT
  <2> QED
    BY <1>7, <2>1, Zenon
<1>11. a \in Seq(Cell) /\ w \in Seq(Cell)
  BY <1>2, <1>6, <1>9, <1>10, Retyped, Zenon
<1> QED
  BY <1>1, <1>6, <1>9, <1>11, Zenon

\* A receive of no more than there is room for stays in the buffer.
LEMMA BufferTyped ==
  ASSUME FramerInv, RestTyped, arrived # <<>>, NEW ask \in Nat \ {0}, NEW at \in Nat,
         at + ask <= BufSize, Recv(at, Taken(ask))
  PROVE  rcv_buf' \in [BufCells -> Cell]
PROOF
<1>1. PICK m, R : m = Taken(ask) /\ R = at + 1 .. at + m
  OBVIOUS
<1>2. Len(arrived) \in Nat /\ Len(arrived) > 0
  BY EmptySeq, LenProperties DEF FramerInv, StreamTyped
<1>3. m \in 1 .. Len(arrived) /\ m \in Nat /\ m <= ask
  BY <1>1, <1>2 DEF Taken
<1>4. rcv_buf' = [i \in DOMAIN rcv_buf \cup R |-> IF i \in R THEN arrived[i - at] ELSE rcv_buf[i]]
  BY <1>1, Zenon DEF Recv
<1>5. DOMAIN rcv_buf \cup R = BufCells
  <2>1. R \subseteq BufCells
    BY <1>1, <1>3, FramerAssumption DEF BufCells
  <2>2. DOMAIN rcv_buf = BufCells
    BY DEF RestTyped
  <2> QED
    BY <2>1, <2>2
<1>6. ASSUME NEW i \in BufCells
      PROVE  (IF i \in R THEN arrived[i - at] ELSE rcv_buf[i]) \in Cell
  <2>1. CASE i \in R
    <3>1. i - at \in 1 .. Len(arrived)
      BY <1>1, <1>2, <1>3, <2>1
    <3> QED
      BY <2>1, <3>1, StreamCells
  <2>2. CASE i \notin R
    BY <2>2 DEF RestTyped
  <2> QED
    BY <2>1, <2>2
<1> QED
  BY <1>4, <1>5, <1>6, Zenon

LEMMA RestStep ==
  ASSUME FramerInv, RestTyped, [FramerNext]_framerVars
  PROVE  RestTyped'
PROOF
<1> USE DEF RestTyped
<1>1. CASE ClientSends
  <2>1. quiet' \in {quiet, sent} /\ whole' \in {whole, TRUE}
    BY <1>1 DEF ClientSends
  <2> QED
    BY <1>1, <2>1 DEF ClientSends, FramerInv, StreamTyped
<1>2. ASSUME NEW n \in 1 .. Len(wire), Arrive(n)
      PROVE  RestTyped'
  BY <1>2 DEF Arrive
<1>3. CASE RecvHeader
  <2>1. rcv_buf' \in [BufCells -> Cell]
    <3>1. arrived # <<>> /\ Recv(0, Taken(2))
      BY <1>3 DEF RecvHeader, AskHeader, HdrSize
    <3>2. arrived \in Seq(Cells(sent)) /\ sent \in 0 .. MaxFrames
      BY DEF FramerInv, StreamTyped
    <3>3. arrived[1].of \in 1 .. MaxFrames
      BY <3>1, <3>2, EmptySeq, LenProperties, CellIs, FramerAssumption
    <3>4. 0 + 2 <= BufSize
      BY <3>3, SizeIs
    <3> QED
      BY <3>1, <3>4, BufferTyped
  <2>2. frame_len' \in Nat /\ rpc' \in {"header", "body"}
    <3>1. CASE UNCHANGED <<rpc, frame_len>>
      BY <1>3, <3>1 DEF RecvHeader
    <3>2. CASE ~UNCHANGED <<rpc, frame_len>>
      <4>1. /\ rpc' = "body" /\ frame_len' = PackSize(arrived[1]) - HdrSize
            /\ Sane(PackSize(arrived[1]) - HdrSize)
        BY <1>3, <3>2 DEF RecvHeader
      <4>2. arrived \in Seq(Cells(sent)) /\ arrived # <<>> /\ sent \in 0 .. MaxFrames
        BY <1>3 DEF RecvHeader, FramerInv, StreamTyped
      <4>3. 1 \in 1 .. Len(arrived)
        BY <4>2, EmptySeq, LenProperties
      <4>4. arrived[1].of \in 1 .. MaxFrames
        BY <4>2, <4>3, CellIs, FramerAssumption
      <4>5. PackSize(arrived[1]) \in Int
        BY <4>4, FramerAssumption DEF PackSize, HdrSize
      <4> QED
        BY <4>1, <4>5 DEF Sane, HdrSize
    <3> QED
      BY <3>1, <3>2
  <2> QED
    BY <1>3, <2>1, <2>2 DEF RecvHeader
<1>4. CASE RecvBody
  <2>1. PICK k \in 1 .. sent : InBody(Stream, k)
    BY <1>4 DEF RecvBody, FramerInv
  <2>2. k \in 1 .. MaxFrames
    BY <2>1, FramerAssumption DEF FramerInv, StreamTyped
  <2>3. frame_len \in Nat \ {0} /\ 2 + frame_len <= BufSize
    BY <2>1, <2>2, SizeIs DEF InBody
  <2>4. rcv_buf' \in [BufCells -> Cell]
    BY <1>4, <2>3, BufferTyped DEF RecvBody, HdrSize
  <2> QED
    BY <1>4, <2>4 DEF RecvBody
<1>5. CASE BodyTimeout \/ Handle \/ UNCHANGED framerVars
  BY <1>5 DEF BodyTimeout, Handle, framerVars, stream
<1> QED
  BY <1>1, <1>2, <1>3, <1>4, <1>5 DEF FramerNext

\* recv_from_socket: as long as the frames that are sent fit into the buffer, no
\* receive stores anything behind its end, whatever the cuts; a length that is
\* waited for is not negative; and nothing but commands of the client are carried
\* out, never one with another's parameters.
THEOREM FramerIsTyped == FramerSpec => []FramerTypeOK
PROOF
<1>1. FramerInit => FramerInv /\ RestTyped
  <2>1. NoCell \in Cell
    BY DEF Cell
  <2> QED
    BY <2>1, FramerStarts, FramerAssumption DEF FramerInit, RestTyped
<1>2. FramerInv /\ RestTyped /\ [FramerNext]_framerVars => FramerInv' /\ RestTyped'
  BY FramerStep, RestStep
<1>3. ASSUME FramerInv, RestTyped
      PROVE  FramerTypeOK
  <2>1. ran \in Seq(1 .. sent) /\ sent \in 0 .. MaxFrames
    BY <1>3 DEF FramerInv, StreamTyped
  <2>2. \A c \in 1 .. sent : c \in 1 .. MaxFrames
    BY <2>1, FramerAssumption
  <2>3. ran \in Seq(1 .. MaxFrames)
    <3>1. \A i \in 1 .. Len(ran) : ran[i] \in 1 .. sent
      BY <2>1, ElementOfSeq
    <3> QED
      BY <2>1, <2>2, <3>1, Retyped, Zenon
  <2> QED
    BY <1>3, <2>1, <2>3, StreamCells DEF RestTyped, FramerTypeOK
<1> QED
  BY <1>1, <1>2, <1>3, PTL DEF FramerSpec
=============================================================================
