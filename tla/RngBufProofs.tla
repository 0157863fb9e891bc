---------------------------- MODULE RngBufProofs ----------------------------
(***************************************************************************)
(* Proofs about RngBuf for every size of the ring and every request.       *)
(*                                                                         *)
(* A side works on a copy of the other's pointer that may be old.  RngInv  *)
(* says that an old copy only hides room or bytes; what a call moves fits  *)
(* into what it knows of, hence into what there is, and so the unread      *)
(* bytes are never touched and the pointers never pass each other.         *)
(*                                                                         *)
(* FifoInv adds what a call under way has copied: it stays as it was       *)
(* copied, so the step that moves a pointer appends those bytes to the     *)
(* queue, or takes them from it, at once.                                  *)
(***************************************************************************)
EXTENDS RngBuf, SequenceTheorems, FiniteSetTheorems, TLAPS

(* The functions that count stay between nothing and all but one byte.     *)
LEMMA CountBounds ==
  ASSUME NEW w \in Index, NEW r \in Index
  PROVE  /\ rngbuf_n_bytes(w, r) \in 0 .. Size - 1
         /\ rngbuf_n_bytes(w, r) \in Nat /\ rngbuf_free_bytes(w, r) \in Nat
         /\ rngbuf_n_bytes(w, r) = 0 <=> w = r
         /\ w = r - 1 => rngbuf_free_bytes(w, r) = 0
         /\ rngbuf_free_bytes(w, r) = Size - 1 - rngbuf_n_bytes(w, r)
PROOF
  BY RngAssumption DEF Index, rngbuf_n_bytes, rngbuf_free_bytes, Wrapped

(* The first copy of a put fits before the end of the buffer and into the  *)
(* room the producer knows of; so does all it moves, if it goes on at 0.   *)
LEMMA PutFits ==
  ASSUME TypeOK
  PROVE  /\ PutFirst \in Nat /\ PutFirst <= Len(put.data)
         /\ wptr + PutFirst <= Size
         /\ PutFirst <= rngbuf_free_bytes(wptr, put.rptr)
         /\ wptr + PutFirst = Size =>
              LET second == Fewer(Len(put.data) - PutFirst, put.rptr - 1) IN
                /\ second \in Nat /\ put.rptr <= wptr /\ put.rptr > 0
                /\ second < put.rptr
                /\ PutFirst + second <= Len(put.data)
                /\ PutFirst + second <= rngbuf_free_bytes(wptr, put.rptr)
PROOF
<1>1. /\ Len(put.data) \in Nat /\ put.rptr \in Index /\ wptr \in Index
  BY DEF TypeOK
<1>2. CASE put.rptr > wptr
  <2>1. PutFirst = Fewer(Len(put.data), put.rptr - wptr - 1)
    BY <1>1, <1>2, RngAssumption DEF PutFirst, Index
  <2> QED
    BY <1>1, <1>2, <2>1, RngAssumption DEF Index, Fewer, rngbuf_free_bytes, Wrapped
<1>3. CASE put.rptr = 0
  <2>1. PutFirst = Fewer(Len(put.data), Size - wptr - 1)
    BY <1>1, <1>3, RngAssumption DEF PutFirst, Index
  <2> QED
    BY <1>1, <1>3, <2>1, RngAssumption DEF Index, Fewer, rngbuf_free_bytes, Wrapped
<1>4. CASE put.rptr <= wptr /\ put.rptr # 0
  <2>1. PutFirst = Fewer(Len(put.data), Size - wptr)
    BY <1>1, <1>4, RngAssumption DEF PutFirst, Index
  <2>2. rngbuf_free_bytes(wptr, put.rptr) = put.rptr - wptr - 1 + Size
    BY <1>1, <1>4, RngAssumption DEF Index, rngbuf_free_bytes, Wrapped
  <2>3. /\ PutFirst \in Nat /\ PutFirst <= Len(put.data) /\ wptr + PutFirst <= Size
        /\ PutFirst <= rngbuf_free_bytes(wptr, put.rptr)
    BY <1>1, <1>4, <2>1, <2>2, RngAssumption DEF Index, Fewer
  <2>4. ASSUME wptr + PutFirst = Size
        PROVE  LET second == Fewer(Len(put.data) - PutFirst, put.rptr - 1) IN
                 /\ second \in Nat /\ second < put.rptr
                 /\ PutFirst + second <= Len(put.data)
                 /\ PutFirst + second <= rngbuf_free_bytes(wptr, put.rptr)
    BY SMTT(30), <1>1, <1>4, <2>2, <2>3, <2>4, RngAssumption DEF Index, Fewer
  <2> QED
    BY <1>1, <1>4, <2>3, <2>4, RngAssumption DEF Index
<1> QED
  BY <1>1, <1>2, <1>3, <1>4, RngAssumption DEF Index

(* The same of a get. *)
LEMMA GetFits ==
  ASSUME TypeOK
  PROVE  /\ GetFirst \in Nat /\ GetFirst <= get.max
         /\ rptr + GetFirst <= Size
         /\ GetFirst <= rngbuf_n_bytes(get.wptr, rptr)
         /\ rptr + GetFirst = Size => get.wptr < rptr
         /\ get.wptr < rptr /\ rptr + GetFirst = Size =>
              LET second == Fewer(get.max - GetFirst, get.wptr) IN
                /\ second \in Nat /\ second <= get.wptr
                /\ GetFirst + second <= rngbuf_n_bytes(get.wptr, rptr)
PROOF
<1>1. get.max \in Nat /\ get.wptr \in Index /\ rptr \in Index
  BY DEF TypeOK
<1> QED
  BY <1>1, RngAssumption DEF Index, GetFirst, Fewer, rngbuf_n_bytes, Wrapped

(* A copy leaves bytes in the buffer; a copy from it is a sequence of them. *)
LEMMA CopiedType ==
  ASSUME buf \in [Index -> Byte], NEW s \in Seq(Byte), NEW i \in Int
  PROVE  Copied(s, i) \in [Index -> Byte]
PROOF
<1>1. \A k \in Index : k - i + 1 \in DOMAIN s => s[k - i + 1] \in Byte
  BY ElementOfSeq, LenProperties
<1> QED
  BY <1>1 DEF Copied

LEMMA FromType ==
  ASSUME buf \in [Index -> Byte], NEW i \in Index, NEW n \in Nat, i + n <= Size
  PROVE  From(i, n) \in Seq(Byte)
PROOF
<1>1. \A k \in 1 .. n : i + k - 1 \in Index
  BY RngAssumption DEF Index
<1>2. From(i, n) \in [1 .. n -> Byte]
  BY <1>1 DEF From
<1> QED
  BY <1>2, SMT

LEMMA RequestType ==
  ASSUME NEW s \in BoundedSeq(Byte, MaxRequest)
  PROVE  s \in Seq(Byte)
PROOF
<1>1. PICK m \in 0 .. MaxRequest : s \in [1 .. m -> Byte]
  BY DEF BoundedSeq, SeqOf
<1> QED
  BY <1>1, RngAssumption, SMT

LEMMA AheadIndex ==
  ASSUME NEW i \in Index, NEW n \in 0 .. Size
  PROVE  Ahead(i, n) \in Index
PROOF
  BY RngAssumption DEF Ahead, Index

LEMMA InitEstablishes == Init => RngInv
PROOF
<1> SUFFICES ASSUME Init PROVE RngInv
  OBVIOUS
<1>1. <<>> \in Seq(Byte) /\ Len(<<>>) = 0
  BY EmptySeq
<1>2. 0 \in Index
  BY RngAssumption DEF Index
<1>3. TypeOK
  BY <1>1, <1>2 DEF Init, TypeOK, NoPut, NoGet, Pc
<1>4. CountsStaySafe
  BY <1>1, <1>2, CountBounds, RngAssumption
     DEF Init, CountsStaySafe, NoPut, NoGet, rngbuf_free_bytes, Wrapped, Index
<1> QED
  BY <1>3, <1>4 DEF RngInv

LEMMA ProducerType == TypeOK /\ Producer => TypeOK'
PROOF
<1> SUFFICES ASSUME TypeOK, Producer PROVE TypeOK'
  OBVIOUS
<1> USE DEF TypeOK, Pc, NoPut
<1>e. <<>> \in Seq(Byte) /\ 0 \in Index
  BY EmptySeq, RngAssumption DEF Index
<1>1. ASSUME NEW s \in BoundedSeq(Byte, MaxRequest), PutBegin(s)
      PROVE  TypeOK'
  BY <1>1, <1>e, RequestType DEF PutBegin
<1>2. CASE PutCopy
  <2>1. SubSeq(put.data, 1, PutFirst) \in Seq(Byte)
    BY PutFits, SubSeqProperties, ElementOfSeq
  <2>2. wptr \in Int
    BY RngAssumption DEF Index
  <2>3. Copied(SubSeq(put.data, 1, PutFirst), wptr) \in [Index -> Byte]
    BY <2>1, <2>2, CopiedType
  <2>4. buf' \in [Index -> Byte]
    BY <1>2, <2>3 DEF PutCopy
  <2> QED
    BY <1>2, <2>4 DEF PutCopy
<1>3. CASE PutFinish
  <2> DEFINE second == Fewer(Len(put.data) - PutFirst, put.rptr - 1)
  <2>1. CASE wptr + PutFirst = Size
    <3>1. /\ second \in Nat /\ second < put.rptr /\ PutFirst + second <= Len(put.data)
          /\ PutFirst \in Nat
      BY <2>1, PutFits
    <3>2. \A i \in PutFirst + 1 .. PutFirst + second : put.data[i] \in Byte
      BY <3>1, ElementOfSeq, LenProperties
    <3>3. SubSeq(put.data, PutFirst + 1, PutFirst + second) \in Seq(Byte)
      BY <3>1, <3>2, SubSeqProperties
    <3>4. buf' \in [Index -> Byte]
      <4> DEFINE s == SubSeq(put.data, PutFirst + 1, PutFirst + second)
      <4>1. \A x \in Seq(Byte) : Copied(x, 0) \in [Index -> Byte]
        BY CopiedType, SMT
      <4>2. s \in Seq(Byte)
        BY <3>3
      <4>3. Copied(s, 0) \in [Index -> Byte]
        <5> HIDE DEF s
        <5> QED
          BY <4>1, <4>2
      <4> QED
        BY <1>3, <2>1, <4>3 DEF PutFinish
    <3>5. wptr' = second /\ accepted' = PutFirst + second
      BY <1>3, <2>1 DEF PutFinish
    <3>6. wptr' \in Index /\ accepted' \in Nat
      BY <3>1, <3>5, RngAssumption DEF Index
    <3> QED
      BY <1>3, <1>e, <3>4, <3>6 DEF PutFinish
  <2>2. CASE wptr + PutFirst # Size
    <3>1. wptr' = wptr + PutFirst /\ accepted' = PutFirst /\ buf' = buf
      BY <1>3, <2>2 DEF PutFinish
    <3>2. wptr' \in Index /\ accepted' \in Nat
      BY SMTT(30), <2>2, <3>1, PutFits, RngAssumption DEF Index
    <3> QED
      BY <1>3, <1>e, <3>1, <3>2 DEF PutFinish
  <2> QED
    BY <2>1, <2>2
<1>4. ASSUME NEW b \in Byte, ElemPutTest(b)
      PROVE  TypeOK'
  <2>1. <<b>> \in Seq(Byte) /\ Len(<<b>>) = 1
    BY SMT
  <2>2. CASE ElemPutFull
    BY <2>2, <1>e DEF ElemPutFull
  <2>3. CASE /\ put' = [NoPut EXCEPT !.pc = "elem", !.data = <<b>>]
             /\ UNCHANGED <<wptr, rptr, buf, get, ahead, accepted, delivered>>
    BY <2>3, <1>e, <2>1
  <2> QED
    BY <1>4, <2>2, <2>3 DEF ElemPutTest
<1>5. CASE ElemPutStore
  <2>1. CASE ElemPutFull
    BY <2>1, <1>e DEF ElemPutFull
  <2>2. CASE ~ElemPutFull
    <3>1. put.data[1] \in Byte
      BY <1>5, ElementOfSeq DEF ElemPutStore
    <3>2. /\ buf' = [buf EXCEPT ![wptr] = put.data[1]]
          /\ wptr' = IF wptr = Size - 1 THEN 0 ELSE wptr + 1
          /\ accepted' = 1 /\ ahead' = <<>> /\ put' = NoPut
          /\ UNCHANGED <<rptr, get, delivered>>
      BY <1>5, <2>2 DEF ElemPutStore
    <3>3. wptr' \in Index
      BY <3>2, RngAssumption DEF Index
    <3> QED
      BY <1>e, <3>1, <3>2, <3>3
  <2> QED
    BY <2>1, <2>2
<1>6. ASSUME NEW n \in 0 .. Size, MoveAhead(n)
      PROVE  TypeOK'
  <2>1. SubSeq(ahead, n + 1, Len(ahead)) \in Seq(Byte)
    BY SubSeqProperties, ElementOfSeq, LenProperties, RngAssumption
  <2> QED
    BY <1>6, <2>1, AheadIndex DEF MoveAhead
<1>7. ASSUME NEW n \in 0 .. Size, NEW b \in Byte, PutAhead(b, n)
      PROVE  TypeOK'
  <2>1. Append(ahead, b) \in Seq(Byte)
    OBVIOUS
  <2>2. n < Len(ahead) => ReplaceAt(ahead, n + 1, b) \in Seq(Byte)
    BY ExceptSeq, LenProperties, RngAssumption DEF ReplaceAt
  <2>3. n = Len(ahead) \/ n < Len(ahead)
    BY <1>7, LenProperties, RngAssumption DEF PutAhead
  <2> QED
    BY <1>7, <2>1, <2>2, <2>3, AheadIndex DEF PutAhead
<1> QED
  BY <1>1, <1>2, <1>3, <1>4, <1>5, <1>6, <1>7 DEF Producer

LEMMA ConsumerType == TypeOK /\ Consumer => TypeOK'
PROOF
<1> SUFFICES ASSUME TypeOK, Consumer PROVE TypeOK'
  OBVIOUS
<1> USE DEF TypeOK, Pc, NoGet
<1>e. <<>> \in Seq(Byte) /\ 0 \in Index
  BY EmptySeq, RngAssumption DEF Index
<1>1. ASSUME NEW max \in 0 .. MaxRequest, GetBegin(max)
      PROVE  TypeOK'
  BY <1>1, <1>e, RngAssumption DEF GetBegin
<1>2. CASE GetCopy
  <2>1. From(rptr, GetFirst) \in Seq(Byte)
    BY GetFits, FromType
  <2> QED
    BY <1>2, <2>1 DEF GetCopy
<1>3. CASE GetFinish
  <2> DEFINE second == Fewer(get.max - GetFirst, get.wptr)
  <2>1. CASE get.wptr < rptr /\ rptr + GetFirst = Size
    <3>1. second \in Nat /\ second <= get.wptr
      BY <2>1, GetFits
    <3>2. second \in Index /\ 0 + second <= Size
      BY <3>1, RngAssumption DEF Index
    <3>3. From(0, second) \in Seq(Byte)
      BY <1>e, <3>1, <3>2, FromType
    <3>4. get.got \o From(0, second) \in Seq(Byte)
      BY <3>3, ConcatProperties
    <3>5. rptr' = second /\ delivered' = get.got \o From(0, second)
      BY <1>3, <2>1 DEF GetFinish
    <3> QED
      BY <1>3, <1>e, <3>2, <3>4, <3>5 DEF GetFinish
  <2>2. CASE ~(get.wptr < rptr /\ rptr + GetFirst = Size)
    <3>0. /\ GetFirst \in Nat /\ rptr + GetFirst <= Size
          /\ rptr + GetFirst = Size => get.wptr < rptr
      BY GetFits
    <3>1. rptr + GetFirst \in Index
      BY <2>2, <3>0, RngAssumption DEF Index
    <3> QED
      BY <1>3, <2>2, <1>e, <3>1 DEF GetFinish
  <2> QED
    BY <2>1, <2>2
<1>4. CASE ElemGetTest
  <2>1. CASE wptr = rptr
    BY <1>4, <2>1, <1>e DEF ElemGetTest
  <2>2. CASE wptr # rptr
    <3>1. /\ get' = [NoGet EXCEPT !.pc = "elem"]
          /\ UNCHANGED <<wptr, rptr, buf, put, ahead, accepted, delivered>>
      BY <1>4, <2>2 DEF ElemGetTest
    <3>2. get' \in [pc : Pc, max : Nat, wptr : Index, got : Seq(Byte)]
      BY <3>1, <1>e
    <3> QED
      BY <3>1, <3>2
  <2> QED
    BY <2>1, <2>2
<1>5. CASE ElemGetTake
  <2>1. <<buf[rptr]>> \in Seq(Byte)
    OBVIOUS
  <2> QED
    BY <1>5, <1>e, <2>1, RngAssumption DEF ElemGetTake, Index
<1> QED
  BY <1>1, <1>2, <1>3, <1>4, <1>5 DEF Consumer

LEMMA TypeStep == TypeOK /\ [Next]_vars => TypeOK'
PROOF
<1>1. CASE UNCHANGED vars
  BY <1>1 DEF vars, TypeOK
<1>2. ASSUME TypeOK, Flush
      PROVE  TypeOK'
  BY <1>2, EmptySeq, RngAssumption DEF Flush, TypeOK, Index
<1> QED
  BY <1>1, <1>2, ProducerType, ConsumerType DEF Next

(* The room left after the producer moved its pointer by n, and what there *)
(* is to get, counted from the pointers wherever they wrap.                *)
LEMMA ProducerMoves ==
  ASSUME NEW w \in Index, NEW r \in Index, NEW w2 \in Index, NEW n \in Nat,
         n <= rngbuf_free_bytes(w, r), w2 = w + n \/ w2 = w + n - Size
  PROVE  /\ rngbuf_n_bytes(w2, r) = rngbuf_n_bytes(w, r) + n
         /\ rngbuf_free_bytes(w2, r) = rngbuf_free_bytes(w, r) - n
PROOF
  BY RngAssumption DEF Index, rngbuf_n_bytes, rngbuf_free_bytes, Wrapped

LEMMA ConsumerMoves ==
  ASSUME NEW w \in Index, NEW r \in Index, NEW r2 \in Index, NEW n \in Nat,
         n <= rngbuf_n_bytes(w, r), r2 = r + n \/ r2 = r + n - Size
  PROVE  /\ rngbuf_n_bytes(w, r2) = rngbuf_n_bytes(w, r) - n
         /\ rngbuf_free_bytes(w, r2) = rngbuf_free_bytes(w, r) + n
PROOF
  BY RngAssumption DEF Index, rngbuf_n_bytes, rngbuf_free_bytes, Wrapped

(* A put that moves n bytes into the room there is, or a get that takes n  *)
(* of the bytes there are, leaves the other side's counts safe.            *)
LEMMA PutMoves ==
  ASSUME RngInv, TypeOK', NEW n \in Nat, n <= rngbuf_free_bytes(wptr, rptr),
         wptr' = wptr + n \/ wptr' = wptr + n - Size,
         UNCHANGED <<rptr, get>>, put'.pc = "idle",
         Len(ahead') <= rngbuf_free_bytes(wptr, rptr) - n
  PROVE  CountsStaySafe'
PROOF
<1>1. wptr \in Index /\ rptr \in Index /\ wptr' \in Index /\ get.wptr \in Index
  BY DEF RngInv, TypeOK
<1>2. /\ rngbuf_n_bytes(wptr', rptr) = rngbuf_n_bytes(wptr, rptr) + n
      /\ rngbuf_free_bytes(wptr', rptr) = rngbuf_free_bytes(wptr, rptr) - n
  BY <1>1, ProducerMoves
<1>3. /\ rngbuf_n_bytes(wptr, rptr) \in Nat /\ rngbuf_free_bytes(wptr, rptr) \in Nat
      /\ rngbuf_n_bytes(get.wptr, rptr) \in Nat
  BY <1>1, CountBounds
<1>4. wptr # rptr => wptr' # rptr
  <2>1. rngbuf_n_bytes(wptr, rptr) = 0 <=> wptr = rptr
    BY <1>1, CountBounds
  <2>2. rngbuf_n_bytes(wptr', rptr) = 0 <=> wptr' = rptr
    BY <1>1, CountBounds
  <2> QED
    BY <1>2, <1>3, <2>1, <2>2
<1> QED
  BY <1>2, <1>3, <1>4 DEF RngInv, CountsStaySafe, rngbuf_n_bytes, rngbuf_free_bytes, Wrapped

LEMMA GetMoves ==
  ASSUME RngInv, TypeOK', NEW n \in Nat, n <= rngbuf_n_bytes(wptr, rptr),
         rptr' = rptr + n \/ rptr' = rptr + n - Size,
         UNCHANGED <<wptr, put, ahead>>, get'.pc = "idle"
  PROVE  CountsStaySafe'
PROOF
<1>1. wptr \in Index /\ rptr \in Index /\ rptr' \in Index /\ put.rptr \in Index
  BY DEF RngInv, TypeOK
<1>2. /\ rngbuf_n_bytes(wptr, rptr') = rngbuf_n_bytes(wptr, rptr) - n
      /\ rngbuf_free_bytes(wptr, rptr') = rngbuf_free_bytes(wptr, rptr) + n
  BY <1>1, ConsumerMoves
<1>3. /\ rngbuf_n_bytes(wptr, rptr) \in Nat /\ rngbuf_free_bytes(wptr, rptr) \in Nat
      /\ rngbuf_free_bytes(wptr, put.rptr) \in Nat /\ Len(ahead) \in Nat
  BY <1>1, CountBounds, LenProperties DEF RngInv, TypeOK
<1>4. wptr # rptr - 1 => wptr # rptr' - 1
  <2>1. wptr = rptr' - 1 => rngbuf_free_bytes(wptr, rptr') = 0
    BY <1>1, CountBounds
  <2>2. n = 0 => rptr' = rptr
    BY <1>1, RngAssumption DEF Index
  <2> QED
    BY <1>2, <1>3, <2>1, <2>2
<1> QED
  BY <1>2, <1>3, <1>4 DEF RngInv, CountsStaySafe

LEMMA ProducerCounts == RngInv /\ TypeOK' /\ Producer => CountsStaySafe'
PROOF
<1> SUFFICES ASSUME RngInv, TypeOK', Producer PROVE CountsStaySafe'
  OBVIOUS
<1>t. TypeOK /\ CountsStaySafe
  BY DEF RngInv
<1>i. wptr \in Index /\ rptr \in Index /\ put.rptr \in Index
  BY <1>t DEF TypeOK
<1>n. /\ rngbuf_free_bytes(wptr, rptr) \in Nat /\ Len(<<>>) = 0 /\ Len(ahead) \in Nat
      /\ rngbuf_free_bytes(wptr, put.rptr) \in Nat
  BY <1>t, <1>i, CountBounds, EmptySeq, LenProperties DEF TypeOK
<1>1. ASSUME NEW s \in BoundedSeq(Byte, MaxRequest), PutBegin(s)
      PROVE  CountsStaySafe'
  BY <1>1, <1>t, <1>n DEF PutBegin, CountsStaySafe
<1>2. CASE PutCopy
  BY <1>2, <1>t DEF PutCopy, CountsStaySafe, TypeOK
<1>3. CASE PutFinish
  <2> DEFINE second == Fewer(Len(put.data) - PutFirst, put.rptr - 1)
  <2>0. /\ rngbuf_free_bytes(wptr, put.rptr) <= rngbuf_free_bytes(wptr, rptr)
        /\ ahead' = <<>> /\ put'.pc = "idle" /\ UNCHANGED <<rptr, get>>
    BY <1>3, <1>t DEF PutFinish, CountsStaySafe, NoPut
  <2>1. CASE wptr + PutFirst = Size
    <3>1. /\ second \in Nat /\ PutFirst \in Nat
          /\ PutFirst + second <= rngbuf_free_bytes(wptr, put.rptr)
      BY <2>1, <1>t, PutFits
    <3>2. wptr' = second
      BY <1>3, <2>1 DEF PutFinish
    <3> HIDE DEF second
    <3>3. /\ PutFirst + second \in Nat /\ PutFirst + second <= rngbuf_free_bytes(wptr, rptr)
          /\ wptr' = wptr + (PutFirst + second) - Size
          /\ Len(ahead') <= rngbuf_free_bytes(wptr, rptr) - (PutFirst + second)
      BY <1>i, <1>n, <2>0, <2>1, <3>1, <3>2, RngAssumption DEF Index
    <3> QED
      BY <2>0, <3>3, PutMoves
  <2>2. CASE wptr + PutFirst # Size
    <3>1. /\ PutFirst \in Nat /\ PutFirst <= rngbuf_free_bytes(wptr, put.rptr)
      BY <1>t, PutFits
    <3>2. wptr' = wptr + PutFirst
      BY <1>3, <2>2 DEF PutFinish
    <3>3. /\ PutFirst <= rngbuf_free_bytes(wptr, rptr)
          /\ Len(ahead') <= rngbuf_free_bytes(wptr, rptr) - PutFirst
      BY <1>n, <2>0, <3>1
    <3> QED
      BY <2>0, <3>1, <3>2, <3>3, PutMoves
  <2> QED
    BY <2>1, <2>2
<1>4. ASSUME NEW b \in Byte, ElemPutTest(b)
      PROVE  CountsStaySafe'
  <2>1. CASE ElemPutFull
    BY <2>1, <1>t, <1>n DEF ElemPutFull, NoPut, CountsStaySafe
  <2>2. CASE /\ wptr # rptr - 1 /\ put' = [NoPut EXCEPT !.pc = "elem", !.data = <<b>>]
             /\ UNCHANGED <<wptr, rptr, buf, get, ahead, accepted, delivered>>
    BY <2>2, <1>t DEF NoPut, CountsStaySafe
  <2> QED
    BY <1>4, <2>1, <2>2 DEF ElemPutTest
<1>5. CASE ElemPutStore
  <2>1. CASE ElemPutFull
    BY <2>1, <1>t, <1>n DEF ElemPutFull, NoPut, CountsStaySafe
  <2>2. CASE ~ElemPutFull
    <3>1. /\ ~(wptr = Size - 1 /\ rptr = 0) /\ put.pc = "elem"
          /\ wptr' = IF wptr = Size - 1 THEN 0 ELSE wptr + 1
          /\ ahead' = <<>> /\ put'.pc = "idle" /\ UNCHANGED <<rptr, get>>
      BY <1>5, <2>2 DEF ElemPutStore, NoPut
    <3>2. wptr # rptr - 1
      BY <1>t, <3>1 DEF CountsStaySafe
    <3>3. 1 <= rngbuf_free_bytes(wptr, rptr)
      BY <1>i, <3>1, <3>2, RngAssumption DEF rngbuf_free_bytes, Wrapped, Index
    <3>4. wptr' = wptr + 1 \/ wptr' = wptr + 1 - Size
      BY <1>i, <3>1, RngAssumption DEF Index
    <3>5. Len(ahead') <= rngbuf_free_bytes(wptr, rptr) - 1
      BY <1>n, <3>1, <3>3
    <3> QED
      BY <3>1, <3>3, <3>4, <3>5, PutMoves
  <2> QED
    BY <2>1, <2>2
<1>6. ASSUME NEW n \in 0 .. Size, MoveAhead(n)
      PROVE  CountsStaySafe'
  <2>1. /\ n <= Len(ahead) /\ Len(ahead) <= rngbuf_free_bytes(wptr, rptr)
        /\ put'.pc = "idle" /\ UNCHANGED <<rptr, get>>
    BY <1>6, <1>t DEF MoveAhead, CountsStaySafe
  <2>2. wptr' = wptr + n \/ wptr' = wptr + n - Size
    BY <1>6 DEF MoveAhead, Ahead
  <2>3. Len(SubSeq(ahead, n + 1, Len(ahead))) = Len(ahead) - n
    BY <1>t, <1>n, <2>1, SubSeqProperties, ElementOfSeq, LenProperties, RngAssumption DEF TypeOK
  <2>4. n \in Nat /\ n <= rngbuf_free_bytes(wptr, rptr)
        /\ Len(ahead') <= rngbuf_free_bytes(wptr, rptr) - n
    BY <1>6, <1>n, <2>1, <2>3, RngAssumption DEF MoveAhead
  <2> QED
    BY <2>1, <2>2, <2>4, PutMoves
<1>7. ASSUME NEW n \in 0 .. Size, NEW b \in Byte, PutAhead(b, n)
      PROVE  CountsStaySafe'
  <2>1. /\ n = Len(ahead) => Len(ahead') = Len(ahead) + 1
        /\ n < Len(ahead) => Len(ahead') = Len(ahead)
    BY <1>7, <1>t, <1>n, ExceptSeq, RngAssumption DEF PutAhead, ReplaceAt, TypeOK
  <2>2. Len(ahead') <= rngbuf_free_bytes(wptr, rptr)
    BY <1>7, <1>t, <1>n, <2>1, RngAssumption DEF PutAhead, CountsStaySafe
  <2> QED
    BY <1>7, <1>t, <2>2 DEF PutAhead, CountsStaySafe
<1> QED
  BY <1>1, <1>2, <1>3, <1>4, <1>5, <1>6, <1>7 DEF Producer

LEMMA ConsumerCounts == RngInv /\ TypeOK' /\ Consumer => CountsStaySafe'
PROOF
<1> SUFFICES ASSUME RngInv, TypeOK', Consumer PROVE CountsStaySafe'
  OBVIOUS
<1>t. TypeOK /\ CountsStaySafe
  BY DEF RngInv
<1>i. wptr \in Index /\ rptr \in Index /\ get.wptr \in Index
  BY <1>t DEF TypeOK
<1>n. /\ rngbuf_n_bytes(wptr, rptr) \in Nat /\ rngbuf_n_bytes(get.wptr, rptr) \in Nat
  BY <1>i, CountBounds
<1>1. ASSUME NEW max \in 0 .. MaxRequest, GetBegin(max)
      PROVE  CountsStaySafe'
  BY <1>1, <1>t, <1>n DEF GetBegin, CountsStaySafe
<1>2. CASE GetCopy
  BY <1>2, <1>t DEF GetCopy, CountsStaySafe, TypeOK
<1>3. CASE GetFinish
  <2> DEFINE second == Fewer(get.max - GetFirst, get.wptr)
  <2>0. /\ rngbuf_n_bytes(get.wptr, rptr) <= rngbuf_n_bytes(wptr, rptr)
        /\ get'.pc = "idle" /\ UNCHANGED <<wptr, put, ahead>>
    BY <1>3, <1>t DEF GetFinish, CountsStaySafe, NoGet
  <2>1. CASE get.wptr < rptr /\ rptr + GetFirst = Size
    <3>1. /\ second \in Nat /\ GetFirst \in Nat
          /\ GetFirst + second <= rngbuf_n_bytes(get.wptr, rptr)
      BY <2>1, <1>t, GetFits
    <3>2. rptr' = second
      BY <1>3, <2>1 DEF GetFinish
    <3> HIDE DEF second
    <3>3. /\ GetFirst + second \in Nat /\ GetFirst + second <= rngbuf_n_bytes(wptr, rptr)
          /\ rptr' = rptr + (GetFirst + second) - Size
      BY <1>i, <1>n, <2>0, <2>1, <3>1, <3>2, RngAssumption DEF Index
    <3> QED
      BY <2>0, <3>3, GetMoves
  <2>2. CASE ~(get.wptr < rptr /\ rptr + GetFirst = Size)
    <3>1. GetFirst \in Nat /\ GetFirst <= rngbuf_n_bytes(get.wptr, rptr)
      BY <1>t, GetFits
    <3>2. rptr' = rptr + GetFirst
      BY <1>3, <2>2 DEF GetFinish
    <3>3. GetFirst <= rngbuf_n_bytes(wptr, rptr)
      BY <1>n, <2>0, <3>1
    <3> QED
      BY <2>0, <3>1, <3>2, <3>3, GetMoves
  <2> QED
    BY <2>1, <2>2
<1>4. CASE ElemGetTest
  BY <1>4, <1>t DEF ElemGetTest, NoGet, CountsStaySafe
<1>5. CASE ElemGetTake
  <2>1. wptr # rptr /\ get'.pc = "idle" /\ UNCHANGED <<wptr, put, ahead>>
    BY <1>5, <1>t DEF ElemGetTake, CountsStaySafe, NoGet
  <2>2. rptr' = rptr + 1 \/ rptr' = rptr + 1 - Size
    BY <1>5, <1>i, RngAssumption DEF ElemGetTake, Index
  <2>3. 1 <= rngbuf_n_bytes(wptr, rptr)
    BY <1>i, <2>1, RngAssumption DEF rngbuf_n_bytes, Wrapped, Index
  <2> QED
    BY <2>1, <2>2, <2>3, GetMoves
<1> QED
  BY <1>1, <1>2, <1>3, <1>4, <1>5 DEF Consumer

LEMMA RngStep == RngInv /\ [Next]_vars => RngInv'
PROOF
<1> SUFFICES ASSUME RngInv, [Next]_vars PROVE RngInv'
  OBVIOUS
<1>1. TypeOK'
  BY TypeStep DEF RngInv
<1>2. CASE UNCHANGED vars
  BY <1>2 DEF vars, RngInv, TypeOK, CountsStaySafe
<1>3. CASE Flush
  <2>1. Len(<<>>) = 0 /\ 0 \in Index
    BY EmptySeq, RngAssumption DEF Index
  <2>2. CountsStaySafe'
    BY <1>3, <2>1, CountBounds, RngAssumption DEF Flush, CountsStaySafe
  <2> QED
    BY <1>1, <2>2 DEF RngInv
<1>4. CASE Producer
  BY <1>1, <1>4, ProducerCounts DEF RngInv
<1>5. CASE Consumer
  BY <1>1, <1>5, ConsumerCounts DEF RngInv
<1> QED
  BY <1>2, <1>3, <1>4, <1>5 DEF Next

(* The inductive invariant: an old copy of the other side's pointer never  *)
(* makes a side count room or bytes that are not there.                    *)
THEOREM RngIsInvariant == Spec => []RngInv
PROOF
<1>1. Init => RngInv
  BY InitEstablishes
<1>2. RngInv /\ [Next]_vars => RngInv'
  BY RngStep
<1> QED
  BY <1>1, <1>2, PTL DEF Spec

(* The indices of the room are not those of unread bytes.                  *)
LEMMA RoomIsFree ==
  ASSUME TypeOK, NEW j \in Nat, j < rngbuf_free_bytes(wptr, rptr)
  PROVE  Ahead(wptr, j) \notin Filled
PROOF
<1>1. wptr \in Index /\ rptr \in Index
  BY DEF TypeOK
<1> QED
  BY <1>1, RngAssumption DEF Ahead, Filled, rngbuf_free_bytes, Wrapped, Index

(* A copy changes only the indices it goes to.                             *)
LEMMA CopiedKeeps ==
  ASSUME TypeOK, NEW s \in Seq(Byte), NEW i \in Nat, NEW k \in Index,
         k < i \/ k >= i + Len(s)
  PROVE  Copied(s, i)[k] = buf[k]
PROOF
<1>1. Len(s) \in Nat /\ DOMAIN s = 1 .. Len(s)
  BY LenProperties
<1>2. k - i + 1 \notin DOMAIN s
  BY <1>1, RngAssumption DEF Index
<1> QED
  BY <1>2 DEF Copied

LEMMA UnreadStep == RngInv /\ [Next]_vars => \A i \in Filled : buf'[i] = buf[i]
PROOF
<1> SUFFICES ASSUME RngInv, [Next]_vars, NEW i \in Filled
             PROVE  buf'[i] = buf[i]
  OBVIOUS
<1>t. TypeOK /\ CountsStaySafe
  BY DEF RngInv
<1>i. wptr \in Index /\ rptr \in Index /\ i \in Index /\ put.rptr \in Index
  BY <1>t DEF TypeOK, Filled
<1>m. /\ rngbuf_free_bytes(wptr, rptr) \in Nat
      /\ rngbuf_free_bytes(wptr, put.rptr) \in Nat
  BY <1>i, CountBounds
<1>w. wptr \in Nat
  BY <1>i, RngAssumption DEF Index
<1>n. /\ rngbuf_free_bytes(wptr, rptr) \in Nat /\ rngbuf_free_bytes(wptr, put.rptr) \in Nat
      /\ wptr \in Nat
  BY <1>m, <1>w
<1>1. CASE PutCopy
  <2>1. /\ PutFirst \in Nat /\ PutFirst <= Len(put.data) /\ wptr + PutFirst <= Size
        /\ PutFirst <= rngbuf_free_bytes(wptr, put.rptr)
    BY <1>t, PutFits
  <2>2. PutFirst <= rngbuf_free_bytes(wptr, rptr)
    BY <1>1, <1>t, <1>n, <2>1 DEF PutCopy, CountsStaySafe
  <2> DEFINE s == SubSeq(put.data, 1, PutFirst)
  <2>3. s \in Seq(Byte) /\ Len(s) = PutFirst
    BY <1>t, <2>1, SubSeqProperties, ElementOfSeq, LenProperties DEF TypeOK
  <2>4. i < wptr \/ i >= wptr + PutFirst
    <3> SUFFICES ASSUME i >= wptr, i < wptr + PutFirst PROVE FALSE
      BY <1>i, <1>n, <2>1, RngAssumption DEF Index
    <3>1. i - wptr \in Nat /\ i - wptr < rngbuf_free_bytes(wptr, rptr)
      BY <1>i, <1>n, <2>1, <2>2, RngAssumption DEF Index
    <3>2. Ahead(wptr, i - wptr) = i
      BY <1>i, RngAssumption DEF Ahead, Index
    <3> QED
      BY <1>t, <3>1, <3>2, RoomIsFree
  <2>5. buf' = Copied(s, wptr)
    BY <1>1 DEF PutCopy
  <2> HIDE DEF s
  <2> QED
    BY <1>t, <1>i, <1>n, <2>3, <2>4, <2>5, CopiedKeeps
<1>2. CASE PutFinish
  <2>1. CASE wptr + PutFirst = Size
    <3> DEFINE second == Fewer(Len(put.data) - PutFirst, put.rptr - 1)
    <3>1. /\ second \in Nat /\ PutFirst \in Nat /\ PutFirst + second <= Len(put.data)
          /\ PutFirst + second <= rngbuf_free_bytes(wptr, put.rptr)
          /\ second < put.rptr
      BY <2>1, <1>t, PutFits
    <3>2. buf' = Copied(SubSeq(put.data, PutFirst + 1, PutFirst + second), 0)
      BY <1>2, <2>1 DEF PutFinish
    <3> HIDE DEF second
    <3>3. PutFirst + second <= rngbuf_free_bytes(wptr, rptr)
      BY <1>2, <1>t, <1>n, <3>1 DEF PutFinish, CountsStaySafe
    <3> DEFINE s == SubSeq(put.data, PutFirst + 1, PutFirst + second)
    <3>4. s \in Seq(Byte) /\ Len(s) = second
      <4>1. \A k \in PutFirst + 1 .. PutFirst + second : put.data[k] \in Byte
        BY <1>t, <3>1, ElementOfSeq, LenProperties DEF TypeOK
      <4> QED
        BY <3>1, <4>1, SubSeqProperties
    <3>5. i >= 0 + second
      <4> SUFFICES ASSUME i < second PROVE FALSE
        BY <1>i, <3>1, RngAssumption DEF Index
      <4>1. /\ PutFirst + i \in Nat /\ PutFirst + i < rngbuf_free_bytes(wptr, rptr)
        BY <1>i, <1>n, <3>1, <3>3, RngAssumption DEF Index
      <4>2. Ahead(wptr, PutFirst + i) = i
        BY <1>i, <2>1, <3>1, RngAssumption DEF Ahead, Index
      <4> QED
        BY <1>t, <4>1, <4>2, RoomIsFree
    <3>6. buf' = Copied(s, 0)
      BY <3>2
    <3> HIDE DEF s
    <3> QED
      BY <1>t, <1>i, <3>4, <3>5, <3>6, CopiedKeeps
  <2>2. CASE wptr + PutFirst # Size
    BY <1>2, <2>2 DEF PutFinish
  <2> QED
    BY <2>1, <2>2
<1>3. CASE ElemPutStore
  <2>1. CASE ElemPutFull
    BY <2>1 DEF ElemPutFull
  <2>2. CASE ~ElemPutFull
    <3>1. /\ ~(wptr = Size - 1 /\ rptr = 0) /\ wptr # rptr - 1
          /\ buf' = [buf EXCEPT ![wptr] = put.data[1]]
      BY <1>3, <2>2, <1>t DEF ElemPutStore, CountsStaySafe
    <3>2. 0 < rngbuf_free_bytes(wptr, rptr) /\ Ahead(wptr, 0) = wptr
      BY <1>i, <3>1, RngAssumption DEF rngbuf_free_bytes, Wrapped, Ahead, Index
    <3>3. wptr \notin Filled
      BY <1>t, <3>2, RoomIsFree
    <3> QED
      BY <1>t, <3>1, <3>3 DEF TypeOK
  <2> QED
    BY <2>1, <2>2
<1>4. ASSUME NEW n \in 0 .. Size, NEW b \in Byte, PutAhead(b, n)
      PROVE  buf'[i] = buf[i]
  <2>1. n \in Nat /\ n < rngbuf_free_bytes(wptr, rptr)
    BY <1>4, <1>n, RngAssumption DEF PutAhead
  <2>2. Ahead(wptr, n) \notin Filled
    BY <1>t, <2>1, RoomIsFree
  <2> QED
    BY <1>4, <1>t, <2>2 DEF PutAhead, TypeOK
<1>5. CASE Consumer \/ Flush \/ UNCHANGED vars
  BY <1>5 DEF Consumer, GetBegin, GetCopy, GetFinish, ElemGetTest, ElemGetTake, Flush, vars
<1>6. ASSUME NEW s \in BoundedSeq(Byte, MaxRequest), PutBegin(s)
      PROVE  buf'[i] = buf[i]
  BY <1>6 DEF PutBegin
<1>7. ASSUME NEW n \in 0 .. Size, MoveAhead(n)
      PROVE  buf'[i] = buf[i]
  BY <1>7 DEF MoveAhead
<1>8. ASSUME NEW b \in Byte, ElemPutTest(b)
      PROVE  buf'[i] = buf[i]
  BY <1>8 DEF ElemPutTest, ElemPutFull
<1> QED
  BY <1>1, <1>2, <1>3, <1>4, <1>5, <1>6, <1>7, <1>8 DEF Next, Producer

(* No unread byte is ever overwritten, although a put looks at rptr once   *)
(* and before it copies.                                                   *)
THEOREM UnreadIsKept == Spec => UnreadKept
PROOF
<1>1. RngInv /\ [Next]_vars => [\A i \in Filled : buf'[i] = buf[i]]_buf
  BY UnreadStep
<1> QED
  BY RngIsInvariant, <1>1, PTL DEF Spec, UnreadKept

-----------------------------------------------------------------------------
(* The ring is a bounded queue.                                            *)

LEMMA ModuloOnce ==
  ASSUME NEW s \in Nat \ {0}, NEW x \in Nat, x < s + s
  PROVE  x % s = IF x >= s THEN x - s ELSE x
PROOF
  BY SMTT(30)

LEMMA AheadIsMod ==
  ASSUME NEW i \in Index, NEW n \in 0 .. Size
  PROVE  Ahead(i, n) = (i + n) % Size /\ Ahead(i, n) \in Index
PROOF
<1>1. i + n \in Nat /\ i + n < Size + Size /\ Size \in Nat \ {0}
  BY RngAssumption DEF Index
<1>2. (i + n) % Size = IF i + n >= Size THEN i + n - Size ELSE i + n
  <2> DEFINE x == i + n
  <2>1. x \in Nat /\ x < Size + Size /\ Size \in Nat \ {0}
    BY <1>1
  <2> HIDE DEF x
  <2>2. x % Size = IF x >= Size THEN x - Size ELSE x
    BY ONLY <2>1, ModuloOnce
  <2> QED
    BY <1>1, <2>1, <2>2, RngAssumption DEF x, Index
<1> QED
  BY <1>1, <1>2 DEF Ahead, Index

LEMMA FilledCount ==
  ASSUME TypeOK
  PROVE  Cardinality(Filled) = rngbuf_n_bytes(wptr, rptr)
PROOF
<1>1. wptr \in Int /\ rptr \in Int /\ wptr >= 0 /\ rptr >= 0 /\ wptr < Size /\ rptr < Size
      /\ Size \in Int
  BY RngAssumption DEF TypeOK, Index
<1>2. CASE rptr <= wptr
  <2>1. Filled = rptr .. wptr - 1
    BY <1>1, <1>2 DEF Filled, Index
  <2>2. Cardinality(rptr .. wptr - 1) = wptr - rptr
    <3>1. rptr \in Int /\ wptr - 1 \in Int
      BY <1>1
    <3>2. Cardinality(rptr .. wptr - 1) = IF rptr > wptr - 1 THEN 0 ELSE (wptr - 1) - rptr + 1
      BY <3>1, FS_Interval
    <3>3. (IF rptr > wptr - 1 THEN 0 ELSE (wptr - 1) - rptr + 1) = wptr - rptr
      BY <1>1, <1>2
    <3> QED
      BY <3>2, <3>3
  <2> QED
    BY <1>1, <1>2, <2>1, <2>2 DEF rngbuf_n_bytes, Wrapped
<1>3. CASE ~(rptr <= wptr)
  <2>1. Filled = (0 .. wptr - 1) \cup (rptr .. Size - 1)
    BY <1>1, <1>3 DEF Filled, Index
  <2>2. /\ IsFiniteSet(0 .. wptr - 1) /\ IsFiniteSet(rptr .. Size - 1)
        /\ Cardinality(0 .. wptr - 1) = wptr
        /\ Cardinality(rptr .. Size - 1) = Size - rptr
    BY <1>1, FS_Interval
  <2>3. (0 .. wptr - 1) \cap (rptr .. Size - 1) = {}
    BY <1>1, <1>3
  <2>4. Cardinality((0 .. wptr - 1) \cup (rptr .. Size - 1)) = wptr + (Size - rptr)
    <3>1. PICK S, T : S = 0 .. wptr - 1 /\ T = rptr .. Size - 1
      OBVIOUS
    <3>2. IsFiniteSet(S) /\ IsFiniteSet(T) /\ Cardinality(S) = wptr
          /\ Cardinality(T) = Size - rptr /\ S \cap T = {}
      BY <2>2, <2>3, <3>1, Zenon
    <3>3. Cardinality(S \cap T) = 0
      BY <3>2, FS_EmptySet
    <3>4. Cardinality(S \cup T) = Cardinality(S) + Cardinality(T) - Cardinality(S \cap T)
      BY <3>2, FS_Union
    <3>5. Cardinality(S \cup T) = wptr + (Size - rptr)
      BY <1>1, <3>2, <3>3, <3>4
    <3> QED
      BY <3>1, <3>5, Zenon
  <2> QED
    BY <1>1, <1>3, <2>1, <2>4 DEF rngbuf_n_bytes, Wrapped
<1> QED
  BY <1>2, <1>3

LEMMA ContentsIs ==
  ASSUME TypeOK
  PROVE  /\ Contents \in Seq(Byte) /\ Len(Contents) = rngbuf_n_bytes(wptr, rptr)
         /\ \A k \in 1 .. rngbuf_n_bytes(wptr, rptr) :
              Contents[k] = buf[Ahead(rptr, k - 1)] /\ Ahead(rptr, k - 1) \in Filled
PROOF
<1>1. wptr \in Index /\ rptr \in Index /\ buf \in [Index -> Byte]
  BY DEF TypeOK
<1>2. PICK n : n = rngbuf_n_bytes(wptr, rptr)
  OBVIOUS
<1>3. n \in Nat /\ n <= Size - 1 /\ Size \in Nat
  BY <1>1, <1>2, CountBounds, RngAssumption
<1>4. \A k \in 1 .. n : /\ Ahead(rptr, k - 1) = (rptr + k - 1) % Size
                        /\ Ahead(rptr, k - 1) \in Index
  <2> TAKE k \in 1 .. n
  <2>1. k - 1 \in 0 .. Size
    BY <1>3
  <2>2. Ahead(rptr, k - 1) = (rptr + (k - 1)) % Size /\ Ahead(rptr, k - 1) \in Index
    BY <1>1, <2>1, AheadIsMod
  <2>3. rptr + (k - 1) = rptr + k - 1
    BY <1>1, <1>3, RngAssumption DEF Index
  <2> QED
    BY <2>2, <2>3, Zenon
<1>5. Contents = [k \in 1 .. n |-> buf[Ahead(rptr, k - 1)]]
  <2>1. Cardinality(Filled) = n
    BY <1>2, FilledCount
  <2> QED
    BY <1>4, <2>1 DEF Contents
<1>6. Contents \in Seq(Byte) /\ Len(Contents) = n
  <2>1. \A k \in 1 .. n : buf[Ahead(rptr, k - 1)] \in Byte
    BY <1>1, <1>4
  <2> QED
    BY <1>3, <1>5, <2>1
<1>7. \A k \in 1 .. n : Ahead(rptr, k - 1) \in Filled
  BY <1>1, <1>2, <1>4, RngAssumption DEF Ahead, Filled, rngbuf_n_bytes, Wrapped, Index
<1> QED
  BY <1>2, <1>5, <1>6, <1>7

(* The same of the next state.                                             *)
Reads ==
  /\ Contents \in Seq(Byte) /\ Len(Contents) = rngbuf_n_bytes(wptr, rptr)
  /\ \A k \in 1 .. rngbuf_n_bytes(wptr, rptr) : Contents[k] = buf[Ahead(rptr, k - 1)]

LEMMA ContentsNext == TypeOK' => Reads'
PROOF
<1>1. TypeOK => Reads
  BY ContentsIs DEF Reads
<1> QED
  BY <1>1, PTL

(* Every accounting function, wherever the pointers are.                   *)
THEOREM AccountsAreRight == Spec => []AccountsAgree
PROOF
<1>1. TypeOK => AccountsAgree
  <2> SUFFICES ASSUME TypeOK PROVE AccountsAgree
    OBVIOUS
  <2>1. wptr \in Index /\ rptr \in Index
    BY DEF TypeOK
  <2>2. PICK c, n : c = Contents /\ n = rngbuf_n_bytes(wptr, rptr)
    OBVIOUS
  <2>3. c \in Seq(Byte) /\ Len(c) = n
    BY <2>2, ContentsIs
  <2>4. /\ n \in Nat /\ (n = 0 <=> wptr = rptr)
        /\ rngbuf_free_bytes(wptr, rptr) = Size - 1 - n
    BY <2>1, <2>2, CountBounds
  <2>5. c = <<>> <=> n = 0
    BY <2>3, EmptySeq
  <2>6. rngbuf_is_full(wptr, rptr) <=> n = Size - 1
    BY <2>1, <2>2, RngAssumption DEF rngbuf_is_full, rngbuf_n_bytes, Wrapped, Index
  <2> QED
    BY <2>2, <2>3, <2>4, <2>5, <2>6 DEF AccountsAgree, rngbuf_is_empty
<1>2. RngInv => TypeOK
  BY DEF RngInv
<1> QED
  BY <1>1, <1>2, RngIsInvariant, PTL

(* Index arithmetic: behind n unread bytes comes the room.                 *)
LEMMA AheadTwice ==
  ASSUME NEW i \in Index, NEW m \in Nat, NEW n \in Nat, m + n <= Size
  PROVE  Ahead(Ahead(i, m), n) = Ahead(i, m + n)
PROOF
  BY RngAssumption DEF Ahead, Index

LEMMA WriteIndex ==
  ASSUME NEW w \in Index, NEW r \in Index
  PROVE  w = Ahead(r, rngbuf_n_bytes(w, r))
PROOF
  BY RngAssumption DEF Ahead, Index, rngbuf_n_bytes, Wrapped

(* The n bytes of s behind the first m.                                    *)
LEMMA Slice ==
  ASSUME NEW s \in Seq(Byte), NEW m \in Nat, NEW n \in Nat, m + n <= Len(s)
  PROVE  /\ SubSeq(s, m + 1, m + n) \in Seq(Byte) /\ Len(SubSeq(s, m + 1, m + n)) = n
         /\ DOMAIN SubSeq(s, m + 1, m + n) = 1 .. n
         /\ \A j \in 1 .. n : SubSeq(s, m + 1, m + n)[j] = s[m + j]
PROOF
<1>1. PICK t : t = SubSeq(s, m + 1, m + n)
  OBVIOUS
<1>2. Len(s) \in Nat /\ m + 1 \in Int /\ m + n \in Int
  BY LenProperties
<1>3. \A j \in m + 1 .. m + n : s[j] \in Byte
  BY <1>2, ElementOfSeq
<1>4. /\ t \in Seq(Byte) /\ Len(t) = IF m + 1 <= m + n THEN m + n - (m + 1) + 1 ELSE 0
      /\ \A j \in 1 .. m + n - (m + 1) + 1 : t[j] = s[(m + 1) + j - 1]
  BY <1>1, <1>2, <1>3, SubSeqProperties
<1>5. m + n - (m + 1) + 1 = n /\ \A j \in 1 .. n : (m + 1) + j - 1 = m + j
  OBVIOUS
<1>6. Len(t) = n
  BY <1>4, <1>5
<1>7. DOMAIN t = 1 .. n
  BY <1>4, <1>6, LenProperties
<1>8. \A j \in 1 .. n : t[j] = s[m + j]
  BY <1>4, <1>5
<1> QED
  BY <1>1, <1>4, <1>6, <1>7, <1>8, Zenon

LEMMA Prefix ==
  ASSUME NEW s \in Seq(Byte), NEW n \in Nat, n <= Len(s)
  PROVE  /\ SubSeq(s, 1, n) \in Seq(Byte) /\ Len(SubSeq(s, 1, n)) = n
         /\ DOMAIN SubSeq(s, 1, n) = 1 .. n
         /\ \A j \in 1 .. n : SubSeq(s, 1, n)[j] = s[j]
PROOF
<1>1. 0 + n <= Len(s) /\ 0 + 1 = 1 /\ 0 + n = n
  BY LenProperties
<1>2. \A j \in 1 .. n : 0 + j = j
  OBVIOUS
<1>3. /\ SubSeq(s, 1, n) \in Seq(Byte) /\ Len(SubSeq(s, 1, n)) = n
      /\ DOMAIN SubSeq(s, 1, n) = 1 .. n
      /\ \A j \in 1 .. n : SubSeq(s, 1, n)[j] = s[0 + j]
  <2>1. 0 \in Nat
    OBVIOUS
  <2> QED
    BY <1>1, <2>1, Slice
<1> QED
  BY <1>2, <1>3

(* A producer that stores n bytes into the room and then moves wptr       *)
(* appends them.                                                           *)
LEMMA QueueGrows ==
  ASSUME TypeOK, TypeOK', rptr' = rptr, NEW n \in Nat, n <= rngbuf_free_bytes(wptr, rptr),
         wptr' = Ahead(wptr, n), \A i \in Filled : buf'[i] = buf[i],
         NEW s \in Seq(Byte), Len(s) = n,
         \A j \in 1 .. n : buf'[Ahead(wptr, j - 1)] = s[j]
  PROVE  Contents' = Contents \o s
PROOF
<1>1. wptr \in Index /\ rptr \in Index /\ wptr' \in Index
  BY ONLY TypeOK, TypeOK' DEF TypeOK
<1>2. PICK N : N = rngbuf_n_bytes(wptr, rptr)
  OBVIOUS
<1>3. N \in Nat /\ N + n <= Size - 1 /\ Size \in Nat
  <2>1. N \in Nat /\ n <= Size - 1 - N /\ Size \in Nat
    BY <1>1, <1>2, CountBounds, RngAssumption
  <2> QED
    BY ONLY <2>1, n \in Nat
<1>4. rngbuf_n_bytes(wptr', rptr) = N + n
  <2>1. wptr' = wptr + n \/ wptr' = wptr + n - Size
    BY DEF Ahead
  <2> QED
    BY <1>1, <1>2, <2>1, ProducerMoves
<1>5. PICK c, d : c = Contents /\ d = Contents'
  OBVIOUS
<1>6. /\ c \in Seq(Byte) /\ Len(c) = N
      /\ \A k \in 1 .. N : c[k] = buf[Ahead(rptr, k - 1)] /\ Ahead(rptr, k - 1) \in Filled
  BY ONLY TypeOK, <1>2, <1>5, ContentsIs, SMTT(30)
<1>7. /\ d \in Seq(Byte) /\ Len(d) = N + n
      /\ \A k \in 1 .. N + n : d[k] = buf'[Ahead(rptr, k - 1)]
  <2>1. Reads'
    BY ContentsNext
  <2> QED
    BY <1>4, <1>5, <2>1 DEF Reads
<1>8. /\ c \o s \in Seq(Byte) /\ Len(c \o s) = N + n
      /\ \A k \in 1 .. N + n : (c \o s)[k] = IF k <= N THEN c[k] ELSE s[k - N]
  BY ONLY <1>6, s \in Seq(Byte), Len(s) = n, ConcatProperties, SMTT(30)
<1>9. ASSUME NEW k \in 1 .. N + n
      PROVE  d[k] = (c \o s)[k]
  <2>1. CASE k <= N
    <3>1. k \in 1 .. N
      BY <1>3, <2>1
    <3> QED
      <4>1. (c \o s)[k] = c[k] /\ c[k] = buf[Ahead(rptr, k - 1)]
            /\ Ahead(rptr, k - 1) \in Filled
        BY ONLY <1>6, <1>8, <2>1, <3>1, k \in 1 .. N + n
      <4>2. d[k] = buf'[Ahead(rptr, k - 1)]
        BY <1>7
      <4> QED
        BY <4>1, <4>2
  <2>2. CASE ~(k <= N)
    <3>1. k - N \in 1 .. n /\ N + ((k - N) - 1) = k - 1 /\ (k - N) - 1 \in Nat
          /\ N + ((k - N) - 1) <= Size
      BY <1>3, <2>2
    <3>2. Ahead(wptr, (k - N) - 1) = Ahead(rptr, k - 1)
      <4>1. wptr = Ahead(rptr, N)
        BY <1>1, <1>2, WriteIndex
      <4>2. Ahead(Ahead(rptr, N), (k - N) - 1) = Ahead(rptr, N + ((k - N) - 1))
        BY <1>1, <1>3, <3>1, AheadTwice
      <4> QED
        BY <3>1, <4>1, <4>2
    <3>3. buf'[Ahead(wptr, (k - N) - 1)] = s[k - N]
      BY <3>1
    <3> QED
      BY <1>7, <1>8, <2>2, <3>2, <3>3
  <2> QED
    BY <2>1, <2>2
<1>10. d = c \o s
  <2>1. PICK e : e = c \o s
    OBVIOUS
  <2>2. /\ e \in Seq(Byte) /\ Len(e) = N + n /\ d \in Seq(Byte) /\ Len(d) = N + n
        /\ \A k \in 1 .. N + n : d[k] = e[k]
    BY <1>7, <1>8, <1>9, <2>1, Zenon
  <2>3. d = e
    BY ONLY <2>2, SeqEqual
  <2> QED
    BY <2>1, <2>3, Zenon
<1> QED
  BY <1>5, <1>10, Zenon

(* Bytes outside the unread ones do not count.                             *)
LEMMA QueueKept ==
  ASSUME TypeOK, TypeOK', UNCHANGED <<wptr, rptr>>, \A i \in Filled : buf'[i] = buf[i]
  PROVE  Contents' = Contents
PROOF
<1>1. PICK c, d, N : c = Contents /\ d = Contents' /\ N = rngbuf_n_bytes(wptr, rptr)
  OBVIOUS
<1>2. /\ c \in Seq(Byte) /\ Len(c) = N
      /\ \A k \in 1 .. N : c[k] = buf[Ahead(rptr, k - 1)] /\ Ahead(rptr, k - 1) \in Filled
  BY <1>1, ContentsIs
<1>3. /\ d \in Seq(Byte) /\ Len(d) = N
      /\ \A k \in 1 .. N : d[k] = buf'[Ahead(rptr, k - 1)]
  BY <1>1, ContentsNext DEF Reads
<1>4. \A k \in 1 .. N : c[k] = d[k]
  BY <1>2, <1>3
<1>5. c = d
  BY ONLY <1>2, <1>3, <1>4, SeqEqual
<1> QED
  BY <1>1, <1>5, Zenon

(* A consumer that moves rptr by n has taken the n oldest bytes.           *)
LEMMA QueueShrinks ==
  ASSUME TypeOK, TypeOK', UNCHANGED <<wptr, buf>>,
         NEW n \in Nat, n <= rngbuf_n_bytes(wptr, rptr), rptr' = Ahead(rptr, n)
  PROVE  Contents' = SubSeq(Contents, n + 1, Len(Contents))
PROOF
<1>1. wptr \in Index /\ rptr \in Index /\ rptr' \in Index
  BY DEF TypeOK
<1>2. PICK c, d, N : c = Contents /\ d = Contents' /\ N = rngbuf_n_bytes(wptr, rptr)
  OBVIOUS
<1>3. N \in Nat /\ N <= Size - 1 /\ Size \in Nat /\ n <= N
  BY <1>1, <1>2, CountBounds, RngAssumption
<1>4. rngbuf_n_bytes(wptr, rptr') = N - n
  <2>1. rptr' = rptr + n \/ rptr' = rptr + n - Size
    BY DEF Ahead
  <2> QED
    BY <1>1, <1>2, <2>1, ConsumerMoves
<1>5. /\ c \in Seq(Byte) /\ Len(c) = N
      /\ \A k \in 1 .. N : c[k] = buf[Ahead(rptr, k - 1)]
  BY <1>2, ContentsIs
<1>6. /\ d \in Seq(Byte) /\ Len(d) = N - n
      /\ \A k \in 1 .. N - n : d[k] = buf[Ahead(rptr', k - 1)]
  BY <1>2, <1>4, ContentsNext DEF Reads
<1>7. PICK e : e = SubSeq(c, n + 1, N)
  OBVIOUS
<1>8. e \in Seq(Byte) /\ Len(e) = N - n /\ \A k \in 1 .. N - n : e[k] = c[n + k]
  <2>1. N - n \in Nat /\ n + (N - n) <= Len(c) /\ n + (N - n) = N
    BY <1>3, <1>5
  <2> QED
    BY <1>5, <1>7, <2>1, Slice
<1>9. \A k \in 1 .. N - n : d[k] = e[k]
  <2> TAKE k \in 1 .. N - n
  <2>1. /\ n + k \in 1 .. N /\ k - 1 \in Nat /\ n + (k - 1) = (n + k) - 1 /\ n + (k - 1) <= Size
    BY <1>3
  <2>2. Ahead(Ahead(rptr, n), k - 1) = Ahead(rptr, n + (k - 1))
    BY <1>1, <2>1, AheadTwice
  <2>3. d[k] = buf[Ahead(rptr, (n + k) - 1)]
    BY <1>6, <2>1, <2>2
  <2> QED
    BY <1>5, <1>8, <2>1, <2>3
<1>10. d = e
  BY ONLY <1>6, <1>8, <1>9, SeqEqual
<1> QED
  BY <1>2, <1>5, <1>7, <1>10, Zenon

(* What has been copied and not yet published is as it was copied.         *)
PutCopied == put.pc = "finish" =>
  \A j \in 1 .. PutFirst : buf[Ahead(wptr, j - 1)] = put.data[j]
GetCopied == get.pc = "finish" =>
  /\ Len(get.got) = GetFirst
  /\ \A j \in 1 .. GetFirst : get.got[j] = buf[Ahead(rptr, j - 1)]
AheadStored == \A j \in 1 .. Len(ahead) : buf[Ahead(wptr, j - 1)] = ahead[j]

FifoInv == RngInv /\ PutCopied /\ GetCopied /\ AheadStored

(* The calls in progress, as BoundedFifo has them.                         *)
Putting == IF put.pc \in {"copy", "finish"}
           THEN <<put.data, rngbuf_free_bytes(wptr, put.rptr)>> ELSE <<>>
Getting == IF get.pc \in {"copy", "finish"}
           THEN <<get.max, rngbuf_n_bytes(get.wptr, rptr)>> ELSE <<>>

LEMMA InvParts ==
  ASSUME FifoInv
  PROVE  /\ RngInv /\ TypeOK /\ CountsStaySafe /\ PutCopied /\ GetCopied /\ AheadStored
         /\ wptr \in Index /\ rptr \in Index /\ put.rptr \in Index /\ get.wptr \in Index
         /\ rngbuf_n_bytes(wptr, rptr) \in Nat /\ rngbuf_free_bytes(wptr, rptr) \in Nat
         /\ rngbuf_n_bytes(wptr, rptr) <= Size - 1
         /\ Len(Contents) = rngbuf_n_bytes(wptr, rptr) /\ Contents \in Seq(Byte)
         /\ rngbuf_free_bytes(wptr, rptr) = Size - 1 - Len(Contents)
         /\ Size \in Nat \ {0}
PROOF
<1>1. RngInv /\ TypeOK /\ CountsStaySafe /\ PutCopied /\ GetCopied /\ AheadStored
  BY DEF FifoInv, RngInv
<1>2. wptr \in Index /\ rptr \in Index /\ put.rptr \in Index /\ get.wptr \in Index
  BY <1>1 DEF TypeOK
<1>3. /\ rngbuf_n_bytes(wptr, rptr) \in Nat /\ rngbuf_free_bytes(wptr, rptr) \in Nat
      /\ rngbuf_n_bytes(wptr, rptr) <= Size - 1
      /\ rngbuf_free_bytes(wptr, rptr) = Size - 1 - rngbuf_n_bytes(wptr, rptr)
      /\ Size \in Nat \ {0}
  BY <1>2, CountBounds, RngAssumption
<1>4. Contents \in Seq(Byte) /\ Len(Contents) = rngbuf_n_bytes(wptr, rptr)
  BY <1>1, ContentsIs
<1> QED
  BY <1>1, <1>2, <1>3, <1>4

(* The producer does not touch what a get has copied or will copy.         *)
LEMMA GetCopyStays ==
  ASSUME FifoInv, UNCHANGED <<rptr, get>>, \A i \in Filled : buf'[i] = buf[i]
  PROVE  GetCopied'
PROOF
<1>1. SUFFICES ASSUME get.pc = "finish"
      PROVE  /\ Len(get.got) = GetFirst
             /\ \A j \in 1 .. GetFirst : get.got[j] = buf'[Ahead(rptr, j - 1)]
  BY DEF GetCopied, GetFirst
<1>2. GetFirst \in Nat /\ GetFirst <= rngbuf_n_bytes(get.wptr, rptr)
  BY InvParts, GetFits
<1>3. /\ rngbuf_n_bytes(get.wptr, rptr) <= rngbuf_n_bytes(wptr, rptr)
      /\ rngbuf_n_bytes(get.wptr, rptr) \in Nat /\ rngbuf_n_bytes(wptr, rptr) \in Nat
  BY <1>1, InvParts, CountBounds DEF CountsStaySafe
<1>4. \A j \in 1 .. GetFirst : j \in 1 .. rngbuf_n_bytes(wptr, rptr)
  BY <1>2, <1>3
<1>5. \A j \in 1 .. GetFirst : Ahead(rptr, j - 1) \in Filled
  BY <1>4, InvParts, ContentsIs
<1>6. /\ Len(get.got) = GetFirst
      /\ \A j \in 1 .. GetFirst : get.got[j] = buf[Ahead(rptr, j - 1)]
  BY <1>1, InvParts DEF GetCopied
<1> QED
  BY <1>5, <1>6

LEMMA PutBeginStep ==
  ASSUME FifoInv, TypeOK', NEW s \in BoundedSeq(Byte, MaxRequest), PutBegin(s)
  PROVE  PutCopied' /\ GetCopied' /\ AheadStored' /\ Fifo!Next
PROOF
<1>1. /\ put.pc = "idle" /\ put' = [pc |-> "copy", data |-> s, rptr |-> rptr]
      /\ ahead' = <<>> /\ UNCHANGED <<wptr, rptr, buf, get, accepted, delivered>>
  BY DEF PutBegin
<1>2. GetCopied'
  BY <1>1, GetCopyStays
<1>3. PutCopied' /\ AheadStored'
  BY <1>1, EmptySeq DEF PutCopied, AheadStored
<1>4. Contents' = Contents
  BY <1>1, InvParts, QueueKept
<1>5. Putting = <<>> /\ Getting' = Getting
  BY <1>1 DEF Putting, Getting
<1>6. Putting' = <<s, Size - 1 - Len(Contents)>>
  <2>1. Putting' = <<s, rngbuf_free_bytes(wptr, rptr)>>
    BY <1>1 DEF Putting
  <2> QED
    BY <2>1, InvParts
<1>7. Fifo!PutCall(s)
  BY <1>1, <1>4, <1>5, <1>6, Zenon DEF Fifo!PutCall, Fifo!None, Putting, Getting
<1>8. s \in Fifo!BoundedSeq(Byte, MaxRequest)
  BY DEF BoundedSeq, SeqOf, Fifo!BoundedSeq, Fifo!SeqOf
<1> QED
  BY <1>2, <1>3, <1>7, <1>8 DEF Fifo!Next

LEMMA PutCopyStep ==
  ASSUME FifoInv, TypeOK', PutCopy
  PROVE  PutCopied' /\ GetCopied' /\ AheadStored' /\ UNCHANGED Fifo!vars
PROOF
<1>1. /\ put.pc = "copy" /\ put' = [put EXCEPT !.pc = "finish"]
      /\ buf' = Copied(SubSeq(put.data, 1, PutFirst), wptr)
      /\ UNCHANGED <<wptr, rptr, get, ahead, accepted, delivered>>
  BY DEF PutCopy
<1>2. \A i \in Filled : buf'[i] = buf[i]
  BY InvParts, UnreadStep DEF Next, Producer
<1>3. GetCopied'
  BY <1>1, <1>2, GetCopyStays
<1>4. AheadStored'
  BY <1>1, InvParts, EmptySeq DEF AheadStored, CountsStaySafe
<1>5. PutCopied'
  <2>1. put'.pc = "finish" /\ put'.data = put.data /\ put'.rptr = put.rptr /\ PutFirst' = PutFirst
    BY <1>1, InvParts DEF TypeOK, PutFirst
  <2>2. /\ PutFirst \in Nat /\ PutFirst <= Len(put.data) /\ wptr + PutFirst <= Size
        /\ Len(put.data) \in Nat /\ put.data \in Seq(Byte)
    BY InvParts, PutFits, LenProperties DEF TypeOK
  <2>3. PICK t : t = SubSeq(put.data, 1, PutFirst)
    OBVIOUS
  <2>4. /\ t \in Seq(Byte) /\ Len(t) = PutFirst /\ DOMAIN t = 1 .. PutFirst
        /\ \A j \in 1 .. PutFirst : t[j] = put.data[j]
    BY <2>2, <2>3, Prefix
  <2>5. ASSUME NEW j \in 1 .. PutFirst
        PROVE  buf'[Ahead(wptr, j - 1)] = put.data[j]
    <3>1. /\ Ahead(wptr, j - 1) = wptr + (j - 1) /\ wptr + (j - 1) \in Index
          /\ (wptr + (j - 1)) - wptr + 1 = j
      <4>1. PICK m : m = PutFirst
        OBVIOUS
      <4>2. wptr \in 0 .. Size - 1 /\ Size \in Nat /\ m \in Nat /\ wptr + m <= Size
            /\ j \in 1 .. m
        BY <2>2, <4>1, InvParts DEF Index
      <4> QED
        BY ONLY <4>2 DEF Ahead, Index
    <3>2. buf' = Copied(t, wptr)
      BY <1>1, <2>3, Zenon
    <3>3. buf'[wptr + (j - 1)] = t[j]
      BY <2>4, <3>1, <3>2 DEF Copied
    <3> QED
      BY <2>4, <3>1, <3>3
  <2> QED
    BY <1>1, <2>1, <2>5 DEF PutCopied
<1>6. Contents' = Contents
  BY <1>1, <1>2, InvParts, QueueKept
<1>7. Putting' = Putting /\ Getting' = Getting
  BY <1>1, InvParts DEF Putting, Getting, TypeOK
<1>8. UNCHANGED Fifo!vars
  BY <1>1, <1>6, <1>7, Zenon DEF Fifo!vars, Putting, Getting
<1> QED
  BY <1>3, <1>4, <1>5, <1>8

(* A put moves all its bytes, or what there was room for at its call.      *)
LEMMA PutMovesAll ==
  ASSUME TypeOK
  PROVE  Fewer(Len(put.data), rngbuf_free_bytes(wptr, put.rptr)) =
           IF wptr + PutFirst = Size
           THEN PutFirst + Fewer(Len(put.data) - PutFirst, put.rptr - 1) ELSE PutFirst
PROOF
<1>1. /\ Len(put.data) \in Nat /\ put.rptr \in Index /\ wptr \in Index
  BY DEF TypeOK
<1>2. CASE put.rptr > wptr
  BY <1>1, <1>2, RngAssumption DEF PutFirst, Index, Fewer, rngbuf_free_bytes, Wrapped
<1>3. CASE put.rptr = 0
  BY <1>1, <1>3, RngAssumption DEF PutFirst, Index, Fewer, rngbuf_free_bytes, Wrapped
<1>4. CASE put.rptr <= wptr /\ put.rptr # 0
  <2>1. PutFirst = Fewer(Len(put.data), Size - wptr)
    BY <1>1, <1>4, RngAssumption DEF PutFirst, Index
  <2>2. rngbuf_free_bytes(wptr, put.rptr) = put.rptr - wptr - 1 + Size
    BY <1>1, <1>4, RngAssumption DEF Index, rngbuf_free_bytes, Wrapped
  <2>3. PICK L, r, w, m : L = Len(put.data) /\ r = put.rptr /\ w = wptr /\ m = PutFirst
    OBVIOUS
  <2>4. /\ L \in Nat /\ r \in 1 .. Size - 1 /\ w \in 0 .. Size - 1 /\ Size \in Nat /\ r <= w
        /\ m = (IF L < Size - w THEN L ELSE Size - w)
    BY <1>1, <1>4, <2>1, <2>3, RngAssumption DEF Index, Fewer
  <2>5. Fewer(L, r - w - 1 + Size) = IF w + m = Size THEN m + Fewer(L - m, r - 1) ELSE m
    BY ONLY <2>4 DEF Fewer
  <2> QED
    BY <2>2, <2>3, <2>5, Zenon
<1> QED
  BY <1>1, <1>2, <1>3, <1>4, RngAssumption DEF Index

(* What a put has stored when it returns.                                  *)
LEMMA PutStores ==
  ASSUME FifoInv, PutFinish
  PROVE  LET n == Fewer(Len(put.data), rngbuf_free_bytes(wptr, put.rptr)) IN
           /\ n \in Nat /\ n <= Len(put.data) /\ n <= rngbuf_free_bytes(wptr, rptr)
           /\ wptr' = Ahead(wptr, n) /\ accepted' = n
           /\ \A j \in 1 .. n : buf'[Ahead(wptr, j - 1)] = put.data[j]
PROOF
<1> DEFINE second == Fewer(Len(put.data) - PutFirst, put.rptr - 1)
<1>0. PICK n : n = Fewer(Len(put.data), rngbuf_free_bytes(wptr, put.rptr))
  OBVIOUS
<1>1. put.pc = "finish" /\ put.data \in Seq(Byte) /\ Len(put.data) \in Nat
  BY InvParts, LenProperties DEF PutFinish, TypeOK
<1>2. /\ rngbuf_free_bytes(wptr, put.rptr) <= rngbuf_free_bytes(wptr, rptr)
      /\ rngbuf_free_bytes(wptr, put.rptr) \in Nat /\ rngbuf_free_bytes(wptr, rptr) \in Nat
  BY <1>1, InvParts, CountBounds DEF CountsStaySafe
<1>3. n \in Nat /\ n <= Len(put.data) /\ n <= rngbuf_free_bytes(wptr, rptr)
  BY <1>0, <1>1, <1>2 DEF Fewer
<1>4. \A j \in 1 .. PutFirst : buf[Ahead(wptr, j - 1)] = put.data[j]
  BY <1>1, InvParts DEF PutCopied
<1>5. CASE wptr + PutFirst = Size
  <2>1. PICK m, k : m = PutFirst /\ k = second
    OBVIOUS
  <2>2. /\ m \in Nat /\ k \in Nat /\ put.rptr <= wptr /\ k < put.rptr
        /\ m + k <= Len(put.data) /\ wptr + m = Size /\ n = m + k
    BY <1>0, <1>5, <2>1, InvParts, PutFits, PutMovesAll
  <2>3. /\ wptr' = k /\ accepted' = m + k
        /\ buf' = Copied(SubSeq(put.data, m + 1, m + k), 0)
    BY <1>5, <2>1 DEF PutFinish
  <2>4. wptr \in 0 .. Size - 1 /\ Size \in Nat /\ put.rptr \in 0 .. Size - 1
    BY InvParts DEF Index
  <2>5. wptr' = Ahead(wptr, n)
    BY <2>2, <2>3, <2>4 DEF Ahead
  <2>6. PICK t : t = SubSeq(put.data, m + 1, m + k)
    OBVIOUS
  <2>7. /\ t \in Seq(Byte) /\ Len(t) = k /\ DOMAIN t = 1 .. k
        /\ \A j \in 1 .. k : t[j] = put.data[m + j]
    BY <1>1, <2>2, <2>6, Slice
  <2>8. buf' = Copied(t, 0)
    BY <2>3, <2>6, Zenon
  <2>9. ASSUME NEW j \in 1 .. n
        PROVE  buf'[Ahead(wptr, j - 1)] = put.data[j]
    <3>1. CASE j <= m
      <4>1. /\ j \in 1 .. m /\ Ahead(wptr, j - 1) = wptr + (j - 1)
            /\ wptr + (j - 1) \in Index /\ wptr + (j - 1) >= 0 + k
        BY <1>3, <2>2, <2>4, <3>1 DEF Ahead, Index
      <4>2. buf'[wptr + (j - 1)] = buf[wptr + (j - 1)]
        BY <2>7, <2>8, <4>1, InvParts, CopiedKeeps
      <4> QED
        BY <1>4, <2>1, <4>1, <4>2
    <3>2. CASE ~(j <= m)
      <4>1. /\ j - m \in 1 .. k /\ Ahead(wptr, j - 1) = (j - m) - 1
            /\ (j - m) - 1 \in Index /\ ((j - m) - 1) - 0 + 1 = j - m /\ m + (j - m) = j
        BY <1>3, <2>2, <2>4, <3>2 DEF Ahead, Index
      <4>2. buf'[(j - m) - 1] = t[j - m]
        BY <2>7, <2>8, <4>1 DEF Copied
      <4> QED
        BY <2>7, <4>1, <4>2
    <3> QED
      BY <3>1, <3>2
  <2> QED
    BY <1>0, <1>3, <2>2, <2>3, <2>5, <2>9
<1>6. CASE wptr + PutFirst # Size
  <2>1. n = PutFirst /\ wptr + n <= Size /\ wptr + n # Size
    BY <1>0, <1>6, InvParts, PutMovesAll, PutFits
  <2>2. wptr' = wptr + n /\ accepted' = n /\ buf' = buf
    BY <1>6, <2>1 DEF PutFinish
  <2>3. wptr' = Ahead(wptr, n)
    BY <1>3, <2>1, <2>2, InvParts DEF Ahead, Index
  <2> QED
    BY <1>0, <1>3, <1>4, <2>1, <2>2, <2>3
<1> QED
  BY <1>5, <1>6

LEMMA PutFinishStep ==
  ASSUME FifoInv, TypeOK', PutFinish
  PROVE  PutCopied' /\ GetCopied' /\ AheadStored' /\ Fifo!Next
PROOF
<1>1. /\ put.pc = "finish" /\ put' = NoPut /\ UNCHANGED <<rptr, get, ahead, delivered>>
  BY DEF PutFinish
<1>2. \A i \in Filled : buf'[i] = buf[i]
  BY InvParts, UnreadStep DEF Next, Producer
<1>3. GetCopied'
  BY <1>1, <1>2, GetCopyStays
<1>4. ahead = <<>> /\ AheadStored' /\ PutCopied'
  BY <1>1, InvParts, EmptySeq DEF AheadStored, CountsStaySafe, PutCopied, NoPut
<1>5. PICK n : n = Fewer(Len(put.data), rngbuf_free_bytes(wptr, put.rptr))
  OBVIOUS
<1>6. /\ n \in Nat /\ n <= Len(put.data) /\ n <= rngbuf_free_bytes(wptr, rptr)
      /\ wptr' = Ahead(wptr, n) /\ accepted' = n
      /\ \A j \in 1 .. n : buf'[Ahead(wptr, j - 1)] = put.data[j]
  BY <1>5, PutStores
<1>7. PICK s : s = SubSeq(put.data, 1, n)
  OBVIOUS
<1>8. s \in Seq(Byte) /\ Len(s) = n /\ \A j \in 1 .. n : s[j] = put.data[j]
  <2>1. put.data \in Seq(Byte)
    BY InvParts DEF TypeOK
  <2> QED
    BY <1>6, <1>7, <2>1, Prefix
<1>9. Contents' = Contents \o s
  BY <1>1, <1>2, <1>6, <1>8, InvParts, QueueGrows
<1>10. /\ Putting = <<put.data, rngbuf_free_bytes(wptr, put.rptr)>>
       /\ Putting' = <<>> /\ Getting' = Getting
  BY <1>1 DEF Putting, Getting, NoPut
<1>11. /\ Putting # <<>> /\ Fifo!Fewer(Len(Putting[1]), Putting[2]) = n
       /\ SubSeq(Putting[1], 1, n) = s
  BY <1>5, <1>7, <1>10 DEF Fifo!Fewer, Fewer
<1>12. Fifo!PutReturn
  BY <1>1, <1>6, <1>9, <1>10, <1>11, Zenon
     DEF Fifo!PutReturn, Fifo!None, Putting, Getting
<1> QED
  BY <1>3, <1>4, <1>12 DEF Fifo!Next

(* One byte at the index the pointer is at: there is room for it.          *)
LEMMA ElemFits ==
  ASSUME FifoInv
  PROVE  /\ wptr = rptr - 1 \/ (wptr = Size - 1 /\ rptr = 0)
              <=> rngbuf_free_bytes(wptr, rptr) = 0
         /\ wptr = rptr <=> rngbuf_n_bytes(wptr, rptr) = 0
         /\ Ahead(wptr, 0) = wptr /\ Ahead(rptr, 0) = rptr
         /\ Ahead(wptr, 1) = (IF wptr = Size - 1 THEN 0 ELSE wptr + 1)
         /\ Ahead(rptr, 1) = (IF rptr + 1 = Size THEN 0 ELSE rptr + 1)
PROOF
<1>1. wptr \in 0 .. Size - 1 /\ rptr \in 0 .. Size - 1 /\ Size \in Nat \ {0}
  BY InvParts DEF Index
<1>2. /\ Ahead(wptr, 0) = wptr /\ Ahead(rptr, 0) = rptr
      /\ Ahead(wptr, 1) = (IF wptr = Size - 1 THEN 0 ELSE wptr + 1)
      /\ Ahead(rptr, 1) = (IF rptr + 1 = Size THEN 0 ELSE rptr + 1)
  BY ONLY <1>1 DEF Ahead
<1>3. /\ wptr = rptr - 1 \/ (wptr = Size - 1 /\ rptr = 0)
           <=> rngbuf_free_bytes(wptr, rptr) = 0
      /\ wptr = rptr <=> rngbuf_n_bytes(wptr, rptr) = 0
  BY ONLY <1>1 DEF rngbuf_free_bytes, rngbuf_n_bytes, Wrapped
<1> QED
  BY <1>2, <1>3

(* A full ring refuses the byte.                                           *)
LEMMA FullStep ==
  ASSUME FifoInv, TypeOK', put.pc \in {"idle", "elem"}, ElemPutFull, NEW b \in Byte,
         rngbuf_free_bytes(wptr, rptr) = 0
  PROVE  PutCopied' /\ GetCopied' /\ AheadStored' /\ Fifo!Next
PROOF
<1>1. /\ accepted' = 0 /\ ahead' = <<>> /\ put' = NoPut
      /\ UNCHANGED <<wptr, rptr, buf, get, delivered>>
  BY DEF ElemPutFull
<1>2. GetCopied' /\ PutCopied' /\ AheadStored'
  BY <1>1, GetCopyStays, EmptySeq DEF PutCopied, AheadStored, NoPut
<1>3. Contents' = Contents
  BY <1>1, InvParts, QueueKept
<1>4. Putting = <<>> /\ Putting' = <<>> /\ Getting' = Getting
  BY <1>1 DEF Putting, Getting, NoPut
<1>5. Len(Contents) = Size - 1
  BY InvParts
<1>6. Fifo!PutElem(b)
  BY <1>1, <1>3, <1>4, <1>5, Zenon DEF Fifo!PutElem, Fifo!None, Putting, Getting
<1> QED
  BY <1>2, <1>6 DEF Fifo!Next

LEMMA ElemPutTestStep ==
  ASSUME FifoInv, TypeOK', NEW b \in Byte, ElemPutTest(b)
  PROVE  PutCopied' /\ GetCopied' /\ AheadStored' /\ (Fifo!Next \/ UNCHANGED Fifo!vars)
PROOF
<1>1. CASE wptr = rptr - 1 /\ ElemPutFull
  BY <1>1, ElemFits, FullStep DEF ElemPutTest
<1>2. CASE /\ put' = [NoPut EXCEPT !.pc = "elem", !.data = <<b>>]
           /\ UNCHANGED <<wptr, rptr, buf, get, ahead, accepted, delivered>>
  <2>1. put.pc = "idle" /\ put'.pc = "elem"
    BY <1>2 DEF ElemPutTest, NoPut
  <2>2. PutCopied' /\ GetCopied' /\ AheadStored'
    BY <1>2, <2>1, InvParts, GetCopyStays DEF PutCopied, AheadStored
  <2>3. Contents' = Contents
    BY <1>2, InvParts, QueueKept
  <2>4. Putting' = Putting /\ Getting' = Getting
    BY <1>2, <2>1 DEF Putting, Getting
  <2>5. UNCHANGED Fifo!vars
    BY <1>2, <2>3, <2>4, Zenon DEF Fifo!vars, Putting, Getting
  <2> QED
    BY <2>2, <2>5
<1> QED
  BY <1>1, <1>2 DEF ElemPutTest

LEMMA ElemPutStoreStep ==
  ASSUME FifoInv, TypeOK', ElemPutStore
  PROVE  PutCopied' /\ GetCopied' /\ AheadStored' /\ Fifo!Next
PROOF
<1>0. /\ put.pc = "elem" /\ put.data \in Seq(Byte) /\ Len(put.data) = 1 /\ put.data[1] \in Byte
  BY InvParts, ElementOfSeq DEF ElemPutStore, TypeOK
<1>1. CASE wptr = Size - 1 /\ rptr = 0 /\ ElemPutFull
  BY <1>0, <1>1, ElemFits, FullStep
<1>2. CASE /\ ~(wptr = Size - 1 /\ rptr = 0)
           /\ buf' = [buf EXCEPT ![wptr] = put.data[1]]
           /\ wptr' = IF wptr = Size - 1 THEN 0 ELSE wptr + 1
           /\ accepted' = 1 /\ ahead' = <<>> /\ put' = NoPut
           /\ UNCHANGED <<rptr, get, delivered>>
  <2>1. \A i \in Filled : buf'[i] = buf[i]
    BY InvParts, UnreadStep DEF Next, Producer
  <2>2. GetCopied' /\ PutCopied' /\ AheadStored'
    BY <1>2, <2>1, GetCopyStays, EmptySeq DEF PutCopied, AheadStored, NoPut
  <2>3. 1 <= rngbuf_free_bytes(wptr, rptr)
    <3>1. wptr # rptr - 1
      BY <1>0, InvParts DEF CountsStaySafe
    <3> QED
      BY <1>2, <3>1, ElemFits, InvParts
  <2>4. PICK s : s = <<put.data[1]>>
    OBVIOUS
  <2>5. s \in Seq(Byte) /\ Len(s) = 1 /\ s[1] = put.data[1]
    BY <1>0, <2>4
  <2>6. \A j \in 1 .. 1 : buf'[Ahead(wptr, j - 1)] = s[j]
    <3>1. buf'[wptr] = put.data[1]
      BY <1>2, InvParts DEF TypeOK
    <3>2. Ahead(wptr, 0) = wptr /\ \A j \in 1 .. 1 : j = 1 /\ j - 1 = 0
      BY ElemFits
    <3> QED
      BY <2>5, <3>1, <3>2
  <2>7. wptr' = Ahead(wptr, 1)
    BY <1>2, ElemFits
  <2>8. Contents' = Contents \o s
    BY <1>2, <2>1, <2>3, <2>5, <2>6, <2>7, InvParts, QueueGrows
  <2>9. Contents' = Append(Contents, put.data[1])
    BY <1>0, <2>4, <2>8, InvParts, AppendIsConcat
  <2>10. Putting = <<>> /\ Putting' = <<>> /\ Getting' = Getting
    BY <1>0, <1>2 DEF Putting, Getting, NoPut
  <2>11. Len(Contents) < Size - 1
    BY <2>3, InvParts
  <2>12. Fifo!PutElem(put.data[1])
    BY <1>2, <2>9, <2>10, <2>11, Zenon DEF Fifo!PutElem, Fifo!None, Putting, Getting
  <2> QED
    BY <1>0, <2>2, <2>12 DEF Fifo!Next
<1> QED
  BY <1>1, <1>2 DEF ElemPutStore

LEMMA AheadInjective ==
  ASSUME NEW i \in Index, NEW m \in 0 .. Size - 1, NEW n \in 0 .. Size - 1, m # n
  PROVE  Ahead(i, m) # Ahead(i, n)
PROOF
  BY RngAssumption DEF Ahead, Index

LEMMA PutAheadStep ==
  ASSUME FifoInv, TypeOK', NEW n \in 0 .. Size, NEW b \in Byte, PutAhead(b, n)
  PROVE  PutCopied' /\ GetCopied' /\ AheadStored' /\ Fifo!Next
PROOF
<1>1. /\ put.pc = "idle" /\ n <= Len(ahead) /\ n + 1 <= rngbuf_free_bytes(wptr, rptr)
      /\ buf' = [buf EXCEPT ![Ahead(wptr, n)] = b]
      /\ ahead' = IF n = Len(ahead) THEN Append(ahead, b) ELSE ReplaceAt(ahead, n + 1, b)
      /\ UNCHANGED <<wptr, rptr, put, get, accepted, delivered>>
  BY DEF PutAhead
<1>2. \A i \in Filled : buf'[i] = buf[i]
  BY InvParts, UnreadStep DEF Next, Producer
<1>3. GetCopied' /\ PutCopied'
  BY <1>1, <1>2, GetCopyStays DEF PutCopied
<1>4. /\ ahead \in Seq(Byte) /\ Len(ahead) \in Nat /\ n \in Nat
      /\ Len(ahead) <= rngbuf_free_bytes(wptr, rptr)
      /\ rngbuf_free_bytes(wptr, rptr) <= Size - 1 /\ n \in 0 .. Size - 1
      /\ buf \in [Index -> Byte]
  BY <1>1, InvParts, LenProperties DEF TypeOK, CountsStaySafe
<1>5. PICK a : a = ahead'
  OBVIOUS
<1>6. /\ Len(a) \in Nat /\ Len(a) <= Size - 1 /\ n + 1 \in 1 .. Len(a)
      /\ \A j \in 1 .. Len(a) : j = n + 1 => a[j] = b
      /\ \A j \in 1 .. Len(a) : j # n + 1 => a[j] = ahead[j] /\ j \in 1 .. Len(ahead)
  <2>1. CASE n = Len(ahead)
    <3>1. /\ a = Append(ahead, b) /\ Len(a) = Len(ahead) + 1 /\ a[n + 1] = b
          /\ \A j \in 1 .. Len(ahead) : a[j] = ahead[j]
      BY <1>1, <1>4, <1>5, <2>1, AppendProperties
    <3>2. Len(a) = n + 1
      BY <2>1, <3>1
    <3>3. \A j \in 1 .. n + 1 : j # n + 1 => j \in 1 .. n
      BY <1>4
    <3>4. n + 1 \in Nat /\ n + 1 <= Size - 1 /\ n + 1 \in 1 .. n + 1
      BY <1>1, <1>4, InvParts
    <3> QED
      BY <2>1, <3>1, <3>2, <3>3, <3>4, Zenon
  <2>2. CASE n < Len(ahead)
    <3>1. /\ n + 1 \in 1 .. Len(ahead) /\ a = [ahead EXCEPT ![n + 1] = b]
      BY <1>1, <1>4, <1>5, <2>2 DEF ReplaceAt
    <3>2. /\ Len(a) = Len(ahead)
          /\ \A j \in 1 .. Len(ahead) : a[j] = IF j = n + 1 THEN b ELSE ahead[j]
      BY <1>4, <3>1, ExceptSeq
    <3>3. Len(ahead) <= Size - 1
      BY <1>4, InvParts
    <3> QED
      BY <1>4, <3>1, <3>2, <3>3, Zenon
  <2> QED
    BY <1>1, <1>4, <2>1, <2>2
<1>7. AheadStored'
  <2>1. ASSUME NEW j \in 1 .. Len(a)
        PROVE  buf'[Ahead(wptr, j - 1)] = a[j]
    <3>0. PICK k : k = j - 1
      OBVIOUS
    <3>1. /\ k \in 0 .. Size - 1 /\ k \in 0 .. Size /\ wptr \in Index /\ (k = n <=> j = n + 1)
      BY <1>4, <1>6, <3>0, InvParts
    <3>2. Ahead(wptr, k) \in Index /\ Ahead(wptr, n) \in Index
      BY <3>1, AheadIndex
    <3>3. CASE j = n + 1
      BY <1>1, <1>4, <1>6, <3>0, <3>1, <3>2, <3>3
    <3>4. CASE j # n + 1
      <4>1. Ahead(wptr, k) # Ahead(wptr, n)
        BY <1>4, <3>1, <3>4, AheadInjective
      <4>2. a[j] = ahead[j] /\ j \in 1 .. Len(ahead)
        BY <1>6, <3>4
      <4>3. buf[Ahead(wptr, k)] = ahead[j]
        BY <3>0, <4>2, InvParts DEF AheadStored
      <4>4. buf'[Ahead(wptr, k)] = ahead[j]
        BY <1>1, <1>4, <3>2, <4>1, <4>3
      <4> QED
        BY <3>0, <4>2, <4>4
    <3> QED
      BY <3>3, <3>4
  <2> QED
    BY <1>1, <1>5, <2>1 DEF AheadStored
<1>8. Contents' = Contents
  BY <1>1, <1>2, InvParts, QueueKept
<1>9. Putting = <<>> /\ Putting' = Putting /\ Getting' = Getting
  BY <1>1 DEF Putting, Getting
<1>10. n + 1 <= Size - 1 - Len(Contents)
  BY <1>1, InvParts
<1>11. ahead' = IF n = Len(ahead) THEN Append(ahead, b) ELSE Fifo!ReplaceAt(ahead, n + 1, b)
  BY <1>1 DEF ReplaceAt, Fifo!ReplaceAt
<1>12. Fifo!PutAhead(b, n)
  BY <1>1, <1>8, <1>9, <1>10, <1>11, Zenon DEF Fifo!PutAhead, Fifo!None, Putting, Getting
<1> QED
  BY <1>3, <1>4, <1>7, <1>12 DEF Fifo!Next

LEMMA MoveAheadStep ==
  ASSUME FifoInv, TypeOK', NEW n \in 0 .. Size, MoveAhead(n)
  PROVE  PutCopied' /\ GetCopied' /\ AheadStored' /\ Fifo!Next
PROOF
<1>1. /\ put.pc = "idle" /\ n <= Len(ahead) /\ wptr' = Ahead(wptr, n)
      /\ ahead' = SubSeq(ahead, n + 1, Len(ahead))
      /\ UNCHANGED <<rptr, buf, put, get, accepted, delivered>>
  BY DEF MoveAhead
<1>2. GetCopied' /\ PutCopied'
  BY <1>1, GetCopyStays DEF PutCopied
<1>3. /\ ahead \in Seq(Byte) /\ Len(ahead) \in Nat /\ n \in Nat /\ n \in 0 .. Size - 1
      /\ Len(ahead) <= rngbuf_free_bytes(wptr, rptr)
      /\ rngbuf_free_bytes(wptr, rptr) <= Size - 1 /\ Size \in Nat
  BY <1>1, InvParts, LenProperties DEF TypeOK, CountsStaySafe
<1>4. PICK s, t, r : s = SubSeq(ahead, 1, n) /\ t = ahead' /\ r = Len(ahead) - n
  OBVIOUS
<1>5. s \in Seq(Byte) /\ Len(s) = n /\ \A j \in 1 .. n : s[j] = ahead[j]
  BY <1>1, <1>3, <1>4, Prefix
<1>6. r \in Nat /\ Len(t) = r /\ \A j \in 1 .. r : t[j] = ahead[n + j]
  <2>1. r \in Nat /\ n + r <= Len(ahead) /\ n + r = Len(ahead)
    BY <1>1, <1>3, <1>4
  <2> QED
    BY <1>1, <1>3, <1>4, <2>1, Slice
<1>7. \A j \in 1 .. Len(ahead) : buf[Ahead(wptr, j - 1)] = ahead[j]
  BY InvParts DEF AheadStored
<1>8. \A j \in 1 .. n : buf'[Ahead(wptr, j - 1)] = s[j]
  <2>1. \A j \in 1 .. n : j \in 1 .. Len(ahead)
    BY <1>1, <1>3
  <2>2. buf' = buf
    BY <1>1
  <2> QED
    BY <1>5, <1>7, <2>1, <2>2, Zenon
<1>9. AheadStored'
  <2>1. ASSUME NEW j \in 1 .. r
        PROVE  buf'[Ahead(wptr', j - 1)] = t[j]
    <3>1. /\ n + j \in 1 .. Len(ahead) /\ j - 1 \in Nat /\ n + (j - 1) <= Size
          /\ n + (j - 1) = (n + j) - 1
      <4>1. PICK L : L = Len(ahead)
        OBVIOUS
      <4>2. L \in Nat /\ n \in Nat /\ r = L - n /\ n <= L /\ L <= Size - 1 /\ Size \in Nat
        BY <1>1, <1>3, <1>4, <4>1, InvParts
      <4>3. n + j \in 1 .. L /\ j - 1 \in Nat /\ n + (j - 1) <= Size /\ n + (j - 1) = (n + j) - 1
        BY ONLY <4>2, j \in 1 .. r
      <4> QED
        BY <4>1, <4>3, Zenon
    <3>2. Ahead(Ahead(wptr, n), j - 1) = Ahead(wptr, n + (j - 1))
      BY <1>3, <3>1, InvParts, AheadTwice
    <3> QED
      BY <1>1, <1>6, <1>7, <3>1, <3>2
  <2> QED
    BY <1>4, <1>6, <2>1 DEF AheadStored
<1>10. n <= rngbuf_free_bytes(wptr, rptr)
  BY <1>1, <1>3, InvParts
<1>11. Contents' = Contents \o s
  BY <1>1, <1>3, <1>5, <1>8, <1>10, InvParts, QueueGrows
<1>12. Putting = <<>> /\ Putting' = Putting /\ Getting' = Getting
  BY <1>1 DEF Putting, Getting
<1>13. Fifo!MoveAhead(n)
  BY <1>1, <1>4, <1>11, <1>12, Zenon DEF Fifo!MoveAhead, Fifo!None, Putting, Getting
<1>14. PICK b : b \in Byte
  BY RngAssumption
<1> QED
  BY <1>2, <1>3, <1>9, <1>13, <1>14 DEF Fifo!Next

LEMMA GetBeginStep ==
  ASSUME FifoInv, TypeOK', NEW max \in 0 .. MaxRequest, GetBegin(max)
  PROVE  PutCopied' /\ GetCopied' /\ AheadStored' /\ Fifo!Next
PROOF
<1>1. /\ get.pc = "idle" /\ get' = [pc |-> "copy", max |-> max, wptr |-> wptr, got |-> <<>>]
      /\ UNCHANGED <<wptr, rptr, buf, put, ahead, accepted, delivered>>
  BY DEF GetBegin
<1>2. PutCopied' /\ GetCopied' /\ AheadStored'
  BY <1>1, InvParts DEF PutCopied, GetCopied, AheadStored, PutFirst
<1>3. Contents' = Contents
  BY <1>1, InvParts, QueueKept
<1>4. Getting = <<>> /\ Putting' = Putting
  BY <1>1 DEF Putting, Getting
<1>5. Getting' = <<max, Len(Contents)>>
  <2>1. Getting' = <<max, rngbuf_n_bytes(wptr, rptr)>>
    BY <1>1 DEF Getting
  <2> QED
    BY <2>1, InvParts
<1>6. Fifo!GetCall(max)
  BY <1>1, <1>3, <1>4, <1>5, Zenon DEF Fifo!GetCall, Fifo!None, Putting, Getting
<1> QED
  BY <1>2, <1>6 DEF Fifo!Next

LEMMA GetCopyStep ==
  ASSUME FifoInv, TypeOK', GetCopy
  PROVE  PutCopied' /\ GetCopied' /\ AheadStored' /\ UNCHANGED Fifo!vars
PROOF
<1>1. /\ get.pc = "copy" /\ get' = [get EXCEPT !.pc = "finish", !.got = From(rptr, GetFirst)]
      /\ UNCHANGED <<wptr, rptr, buf, put, ahead, accepted, delivered>>
  BY DEF GetCopy
<1>2. PutCopied' /\ AheadStored'
  BY <1>1, InvParts DEF PutCopied, AheadStored, PutFirst
<1>3. /\ get'.pc = "finish" /\ get'.max = get.max /\ get'.wptr = get.wptr
      /\ get'.got = From(rptr, GetFirst) /\ GetFirst' = GetFirst
  BY <1>1, InvParts DEF TypeOK, GetFirst
<1>4. PICK n : n = GetFirst
  OBVIOUS
<1>5. n \in Nat /\ rptr + n <= Size
  BY <1>4, InvParts, GetFits
<1>6. From(rptr, n) = [k \in 1 .. n |-> buf[rptr + k - 1]]
  BY DEF From
<1>7. Len(From(rptr, n)) = n
  BY <1>5, <1>6
<1>8. \A j \in 1 .. n : From(rptr, n)[j] = buf[Ahead(rptr, j - 1)]
  <2> TAKE j \in 1 .. n
  <2>1. Ahead(rptr, j - 1) = rptr + j - 1
    BY <1>5, InvParts DEF Ahead, Index
  <2> QED
    BY <1>6, <2>1
<1>9. GetCopied'
  BY <1>1, <1>3, <1>4, <1>7, <1>8 DEF GetCopied
<1>10. Contents' = Contents
  BY <1>1, InvParts, QueueKept
<1>11. Putting' = Putting /\ Getting' = Getting
  BY <1>1, <1>3 DEF Putting, Getting
<1>12. UNCHANGED Fifo!vars
  BY <1>1, <1>10, <1>11, Zenon DEF Fifo!vars, Putting, Getting
<1> QED
  BY <1>2, <1>9, <1>12

(* A get takes all it was asked for, or the bytes it read of at its call.  *)
LEMMA GetMovesAll ==
  ASSUME TypeOK
  PROVE  Fewer(get.max, rngbuf_n_bytes(get.wptr, rptr)) =
           IF get.wptr < rptr /\ rptr + GetFirst = Size
           THEN GetFirst + Fewer(get.max - GetFirst, get.wptr) ELSE GetFirst
PROOF
<1>1. get.max \in Nat /\ get.wptr \in Index /\ rptr \in Index
  BY DEF TypeOK
<1>2. PICK m, w, r, f : m = get.max /\ w = get.wptr /\ r = rptr /\ f = GetFirst
  OBVIOUS
<1>3. /\ m \in Nat /\ w \in 0 .. Size - 1 /\ r \in 0 .. Size - 1 /\ Size \in Nat
      /\ f = IF w >= r THEN Fewer(m, w - r) ELSE Fewer(m, Size - r)
  BY <1>1, <1>2, RngAssumption DEF Index, GetFirst
<1>4. Fewer(m, rngbuf_n_bytes(w, r)) =
        IF w < r /\ r + f = Size THEN f + Fewer(m - f, w) ELSE f
  BY ONLY <1>3 DEF Fewer, rngbuf_n_bytes, Wrapped
<1> QED
  BY <1>2, <1>4, Zenon

(* What a get delivers when it returns: the oldest bytes in the ring.      *)
LEMMA GetTakes ==
  ASSUME FifoInv, GetFinish
  PROVE  LET n == Fewer(get.max, rngbuf_n_bytes(get.wptr, rptr)) IN
           /\ n \in Nat /\ n <= rngbuf_n_bytes(wptr, rptr) /\ rptr' = Ahead(rptr, n)
           /\ delivered' \in Seq(Byte) /\ Len(delivered') = n
           /\ \A j \in 1 .. n : delivered'[j] = buf[Ahead(rptr, j - 1)]
PROOF
<1> DEFINE second == Fewer(get.max - GetFirst, get.wptr)
<1>0. PICK n : n = Fewer(get.max, rngbuf_n_bytes(get.wptr, rptr))
  OBVIOUS
<1>1. /\ get.pc = "finish" /\ get.got \in Seq(Byte) /\ get.max \in Nat
      /\ buf \in [Index -> Byte]
  BY InvParts DEF GetFinish, TypeOK
<1>2. /\ rngbuf_n_bytes(get.wptr, rptr) <= rngbuf_n_bytes(wptr, rptr)
      /\ rngbuf_n_bytes(get.wptr, rptr) \in Nat /\ rngbuf_n_bytes(wptr, rptr) \in Nat
  BY <1>1, InvParts, CountBounds DEF CountsStaySafe
<1>3. n \in Nat /\ n <= rngbuf_n_bytes(wptr, rptr)
  BY <1>0, <1>1, <1>2 DEF Fewer
<1>4. PICK g, m, k : g = get.got /\ m = GetFirst /\ k = second
  OBVIOUS
<1>5. /\ g \in Seq(Byte) /\ Len(g) = m /\ m \in Nat
      /\ \A j \in 1 .. m : g[j] = buf[Ahead(rptr, j - 1)]
  BY <1>1, <1>4, InvParts, GetFits DEF GetCopied
<1>6. rptr \in 0 .. Size - 1 /\ Size \in Nat \ {0} /\ get.wptr \in 0 .. Size - 1
  BY InvParts DEF Index
<1>7. CASE get.wptr < rptr /\ rptr + GetFirst = Size
  <2>1. k \in Nat /\ k <= get.wptr /\ rptr + m = Size /\ n = m + k
    BY <1>0, <1>4, <1>7, InvParts, GetFits, GetMovesAll
  <2>2. rptr' = k /\ delivered' = g \o From(0, k)
    BY <1>4, <1>7 DEF GetFinish
  <2>3. rptr' = Ahead(rptr, n)
    BY <1>5, <1>6, <2>1, <2>2 DEF Ahead
  <2>4. PICK f : f = From(0, k)
    OBVIOUS
  <2>5. f \in Seq(Byte) /\ Len(f) = k /\ \A i \in 1 .. k : f[i] = buf[i - 1]
    <3>1. 0 \in Index /\ 0 + k <= Size
      BY <1>6, <2>1 DEF Index
    <3>2. f \in Seq(Byte)
      BY <1>1, <2>1, <2>4, <3>1, FromType
    <3>3. f = [i \in 1 .. k |-> buf[0 + i - 1]]
      BY <2>4 DEF From
    <3>4. Len(f) = k
      BY <2>1, <3>3
    <3>5. \A i \in 1 .. k : 0 + i - 1 = i - 1
      BY <2>1
    <3>6. \A i \in 1 .. k : f[i] = buf[i - 1]
      BY <3>3, <3>5
    <3> QED
      BY <3>2, <3>4, <3>6
  <2>6. PICK d : d = delivered'
    OBVIOUS
  <2>7. /\ d \in Seq(Byte) /\ Len(d) = m + k
        /\ \A j \in 1 .. m + k : d[j] = IF j <= m THEN g[j] ELSE f[j - m]
    <3>1. d = g \o f
      BY <2>2, <2>4, <2>6, Zenon
    <3>2. g \in Seq(Byte) /\ f \in Seq(Byte) /\ Len(g) = m /\ Len(f) = k
      BY <1>5, <2>5, Zenon
    <3> QED
      BY ONLY <3>1, <3>2, ConcatProperties, SMTT(30)
  <2>8. ASSUME NEW j \in 1 .. n
        PROVE  d[j] = buf[Ahead(rptr, j - 1)]
    <3>1. CASE j <= m
      <4>1. j \in 1 .. m
        BY <1>5, <2>1, <3>1
      <4> QED
        BY <1>5, <2>1, <2>7, <3>1, <4>1
    <3>2. CASE ~(j <= m)
      <4>1. j - m \in 1 .. k /\ Ahead(rptr, j - 1) = (j - m) - 1
        BY <1>5, <1>6, <2>1, <3>2 DEF Ahead
      <4>2. d[j] = f[j - m] /\ f[j - m] = buf[(j - m) - 1]
        BY <2>1, <2>5, <2>7, <3>2, <4>1
      <4> QED
        BY <4>1, <4>2
    <3> QED
      BY <3>1, <3>2
  <2> QED
    BY <1>0, <1>3, <2>1, <2>3, <2>6, <2>7, <2>8
<1>8. CASE ~(get.wptr < rptr /\ rptr + GetFirst = Size)
  <2>1. n = m
    BY <1>0, <1>4, <1>8, InvParts, GetMovesAll
  <2>2. rptr' = rptr + m /\ delivered' = g
    BY <1>4, <1>8 DEF GetFinish
  <2>3. rptr + m <= Size /\ rptr + m # Size
    BY <1>4, <1>8, InvParts, GetFits
  <2>4. rptr' = Ahead(rptr, n)
    BY <1>5, <1>6, <2>1, <2>2, <2>3 DEF Ahead
  <2> QED
    BY <1>0, <1>3, <1>5, <2>1, <2>2, <2>4
<1> QED
  BY <1>7, <1>8

LEMMA GetFinishStep ==
  ASSUME FifoInv, TypeOK', GetFinish
  PROVE  PutCopied' /\ GetCopied' /\ AheadStored' /\ Fifo!Next
PROOF
<1>1. /\ get.pc = "finish" /\ get' = NoGet /\ UNCHANGED <<wptr, buf, put, ahead, accepted>>
  BY DEF GetFinish
<1>2. PutCopied' /\ GetCopied' /\ AheadStored'
  BY <1>1, InvParts DEF PutCopied, GetCopied, AheadStored, PutFirst, NoGet
<1>3. PICK n, d : n = Fewer(get.max, rngbuf_n_bytes(get.wptr, rptr)) /\ d = delivered'
  OBVIOUS
<1>4. /\ n \in Nat /\ n <= rngbuf_n_bytes(wptr, rptr) /\ rptr' = Ahead(rptr, n)
      /\ d \in Seq(Byte) /\ Len(d) = n
      /\ \A j \in 1 .. n : d[j] = buf[Ahead(rptr, j - 1)]
  BY <1>3, GetTakes
<1>5. Contents' = SubSeq(Contents, n + 1, Len(Contents))
  BY <1>1, <1>4, InvParts, QueueShrinks
<1>6. d = SubSeq(Contents, 1, n)
  <2>1. PICK c, t : c = Contents /\ t = SubSeq(c, 1, n)
    OBVIOUS
  <2>2. c \in Seq(Byte) /\ n <= Len(c) /\ \A j \in 1 .. n : c[j] = buf[Ahead(rptr, j - 1)]
    <3>1. rngbuf_n_bytes(wptr, rptr) \in Nat
      BY InvParts
    <3>2. \A j \in 1 .. n : j \in 1 .. rngbuf_n_bytes(wptr, rptr)
      BY <1>4, <3>1
    <3> QED
      BY <1>4, <2>1, <3>2, InvParts, ContentsIs
  <2>3. t \in Seq(Byte) /\ Len(t) = n /\ \A j \in 1 .. n : t[j] = c[j]
    BY <1>4, <2>1, <2>2, Prefix
  <2>4. \A j \in 1 .. n : d[j] = t[j]
    BY <1>4, <2>2, <2>3
  <2>5. d = t
    BY ONLY <1>4, <2>3, <2>4, SeqEqual
  <2> QED
    BY <2>1, <2>5, Zenon
<1>7. /\ Getting = <<get.max, rngbuf_n_bytes(get.wptr, rptr)>>
      /\ Getting' = <<>> /\ Putting' = Putting
  BY <1>1 DEF Putting, Getting, NoGet
<1>8. Getting # <<>> /\ Fifo!Fewer(Getting[1], Getting[2]) = n
  BY <1>3, <1>7 DEF Fifo!Fewer, Fewer
<1>9. Fifo!GetReturn
  BY <1>1, <1>3, <1>5, <1>6, <1>7, <1>8, Zenon
     DEF Fifo!GetReturn, Fifo!None, Putting, Getting
<1> QED
  BY <1>2, <1>9 DEF Fifo!Next

LEMMA ElemGetTestStep ==
  ASSUME FifoInv, TypeOK', ElemGetTest
  PROVE  PutCopied' /\ GetCopied' /\ AheadStored' /\ (Fifo!Next \/ UNCHANGED Fifo!vars)
PROOF
<1>1. get.pc = "idle" /\ UNCHANGED <<wptr, rptr, buf, put, ahead, accepted>>
  BY DEF ElemGetTest
<1>2. PutCopied' /\ AheadStored'
  BY <1>1, InvParts DEF PutCopied, AheadStored, PutFirst
<1>3. Contents' = Contents
  BY <1>1, InvParts, QueueKept
<1>4. CASE wptr = rptr
  <2>1. delivered' = <<>> /\ get' = get
    BY <1>4 DEF ElemGetTest
  <2>2. Contents = <<>>
    <3>1. PICK c : c = Contents
      OBVIOUS
    <3>2. c \in Seq(Byte) /\ Len(c) = 0
      BY <1>4, <3>1, InvParts, ElemFits
    <3>3. c = <<>>
      BY <3>2, EmptySeq
    <3> QED
      BY <3>1, <3>3
  <2>3. Getting = <<>> /\ Getting' = Getting /\ Putting' = Putting
    BY <1>1, <2>1 DEF Putting, Getting
  <2>4. Fifo!GetElem
    BY <1>1, <1>3, <2>1, <2>2, <2>3, Zenon DEF Fifo!GetElem, Fifo!None, Putting, Getting
  <2> QED
    BY <1>1, <1>2, <2>1, <2>4 DEF Fifo!Next, GetCopied
<1>5. CASE wptr # rptr
  <2>1. get' = [NoGet EXCEPT !.pc = "elem"] /\ delivered' = delivered
    BY <1>5 DEF ElemGetTest
  <2>2. get'.pc = "elem"
    BY <2>1 DEF NoGet
  <2>3. Putting' = Putting /\ Getting' = Getting
    BY <1>1, <2>2 DEF Putting, Getting
  <2>4. UNCHANGED Fifo!vars
    BY <1>1, <1>3, <2>1, <2>3, Zenon DEF Fifo!vars, Putting, Getting
  <2> QED
    BY <1>2, <2>2, <2>4 DEF GetCopied
<1> QED
  BY <1>4, <1>5

LEMMA ElemGetTakeStep ==
  ASSUME FifoInv, TypeOK', ElemGetTake
  PROVE  PutCopied' /\ GetCopied' /\ AheadStored' /\ Fifo!Next
PROOF
<1>1. /\ get.pc = "elem" /\ delivered' = <<buf[rptr]>> /\ get' = NoGet
      /\ rptr' = IF rptr + 1 = Size THEN 0 ELSE rptr + 1
      /\ UNCHANGED <<wptr, buf, put, ahead, accepted>>
  BY DEF ElemGetTake
<1>2. PutCopied' /\ GetCopied' /\ AheadStored'
  BY <1>1, InvParts DEF PutCopied, GetCopied, AheadStored, PutFirst, NoGet
<1>3. 1 <= rngbuf_n_bytes(wptr, rptr) /\ rptr' = Ahead(rptr, 1)
  <2>1. wptr # rptr
    BY <1>1, InvParts DEF CountsStaySafe
  <2> QED
    BY <1>1, <2>1, InvParts, ElemFits
<1>4. PICK c, N : c = Contents /\ N = rngbuf_n_bytes(wptr, rptr)
  OBVIOUS
<1>5. /\ c \in Seq(Byte) /\ Len(c) = N /\ N \in Nat /\ 1 <= N
      /\ c[1] = buf[rptr]
  <2>1. c \in Seq(Byte) /\ Len(c) = N /\ N \in Nat /\ 1 <= N
    BY <1>3, <1>4, InvParts
  <2>2. 1 \in 1 .. N /\ 1 - 1 = 0 /\ Ahead(rptr, 0) = rptr
    BY <2>1, ElemFits
  <2>3. c[1] = buf[Ahead(rptr, 1 - 1)]
    BY <1>4, <2>2, InvParts, ContentsIs
  <2> QED
    BY <2>1, <2>2, <2>3
<1>6. c # <<>> /\ Head(c) = buf[rptr] /\ Tail(c) = SubSeq(c, 2, Len(c))
  <2>1. c # <<>>
    BY <1>5, EmptySeq
  <2> QED
    BY <1>5, <2>1, TailIsSubSeq
<1>7. Contents' = SubSeq(Contents, 1 + 1, Len(Contents))
  BY <1>1, <1>3, InvParts, QueueShrinks
<1>8. Contents' = Tail(c)
  BY <1>4, <1>6, <1>7
<1>9. Getting = <<>> /\ Getting' = <<>> /\ Putting' = Putting
  BY <1>1 DEF Putting, Getting, NoGet
<1>10. Fifo!GetElem
  BY <1>1, <1>4, <1>6, <1>8, <1>9, Zenon DEF Fifo!GetElem, Fifo!None, Putting, Getting
<1> QED
  BY <1>2, <1>10 DEF Fifo!Next

LEMMA FlushStep ==
  ASSUME FifoInv, TypeOK', Flush
  PROVE  PutCopied' /\ GetCopied' /\ AheadStored' /\ Fifo!Next
PROOF
<1>1. /\ put.pc = "idle" /\ get.pc = "idle" /\ wptr' = 0 /\ rptr' = 0 /\ ahead' = <<>>
      /\ UNCHANGED <<buf, put, get, accepted, delivered>>
  BY DEF Flush
<1>2. PutCopied' /\ GetCopied' /\ AheadStored'
  BY <1>1, EmptySeq DEF PutCopied, GetCopied, AheadStored
<1>3. Contents' = <<>>
  <2>1. PICK c : c = Contents'
    OBVIOUS
  <2>2. rngbuf_n_bytes(0, 0) = 0
    BY RngAssumption DEF rngbuf_n_bytes, Wrapped
  <2>3. c \in Seq(Byte) /\ Len(c) = 0
    BY <1>1, <2>1, <2>2, ContentsNext DEF Reads
  <2>4. c = <<>>
    BY <2>3, EmptySeq
  <2> QED
    BY <2>1, <2>4
<1>4. Putting = <<>> /\ Putting' = Putting /\ Getting = <<>> /\ Getting' = Getting
  BY <1>1 DEF Putting, Getting
<1>5. Fifo!Flush
  BY <1>1, <1>3, <1>4, Zenon DEF Fifo!Flush, Fifo!None, Putting, Getting
<1> QED
  BY <1>2, <1>5 DEF Fifo!Next

LEMMA FifoStep ==
  ASSUME FifoInv, [Next]_vars
  PROVE  FifoInv' /\ [Fifo!Next]_(Fifo!vars)
PROOF
<1>1. TypeOK'
  BY TypeStep, InvParts
<1>2. RngInv'
  BY RngStep, InvParts
<1>3. PutCopied' /\ GetCopied' /\ AheadStored' /\ (Fifo!Next \/ UNCHANGED Fifo!vars)
  <2>1. CASE UNCHANGED vars
    <3>1. UNCHANGED <<wptr, rptr, buf, put, get, ahead, accepted, delivered>>
      BY <2>1 DEF vars
    <3>2. PutCopied' /\ GetCopied' /\ AheadStored'
      BY <3>1, InvParts DEF PutCopied, GetCopied, AheadStored, PutFirst, GetFirst
    <3>3. Contents' = Contents
      BY <1>1, <3>1, InvParts, QueueKept
    <3>4. Putting' = Putting /\ Getting' = Getting
      BY <3>1 DEF Putting, Getting
    <3>5. UNCHANGED Fifo!vars
      BY <3>1, <3>3, <3>4, Zenon DEF Fifo!vars, Putting, Getting
    <3> QED
      BY <3>2, <3>5
  <2>2. CASE Producer
    BY <1>1, <2>2, PutBeginStep, PutCopyStep, PutFinishStep, ElemPutTestStep,
       ElemPutStoreStep, PutAheadStep, MoveAheadStep DEF Producer
  <2>3. CASE Consumer
    BY <1>1, <2>3, GetBeginStep, GetCopyStep, GetFinishStep, ElemGetTestStep,
       ElemGetTakeStep DEF Consumer
  <2>4. CASE Flush
    BY <1>1, <2>4, FlushStep
  <2> QED
    BY <2>1, <2>2, <2>3, <2>4 DEF Next
<1> QED
  BY <1>2, <1>3 DEF FifoInv

LEMMA FifoStarts == Init => FifoInv /\ Fifo!Init
PROOF
<1> SUFFICES ASSUME Init PROVE FifoInv /\ Fifo!Init
  OBVIOUS
<1>1. RngInv
  BY InitEstablishes
<1>2. /\ wptr = 0 /\ rptr = 0 /\ put.pc = "idle" /\ get.pc = "idle"
      /\ ahead = <<>> /\ accepted = 0 /\ delivered = <<>>
  BY DEF Init, NoPut, NoGet
<1>3. FifoInv
  BY <1>1, <1>2, EmptySeq DEF FifoInv, PutCopied, GetCopied, AheadStored
<1>4. Contents = <<>>
  <2>1. PICK c : c = Contents
    OBVIOUS
  <2>2. c \in Seq(Byte) /\ Len(c) = 0
    BY <1>2, <1>3, <2>1, InvParts, ElemFits
  <2>3. c = <<>>
    BY <2>2, EmptySeq
  <2> QED
    BY <2>1, <2>3
<1>5. Putting = <<>> /\ Getting = <<>>
  BY <1>2 DEF Putting, Getting
<1>6. Fifo!Init
  BY <1>2, <1>4, <1>5, Zenon DEF Fifo!Init, Fifo!None, Putting, Getting
<1> QED
  BY <1>3, <1>6

(* The ring is a bounded queue, for every size and whatever the order of   *)
(* the two sides' steps: rngbuf.c's promise to one producer and one        *)
(* consumer without a lock.                                                *)
THEOREM RingIsFifo == Spec => IsFifo
PROOF
<1>1. Init => FifoInv /\ Fifo!Init
  BY FifoStarts
<1>2. FifoInv /\ [Next]_vars => FifoInv' /\ [Fifo!Next]_(Fifo!vars)
  BY FifoStep
<1> QED
  BY <1>1, <1>2, PTL DEF Spec, IsFifo, Fifo!Spec
=============================================================================
