------------------------------- MODULE RngBuf -------------------------------
(***************************************************************************)
(* The byte ring of rngbuf.c, shared by one producer and one consumer      *)
(* without a lock: each owns one pointer, reads the other's once at the    *)
(* start of a call, copies, and moves its own pointer last.  One byte of   *)
(* buf always stays unused, so that equal pointers mean empty.             *)
(*                                                                         *)
(* A call is split where the other side can come between: the reading of   *)
(* its pointer, the first copy, and the copy after the wrap with the write *)
(* of the own pointer.  Memory operations take effect in program order.    *)
(***************************************************************************)
EXTENDS Integers, Sequences, SequencesExt

CONSTANTS
  Byte,
  Size,       \* rngbuf_t.size: nbytes + 1
  MaxRequest  \* bound: the longest put or get asked for

ASSUME RngAssumption ==
  Size \in Nat \ {0} /\ MaxRequest \in Nat /\ Byte # {}

VARIABLES
  wptr, rptr, buf,
  put,        \* producer's call: control, its bytes, the rptr it read
  get,        \* consumer's call: control, its limit, the wptr it read, its bytes
  ahead,      \* history: the bytes put ahead since the last put
  accepted, delivered  \* what the last put returned, what the last get delivered

vars == <<wptr, rptr, buf, put, get, ahead, accepted, delivered>>

Index == 0 .. Size - 1

Pc == {"idle", "copy", "finish", "elem"}

NoPut == [pc |-> "idle", data |-> <<>>, rptr |-> 0]
NoGet == [pc |-> "idle", max |-> 0, wptr |-> 0, got |-> <<>>]

(* rngbuf_create *)
Init ==
  /\ wptr = 0 /\ rptr = 0
  /\ \E b \in Byte : buf = [i \in Index |-> b]
  /\ put = NoPut /\ get = NoGet
  /\ ahead = <<>> /\ accepted = 0 /\ delivered = <<>>

-----------------------------------------------------------------------------
(* The functions that only look, of the pointers they read. *)

Wrapped(n) == IF n < 0 THEN n + Size ELSE n

rngbuf_is_empty(w, r)   == w = r
rngbuf_free_bytes(w, r) == Wrapped(r - w - 1)
rngbuf_n_bytes(w, r)    == Wrapped(w - r)

(* Mutant: the wrapped position of a full ring is forgotten. *)
rngbuf_is_full_unwrapped(w, r) == w - r + 1 = 0

rngbuf_is_full(w, r)    == w - r + 1 \in {0, Size}

(* The index n bytes ahead of i. *)
Ahead(i, n) == IF i + n >= Size THEN i + n - Size ELSE i + n

(* What a copy of s to buf[i], buf[i + 1], .. leaves, and a copy from it.  *)
Copied(s, i) ==
  [k \in Index |-> IF k - i + 1 \in DOMAIN s THEN s[k - i + 1] ELSE buf[k]]

From(i, n) == [k \in 1 .. n |-> buf[i + k - 1]]

Fewer(m, n) == IF m < n THEN m ELSE n

-----------------------------------------------------------------------------
(* rngbuf_put *)

PutBegin(s) ==
  /\ put.pc = "idle"
  /\ put' = [pc |-> "copy", data |-> s, rptr |-> rptr]
  /\ ahead' = <<>>
  /\ UNCHANGED <<wptr, rptr, buf, get, accepted, delivered>>

(* Mutant: no byte is left free behind rptr. *)
PutFirstFills ==
  IF put.rptr > wptr THEN Fewer(Len(put.data), put.rptr - wptr)
  ELSE Fewer(Len(put.data), Size - wptr)

(* The length of the first copy. *)
PutFirst ==
  CASE put.rptr > wptr -> Fewer(Len(put.data), put.rptr - wptr - 1)
    [] put.rptr = 0    -> Fewer(Len(put.data), Size - wptr - 1)
    [] OTHER           -> Fewer(Len(put.data), Size - wptr)

PutCopy ==
  /\ put.pc = "copy"
  /\ buf' = Copied(SubSeq(put.data, 1, PutFirst), wptr)
  /\ put' = [put EXCEPT !.pc = "finish"]
  /\ UNCHANGED <<wptr, rptr, get, ahead, accepted, delivered>>

PutFinish ==
  /\ put.pc = "finish"
  /\ LET second == Fewer(Len(put.data) - PutFirst, put.rptr - 1) IN
       IF wptr + PutFirst = Size
       THEN /\ buf' = Copied(SubSeq(put.data, PutFirst + 1, PutFirst + second), 0)
            /\ wptr' = second
            /\ accepted' = PutFirst + second
       ELSE /\ wptr' = wptr + PutFirst
            /\ accepted' = PutFirst
            /\ UNCHANGED buf
  /\ put' = NoPut
  /\ UNCHANGED <<rptr, get, ahead, delivered>>

(* RNG_ELEM_PUT: the first look at rptr, and at the last index a second.   *)
ElemPutFull ==
  /\ accepted' = 0 /\ ahead' = <<>> /\ put' = NoPut
  /\ UNCHANGED <<wptr, rptr, buf, get, delivered>>

(* Mutant: only the store looks at rptr. *)
ElemPutTestNot(b) ==
  /\ put.pc = "idle"
  /\ put' = [NoPut EXCEPT !.pc = "elem", !.data = <<b>>]
  /\ UNCHANGED <<wptr, rptr, buf, get, ahead, accepted, delivered>>

ElemPutTest(b) ==
  /\ put.pc = "idle"
  /\ \/ wptr = rptr - 1 /\ ElemPutFull
     \/ /\ wptr # rptr - 1
        /\ put' = [NoPut EXCEPT !.pc = "elem", !.data = <<b>>]
        /\ UNCHANGED <<wptr, rptr, buf, get, ahead, accepted, delivered>>

ElemPutStore ==
  /\ put.pc = "elem"
  /\ \/ wptr = Size - 1 /\ rptr = 0 /\ ElemPutFull
     \/ /\ ~(wptr = Size - 1 /\ rptr = 0)
        /\ buf' = [buf EXCEPT ![wptr] = put.data[1]]
        /\ wptr' = IF wptr = Size - 1 THEN 0 ELSE wptr + 1
        /\ accepted' = 1 /\ ahead' = <<>> /\ put' = NoPut
        /\ UNCHANGED <<rptr, get, delivered>>

(* rngbuf_put_ahead, called with room for the byte, and rngbuf_move_ahead. *)
PutAhead(b, offset) ==
  /\ put.pc = "idle"
  /\ offset <= Len(ahead) /\ offset + 1 <= rngbuf_free_bytes(wptr, rptr)
  /\ buf' = [buf EXCEPT ![Ahead(wptr, offset)] = b]
  /\ ahead' = IF offset = Len(ahead) THEN Append(ahead, b)
                                    ELSE ReplaceAt(ahead, offset + 1, b)
  /\ UNCHANGED <<wptr, rptr, put, get, accepted, delivered>>

MoveAhead(n) ==
  /\ put.pc = "idle" /\ n <= Len(ahead)
  /\ wptr' = Ahead(wptr, n)
  /\ ahead' = SubSeq(ahead, n + 1, Len(ahead))
  /\ UNCHANGED <<rptr, buf, put, get, accepted, delivered>>

-----------------------------------------------------------------------------
(* rngbuf_get *)

GetBegin(max) ==
  /\ get.pc = "idle"
  /\ get' = [pc |-> "copy", max |-> max, wptr |-> wptr, got |-> <<>>]
  /\ UNCHANGED <<wptr, rptr, buf, put, ahead, accepted, delivered>>

(* The length of the first copy. *)
GetFirst ==
  IF get.wptr >= rptr THEN Fewer(get.max, get.wptr - rptr)
                      ELSE Fewer(get.max, Size - rptr)

GetCopy ==
  /\ get.pc = "copy"
  /\ get' = [get EXCEPT !.pc = "finish", !.got = From(rptr, GetFirst)]
  /\ UNCHANGED <<wptr, rptr, buf, put, ahead, accepted, delivered>>

GetFinish ==
  /\ get.pc = "finish"
  /\ LET second == Fewer(get.max - GetFirst, get.wptr) IN
       IF get.wptr < rptr /\ rptr + GetFirst = Size
       THEN rptr' = second /\ delivered' = get.got \o From(0, second)
       ELSE rptr' = rptr + GetFirst /\ delivered' = get.got
  /\ get' = NoGet
  /\ UNCHANGED <<wptr, buf, put, ahead, accepted>>

(* RNG_ELEM_GET: an empty ring gives nothing. *)
ElemGetTest ==
  /\ get.pc = "idle"
  /\ IF wptr = rptr THEN delivered' = <<>> /\ UNCHANGED get
     ELSE get' = [NoGet EXCEPT !.pc = "elem"] /\ UNCHANGED delivered
  /\ UNCHANGED <<wptr, rptr, buf, put, ahead, accepted>>

(* Mutant: the pointer does not wrap at the end of the buffer. *)
ElemGetTakeLate ==
  /\ get.pc = "elem"
  /\ delivered' = <<buf[rptr]>>
  /\ rptr' = IF rptr + 1 = Size THEN rptr ELSE rptr + 1
  /\ get' = NoGet
  /\ UNCHANGED <<wptr, buf, put, ahead, accepted>>

ElemGetTake ==
  /\ get.pc = "elem"
  /\ delivered' = <<buf[rptr]>>
  /\ rptr' = IF rptr + 1 = Size THEN 0 ELSE rptr + 1
  /\ get' = NoGet
  /\ UNCHANGED <<wptr, buf, put, ahead, accepted>>

-----------------------------------------------------------------------------
(* rngbuf_flush writes both pointers: only while neither side is at work.  *)
Flush ==
  /\ put.pc = "idle" /\ get.pc = "idle"
  /\ wptr' = 0 /\ rptr' = 0 /\ ahead' = <<>>
  /\ UNCHANGED <<buf, put, get, accepted, delivered>>

Producer ==
  \/ PutCopy \/ PutFinish \/ ElemPutStore
  \/ \E s \in BoundedSeq(Byte, MaxRequest) : PutBegin(s)
  \/ \E b \in Byte : ElemPutTest(b)
  \/ \E n \in 0 .. Size : MoveAhead(n) \/ \E b \in Byte : PutAhead(b, n)

Consumer ==
  \/ GetCopy \/ GetFinish \/ ElemGetTest \/ ElemGetTake
  \/ \E max \in 0 .. MaxRequest : GetBegin(max)

Next == Producer \/ Consumer \/ Flush

Spec == Init /\ [][Next]_vars

-----------------------------------------------------------------------------
TypeOK ==
  /\ wptr \in Index /\ rptr \in Index
  /\ buf \in [Index -> Byte]
  /\ put \in [pc : Pc, data : Seq(Byte), rptr : Index]
  /\ put.pc = "elem" => Len(put.data) = 1
  /\ get \in [pc : Pc, max : Nat, wptr : Index, got : Seq(Byte)]
  /\ ahead \in Seq(Byte) /\ accepted \in Nat /\ delivered \in Seq(Byte)

(* Where the unread bytes are, and the bytes themselves, oldest first.     *)
Filled == {i \in Index : IF rptr <= wptr THEN rptr <= i /\ i < wptr
                                         ELSE rptr <= i \/ i < wptr}

Contents == [k \in 1 .. Cardinality(Filled) |-> buf[(rptr + k - 1) % Size]]

(* The four accounting functions agree with what is in the ring, at every  *)
(* position of the two pointers.                                           *)
AccountsAgree ==
  /\ rngbuf_n_bytes(wptr, rptr) = Len(Contents)
  /\ rngbuf_free_bytes(wptr, rptr) = Size - 1 - Len(Contents)
  /\ rngbuf_is_empty(wptr, rptr) <=> Contents = <<>>
  /\ rngbuf_is_full(wptr, rptr) <=> Len(Contents) = Size - 1

(* What a side counts while the other works can only err on the safe side: *)
(* a put finds the room it read of, a get finds the bytes.                 *)
CountsStaySafe ==
  /\ put.pc \in {"copy", "finish"} =>
       /\ rngbuf_free_bytes(wptr, put.rptr) <= rngbuf_free_bytes(wptr, rptr)
       /\ ahead = <<>>
  /\ get.pc \in {"copy", "finish"} =>
       rngbuf_n_bytes(get.wptr, rptr) <= rngbuf_n_bytes(wptr, rptr)
  /\ put.pc = "elem" => wptr # rptr - 1
  /\ get.pc = "elem" => wptr # rptr
  /\ Len(ahead) <= rngbuf_free_bytes(wptr, rptr)

(* The inductive invariant. *)
RngInv == TypeOK /\ CountsStaySafe

(* No byte is overwritten before it is read, whichever way it is put.      *)
UnreadKept == [][\A i \in Filled : buf'[i] = buf[i]]_buf

(* The ring is a bounded queue: calls of the two sides may overlap at      *)
(* every step, and still each put appends the bytes there was room for at  *)
(* its call and each get takes the oldest, in order, once.                 *)
Fifo == INSTANCE BoundedFifo WITH
  Capacity  <- Size - 1,
  queue     <- Contents,
  putting   <- IF put.pc \in {"copy", "finish"}
               THEN <<put.data, rngbuf_free_bytes(wptr, put.rptr)>> ELSE <<>>,
  getting   <- IF get.pc \in {"copy", "finish"}
               THEN <<get.max, rngbuf_n_bytes(get.wptr, rptr)>> ELSE <<>>

IsFifo == Fifo!Spec
=============================================================================
