----------------------------- MODULE CodecProofs -----------------------------
(***************************************************************************)
(* Proofs about Slip and SerialFrame, for messages and payloads of any     *)
(* length: SLIP loses nothing, and the checks of a received frame find     *)
(* every damage within eight adjacent bits and every odd number of bits.   *)
(***************************************************************************)
EXTENDS Slip, SerialFrame, FiniteSetTheorems, SequenceTheorems, TLAPS

(***************************************************************************)
(* SLIP.  The inductive invariant says where the code of each byte stands. *)
(***************************************************************************)
\* Where the code of byte x of m begins in the encoder's out.
CodePlace(m, x) == x + 1 + EscapesIn(m, x - 1)

CodeAt(p, c) ==
  IF c \in Special
  THEN coded[p] = ESC /\ coded[p + 1] = (IF c = END THEN ESC_END ELSE ESC_ESC)
  ELSE coded[p] = c
Codes(n) == \A x \in 1 .. n : CodeAt(CodePlace(message, x), message[x])

SlipTyped ==
  /\ slip_pc \in {"start", "encode", "decode", "done", "too_long"}
  /\ message \in Seq(Bytes) /\ room \in Nat /\ taken \in Nat
  /\ coded \in Seq(Bytes) /\ decoded \in Seq(Bytes)

Encoded(n) ==
  /\ n <= Len(message) /\ Len(coded) = CodePlace(message, n + 1) - 1 /\ Len(coded) <= room
  /\ coded[1] = END /\ Codes(n) /\ decoded = <<>>

Framed ==
  /\ Len(coded) = CodePlace(message, Len(message) + 1) /\ Len(coded) <= room
  /\ coded[1] = END /\ coded[Len(coded)] = END /\ Codes(Len(message))

Prefix == /\ Len(decoded) <= Len(message)
          /\ \A x \in 1 .. Len(decoded) : decoded[x] = message[x]

\* The decoder stands in front of the first END, of a byte's code, or at the end.
Stands ==
  \/ Len(decoded) = 0 /\ taken = 0
  \/ taken = CodePlace(message, Len(decoded) + 1) - 1
  \/ Len(decoded) = Len(message) /\ taken = Len(coded)

SlipInv ==
  /\ SlipTyped /\ Prefix
  /\ slip_pc = "start" => taken = 0 /\ coded = <<>> /\ decoded = <<>>
  /\ slip_pc = "encode" => Encoded(taken)
  /\ slip_pc = "decode" => Framed /\ Stands
  /\ slip_pc = "done" => Framed /\ Len(decoded) = Len(message)
  /\ slip_pc = "too_long" => SlipSize > room

(***************************************************************************)
(* Damaged frames.  What the two registers differ in, without the bits of  *)
(* the present byte that were not shifted out yet, depends on the damage   *)
(* in front of bit `Reached` alone.                                        *)
(***************************************************************************)
Reached == 8 * (index + 1) + bit
Difference(b) == Xor(crc["sender"][b], crc["receiver"][b])
Remainder(b) == Xor(Difference(b), IF b >= bit THEN Error(Reached + 7 - b) ELSE 0)

\* Nothing wrong yet, nothing in it.
Unharmed == (\A p \in wrong : p >= Reached) => \A b \in 0 .. 7 : Remainder(b) = 0
\* A first wrong bit s, and no other further than seven from it: it shows in the
\* low bits, which the rest of the eight does not reach.
Shown == \A s \in wrong : s < Reached /\ wrong \subseteq s .. s + 7 =>
           \E b \in 0 .. 7 : b < Reached - s /\ Remainder(b) = 1
\* The polynomial has an even number of terms.
Odd(k) == Cardinality({p \in wrong : p < k}) % 2
Parity == Xor(Remainder(0), Xor(Remainder(1), Xor(Remainder(2), Xor(Remainder(3),
            Xor(Remainder(4), Xor(Remainder(5), Xor(Remainder(6), Remainder(7))))))))

FrameTyped ==
  /\ frame_pc \in {"marks", "crc", "accepted", "rejected"}
  /\ wrong \subseteq FrameBits /\ payload \in [1 .. N -> Octet]
  /\ crc \in [Sides -> Octet] /\ index \in 0 .. N /\ bit \in 0 .. 8

FrameInv ==
  /\ FrameTyped /\ DamageDetected
  /\ frame_pc = "marks" => index = 0 /\ bit = 8 /\ crc = [s \in Sides |-> Zero]
  /\ frame_pc = "crc" => /\ \A p \in wrong : p \in 16 .. 8 * (N + 3) - 1
                         /\ Unharmed /\ Shown /\ Parity = Odd(Reached)

(***************************************************************************)
(* Where the codes stand.                                                  *)
(***************************************************************************)
LEMMA EscapesStep ==
  ASSUME NEW m, NEW n \in Nat
  PROVE  /\ EscapesIn(m, 0) = 0 /\ EscapesIn(m, n) \in Nat
         /\ EscapesIn(m, n + 1) = EscapesIn(m, n) + IF m[n + 1] \in Special THEN 1 ELSE 0
PROOF
<1> DEFINE In(k) == {x \in 1 .. k : m[x] \in Special}
<1>1. IsFiniteSet(In(n)) /\ Cardinality(In(n)) \in Nat
  <2>1. IsFiniteSet(1 .. n)
    BY FS_Interval
  <2>2. IsFiniteSet(In(n))
    BY <2>1, FS_Subset
  <2> QED
    BY <2>2, FS_CardinalityType
<1>2. Cardinality(In(0)) = 0
  <2>1. In(0) = {}
    OBVIOUS
  <2> QED
    BY <2>1, FS_EmptySet
<1>3. Cardinality(In(n + 1)) = Cardinality(In(n)) + IF m[n + 1] \in Special THEN 1 ELSE 0
  <2>1. n + 1 \notin In(n)
    OBVIOUS
  <2>2. CASE m[n + 1] \in Special
    <3>1. In(n + 1) = In(n) \cup {n + 1}
      BY <2>2
    <3>2. Cardinality(In(n) \cup {n + 1}) = Cardinality(In(n)) + 1
      BY <1>1, <2>1, FS_AddElement
    <3> QED
      BY <2>2, <3>1, <3>2
  <2>3. CASE m[n + 1] \notin Special
    <3>1. In(n + 1) = In(n)
      BY <2>3
    <3>2. PICK c : c = Cardinality(In(n))
      OBVIOUS
    <3>3. c \in Nat /\ Cardinality(In(n + 1)) = c
      BY <1>1, <3>1, <3>2, Zenon
    <3>4. Cardinality(In(n + 1)) = c + 0
      BY <3>3
    <3> QED
      BY <2>3, <3>2, <3>4, Zenon
  <2> QED
    BY <2>2, <2>3
<1> QED
  BY <1>1, <1>2, <1>3 DEF EscapesIn

LEMMA EscapedIs ==
  ASSUME NEW c \in Bytes
  PROVE  /\ Escaped(c) \in Seq(Bytes)
         /\ Len(Escaped(c)) = IF c \in Special THEN 2 ELSE 1
         /\ c \in Special => /\ Escaped(c)[1] = ESC
                             /\ Escaped(c)[2] = (IF c = END THEN ESC_END ELSE ESC_ESC)
         /\ c \notin Special => Escaped(c)[1] = c
PROOF
<1>1. CASE c = END
  BY <1>1, SlipAssumption DEF Escaped, Special
<1>2. CASE c = ESC
  BY <1>2, SlipAssumption DEF Escaped, Special
<1>3. CASE c \notin Special
  BY <1>3, SlipAssumption DEF Escaped, Special
<1> QED
  BY <1>1, <1>2, <1>3 DEF Special

\* The code of byte x + 1 begins where that of byte x ends.
LEMMA PlaceStep ==
  ASSUME NEW m \in Seq(Bytes)
  PROVE  /\ CodePlace(m, 1) = 2
         /\ \A x \in 1 .. Len(m) + 1 : CodePlace(m, x) \in Nat /\ CodePlace(m, x) >= 2
         /\ \A x \in 1 .. Len(m) :
              CodePlace(m, x + 1) = CodePlace(m, x) + (IF m[x] \in Special THEN 2 ELSE 1)
PROOF
<1>1. Len(m) \in Nat
  BY LenProperties
<1>2. CodePlace(m, 1) = 2
  BY EscapesStep DEF CodePlace
<1>3. ASSUME NEW x \in 1 .. Len(m) + 1
      PROVE  CodePlace(m, x) \in Nat /\ CodePlace(m, x) >= 2
  <2>1. x - 1 \in Nat /\ x \in Nat /\ x >= 1
    BY <1>1
  <2>2. PICK e : e = EscapesIn(m, x - 1)
    OBVIOUS
  <2>3. e \in Nat /\ CodePlace(m, x) = x + 1 + e
    BY <2>1, <2>2, EscapesStep DEF CodePlace
  <2> QED
    BY <2>1, <2>3
<1>4. ASSUME NEW x \in 1 .. Len(m)
      PROVE  CodePlace(m, x + 1) = CodePlace(m, x) + (IF m[x] \in Special THEN 2 ELSE 1)
  <2>1. PICK y : y = x - 1
    OBVIOUS
  <2>2. y \in Nat /\ x = y + 1 /\ (x + 1) - 1 = x /\ x \in Nat
    BY <1>1, <2>1
  <2>3. /\ EscapesIn(m, y) \in Nat
        /\ EscapesIn(m, x) = EscapesIn(m, y) + IF m[x] \in Special THEN 1 ELSE 0
    BY <2>2, EscapesStep
  <2>4. CodePlace(m, x) = x + 1 + EscapesIn(m, y) /\ CodePlace(m, x + 1) = x + 2 + EscapesIn(m, x)
    BY <2>1, <2>2 DEF CodePlace
  <2> QED
    BY <2>2, <2>3, <2>4
<1> QED
  BY <1>2, <1>3, <1>4

\* And none stands behind a later one.
LEMMA PlacesGrow ==
  ASSUME NEW m \in Seq(Bytes), NEW y \in 1 .. Len(m) + 1, NEW x \in 1 .. y
  PROVE  CodePlace(m, x) + (y - x) <= CodePlace(m, y)
PROOF
<1>1. Len(m) \in Nat
  BY LenProperties
<1>2. x \in Nat /\ y \in Nat /\ x - 1 \in Nat /\ y - 1 \in Nat /\ x <= y
  BY <1>1
<1> DEFINE In(k) == {z \in 1 .. k : m[z] \in Special}
<1>3. IsFiniteSet(In(y - 1))
  <2>1. IsFiniteSet(1 .. y - 1)
    BY <1>2, FS_Interval
  <2> QED
    BY <2>1, FS_Subset
<1>4. In(x - 1) \subseteq In(y - 1)
  BY <1>2
<1>5. Cardinality(In(x - 1)) <= Cardinality(In(y - 1))
  BY <1>3, <1>4, FS_Subset
<1>6. EscapesIn(m, x - 1) <= EscapesIn(m, y - 1)
  BY <1>5 DEF EscapesIn
<1>7. PICK e, f : e = EscapesIn(m, x - 1) /\ f = EscapesIn(m, y - 1)
  OBVIOUS
<1>8. e \in Nat /\ f \in Nat /\ e <= f
  BY <1>2, <1>6, <1>7, EscapesStep
<1>9. CodePlace(m, x) = x + 1 + e /\ CodePlace(m, y) = y + 1 + f
  BY <1>7 DEF CodePlace
<1> QED
  BY <1>2, <1>8, <1>9

(***************************************************************************)
(* The encoder.                                                            *)
(***************************************************************************)
LEMMA Lengths ==
  ASSUME SlipTyped
  PROVE  /\ Len(message) \in Nat /\ Len(coded) \in Nat /\ Len(decoded) \in Nat
         /\ \A x \in 1 .. Len(message) : message[x] \in Bytes
         /\ \A p \in 1 .. Len(coded) : coded[p] \in Bytes
PROOF
  BY LenProperties, ElementOfSeq DEF SlipTyped

LEMMA Written ==
  ASSUME NEW c \in Seq(Bytes), NEW s \in Seq(Bytes), NEW t, t = c \o s
  PROVE  /\ t \in Seq(Bytes) /\ Len(t) = Len(c) + Len(s)
         /\ \A p \in 1 .. Len(c) : t[p] = c[p]
         /\ \A p \in 1 .. Len(s) : t[Len(c) + p] = s[p]
PROOF
<1>1. /\ t \in Seq(Bytes) /\ Len(t) = Len(c) + Len(s)
      /\ \A p \in 1 .. Len(c) + Len(s) : t[p] = IF p <= Len(c) THEN c[p] ELSE s[p - Len(c)]
  BY ConcatProperties
<1>2. PICK lc, ls : lc = Len(c) /\ ls = Len(s)
  OBVIOUS
<1>3. lc \in Nat /\ ls \in Nat
  BY <1>2, LenProperties
<1>4. \A p \in 1 .. lc + ls : t[p] = IF p <= lc THEN c[p] ELSE s[p - lc]
  BY <1>1, <1>2, Zenon
<1>5. \A p \in 1 .. lc : t[p] = c[p]
  BY ONLY <1>3, <1>4, SMT
<1>6. ASSUME NEW p \in 1 .. ls
      PROVE  t[lc + p] = s[p]
  <2>1. lc + p \in 1 .. lc + ls /\ ~(lc + p <= lc) /\ (lc + p) - lc = p
    BY ONLY <1>3, SMT
  <2> QED
    BY <1>4, <2>1, Zenon
<1> QED
  BY <1>1, <1>2, <1>5, <1>6, Zenon

\* What is written behind the codes leaves them as they are.
LEMMA CodesKept ==
  ASSUME SlipTyped, NEW n \in 0 .. Len(message), Codes(n), NEW k \in Nat,
         CodePlace(message, n + 1) - 1 <= k,
         \A p \in 1 .. k : coded'[p] = coded[p], message' = message
  PROVE  Codes(n)'
PROOF
<1>1. Len(message) \in Nat /\ message \in Seq(Bytes) /\ n \in Nat
  BY Lengths DEF SlipTyped
<1>2. ASSUME NEW x \in 1 .. n
      PROVE  CodeAt(CodePlace(message, x), message[x])'
  <2>1. PICK pl, next, end, c : /\ pl = CodePlace(message, x) /\ next = CodePlace(message, x + 1)
                                /\ end = CodePlace(message, n + 1) /\ c = message[x]
    OBVIOUS
  <2>2. x \in 1 .. Len(message) /\ n + 1 \in 1 .. Len(message) + 1 /\ x + 1 \in 1 .. n + 1
        /\ x \in 1 .. Len(message) + 1
    BY <1>1
  <2>3. /\ pl \in Nat /\ pl >= 2 /\ next = pl + (IF c \in Special THEN 2 ELSE 1) /\ end \in Nat
    BY <1>1, <2>1, <2>2, PlaceStep
  <2>4. next + (n + 1 - (x + 1)) <= end
    <3>1. PICK u, v : u = x + 1 /\ v = n + 1
      OBVIOUS
    <3>2. CodePlace(message, u) + (v - u) <= CodePlace(message, v)
      BY <1>1, <2>2, <3>1, PlacesGrow
    <3> QED
      BY <2>1, <3>1, <3>2
  <2>5. end - 1 <= k
    BY <2>1
  <2>6. pl \in 1 .. k /\ (c \in Special => pl + 1 \in 1 .. k)
    BY <1>1, <2>3, <2>4, <2>5
  <2>7. CodeAt(pl, c)
    BY <2>1 DEF Codes
  <2>8. coded'[pl] = coded[pl] /\ (c \in Special => coded'[pl + 1] = coded[pl + 1])
    BY <2>6
  <2>9. CodeAt(pl, c)'
    BY <2>7, <2>8 DEF CodeAt
  <2> QED
    BY <2>1, <2>9
<1> QED
  BY <1>2 DEF Codes

LEMMA StartStep ==
  ASSUME SlipInv, EncodeStart
  PROVE  SlipInv'
PROOF
<1>1. /\ SlipTyped /\ Prefix /\ coded = <<>> /\ decoded = <<>> /\ taken = 0
      /\ message' = message /\ room' = room /\ taken' = taken /\ decoded' = decoded
  BY DEF SlipInv, EncodeStart
<1>2. Len(message) \in Nat /\ message \in Seq(Bytes) /\ room \in Nat /\ Len(coded) = 0
  BY <1>1, Lengths DEF SlipTyped
<1>3. CodePlace(message, 1) = 2
  BY <1>2, PlaceStep
<1>4. <<END>> \in Seq(Bytes) /\ Len(<<END>>) = 1 /\ <<END>>[1] = END
  BY SlipAssumption
<1>5. CASE coded' = coded \o <<END>> /\ slip_pc' = "encode" /\ Len(coded) + Len(<<END>>) <= room
  <2>1. /\ coded' \in Seq(Bytes) /\ Len(coded') = 1 /\ coded'[1] = END
    <3>1. /\ coded' \in Seq(Bytes) /\ Len(coded') = Len(coded) + Len(<<END>>)
          /\ \A p \in 1 .. Len(<<END>>) : coded'[Len(coded) + p] = <<END>>[p]
      BY <1>1, <1>4, <1>5, Written DEF SlipTyped
    <3>2. coded'[0 + 1] = END
      BY <1>2, <1>4, <3>1
    <3> QED
      BY <1>2, <1>4, <3>1, <3>2
  <2>2. Encoded(0)'
    BY <1>1, <1>2, <1>3, <1>4, <1>5, <2>1 DEF Encoded, Codes
  <2>3. SlipTyped' /\ Prefix'
    BY <1>1, <1>5, <2>1 DEF SlipTyped, Prefix
  <2> QED
    BY <1>1, <1>5, <2>2, <2>3 DEF SlipInv
<1>6. CASE slip_pc' = "too_long" /\ coded' = coded /\ ~(Len(coded) + Len(<<END>>) <= room)
  <2>1. SlipSize > room
    <3>1. EscapesIn(message, Len(message)) \in Nat
      BY <1>2, EscapesStep
    <3> QED
      BY <1>2, <1>4, <1>6, <3>1 DEF SlipSize
  <2>2. SlipTyped' /\ Prefix' /\ SlipSize' = SlipSize
    BY <1>1, <1>6 DEF SlipTyped, Prefix, SlipSize
  <2> QED
    BY <1>1, <1>6, <2>1, <2>2 DEF SlipInv
<1> QED
  BY <1>5, <1>6 DEF EncodeStart, Put

\* All codes together are two ENDs shorter than the frame.
LEMMA SizeIs ==
  ASSUME SlipTyped
  PROVE  SlipSize = CodePlace(message, Len(message) + 1)
PROOF
<1>1. PICK n : n = Len(message)
  OBVIOUS
<1>2. n \in Nat /\ (n + 1) - 1 = n /\ EscapesIn(message, n) \in Nat
  BY <1>1, Lengths, EscapesStep
<1> QED
  BY <1>1, <1>2 DEF SlipSize, CodePlace

LEMMA ByteStep ==
  ASSUME SlipInv, EncodeByte
  PROVE  SlipInv'
PROOF
<1>1. /\ SlipTyped /\ Prefix /\ Encoded(taken) /\ taken < Len(message)
      /\ message' = message /\ room' = room /\ taken' = taken + 1 /\ decoded' = decoded
  BY DEF SlipInv, EncodeByte
<1>2. PICK n, lm, lc, c, s : /\ n = taken /\ lm = Len(message) /\ lc = Len(coded)
                             /\ c = message[taken + 1] /\ s = Escaped(message[taken + 1])
  OBVIOUS
<1>3. /\ n \in Nat /\ lm \in Nat /\ lc \in Nat /\ n < lm /\ n + 1 \in 1 .. lm /\ n \in 0 .. lm
      /\ message \in Seq(Bytes) /\ coded \in Seq(Bytes) /\ room \in Nat
  BY <1>1, <1>2, Lengths DEF SlipTyped
<1>4. c \in Bytes /\ s = Escaped(c)
  BY <1>1, <1>2, <1>3, Lengths
<1>5. /\ s \in Seq(Bytes) /\ Len(s) = IF c \in Special THEN 2 ELSE 1
      /\ c \in Special => s[1] = ESC /\ s[2] = (IF c = END THEN ESC_END ELSE ESC_ESC)
      /\ c \notin Special => s[1] = c
  BY <1>4, EscapedIs
<1>6. PICK pl, next, end : /\ pl = CodePlace(message, n + 1) /\ next = CodePlace(message, n + 2)
                           /\ end = CodePlace(message, lm + 1)
  OBVIOUS
<1>7. pl \in Nat /\ next = pl + Len(s) /\ next \in Nat /\ end \in Nat /\ pl >= 2
  <2>1. n + 1 \in 1 .. lm + 1 /\ (n + 1) + 1 = n + 2 /\ lm + 1 \in 1 .. lm + 1
    BY <1>3
  <2>2. /\ pl \in Nat /\ pl >= 2 /\ end \in Nat
        /\ next = pl + (IF c \in Special THEN 2 ELSE 1)
    BY <1>2, <1>3, <1>6, <2>1, PlaceStep
  <2> QED
    BY <1>5, <2>2
<1>8. next <= end
  <2>1. lm + 1 \in 1 .. lm + 1 /\ n + 2 \in 1 .. lm + 1
    BY <1>3
  <2>2. next + ((lm + 1) - (n + 2)) <= end
    <3>1. n + 2 <= lm + 1
      BY <1>3
    <3>2. CodePlace(message, n + 2) + ((lm + 1) - (n + 2)) <= CodePlace(message, lm + 1)
      BY <1>2, <1>3, <2>1, <3>1, PlacesGrow
    <3> QED
      BY <1>6, <3>2
  <2> QED
    BY <1>3, <1>7, <2>2
<1>9. lc = pl - 1 /\ lc <= room /\ coded[1] = END /\ Codes(n) /\ decoded = <<>>
  BY <1>1, <1>2, <1>6 DEF Encoded
<1>10. CASE coded' = coded \o s /\ slip_pc' = "encode" /\ lc + Len(s) <= room
  <2>1. /\ coded' \in Seq(Bytes) /\ Len(coded') = lc + Len(s)
        /\ \A p \in 1 .. lc : coded'[p] = coded[p]
        /\ \A p \in 1 .. Len(s) : coded'[lc + p] = s[p]
    <3>1. /\ coded' \in Seq(Bytes) /\ Len(coded') = Len(coded) + Len(s)
          /\ \A p \in 1 .. Len(coded) : coded'[p] = coded[p]
          /\ \A p \in 1 .. Len(s) : coded'[Len(coded) + p] = s[p]
      <4>1. coded \in Seq(Bytes) /\ s \in Seq(Bytes) /\ coded' = coded \o s
        BY <1>3, <1>5, <1>10, Zenon
      <4> QED
        BY ONLY <4>1, Written
    <3> QED
      BY <1>2, <3>1, Zenon
  <2>2. Codes(n)'
    <3>1. CodePlace(message, n + 1) - 1 <= lc
      BY <1>6, <1>7, <1>9
    <3>2. n \in 0 .. Len(message)
      BY <1>2, <1>3
    <3> QED
      BY <1>1, <1>3, <1>9, <2>1, <3>1, <3>2, CodesKept
  <2>3. CodeAt(pl, c)'
    <3>1. lc + 1 = pl /\ lc + 2 = pl + 1
      BY <1>3, <1>7, <1>9
    <3>2. coded'[pl] = s[1] /\ (c \in Special => coded'[pl + 1] = s[2])
      BY <1>5, <2>1, <3>1
    <3> QED
      BY <1>5, <3>2 DEF CodeAt
  <2>4. Codes(n + 1)'
    <3>1. ASSUME NEW x \in 1 .. n + 1
          PROVE  CodeAt(CodePlace(message, x), message[x])'
      <4>1. CASE x = n + 1
        BY <1>1, <1>2, <1>6, <2>3, <4>1
      <4>2. CASE x # n + 1
        <5>1. x \in 1 .. n
          BY <1>3, <4>2
        <5> QED
          BY <2>2, <5>1 DEF Codes
      <4> QED
        BY <4>1, <4>2
    <3> QED
      BY <3>1 DEF Codes
  <2>5. Len(coded') = next - 1 /\ Len(coded') <= room /\ coded'[1] = END
    BY <1>3, <1>7, <1>9, <1>10, <2>1
  <2>6. Encoded(taken)'
    <3>1. n + 1 <= lm /\ (n + 1) + 1 = n + 2
      BY <1>3
    <3> QED
      BY <1>1, <1>2, <1>6, <1>9, <2>4, <2>5, <3>1 DEF Encoded
  <2>7. SlipTyped' /\ Prefix'
    BY <1>1, <1>3, <1>10, <2>1 DEF SlipTyped, Prefix
  <2> QED
    BY <1>10, <2>6, <2>7 DEF SlipInv
<1>11. CASE slip_pc' = "too_long" /\ coded' = coded /\ ~(lc + Len(s) <= room)
  <2>1. SlipSize > room
    <3>1. end > room
      BY ONLY <1>3, <1>7, <1>8, <1>9, <1>11, SMT
    <3> QED
      BY <1>1, <1>2, <1>6, <3>1, SizeIs, Zenon
  <2>2. SlipTyped' /\ Prefix' /\ SlipSize' = SlipSize
    BY <1>1, <1>11 DEF SlipTyped, Prefix, SlipSize
  <2> QED
    BY <1>1, <1>11, <2>1, <2>2 DEF SlipInv
<1> QED
  BY <1>2, <1>10, <1>11 DEF EncodeByte, Put

LEMMA EndStep ==
  ASSUME SlipInv, EncodeEnd
  PROVE  SlipInv'
PROOF
<1>1. /\ SlipTyped /\ Prefix /\ Encoded(taken) /\ taken = Len(message)
      /\ message' = message /\ room' = room /\ taken' = 0 /\ decoded' = decoded
  BY DEF SlipInv, EncodeEnd
<1>2. PICK lm, lc, end : /\ lm = Len(message) /\ lc = Len(coded)
                         /\ end = CodePlace(message, Len(message) + 1)
  OBVIOUS
<1>3. /\ lm \in Nat /\ lc \in Nat /\ message \in Seq(Bytes) /\ coded \in Seq(Bytes)
      /\ room \in Nat
  BY <1>1, <1>2, Lengths DEF SlipTyped
<1>4. end \in Nat /\ end >= 2
  <2>1. lm + 1 \in 1 .. lm + 1
    BY <1>3
  <2> QED
    BY <1>2, <1>3, <2>1, PlaceStep
<1>5. lc = end - 1 /\ lc <= room /\ coded[1] = END /\ Codes(lm) /\ decoded = <<>>
  BY <1>1, <1>2 DEF Encoded
<1>6. <<END>> \in Seq(Bytes) /\ Len(<<END>>) = 1 /\ <<END>>[1] = END
  BY SlipAssumption
<1>7. Len(decoded) = 0
  BY <1>5, EmptySeq
<1>8. CASE coded' = coded \o <<END>> /\ slip_pc' = "decode" /\ lc + Len(<<END>>) <= room
  <2>1. /\ coded' \in Seq(Bytes) /\ Len(coded') = lc + Len(<<END>>)
        /\ \A p \in 1 .. lc : coded'[p] = coded[p]
        /\ \A p \in 1 .. Len(<<END>>) : coded'[lc + p] = <<END>>[p]
    <3>1. /\ coded' \in Seq(Bytes) /\ Len(coded') = Len(coded) + Len(<<END>>)
          /\ \A p \in 1 .. Len(coded) : coded'[p] = coded[p]
          /\ \A p \in 1 .. Len(<<END>>) : coded'[Len(coded) + p] = <<END>>[p]
      BY <1>3, <1>6, <1>8, Written
    <3> QED
      BY <1>2, <3>1, Zenon
  <2>2. Codes(lm)'
    <3>1. CodePlace(message, lm + 1) - 1 <= lc
      BY <1>2, <1>4, <1>5
    <3>2. lm \in 0 .. Len(message)
      BY <1>2, <1>3
    <3> QED
      BY <1>1, <1>3, <1>5, <2>1, <3>1, <3>2, CodesKept
  <2>3. Len(coded') = end /\ end <= room /\ coded'[1] = END /\ coded'[end] = END
    <3>1. 1 \in 1 .. lc /\ lc + 1 = end /\ 1 \in 1 .. Len(<<END>>)
      BY <1>3, <1>4, <1>5, <1>6
    <3>2. coded'[1] = END /\ coded'[lc + 1] = END
      BY <1>5, <1>6, <2>1, <3>1, Zenon
    <3> QED
      BY <1>6, <1>8, <2>1, <3>1, <3>2
  <2>4. Framed'
    BY <1>1, <1>2, <2>2, <2>3 DEF Framed
  <2>5. Stands'
    BY <1>1, <1>7 DEF Stands
  <2>6. SlipTyped' /\ Prefix'
    BY <1>1, <1>8, <2>1 DEF SlipTyped, Prefix
  <2> QED
    BY <1>8, <2>4, <2>5, <2>6 DEF SlipInv
<1>9. CASE slip_pc' = "too_long" /\ coded' = coded /\ ~(lc + Len(<<END>>) <= room)
  <2>1. SlipSize > room
    <3>1. end > room
      BY <1>3, <1>4, <1>5, <1>6, <1>9
    <3> QED
      BY <1>1, <1>2, <3>1, SizeIs, Zenon
  <2>2. SlipTyped' /\ Prefix' /\ SlipSize' = SlipSize
    BY <1>1, <1>9 DEF SlipTyped, Prefix, SlipSize
  <2> QED
    BY <1>1, <1>9, <2>1, <2>2 DEF SlipInv
<1> QED
  BY <1>2, <1>8, <1>9 DEF EncodeEnd, Put

(***************************************************************************)
(* The decoder.                                                            *)
(***************************************************************************)
\* What is in front of the decoder: an END, or the code of the next byte.
AtEND ==
  /\ Taking = END
  /\ \/ taken + 1 = CodePlace(message, Len(decoded) + 1) - 1
     \/ Len(decoded) = Len(message) /\ taken + 1 = Len(coded)
AtCode(c) ==
  /\ Len(decoded) < Len(message) /\ c = message[Len(decoded) + 1] /\ c \in Bytes
  /\ CodeAt(taken + 1, c)
  /\ taken + (IF c \in Special THEN 2 ELSE 1) = CodePlace(message, Len(decoded) + 2) - 1
  /\ taken + (IF c \in Special THEN 2 ELSE 1) <= Len(coded)

LEMMA InFront ==
  ASSUME SlipInv, slip_pc = "decode", taken < Len(coded)
  PROVE  AtEND \/ \E c \in Bytes : AtCode(c)
PROOF
<1>1. SlipTyped /\ Prefix /\ Framed /\ Stands
  BY DEF SlipInv
<1>2. PICK d, lm, lc, end : /\ d = Len(decoded) /\ lm = Len(message) /\ lc = Len(coded)
                            /\ end = CodePlace(message, Len(message) + 1)
  OBVIOUS
<1>3. /\ d \in Nat /\ lm \in Nat /\ lc \in Nat /\ taken \in Nat /\ d <= lm /\ taken < lc
      /\ message \in Seq(Bytes)
  BY <1>1, <1>2, Lengths DEF SlipTyped, Prefix
<1>4. lc = end /\ coded[1] = END /\ coded[lc] = END /\ Codes(lm)
  BY <1>1, <1>2 DEF Framed
<1>5. CASE d = 0 /\ taken = 0
  <2>1. CodePlace(message, 1) = 2
    BY <1>3, PlaceStep
  <2>2. taken + 1 = CodePlace(message, Len(decoded) + 1) - 1 /\ Taking = END
    BY <1>2, <1>4, <1>5, <2>1 DEF Taking
  <2> QED
    BY <2>2 DEF AtEND
<1>6. CASE taken = CodePlace(message, d + 1) - 1 /\ d = lm
  <2>1. taken + 1 = lc
    BY <1>2, <1>3, <1>4, <1>6
  <2>2. Taking = END
    BY <1>4, <2>1 DEF Taking
  <2> QED
    BY <1>2, <1>6, <2>1, <2>2 DEF AtEND
<1>7. CASE taken = CodePlace(message, d + 1) - 1 /\ d < lm
  <2>1. PICK x, y, v, c, pl, next : /\ x = d + 1 /\ y = d + 2 /\ v = lm + 1
                                    /\ c = message[d + 1]
                                    /\ pl = CodePlace(message, d + 1)
                                    /\ next = CodePlace(message, d + 2)
    OBVIOUS
  <2>2. /\ x \in 1 .. lm /\ x \in 1 .. lm + 1 /\ x + 1 = y /\ y \in 1 .. lm + 1 /\ y \in 1 .. v
        /\ v \in 1 .. lm + 1
    BY <1>3, <1>7, <2>1
  <2>3. c \in Bytes
    BY <1>1, <1>2, <2>1, <2>2, Lengths
  <2>4. pl \in Nat /\ pl >= 2 /\ next = pl + (IF c \in Special THEN 2 ELSE 1) /\ end \in Nat
    BY <1>2, <1>3, <2>1, <2>2, PlaceStep
  <2>5. next + (v - y) <= end
    BY <1>2, <1>3, <2>1, <2>2, PlacesGrow
  <2>6. CodeAt(pl, c)
    BY <1>4, <2>1, <2>2 DEF Codes
  <2>7. taken + 1 = pl
    BY <1>7, <2>1, <2>4
  <2>8. /\ taken + (IF c \in Special THEN 2 ELSE 1) = next - 1
        /\ taken + (IF c \in Special THEN 2 ELSE 1) <= lc
    BY <1>3, <1>4, <2>2, <2>4, <2>5, <2>7
  <2>9. AtCode(c)
    BY <1>2, <1>7, <2>1, <2>3, <2>6, <2>7, <2>8, Zenon DEF AtCode
  <2> QED
    BY <2>3, <2>9
<1> QED
  <2>1. d = lm \/ d < lm
    BY <1>3
  <2>2. (d = 0 /\ taken = 0) \/ taken = CodePlace(message, d + 1) - 1 \/ (d = lm /\ taken = lc)
    BY <1>1, <1>2, Zenon DEF Stands
  <2>3. taken # lc
    BY <1>3
  <2> QED
    BY <1>5, <1>6, <1>7, <2>1, <2>2, <2>3, Zenon

\* A byte that is stored is the next one of the message.
LEMMA StoresNext ==
  ASSUME SlipInv, slip_pc = "decode", taken < Len(coded), NEW c \in Bytes, AtCode(c),
         Stores(c, IF c \in Special THEN 2 ELSE 1), UNCHANGED <<message, room, coded>>
  PROVE  SlipInv'
PROOF
<1>1. SlipTyped /\ Prefix /\ Framed
  BY DEF SlipInv
<1>2. /\ decoded' = Append(decoded, c) /\ taken' = taken + (IF c \in Special THEN 2 ELSE 1)
      /\ slip_pc' = slip_pc /\ message' = message /\ room' = room /\ coded' = coded
  BY DEF Stores
<1>3. PICK d, lm, e : d = Len(decoded) /\ lm = Len(message) /\ e = Len(decoded')
  OBVIOUS
<1>4. /\ decoded' \in Seq(Bytes) /\ e = d + 1 /\ d \in Nat /\ lm \in Nat
      /\ \A x \in 1 .. d : decoded'[x] = decoded[x] /\ decoded'[d + 1] = c
  <2>1. decoded \in Seq(Bytes)
    BY <1>1 DEF SlipTyped
  <2>2. /\ decoded' \in Seq(Bytes) /\ Len(decoded') = Len(decoded) + 1
        /\ \A x \in 1 .. Len(decoded) : decoded'[x] = decoded[x]
        /\ decoded'[Len(decoded) + 1] = c
    BY <1>2, <2>1, AppendProperties
  <2> QED
    BY <1>1, <1>3, <2>2, Lengths, Zenon
<1>5. /\ d < lm /\ c = message[d + 1]
      /\ taken + (IF c \in Special THEN 2 ELSE 1) = CodePlace(message, d + 2) - 1
      /\ \A x \in 1 .. d : decoded[x] = message[x]
  BY <1>1, <1>3 DEF AtCode, Prefix
<1>6. Prefix'
  <2>1. \A x \in 1 .. d + 1 : x \in 1 .. d \/ x = d + 1
    BY <1>4
  <2>2. decoded'[d + 1] = c
    <3>1. Append(decoded, c)[Len(decoded) + 1] = c
      BY <1>1, AppendProperties DEF SlipTyped
    <3> QED
      BY <1>2, <1>3, <3>1, Zenon
  <2>3. \A x \in 1 .. d + 1 : decoded'[x] = message[x]
    BY <1>4, <1>5, <2>1, <2>2, Zenon
  <2>4. d + 1 <= lm
    BY <1>4, <1>5
  <2> QED
    BY <1>2, <1>3, <1>4, <2>3, <2>4, Zenon DEF Prefix
<1>7. Stands'
  <2>1. taken' = CodePlace(message, e + 1) - 1
    <3>1. e + 1 = d + 2
      BY <1>4
    <3> QED
      BY <1>2, <1>5, <3>1
  <2> QED
    BY <1>2, <1>3, <2>1, Zenon DEF Stands
<1>8. SlipTyped'
  <2>1. taken' \in Nat
    BY <1>1, <1>2 DEF SlipTyped
  <2> QED
    BY <1>1, <1>2, <1>4, <2>1, Zenon DEF SlipTyped
<1>9. Framed'
  BY <1>1, <1>2 DEF Framed, Codes, CodeAt
<1> QED
  BY <1>2, <1>6, <1>7, <1>8, <1>9 DEF SlipInv

LEMMA EscapeStep ==
  ASSUME SlipInv, DecodeEscape
  PROVE  SlipInv'
PROOF
<1>1. /\ slip_pc = "decode" /\ taken < Len(coded) /\ UNCHANGED <<message, room, coded>>
      /\ Taking = ESC
  BY DEF DecodeEscape, Decoding
<1>2. PICK c \in Bytes : AtCode(c)
  BY <1>1, InFront, SlipAssumption DEF AtEND
<1>3. CodeAt(taken + 1, c) /\ taken + (IF c \in Special THEN 2 ELSE 1) <= Len(coded)
  BY <1>2 DEF AtCode
<1>4. c \in Special
  BY <1>1, <1>3 DEF CodeAt, Taking, Special
<1>5. coded[(taken + 1) + 1] = (IF c = END THEN ESC_END ELSE ESC_ESC)
  BY <1>3, <1>4 DEF CodeAt
<1>6. (taken + 1) + 1 = taken + 2
  BY DEF SlipInv, SlipTyped
<1>7. /\ taken + 2 <= Len(coded) /\ coded[taken + 2] \in {ESC_END, ESC_ESC}
      /\ c = (IF coded[taken + 2] = ESC_END THEN END ELSE ESC)
  BY <1>3, <1>4, <1>5, <1>6, SlipAssumption DEF Special
<1>8. Stores(c, 2)
  BY <1>7, Zenon DEF DecodeEscape
<1> QED
  BY <1>1, <1>2, <1>4, <1>8, StoresNext

LEMMA SkipStep ==
  ASSUME SlipInv, DecodeSkip
  PROVE  SlipInv'
PROOF
<1>1. /\ slip_pc = "decode" /\ taken < Len(coded) /\ UNCHANGED <<message, room, coded>>
      /\ Taking = END /\ taken' = taken + 1 /\ UNCHANGED <<slip_pc, decoded>>
  BY DEF DecodeSkip, Decoding
<1>2. ASSUME NEW c \in Bytes, AtCode(c)
      PROVE  FALSE
  BY <1>1, <1>2, SlipAssumption DEF AtCode, CodeAt, Taking, Special
<1>3. Stands'
  BY <1>1, <1>2, InFront DEF AtEND, Stands
<1>4. SlipTyped /\ Prefix /\ Framed
  BY <1>1 DEF SlipInv
<1>5. SlipTyped' /\ Prefix' /\ Framed'
  BY <1>1, <1>4 DEF SlipTyped, Prefix, Framed, Codes, CodeAt
<1> QED
  BY <1>1, <1>3, <1>5 DEF SlipInv

LEMMA PlainStep ==
  ASSUME SlipInv, DecodePlain
  PROVE  SlipInv'
PROOF
<1>1. /\ slip_pc = "decode" /\ taken < Len(coded) /\ UNCHANGED <<message, room, coded>>
      /\ Taking \notin Special
  BY DEF DecodePlain, Decoding
<1>2. PICK c \in Bytes : AtCode(c)
  BY <1>1, InFront DEF AtEND, Special
<1>3. c \notin Special /\ Taking = c
  BY <1>1, <1>2 DEF AtCode, CodeAt, Taking, Special
<1>4. Stores(c, 1)
  BY <1>2, <1>3, Zenon DEF DecodePlain, AtCode
<1> QED
  BY <1>1, <1>2, <1>3, <1>4, StoresNext

LEMMA ReturnStep ==
  ASSUME SlipInv, DecodeReturn
  PROVE  SlipInv'
PROOF
<1>1. /\ slip_pc = "decode" /\ taken = Len(coded) /\ slip_pc' = "done"
      /\ UNCHANGED <<message, room, taken, coded, decoded>>
  BY DEF DecodeReturn
<1>2. SlipTyped /\ Prefix /\ Framed /\ Stands
  BY <1>1 DEF SlipInv
<1>3. PICK d, lm, lc : d = Len(decoded) /\ lm = Len(message) /\ lc = Len(coded)
  OBVIOUS
<1>4. d \in Nat /\ lm \in Nat /\ lc \in Nat /\ d <= lm /\ message \in Seq(Bytes)
  BY <1>2, <1>3, Lengths DEF Prefix, SlipTyped
<1>5. PICK x, v, pl, end : /\ x = d + 1 /\ v = lm + 1 /\ pl = CodePlace(message, d + 1)
                           /\ end = CodePlace(message, lm + 1)
  OBVIOUS
<1>6. x \in 1 .. v /\ v \in 1 .. lm + 1 /\ x \in 1 .. lm + 1 /\ v - x >= 0
  BY <1>4, <1>5
<1>7. pl \in Nat /\ end \in Nat /\ pl + (v - x) <= end /\ end >= 2
  BY <1>3, <1>4, <1>5, <1>6, PlaceStep, PlacesGrow
<1>8. lc = end
  BY <1>2, <1>3, <1>5 DEF Framed
<1>9. (d = 0 /\ taken = 0) \/ taken = pl - 1 \/ (d = lm /\ taken = lc)
  BY <1>2, <1>3, <1>5, Zenon DEF Stands
<1>10. d = lm
  <2>1. taken = lc
    BY <1>1, <1>3
  <2> QED
    BY ONLY <1>4, <1>5, <1>6, <1>7, <1>8, <1>9, <2>1, SMT
<1>11. SlipTyped' /\ Prefix' /\ Framed'
  BY <1>1, <1>2 DEF SlipTyped, Prefix, Framed, Codes, CodeAt
<1> QED
  BY <1>1, <1>3, <1>10, <1>11 DEF SlipInv

LEMMA SlipStarts == SlipInit => SlipInv
PROOF
<1> SUFFICES ASSUME SlipInit PROVE SlipInv
  OBVIOUS
<1>1. <<>> \in Seq(Bytes) /\ Len(<<>>) = 0
  BY EmptySeq
<1>2. SlipTyped
  BY <1>1, SlipAssumption DEF SlipInit, SlipTyped
<1>3. Len(message) \in Nat /\ Len(decoded) = 0
  BY <1>1, <1>2, Lengths DEF SlipInit
<1>4. Prefix
  BY <1>3 DEF Prefix
<1> QED
  BY <1>2, <1>4 DEF SlipInit, SlipInv

\* usr_ser_slip_encode and usr_ser_slip_decode, for any message and any out_max:
\* the message comes back, nothing is stored behind a buffer that just holds it, and
\* encoding fails only when the frame is longer than out_max.
THEOREM SlipLosesNothing == SlipSpec => []SlipRoundTrip
PROOF
<1>1. SlipInv /\ [SlipNext]_slipVars => SlipInv'
  <2> SUFFICES ASSUME SlipInv, [SlipNext]_slipVars PROVE SlipInv'
    OBVIOUS
  <2>1. CASE UNCHANGED slipVars
    <3>1. UNCHANGED <<slip_pc, message, room, taken, coded, decoded>>
      BY <2>1 DEF slipVars
    <3> QED
      BY <3>1 DEF SlipInv, SlipTyped, Prefix, Encoded, Framed, Stands, Codes, CodeAt, SlipSize
  <2> QED
    BY <2>1, StartStep, ByteStep, EndStep, EscapeStep, SkipStep, PlainStep, ReturnStep
       DEF SlipNext
<1>2. SlipInv => SlipRoundTrip
  <2> SUFFICES ASSUME SlipInv PROVE SlipRoundTrip
    OBVIOUS
  <2>1. SlipTyped /\ Prefix
    BY DEF SlipInv
  <2>2. ASSUME slip_pc = "done"
        PROVE  SlipSize <= room /\ decoded = message
    <3>1. Framed /\ Len(decoded) = Len(message)
      BY <2>2 DEF SlipInv
    <3>2. decoded = message
      BY <2>1, <3>1, SeqEqual DEF Prefix, SlipTyped
    <3> QED
      BY <2>1, <3>1, <3>2, SizeIs DEF Framed
  <2>3. slip_pc # "invalid" /\ Len(decoded) <= Len(message)
    BY <2>1 DEF SlipTyped, Prefix
  <2>4. slip_pc = "too_long" => SlipSize > room
    BY DEF SlipInv
  <2> QED
    BY <2>2, <2>3, <2>4 DEF SlipRoundTrip
<1> QED
  BY <1>1, <1>2, SlipStarts, PTL DEF SlipSpec

(***************************************************************************)
(* The two calls of crc8.                                                  *)
(***************************************************************************)
LEMMA XorIs ==
  /\ \A x, y \in {0, 1} : Xor(x, y) \in {0, 1} /\ Xor(x, y) = Xor(y, x)
  /\ \A x \in {0, 1} : Xor(x, 0) = x /\ Xor(x, x) = 0
PROOF
  BY DEF Xor

LEMMA RegisterBits ==
  ASSUME FrameTyped
  PROVE  /\ crc["sender"] \in Octet /\ crc["receiver"] \in Octet
         /\ \A b \in 0 .. 7 : /\ crc["sender"][b] \in {0, 1} /\ crc["receiver"][b] \in {0, 1}
                              /\ Difference(b) \in {0, 1} /\ Remainder(b) \in {0, 1}
         /\ Reached \in Nat /\ index \in Nat /\ bit \in Nat /\ N \in Nat
PROOF
<1>1. crc["sender"] \in Octet /\ crc["receiver"] \in Octet
  BY DEF FrameTyped, Sides
<1>2. \A b \in 0 .. 7 : Difference(b) \in {0, 1} /\ Remainder(b) \in {0, 1}
  BY DEF Difference, Remainder, Xor
<1>3. \A b \in 0 .. 7 : crc["sender"][b] \in {0, 1} /\ crc["receiver"][b] \in {0, 1}
  BY <1>1 DEF Octet
<1> QED
  BY <1>1, <1>2, <1>3, FrameAssumption DEF FrameTyped, Reached

LEMMA ShiftIs ==
  ASSUME NEW c \in Octet
  PROVE  /\ Shift(c) \in Octet /\ Shift(c)[0] = c[7]
         /\ \A b \in 1 .. 7 : Shift(c)[b] = IF b <= 2 THEN Xor(c[b - 1], c[7]) ELSE c[b - 1]
PROOF
<1>1. \A b \in 0 .. 7 : c[b] \in {0, 1}
  BY DEF Octet
<1>2. /\ Left(c) \in Octet /\ Left(c)[0] = 0
      /\ \A b \in 1 .. 7 : Left(c)[b] = c[b - 1]
  <2>1. \A b \in 0 .. 7 : b = 0 \/ b - 1 \in 0 .. 7
    OBVIOUS
  <2> QED
    BY <1>1, <2>1 DEF Left, Octet
<1>3. \A b \in 0 .. 7 : Left(c)[b] \in {0, 1}
  BY <1>2 DEF Octet
<1>4. CASE c[7] = 1
  <2>1. Shift(c) = [b \in 0 .. 7 |-> IF b <= 2 THEN Xor(Left(c)[b], 1) ELSE Left(c)[b]]
    BY <1>4 DEF Shift, Polynomial
  <2>2. \A b \in 0 .. 7 : Shift(c)[b] = IF b <= 2 THEN Xor(Left(c)[b], 1) ELSE Left(c)[b]
    BY <2>1
  <2>3. \A b \in 0 .. 7 : (IF b <= 2 THEN Xor(Left(c)[b], 1) ELSE Left(c)[b]) \in {0, 1}
    BY <1>3 DEF Xor
  <2>4. Shift(c) \in Octet
    BY <2>1, <2>3 DEF Octet
  <2>5. Shift(c)[0] = 1
    BY <1>2, <2>2 DEF Xor
  <2> QED
    BY <1>2, <1>4, <2>2, <2>4, <2>5
<1>5. CASE c[7] = 0
  <2>1. Shift(c) = Left(c)
    BY <1>5 DEF Shift
  <2>2. \A b \in 1 .. 7 : b <= 2 => Xor(c[b - 1], c[7]) = c[b - 1]
    BY <1>1, <1>5 DEF Xor
  <2> QED
    BY <1>2, <1>5, <2>1, <2>2
<1> QED
  BY <1>1, <1>4, <1>5

\* Taking a byte in changes neither the remainders nor where they end.
LEMMA Taken ==
  ASSUME FrameTyped, TakeByte
  PROVE  /\ FrameTyped' /\ Reached' = Reached /\ wrong' = wrong
         /\ \A b \in 0 .. 7 : Remainder(b)' = Remainder(b)
PROOF
<1>1. /\ bit = 8 /\ bit' = 0 /\ index' = index + 1 /\ index < N /\ wrong' = wrong
      /\ payload' = payload /\ frame_pc' = frame_pc
      /\ crc' = [s \in Sides |-> [b \in 0 .. 7 |-> Xor(crc[s][b], Data(s, index + 1)[b])]]
  BY DEF TakeByte
<1>2. /\ Reached \in Nat /\ index \in Nat /\ N \in Nat
      /\ \A b \in 0 .. 7 : crc["sender"][b] \in {0, 1} /\ crc["receiver"][b] \in {0, 1}
  BY RegisterBits
<1>3. Reached' = Reached /\ Reached = 8 * (index + 2)
  BY <1>1, <1>2 DEF Reached
<1>4. \A b \in 0 .. 7 : payload[index + 1][b] \in {0, 1}
  <2>1. payload[index + 1] \in Octet
    BY <1>1, <1>2 DEF FrameTyped
  <2> QED
    BY <2>1 DEF Octet
<1>5. ASSUME NEW b \in 0 .. 7
      PROVE  /\ crc'["sender"][b] = Xor(crc["sender"][b], payload[index + 1][b])
             /\ crc'["receiver"][b] =
                  Xor(crc["receiver"][b], Xor(payload[index + 1][b], Error(Reached + 7 - b)))
  <2>1. crc'["sender"][b] = Xor(crc["sender"][b], Data("sender", index + 1)[b])
    BY <1>1 DEF Sides
  <2>2. crc'["receiver"][b] = Xor(crc["receiver"][b], Data("receiver", index + 1)[b])
    BY <1>1 DEF Sides
  <2>3. Data("sender", index + 1) = payload[index + 1]
    BY DEF Data
  <2>4. Data("receiver", index + 1)[b]
          = Xor(payload[index + 1][b], Error(Place((index + 1) + 1, b)))
    BY DEF Data, Arrives
  <2>5. Place((index + 1) + 1, b) = Reached + 7 - b
    BY <1>2, <1>3 DEF Place
  <2> QED
    BY <2>1, <2>2, <2>3, <2>4, <2>5, Zenon
<1>6. ASSUME NEW b \in 0 .. 7
      PROVE  Remainder(b)' = Remainder(b)
  <2>1. PICK s, r, p, e, sn, rn : /\ s = crc["sender"][b] /\ r = crc["receiver"][b]
                                  /\ p = payload[index + 1][b] /\ e = Error(Reached + 7 - b)
                                  /\ sn = crc'["sender"][b] /\ rn = crc'["receiver"][b]
    OBVIOUS
  <2>2. s \in {0, 1} /\ r \in {0, 1} /\ p \in {0, 1} /\ e \in {0, 1}
    BY <1>2, <1>4, <2>1 DEF Error
  <2>3. sn = Xor(s, p) /\ rn = Xor(r, Xor(p, e))
    BY <1>5, <2>1, Zenon
  <2>4. Remainder(b) = Xor(Xor(s, r), 0)
    BY <1>1, <2>1 DEF Remainder, Difference
  <2>5. Remainder(b)' = Xor(Xor(sn, rn), e)
    <3>1. b >= bit' /\ Error(Reached + 7 - b)' = e
      BY <1>1, <1>3, <2>1 DEF Error
    <3> QED
      BY <2>1, <3>1 DEF Remainder, Difference
  <2>6. Xor(Xor(sn, rn), e) = Xor(Xor(s, r), 0)
    BY <2>2, <2>3 DEF Xor
  <2> QED
    BY <2>4, <2>5, <2>6, Zenon
<1>7. FrameTyped'
  <2>1. crc' \in [Sides -> Octet]
    <3>1. \A s \in Sides, b \in 0 .. 7 : Xor(crc[s][b], Data(s, index + 1)[b]) \in {0, 1}
      BY DEF Xor
    <3> QED
      BY <1>1, <3>1 DEF Octet
  <2>2. index' \in 0 .. N /\ bit' \in 0 .. 8
    BY <1>1, <1>2
  <2> QED
    BY <1>1, <2>1, <2>2 DEF FrameTyped
<1> QED
  BY <1>1, <1>3, <1>6, <1>7

\* What a shift does to the remainders: the bit at Reached comes in with what goes
\* out of bit 7, and is fed back where the polynomial has a term.
Out == Xor(Remainder(7), Error(Reached))
LEMMA Shifted ==
  ASSUME FrameTyped, ShiftBit
  PROVE  /\ FrameTyped' /\ Reached' = Reached + 1 /\ wrong' = wrong
         /\ Remainder(0)' = Out
         /\ \A b \in 1 .. 7 :
              Remainder(b)' = IF b <= 2 THEN Xor(Remainder(b - 1), Out) ELSE Remainder(b - 1)
PROOF
<1>1. /\ bit < 8 /\ bit' = bit + 1 /\ UNCHANGED <<frame_pc, payload, wrong, index>>
      /\ crc' = [s \in Sides |-> Shift(crc[s])]
  BY DEF ShiftBit
<1>2. /\ Reached \in Nat /\ index \in Nat /\ bit \in Nat
      /\ crc["sender"] \in Octet /\ crc["receiver"] \in Octet
      /\ \A b \in 0 .. 7 : /\ crc["sender"][b] \in {0, 1} /\ crc["receiver"][b] \in {0, 1}
                           /\ Difference(b) \in {0, 1} /\ Remainder(b) \in {0, 1}
  BY RegisterBits
<1>3. Reached' = Reached + 1
  BY <1>1, <1>2 DEF Reached
<1>4. crc'["sender"] = Shift(crc["sender"]) /\ crc'["receiver"] = Shift(crc["receiver"])
  BY <1>1 DEF Sides
<1>5. Difference(0)' = Difference(7)
  BY <1>2, <1>4, ShiftIs DEF Difference
<1>6. ASSUME NEW b \in 1 .. 7
      PROVE  Difference(b)' = IF b <= 2 THEN Xor(Difference(b - 1), Difference(7))
                              ELSE Difference(b - 1)
  <2>1. PICK s, r, s7, r7 : /\ s = crc["sender"][b - 1] /\ r = crc["receiver"][b - 1]
                            /\ s7 = crc["sender"][7] /\ r7 = crc["receiver"][7]
    OBVIOUS
  <2>2. s \in {0, 1} /\ r \in {0, 1} /\ s7 \in {0, 1} /\ r7 \in {0, 1}
    <3>1. b - 1 \in 0 .. 7
      OBVIOUS
    <3> QED
      BY <1>2, <2>1, <3>1
  <2>3. /\ crc'["sender"][b] = IF b <= 2 THEN Xor(s, s7) ELSE s
        /\ crc'["receiver"][b] = IF b <= 2 THEN Xor(r, r7) ELSE r
    BY <1>2, <1>4, <2>1, ShiftIs
  <2>4. Difference(b - 1) = Xor(s, r) /\ Difference(7) = Xor(s7, r7)
    BY <2>1 DEF Difference
  <2>5. Difference(b)' = Xor(crc'["sender"][b], crc'["receiver"][b])
    BY DEF Difference
  <2>6. Xor(Xor(s, s7), Xor(r, r7)) = Xor(Xor(s, r), Xor(s7, r7))
    BY <2>2 DEF Xor
  <2> QED
    BY <2>3, <2>4, <2>5, <2>6
<1>7. Out = Difference(7)
  <2>1. PICK d, e : d = Difference(7) /\ e = Error(Reached)
    OBVIOUS
  <2>2. d \in {0, 1} /\ e \in {0, 1}
    BY <1>2, <2>1 DEF Error
  <2>3. Remainder(7) = Xor(d, e)
    <3>1. 7 >= bit /\ Reached + 7 - 7 = Reached
      BY <1>1, <1>2
    <3> QED
      BY <2>1, <3>1 DEF Remainder
  <2>4. Xor(Xor(d, e), e) = d
    BY <2>2 DEF Xor
  <2> QED
    BY <2>1, <2>3, <2>4, Zenon DEF Out
<1>8. Remainder(0)' = Out
  <2>1. ~(0 >= bit')
    BY <1>1, <1>2
  <2>2. Remainder(0)' = Xor(Difference(0)', 0)
    BY <2>1 DEF Remainder
  <2> QED
    BY <1>2, <1>5, <1>7, <2>2, XorIs
<1>9. ASSUME NEW b \in 1 .. 7
      PROVE  Remainder(b)' = IF b <= 2 THEN Xor(Remainder(b - 1), Out) ELSE Remainder(b - 1)
  <2>1. PICK d, o, e : /\ d = Difference(b - 1) /\ o = Difference(7)
                       /\ e = IF b - 1 >= bit THEN Error(Reached + 7 - (b - 1)) ELSE 0
    OBVIOUS
  <2>2. d \in {0, 1} /\ o \in {0, 1} /\ e \in {0, 1}
    <3>1. b - 1 \in 0 .. 7
      OBVIOUS
    <3> QED
      BY <1>2, <2>1, <3>1 DEF Error
  <2>3. Remainder(b - 1) = Xor(d, e)
    BY <2>1 DEF Remainder
  <2>4. Remainder(b)' = Xor(Difference(b)', e)
    <3>1. (b >= bit' <=> b - 1 >= bit) /\ Reached' + 7 - b = Reached + 7 - (b - 1)
      BY <1>1, <1>2, <1>3
    <3>2. (IF b >= bit THEN Error(Reached + 7 - b) ELSE 0)' = e
      BY <1>1, <2>1, <3>1 DEF Error
    <3> QED
      BY <3>2 DEF Remainder
  <2>5. Difference(b)' = IF b <= 2 THEN Xor(d, o) ELSE d
    BY <1>6, <2>1
  <2>6. Xor(Xor(d, o), e) = Xor(Xor(d, e), o)
    BY <2>2 DEF Xor
  <2> QED
    BY <1>7, <2>1, <2>3, <2>4, <2>5, <2>6
<1>10. FrameTyped'
  <2>1. crc' \in [Sides -> Octet]
    <3>1. \A s \in Sides : Shift(crc[s]) \in Octet
      BY ShiftIs DEF FrameTyped
    <3> QED
      BY <1>1, <3>1
  <2>2. bit' \in 0 .. 8
    BY <1>1, <1>2
  <2> QED
    BY <1>1, <2>1, <2>2 DEF FrameTyped
<1> QED
  BY <1>1, <1>3, <1>8, <1>9, <1>10

(***************************************************************************)
(* What the remainders tell.                                               *)
(***************************************************************************)
LEMMA OddStep ==
  ASSUME wrong \subseteq FrameBits, NEW k \in Nat
  PROVE  Odd(k) \in {0, 1} /\ Odd(k + 1) = Xor(Odd(k), Error(k))
PROOF
<1> DEFINE Before(j) == {p \in wrong : p < j}
<1>1. \A p \in wrong : p \in Nat
  BY FrameAssumption DEF FrameBits
<1>2. IsFiniteSet(Before(k)) /\ Cardinality(Before(k)) \in Nat
  <2>1. IsFiniteSet(0 .. k)
    BY FS_Interval
  <2>2. Before(k) \subseteq 0 .. k
    BY <1>1
  <2>3. IsFiniteSet(Before(k))
    BY <2>1, <2>2, FS_Subset
  <2> QED
    BY <2>3, FS_CardinalityType
<1>3. PICK c : c = Cardinality(Before(k))
  OBVIOUS
<1>4. c \in Nat /\ c % 2 \in {0, 1} /\ Odd(k) = c % 2
  BY <1>2, <1>3 DEF Odd
<1>5. CASE k \in wrong
  <2>1. Before(k + 1) = Before(k) \cup {k} /\ k \notin Before(k)
    <3>1. \A p \in wrong : p < k + 1 <=> p < k \/ p = k
      BY <1>1
    <3>2. ~(k < k)
      OBVIOUS
    <3> QED
      BY <1>5, <3>1, <3>2, Zenon
  <2>2. Cardinality(Before(k) \cup {k}) = Cardinality(Before(k)) + 1
    BY <1>2, <2>1, FS_AddElement
  <2>3. Odd(k + 1) = (c + 1) % 2
    BY <1>3, <2>1, <2>2 DEF Odd
  <2>4. Error(k) = 1
    BY <1>5 DEF Error
  <2> QED
    BY <1>4, <2>3, <2>4 DEF Xor
<1>6. CASE k \notin wrong
  <2>1. Before(k + 1) = Before(k)
    BY <1>1, <1>6
  <2>2. Odd(k + 1) = Odd(k)
    BY <2>1 DEF Odd
  <2>3. Error(k) = 0
    BY <1>6 DEF Error
  <2> QED
    BY <1>4, <2>2, <2>3 DEF Xor
<1> QED
  BY <1>4, <1>5, <1>6

\* The remainder is not zero in front of what is wrong, and never of nothing wrong.
Telling == Unharmed /\ Shown /\ Parity = Odd(Reached)

LEMMA TakenTells ==
  ASSUME FrameTyped, TakeByte, Telling
  PROVE  Telling'
PROOF
<1>1. /\ Reached' = Reached /\ wrong' = wrong
      /\ \A b \in 0 .. 7 : Remainder(b)' = Remainder(b)
  BY Taken
<1>2. Unharmed'
  BY <1>1 DEF Telling, Unharmed
<1>3. Shown'
  BY <1>1 DEF Telling, Shown
<1>4. Parity' = Parity
  BY <1>1 DEF Parity, Xor
<1>5. Odd(Reached)' = Odd(Reached)
  BY <1>1 DEF Odd
<1> QED
  BY <1>2, <1>3, <1>4, <1>5 DEF Telling

LEMMA ShiftedTells ==
  ASSUME FrameTyped, ShiftBit, Telling
  PROVE  Telling'
PROOF
<1>1. /\ Reached' = Reached + 1 /\ wrong' = wrong /\ Remainder(0)' = Out
      /\ \A b \in 1 .. 7 :
           Remainder(b)' = IF b <= 2 THEN Xor(Remainder(b - 1), Out) ELSE Remainder(b - 1)
  BY Shifted
<1>2. Reached \in Nat /\ \A b \in 0 .. 7 : Remainder(b) \in {0, 1}
  BY RegisterBits
<1>3. \A p \in wrong : p \in Nat
  BY FrameAssumption DEF FrameTyped, FrameBits
<1>4. Error(Reached) \in {0, 1} /\ Out \in {0, 1}
  BY DEF Error, Out, Xor
<1>5. Unharmed'
  <2>1. SUFFICES ASSUME \A p \in wrong : p >= Reached + 1
                 PROVE  \A b \in 0 .. 7 : Remainder(b)' = 0
    BY <1>1 DEF Unharmed
  <2>2. Error(Reached) = 0 /\ \A p \in wrong : p >= Reached
    BY <1>2, <1>3, <2>1 DEF Error
  <2>3. \A b \in 0 .. 7 : Remainder(b) = 0
    BY <2>2 DEF Telling, Unharmed
  <2>4. Out = 0
    BY <2>2, <2>3 DEF Out, Xor
  <2>5. ASSUME NEW b \in 1 .. 7
        PROVE  Remainder(b)' = 0
    <3>1. b - 1 \in 0 .. 7
      OBVIOUS
    <3>2. Remainder(b - 1) = 0
      BY <2>3, <3>1
    <3> QED
      BY <1>1, <2>4, <3>2 DEF Xor
  <2>6. \A b \in 0 .. 7 : b = 0 \/ b \in 1 .. 7
    OBVIOUS
  <2> QED
    BY <1>1, <2>4, <2>5, <2>6
<1>6. Shown'
  <2>1. ASSUME NEW s \in wrong, s < Reached + 1, wrong \subseteq s .. s + 7
        PROVE  \E b \in 0 .. 7 : b < Reached + 1 - s /\ Remainder(b)' = 1
    <3>1. s \in Nat
      BY <1>3, <2>1
    <3>2. CASE Out = 1
      BY <1>1, <1>2, <2>1, <3>1, <3>2
    <3>3. CASE Out = 0
      <4>1. s < Reached
        <5>1. SUFFICES ASSUME s = Reached PROVE FALSE
          BY <1>2, <2>1, <3>1
        <5>2. \A p \in wrong : p >= Reached
          BY <2>1, <3>1, <5>1
        <5>3. Remainder(7) = 0 /\ Error(Reached) = 1
          BY <2>1, <5>1, <5>2 DEF Telling, Unharmed, Error
        <5> QED
          BY <3>3, <5>3 DEF Out, Xor
      <4>2. PICK b \in 0 .. 7 : b < Reached - s /\ Remainder(b) = 1
        BY <2>1, <4>1 DEF Telling, Shown
      <4>3. b # 7
        <5>1. SUFFICES ASSUME b = 7 PROVE FALSE
          OBVIOUS
        <5>2. Reached \notin wrong
          BY <1>2, <2>1, <3>1, <4>2, <5>1
        <5> QED
          BY <3>3, <4>2, <5>1, <5>2 DEF Out, Xor, Error
      <4>4. b + 1 \in 1 .. 7 /\ (b + 1) - 1 = b /\ b + 1 < Reached + 1 - s
        BY <1>2, <3>1, <4>2, <4>3
      <4>5. Remainder(b + 1)' = IF b + 1 <= 2 THEN Xor(Remainder(b), Out) ELSE Remainder(b)
        BY <1>1, <4>4
      <4>6. Remainder(b + 1)' = 1
        BY <3>3, <4>2, <4>5 DEF Xor
      <4> QED
        BY <4>4, <4>6
    <3> QED
      BY <1>4, <3>2, <3>3
  <2>2. SUFFICES ASSUME NEW s \in wrong', s < Reached', wrong' \subseteq s .. s + 7
                 PROVE  \E b \in 0 .. 7 : b < Reached' - s /\ Remainder(b)' = 1
    BY DEF Shown
  <2>3. Reached' = Reached + 1 /\ wrong' = wrong
    BY <1>1
  <2>4. s \in wrong /\ s < Reached + 1 /\ wrong \subseteq s .. s + 7
    BY <2>2, <2>3
  <2>5. PICK b \in 0 .. 7 : b < Reached + 1 - s /\ Remainder(b)' = 1
    BY <2>1, <2>4
  <2>6. b < Reached' - s
    <3>1. s \in Nat /\ Reached \in Nat
      BY <1>2, <1>3, <2>4
    <3> QED
      BY <2>3, <2>5, <3>1
  <2> QED
    BY <2>5, <2>6
<1>7. Parity' = Odd(Reached)'
  <2>1. PICK r0, r1, r2, r3, r4, r5, r6, r7, e :
          /\ r0 = Remainder(0) /\ r1 = Remainder(1) /\ r2 = Remainder(2) /\ r3 = Remainder(3)
          /\ r4 = Remainder(4) /\ r5 = Remainder(5) /\ r6 = Remainder(6) /\ r7 = Remainder(7)
          /\ e = Error(Reached)
    OBVIOUS
  <2>2. /\ r0 \in {0, 1} /\ r1 \in {0, 1} /\ r2 \in {0, 1} /\ r3 \in {0, 1}
        /\ r4 \in {0, 1} /\ r5 \in {0, 1} /\ r6 \in {0, 1} /\ r7 \in {0, 1} /\ e \in {0, 1}
    BY <1>2, <1>4, <2>1
  <2>3. /\ Remainder(0)' = Xor(r7, e)
        /\ Remainder(1)' = Xor(r0, Xor(r7, e)) /\ Remainder(2)' = Xor(r1, Xor(r7, e))
        /\ Remainder(3)' = r2 /\ Remainder(4)' = r3 /\ Remainder(5)' = r4
        /\ Remainder(6)' = r5 /\ Remainder(7)' = r6
    BY <1>1, <2>1 DEF Out
  <2>4. Parity = Xor(r0, Xor(r1, Xor(r2, Xor(r3, Xor(r4, Xor(r5, Xor(r6, r7)))))))
    BY <2>1, Zenon DEF Parity
  <2>5. Parity' = Xor(Xor(r7, e), Xor(Xor(r0, Xor(r7, e)), Xor(Xor(r1, Xor(r7, e)),
                    Xor(r2, Xor(r3, Xor(r4, Xor(r5, r6)))))))
    BY <2>3, Zenon DEF Parity
  <2>6. Parity' = Xor(Parity, e)
    BY ONLY <2>2, <2>4, <2>5, SMT DEF Xor
  <2>7. Odd(Reached)' = Xor(Odd(Reached), e)
    <3>1. Odd(Reached + 1) = Xor(Odd(Reached), Error(Reached))
      BY <1>2, OddStep DEF FrameTyped
    <3>2. Odd(Reached)' = Odd(Reached + 1)
      BY <1>1 DEF Odd
    <3> QED
      BY <2>1, <3>1, <3>2
  <2> QED
    BY <2>6, <2>7 DEF Telling
<1> QED
  BY <1>5, <1>6, <1>7 DEF Telling

LEMMA MarksStep ==
  ASSUME FrameInv, CheckMarks
  PROVE  FrameInv'
PROOF
<1>1. /\ FrameTyped /\ frame_pc = "marks" /\ UNCHANGED <<payload, wrong, crc, index, bit>>
      /\ index = 0 /\ bit = 8 /\ crc = [s \in Sides |-> Zero]
  BY DEF FrameInv, CheckMarks
<1>2. frame_pc' \in {"crc", "rejected"}
  BY DEF CheckMarks
<1>3. FrameTyped'
  BY <1>1, <1>2 DEF FrameTyped
<1>4. CASE frame_pc' = "rejected"
  <2>1. wrong # {}
    BY <1>4 DEF CheckMarks
  <2> QED
    BY <1>1, <1>3, <1>4, <2>1 DEF FrameInv, DamageDetected
<1>5. CASE frame_pc' = "crc"
  <2>1. \A i \in Marks, b \in 0 .. 7 : Place(i, b) \notin wrong
    BY <1>5 DEF CheckMarks
  <2>2. ASSUME NEW p \in wrong
        PROVE  p \in 16 .. 8 * (N + 3) - 1
    <3>1. p \in 0 .. 8 * (N + 5) - 1 /\ N \in Nat
      BY <1>1, FrameAssumption DEF FrameTyped, FrameBits
    <3>2. ~(p < 8)
      <4>1. p < 8 => 7 - p \in 0 .. 7 /\ Place(0, 7 - p) = p
        BY <3>1 DEF Place
      <4> QED
        BY <2>1, <2>2, <4>1 DEF Marks
    <3>3. ~(p >= 8 /\ p < 16)
      <4>1. p >= 8 /\ p < 16 => 15 - p \in 0 .. 7 /\ Place(1, 15 - p) = p
        BY <3>1 DEF Place
      <4> QED
        BY <2>1, <2>2, <4>1 DEF Marks
    <3>4. ~(p >= 8 * (N + 3) /\ p < 8 * (N + 4))
      <4>1. p >= 8 * (N + 3) /\ p < 8 * (N + 4) =>
              8 * (N + 3) + 7 - p \in 0 .. 7 /\ Place(N + 3, 8 * (N + 3) + 7 - p) = p
        BY <3>1 DEF Place
      <4> QED
        BY <2>1, <2>2, <4>1 DEF Marks
    <3>5. ~(p >= 8 * (N + 4))
      <4>1. p >= 8 * (N + 4) =>
              8 * (N + 4) + 7 - p \in 0 .. 7 /\ Place(N + 4, 8 * (N + 4) + 7 - p) = p
        BY <3>1 DEF Place
      <4> QED
        BY <2>1, <2>2, <4>1 DEF Marks
    <3> QED
      BY <3>1, <3>2, <3>3, <3>4, <3>5
  <2>3. Reached = 16
    BY <1>1 DEF Reached
  <2>4. \A b \in 0 .. 7 : Remainder(b) = 0
    <3>1. \A b \in 0 .. 7 : crc["sender"][b] = 0 /\ crc["receiver"][b] = 0
      BY <1>1 DEF Sides, Zero
    <3>2. \A b \in 0 .. 7 : ~(b >= bit)
      BY <1>1
    <3> QED
      BY <3>1, <3>2 DEF Remainder, Difference, Xor
  <2>5. Odd(Reached) = 0
    <3>1. {p \in wrong : p < Reached} = {}
      BY <2>2, <2>3, FrameAssumption
    <3> QED
      BY <3>1, FS_EmptySet DEF Odd
  <2>6. Telling
    <3>1. Unharmed
      BY <2>4 DEF Unharmed
    <3>2. Shown
      BY <2>2, <2>3, FrameAssumption DEF Shown
    <3>3. Parity = 0
      BY <2>4 DEF Parity, Xor
    <3> QED
      BY <2>5, <3>1, <3>2, <3>3 DEF Telling
  <2>7. Unharmed' /\ Shown' /\ Parity' = Odd(Reached)'
    <3>1. Reached' = Reached /\ wrong' = wrong
      BY <1>1 DEF Reached
    <3>2. \A b \in 0 .. 7 : Remainder(b)' = Remainder(b)
      BY <1>1, <3>1 DEF Remainder, Difference, Error, Reached
    <3>3. Parity' = Parity
      BY <3>2 DEF Parity, Xor
    <3> QED
      BY <2>6, <3>1, <3>2, <3>3 DEF Telling, Unharmed, Shown, Odd
  <2> QED
    BY <1>1, <1>3, <1>5, <2>2, <2>7 DEF FrameInv, DamageDetected
<1> QED
  BY <1>2, <1>4, <1>5

\* The sum of the bits from k on that are wrong, of eight of them.
Sum8(k) == Xor(Error(k), Xor(Error(k + 1), Xor(Error(k + 2), Xor(Error(k + 3),
             Xor(Error(k + 4), Xor(Error(k + 5), Xor(Error(k + 6), Error(k + 7))))))))

LEMMA OddByte ==
  ASSUME wrong \subseteq FrameBits, NEW k \in Nat
  PROVE  Odd(k + 8) = Xor(Odd(k), Sum8(k))
PROOF
<1>1. \A j \in Nat : Odd(j) \in {0, 1} /\ Odd(j + 1) = Xor(Odd(j), Error(j))
  BY OddStep
<1>2. \A j \in Nat : Error(j) \in {0, 1}
  BY DEF Error
<1>3. /\ k + 1 \in Nat /\ k + 2 \in Nat /\ k + 3 \in Nat /\ k + 4 \in Nat /\ k + 5 \in Nat
      /\ k + 6 \in Nat /\ k + 7 \in Nat
      /\ (k + 1) + 1 = k + 2 /\ (k + 2) + 1 = k + 3 /\ (k + 3) + 1 = k + 4 /\ (k + 4) + 1 = k + 5
      /\ (k + 5) + 1 = k + 6 /\ (k + 6) + 1 = k + 7 /\ (k + 7) + 1 = k + 8
  OBVIOUS
<1>4. PICK e0, e1, e2, e3, e4, e5, e6, e7, o :
        /\ e0 = Error(k) /\ e1 = Error(k + 1) /\ e2 = Error(k + 2) /\ e3 = Error(k + 3)
        /\ e4 = Error(k + 4) /\ e5 = Error(k + 5) /\ e6 = Error(k + 6) /\ e7 = Error(k + 7)
        /\ o = Odd(k)
  OBVIOUS
<1>5. /\ e0 \in {0, 1} /\ e1 \in {0, 1} /\ e2 \in {0, 1} /\ e3 \in {0, 1}
      /\ e4 \in {0, 1} /\ e5 \in {0, 1} /\ e6 \in {0, 1} /\ e7 \in {0, 1} /\ o \in {0, 1}
  BY <1>1, <1>2, <1>3, <1>4
<1>6. Odd(k + 8) = Xor(Xor(Xor(Xor(Xor(Xor(Xor(Xor(o, e0), e1), e2), e3), e4), e5), e6), e7)
  BY <1>1, <1>3, <1>4
<1>7. Sum8(k) = Xor(e0, Xor(e1, Xor(e2, Xor(e3, Xor(e4, Xor(e5, Xor(e6, e7)))))))
  BY <1>4, Zenon DEF Sum8
<1>8. Odd(k + 8) = Xor(o, Sum8(k))
  BY ONLY <1>5, <1>6, <1>7, SMT DEF Xor
<1> QED
  BY <1>4, <1>8, Zenon

LEMMA CompareStep ==
  ASSUME FrameInv, Compare
  PROVE  FrameInv'
PROOF
<1>1. /\ FrameTyped /\ frame_pc = "crc" /\ UNCHANGED <<payload, wrong, crc, index, bit>>
      /\ bit = 8 /\ index = N
      /\ frame_pc' = IF Arrives(N + 2, crc["sender"]) = crc["receiver"]
                     THEN "accepted" ELSE "rejected"
  BY DEF FrameInv, Compare
<1>2. /\ \A p \in wrong : p \in 16 .. 8 * (N + 3) - 1
      /\ Unharmed /\ Shown /\ Parity = Odd(Reached)
  BY <1>1 DEF FrameInv
<1>3. /\ Reached \in Nat /\ N \in Nat /\ crc["receiver"] \in Octet
      /\ \A b \in 0 .. 7 : /\ crc["sender"][b] \in {0, 1} /\ crc["receiver"][b] \in {0, 1}
                           /\ Difference(b) \in {0, 1} /\ Remainder(b) \in {0, 1}
  BY <1>1, RegisterBits
<1>4. Reached = 8 * (N + 2) /\ Reached + 8 = 8 * (N + 3)
  BY <1>1, <1>3 DEF Reached
<1>5. ASSUME NEW b \in 0 .. 7
      PROVE  /\ Remainder(b) = Difference(b)
             /\ Arrives(N + 2, crc["sender"])[b] = Xor(crc["sender"][b], Error(Reached + 7 - b))
  <2>1. ~(b >= bit)
    BY <1>1
  <2>2. Remainder(b) = Difference(b)
    BY <1>3, <2>1, XorIs DEF Remainder
  <2>3. Place(N + 2, b) = Reached + 7 - b
    BY <1>3, <1>4 DEF Place
  <2> QED
    BY <2>2, <2>3 DEF Arrives
<1>6. FrameTyped'
  BY <1>1 DEF FrameTyped
<1>7. ASSUME frame_pc' = "rejected", wrong = {}
      PROVE  FALSE
  <2>1. \A b \in 0 .. 7 : Remainder(b) = 0
    BY <1>2, <1>7 DEF Unharmed
  <2>2. \A b \in 0 .. 7 : crc["sender"][b] = crc["receiver"][b]
    BY <1>3, <1>5, <2>1 DEF Difference, Xor
  <2>3. \A b \in 0 .. 7 : Arrives(N + 2, crc["sender"])[b] = crc["receiver"][b]
    <3>1. \A b \in 0 .. 7 : Error(Reached + 7 - b) = 0
      BY <1>7 DEF Error
    <3> QED
      BY <1>3, <1>5, <2>2, <3>1, XorIs
  <2>4. Arrives(N + 2, crc["sender"]) = crc["receiver"]
    <3>1. DOMAIN Arrives(N + 2, crc["sender"]) = 0 .. 7
      BY DEF Arrives
    <3>2. Arrives(N + 2, crc["sender"]) = [b \in 0 .. 7 |-> Arrives(N + 2, crc["sender"])[b]]
      BY <3>1 DEF Arrives
    <3>3. crc["receiver"] = [b \in 0 .. 7 |-> crc["receiver"][b]]
      BY <1>3 DEF Octet
    <3> QED
      BY <2>3, <3>2, <3>3
  <2> QED
    BY <1>1, <1>7, <2>4
<1>8. ASSUME frame_pc' = "accepted"
      PROVE  ~WithinEight(wrong) /\ Cardinality(wrong) % 2 = 0
  <2>1. \A b \in 0 .. 7 : Remainder(b) = Error(Reached + 7 - b)
    <3>1. Arrives(N + 2, crc["sender"]) = crc["receiver"]
      BY <1>1, <1>8
    <3>2. ASSUME NEW b \in 0 .. 7
          PROVE  Remainder(b) = Error(Reached + 7 - b)
      <4>1. PICK s, r, e : /\ s = crc["sender"][b] /\ r = crc["receiver"][b]
                           /\ e = Error(Reached + 7 - b)
        OBVIOUS
      <4>2. s \in {0, 1} /\ r \in {0, 1} /\ e \in {0, 1}
        BY <1>3, <4>1 DEF Error
      <4>3. Xor(s, e) = r /\ Remainder(b) = Xor(s, r)
        BY <1>5, <3>1, <4>1 DEF Difference
      <4> QED
        BY <4>1, <4>2, <4>3 DEF Xor
    <3> QED
      BY <3>2
  <2>2. ASSUME NEW s \in wrong, wrong \subseteq s .. s + 7
        PROVE  FALSE
    <3>1. s \in Nat /\ s < Reached + 8
      BY <1>2, <1>3, <1>4
    <3>2. CASE s < Reached
      <4>1. PICK b \in 0 .. 7 : b < Reached - s /\ Remainder(b) = 1
        BY <1>2, <2>2, <3>2 DEF Shown
      <4>2. Reached + 7 - b \in wrong
        BY <2>1, <4>1 DEF Error
      <4>3. Reached + 7 - b \in s .. s + 7
        BY <2>2, <4>2
      <4> QED
        BY <1>3, <3>1, <4>1, <4>3
    <3>3. CASE s >= Reached
      <4>1. \A p \in wrong : p >= Reached
        BY <1>2, <1>3, <2>2, <3>1, <3>3
      <4>2. \A b \in 0 .. 7 : Remainder(b) = 0
        BY <1>2, <4>1 DEF Unharmed
      <4>3. PICK b : b = Reached + 7 - s
        OBVIOUS
      <4>4. b \in 0 .. 7 /\ Reached + 7 - b = s
        BY <1>3, <3>1, <3>3, <4>3
      <4>5. Error(s) = 0
        BY <2>1, <4>2, <4>4
      <4> QED
        BY <4>5 DEF Error
    <3> QED
      BY <1>3, <3>1, <3>2, <3>3
  <2>3. Cardinality(wrong) % 2 = 0
    <3>1. Odd(Reached + 8) = Xor(Odd(Reached), Sum8(Reached))
      BY <1>1, <1>3, OddByte DEF FrameTyped
    <3>2. Sum8(Reached) = Parity
      <4>1. /\ Remainder(0) = Error(Reached + 7) /\ Remainder(1) = Error(Reached + 6)
            /\ Remainder(2) = Error(Reached + 5) /\ Remainder(3) = Error(Reached + 4)
            /\ Remainder(4) = Error(Reached + 3) /\ Remainder(5) = Error(Reached + 2)
            /\ Remainder(6) = Error(Reached + 1) /\ Remainder(7) = Error(Reached)
        <5>1. /\ Reached + 7 - 0 = Reached + 7 /\ Reached + 7 - 1 = Reached + 6
              /\ Reached + 7 - 2 = Reached + 5 /\ Reached + 7 - 3 = Reached + 4
              /\ Reached + 7 - 4 = Reached + 3 /\ Reached + 7 - 5 = Reached + 2
              /\ Reached + 7 - 6 = Reached + 1 /\ Reached + 7 - 7 = Reached
          BY <1>3
        <5> QED
          BY <2>1, <5>1
      <4>2. PICK r0, r1, r2, r3, r4, r5, r6, r7 :
              /\ r0 = Remainder(0) /\ r1 = Remainder(1) /\ r2 = Remainder(2)
              /\ r3 = Remainder(3) /\ r4 = Remainder(4) /\ r5 = Remainder(5)
              /\ r6 = Remainder(6) /\ r7 = Remainder(7)
        OBVIOUS
      <4>3. /\ r0 \in {0, 1} /\ r1 \in {0, 1} /\ r2 \in {0, 1} /\ r3 \in {0, 1}
            /\ r4 \in {0, 1} /\ r5 \in {0, 1} /\ r6 \in {0, 1} /\ r7 \in {0, 1}
        BY <1>3, <4>2
      <4>4. Parity = Xor(r0, Xor(r1, Xor(r2, Xor(r3, Xor(r4, Xor(r5, Xor(r6, r7)))))))
        BY <4>2, Zenon DEF Parity
      <4>5. Sum8(Reached) = Xor(r7, Xor(r6, Xor(r5, Xor(r4, Xor(r3, Xor(r2, Xor(r1, r0)))))))
        BY <4>1, <4>2, Zenon DEF Sum8
      <4> QED
        BY ONLY <4>3, <4>4, <4>5, SMT DEF Xor
    <3>3. Odd(Reached + 8) = 0
      BY <1>2, <3>1, <3>2 DEF Xor
    <3>4. {p \in wrong : p < Reached + 8} = wrong
      BY <1>2, <1>3, <1>4
    <3> QED
      BY <3>3, <3>4 DEF Odd
  <2> QED
    BY <2>2, <2>3 DEF WithinEight
<1>9. DamageDetected'
  BY <1>1, <1>7, <1>8 DEF DamageDetected
<1>10. frame_pc' \in {"accepted", "rejected"}
  BY <1>1
<1> QED
  BY <1>6, <1>9, <1>10 DEF FrameInv

LEMMA FrameStarts == FrameInit => FrameInv
PROOF
<1> SUFFICES ASSUME FrameInit PROVE FrameInv
  OBVIOUS
<1>1. crc \in [Sides -> Octet]
  BY DEF FrameInit, Zero, Octet
<1>2. FrameTyped
  BY <1>1, FrameAssumption DEF FrameInit, FrameTyped
<1> QED
  BY <1>2 DEF FrameInit, FrameInv, DamageDetected

\* usr_recv_serial_frame and crc8, for payloads of any length: a frame that arrives
\* as usr_send_build_frame made it is accepted, and none is that has damage within 8
\* adjacent bits or an odd number of bits turned over.
THEOREM ShortDamageIsDetected == FrameSpec => []DamageDetected
PROOF
<1>1. FrameInv /\ [FrameNext]_frameVars => FrameInv'
  <2> SUFFICES ASSUME FrameInv, [FrameNext]_frameVars PROVE FrameInv'
    OBVIOUS
  <2>1. CASE TakeByte \/ ShiftBit
    <3>1. /\ FrameTyped /\ frame_pc = "crc" /\ frame_pc' = frame_pc
          /\ \A p \in wrong : p \in 16 .. 8 * (N + 3) - 1
          /\ Telling
      BY <2>1 DEF FrameInv, TakeByte, ShiftBit, Telling
    <3>2. FrameTyped' /\ wrong' = wrong /\ Telling'
      BY <2>1, <3>1, Taken, Shifted, TakenTells, ShiftedTells
    <3>3. DamageDetected'
      BY <3>1 DEF DamageDetected
    <3> QED
      BY <3>1, <3>2, <3>3 DEF FrameInv, Telling
  <2>2. CASE UNCHANGED frameVars
    <3>1. UNCHANGED <<frame_pc, payload, wrong, crc, index, bit>>
      BY <2>2 DEF frameVars
    <3> QED
      BY <3>1 DEF FrameInv, FrameTyped, DamageDetected, Unharmed, Shown, Parity, Odd, Reached,
                  Remainder, Difference, Error
  <2> QED
    BY <2>1, <2>2, MarksStep, CompareStep DEF FrameNext
<1>2. FrameInv => DamageDetected
  BY DEF FrameInv
<1> QED
  BY <1>1, <1>2, FrameStarts, PTL DEF FrameSpec
=============================================================================
