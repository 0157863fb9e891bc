----------------------------- MODULE SerialFrame -----------------------------
(***************************************************************************)
(* What the checks of usr_recv_serial_frame tell of a frame that           *)
(* usr_send_build_frame made and the line damaged: two marks, N bytes of   *)
(* payload, their crc8, two marks.  The sender's call of crc8 and the      *)
(* receiver's share nothing and take the same steps, so one step here is   *)
(* that step of both; they differ in the payload they run over.            *)
(*                                                                         *)
(* Bits are numbered through the frame in the order crc8 takes them: byte  *)
(* after byte, from bit 7 of a byte to bit 0.                              *)
(***************************************************************************)
EXTENDS Integers, FiniteSets

CONSTANTS N,          \* bytes of payload: 19
          Payloads,   \* what is sent
          Damages     \* sets of bits that the line turns over

Octet == [0 .. 7 -> {0, 1}]
FrameBits == 0 .. 8 * (N + 5) - 1

ASSUME FrameAssumption ==
  /\ N \in Nat /\ Payloads \subseteq [1 .. N -> Octet]
  /\ Damages \subseteq SUBSET FrameBits

Sides == {"sender", "receiver"}

VARIABLES frame_pc,   \* "marks", "crc", and the result: "accepted", "rejected"
          payload,    \* what is sent
          wrong,      \* the bits that arrive turned over
          crc,        \* crc8's crc on each side
          index,      \* crc8's i: bytes whose turn has come
          bit         \* crc8's j: shifts made for the last of them

frameVars == <<frame_pc, payload, wrong, crc, index, bit>>

Zero == [b \in 0 .. 7 |-> 0]
FrameInit == /\ payload \in Payloads /\ wrong \in Damages
             /\ frame_pc = "marks"
             /\ crc = [s \in Sides |-> Zero] /\ index = 0 /\ bit = 8

Xor(x, y) == IF x = y THEN 0 ELSE 1
Error(p) == IF p \in wrong THEN 1 ELSE 0
\* Where bit b of byte i of the frame stands.
Place(i, b) == 8 * i + 7 - b
\* Byte i of the frame as it arrives when c is what was sent.
Arrives(i, c) == [b \in 0 .. 7 |-> Xor(c[b], Error(Place(i, b)))]

\* The four marks are compared with what they have to be.
Marks == {0, 1, N + 3, N + 4}
CheckMarks ==
  /\ frame_pc = "marks"
  /\ frame_pc' = IF \E i \in Marks, b \in 0 .. 7 : Place(i, b) \in wrong
                 THEN "rejected" ELSE "crc"
  /\ UNCHANGED <<payload, wrong, crc, index, bit>>

(***************************************************************************)
(* crc8: polynomial x^8 + x^2 + x + 1, over the bytes behind the marks.    *)
(***************************************************************************)
\* Byte i of the payload, as each side has it.
Data(s, i) == IF s = "sender" THEN payload[i] ELSE Arrives(i + 1, payload[i])

TakeByte ==
  /\ frame_pc = "crc" /\ bit = 8 /\ index < N
  /\ crc' = [s \in Sides |-> [b \in 0 .. 7 |-> Xor(crc[s][b], Data(s, index + 1)[b])]]
  /\ index' = index + 1 /\ bit' = 0
  /\ UNCHANGED <<frame_pc, payload, wrong>>

Polynomial == {0, 1, 2}
Left(c) == [b \in 0 .. 7 |-> IF b = 0 THEN 0 ELSE c[b - 1]]
\* Mutant: what is shifted out is dropped.
ShiftDrops(c) == Left(c)
Shift(c) ==
  IF c[7] = 1 THEN [b \in 0 .. 7 |-> IF b \in Polynomial THEN Xor(Left(c)[b], 1) ELSE Left(c)[b]]
              ELSE Left(c)
ShiftBit ==
  /\ frame_pc = "crc" /\ bit < 8
  /\ crc' = [s \in Sides |-> Shift(crc[s])]
  /\ bit' = bit + 1
  /\ UNCHANGED <<frame_pc, payload, wrong, index>>

\* recv_crc, which may be damaged itself, against calc_crc.
Compare ==
  /\ frame_pc = "crc" /\ bit = 8 /\ index = N
  /\ frame_pc' = IF Arrives(N + 2, crc["sender"]) = crc["receiver"]
                 THEN "accepted" ELSE "rejected"
  /\ UNCHANGED <<payload, wrong, crc, index, bit>>

FrameNext == CheckMarks \/ TakeByte \/ ShiftBit \/ Compare
FrameSpec == FrameInit /\ [][FrameNext]_frameVars

(***************************************************************************)
(* Properties                                                              *)
(***************************************************************************)
\* A frame that arrives as it was sent is accepted.  One that is accepted has no
\* damage confined to 8 adjacent bits (in crc8's order, so within any one byte),
\* and none of an odd number of bits: what SerialLink takes for granted of a
\* damaged byte.
WithinEight(w) == \E p \in w : w \subseteq p .. p + 7
DamageDetected ==
  /\ frame_pc = "rejected" => wrong # {}
  /\ frame_pc = "accepted" => ~WithinEight(wrong) /\ Cardinality(wrong) % 2 = 0
=============================================================================
