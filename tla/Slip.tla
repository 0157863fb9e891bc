-------------------------------- MODULE Slip --------------------------------
(***************************************************************************)
(* SLIP: usr_ser_slip_encode of a message, then usr_ser_slip_decode of     *)
(* what it wrote into a buffer that just holds the message.  A step is one *)
(* iteration of a loop, whose index is `taken`.                            *)
(***************************************************************************)
EXTENDS Integers, Sequences, FiniteSets

CONSTANTS Bytes, END, ESC, ESC_END, ESC_ESC,   \* END, ... are four of the bytes
          SlipInputs,                          \* messages
          Rooms                                \* values of the encoder's out_max

ASSUME SlipAssumption ==
  /\ {END, ESC, ESC_END, ESC_ESC} \subseteq Bytes
  /\ END # ESC /\ END # ESC_END /\ END # ESC_ESC
  /\ ESC # ESC_END /\ ESC # ESC_ESC /\ ESC_END # ESC_ESC
  /\ SlipInputs \subseteq Seq(Bytes) /\ Rooms \subseteq Nat

VARIABLES slip_pc,   \* where the calls are; "too_long", "invalid": -1 was returned
          message,   \* the encoder's in
          room,      \* the encoder's out_max
          taken,     \* how many bytes of its in a loop has passed
          coded,     \* what is in the encoder's out, the decoder's in
          decoded    \* what is in the decoder's out

slipVars == <<slip_pc, message, room, taken, coded, decoded>>

SlipInit == /\ message \in SlipInputs /\ room \in Rooms
            /\ slip_pc = "start" /\ taken = 0 /\ coded = <<>> /\ decoded = <<>>

(***************************************************************************)
(* usr_ser_slip_encode                                                     *)
(***************************************************************************)
Special == {END, ESC}
\* Mutant: the escape byte itself is not escaped.
EscapedOnce(c) == IF c = END THEN <<ESC, ESC_END>> ELSE <<c>>
Escaped(c) == CASE c = END -> <<ESC, ESC_END>>
                [] c = ESC -> <<ESC, ESC_ESC>>
                [] OTHER   -> <<c>>

\* What is written is compared with out_max first; the encoder goes on at next.
Put(bytes, next) == IF Len(coded) + Len(bytes) <= room
                    THEN coded' = coded \o bytes /\ slip_pc' = next
                    ELSE slip_pc' = "too_long" /\ UNCHANGED coded

EncodeStart == /\ slip_pc = "start" /\ Put(<<END>>, "encode")
               /\ UNCHANGED <<message, room, taken, decoded>>
EncodeByte == /\ slip_pc = "encode" /\ taken < Len(message)
              /\ Put(Escaped(message[taken + 1]), "encode")
              /\ taken' = taken + 1
              /\ UNCHANGED <<message, room, decoded>>
EncodeEnd == /\ slip_pc = "encode" /\ taken = Len(message)
             /\ Put(<<END>>, "decode")
             /\ taken' = 0
             /\ UNCHANGED <<message, room, decoded>>

(***************************************************************************)
(* usr_ser_slip_decode                                                     *)
(***************************************************************************)
Decoding == /\ slip_pc = "decode" /\ taken < Len(coded)
            /\ UNCHANGED <<message, room, coded>>
Taking == coded[taken + 1]

Rejects == slip_pc' = "invalid" /\ UNCHANGED <<taken, decoded>>
Stores(c, n) == /\ decoded' = Append(decoded, c) /\ taken' = taken + n
                /\ UNCHANGED slip_pc

\* An escape stands for the byte behind it, which is stored without a look at
\* out_max.
DecodeEscape ==
  /\ Decoding /\ Taking = ESC
  /\ IF taken + 2 <= Len(coded) /\ coded[taken + 2] \in {ESC_END, ESC_ESC}
     THEN Stores(IF coded[taken + 2] = ESC_END THEN END ELSE ESC, 2)
     ELSE Rejects

\* An END is skipped wherever it is.
DecodeSkip == /\ Decoding /\ Taking = END
              /\ taken' = taken + 1
              /\ UNCHANGED <<slip_pc, decoded>>

DecodePlain == /\ Decoding /\ Taking \notin Special
               /\ IF Len(decoded) < Len(message) THEN Stores(Taking, 1) ELSE Rejects

DecodeReturn == /\ slip_pc = "decode" /\ taken = Len(coded)
                /\ slip_pc' = "done"
                /\ UNCHANGED <<message, room, taken, coded, decoded>>

SlipNext == \/ EncodeStart \/ EncodeByte \/ EncodeEnd
            \/ DecodeEscape \/ DecodeSkip \/ DecodePlain \/ DecodeReturn
SlipSpec == SlipInit /\ [][SlipNext]_slipVars

(***************************************************************************)
(* Properties                                                              *)
(***************************************************************************)
\* A message whose frame fits is decoded to itself, and nothing is ever written
\* behind the decoder's buffer; encoding fails exactly when the message, its
\* escapes and the two ENDs are longer than out_max.
EscapesIn(m, n) == Cardinality({x \in 1 .. n : m[x] \in Special})
SlipSize == Len(message) + EscapesIn(message, Len(message)) + 2
SlipRoundTrip ==
  /\ slip_pc # "invalid" /\ Len(decoded) <= Len(message)
  /\ slip_pc = "too_long" => SlipSize > room
  /\ slip_pc = "done" => SlipSize <= room /\ decoded = message
=============================================================================
