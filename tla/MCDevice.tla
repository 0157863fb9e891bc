------------------------------ MODULE MCDevice ------------------------------
(***************************************************************************)
(* Six parts of the device that share no state, checked in one run: each   *)
(* behaviour is one of one part, chosen at the start, while the others     *)
(* stand still.  (A product of the parts would show nothing more.)         *)
(***************************************************************************)
EXTENDS Device, TcpFramer, HostLink, Slip, SerialFrame

VARIABLE part

MCAttrs(data, par, stop, flow, rate) ==
  [databits |-> data, parity |-> par, stopbits |-> stop,
   xonxoff |-> flow, rtscts |-> flow, baudrate |-> rate]
\* The last asks for a rate that serial.c does not know.
MCAsks == {MCAttrs(8, "none", 1, FALSE, 115200), MCAttrs(7, "even", 2, TRUE, 9600),
           MCAttrs(5, "odd", 1, FALSE, 12345)}
MCBody == <<2, 1, 2, 3>>
MCSlipInputs == BoundedSeq(Bytes, 3)
MCPayloads == {[i \in 1 .. N |-> [b \in 0 .. 7 |-> IF i = 1 THEN b % 2 ELSE 1]]}
\* None; within eight bits; up to three of the payload and the CRC; the
\* polynomial itself, which is nine bits long and not told.
MCDamages ==
  LET Covered == Place(2, 7) .. Place(N + 2, 0)
  IN {{}} \cup UNION {{{p} \cup w : w \in SUBSET ((p + 1 .. p + 7) \cap FrameBits)} : p \in FrameBits}
          \cup {{p, q, r} : p, q, r \in Covered}
          \cup {{p, p + 6, p + 7, p + 8} : p \in Place(2, 7) .. Place(N + 1, 0)}

\* Bound for the part "port": the console and two more descriptors are open.
FewOpen == Cardinality({f \in Fd : fdt[f] # NoFile}) <= 3

Init ==
  /\ FrameInit
  /\ part \in IF wrong = {} THEN {"device", "port", "framer", "host", "slip", "frame"}
              ELSE {"frame"}
  /\ part = "slip" \/ (message = <<>> /\ room = 0)
  /\ part = "device" \/ regs = Quiet
  /\ DeviceInit /\ FramerInit /\ HostInit /\ SlipInit

vars == <<part, deviceVars, framerVars, hostVars, slipVars, frameVars>>

Next ==
  /\ UNCHANGED part
  /\ \/ /\ part = "device" /\ DeviceNext
        /\ UNCHANGED <<framerVars, hostVars, slipVars, frameVars>>
     \/ /\ part = "port" /\ PortNext /\ FewOpen'
        /\ UNCHANGED <<lifeVars, framerVars, hostVars, slipVars, frameVars>>
     \/ /\ part = "framer" /\ FramerNext
        /\ UNCHANGED <<deviceVars, hostVars, slipVars, frameVars>>
     \/ /\ part = "host" /\ HostNext
        /\ UNCHANGED <<deviceVars, framerVars, slipVars, frameVars>>
     \/ /\ part = "slip" /\ SlipNext
        /\ UNCHANGED <<deviceVars, framerVars, hostVars, frameVars>>
     \/ /\ part = "frame" /\ FrameNext
        /\ UNCHANGED <<deviceVars, framerVars, hostVars, slipVars>>

Spec == Init /\ [][Next]_vars /\ FramerFairness
=============================================================================
