--------------------------- MODULE EthConfigProofs ---------------------------
(***************************************************************************)
(* Proofs about EthConfig, for files of any length and content: the loop   *)
(* of set_eth0_static_ip finds the stanzas as InStanza defines them, and   *)
(* the backup keeps the original through crashes and failures.             *)
(***************************************************************************)
EXTENDS EthConfig, SequenceTheorems, TLAPS

-----------------------------------------------------------------------------
(* One turn of the loop follows the definition of a stanza. *)
LEMMA StanzaStep ==
  ASSUME NEW file \in Seq(Line), NEW n \in Nat, n < Len(file)
  PROVE  InStanza(file, n + 1)
           <=> (InStanza(file, n) \/ Starts(file[n + 1])) /\ ~Ends(file[n + 1])
PROOF
<1>1. ASSUME InStanza(file, n + 1)
      PROVE  (InStanza(file, n) \/ Starts(file[n + 1])) /\ ~Ends(file[n + 1])
  <2>1. PICK j \in 1 .. n + 1 :
          Starts(file[j]) /\ \A k \in j .. n + 1 : ~Ends(file[k])
    BY <1>1 DEF InStanza
  <2>2. ~Ends(file[n + 1])
    BY <2>1
  <2>3. CASE j = n + 1
    BY <2>1, <2>2, <2>3
  <2>4. CASE j # n + 1
    <3>1. j \in 1 .. n /\ \A k \in j .. n : k \in j .. n + 1
      BY <2>4
    <3> QED
      BY <2>1, <2>2, <3>1 DEF InStanza
  <2> QED
    BY <2>3, <2>4
<1>2. ASSUME InStanza(file, n) \/ Starts(file[n + 1]), ~Ends(file[n + 1])
      PROVE  InStanza(file, n + 1)
  <2>1. CASE InStanza(file, n)
    <3>1. PICK j \in 1 .. n : Starts(file[j]) /\ \A k \in j .. n : ~Ends(file[k])
      BY <2>1 DEF InStanza
    <3>2. j \in 1 .. n + 1 /\ \A k \in j .. n + 1 : k \in j .. n \/ k = n + 1
      OBVIOUS
    <3> QED
      BY <1>2, <3>1, <3>2 DEF InStanza
  <2>2. CASE Starts(file[n + 1])
    <3>1. n + 1 \in 1 .. n + 1 /\ \A k \in n + 1 .. n + 1 : k = n + 1
      OBVIOUS
    <3> QED
      BY <1>2, <2>2, <3>1 DEF InStanza
  <2> QED
    BY <1>2, <2>1, <2>2
<1> QED
  BY <1>1, <1>2

LEMMA NothingBeforeTheFirst == \A file : ~InStanza(file, 0)
PROOF
  BY DEF InStanza

(* Whatever the loop makes of a line is a line. *)
LEMMA NewLineTyped ==
  ASSUME NEW l \in Line, NEW inside \in BOOLEAN, ip \in Ip
  PROVE  NewLine(l, inside) \in Line
PROOF
  BY DEF NewLine, Line

LEMMA PrefixTyped ==
  ASSUME NEW s \in Seq(Line), NEW n \in 0 .. Len(s)
  PROVE  Prefix(s, n) \in Seq(Line) /\ (n = Len(s) => Prefix(s, n) = s)
PROOF
<1>1. \A i \in 1 .. n : s[i] \in Line
  BY LenProperties, ElementOfSeq
<1>2. Prefix(s, n) = [i \in 1 .. n |-> s[i]]
  BY <1>1, LenProperties DEF Prefix
<1> QED
  BY <1>1, <1>2, LenProperties

-----------------------------------------------------------------------------
LEMMA TypeStep ==
  ASSUME TypeOK, [Next]_vars
  PROVE  TypeOK'
PROOF
<1> USE DEF TypeOK, files, call
<1>1. ASSUME NEW i \in Ip, Call(i) PROVE TypeOK'
  BY <1>1, EmptySeq DEF Call
<1>2. CASE Backup
  BY <1>2 DEF Backup
<1>3. CASE RenameFails
  BY <1>3 DEF RenameFails
<1>4. CASE OpenWorks
  BY <1>4 DEF OpenWorks
<1>5. CASE OpenFallsBack
  BY <1>5, EmptySeq DEF OpenFallsBack
<1>6. CASE OpenFails
  BY <1>6, EmptySeq DEF OpenFails
<1>7. CASE CopyLine
  <2> DEFINE l == fin[Len(out) + 1]
  <2>1. Len(out) + 1 \in 1 .. Len(fin)
    BY <1>7, LenProperties DEF CopyLine
  <2>2. l \in Line
    BY <2>1, ElementOfSeq
  <2>3. StillInside(l) \in BOOLEAN
    BY DEF StillInside, Starts, Ends
  <2>4. NewLine(l, StillInside(l)) \in Line
    BY <2>2, <2>3, NewLineTyped
  <2> HIDE DEF l
  <2>5. Append(out, NewLine(l, StillInside(l))) \in Seq(Line)
    BY <2>4, AppendProperties
  <2> QED
    BY <1>7, <2>3, <2>5 DEF CopyLine, l
<1>8. CASE Close
  <2>1. PICK n \in 0 .. Len(out) :
          interfaces' = Prefix(out, n) /\ clean' = (clean /\ n = Len(out))
    BY <1>8 DEF Close
  <2> QED
    BY <1>8, <2>1, PrefixTyped DEF Close
<1>9. CASE Crash
  <2>1. interfaces' \in Seq(Line) \cup {Missing}
    BY <1>9, PrefixTyped DEF Crash
  <2> QED
    BY <1>9, <2>1 DEF Crash
<1>10. CASE UNCHANGED vars
  BY <1>10 DEF vars
<1> QED
  BY <1>1, <1>2, <1>3, <1>4, <1>5, <1>6, <1>7, <1>8, <1>9, <1>10 DEF Next

LEMMA OriginalStep ==
  ASSUME TypeOK, OriginalKept, [Next]_vars
  PROVE  OriginalKept'
PROOF
<1> USE DEF OriginalKept, files, call
<1>1. ASSUME NEW i \in Ip, Call(i) PROVE OriginalKept'
  BY <1>1 DEF Call
<1>2. CASE Backup
  BY <1>2 DEF Backup
<1>3. CASE RenameFails
  BY <1>3 DEF RenameFails
<1>4. CASE OpenWorks
  BY <1>4 DEF OpenWorks
<1>5. CASE OpenFallsBack
  BY <1>5 DEF OpenFallsBack
<1>6. CASE OpenFails
  BY <1>6 DEF OpenFails
<1>7. CASE CopyLine
  BY <1>7 DEF CopyLine
<1>8. CASE Close
  BY <1>8 DEF Close
<1>9. CASE Crash
  BY <1>9 DEF Crash
<1>10. CASE UNCHANGED vars
  BY <1>10 DEF vars
<1> QED
  BY <1>1, <1>2, <1>3, <1>4, <1>5, <1>6, <1>7, <1>8, <1>9, <1>10 DEF Next

LEMMA HowFarStep ==
  ASSUME TypeOK, HowFar, [Next]_vars
  PROVE  HowFar'
PROOF
<1>1. ASSUME NEW i \in Ip, Call(i) PROVE HowFar'
  BY <1>1 DEF Call, HowFar
<1>2. CASE Backup
  BY <1>2 DEF Backup, HowFar, call
<1>3. CASE RenameFails
  BY <1>3 DEF RenameFails, HowFar
<1>4. CASE OpenWorks
  <2>1. ~InStanza(fin', 0)
    BY NothingBeforeTheFirst
  <2>2. out' = <<>> /\ Len(out') = 0 /\ ~inside_eth0' /\ fin' = backup /\ backup' = backup
    BY <1>4 DEF OpenWorks, HowFar
  <2>3. Len(out') <= Len(fin')
    BY <1>4, <2>2, LenProperties DEF OpenWorks, TypeOK
  <2> QED
    BY <1>4, <2>1, <2>2, <2>3 DEF OpenWorks, HowFar
<1>5. CASE OpenFallsBack
  <2>1. ~InStanza(fin', 0)
    BY NothingBeforeTheFirst
  <2>2. out' = <<>> /\ Len(out') = 0 /\ ~inside_eth0' /\ fin' = <<>> /\ Len(fin') = 0
    BY <1>5 DEF OpenFallsBack, HowFar
  <2> QED
    BY <1>5, <2>1, <2>2 DEF OpenFallsBack, HowFar
<1>6. CASE OpenFails
  BY <1>6 DEF OpenFails, HowFar
<1>7. CASE CopyLine
  <2> DEFINE n == Len(out)
             l == fin[n + 1]
             new == NewLine(l, StillInside(l))
  <2>1. /\ n \in Nat /\ n < Len(fin) /\ Len(fin) \in Nat /\ out \in Seq(Line)
        /\ fin \in Seq(Line)
    BY <1>7, LenProperties DEF CopyLine, TypeOK
  <2>2. /\ inside_eth0 <=> InStanza(fin, n)
        /\ \A i \in 1 .. n : out[i] = NewLine(fin[i], InStanza(fin, i))
        /\ clean => fin = backup
        /\ result = "none"
    BY <1>7 DEF CopyLine, HowFar
  <2>3. StillInside(l) <=> InStanza(fin, n + 1)
    BY <2>1, <2>2, StanzaStep DEF StillInside
  <2>4. new = NewLine(l, InStanza(fin, n + 1))
    <3>1. StillInside(l) = InStanza(fin, n + 1)
      BY <2>3 DEF StillInside, Starts, Ends, InStanza
    <3> QED
      BY <3>1
  <2>5. out' = Append(out, new) /\ (inside_eth0' <=> InStanza(fin, n + 1))
    BY <1>7, <2>3 DEF CopyLine
  <2>6. UNCHANGED <<backup, pc, ip, fin, result, clean>>
    BY <1>7 DEF CopyLine, files
  <2> HIDE DEF new, l
  <2>7. new \in Line
    <3>1. l \in Line
      BY <2>1, ElementOfSeq DEF l
    <3>2. StillInside(l) \in BOOLEAN /\ ip \in Ip
      BY DEF StillInside, Starts, Ends, TypeOK
    <3> QED
      BY <3>1, <3>2, NewLineTyped DEF new
  <2> HIDE DEF n
  <2>8. /\ Len(out') = n + 1 /\ out'[n + 1] = new
        /\ \A i \in 1 .. n : out'[i] = out[i]
    BY <2>1, <2>5, <2>7, AppendProperties DEF n
  <2>9. \A i \in 1 .. n + 1 : out'[i] = NewLine(fin[i], InStanza(fin, i))
    <3> TAKE i \in 1 .. n + 1
    <3>1. CASE i \in 1 .. n
      BY <2>2, <2>8, <3>1
    <3>2. CASE i = n + 1
      BY <2>4, <2>8, <3>2 DEF l
    <3> QED
      BY <2>1, <3>1, <3>2
  <2>10. \A i \in 1 .. n + 1 :
           NewLine(fin[i], InStanza(fin, i))' = NewLine(fin[i], InStanza(fin, i))
    BY <2>6 DEF NewLine, InStanza
  <2>11. pc' = "copy" /\ fin' = fin /\ backup' = backup /\ clean' = clean
         /\ result' = result
    BY <1>7, <2>6 DEF CopyLine
  <2> QED
    BY <2>1, <2>2, <2>5, <2>8, <2>9, <2>10, <2>11 DEF HowFar
<1>8. CASE Close
  BY <1>8 DEF Close, HowFar
<1>9. CASE Crash
  BY <1>9 DEF Crash, HowFar
<1>10. CASE UNCHANGED vars
  BY <1>10 DEF vars, files, call, HowFar, NewLine, InStanza
<1> QED
  BY <1>1, <1>2, <1>3, <1>4, <1>5, <1>6, <1>7, <1>8, <1>9, <1>10 DEF Next

LEMMA DecidesStep ==
  ASSUME TypeOK, OriginalKept, HowFar, LastCallDecides, [Next]_vars
  PROVE  LastCallDecides'
PROOF
<1>1. ASSUME NEW i \in Ip, Call(i) PROVE LastCallDecides'
  BY <1>1 DEF Call, LastCallDecides
<1>2. CASE Backup
  BY <1>2 DEF Backup, LastCallDecides
<1>3. CASE RenameFails
  BY <1>3 DEF RenameFails, LastCallDecides
<1>4. CASE OpenWorks
  BY <1>4 DEF OpenWorks, LastCallDecides
<1>5. CASE OpenFallsBack
  BY <1>5 DEF OpenFallsBack, LastCallDecides
<1>6. CASE OpenFails
  BY <1>6 DEF OpenFails, LastCallDecides
<1>7. CASE CopyLine
  BY <1>7 DEF CopyLine, LastCallDecides
<1>8. CASE Close
  <2> SUFFICES ASSUME original # Missing, clean' PROVE interfaces' = Configured(original)'
    BY <1>8 DEF Close, LastCallDecides
  <2>1. PICK n \in 0 .. Len(out) :
          interfaces' = Prefix(out, n) /\ clean' = (clean /\ n = Len(out))
    BY <1>8 DEF Close
  <2>2. interfaces' = out /\ clean
    BY <2>1, PrefixTyped DEF TypeOK
  <2>3. fin = original /\ Len(out) = Len(fin)
    BY <1>8, <2>2 DEF Close, OriginalKept, HowFar
  <2>4. out = [i \in 1 .. Len(out) |-> out[i]]
    BY LenProperties DEF TypeOK
  <2>5. \A i \in 1 .. Len(out) : out[i] = NewLine(fin[i], InStanza(fin, i))
    BY <1>8 DEF Close, HowFar
  <2>6. out = Configured(original)
    BY <2>3, <2>4, <2>5 DEF Configured
  <2>7. original' = original /\ ip' = ip
    BY <1>8 DEF Close, call
  <2> QED
    BY <2>2, <2>6, <2>7 DEF Configured, NewLine, InStanza
<1>9. CASE Crash
  BY <1>9 DEF Crash, HowFar, LastCallDecides
<1>10. CASE UNCHANGED vars
  BY <1>10 DEF vars, files, call, LastCallDecides, Configured, NewLine, InStanza
<1> QED
  BY <1>1, <1>2, <1>3, <1>4, <1>5, <1>6, <1>7, <1>8, <1>9, <1>10 DEF Next

LEMMA EthAtFirst == Init => EthInv
PROOF
<1> SUFFICES ASSUME Init PROVE EthInv
  OBVIOUS
<1>1. TypeOK
  BY EthAssumption, EmptySeq DEF Init, TypeOK
<1>2. OriginalKept /\ HowFar /\ LastCallDecides
  BY DEF Init, OriginalKept, HowFar, LastCallDecides
<1> QED
  BY <1>1, <1>2 DEF EthInv

-----------------------------------------------------------------------------
(* The inductive invariant of the change-ip command: where the original is *)
(* and how far set_eth0_static_ip is.                                      *)
THEOREM EthIsInvariant == Spec => []EthInv
PROOF
<1>1. EthInv /\ [Next]_vars => EthInv'
  BY TypeStep, OriginalStep, HowFarStep, DecidesStep DEF EthInv
<1> QED
  BY <1>1, EthAtFirst, PTL DEF Spec

(* set_eth0_static_ip never loses the file the device came with, wherever  *)
(* it is cut off and whatever fails.                                       *)
THEOREM OriginalIsKept == Spec => []NothingLost
PROOF
<1>1. EthInv => NothingLost
  BY DEF EthInv, OriginalKept, NothingLost
<1> QED
  BY <1>1, EthIsInvariant, PTL

(* A call that got through has written the original file with its address  *)
(* and mask in the stanzas of eth0, whatever calls came before it.         *)
THEOREM LastCallIsDecisive == Spec => []LastCallDecides
PROOF
<1>1. EthInv => LastCallDecides
  BY DEF EthInv
<1> QED
  BY <1>1, EthIsInvariant, PTL
=============================================================================
