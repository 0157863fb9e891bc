-------------------------- MODULE PlayControlProofs --------------------------
(***************************************************************************)
(* Proofs about PlayControl, for any set of files and any sizes.  The      *)
(* mutual exclusion, and the write enable that goes with it, hold of every *)
(* file; that a transfer is complete holds when files are whole packets    *)
(* (Aligned), and its invariant says how far a transfer is.                *)
(***************************************************************************)
EXTENDS PlayControl, TLAPS

-----------------------------------------------------------------------------
(* Arithmetic of whole packets. *)

LEMMA WholeQuotient ==
  ASSUME NEW a \in Nat, NEW p \in Nat \ {0}, a % p = 0
  PROVE  a \div p \in Nat /\ (a \div p) * p = a
PROOF
  BY SMT

LEMMA Multiple ==
  ASSUME NEW q \in Int, NEW p \in Nat \ {0}
  PROVE  (q * p) % p = 0
PROOF
  BY SMT

LEMMA WholeSum ==
  ASSUME NEW a \in Nat, NEW b \in Nat, NEW p \in Nat \ {0}, a % p = 0, b % p = 0
  PROVE  (a + b) % p = 0
PROOF
<1> DEFINE q == a \div p
           r == b \div p
<1>1. q \in Nat /\ r \in Nat /\ a = q * p /\ b = r * p
  BY WholeQuotient
<1> HIDE DEF q, r
<1>2. a + b = (q + r) * p
  BY <1>1, SMT
<1> QED
  BY <1>1, <1>2, Multiple

LEMMA WholeDifference ==
  ASSUME NEW a \in Nat, NEW b \in Nat, NEW p \in Nat \ {0}, a % p = 0, b % p = 0
  PROVE  (a - b) % p = 0
PROOF
<1> DEFINE q == a \div p
           r == b \div p
<1>1. q \in Nat /\ r \in Nat /\ a = q * p /\ b = r * p
  BY WholeQuotient
<1> HIDE DEF q, r
<1>2. a - b = (q - r) * p
  BY <1>1, SMT
<1> QED
  BY <1>1, <1>2, Multiple

-----------------------------------------------------------------------------

(* A transfer is about a stored file, whose size is known. *)
LEMMA SizeKnown ==
  ASSUME FileKnown, NEW t \in Thread, pc[t] \in Transferring
  PROVE  file[t] \in File /\ Size[file[t]] \in Nat
PROOF
  BY PlayAssumption DEF FileKnown

LEMMA WordsTyped ==
  ASSUME NEW n \in Nat
  PROVE  Words(n) \in Nat
PROOF
  BY SMT DEF Words

(* The locals of usr_net_xdma_play keep their types. *)
LEMMA JobTyped ==
  ASSUME NEW r \in Job, NEW m \in Nat
  PROVE  /\ [r EXCEPT !.i = m] \in Job
         /\ [r EXCEPT !.ok = FALSE] \in Job
PROOF
  BY DEF Job

LEMMA JobOpenTyped ==
  ASSUME NEW r \in Job, NEW b \in BOOLEAN
  PROVE  [r EXCEPT !.opened = b] \in Job
PROOF
  BY DEF Job

LEMMA JobReadTyped ==
  ASSUME NEW r \in Job, NEW n \in Nat, NEW m \in Nat \cup {-1}, NEW q \in Nat
  PROVE  [r EXCEPT !.readlen = n, !.off = m, !.at = q, !.i = 0] \in Job
PROOF
  BY DEF Job

LEMMA JobFailTyped ==
  ASSUME NEW r \in Job, NEW m \in Nat \cup {-1}
  PROVE  [r EXCEPT !.readlen = -1, !.off = m, !.ok = FALSE, !.i = 0] \in Job
PROOF
  BY DEF Job

(* What a read brings: what is left of the file, or a part of it. *)
LEMMA ReadTyped ==
  ASSUME TypeOK, FileKnown, NEW t \in Thread, pc[t] \in Sending
  PROVE  /\ Least(Length, Size[file[t]] - job[t].at) \in Nat
         /\ job[t].at + Least(Length, Size[file[t]] - job[t].at) <= Size[file[t]]
PROOF
<1>1. Size[file[t]] \in Nat /\ job[t].at \in Nat /\ job[t].at <= Size[file[t]]
  BY SizeKnown DEF FileKnown, Transferring, TypeOK, Job
<1> QED
  BY <1>1, PlayAssumption DEF Least

(* Types, with what is known of the files a command is about. *)
LEMMA TypeStep ==
  ASSUME TypeOK, FileKnown, [Next]_vars
  PROVE  TypeOK'
PROOF
<1> USE DEF Goto, TypeOK, FileKnown, regs, local, dirs, Dir, Pc, Thread, Nobody
<1>1. CASE NetReplay
  BY <1>1 DEF NetReplay, Begin, NewJob, Job
<1>2. CASE NetChanConfig
  BY <1>2, PlayAssumption DEF NetChanConfig, Found, Begin, NewJob, Job
<1>3. CASE SerParamSet
  BY <1>3 DEF SerParamSet, Found, Begin, NewJob, Job
<1>4. CASE NetGet
  BY <1>4 DEF NetGet
<1>5. ASSUME NEW t \in Thread, OpenGetCwd(t) PROVE TypeOK'
  BY <1>5 DEF OpenGetCwd
<1>6. ASSUME NEW t \in Thread, OpenChDir(t) PROVE TypeOK'
  BY <1>6 DEF OpenChDir
<1>7. ASSUME NEW t \in Thread, OpenFile(t) PROVE TypeOK'
  <2> DEFINE found == cwd = "signal" /\ file[t] \in Stored
  <2>1. job' \in [Thread -> Job]
    <3>1. [job[t] EXCEPT !.opened = found] \in Job
      BY JobOpenTyped
    <3>2. job' = [job EXCEPT ![t] = [job[t] EXCEPT !.opened = found]]
      BY <1>7 DEF OpenFile
    <3> QED
      BY <3>1, <3>2
  <2> QED
    BY <1>7, <2>1 DEF OpenFile
<1>8. ASSUME NEW t \in Thread, OpenBack(t) PROVE TypeOK'
  BY <1>8 DEF OpenBack
<1>9. CASE SerHush
  BY <1>9 DEF SerHush
<1>10. ASSUME NEW t \in Thread, Check(t) PROVE TypeOK'
  BY <1>10 DEF Check
<1>11. ASSUME NEW t \in Thread, RecordTrunc(t) PROVE TypeOK'
  BY <1>11 DEF RecordTrunc
<1>12. ASSUME NEW t \in Thread, RecordWrite(t) PROVE TypeOK'
  BY <1>12 DEF RecordWrite
<1>13. ASSUME NEW t \in Thread, SetPlay(t) PROVE TypeOK'
  BY <1>13 DEF SetPlay
<1>14. ASSUME NEW t \in Thread, Lock(t) PROVE TypeOK'
  BY <1>14 DEF Lock
<1>15. ASSUME NEW t \in Thread, ClearBuffer(t) PROVE TypeOK'
  BY <1>15 DEF ClearBuffer
<1>16. ASSUME NEW t \in Thread, SetLength(t) PROVE TypeOK'
  <2>1. Words(Size[file[t]]) \in Nat
    BY <1>16, SizeKnown, WordsTyped DEF SetLength, Transferring
  <2> QED
    BY <1>16, <2>1 DEF SetLength
<1>17. ASSUME NEW t \in Thread, WriteEnable(t) PROVE TypeOK'
  BY <1>17 DEF WriteEnable
<1>18. ASSUME NEW t \in Thread, Read(t) PROVE TypeOK'
  <2> DEFINE n == Least(Length, Size[file[t]] - job[t].at)
  <2>1. Size[file[t]] \in Nat /\ job[t].at \in Nat /\ job[t].off \in Nat \cup {-1}
    BY <1>18, SizeKnown DEF Read, Transferring, Sending, Job
  <2>2. job[t] \in Job
    OBVIOUS
  <2>3. job' \in [Thread -> Job]
    <3>1. CASE /\ job[t].off \in 0 .. Size[file[t]] - 1
               /\ job' = [job EXCEPT ![t].readlen = n, ![t].off = @ + n, ![t].at = @ + n,
                                    ![t].i = 0]
      <4> DEFINE m == job[t].off + n
                 q == job[t].at + n
                 j == [job[t] EXCEPT !.readlen = n, !.off = m, !.at = q, !.i = 0]
      <4>1. n \in Nat
        BY <1>18, <2>1, ReadTyped DEF Read, Transferring, Sending
      <4>2. m \in Nat \cup {-1} /\ q \in Nat
        <5> HIDE DEF n
        <5> QED
          BY <2>1, <3>1, <4>1
      <4>3. job' = [job EXCEPT ![t] = j]
        BY <3>1
      <4> HIDE DEF n, m, q
      <4>4. j \in Job
        BY ONLY <2>2, <4>1, <4>2, JobReadTyped, Zenon
      <4> QED
        BY <4>3, <4>4
    <3>2. CASE /\ job[t].off \in 0 .. Size[file[t]] - 1
               /\ job' = [job EXCEPT ![t].readlen = -1, ![t].off = @ - 1,
                                    ![t].ok = FALSE, ![t].i = 0]
      <4> DEFINE m == job[t].off - 1
                 j == [job[t] EXCEPT !.readlen = -1, !.off = m, !.ok = FALSE, !.i = 0]
      <4>1. m \in Nat \cup {-1}
        BY <2>1, <3>2
      <4>2. job' = [job EXCEPT ![t] = j]
        BY <3>2
      <4> HIDE DEF m
      <4>3. j \in Job
        BY ONLY <2>2, <4>1, JobFailTyped, Zenon
      <4> QED
        BY <4>2, <4>3
    <3>3. CASE UNCHANGED job
      BY <3>3
    <3> QED
      BY <1>18, <3>1, <3>2, <3>3 DEF Read
  <2> QED
    BY <1>18, <2>3 DEF Read
<1>19. ASSUME NEW t \in Thread, Send(t) PROVE TypeOK'
  <2>1. Size[file[t]] \in Nat /\ file[t] \in File /\ job[t].readlen \in Nat \cup {-1}
    BY <1>19, SizeKnown DEF Send, Transferring, Sending, Job
  <2>2. job[t].readlen # -1 => PacketSize(job[t].readlen) \in Nat
    BY <2>1, PlayAssumption DEF PacketSize
  <2>3. job' \in [Thread -> Job]
    <3> DEFINE m == job[t].i + 1
    <3>0. m \in Nat /\ job[t] \in Job
      BY DEF Job
    <3>1. /\ [job[t] EXCEPT !.i = m] \in Job
          /\ [job[t] EXCEPT !.ok = FALSE] \in Job
      BY <3>0, JobTyped
    <3>2. \/ job' = [job EXCEPT ![t] = [job[t] EXCEPT !.i = m]]
          \/ job' = [job EXCEPT ![t] = [job[t] EXCEPT !.ok = FALSE]]
          \/ job' = job
      BY <1>19 DEF Send
    <3> QED
      BY ZenonT(40), <3>1, <3>2
  <2>4. buffer' \in [File -> Nat]
    <3>1. Taken(t) \in [File -> Nat]
      BY <2>1, <2>2 DEF Taken
    <3>2. buffer' = Taken(t) \/ buffer' = buffer
      BY <1>19 DEF Send
    <3> QED
      BY <3>1, <3>2
  <2> QED
    BY <1>19, <2>3, <2>4 DEF Send
<1>20. ASSUME NEW t \in Thread, WriteDisable(t) PROVE TypeOK'
  <2>1. Sent \in Job
    BY DEF Sent, NewJob, Job
  <2> QED
    BY <1>20, <2>1 DEF WriteDisable
<1>21. ASSUME NEW t \in Thread, AmplifierOn(t) PROVE TypeOK'
  BY <1>21 DEF AmplifierOn, Frame
<1>22. ASSUME NEW t \in Thread, AmplifierOff(t) PROVE TypeOK'
  BY <1>22 DEF AmplifierOff, Frame
<1>23. ASSUME NEW t \in Thread, StopPlay(t) PROVE TypeOK'
  BY <1>23 DEF StopPlay
<1>24. CASE UNCHANGED vars
  BY <1>24 DEF vars
<1> QED
  BY <1>1, <1>2, <1>3, <1>4, <1>5, <1>6, <1>7, <1>8, <1>9, <1>10, <1>11, <1>12,
    <1>13, <1>14, <1>15, <1>16, <1>17, <1>18, <1>19, <1>20, <1>21, <1>22, <1>23,
    <1>24 DEF Next, Arrive, NetStep, SerStep, Common, Transfer, Thread


LEMMA FileStep ==
  ASSUME TypeOK, FileKnown, [Next]_vars
  PROVE  FileKnown'
PROOF
<1> USE DEF Goto, TypeOK, FileKnown, regs, local, dirs, Thread, Transferring,
  Sending, Opening, Before, NewJob, Job
<1>1. CASE NetReplay
  BY <1>1 DEF NetReplay, Begin
<1>2. CASE NetChanConfig
  BY <1>2 DEF NetChanConfig, Found, Begin
<1>3. CASE SerParamSet
  BY <1>3 DEF SerParamSet, Found, Begin
<1>4. CASE NetGet
  BY <1>4 DEF NetGet
<1>5. ASSUME NEW t \in Thread, OpenGetCwd(t) PROVE FileKnown'
  BY <1>5 DEF OpenGetCwd
<1>6. ASSUME NEW t \in Thread, OpenChDir(t) PROVE FileKnown'
  BY <1>6 DEF OpenChDir
<1>7. ASSUME NEW t \in Thread, OpenFile(t) PROVE FileKnown'
  BY <1>7 DEF OpenFile
<1>8. ASSUME NEW t \in Thread, OpenBack(t) PROVE FileKnown'
  BY <1>8 DEF OpenBack
<1>9. CASE SerHush
  BY <1>9 DEF SerHush
<1>10. ASSUME NEW t \in Thread, Check(t) PROVE FileKnown'
  BY <1>10 DEF Check
<1>11. ASSUME NEW t \in Thread, RecordTrunc(t) PROVE FileKnown'
  BY <1>11 DEF RecordTrunc
<1>12. ASSUME NEW t \in Thread, RecordWrite(t) PROVE FileKnown'
  BY <1>12 DEF RecordWrite
<1>13. ASSUME NEW t \in Thread, SetPlay(t) PROVE FileKnown'
  BY <1>13 DEF SetPlay
<1>14. ASSUME NEW t \in Thread, Lock(t) PROVE FileKnown'
  BY <1>14 DEF Lock
<1>15. ASSUME NEW t \in Thread, ClearBuffer(t) PROVE FileKnown'
  BY <1>15 DEF ClearBuffer
<1>16. ASSUME NEW t \in Thread, SetLength(t) PROVE FileKnown'
  BY <1>16 DEF SetLength
<1>17. ASSUME NEW t \in Thread, WriteEnable(t) PROVE FileKnown'
  <2>1. job[t].at = 0 /\ 0 <= Size[file[t]]
    BY <1>17, SizeKnown DEF WriteEnable
  <2> QED
    BY <1>17, <2>1 DEF WriteEnable
<1>18. ASSUME NEW t \in Thread, Read(t) PROVE FileKnown'
  <2> DEFINE n == Least(Length, Size[file[t]] - job[t].at)
  <2>1. job[t].at + n <= Size[file[t]]
    BY <1>18, ReadTyped DEF Read
  <2>2. job'[t].at \in {job[t].at, job[t].at + n} /\ job'[t].opened = job[t].opened
    BY <1>18 DEF Read
  <2>3. /\ pc[t] = "read" /\ pc'[t] \in {"send", "disable"}
        /\ \A u \in Thread \ {t} : pc'[u] = pc[u] /\ job'[u] = job[u]
        /\ file' = file
    BY <1>18 DEF Read
  <2> HIDE DEF n
  <2> QED
    BY <2>1, <2>2, <2>3
<1>19. ASSUME NEW t \in Thread, Send(t) PROVE FileKnown'
  <2>1. /\ job'[t].at = job[t].at /\ job'[t].opened = job[t].opened
        /\ pc[t] = "send" /\ pc'[t] \in {"send", "read"}
        /\ \A u \in Thread \ {t} : pc'[u] = pc[u] /\ job'[u] = job[u]
        /\ file' = file
    BY <1>19 DEF Send
  <2> QED
    BY <2>1
<1>20. ASSUME NEW t \in Thread, WriteDisable(t) PROVE FileKnown'
  BY <1>20 DEF WriteDisable
<1>21. ASSUME NEW t \in Thread, AmplifierOn(t) PROVE FileKnown'
  BY <1>21 DEF AmplifierOn
<1>22. ASSUME NEW t \in Thread, AmplifierOff(t) PROVE FileKnown'
  BY <1>22 DEF AmplifierOff
<1>23. ASSUME NEW t \in Thread, StopPlay(t) PROVE FileKnown'
  BY <1>23 DEF StopPlay
<1>24. CASE UNCHANGED vars
  BY <1>24 DEF vars
<1> QED
  BY <1>1, <1>2, <1>3, <1>4, <1>5, <1>6, <1>7, <1>8, <1>9, <1>10, <1>11, <1>12,
    <1>13, <1>14, <1>15, <1>16, <1>17, <1>18, <1>19, <1>20, <1>21, <1>22, <1>23,
    <1>24 DEF Next, Arrive, NetStep, SerStep, Common, Transfer, Thread

(* Mutual exclusion of the transfers. *)
LEMMA LockStep ==
  ASSUME TypeOK, OneTransfer, [Next]_vars
  PROVE  OneTransfer'
PROOF
<1> USE DEF Goto, TypeOK, OneTransfer, regs, local, dirs, Thread, Nobody,
  Transferring, Sending
<1>1. CASE NetReplay
  BY <1>1 DEF NetReplay, Begin
<1>2. CASE NetChanConfig
  BY <1>2 DEF NetChanConfig, Found, Begin
<1>3. CASE SerParamSet
  BY <1>3 DEF SerParamSet, Found, Begin
<1>4. CASE NetGet
  BY <1>4 DEF NetGet
<1>5. ASSUME NEW t \in Thread, OpenGetCwd(t) PROVE OneTransfer'
  BY <1>5 DEF OpenGetCwd
<1>6. ASSUME NEW t \in Thread, OpenChDir(t) PROVE OneTransfer'
  BY <1>6 DEF OpenChDir
<1>7. ASSUME NEW t \in Thread, OpenFile(t) PROVE OneTransfer'
  BY <1>7 DEF OpenFile
<1>8. ASSUME NEW t \in Thread, OpenBack(t) PROVE OneTransfer'
  BY <1>8 DEF OpenBack
<1>9. CASE SerHush
  BY <1>9 DEF SerHush
<1>10. ASSUME NEW t \in Thread, Check(t) PROVE OneTransfer'
  BY <1>10 DEF Check
<1>11. ASSUME NEW t \in Thread, RecordTrunc(t) PROVE OneTransfer'
  BY <1>11 DEF RecordTrunc
<1>12. ASSUME NEW t \in Thread, RecordWrite(t) PROVE OneTransfer'
  BY <1>12 DEF RecordWrite
<1>13. ASSUME NEW t \in Thread, SetPlay(t) PROVE OneTransfer'
  BY <1>13 DEF SetPlay
<1>14. ASSUME NEW t \in Thread, Lock(t) PROVE OneTransfer'
  BY <1>14 DEF Lock
<1>15. ASSUME NEW t \in Thread, ClearBuffer(t) PROVE OneTransfer'
  BY <1>15 DEF ClearBuffer
<1>16. ASSUME NEW t \in Thread, SetLength(t) PROVE OneTransfer'
  BY <1>16 DEF SetLength
<1>17. ASSUME NEW t \in Thread, WriteEnable(t) PROVE OneTransfer'
  BY <1>17 DEF WriteEnable
<1>18. ASSUME NEW t \in Thread, Read(t) PROVE OneTransfer'
  BY <1>18 DEF Read
<1>19. ASSUME NEW t \in Thread, Send(t) PROVE OneTransfer'
  BY <1>19 DEF Send
<1>20. ASSUME NEW t \in Thread, WriteDisable(t) PROVE OneTransfer'
  BY <1>20 DEF WriteDisable
<1>21. ASSUME NEW t \in Thread, AmplifierOn(t) PROVE OneTransfer'
  BY <1>21 DEF AmplifierOn
<1>22. ASSUME NEW t \in Thread, AmplifierOff(t) PROVE OneTransfer'
  BY <1>22 DEF AmplifierOff
<1>23. ASSUME NEW t \in Thread, StopPlay(t) PROVE OneTransfer'
  BY <1>23 DEF StopPlay
<1>24. CASE UNCHANGED vars
  BY <1>24 DEF vars
<1> QED
  BY <1>1, <1>2, <1>3, <1>4, <1>5, <1>6, <1>7, <1>8, <1>9, <1>10, <1>11, <1>12,
    <1>13, <1>14, <1>15, <1>16, <1>17, <1>18, <1>19, <1>20, <1>21, <1>22, <1>23,
    <1>24 DEF Next, Arrive, NetStep, SerStep, Common, Transfer, Thread

(* The write enable and the transfer that owns it. *)
LEMMA EnableStep ==
  ASSUME TypeOK, OneTransfer, WriteEnableOwned, [Next]_vars
  PROVE  WriteEnableOwned'
PROOF
<1> USE DEF Goto, TypeOK, OneTransfer, WriteEnableOwned, regs, local, dirs,
  Thread, Nobody, Transferring, Sending
<1>1. CASE NetReplay
  BY <1>1 DEF NetReplay, Begin
<1>2. CASE NetChanConfig
  BY <1>2 DEF NetChanConfig, Found, Begin
<1>3. CASE SerParamSet
  BY <1>3 DEF SerParamSet, Found, Begin
<1>4. CASE NetGet
  BY <1>4 DEF NetGet
<1>5. ASSUME NEW t \in Thread, OpenGetCwd(t) PROVE WriteEnableOwned'
  BY <1>5 DEF OpenGetCwd
<1>6. ASSUME NEW t \in Thread, OpenChDir(t) PROVE WriteEnableOwned'
  BY <1>6 DEF OpenChDir
<1>7. ASSUME NEW t \in Thread, OpenFile(t) PROVE WriteEnableOwned'
  BY <1>7 DEF OpenFile
<1>8. ASSUME NEW t \in Thread, OpenBack(t) PROVE WriteEnableOwned'
  BY <1>8 DEF OpenBack
<1>9. CASE SerHush
  BY <1>9 DEF SerHush
<1>10. ASSUME NEW t \in Thread, Check(t) PROVE WriteEnableOwned'
  BY <1>10 DEF Check
<1>11. ASSUME NEW t \in Thread, RecordTrunc(t) PROVE WriteEnableOwned'
  BY <1>11 DEF RecordTrunc
<1>12. ASSUME NEW t \in Thread, RecordWrite(t) PROVE WriteEnableOwned'
  BY <1>12 DEF RecordWrite
<1>13. ASSUME NEW t \in Thread, SetPlay(t) PROVE WriteEnableOwned'
  BY <1>13 DEF SetPlay
<1>14. ASSUME NEW t \in Thread, Lock(t) PROVE WriteEnableOwned'
  BY <1>14 DEF Lock
<1>15. ASSUME NEW t \in Thread, ClearBuffer(t) PROVE WriteEnableOwned'
  BY <1>15 DEF ClearBuffer
<1>16. ASSUME NEW t \in Thread, SetLength(t) PROVE WriteEnableOwned'
  BY <1>16 DEF SetLength
<1>17. ASSUME NEW t \in Thread, WriteEnable(t) PROVE WriteEnableOwned'
  BY <1>17 DEF WriteEnable
<1>18. ASSUME NEW t \in Thread, Read(t) PROVE WriteEnableOwned'
  BY <1>18 DEF Read
<1>19. ASSUME NEW t \in Thread, Send(t) PROVE WriteEnableOwned'
  BY <1>19 DEF Send
<1>20. ASSUME NEW t \in Thread, WriteDisable(t) PROVE WriteEnableOwned'
  BY <1>20 DEF WriteDisable
<1>21. ASSUME NEW t \in Thread, AmplifierOn(t) PROVE WriteEnableOwned'
  BY <1>21 DEF AmplifierOn
<1>22. ASSUME NEW t \in Thread, AmplifierOff(t) PROVE WriteEnableOwned'
  BY <1>22 DEF AmplifierOff
<1>23. ASSUME NEW t \in Thread, StopPlay(t) PROVE WriteEnableOwned'
  BY <1>23 DEF StopPlay
<1>24. CASE UNCHANGED vars
  BY <1>24 DEF vars
<1> QED
  BY <1>1, <1>2, <1>3, <1>4, <1>5, <1>6, <1>7, <1>8, <1>9, <1>10, <1>11, <1>12,
    <1>13, <1>14, <1>15, <1>16, <1>17, <1>18, <1>19, <1>20, <1>21, <1>22, <1>23,
    <1>24 DEF Next, Arrive, NetStep, SerStep, Common, Transfer, Thread

(* While the last command runs alone no other thread is under way, it is   *)
(* in /opt/signal when it opens, and so its open finds a stored file.      *)
LoneOpens ==
  \A t \in Thread : lone = t =>
    /\ \A u \in Thread \ {t} : pc[u] = "idle"
    /\ pc[t] = "file" => cwd = "signal"
    /\ pc[t] = "back" /\ file[t] \in Stored => job[t].opened

LEMMA LoneStep ==
  ASSUME TypeOK, LoneOpens, [Next]_vars
  PROVE  LoneOpens'
PROOF
<1> USE DEF Goto, TypeOK, LoneOpens, regs, local, dirs, Thread, Nobody, NewJob
<1>1. CASE NetReplay
  BY <1>1 DEF NetReplay, Begin, Idle
<1>2. CASE NetChanConfig
  BY <1>2 DEF NetChanConfig, Found, Begin, Idle
<1>3. CASE SerParamSet
  BY <1>3 DEF SerParamSet, Found, Begin, Idle
<1>4. CASE NetGet
  BY <1>4 DEF NetGet
<1>5. ASSUME NEW t \in Thread, OpenGetCwd(t) PROVE LoneOpens'
  BY <1>5 DEF OpenGetCwd
<1>6. ASSUME NEW t \in Thread, OpenChDir(t) PROVE LoneOpens'
  BY <1>6 DEF OpenChDir
<1>7. ASSUME NEW t \in Thread, OpenFile(t) PROVE LoneOpens'
  <2>1. /\ pc[t] = "file" /\ pc'[t] = "back"
        /\ \A u \in Thread \ {t} : pc'[u] = pc[u]
    BY <1>7 DEF OpenFile
  <2>2. job'[t].opened <=> cwd = "signal" /\ file[t] \in Stored
    BY <1>7 DEF OpenFile, Job
  <2>3. lone' = lone /\ cwd' = cwd /\ file' = file
    BY <1>7 DEF OpenFile
  <2>4. \A u \in Thread \ {t} : lone # u
    BY <2>1
  <2> QED
    BY <2>1, <2>2, <2>3, <2>4
<1>8. ASSUME NEW t \in Thread, OpenBack(t) PROVE LoneOpens'
  BY <1>8 DEF OpenBack
<1>9. CASE SerHush
  BY <1>9 DEF SerHush
<1>10. ASSUME NEW t \in Thread, Check(t) PROVE LoneOpens'
  BY <1>10 DEF Check
<1>11. ASSUME NEW t \in Thread, RecordTrunc(t) PROVE LoneOpens'
  BY <1>11 DEF RecordTrunc
<1>12. ASSUME NEW t \in Thread, RecordWrite(t) PROVE LoneOpens'
  BY <1>12 DEF RecordWrite
<1>13. ASSUME NEW t \in Thread, SetPlay(t) PROVE LoneOpens'
  BY <1>13 DEF SetPlay
<1>14. ASSUME NEW t \in Thread, Lock(t) PROVE LoneOpens'
  BY <1>14 DEF Lock
<1>15. ASSUME NEW t \in Thread, ClearBuffer(t) PROVE LoneOpens'
  BY <1>15 DEF ClearBuffer
<1>16. ASSUME NEW t \in Thread, SetLength(t) PROVE LoneOpens'
  BY <1>16 DEF SetLength
<1>17. ASSUME NEW t \in Thread, WriteEnable(t) PROVE LoneOpens'
  BY <1>17 DEF WriteEnable
<1>18. ASSUME NEW t \in Thread, Read(t) PROVE LoneOpens'
  BY <1>18 DEF Read
<1>19. ASSUME NEW t \in Thread, Send(t) PROVE LoneOpens'
  BY <1>19 DEF Send
<1>20. ASSUME NEW t \in Thread, WriteDisable(t) PROVE LoneOpens'
  BY <1>20 DEF WriteDisable
<1>21. ASSUME NEW t \in Thread, AmplifierOn(t) PROVE LoneOpens'
  BY <1>21 DEF AmplifierOn
<1>22. ASSUME NEW t \in Thread, AmplifierOff(t) PROVE LoneOpens'
  BY <1>22 DEF AmplifierOff
<1>23. ASSUME NEW t \in Thread, StopPlay(t) PROVE LoneOpens'
  BY <1>23 DEF StopPlay
<1>24. CASE UNCHANGED vars
  BY <1>24 DEF vars
<1> QED
  BY <1>1, <1>2, <1>3, <1>4, <1>5, <1>6, <1>7, <1>8, <1>9, <1>10, <1>11, <1>12,
    <1>13, <1>14, <1>15, <1>16, <1>17, <1>18, <1>19, <1>20, <1>21, <1>22, <1>23,
    <1>24 DEF Next, Arrive, NetStep, SerStep, Common, Transfer, Thread

(* What the last command has put right so far, if it runs alone: a stop    *)
(* goes through its steps to the end, only a command that switches on      *)
(* opens a file, and a choice of file empties the record and writes it.    *)
StopDone(t) ==
  Stopping(t) =>
    /\ pc[t] \in {"off", "stop", "hush", "idle"}
    /\ pc[t] # "off" => pa = "off"
    /\ pc[t] \in {"hush", "idle"} => play = 0

StartDone(t) ==
  /\ pc[t] \in Opening \cup {"back", "play"} => enable[t]
  /\ job[t].opened => /\ enable[t] /\ pc[t] \notin Opening \cup {"off", "stop", "hush"}
                      /\ pc[t] \in {"back", "trunc", "write", "play"} \/ play = 2
  /\ enable[t] /\ pc[t] \in {"stop", "hush", "idle"} => pa = "on"

ChoiceDone(t) ==
  Choosing(t) => /\ pc[t] \in {"trunc", "write", "idle"}
                 /\ pc[t] = "write" => record = Empty
                 /\ pc[t] = "idle" => record = file[t]

LoneDone ==
  \A t \in Thread : lone = t =>
    /\ \A u \in Thread \ {t} : pc[u] = "idle"
    /\ StopDone(t) /\ StartDone(t) /\ ChoiceDone(t)

LEMMA DoneStep ==
  ASSUME TypeOK, FileKnown, LoneDone, [Next]_vars
  PROVE  LoneDone'
PROOF
<1> USE DEF Goto, TypeOK, LoneDone, StopDone, StartDone, ChoiceDone, Stopping, Choosing,
            regs, local, dirs, Thread, Nobody, NewJob, Opening
<1>1. CASE NetReplay
  BY <1>1 DEF NetReplay, Begin, Idle
<1>2. CASE NetChanConfig
  BY <1>2, PlayAssumption DEF NetChanConfig, Found, Begin, Idle
<1>3. CASE SerParamSet
  BY <1>3 DEF SerParamSet, Found, Begin, Idle
<1>4. CASE NetGet
  BY <1>4 DEF NetGet
<1>9. CASE SerHush
  BY <1>9 DEF SerHush
<1>10. ASSUME NEW t \in Thread, OpenGetCwd(t) PROVE LoneDone'
  BY <1>10 DEF OpenGetCwd
<1>11. ASSUME NEW t \in Thread, OpenChDir(t) PROVE LoneDone'
  BY <1>11 DEF OpenChDir
<1>12. ASSUME NEW t \in Thread, OpenFile(t) PROVE LoneDone'
  BY <1>12 DEF OpenFile
<1>13. ASSUME NEW t \in Thread, OpenBack(t) PROVE LoneDone'
  BY <1>13 DEF OpenBack
<1>14. ASSUME NEW t \in Thread, Check(t) PROVE LoneDone'
  BY <1>14 DEF Check
<1>15. ASSUME NEW t \in Thread, RecordTrunc(t) PROVE LoneDone'
  BY <1>15 DEF RecordTrunc
<1>16. ASSUME NEW t \in Thread, RecordWrite(t) PROVE LoneDone'
  BY <1>16 DEF RecordWrite
<1>17. ASSUME NEW t \in Thread, SetPlay(t) PROVE LoneDone'
  BY <1>17 DEF SetPlay
<1>18. ASSUME NEW t \in Thread, Lock(t) PROVE LoneDone'
  BY <1>18 DEF Lock
<1>19. ASSUME NEW t \in Thread, ClearBuffer(t) PROVE LoneDone'
  BY <1>19 DEF ClearBuffer
<1>20. ASSUME NEW t \in Thread, SetLength(t) PROVE LoneDone'
  BY <1>20 DEF SetLength
<1>21. ASSUME NEW t \in Thread, WriteEnable(t) PROVE LoneDone'
  BY <1>21 DEF WriteEnable
<1>22. ASSUME NEW t \in Thread, Read(t) PROVE LoneDone'
  <2>1. /\ \A u \in Thread : job'[u].opened = job[u].opened
        /\ pc[t] \in {"read", "send"} /\ pc'[t] \in {"read", "send", "disable"}
        /\ \A u \in Thread \ {t} : pc'[u] = pc[u]
    BY <1>22 DEF Read, Job
  <2>2. UNCHANGED <<play, pa, record, enable, file, lone>>
    BY <1>22 DEF Read
  <2> QED
    BY <2>1, <2>2
<1>23. ASSUME NEW t \in Thread, Send(t) PROVE LoneDone'
  <2>1. /\ \A u \in Thread : job'[u].opened = job[u].opened
        /\ pc[t] \in {"read", "send"} /\ pc'[t] \in {"read", "send", "disable"}
        /\ \A u \in Thread \ {t} : pc'[u] = pc[u]
    BY <1>23 DEF Send, Job
  <2>2. UNCHANGED <<play, pa, record, enable, file, lone>>
    BY <1>23 DEF Send
  <2> QED
    BY <2>1, <2>2
<1>24. ASSUME NEW t \in Thread, WriteDisable(t) PROVE LoneDone'
  <2>1. /\ job[t].opened /\ pc[t] = "disable" /\ pc'[t] = "on"
        /\ \A u \in Thread \ {t} : pc'[u] = pc[u] /\ job'[u] = job[u]
    BY <1>24 DEF WriteDisable, FileKnown, Transferring, Sending
  <2>2. UNCHANGED <<play, pa, record, enable, file, lone>>
    BY <1>24 DEF WriteDisable
  <2> QED
    BY <2>1, <2>2
<1>25. ASSUME NEW t \in Thread, AmplifierOn(t) PROVE LoneDone'
  BY <1>25 DEF AmplifierOn, Frame
<1>26. ASSUME NEW t \in Thread, AmplifierOff(t) PROVE LoneDone'
  BY <1>26 DEF AmplifierOff, Frame
<1>27. ASSUME NEW t \in Thread, StopPlay(t) PROVE LoneDone'
  <2>1. /\ pc[t] = "stop" /\ pc'[t] \in {"idle", "hush"} /\ play' = 0
        /\ \A u \in Thread \ {t} : pc'[u] = pc[u]
    BY <1>27 DEF StopPlay
  <2>2. UNCHANGED <<job, pa, record, enable, file, lone>>
    BY <1>27 DEF StopPlay
  <2> QED
    BY <2>1, <2>2
<1>28. CASE UNCHANGED vars
  BY <1>28 DEF vars
<1> QED
  BY <1>1, <1>2, <1>3, <1>4, <1>9, <1>10, <1>11, <1>12,
    <1>13, <1>14, <1>15, <1>16, <1>17, <1>18, <1>19, <1>20, <1>21, <1>22, <1>23,
    <1>24, <1>25, <1>26, <1>27, <1>28
     DEF Next, Arrive, NetStep, SerStep, Common, Transfer, Thread

(* How far a transfer is, when files are whole packets. *)
LEMMA ProgressStep ==
  ASSUME Aligned, TypeOK, OneTransfer, FileKnown, Progress, [Next]_vars
  PROVE  Progress'
PROOF
<1> USE DEF Goto, TypeOK, Job, OneTransfer, Progress, regs, local, dirs, Thread,
  Nobody, Transferring, Sending
<1>1. CASE NetReplay
  BY <1>1 DEF NetReplay, Begin
<1>2. CASE NetChanConfig
  BY <1>2 DEF NetChanConfig, Found, Begin
<1>3. CASE SerParamSet
  BY <1>3 DEF SerParamSet, Found, Begin
<1>4. CASE NetGet
  BY <1>4 DEF NetGet
<1>5. ASSUME NEW t \in Thread, OpenGetCwd(t) PROVE Progress'
  BY <1>5 DEF OpenGetCwd
<1>6. ASSUME NEW t \in Thread, OpenChDir(t) PROVE Progress'
  BY <1>6 DEF OpenChDir
<1>7. ASSUME NEW t \in Thread, OpenFile(t) PROVE Progress'
  BY <1>7 DEF OpenFile
<1>8. ASSUME NEW t \in Thread, OpenBack(t) PROVE Progress'
  BY <1>8 DEF OpenBack
<1>9. CASE SerHush
  BY <1>9 DEF SerHush
<1>10. ASSUME NEW t \in Thread, Check(t) PROVE Progress'
  BY <1>10 DEF Check
<1>11. ASSUME NEW t \in Thread, RecordTrunc(t) PROVE Progress'
  BY <1>11 DEF RecordTrunc
<1>12. ASSUME NEW t \in Thread, RecordWrite(t) PROVE Progress'
  BY <1>12 DEF RecordWrite
<1>13. ASSUME NEW t \in Thread, SetPlay(t) PROVE Progress'
  BY <1>13 DEF SetPlay
<1>14. ASSUME NEW t \in Thread, Lock(t) PROVE Progress'
  BY <1>14 DEF Lock
<1>15. ASSUME NEW t \in Thread, ClearBuffer(t) PROVE Progress'
  BY <1>15 DEF ClearBuffer
<1>16. ASSUME NEW t \in Thread, SetLength(t) PROVE Progress'
  BY <1>16 DEF SetLength
<1>17. ASSUME NEW t \in Thread, WriteEnable(t) PROVE Progress'
  <2>1. file[t] \in File
    BY <1>17, SizeKnown DEF WriteEnable
  <2>2. job[t].off = 0 /\ job[t].at = 0 /\ job[t].ok
    BY <1>17 DEF WriteEnable, FileKnown, Opening, Before
  <2>3. 0 % Packet = 0
    BY PlayAssumption
  <2>4. \A g \in File : buffer[g] = 0
    BY <1>17 DEF WriteEnable
  <2>5. \A u \in Thread \ {t} : pc[u] \notin Transferring
    BY <1>17 DEF WriteEnable
  <2>6. /\ pc[t] = "enable" /\ pc'[t] = "read" /\ write_enable'
        /\ \A u \in Thread \ {t} : pc'[u] = pc[u]
        /\ UNCHANGED <<job, file, buffer, length>>
    BY <1>17 DEF WriteEnable
  <2> QED
    BY <2>1, <2>2, <2>3, <2>4, <2>5, <2>6
<1>18. ASSUME NEW t \in Thread, Read(t) PROVE Progress'
  <2> DEFINE f == file[t]
             j == job[t]
             n == Least(Length, Size[f] - j.at)
  <2>1. f \in File /\ Size[f] \in Nat /\ j.at \in Nat /\ j.at <= Size[f]
    BY <1>18, SizeKnown DEF Read, FileKnown
  <2>2. /\ length = Words(Size[f]) /\ j.at % Packet = 0
        /\ j.ok => j.off = j.at /\ \A g \in File \ {f} : buffer[g] = 0
        /\ j.ok /\ write_enable => buffer[f] = j.at
        /\ t = "ser" => write_enable
    BY <1>18 DEF Read
  <2>3. \A u \in Thread \ {t} : pc[u] \notin Transferring
    BY <1>18 DEF Read
  <2>4. /\ \A u \in Thread \ {t} : pc'[u] = pc[u]
        /\ UNCHANGED <<file, buffer, length, write_enable>>
    BY <1>18 DEF Read
  <2>5. \A g \in File \ {f} : buffer[g] = 0
    BY <1>18 DEF Read
  <2>6. CASE /\ j.off \in 0 .. Size[f] - 1 /\ Goto(t, "send")
             /\ job' = [job EXCEPT ![t].readlen = n, ![t].off = @ + n, ![t].at = @ + n,
                                  ![t].i = 0]
    <3>1. n \in Nat /\ j.at + n <= Size[f]
      BY <1>18, ReadTyped DEF Read
    <3>2. n % Packet = 0
      <4>1. (Size[f] - j.at) % Packet = 0
        BY <2>1, <2>2, WholeDifference, PlayAssumption DEF Aligned
      <4> QED
        BY <4>1, PlayAssumption DEF Least
    <3>3. (j.at + n) % Packet = 0
      BY <2>1, <2>2, <3>1, <3>2, WholeSum, PlayAssumption
    <3>4. 0 <= n \div Packet
      BY <3>1, <3>2, WholeQuotient, PlayAssumption
    <3> HIDE DEF n
    <3>5. /\ job'[t].off = j.off + n /\ job'[t].at = j.at + n /\ job'[t].readlen = n
          /\ job'[t].i = 0 /\ job'[t].ok = j.ok
          /\ \A u \in Thread \ {t} : job'[u] = job[u]
      BY <2>6
    <3>6. pc'[t] = "send"
      BY <2>6
    <3>7. n <= j.at + n /\ j.at + n - n + 0 * Packet = j.at
      BY <2>1, <3>1, PlayAssumption
    <3> QED
      BY <2>1, <2>2, <2>3, <2>4, <2>5, <3>1, <3>2, <3>3, <3>4, <3>5, <3>6, <3>7
  <2>7. CASE /\ Goto(t, "send")
             /\ job' = [job EXCEPT ![t].readlen = -1, ![t].off = @ - 1,
                                  ![t].ok = FALSE, ![t].i = 0]
    <3>1. /\ job'[t].at = j.at /\ job'[t].ok = FALSE
          /\ \A u \in Thread \ {t} : job'[u] = job[u]
      BY <2>7
    <3>2. pc'[t] = "send"
      BY <2>7
    <3> QED
      BY <2>1, <2>2, <2>3, <2>4, <2>5, <3>1, <3>2
  <2>8. CASE /\ j.off \notin 0 .. Size[f] - 1
             /\ Goto(t, "disable") /\ UNCHANGED job
    <3>1. j.ok => j.at = Size[f]
      BY <2>1, <2>2, <2>8
    <3>2. pc'[t] = "disable" /\ job' = job
      BY <2>8
    <3> QED
      BY <2>1, <2>2, <2>3, <2>4, <2>5, <3>1, <3>2
  <2> QED
    BY <1>18, <2>6, <2>7, <2>8 DEF Read
<1>19. ASSUME NEW t \in Thread, Send(t) PROVE Progress'
  <2> DEFINE f == file[t]
             j == job[t]
  <2>1. f \in File /\ Size[f] \in Nat /\ buffer[f] \in Nat
    BY <1>19, SizeKnown DEF Send
  <2>2. j.at \in Nat /\ j.i \in Nat
    OBVIOUS
  <2>3. /\ length = Words(Size[f]) /\ j.at % Packet = 0
        /\ j.ok => /\ j.off = j.at
                   /\ j.readlen \in Nat /\ j.readlen % Packet = 0 /\ j.readlen <= j.at
                   /\ j.i <= j.readlen \div Packet
        /\ j.ok /\ write_enable => buffer[f] = j.at - j.readlen + j.i * Packet
        /\ \A g \in File \ {f} : buffer[g] = 0
        /\ t = "ser" => write_enable
    BY <1>19 DEF Send
  <2>4. \A u \in Thread \ {t} : pc[u] \notin Transferring
    BY <1>19 DEF Send
  <2>5. j.ok => /\ Packets(j.readlen) = j.readlen \div Packet
                /\ j.readlen \div Packet \in Nat
                /\ (j.readlen \div Packet) * Packet = j.readlen
    <3>1. j.ok => j.readlen # -1
      BY <2>3
    <3> QED
      BY <2>3, <3>1, WholeQuotient, PlayAssumption DEF Packets
  <2>6. UNCHANGED <<write_enable, length, file>>
    BY <1>19 DEF Send
  <2>7. CASE /\ j.i < Packets(j.readlen)
             /\ buffer' = Taken(t)
             /\ job' = [job EXCEPT ![t].i = @ + 1]
             /\ UNCHANGED pc
    <3>1. j.ok => PacketSize(j.readlen) = Packet
      BY <2>3 DEF PacketSize
    <3>2. /\ job'[t].i = j.i + 1 /\ job'[t].off = j.off /\ job'[t].at = j.at
          /\ job'[t].ok = j.ok /\ job'[t].readlen = j.readlen
          /\ \A u \in Thread \ {t} : job'[u] = job[u]
      BY <2>7
    <3>3. \A g \in File \ {f} : buffer'[g] = 0
      BY <2>1, <2>3, <2>7 DEF Taken
    <3>4. j.ok => j.i + 1 <= j.readlen \div Packet
      BY <2>2, <2>5, <2>7
    <3>5. j.ok /\ write_enable => buffer'[f] = buffer[f] + Packet
      <4>1. j.ok => j.readlen # -1
        BY <2>3
      <4> QED
        BY <2>1, <2>7, <3>1, <4>1 DEF Taken
    <3>6. j.ok /\ write_enable =>
            buffer[f] + Packet = j.at - j.readlen + (j.i + 1) * Packet
      BY <2>1, <2>2, <2>3, PlayAssumption
    <3>7. pc[t] = "send" /\ pc' = pc
      BY <1>19, <2>7 DEF Send
    <3> QED
      BY <2>1, <2>3, <2>4, <2>6, <3>2, <3>3, <3>4, <3>5, <3>6, <3>7
  <2>8. CASE /\ job' = [job EXCEPT ![t].ok = FALSE]
             /\ Goto(t, "read") /\ UNCHANGED buffer
    <3>1. /\ job'[t].ok = FALSE /\ job'[t].at = j.at
          /\ \A u \in Thread \ {t} : job'[u] = job[u]
      BY <2>8
    <3>2. /\ pc'[t] = "read" /\ \A u \in Thread \ {t} : pc'[u] = pc[u]
          /\ buffer' = buffer
      BY <2>8
    <3> QED
      BY <2>1, <2>3, <2>4, <2>6, <3>1, <3>2
  <2>9. CASE /\ ~(j.i < Packets(j.readlen))
             /\ Goto(t, "read") /\ UNCHANGED <<buffer, job>>
    <3>1. j.ok => j.i = j.readlen \div Packet
      BY <2>2, <2>3, <2>5, <2>9
    <3>2. j.ok /\ write_enable => buffer[f] = j.at
      BY <2>1, <2>2, <2>3, <2>5, <3>1
    <3>3. /\ pc'[t] = "read" /\ \A u \in Thread \ {t} : pc'[u] = pc[u]
          /\ buffer' = buffer /\ job' = job
      BY <2>9
    <3> QED
      BY <2>1, <2>3, <2>4, <2>6, <3>2, <3>3
  <2> QED
    BY <1>19, <2>7, <2>8, <2>9 DEF Send
<1>20. ASSUME NEW t \in Thread, WriteDisable(t) PROVE Progress'
  <2>1. /\ pc[t] = "disable" /\ pc'[t] = "on"
        /\ \A u \in Thread \ {t} : /\ pc[u] \notin Transferring
                                  /\ pc'[u] = pc[u] /\ job'[u] = job[u]
        /\ UNCHANGED <<file, buffer, length>>
    BY <1>20 DEF WriteDisable
  <2> QED
    BY <2>1
<1>21. ASSUME NEW t \in Thread, AmplifierOn(t) PROVE Progress'
  BY <1>21 DEF AmplifierOn
<1>22. ASSUME NEW t \in Thread, AmplifierOff(t) PROVE Progress'
  BY <1>22 DEF AmplifierOff
<1>23. ASSUME NEW t \in Thread, StopPlay(t) PROVE Progress'
  BY <1>23 DEF StopPlay
<1>24. CASE UNCHANGED vars
  BY <1>24 DEF vars
<1> HIDE DEF Progress, OneTransfer, TypeOK
<1> QED
  BY <1>1, <1>2, <1>3, <1>4, <1>5, <1>6, <1>7, <1>8, <1>9, <1>10, <1>11, <1>12,
    <1>13, <1>14, <1>15, <1>16, <1>17, <1>18, <1>19, <1>20, <1>21, <1>22, <1>23,
    <1>24 DEF Next, Arrive, NetStep, SerStep, Common, Transfer, Thread

-----------------------------------------------------------------------------
(* What holds whatever the sizes of the files are. *)
Basics == TypeOK /\ OneTransfer /\ FileKnown

LEMMA BasicsAtFirst == Init => Basics
PROOF
<1> SUFFICES ASSUME Init PROVE Basics
  OBVIOUS
<1>1. TypeOK
  <2>1. NewJob \in Job
    BY DEF NewJob, Job
  <2> QED
    BY <2>1, PlayAssumption DEF Init, TypeOK, Dir, Pc, Thread, Nobody
<1>2. OneTransfer
  BY DEF Init, OneTransfer, Thread, Nobody, Transferring, Sending
<1>3. FileKnown
  BY DEF Init, FileKnown, NewJob, Transferring, Sending, Opening, Before
<1> QED
  BY <1>1, <1>2, <1>3 DEF Basics

LEMMA BasicsHold == Spec => []Basics
PROOF
<1>1. Init => Basics
  BY BasicsAtFirst
<1>2. Basics /\ [Next]_vars => Basics'
  BY TypeStep, FileStep, LockStep DEF Basics
<1> QED
  BY <1>1, <1>2, PTL DEF Spec

(* usr_net_xdma_play, usr_ser_param_set: whatever the two consoles ask for *)
(* at the same time, the PL's write enable is on only between steps 4 and  *)
(* 6 of the one transfer that holds pa_mutex.                              *)
THEOREM WriteEnableIsOwned == Spec => []WriteEnableOwned
PROOF
<1>1. Init => WriteEnableOwned
  BY DEF Init, WriteEnableOwned
<1>2. Basics /\ WriteEnableOwned /\ [Next]_vars => WriteEnableOwned'
  BY EnableStep DEF Basics
<1> QED
  BY <1>1, <1>2, BasicsHold, PTL DEF Spec

(* open_in_dir: a start no other command overlaps finds its stored file,   *)
(* even if overlapping ones have left the process in another directory.    *)
THEOREM LoneOpenFindsFile == Spec => []LoneOpenFinds
PROOF
<1>1. Init => LoneOpens
  BY DEF Init, LoneOpens, Thread, Nobody
<1>2. Basics /\ LoneOpens /\ [Next]_vars => LoneOpens'
  BY LoneStep DEF Basics
<1>3. LoneOpens => LoneOpenFinds
  BY DEF LoneOpens, LoneOpenFinds
<1> QED
  BY <1>1, <1>2, <1>3, BasicsHold, PTL DEF Spec

(* However the commands before it overlapped, a command that ran alone has *)
(* put player, amplifier and record right, for any files and names.        *)
THEOREM LoneCommandIsDecisive == Spec => []LoneCommandDecides
PROOF
<1>1. Init => LoneDone
  BY DEF Init, LoneDone, Thread, Nobody
<1>2. Basics /\ LoneDone /\ [Next]_vars => LoneDone'
  BY DoneStep DEF Basics
<1>3. WriteEnableOwned /\ LoneDone => LoneCommandDecides
  BY DEF LoneDone, StopDone, StartDone, ChoiceDone, WriteEnableOwned, LoneCommandDecides,
     Idle, Sending
<1> QED
  BY <1>1, <1>2, <1>3, BasicsHold, WriteEnableIsOwned, PTL DEF Spec

(* The inductive invariant, for files of whole packets. *)
THEOREM PlayIsInvariant == Aligned => (Spec => []PlayInv)
PROOF
<1> SUFFICES ASSUME Aligned PROVE Spec => []PlayInv
  OBVIOUS
<1>1. Init => PlayInv
  <2>1. Init => Progress
    BY DEF Init, Progress, Thread, Sending
  <2>2. Init => Basics
    BY BasicsAtFirst
  <2> QED
    BY <2>1, <2>2 DEF PlayInv, Basics
<1>2. PlayInv /\ [Next]_vars => PlayInv'
  BY TypeStep, FileStep, LockStep, ProgressStep DEF PlayInv
<1> QED
  BY <1>1, <1>2, PTL DEF Spec

(* usr_net_xdma_play: when files are whole packets, a transfer of which no *)
(* read and no write failed leaves exactly its file in the PL, its length  *)
(* in the length register, however the commands of the other console come  *)
(* in between.  For the TCP console that takes the write enable to be      *)
(* still on at the end, since a serial stop may have taken it away; the    *)
(* serial console's transfers keep theirs.                                 *)
THEOREM TransferIsComplete == Aligned => (Spec => []TransferComplete)
PROOF
<1>1. PlayInv => TransferComplete
  <2> SUFFICES ASSUME PlayInv, NEW t \in Thread, pc[t] = "disable", job[t].ok,
                      t = "net" => write_enable
               PROVE  /\ buffer = [f \in File |-> IF f = file[t] THEN Size[f] ELSE 0]
                      /\ length = Words(Size[file[t]])
    BY DEF TransferComplete
  <2>1. write_enable /\ length = Words(Size[file[t]])
    BY DEF PlayInv, Progress, Sending, Thread
  <2>2. /\ buffer[file[t]] = Size[file[t]]
        /\ \A g \in File \ {file[t]} : buffer[g] = 0
    BY <2>1 DEF PlayInv, Progress, Sending
  <2>3. buffer \in [File -> Nat]
    BY DEF PlayInv, TypeOK
  <2> QED
    BY <2>1, <2>2, <2>3
<1> SUFFICES ASSUME Aligned PROVE Spec => []TransferComplete
  OBVIOUS
<1> QED
  BY <1>1, PlayIsInvariant, PTL
=============================================================================
