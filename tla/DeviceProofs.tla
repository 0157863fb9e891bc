---------------------------- MODULE DeviceProofs ----------------------------
(***************************************************************************)
(* Proofs about SerialPort and about the Device that uses its handles.     *)
(*                                                                         *)
(* SerialPort, for any ports, files and descriptors and for any attributes  *)
(* and rates: the getters agree with the setters, and a handle holds its    *)
(* own port.  Device, for any number of descriptors and of failures: what   *)
(* main does when its calls fail, and when the process is killed and       *)
(* started again at any moment.                                            *)
(***************************************************************************)
EXTENDS Device, TLAPS, FiniteSetTheorems

(***************************************************************************)
(* SerialPort: the settings.  SettingsOf says what GettersAgree does bit   *)
(* by bit, so that each setter disturbs one conjunct.                      *)
(***************************************************************************)
SettingsOf(t, a) ==
  /\ a.databits \in ValidBits /\ t.cflag \cap CSIZE = Cs(a.databits)
  /\ ("PARENB" \in t.cflag <=> a.parity # "none")
  /\ (a.parity # "none" => ("PARODD" \in t.cflag <=> a.parity = "odd"))
  /\ a.stopbits \in ValidStop /\ ("CSTOPB" \in t.cflag <=> a.stopbits = 2)
  /\ (a.xonxoff <=> t.iflag \cap {"IXON", "IXOFF"} # {})
  /\ (a.rtscts <=> "CRTSCTS" \in t.cflag)
  /\ t.speed = B(a.baudrate)

PortInv == PortTypeOK /\ \A p \in Port : Opened(p) => SettingsOf(tty[p], asked[p])

\* Two sizes of a character never have the same bits.
LEMMA SizesDiffer ==
  ASSUME NEW n \in ValidBits, NEW k \in ValidBits, Cs(n) = Cs(k)
  PROVE  n = k
PROOF
<1>1. n \in {5, 6, 7, 8} /\ k \in {5, 6, 7, 8}
  BY DEF ValidBits
<1>2. Cs(5) = {} /\ Cs(6) = {"CS6"} /\ Cs(7) = {"CS7"} /\ Cs(8) = CSIZE
  BY DEF Cs
<1> QED
  BY <1>1, <1>2 DEF CSIZE

\* What SettingsOf says bit by bit is what the getters answer.
LEMMA GettersAnswer ==
  ASSUME NEW t \in Termios, NEW a \in Attrs, SettingsOf(t, a)
  PROVE  SerialToString(t) = a
PROOF
<1>1. GetDatabits(t) = a.databits
  BY SizesDiffer DEF GetDatabits, SettingsOf
<1>2. GetParity(t) = a.parity
  BY DEF GetParity, SettingsOf, Attrs, Parity
<1>3. GetStopbits(t) = a.stopbits
  BY DEF GetStopbits, SettingsOf, ValidStop
<1>4. GetXonxoff(t) = a.xonxoff
  BY DEF GetXonxoff, SettingsOf, Attrs
<1>5. GetRtscts(t) = a.rtscts
  BY DEF GetRtscts, SettingsOf, Attrs
<1>6. GetBaudrate(t) = a.baudrate
  BY DEF GetBaudrate, Baudrate, SettingsOf, B
<1> HIDE DEF Termios
<1> QED
  BY <1>1, <1>2, <1>3, <1>4, <1>5, <1>6 DEF SerialToString, Attrs

\* Every set of bits the code writes consists of bits there are.
LEMMA BitsTyped ==
  /\ \A n \in Nat : Cs(n) \in SUBSET CSIZE
  /\ \A par \in Parity : ParityBits(par) \in SUBSET {"PARENB", "PARODD"}
PROOF
  BY DEF Cs, CSIZE, ParityBits

\* serial_open_advanced writes what it was asked for.
LEMMA OpenSets ==
  ASSUME NEW a \in Attrs, Valid(a)
  PROVE  /\ Settings(a) \in Termios /\ Rated(a) \in Attrs
         /\ SettingsOf(Settings(a), Rated(a))
PROOF
<1> DEFINE r == Rated(a)
           t == Settings(a)
<1>1. /\ r.databits = a.databits /\ r.parity = a.parity /\ r.stopbits = a.stopbits
      /\ r.xonxoff = a.xonxoff /\ r.rtscts = a.rtscts /\ B(r.baudrate) = Bits(a.baudrate, B(0))
      /\ r \in Attrs
  BY DEF Rated, Attrs, Bits, B
<1>2. a.databits \in {5, 6, 7, 8} /\ a.parity \in {"none", "odd", "even"} /\ a.stopbits \in {1, 2}
      /\ a.xonxoff \in BOOLEAN /\ a.rtscts \in BOOLEAN /\ a.baudrate \in Nat
  BY DEF Valid, ValidBits, ValidStop, Attrs, Parity
<1>3. /\ t.cflag = {"CREAD", "CLOCAL"} \cup Cs(a.databits) \cup ParityBits(a.parity)
               \cup When(a.stopbits = 2, {"CSTOPB"}) \cup When(a.rtscts, {"CRTSCTS"})
      /\ t.iflag = {"IGNBRK"} \cup When(a.parity # "none", {"INPCK"})
               \cup When(a.parity # "none" /\ a.databits # 8, {"ISTRIP"})
               \cup When(a.xonxoff, {"IXON", "IXOFF"})
      /\ t.speed = Bits(a.baudrate, B(0))
  BY DEF Settings
<1>4. Cs(a.databits) \in SUBSET CSIZE /\ ParityBits(a.parity) \in SUBSET {"PARENB", "PARODD"}
  BY <1>2 DEF Cs, CSIZE, ParityBits
<1>5. t \in Termios
  <2>1. t.cflag \in SUBSET CFlag
    BY <1>3, <1>4 DEF When, CFlag, CSIZE
  <2>2. t.iflag \in SUBSET IFlag
    BY <1>3 DEF When, IFlag
  <2>3. t.speed \in {"B"} \X Nat
    BY <1>2, <1>3 DEF Bits, B
  <2> QED
    BY <2>1, <2>2, <2>3 DEF Termios, Settings
<1>6. t.cflag \cap CSIZE = Cs(a.databits)
  BY <1>3, <1>4 DEF When, CSIZE
<1>7. /\ ("PARENB" \in t.cflag <=> a.parity # "none")
      /\ (a.parity # "none" => ("PARODD" \in t.cflag <=> a.parity = "odd"))
  BY <1>2, <1>3, <1>4 DEF When, CSIZE, ParityBits
<1>8. ("CSTOPB" \in t.cflag <=> a.stopbits = 2) /\ ("CRTSCTS" \in t.cflag <=> a.rtscts)
  BY <1>2, <1>3, <1>4 DEF When, CSIZE
<1>9. a.xonxoff <=> t.iflag \cap {"IXON", "IXOFF"} # {}
  BY <1>2, <1>3 DEF When
<1> HIDE DEF r, t
<1> QED
  BY <1>1, <1>2, <1>3, <1>5, <1>6, <1>7, <1>8, <1>9
  DEF SettingsOf, ValidBits, ValidStop, r, t

\* serial_set_baudrate
LEMMA SetBaudrateKeeps ==
  ASSUME NEW t \in Termios, NEW a \in Attrs, SettingsOf(t, a), NEW rate \in Nat
  PROVE  LET u == [t EXCEPT !.speed = Bits(rate, @)]
             b == [a EXCEPT !.baudrate = IF rate \in Supported THEN rate ELSE @]
         IN  u \in Termios /\ b \in Attrs /\ SettingsOf(u, b)
PROOF
  BY DEF SettingsOf, Termios, Attrs, Bits, B

\* serial_set_databits
LEMMA SetDatabitsKeeps ==
  ASSUME NEW t \in Termios, NEW a \in Attrs, SettingsOf(t, a), NEW n \in ValidBits
  PROVE  LET u == [t EXCEPT !.cflag = (@ \ CSIZE) \cup Cs(n)]
             b == [a EXCEPT !.databits = n]
         IN  u \in Termios /\ b \in Attrs /\ SettingsOf(u, b)
PROOF
<1> DEFINE u == [t EXCEPT !.cflag = (@ \ CSIZE) \cup Cs(n)]
           b == [a EXCEPT !.databits = n]
<1>1. n \in Nat /\ Cs(n) \in SUBSET CSIZE
  BY BitsTyped DEF ValidBits
<1>2. /\ u.cflag = (t.cflag \ CSIZE) \cup Cs(n) /\ u.iflag = t.iflag /\ u.speed = t.speed
      /\ u \in Termios
  BY <1>1 DEF Termios, CFlag, CSIZE
<1>3. /\ b \in Attrs /\ b.databits = n /\ b.parity = a.parity /\ b.stopbits = a.stopbits
      /\ b.xonxoff = a.xonxoff /\ b.rtscts = a.rtscts /\ b.baudrate = a.baudrate
  BY <1>1 DEF Attrs
<1>4. u.cflag \cap CSIZE = Cs(n)
  BY <1>1, <1>2 DEF CSIZE
<1>5. \A x \in {"PARENB", "PARODD", "CSTOPB", "CRTSCTS"} : x \in u.cflag <=> x \in t.cflag
  BY <1>1, <1>2 DEF CSIZE
<1> HIDE DEF u, b
<1> QED
  BY <1>2, <1>3, <1>4, <1>5 DEF SettingsOf, u, b

\* serial_set_parity
LEMMA SetParityKeepsSettings ==
  ASSUME NEW t \in Termios, NEW a \in Attrs, SettingsOf(t, a), NEW par \in Parity
  PROVE  LET u == [t EXCEPT
                     !.iflag = (@ \ {"INPCK", "ISTRIP"})
                                 \cup When(par # "none", {"INPCK", "ISTRIP"}),
                     !.cflag = (@ \ {"PARENB", "PARODD"}) \cup ParityBits(par)]
             b == [a EXCEPT !.parity = par]
         IN  u \in Termios /\ b \in Attrs /\ SettingsOf(u, b)
PROOF
<1> DEFINE inp == (t.iflag \ {"INPCK", "ISTRIP"})
                    \cup When(par # "none", {"INPCK", "ISTRIP"})
           ctl == (t.cflag \ {"PARENB", "PARODD"}) \cup ParityBits(par)
           u == [t EXCEPT !.iflag = inp, !.cflag = ctl]
           b == [a EXCEPT !.parity = par]
<1>1. /\ t.iflag \in SUBSET IFlag /\ t.cflag \in SUBSET CFlag
      /\ ParityBits(par) \in SUBSET {"PARENB", "PARODD"}
  BY BitsTyped DEF Termios
<1>2. inp \in SUBSET IFlag /\ ctl \in SUBSET CFlag
  BY <1>1 DEF IFlag, CFlag, CSIZE, When
<1>3. inp \cap {"INPCK", "ISTRIP"} # {} => par # "none"
  BY DEF When
<1>4. inp \cap {"IXON", "IXOFF"} # {} <=> t.iflag \cap {"IXON", "IXOFF"} # {}
  BY DEF When
<1>5. /\ "PARENB" \in ctl <=> par # "none"
      /\ par # "none" => ("PARODD" \in ctl <=> par = "odd")
  BY DEF ParityBits, Parity
<1>6. \A x \in CSIZE \cup {"CSTOPB", "CRTSCTS"} : x \in ctl <=> x \in t.cflag
  BY <1>1 DEF CSIZE
<1>7. ctl \cap CSIZE = t.cflag \cap CSIZE
  BY <1>6
<1> HIDE DEF inp, ctl
<1>8. u \in Termios /\ u.iflag = inp /\ u.cflag = ctl /\ u.speed = t.speed
  BY <1>2 DEF Termios
<1>9. /\ b \in Attrs /\ b.databits = a.databits /\ b.parity = par /\ b.stopbits = a.stopbits
      /\ b.xonxoff = a.xonxoff /\ b.rtscts = a.rtscts /\ b.baudrate = a.baudrate
  BY DEF Attrs
<1> HIDE DEF u, b
<1>10. SettingsOf(u, b)
  BY <1>3, <1>4, <1>5, <1>6, <1>7, <1>8, <1>9 DEF SettingsOf
<1> QED
  BY <1>8, <1>9, <1>10 DEF u, b, inp, ctl

\* serial_set_stopbits and serial_set_rtscts, which change one bit.
LEMMA SetStopbitsKeeps ==
  ASSUME NEW t \in Termios, NEW a \in Attrs, SettingsOf(t, a), NEW n \in ValidStop
  PROVE  LET u == [t EXCEPT !.cflag = (@ \ {"CSTOPB"}) \cup When(n = 2, {"CSTOPB"})]
             b == [a EXCEPT !.stopbits = n]
         IN  u \in Termios /\ b \in Attrs /\ SettingsOf(u, b)
PROOF
<1> DEFINE ctl == (t.cflag \ {"CSTOPB"}) \cup When(n = 2, {"CSTOPB"})
           u == [t EXCEPT !.cflag = ctl]
           b == [a EXCEPT !.stopbits = n]
<1>1. ctl \in SUBSET CFlag
  BY DEF Termios, CFlag, When
<1>2. "CSTOPB" \in ctl <=> n = 2
  BY DEF When
<1>3. \A x \in CSIZE \cup {"PARENB", "PARODD", "CRTSCTS"} : x \in ctl <=> x \in t.cflag
  BY DEF CSIZE, When
<1>4. ctl \cap CSIZE = t.cflag \cap CSIZE
  BY <1>3
<1> HIDE DEF ctl
<1>5. u \in Termios /\ u.iflag = t.iflag /\ u.cflag = ctl /\ u.speed = t.speed
  BY <1>1 DEF Termios
<1>6. /\ b \in Attrs /\ b.databits = a.databits /\ b.parity = a.parity /\ b.stopbits = n
      /\ b.xonxoff = a.xonxoff /\ b.rtscts = a.rtscts /\ b.baudrate = a.baudrate
  BY DEF Attrs, ValidStop
<1> HIDE DEF u, b
<1>7. SettingsOf(u, b)
  BY <1>2, <1>3, <1>4, <1>5, <1>6 DEF SettingsOf
<1> QED
  BY <1>5, <1>6, <1>7 DEF u, b, ctl

LEMMA SetRtsctsKeeps ==
  ASSUME NEW t \in Termios, NEW a \in Attrs, SettingsOf(t, a), NEW on \in BOOLEAN
  PROVE  LET u == [t EXCEPT !.cflag = (@ \ {"CRTSCTS"}) \cup When(on, {"CRTSCTS"})]
             b == [a EXCEPT !.rtscts = on]
         IN  u \in Termios /\ b \in Attrs /\ SettingsOf(u, b)
PROOF
<1> DEFINE ctl == (t.cflag \ {"CRTSCTS"}) \cup When(on, {"CRTSCTS"})
           u == [t EXCEPT !.cflag = ctl]
           b == [a EXCEPT !.rtscts = on]
<1>1. ctl \in SUBSET CFlag
  BY DEF Termios, CFlag, When
<1>2. "CRTSCTS" \in ctl <=> on
  BY DEF When
<1>3. \A x \in CSIZE \cup {"PARENB", "PARODD", "CSTOPB"} : x \in ctl <=> x \in t.cflag
  BY DEF CSIZE, When
<1>4. ctl \cap CSIZE = t.cflag \cap CSIZE
  BY <1>3
<1> HIDE DEF ctl
<1>5. u \in Termios /\ u.iflag = t.iflag /\ u.cflag = ctl /\ u.speed = t.speed
  BY <1>1 DEF Termios
<1>6. /\ b \in Attrs /\ b.databits = a.databits /\ b.parity = a.parity
      /\ b.stopbits = a.stopbits /\ b.xonxoff = a.xonxoff /\ (b.rtscts <=> on)
      /\ b.baudrate = a.baudrate
  BY DEF Attrs
<1> HIDE DEF u, b
<1>7. SettingsOf(u, b)
  BY <1>2, <1>3, <1>4, <1>5, <1>6 DEF SettingsOf
<1> QED
  BY <1>5, <1>6, <1>7 DEF u, b, ctl

\* serial_set_xonxoff
LEMMA SetXonxoffKeeps ==
  ASSUME NEW t \in Termios, NEW a \in Attrs, SettingsOf(t, a), NEW on \in BOOLEAN
  PROVE  LET u == [t EXCEPT !.iflag = (@ \ {"IXON", "IXOFF"})
                                        \cup When(on, {"IXON", "IXOFF"})]
             b == [a EXCEPT !.xonxoff = on]
         IN  u \in Termios /\ b \in Attrs /\ SettingsOf(u, b)
PROOF
<1> DEFINE inp == (t.iflag \ {"IXON", "IXOFF"}) \cup When(on, {"IXON", "IXOFF"})
           u == [t EXCEPT !.iflag = inp]
           b == [a EXCEPT !.xonxoff = on]
<1>1. inp \in SUBSET IFlag
  BY DEF Termios, IFlag, When
<1>2. inp \cap {"IXON", "IXOFF"} # {} <=> on
  BY DEF When
<1>3. inp \cap {"INPCK", "ISTRIP"} # {} => t.iflag \cap {"INPCK", "ISTRIP"} # {}
  BY DEF When
<1> HIDE DEF inp
<1>4. u \in Termios /\ u.iflag = inp /\ u.cflag = t.cflag /\ u.speed = t.speed
  BY <1>1 DEF Termios
<1>5. /\ b \in Attrs /\ b.databits = a.databits /\ b.parity = a.parity
      /\ b.stopbits = a.stopbits /\ (b.xonxoff <=> on) /\ b.rtscts = a.rtscts
      /\ b.baudrate = a.baudrate
  BY DEF Attrs
<1> HIDE DEF u, b
<1>6. SettingsOf(u, b)
  BY <1>2, <1>3, <1>4, <1>5 DEF SettingsOf
<1> QED
  BY <1>4, <1>5, <1>6 DEF u, b, inp

(***************************************************************************)
(* The steps.                                                              *)
(***************************************************************************)
LEMMA NoFdNotFd ==
  NoFd \notin Fd
PROOF
  BY PortAssumption DEF NoFd

\* The port a call reaches is one that is open.
LEMMA TargetOpened ==
  ASSUME PortTypeOK, NEW p \in Port, Target(p) \in Port
  PROVE  fd[p] \in Fd /\ Target(p) = fdt[fd[p]] /\ Opened(Target(p))
PROOF
  BY PortAssumption DEF PortTypeOK, Target, Opened

\* What a change of a port's settings does to the invariant, whichever it is.
LEMMA ChangeKeeps ==
  ASSUME PortInv, NEW p \in Port, Target(p) \in Port,
         NEW u \in Termios, NEW b \in Attrs, SettingsOf(u, b), Change(p, u, b)
  PROVE  PortInv'
PROOF
<1> DEFINE q == Target(p)
<1>1. /\ tty' = [tty EXCEPT ![q] = u] /\ asked' = [asked EXCEPT ![q] = b]
      /\ UNCHANGED <<fd, fdt, stale>>
  BY DEF Change
<1> HIDE DEF q
<1>2. PortTypeOK'
  BY <1>1 DEF PortInv, PortTypeOK
<1>3. ASSUME NEW r \in Port, Opened(r)'
      PROVE  SettingsOf(tty'[r], asked'[r])
  <2>1. Opened(r)
    BY <1>1, <1>3 DEF Opened
  <2>2. CASE r = q
    BY <1>1, <2>2 DEF PortInv, PortTypeOK
  <2>3. CASE r # q
    <3>1. tty'[r] = tty[r] /\ asked'[r] = asked[r]
      BY <1>1, <2>3 DEF PortInv, PortTypeOK
    <3> QED
      BY <2>1, <3>1 DEF PortInv
  <2> QED
    BY <2>2, <2>3
<1>4. \A r \in Port : Opened(r)' => SettingsOf(tty'[r], asked'[r])
  BY <1>3
<1> QED
  BY <1>2, <1>4 DEF PortInv

LEMMA SetsKeeps ==
  ASSUME PortInv, NEW p \in Port, Sets(p)
  PROVE  PortInv'
PROOF
<1> DEFINE q == Target(p)
<1>1. q \in Port
  BY DEF Sets, SetBaudrate, SetDatabits, SetParity, SetStopbits, SetXonxoff, SetRtscts
<1>2. tty[q] \in Termios /\ asked[q] \in Attrs /\ SettingsOf(tty[q], asked[q])
  BY <1>1, TargetOpened DEF PortInv, PortTypeOK
<1>3. CASE SetBaudrate(p)
  <2>1. PICK rate \in Rate :
          Change(p, [tty[q] EXCEPT !.speed = Bits(rate, @)],
                    [asked[q] EXCEPT !.baudrate = IF rate \in Supported THEN rate ELSE @])
    BY <1>3 DEF SetBaudrate
  <2> DEFINE u == [tty[q] EXCEPT !.speed = Bits(rate, @)]
             b == [asked[q] EXCEPT !.baudrate = IF rate \in Supported THEN rate ELSE @]
  <2>2. rate \in Nat
    BY PortAssumption
  <2>3. u \in Termios /\ b \in Attrs /\ SettingsOf(u, b)
    BY <1>2, <2>2, SetBaudrateKeeps
  <2> HIDE DEF u, b
  <2>4. Change(p, u, b)
    BY <2>1 DEF u, b
  <2> QED
    BY <1>1, <2>3, <2>4, ChangeKeeps
<1>4. CASE SetDatabits(p)
  <2>1. PICK n \in ValidBits :
          Change(p, [tty[q] EXCEPT !.cflag = (@ \ CSIZE) \cup Cs(n)],
                    [asked[q] EXCEPT !.databits = n])
    BY <1>4 DEF SetDatabits
  <2> QED
    BY <1>1, <1>2, <2>1, SetDatabitsKeeps, ChangeKeeps
<1>5. CASE SetParity(p)
  <2>1. PICK par \in Parity :
          Change(p, [tty[q] EXCEPT
                       !.iflag = (@ \ {"INPCK", "ISTRIP"})
                                   \cup When(par # "none", {"INPCK", "ISTRIP"}),
                       !.cflag = (@ \ {"PARENB", "PARODD"}) \cup ParityBits(par)],
                    [asked[q] EXCEPT !.parity = par])
    BY <1>5 DEF SetParity
  <2> DEFINE u == [tty[q] EXCEPT
                     !.iflag = (@ \ {"INPCK", "ISTRIP"})
                                 \cup When(par # "none", {"INPCK", "ISTRIP"}),
                     !.cflag = (@ \ {"PARENB", "PARODD"}) \cup ParityBits(par)]
             b == [asked[q] EXCEPT !.parity = par]
  <2>2. u \in Termios /\ b \in Attrs /\ SettingsOf(u, b)
    BY <1>2, SetParityKeepsSettings
  <2> HIDE DEF u, b
  <2>3. Change(p, u, b)
    BY <2>1 DEF u, b
  <2> QED
    BY <1>1, <2>2, <2>3, ChangeKeeps
<1>6. CASE SetStopbits(p)
  <2>1. PICK n \in ValidStop :
          Change(p, [tty[q] EXCEPT !.cflag = (@ \ {"CSTOPB"}) \cup When(n = 2, {"CSTOPB"})],
                    [asked[q] EXCEPT !.stopbits = n])
    BY <1>6 DEF SetStopbits
  <2> QED
    BY <1>1, <1>2, <2>1, SetStopbitsKeeps, ChangeKeeps
<1>7. CASE SetXonxoff(p)
  <2>1. PICK on \in BOOLEAN :
          Change(p, [tty[q] EXCEPT !.iflag = (@ \ {"IXON", "IXOFF"})
                                               \cup When(on, {"IXON", "IXOFF"})],
                    [asked[q] EXCEPT !.xonxoff = on])
    BY <1>7 DEF SetXonxoff
  <2> QED
    BY <1>1, <1>2, <2>1, SetXonxoffKeeps, ChangeKeeps
<1>8. CASE SetRtscts(p)
  <2>1. PICK on \in BOOLEAN :
          Change(p, [tty[q] EXCEPT !.cflag = (@ \ {"CRTSCTS"}) \cup When(on, {"CRTSCTS"})],
                    [asked[q] EXCEPT !.rtscts = on])
    BY <1>8 DEF SetRtscts
  <2> QED
    BY <1>1, <1>2, <2>1, SetRtsctsKeeps, ChangeKeeps
<1> QED
  BY <1>3, <1>4, <1>5, <1>6, <1>7, <1>8 DEF Sets

\* serial_open_advanced on a port: the new number and the settings.
LEMMA OpenKeeps ==
  ASSUME PortInv, NEW p \in Port, NEW a \in Attrs, Open(p, a)
  PROVE  PortInv'
PROOF
<1>1. PICK f \in Fd : fd' = [fd EXCEPT ![p] = f] /\ fdt' = [fdt EXCEPT ![f] = p]
  BY DEF Open
<1>2. /\ tty' = [tty EXCEPT ![p] = Settings(a)] /\ asked' = [asked EXCEPT ![p] = Rated(a)]
      /\ stale' = stale /\ Valid(a)
  BY DEF Open
<1>3. /\ Settings(a) \in Termios /\ Rated(a) \in Attrs
      /\ SettingsOf(Settings(a), Rated(a))
  BY <1>2, OpenSets
<1>4. PortTypeOK'
  BY <1>1, <1>2, <1>3 DEF PortInv, PortTypeOK
<1>5. ASSUME NEW r \in Port, Opened(r)'
      PROVE  SettingsOf(tty'[r], asked'[r])
  <2>1. CASE r = p
    BY <1>2, <1>3, <2>1 DEF PortInv, PortTypeOK
  <2>2. CASE r # p
    <3>1. Opened(r)
      BY <1>1, <1>5, <2>2 DEF Opened, PortInv, PortTypeOK
    <3>2. tty'[r] = tty[r] /\ asked'[r] = asked[r]
      BY <1>2, <2>2 DEF PortInv, PortTypeOK
    <3> QED
      BY <3>1, <3>2 DEF PortInv
  <2> QED
    BY <2>1, <2>2
<1>6. \A r \in Port : Opened(r)' => SettingsOf(tty'[r], asked'[r])
  BY <1>5
<1> QED
  BY <1>4, <1>6 DEF PortInv

\* A step that leaves the settings alone and opens no port.
LEMMA NoPortOpened ==
  ASSUME PortInv, PortTypeOK', UNCHANGED <<tty, asked>>,
         \A f \in Fd : fdt'[f] \in Port => fdt'[f] = fdt[f]
  PROVE  PortInv'
PROOF
<1>1. \A r \in Port : Opened(r)' => Opened(r)
  BY DEF Opened
<1> QED
  BY <1>1 DEF PortInv

LEMMA OpenFailsKeeps ==
  ASSUME PortInv, NEW p \in Port, NEW a, OpenFails(p, a)
  PROVE  PortInv'
PROOF
<1>1. /\ fd' = [fd EXCEPT ![p] = NoFd] /\ UNCHANGED <<fdt, tty, stale, asked>>
  BY DEF OpenFails
<1>2. PortTypeOK'
  BY <1>1 DEF PortInv, PortTypeOK
<1> QED
  BY <1>1, <1>2, NoPortOpened

LEMMA OpenUnsetKeeps ==
  ASSUME PortInv, NEW p \in Port, NEW a, OpenUnset(p, a)
  PROVE  PortInv'
PROOF
<1>1. PICK f \in Fd : fd' = [fd EXCEPT ![p] = f]
  BY DEF OpenUnset
<1>2. stale' = stale \cup {p} /\ UNCHANGED <<fdt, tty, asked>>
  BY DEF OpenUnset
<1>3. PortTypeOK'
  BY <1>1, <1>2 DEF PortInv, PortTypeOK
<1> QED
  BY <1>2, <1>3, NoPortOpened

LEMMA PortInvInitially ==
  PortInit => PortInv
PROOF
<1> SUFFICES ASSUME PortInit PROVE PortInv
  OBVIOUS
<1>1. /\ fd = [p \in Port |-> NoFd] /\ fdt = [f \in Fd |-> IF f = 0 THEN Console ELSE NoFile]
      /\ tty = [p \in Port |-> DriverTermios] /\ stale = {}
      /\ asked = [p \in Port |-> NotAsked]
  BY DEF PortInit
<1>2. DriverTermios \in Termios
  BY DEF DriverTermios, Termios, CFlag, CSIZE, IFlag, B
<1>3. NotAsked \in Attrs
  BY DEF NotAsked, Attrs, Parity
<1>4. PortTypeOK
  BY <1>1, <1>2, <1>3, PortAssumption DEF PortTypeOK
<1>5. \A p \in Port : ~Opened(p)
  BY <1>1, PortAssumption DEF Opened
<1> QED
  BY <1>4, <1>5 DEF PortInv

LEMMA PortInvSteps ==
  PortInv /\ [PortNext]_portVars => PortInv'
PROOF
<1> SUFFICES ASSUME PortInv, [PortNext]_portVars PROVE PortInv'
  OBVIOUS
<1>1. ASSUME NEW p \in Client, NEW a \in Asks, Open(p, a)
      PROVE  PortInv'
  BY <1>1, OpenKeeps, PortAssumption
<1>2. ASSUME NEW p \in Client, NEW a \in Asks, OpenFails(p, a)
      PROVE  PortInv'
  BY <1>2, OpenFailsKeeps, PortAssumption
<1>3. ASSUME NEW p \in Client, NEW a \in Asks, OpenUnset(p, a)
      PROVE  PortInv'
  BY <1>3, OpenUnsetKeeps, PortAssumption
<1>4. ASSUME NEW p \in Client, Close(p)
      PROVE  PortInv'
  <2>1. /\ fdt' = [fdt EXCEPT ![fd[p]] = NoFile] /\ fd' = [fd EXCEPT ![p] = NoFd]
        /\ UNCHANGED <<tty, stale, asked>>
    BY <1>4 DEF Close
  <2>2. PortTypeOK'
    BY <2>1 DEF PortInv, PortTypeOK
  <2>3. \A f \in Fd : fdt'[f] \in Port => fdt'[f] = fdt[f]
    BY <2>1, PortAssumption DEF PortInv, PortTypeOK
  <2> QED
    BY <2>1, <2>2, <2>3, NoPortOpened
<1>5. ASSUME NEW p \in Client, Sets(p)
      PROVE  PortInv'
  BY <1>5, SetsKeeps, PortAssumption
<1>6. CASE OtherOpens
  <2>1. PICK f \in Fd, x \in Passing : fdt' = [fdt EXCEPT ![f] = x]
    BY <1>6 DEF OtherOpens
  <2>2. UNCHANGED <<fd, tty, stale, asked>>
    BY <1>6 DEF OtherOpens
  <2>3. PortTypeOK'
    BY <2>1, <2>2, PortAssumption DEF PortInv, PortTypeOK
  <2>4. \A g \in Fd : fdt'[g] \in Port => fdt'[g] = fdt[g]
    BY <2>1, PortAssumption DEF PortInv, PortTypeOK
  <2> QED
    BY <2>2, <2>3, <2>4, NoPortOpened
<1>7. CASE OtherCloses
  <2>1. PICK f \in Fd : fdt' = [fdt EXCEPT ![f] = NoFile]
    BY <1>7 DEF OtherCloses
  <2>2. UNCHANGED <<fd, tty, stale, asked>>
    BY <1>7 DEF OtherCloses
  <2>3. PortTypeOK'
    BY <2>1, <2>2 DEF PortInv, PortTypeOK
  <2>4. \A g \in Fd : fdt'[g] \in Port => fdt'[g] = fdt[g]
    BY <2>1, PortAssumption DEF PortInv, PortTypeOK
  <2> QED
    BY <2>2, <2>3, <2>4, NoPortOpened
<1>8. CASE UNCHANGED portVars
  <2>1. UNCHANGED <<fd, fdt, tty, stale, asked>>
    BY <1>8 DEF portVars
  <2>2. PortTypeOK'
    BY <2>1 DEF PortInv, PortTypeOK
  <2> QED
    BY <2>1, <2>2, NoPortOpened
<1> QED
  BY <1>1, <1>2, <1>3, <1>4, <1>5, <1>6, <1>7, <1>8 DEF PortNext

\* serial_open_advanced gives a handle the lowest unused number, which is in no
\* other handle.
LEMMA OpenKeepsOwn ==
  ASSUME PortTypeOK, OwnPort, NEW p \in Port, NEW a,
         Open(p, a) \/ OpenFails(p, a) \/ OpenUnset(p, a)
  PROVE  OwnPort'
PROOF
<1> SUFFICES ASSUME stale' = {}, NEW q \in Port, fd'[q] # NoFd
             PROVE  fdt'[fd'[q]] = q
  BY DEF OwnPort
<1>1. \A r \in Port : stale = {} /\ fd[r] # NoFd => fd[r] \in Fd /\ fdt[fd[r]] = r
  BY DEF OwnPort, PortTypeOK
<1>2. CASE Open(p, a)
  <2>1. PICK f \in Fd : /\ fdt[f] = NoFile /\ fd' = [fd EXCEPT ![p] = f]
                        /\ fdt' = [fdt EXCEPT ![f] = p]
    BY <1>2 DEF Open, LowestUnused
  <2>2. stale = {}
    BY <1>2 DEF Open
  <2>3. CASE q = p
    BY <2>1, <2>3 DEF PortTypeOK
  <2>4. CASE q # p
    <3>1. fd'[q] = fd[q]
      BY <2>1, <2>4 DEF PortTypeOK
    <3>2. fd[q] \in Fd /\ fdt[fd[q]] = q
      BY <1>1, <2>2, <3>1
    <3>3. fd[q] # f
      BY <2>1, <3>2, PortAssumption
    <3> QED
      BY <2>1, <3>1, <3>2, <3>3 DEF PortTypeOK
  <2> QED
    BY <2>3, <2>4
<1>3. CASE OpenFails(p, a)
  <2>1. fd' = [fd EXCEPT ![p] = NoFd] /\ UNCHANGED <<fdt, stale>>
    BY <1>3 DEF OpenFails
  <2>2. fd'[q] = fd[q]
    BY <2>1 DEF PortTypeOK
  <2> QED
    BY <1>1, <2>1, <2>2
<1>4. CASE OpenUnset(p, a)
  BY <1>4 DEF OpenUnset
<1> QED
  BY <1>2, <1>3, <1>4

\* A step that leaves the handles alone and takes no number of a port.
LEMMA OthersKeepOwn ==
  ASSUME PortTypeOK, OwnPort, UNCHANGED <<fd, stale>>,
         \A f \in Fd : fdt[f] \in Port => fdt'[f] = fdt[f]
  PROVE  OwnPort'
PROOF
  BY DEF OwnPort, PortTypeOK

(***************************************************************************)
(* The theorems.                                                           *)
(***************************************************************************)
\* The handles, the descriptors and the settings have their types, and each open
\* tty has the bits of what was asked for.
THEOREM PortIsInvariant ==
  PortSpec => []PortInv
PROOF
  BY PortInvInitially, PortInvSteps, PTL DEF PortSpec

\* No setter of serial.c disturbs what another set: the getters read back what
\* was asked for last, for any sequence of calls on any ports.
THEOREM GettersAgreeWithSetters ==
  PortSpec => []GettersAgree
PROOF
<1>1. PortInv => GettersAgree
  BY GettersAnswer DEF PortInv, PortTypeOK, GettersAgree, SettingsOf
<1> QED
  BY <1>1, PortIsInvariant, PTL

\* While no call of serial_open_advanced has failed behind its open, no handle
\* refers to another's file, whatever the other threads open and close.
THEOREM HandleIsOwn ==
  PortSpec => []OwnPort
PROOF
<1>1. PortInit => OwnPort
  BY DEF PortInit, OwnPort
<1>2. ASSUME PortInv, OwnPort, [PortNext]_portVars
      PROVE  OwnPort'
  <2>1. PortTypeOK /\ NoFile \notin Port
    BY <1>2, PortAssumption DEF PortInv
  <2>2. ASSUME NEW p \in Client, NEW a \in Asks,
               Open(p, a) \/ OpenFails(p, a) \/ OpenUnset(p, a)
        PROVE  OwnPort'
    BY <1>2, <2>1, <2>2, OpenKeepsOwn, PortAssumption
  <2>3. ASSUME NEW p \in Client, Close(p)
        PROVE  OwnPort'
    <3> SUFFICES ASSUME stale' = {}, NEW q \in Port, fd'[q] # NoFd
                 PROVE  fdt'[fd'[q]] = q
      BY DEF OwnPort
    <3>1. /\ fd[p] # NoFd /\ fdt' = [fdt EXCEPT ![fd[p]] = NoFile]
          /\ fd' = [fd EXCEPT ![p] = NoFd] /\ stale = {} /\ p \in Port
      BY <2>3, PortAssumption DEF Close
    <3>2. q # p /\ fd'[q] = fd[q]
      BY <2>1, <3>1 DEF PortTypeOK
    <3>3. fd[q] # fd[p] /\ fd[q] \in Fd /\ fdt[fd[q]] = q
      BY <1>2, <2>1, <3>1, <3>2 DEF OwnPort, PortTypeOK
    <3> QED
      BY <2>1, <3>1, <3>2, <3>3 DEF PortTypeOK
  <2>4. ASSUME NEW p \in Client, Sets(p)
        PROVE  OwnPort'
    <3>1. UNCHANGED <<fd, fdt, stale>>
      BY <2>4 DEF Sets, SetBaudrate, SetDatabits, SetParity, SetStopbits, SetXonxoff,
                  SetRtscts, Change
    <3> QED
      BY <1>2, <2>1, <3>1, OthersKeepOwn
  <2>5. CASE OtherOpens
    <3>1. PICK f \in Fd, x \in Passing : fdt[f] = NoFile /\ fdt' = [fdt EXCEPT ![f] = x]
      BY <2>5 DEF OtherOpens, LowestUnused
    <3>2. UNCHANGED <<fd, stale>>
      BY <2>5 DEF OtherOpens
    <3>3. \A g \in Fd : fdt[g] \in Port => fdt'[g] = fdt[g]
      BY <2>1, <3>1 DEF PortTypeOK
    <3> QED
      BY <1>2, <2>1, <3>2, <3>3, OthersKeepOwn
  <2>6. CASE OtherCloses
    <3>1. PICK f \in Fd : fdt[f] \in Passing /\ fdt' = [fdt EXCEPT ![f] = NoFile]
      BY <2>6 DEF OtherCloses
    <3>2. UNCHANGED <<fd, stale>>
      BY <2>6 DEF OtherCloses
    <3>3. \A g \in Fd : fdt[g] \in Port => fdt'[g] = fdt[g]
      BY <2>1, <3>1, PortAssumption DEF PortTypeOK
    <3> QED
      BY <1>2, <2>1, <3>2, <3>3, OthersKeepOwn
  <2>7. CASE UNCHANGED portVars
    BY <1>2, <2>1, <2>7, OthersKeepOwn DEF portVars
  <2> QED
    BY <1>2, <2>2, <2>3, <2>4, <2>5, <2>6, <2>7 DEF PortNext
<1> QED
  BY <1>1, <1>2, PortIsInvariant, PTL DEF PortSpec

(***************************************************************************)
(* Device: the inductive invariant.  MainOrder ties what main has done to  *)
(* where it is: a thread runs from its creation on and is never joined.    *)
(***************************************************************************)
LifeTyped ==
  /\ fdt \in [Fd -> Port \cup File \cup {NoFile}]
  /\ mpc \in 1 .. 17
  /\ mem \in MaybeFd /\ sock \in MaybeFd /\ dma \in MaybeFd /\ i2c \in MaybeFd
  /\ base \in {"null", "failed", "mapped"}
  /\ regs \in Regs /\ running \in SUBSET Threads
  /\ ipc \in {"idle", "write", "read", "close"}
  /\ commanded \in BOOLEAN /\ freed \in BOOLEAN /\ alive \in BOOLEAN
  /\ lost \in Nat /\ failed \in 0 .. Failures

MainOrder ==
  /\ (mpc = 1 => mem = NoFd) /\ (mpc <= 2 => sock = NoFd) /\ (mpc <= 3 => dma = NoFd)
  /\ "host" \in running => mpc \in 9 .. 13
  /\ "rcv" \in running => mpc \in 10 .. 15
  /\ "pa" \in running => mpc \in 11 .. 14
  /\ "server" \in running => mpc = 12
  /\ freed => mpc = 17

Mapping == /\ base # "null" <=> mem # NoFd
           /\ base = "failed" => mpc <= 6

Stopped == base = "mapped" => /\ mpc = 7 => ~regs.clr /\ regs.reset
                              /\ mpc >= 8 /\ ~commanded => regs = Quiet

I2cOwned == (ipc = "idle" <=> i2c = NoFd) /\ (ipc # "idle" => running # {})

OwnFiles ==
  ~freed => /\ mem # NoFd => fdt[mem] = "mem"
            /\ sock # NoFd => fdt[sock] = "sock"
            /\ dma # NoFd => fdt[dma] = "dma"
            /\ i2c # NoFd => fdt[i2c] = "i2c"

Counted == IsFiniteSet(Orphans) /\ Cardinality(Orphans) = lost

LifeInv == LifeTyped /\ MainOrder /\ Mapping /\ Stopped
DescInv == I2cOwned /\ OwnFiles /\ Counted

(***************************************************************************)
(* main's steps and the number of each.                                    *)
(***************************************************************************)
LEMMA ProgramIs ==
  /\ Len(Program) = 16
  /\ Program[1] = <<"open", "mem">> /\ Program[2] = <<"open", "sock">>
  /\ Program[3] = <<"open", "dma">>
  /\ Program[4] = <<"serial", "host">> /\ Program[5] = <<"serial", "pa">>
  /\ Program[6] = <<"reset", "begin">> /\ Program[7] = <<"reset", "end">>
  /\ Program[8] = <<"create", "host">> /\ Program[9] = <<"create", "rcv">>
  /\ Program[10] = <<"create", "pa">> /\ Program[11] = <<"create", "server">>
  /\ Program[12] = <<"join", "server">> /\ Program[13] = <<"join", "host">>
  /\ Program[14] = <<"join", "pa">> /\ Program[15] = <<"join", "rcv">>
  /\ Program[16] = <<"free", "all">>
PROOF
  BY DEF Program, Starts

LEMMA WhereMainIs ==
  ASSUME LifeTyped
  PROVE  /\ At("open", "mem") => mpc = 1
         /\ At("open", "sock") => mpc = 2
         /\ At("open", "dma") => mpc = 3
         /\ \A p \in Port : At("serial", p) => mpc \in {4, 5}
         /\ At("reset", "begin") => mpc = 6
         /\ At("reset", "end") => mpc = 7
         /\ At("create", "host") => mpc = 8
         /\ At("create", "rcv") => mpc = 9
         /\ At("create", "pa") => mpc = 10
         /\ At("create", "server") => mpc = 11
         /\ At("join", "server") => mpc = 12
         /\ At("join", "host") => mpc = 13
         /\ At("join", "pa") => mpc = 14
         /\ At("join", "rcv") => mpc = 15
         /\ At("free", "all") => mpc = 16
PROOF
<1>1. mpc \in {1, 2, 3, 4, 5, 6, 7, 8, 9, 10, 11, 12, 13, 14, 15, 16, 17}
  BY DEF LifeTyped
<1>2. mpc # 17 \/ ~(mpc <= Len(Program))
  BY ProgramIs
<1> QED
  BY <1>1, <1>2, ProgramIs, SMTT(30) DEF At

\* The registers stay registers, and usr_dma_error_set stops the player if they
\* are mapped: its first half sets the reset bit and takes back the clear bit, its
\* second the rest.
LEMMA RegistersTyped ==
  ASSUME NEW r \in Regs, NEW play \in {0, 2}, NEW on \in BOOLEAN
  PROVE  /\ CtrlCfg(r) \in Regs /\ SetEnable(SetPlay(r, play), on) \in Regs
         /\ \A clr \in BOOLEAN : BramWrite(r, "clr", clr) \in Regs
PROOF
  BY DEF CtrlCfg, SetEnable, SetPlay, BramWrite, Regs

LEMMA ResetStops ==
  ASSUME NEW r \in Regs, Checked
  PROVE  /\ SetEnable(SetPlay(CtrlCfg(r), 2), TRUE).clr = FALSE
         /\ SetEnable(SetPlay(CtrlCfg(r), 2), TRUE).reset = TRUE
         /\ r.clr = FALSE /\ r.reset = TRUE => SetEnable(SetPlay(r, 0), FALSE) = Quiet
PROOF
<1>1. /\ SetEnable(SetPlay(CtrlCfg(r), 2), TRUE).clr = FALSE
      /\ SetEnable(SetPlay(CtrlCfg(r), 2), TRUE).reset = TRUE
  BY DEF CtrlCfg, SetEnable, SetPlay, BramWrite, Regs
<1>2. ASSUME r.clr = FALSE, r.reset = TRUE
      PROVE  SetEnable(SetPlay(r, 0), FALSE) = Quiet
  <2>1. SetEnable(SetPlay(r, 0), FALSE) = [[r EXCEPT !.play = 0] EXCEPT !.wen = FALSE]
    BY DEF SetEnable, SetPlay, BramWrite
  <2> QED
    BY <1>2, <2>1 DEF Regs, Quiet
<1> QED
  BY <1>1, <1>2

LEMMA LifeInitially ==
  DeviceInit => LifeInv /\ DescInv
PROOF
<1> SUFFICES ASSUME DeviceInit PROVE LifeInv /\ DescInv
  OBVIOUS
<1>1. /\ mpc = 1 /\ mem = NoFd /\ base = "null" /\ sock = NoFd /\ dma = NoFd
      /\ running = {} /\ commanded = FALSE /\ ipc = "idle" /\ i2c = NoFd
      /\ freed = FALSE /\ lost = 0 /\ failed = 0 /\ alive = TRUE /\ regs \in Regs
      /\ fdt = [f \in Fd |-> IF f = 0 THEN Console ELSE NoFile]
  BY DEF DeviceInit, Fresh, PortInit
<1>2. LifeTyped
  <2>1. fdt \in [Fd -> Port \cup File \cup {NoFile}]
    BY <1>1, PortAssumption
  <2>2. 0 \in 0 .. Failures /\ 1 \in 1 .. 17
    BY DeviceAssumption
  <2>3. alive \in BOOLEAN /\ freed \in BOOLEAN /\ commanded \in BOOLEAN
    BY <1>1
  <2> QED
    BY <1>1, <2>1, <2>2, <2>3 DEF LifeTyped, MaybeFd
<1>3. MainOrder /\ Mapping /\ Stopped /\ I2cOwned /\ OwnFiles
  BY <1>1 DEF MainOrder, Mapping, Stopped, I2cOwned, OwnFiles
<1>4. Orphans = {}
  BY <1>1, PortAssumption, DeviceAssumption DEF Orphans
<1>5. Counted
  BY <1>1, <1>4, FS_EmptySet DEF Counted
<1> QED
  BY <1>2, <1>3, <1>5 DEF LifeInv, DescInv

(***************************************************************************)
(* main's steps keep LifeInv.                                              *)
(***************************************************************************)
LEMMA OpensKeepLife ==
  ASSUME LifeInv, OpenMem \/ OpenSocket \/ OpenDma
  PROVE  LifeInv'
PROOF
<1>0. LifeTyped /\ MainOrder /\ Mapping /\ Stopped /\ NoFd \notin Fd
  BY NoFdNotFd DEF LifeInv
<1>1. UNCHANGED <<regs, running, commanded, ipc, i2c, freed, alive>> /\ mpc' = mpc + 1
  BY DEF OpenMem, OpenSocket, OpenDma, Rest, threads, Goes
<1>2. \E n \in {1, 2, 3} : mpc = n
  BY <1>0, WhereMainIs DEF OpenMem, OpenSocket, OpenDma
<1>3. failed' \in 0 .. Failures
  BY <1>0, DeviceAssumption DEF OpenMem, OpenSocket, OpenDma, Fails, LifeTyped
<1>4. ASSUME NEW x \in DeviceFiles, NEW f \in Fd, Yields(x, f)
      PROVE  fdt' \in [Fd -> Port \cup File \cup {NoFile}]
  BY <1>0, <1>4, DeviceAssumption DEF Yields, LifeTyped
<1>5. CASE OpenMem
  <2>1. mpc = 1 /\ UNCHANGED <<sock, dma, lost>>
    BY <1>0, <1>5, WhereMainIs DEF OpenMem
  <2>2. /\ fdt' \in [Fd -> Port \cup File \cup {NoFile}] /\ mem' \in MaybeFd
        /\ base' \in {"null", "failed", "mapped"} /\ (base' # "null" <=> mem' # NoFd)
    <3>1. CASE \E f \in Fd : Yields("mem", f) /\ mem' = f
                             /\ (base' = "mapped" \/ base' = "failed")
      BY <1>0, <1>4, <3>1 DEF DeviceFiles, MaybeFd
    <3>2. CASE mem' = NoFd /\ UNCHANGED <<base, fdt>>
      <4>1. base = "null"
        BY <1>0, <2>1 DEF MainOrder, Mapping
      <4> QED
        BY <1>0, <3>2, <4>1 DEF LifeTyped, MaybeFd
    <3> QED
      BY <1>5, <3>1, <3>2 DEF OpenMem
  <2>3. LifeTyped'
    BY <1>0, <1>1, <1>3, <2>1, <2>2 DEF LifeTyped, MaybeFd
  <2>4. MainOrder'
    BY <1>0, <1>1, <2>1 DEF MainOrder, LifeTyped
  <2>5. Mapping' /\ Stopped'
    BY <1>1, <2>1, <2>2 DEF Mapping, Stopped
  <2> QED
    BY <2>3, <2>4, <2>5 DEF LifeInv
<1>6. CASE OpenSocket
  <2>1. mpc = 2 /\ UNCHANGED <<mem, base, dma>>
    BY <1>0, <1>6, WhereMainIs DEF OpenSocket
  <2>2. fdt' \in [Fd -> Port \cup File \cup {NoFile}] /\ sock' \in MaybeFd /\ lost' \in Nat
    BY <1>0, <1>4, <1>6 DEF OpenSocket, DeviceFiles, MaybeFd, LifeTyped
  <2>3. LifeTyped'
    BY <1>0, <1>1, <1>3, <2>1, <2>2 DEF LifeTyped, MaybeFd
  <2>4. MainOrder' /\ Mapping' /\ Stopped'
    BY <1>0, <1>1, <2>1 DEF MainOrder, LifeTyped, Mapping, Stopped
  <2> QED
    BY <2>3, <2>4 DEF LifeInv
<1>7. CASE OpenDma
  <2>1. mpc = 3 /\ UNCHANGED <<mem, base, sock, lost>>
    BY <1>0, <1>7, WhereMainIs DEF OpenDma
  <2>2. fdt' \in [Fd -> Port \cup File \cup {NoFile}] /\ dma' \in MaybeFd
    BY <1>0, <1>4, <1>7 DEF OpenDma, DeviceFiles, MaybeFd, LifeTyped
  <2>3. LifeTyped'
    BY <1>0, <1>1, <1>3, <2>1, <2>2 DEF LifeTyped, MaybeFd
  <2>4. MainOrder' /\ Mapping' /\ Stopped'
    BY <1>0, <1>1, <2>1 DEF MainOrder, LifeTyped, Mapping, Stopped
  <2> QED
    BY <2>3, <2>4 DEF LifeInv
<1> QED
  BY <1>5, <1>6, <1>7

LEMMA OpenSerialKeepsLife ==
  ASSUME LifeInv, NEW p \in Port, OpenSerial(p)
  PROVE  LifeInv'
PROOF
<1>0. LifeTyped /\ MainOrder /\ Mapping /\ Stopped
  BY DEF LifeInv
<1>1. /\ UNCHANGED <<mem, base, sock, dma, regs, running, commanded, ipc, i2c, freed, lost, alive>>
      /\ mpc' = mpc + 1 /\ mpc \in {4, 5}
  BY <1>0, WhereMainIs DEF OpenSerial, opens, threads, Goes
<1>2. failed' \in 0 .. Failures
  BY <1>0, DeviceAssumption DEF OpenSerial, Fails, LifeTyped
<1>3. fdt' \in [Fd -> Port \cup File \cup {NoFile}]
  BY <1>0 DEF OpenSerial, Open, OpenFails, OpenUnset, LifeTyped
<1>4. LifeTyped'
  BY <1>0, <1>1, <1>2, <1>3 DEF LifeTyped, MaybeFd
<1>5. MainOrder' /\ Mapping' /\ Stopped'
  BY <1>0, <1>1 DEF MainOrder, LifeTyped, Mapping, Stopped
<1> QED
  BY <1>4, <1>5 DEF LifeInv

\* A process that ends keeps everything as it is.
LEMMA DeathKeeps ==
  ASSUME LifeInv, DescInv, Dies
  PROVE  LifeInv' /\ DescInv'
PROOF
<1>1. /\ UNCHANGED <<fdt, mpc, mem, base, sock, dma, regs, running, commanded, ipc, i2c, freed,
                    lost, failed>>
      /\ alive' \in BOOLEAN
  BY DEF Dies, portVars, opens, threads
<1>2. LifeInv'
  BY <1>1 DEF LifeInv, LifeTyped, MainOrder, Mapping, Stopped, MaybeFd
<1>3. Orphans' = Orphans
  BY <1>1 DEF Orphans, Held, Closes
<1>4. DescInv'
  BY <1>1, <1>3 DEF DescInv, I2cOwned, OwnFiles, Counted
<1> QED
  BY <1>2, <1>4

LEMMA ResetKeepsLife ==
  ASSUME LifeInv, DescInv, ResetBegins \/ ResetEnds
  PROVE  LifeInv'
PROOF
<1>0. LifeTyped /\ MainOrder /\ Mapping /\ Stopped
  BY DEF LifeInv
<1>1. CASE Dies
  BY <1>1, DeathKeeps
<1>2. CASE ~Dies
  <2>1. /\ ~(Checked /\ base = "failed") /\ mpc' = mpc + 1
        /\ UNCHANGED <<fdt, mem, base, sock, dma, running, commanded, ipc, i2c, freed, lost,
                       failed, alive>>
    BY <1>2 DEF ResetBegins, ResetEnds, Reset, Goes, portVars, opens, threads
  <2>2. base # "null" => Checked
    BY <1>0 DEF Checked, Mapping
  <2>3. base # "failed"
    BY <2>1, <2>2
  <2>4. CASE ResetBegins
    <3>0. mpc = 6
      BY <1>0, <1>2, <2>4, WhereMainIs DEF ResetBegins, Reset
    <3>1. regs' = SetEnable(SetPlay(CtrlCfg(regs), 2), TRUE)
      BY <1>2, <2>4 DEF ResetBegins, Reset
    <3>2. regs \in Regs /\ CtrlCfg(regs) \in Regs
      BY <1>0, RegistersTyped DEF LifeTyped
    <3>3. regs' \in Regs /\ (Checked => ~regs'.clr /\ regs'.reset)
      BY <3>1, <3>2, RegistersTyped, ResetStops
    <3>4. LifeTyped'
      BY <1>0, <2>1, <3>0, <3>3 DEF LifeTyped, MaybeFd
    <3>5. MainOrder' /\ Mapping'
      BY <1>0, <2>1, <2>3, <3>0 DEF MainOrder, LifeTyped, Mapping
    <3>6. Stopped'
      BY <2>1, <2>2, <3>0, <3>3 DEF Stopped
    <3> QED
      BY <3>4, <3>5, <3>6 DEF LifeInv
  <2>5. CASE ResetEnds
    <3>0. mpc = 7
      BY <1>0, <1>2, <2>5, WhereMainIs DEF ResetEnds, Reset
    <3>1. regs' = SetEnable(SetPlay(regs, 0), FALSE)
      BY <1>2, <2>5 DEF ResetEnds, Reset
    <3>2. regs \in Regs /\ regs' \in Regs
      BY <1>0, <3>1, RegistersTyped DEF LifeTyped
    <3>3. base = "mapped" => regs' = Quiet
      <4> SUFFICES ASSUME base = "mapped" PROVE regs' = Quiet
        OBVIOUS
      <4>1. Checked /\ regs.clr = FALSE /\ regs.reset = TRUE
        BY <1>0, <2>2, <3>0, <3>2 DEF Stopped, Regs
      <4> QED
        BY <3>1, <3>2, <4>1, ResetStops
    <3>4. LifeTyped'
      BY <1>0, <2>1, <3>0, <3>2 DEF LifeTyped, MaybeFd
    <3>5. MainOrder' /\ Mapping'
      BY <1>0, <2>1, <2>3, <3>0 DEF MainOrder, LifeTyped, Mapping
    <3>6. Stopped'
      BY <2>1, <3>0, <3>3 DEF Stopped
    <3> QED
      BY <3>4, <3>5, <3>6 DEF LifeInv
  <2> QED
    BY <2>4, <2>5
<1> QED
  BY <1>1, <1>2

LEMMA CreateKeepsLife ==
  ASSUME LifeInv, NEW t \in Threads, Create(t)
  PROVE  LifeInv'
PROOF
<1>0. LifeTyped /\ MainOrder /\ Mapping /\ Stopped
  BY DEF LifeInv
<1>1. /\ UNCHANGED <<fdt, mem, base, sock, dma, regs, commanded, ipc, i2c, freed, lost, alive>>
      /\ mpc' = mpc + 1 /\ running' \in {running, running \cup {t}} /\ At("create", t)
  BY DEF Create, Goes, portVars, opens
<1>2. \/ t = "host" /\ mpc = 8
      \/ t = "rcv" /\ mpc = 9
      \/ t = "pa" /\ mpc = 10
      \/ t = "server" /\ mpc = 11
  BY <1>0, <1>1, WhereMainIs DEF Threads
<1>3. failed' \in 0 .. Failures
  BY <1>0, DeviceAssumption DEF Create, Fails, LifeTyped
<1>4. LifeTyped'
  BY <1>0, <1>1, <1>2, <1>3 DEF LifeTyped, MaybeFd
<1>5. MainOrder' /\ Mapping' /\ Stopped'
  BY <1>0, <1>1, <1>2 DEF MainOrder, LifeTyped, Mapping, Stopped
<1> QED
  BY <1>4, <1>5 DEF LifeInv

LEMMA JoinKeepsLife ==
  ASSUME LifeInv, DescInv, NEW t \in Threads, Join(t)
  PROVE  LifeInv' /\ DescInv'
PROOF
<1>0. LifeTyped /\ MainOrder /\ Mapping /\ Stopped
  BY DEF LifeInv
<1>1. CASE Dies
  BY <1>1, DeathKeeps
<1>2. CASE ~Dies
  <2>1. /\ UNCHANGED <<fdt, mem, base, sock, dma, regs, running, commanded, ipc, i2c, freed,
                       lost, failed, alive>>
        /\ mpc' = mpc + 1 /\ At("join", t) /\ t \notin running
    BY <1>2 DEF Join, Goes, portVars, opens, threads
  <2>2. \/ t = "server" /\ mpc = 12
        \/ t = "host" /\ mpc = 13
        \/ t = "pa" /\ mpc = 14
        \/ t = "rcv" /\ mpc = 15
    BY <1>0, <2>1, WhereMainIs DEF Threads
  <2>3. LifeTyped'
    BY <1>0, <2>1, <2>2 DEF LifeTyped, MaybeFd
  <2>4. MainOrder' /\ Mapping' /\ Stopped'
    BY <1>0, <2>1, <2>2 DEF MainOrder, LifeTyped, Mapping, Stopped
  <2>5. Orphans' = Orphans
    BY <2>1 DEF Orphans, Held, Closes
  <2>6. DescInv'
    BY <2>1, <2>5 DEF DescInv, I2cOwned, OwnFiles, Counted
  <2> QED
    BY <2>3, <2>4, <2>6 DEF LifeInv
<1> QED
  BY <1>1, <1>2

LEMMA FreeKeepsLife ==
  ASSUME LifeInv, DescInv, Free
  PROVE  LifeInv' /\ DescInv'
PROOF
<1>0. LifeTyped /\ MainOrder /\ Mapping /\ Stopped /\ I2cOwned /\ OwnFiles /\ Counted
  BY DEF LifeInv, DescInv
<1>1. CASE Dies
  BY <1>1, DeathKeeps
<1>2. CASE ~Dies
  <2>1. /\ UNCHANGED <<mem, base, sock, dma, regs, running, commanded, ipc, i2c, lost,
                       failed, alive>>
        /\ mpc' = mpc + 1 /\ freed' = TRUE /\ At("free", "all")
    BY <1>2 DEF Free, Goes, opens, threads
  <2>2. fdt' = [f \in Fd |-> IF f \in Closes(sock) \cup Closes(dma) THEN NoFile ELSE fdt[f]]
    BY <1>2 DEF Free
  <2>3. mpc = 16
    BY <1>0, <2>1, WhereMainIs
  <2>4. fdt' \in [Fd -> Port \cup File \cup {NoFile}]
    BY <1>0, <2>2 DEF LifeTyped
  <2>5. freed' \in BOOLEAN
    BY <2>1
  <2>6. LifeTyped'
    BY <1>0, <2>1, <2>3, <2>4, <2>5 DEF LifeTyped, MaybeFd
  <2>7. MainOrder' /\ Mapping' /\ Stopped'
    BY <1>0, <2>1, <2>3 DEF MainOrder, LifeTyped, Mapping, Stopped
  <2>8. Orphans' = Orphans
    <3>1. NoFile \notin DeviceFiles
      BY PortAssumption, DeviceAssumption
    <3>2. Held' = Held /\ Closes(sock) \cup Closes(dma) \subseteq Held
      BY <2>1 DEF Held, Closes
    <3>3. \A f \in Fd : fdt'[f] \in DeviceFiles /\ f \notin Held
                          <=> fdt[f] \in DeviceFiles /\ f \notin Held
      BY <2>2, <3>1, <3>2
    <3> QED
      BY <3>2, <3>3 DEF Orphans
  <2>9. DescInv'
    BY <1>0, <2>1, <2>8 DEF DescInv, I2cOwned, OwnFiles, Counted
  <2> QED
    BY <2>6, <2>7, <2>9 DEF LifeInv
<1> QED
  BY <1>1, <1>2

\* A thread that runs has been created and not joined.
LEMMA ThreadsAreCreated ==
  ASSUME LifeInv, running # {}
  PROVE  mpc \in 9 .. 15
PROOF
<1>1. \E t \in {"host", "rcv", "pa", "server"} : t \in running
  BY DEF LifeInv, LifeTyped, Threads
<1> QED
  BY <1>1 DEF LifeInv, LifeTyped, MainOrder

\* A command needs a thread that takes it.
LEMMA ConsoleKeepsLife ==
  ASSUME LifeInv, DescInv, ConsoleCommands
  PROVE  LifeInv' /\ DescInv'
PROOF
<1>0. LifeTyped /\ MainOrder /\ Mapping /\ Stopped /\ I2cOwned /\ OwnFiles /\ Counted
  BY DEF LifeInv, DescInv
<1>1. /\ UNCHANGED <<fdt, mpc, mem, base, sock, dma, running, ipc, i2c, freed, lost, failed,
                    alive>>
      /\ commanded' = TRUE /\ running # {}
  BY DEF ConsoleCommands, portVars, opens
<1>2. PICK play \in {0, 2}, on \in BOOLEAN, clr \in BOOLEAN :
             regs' = BramWrite(SetEnable(SetPlay(regs, play), on), "clr", clr)
  BY DEF ConsoleCommands
<1>3. regs \in Regs /\ regs' \in Regs
  BY <1>0, <1>2, RegistersTyped DEF LifeTyped
<1>4. commanded' \in BOOLEAN /\ commanded'
  BY <1>1
<1>5. LifeTyped'
  BY <1>0, <1>1, <1>3, <1>4 DEF LifeTyped, MaybeFd
<1>6. mpc >= 9
  BY <1>1, ThreadsAreCreated
<1>7. MainOrder' /\ Mapping' /\ Stopped'
  BY <1>0, <1>1, <1>4, <1>6 DEF MainOrder, LifeTyped, Mapping, Stopped
<1>8. Orphans' = Orphans
  BY <1>1 DEF Orphans, Held, Closes
<1>9. DescInv'
  BY <1>0, <1>1, <1>8 DEF DescInv, I2cOwned, OwnFiles, Counted
<1> QED
  BY <1>5, <1>7, <1>9 DEF LifeInv

LEMMA I2cKeepsLife ==
  ASSUME LifeInv, DescInv, I2cOpen \/ I2cWorks \/ I2cFails \/ I2cClose
  PROVE  LifeInv'
PROOF
<1>0. LifeTyped /\ MainOrder /\ Mapping /\ Stopped
  BY DEF LifeInv
<1>1. UNCHANGED <<mpc, mem, base, sock, dma, regs, running, commanded, freed, alive>>
  BY DEF I2cOpen, I2cWorks, I2cFails, I2cClose, I2cRest, opens
<1>2. fdt' \in [Fd -> Port \cup File \cup {NoFile}]
  <2>1. CASE I2cOpen
    BY <1>0, <2>1, DeviceAssumption DEF I2cOpen, Yields, LifeTyped, DeviceFiles
  <2>2. CASE I2cWorks \/ I2cFails
    BY <1>0, <2>2 DEF I2cWorks, I2cFails, LifeTyped
  <2>3. CASE I2cClose
    BY <1>0, <2>3 DEF I2cClose, LifeTyped
  <2> QED
    BY <2>1, <2>2, <2>3
<1>3. /\ i2c' \in MaybeFd /\ ipc' \in {"idle", "write", "read", "close"}
      /\ lost' \in Nat /\ failed' \in 0 .. Failures
  BY <1>0, DeviceAssumption
  DEF I2cOpen, I2cWorks, I2cFails, I2cClose, Fails, LifeTyped, MaybeFd
<1>4. LifeTyped'
  BY <1>0, <1>1, <1>2, <1>3 DEF LifeTyped, MaybeFd
<1>5. MainOrder' /\ Mapping' /\ Stopped'
  BY <1>0, <1>1 DEF MainOrder, Mapping, Stopped
<1> QED
  BY <1>4, <1>5 DEF LifeInv

\* The next life of the process begins like the first, but for the registers.
LEMMA StartAgainKeeps ==
  ASSUME LifeInv, StartAgain
  PROVE  LifeInv' /\ DescInv'
PROOF
<1>1. /\ mpc' = 1 /\ mem' = NoFd /\ base' = "null" /\ sock' = NoFd /\ dma' = NoFd
      /\ running' = {} /\ commanded' = FALSE /\ ipc' = "idle" /\ i2c' = NoFd
      /\ freed' = FALSE /\ lost' = 0 /\ failed' = 0 /\ alive' = TRUE /\ regs' = regs
      /\ fdt' = [f \in Fd |-> IF f = 0 THEN Console ELSE NoFile]
  BY DEF StartAgain
<1>2. LifeTyped'
  <2>1. fdt' \in [Fd -> Port \cup File \cup {NoFile}]
    BY <1>1, PortAssumption
  <2>2. 0 \in 0 .. Failures /\ 1 \in 1 .. 17
    BY DeviceAssumption
  <2>3. alive' \in BOOLEAN /\ freed' \in BOOLEAN /\ commanded' \in BOOLEAN
    BY <1>1
  <2>4. regs' \in Regs
    BY <1>1 DEF LifeInv, LifeTyped
  <2> QED
    BY <1>1, <2>1, <2>2, <2>3, <2>4 DEF LifeTyped, MaybeFd
<1>3. MainOrder' /\ Mapping' /\ Stopped' /\ I2cOwned' /\ OwnFiles'
  BY <1>1 DEF MainOrder, Mapping, Stopped, I2cOwned, OwnFiles
<1>4. Orphans' = {}
  BY <1>1, PortAssumption, DeviceAssumption DEF Orphans
<1>5. Counted'
  BY <1>1, <1>4, FS_EmptySet DEF Counted
<1> QED
  BY <1>2, <1>3, <1>5 DEF LifeInv, DescInv

(***************************************************************************)
(* The descriptors.                                                        *)
(***************************************************************************)
LEMMA OneMoreLost ==
  ASSUME Counted, lost \in Nat, NEW f, f \notin Orphans, Orphans' = Orphans \cup {f},
         lost' = lost + 1
  PROVE  Counted'
PROOF
  BY FS_AddElement DEF Counted

\* A new descriptor was unused: it is nobody's and no orphan.
LEMMA NewDescriptor ==
  ASSUME LifeInv, DescInv, ~freed, NEW x, NEW f \in Fd, Yields(x, f)
  PROVE  /\ fdt' = [fdt EXCEPT ![f] = x]
         /\ f \notin {mem, sock, dma, i2c} /\ f \notin Held /\ f \notin Orphans
         /\ \A g \in Fd \ {f} : fdt'[g] = fdt[g]
         /\ fdt'[f] = x
PROOF
<1>1. fdt[f] = NoFile /\ fdt' = [fdt EXCEPT ![f] = x]
  BY DEF Yields, LowestUnused
<1>2. NoFile \notin DeviceFiles
  BY PortAssumption, DeviceAssumption
<1>3. f # NoFd
  BY NoFdNotFd
<1>4. f \notin {mem, sock, dma, i2c}
  BY <1>1, <1>2, <1>3 DEF DescInv, OwnFiles, DeviceFiles
<1>5. f \notin Held
  BY <1>4 DEF Held, Closes
<1>6. f \notin Orphans
  BY <1>1, <1>2 DEF Orphans
<1> QED
  BY <1>1, <1>4, <1>5, <1>6 DEF LifeInv, LifeTyped

\* The descriptor goes to the one who opened it: there is no new orphan.
LEMMA HeldIsNoOrphan ==
  ASSUME LifeInv, DescInv, ~freed, NEW x, NEW f \in Fd, Yields(x, f),
         Held' = Held \cup {f}
  PROVE  Orphans' = Orphans
PROOF
<1>1. f \notin Orphans /\ \A g \in Fd \ {f} : fdt'[g] = fdt[g]
  BY NewDescriptor
<1>2. Orphans' = {g \in Fd : fdt'[g] \in DeviceFiles} \ Held'
  BY DEF Orphans
<1>3. \A g \in Fd : g \in Orphans' <=> g \in Orphans
  BY <1>1, <1>2 DEF Orphans
<1> QED
  BY <1>2, <1>3 DEF Orphans

LEMMA OpenMemKeepsDesc ==
  ASSUME LifeInv, DescInv, OpenMem
  PROVE  DescInv'
PROOF
<1>1. /\ UNCHANGED <<sock, dma, running, ipc, i2c, freed, lost>>
      /\ mpc = 1 /\ mem = NoFd /\ ~freed
  BY WhereMainIs DEF OpenMem, Rest, threads, LifeInv, MainOrder
<1>2. CASE mem' = NoFd /\ fdt' = fdt
  <2>1. Orphans' = Orphans
    BY <1>1, <1>2 DEF Orphans, Held, Closes
  <2> QED
    BY <1>1, <1>2, <2>1 DEF DescInv, I2cOwned, OwnFiles, Counted
<1>3. ASSUME NEW f \in Fd, Yields("mem", f), mem' = f
      PROVE  DescInv'
  <2>1. Held' = Held \cup {f}
    BY <1>1, <1>3, NoFdNotFd DEF Held, Closes
  <2>2. Orphans' = Orphans
    BY <1>1, <1>3, <2>1, HeldIsNoOrphan
  <2>3. /\ f \notin {mem, sock, dma, i2c} /\ fdt'[f] = "mem"
        /\ \A g \in Fd \ {f} : fdt'[g] = fdt[g]
    BY <1>1, <1>3, NewDescriptor
  <2>4. OwnFiles'
    BY <1>1, <1>3, <2>3 DEF OwnFiles, DescInv, LifeInv, LifeTyped, MaybeFd
  <2> QED
    BY <1>1, <2>2, <2>4 DEF DescInv, I2cOwned, Counted
<1> QED
  BY <1>2, <1>3 DEF OpenMem

LEMMA OpenDmaKeepsDesc ==
  ASSUME LifeInv, DescInv, OpenDma
  PROVE  DescInv'
PROOF
<1>1. /\ UNCHANGED <<mem, sock, running, ipc, i2c, freed, lost>>
      /\ mpc = 3 /\ dma = NoFd /\ ~freed
  BY WhereMainIs DEF OpenDma, Rest, threads, LifeInv, MainOrder
<1>2. CASE dma' = NoFd /\ fdt' = fdt
  <2>1. Orphans' = Orphans
    BY <1>1, <1>2 DEF Orphans, Held, Closes
  <2> QED
    BY <1>1, <1>2, <2>1 DEF DescInv, I2cOwned, OwnFiles, Counted
<1>3. ASSUME NEW f \in Fd, Yields("dma", f), dma' = f
      PROVE  DescInv'
  <2>1. Held' = Held \cup {f}
    BY <1>1, <1>3, NoFdNotFd DEF Held, Closes
  <2>2. Orphans' = Orphans
    BY <1>1, <1>3, <2>1, HeldIsNoOrphan
  <2>3. /\ f \notin {mem, sock, dma, i2c} /\ fdt'[f] = "dma"
        /\ \A g \in Fd \ {f} : fdt'[g] = fdt[g]
    BY <1>1, <1>3, NewDescriptor
  <2>4. OwnFiles'
    BY <1>1, <1>3, <2>3 DEF OwnFiles, DescInv, LifeInv, LifeTyped, MaybeFd
  <2> QED
    BY <1>1, <2>2, <2>4 DEF DescInv, I2cOwned, Counted
<1> QED
  BY <1>2, <1>3 DEF OpenDma

\* A socket that was opened and could not be bound is the first orphan.
LEMMA OpenSocketKeepsDesc ==
  ASSUME LifeInv, DescInv, OpenSocket
  PROVE  DescInv'
PROOF
<1>1. /\ UNCHANGED <<mem, dma, running, ipc, i2c, freed>>
      /\ mpc = 2 /\ sock = NoFd /\ ~freed
  BY WhereMainIs DEF OpenSocket, Rest, threads, LifeInv, MainOrder
<1>2. CASE sock' = NoFd /\ fdt' = fdt /\ lost' = lost
  <2>1. Orphans' = Orphans
    BY <1>1, <1>2 DEF Orphans, Held, Closes
  <2> QED
    BY <1>1, <1>2, <2>1 DEF DescInv, I2cOwned, OwnFiles, Counted
<1>3. ASSUME NEW f \in Fd, Yields("sock", f)
      PROVE  /\ f \notin {mem, sock, dma, i2c} /\ fdt'[f] = "sock"
             /\ f \notin Held /\ f \notin Orphans
             /\ \A g \in Fd \ {f} : fdt'[g] = fdt[g]
  BY <1>1, <1>3, NewDescriptor
<1>4. ASSUME NEW f \in Fd, Yields("sock", f), sock' = f, lost' = lost
      PROVE  DescInv'
  <2>1. Held' = Held \cup {f}
    BY <1>1, <1>4, NoFdNotFd DEF Held, Closes
  <2>2. Orphans' = Orphans
    BY <1>1, <1>4, <2>1, HeldIsNoOrphan
  <2>3. OwnFiles'
    BY <1>1, <1>3, <1>4 DEF OwnFiles, DescInv, LifeInv, LifeTyped, MaybeFd
  <2> QED
    BY <1>1, <1>4, <2>2, <2>3 DEF DescInv, I2cOwned, Counted
<1>5. ASSUME NEW f \in Fd, Yields("sock", f), sock' = NoFd, lost' = lost + 1
      PROVE  DescInv'
  <2>1. Held' = Held
    BY <1>1, <1>5 DEF Held, Closes
  <2>2. \A g \in Fd : g \in Orphans' <=> g \in Orphans \cup {f}
    BY <1>3, <1>5, <2>1 DEF Orphans, DeviceFiles
  <2>3. Orphans' = Orphans \cup {f}
    BY <2>2 DEF Orphans
  <2>4. Counted'
    BY <1>3, <1>5, <2>3, OneMoreLost DEF DescInv, LifeInv, LifeTyped
  <2>5. OwnFiles'
    BY <1>1, <1>3, <1>5 DEF OwnFiles, DescInv, LifeInv, LifeTyped, MaybeFd
  <2> QED
    BY <1>1, <2>4, <2>5 DEF DescInv, I2cOwned
<1> QED
  BY <1>2, <1>4, <1>5 DEF OpenSocket

LEMMA OpenSerialKeepsDesc ==
  ASSUME LifeInv, DescInv, NEW p \in Port, OpenSerial(p)
  PROVE  DescInv'
PROOF
<1>1. UNCHANGED <<mem, sock, dma, running, ipc, i2c, freed, lost>> /\ mpc \in {4, 5} /\ ~freed
  BY WhereMainIs DEF OpenSerial, opens, threads, LifeInv, MainOrder
<1>2. Held' = Held
  BY <1>1 DEF Held, Closes
<1>3. CASE fdt' = fdt
  <2>1. Orphans' = Orphans
    BY <1>2, <1>3 DEF Orphans
  <2> QED
    BY <1>1, <1>3, <2>1 DEF DescInv, I2cOwned, OwnFiles, Counted
<1>4. ASSUME NEW f \in Fd, Yields(p, f)
      PROVE  DescInv'
  <2>1. /\ f \notin {mem, sock, dma, i2c} /\ fdt'[f] = p /\ f \notin Orphans
        /\ \A g \in Fd \ {f} : fdt'[g] = fdt[g]
    BY <1>1, <1>4, NewDescriptor
  <2>2. p \notin DeviceFiles
    BY PortAssumption, DeviceAssumption
  <2>3. \A g \in Fd : g \in Orphans' <=> g \in Orphans
    BY <1>2, <2>1, <2>2 DEF Orphans
  <2>4. Orphans' = Orphans
    BY <2>3 DEF Orphans
  <2>5. OwnFiles'
    BY <1>1, <2>1 DEF OwnFiles, DescInv, LifeInv, LifeTyped, MaybeFd
  <2> QED
    BY <1>1, <2>4, <2>5 DEF DescInv, I2cOwned, Counted
<1>5. (\E f \in Fd : Yields(p, f)) \/ fdt' = fdt
  BY DEF OpenSerial, Open, OpenFails, OpenUnset, Yields
<1> QED
  BY <1>3, <1>4, <1>5

LEMMA ResetAndCreateKeepDesc ==
  ASSUME LifeInv, DescInv,
         ResetBegins \/ ResetEnds \/ \E t \in Threads : Create(t)
  PROVE  DescInv'
PROOF
<1>1. CASE Dies
  BY <1>1, DeathKeeps
<1>2. CASE ~Dies
  <2>1. /\ UNCHANGED <<fdt, mem, sock, dma, ipc, i2c, freed, lost>>
        /\ running \subseteq running'
    BY <1>2 DEF ResetBegins, ResetEnds, Reset, Create, portVars, opens, threads
  <2>2. Orphans' = Orphans
    BY <2>1 DEF Orphans, Held, Closes
  <2> QED
    BY <2>1, <2>2 DEF DescInv, I2cOwned, OwnFiles, Counted
<1> QED
  BY <1>1, <1>2

\* While a reading is under way a thread runs, so nothing has been freed, and the
\* number of the bus is a descriptor of its own.
LEMMA BusIsOwn ==
  ASSUME LifeInv, DescInv, ipc # "idle"
  PROVE  /\ ~freed /\ i2c \in Fd /\ fdt[i2c] = "i2c" /\ i2c \notin {mem, sock, dma}
         /\ i2c \notin Orphans
PROOF
<1>1. running # {} /\ i2c # NoFd
  BY DEF DescInv, I2cOwned
<1>2. mpc \in 9 .. 15
  BY <1>1, ThreadsAreCreated
<1>3. ~freed
  BY <1>2 DEF LifeInv, MainOrder
<1>4. i2c \in Fd /\ fdt[i2c] = "i2c"
  BY <1>1, <1>3 DEF DescInv, OwnFiles, LifeInv, LifeTyped, MaybeFd
<1>5. i2c \notin {mem, sock, dma}
  BY <1>1, <1>3, <1>4 DEF DescInv, OwnFiles
<1>6. i2c \notin Orphans
  BY <1>1 DEF Orphans, Held, Closes
<1> QED
  BY <1>3, <1>4, <1>5, <1>6

LEMMA I2cKeepsDesc ==
  ASSUME LifeInv, DescInv, I2cOpen \/ I2cWorks \/ I2cFails \/ I2cClose
  PROVE  DescInv'
PROOF
<1>1. UNCHANGED <<mem, sock, dma, running, freed>>
  BY DEF I2cOpen, I2cWorks, I2cFails, I2cClose, I2cRest, opens
<1>2. running # {}
  BY DEF I2cOpen, I2cWorks, I2cFails, I2cClose, Reader
<1>3. CASE I2cOpen
  <2>1. PICK f \in Fd : Yields("i2c", f) /\ i2c' = f
    BY <1>3 DEF I2cOpen
  <2>2. ipc = "idle" /\ ipc' = "write" /\ i2c = NoFd /\ lost' = lost
    BY <1>3 DEF I2cOpen, DescInv, I2cOwned
  <2>3. ~freed
    <3>1. mpc \in 9 .. 15
      BY <1>2, ThreadsAreCreated
    <3> QED
      BY <3>1 DEF LifeInv, MainOrder
  <2>4. Held' = Held \cup {f}
    BY <1>1, <2>1, <2>2, NoFdNotFd DEF Held, Closes
  <2>5. Orphans' = Orphans
    BY <2>1, <2>3, <2>4, HeldIsNoOrphan
  <2>6. /\ f \notin {mem, sock, dma, i2c} /\ fdt'[f] = "i2c"
        /\ \A g \in Fd \ {f} : fdt'[g] = fdt[g]
    BY <2>1, <2>3, NewDescriptor
  <2>7. OwnFiles'
    BY <1>1, <2>1, <2>3, <2>6 DEF OwnFiles, DescInv, LifeInv, LifeTyped, MaybeFd
  <2>8. I2cOwned'
    BY <1>1, <1>2, <2>1, <2>2, NoFdNotFd DEF I2cOwned
  <2> QED
    BY <2>2, <2>5, <2>7, <2>8 DEF DescInv, Counted
<1>4. CASE I2cWorks
  <2>1. /\ ipc \in {"write", "read"} /\ ipc' \in {"read", "close"}
        /\ UNCHANGED <<fdt, i2c, lost>>
    BY <1>4 DEF I2cWorks
  <2>2. Orphans' = Orphans
    BY <1>1, <2>1 DEF Orphans, Held, Closes
  <2> QED
    BY <1>1, <1>2, <2>1, <2>2 DEF DescInv, I2cOwned, OwnFiles, Counted
<1>5. CASE I2cFails
  <2>1. ipc # "idle" /\ ipc' = "idle" /\ i2c' = NoFd /\ lost' = lost + 1 /\ fdt' = fdt
    BY <1>5 DEF I2cFails
  <2>2. /\ i2c \in Fd /\ fdt[i2c] = "i2c" /\ i2c \notin {mem, sock, dma}
        /\ i2c \notin Orphans
    BY <2>1, BusIsOwn
  <2>3. Held' = Held \ {i2c}
    BY <1>1, <2>1, <2>2 DEF Held, Closes
  <2>4. \A g \in Fd : g \in Orphans' <=> g \in Orphans \cup {i2c}
    BY <2>1, <2>2, <2>3 DEF Orphans, DeviceFiles
  <2>5. Orphans' = Orphans \cup {i2c}
    BY <2>2, <2>4 DEF Orphans
  <2>6. Counted'
    BY <2>1, <2>2, <2>5, OneMoreLost DEF DescInv, LifeInv, LifeTyped
  <2> QED
    BY <1>1, <2>1, <2>6 DEF DescInv, I2cOwned, OwnFiles
<1>6. CASE I2cClose
  <2>1. /\ ipc # "idle" /\ ipc' = "idle" /\ i2c' = NoFd /\ lost' = lost
        /\ fdt' = [fdt EXCEPT ![i2c] = NoFile]
    BY <1>6 DEF I2cClose
  <2>2. i2c \in Fd /\ i2c \notin {mem, sock, dma} /\ i2c \notin Orphans
    BY <2>1, BusIsOwn
  <2>3. /\ \A g \in Fd \ {i2c} : fdt'[g] = fdt[g]
        /\ fdt'[i2c] = NoFile /\ NoFile \notin DeviceFiles
    BY <2>1, <2>2, PortAssumption, DeviceAssumption DEF LifeInv, LifeTyped
  <2>4. Held' = Held \ {i2c}
    BY <1>1, <2>1, <2>2 DEF Held, Closes
  <2>5. \A g \in Fd : g \in Orphans' <=> g \in Orphans
    BY <2>2, <2>3, <2>4 DEF Orphans
  <2>6. Orphans' = Orphans
    BY <2>5 DEF Orphans
  <2>7. OwnFiles'
    BY <1>1, <2>1, <2>2, <2>3 DEF OwnFiles, DescInv, LifeInv, LifeTyped, MaybeFd
  <2> QED
    BY <1>1, <2>1, <2>6, <2>7 DEF DescInv, I2cOwned, Counted
<1> QED
  BY <1>3, <1>4, <1>5, <1>6

LEMMA LifeSteps ==
  LifeInv /\ DescInv /\ [DeviceNext]_deviceVars => LifeInv' /\ DescInv'
PROOF
<1> SUFFICES ASSUME LifeInv, DescInv, [DeviceNext]_deviceVars
             PROVE  LifeInv' /\ DescInv'
  OBVIOUS
<1>1. CASE OpenMem \/ OpenSocket \/ OpenDma
  BY <1>1, OpensKeepLife, OpenMemKeepsDesc, OpenSocketKeepsDesc, OpenDmaKeepsDesc
<1>2. ASSUME NEW p \in Port, OpenSerial(p)
      PROVE  LifeInv' /\ DescInv'
  BY <1>2, OpenSerialKeepsLife, OpenSerialKeepsDesc
<1>3. CASE ResetBegins \/ ResetEnds
  BY <1>3, ResetKeepsLife, ResetAndCreateKeepDesc
<1>4. ASSUME NEW t \in Threads, Create(t)
      PROVE  LifeInv' /\ DescInv'
  BY <1>4, CreateKeepsLife, ResetAndCreateKeepDesc
<1>5. ASSUME NEW t \in Threads, Join(t)
      PROVE  LifeInv' /\ DescInv'
  BY <1>5, JoinKeepsLife
<1>6. CASE Free
  BY <1>6, FreeKeepsLife
<1>7. CASE ConsoleCommands
  BY <1>7, ConsoleKeepsLife
<1>8. CASE ReadUnopened
  BY <1>8, DeathKeeps DEF ReadUnopened
<1>9. CASE I2cOpen \/ I2cWorks \/ I2cFails \/ I2cClose
  BY <1>9, I2cKeepsLife, I2cKeepsDesc
<1>10. CASE StartAgain
  BY <1>10, StartAgainKeeps
<1>11. CASE UNCHANGED deviceVars
  <2>1. UNCHANGED <<fdt, mpc, mem, base, sock, dma, regs, running, commanded, ipc, i2c,
                    freed, lost, failed, alive>>
    BY <1>11 DEF deviceVars, portVars, lifeVars, opens, threads
  <2>2. Orphans' = Orphans
    BY <2>1 DEF Orphans, Held, Closes
  <2>3. LifeInv'
    BY <2>1 DEF LifeInv, LifeTyped, MainOrder, Mapping, Stopped, MaybeFd
  <2>4. DescInv'
    BY <2>1, <2>2 DEF DescInv, I2cOwned, OwnFiles, Counted
  <2> QED
    BY <2>3, <2>4
<1> QED
  BY <1>1, <1>2, <1>3, <1>4, <1>5, <1>6, <1>7, <1>8, <1>9, <1>10, <1>11 DEF DeviceNext

(***************************************************************************)
(* The serial ports in the device.                                         *)
(***************************************************************************)
\* No step of the device but serial_open touches a number of a port or opens one.
LEMMA OtherFiles ==
  ASSUME LifeInv, DescInv, DeviceNext, ~StartAgain, \A p \in Port : ~OpenSerial(p)
  PROVE  /\ UNCHANGED <<fd, tty, stale, asked>>
         /\ \A f \in Fd : fdt[f] \in Port \/ fdt'[f] \in Port => fdt'[f] = fdt[f]
PROOF
<1>0. /\ fdt \in [Fd -> Port \cup File \cup {NoFile}] /\ NoFile \notin Port
      /\ DeviceFiles \cap Port = {}
  BY PortAssumption, DeviceAssumption DEF LifeInv, LifeTyped
<1>1. CASE UNCHANGED portVars
  BY <1>1 DEF portVars
<1>2. ASSUME NEW f \in Fd, NEW x \in DeviceFiles, Yields(x, f)
      PROVE  \A g \in Fd : fdt[g] \in Port \/ fdt'[g] \in Port => fdt'[g] = fdt[g]
  BY <1>0, <1>2 DEF Yields, LowestUnused
<1>3. CASE OpenMem \/ OpenSocket \/ OpenDma
  <2>1. UNCHANGED <<fd, tty, stale, asked>>
    BY <1>3 DEF OpenMem, OpenSocket, OpenDma, Rest
  <2>2. fdt' = fdt \/ \E f \in Fd, x \in DeviceFiles : Yields(x, f)
    BY <1>3 DEF OpenMem, OpenSocket, OpenDma, DeviceFiles
  <2> QED
    BY <1>2, <2>1, <2>2
<1>4. CASE I2cOpen \/ I2cWorks \/ I2cFails
  <2>1. UNCHANGED <<fd, tty, stale, asked>>
    BY <1>4 DEF I2cOpen, I2cWorks, I2cFails, I2cRest
  <2>2. fdt' = fdt \/ \E f \in Fd, x \in DeviceFiles : Yields(x, f)
    BY <1>4 DEF I2cOpen, I2cWorks, I2cFails, DeviceFiles
  <2> QED
    BY <1>2, <2>1, <2>2
<1>5. CASE I2cClose
  <2>1. UNCHANGED <<fd, tty, stale, asked>> /\ ipc # "idle"
    BY <1>5 DEF I2cClose, I2cRest
  <2>2. fdt' = [fdt EXCEPT ![i2c] = NoFile] /\ fdt[i2c] = "i2c"
    BY <1>5, <2>1, BusIsOwn DEF I2cClose
  <2> QED
    BY <1>0, <2>1, <2>2 DEF DeviceFiles
<1>6. CASE Free /\ ~Dies
  <2>1. /\ UNCHANGED <<fd, tty, stale, asked>> /\ At("free", "all")
        /\ fdt' = [f \in Fd |-> IF f \in Closes(sock) \cup Closes(dma)
                                THEN NoFile ELSE fdt[f]]
    BY <1>6 DEF Free
  <2>2. ~freed
    BY <2>1, WhereMainIs DEF LifeInv, MainOrder
  <2>3. \A f \in Closes(sock) \cup Closes(dma) : fdt[f] \in DeviceFiles
    BY <2>2 DEF DescInv, OwnFiles, Closes, DeviceFiles
  <2> QED
    BY <1>0, <2>1, <2>3
<1>7. Dies => UNCHANGED portVars
  BY DEF Dies
<1>8. (ResetBegins \/ ResetEnds \/ \E t \in Threads : Create(t) \/ Join(t))
        => UNCHANGED portVars
  BY <1>7 DEF ResetBegins, ResetEnds, Reset, Create, Join
<1>9. ConsoleCommands \/ ReadUnopened => UNCHANGED portVars
  BY <1>7 DEF ConsoleCommands, ReadUnopened
<1> QED
  BY <1>1, <1>3, <1>4, <1>5, <1>6, <1>7, <1>8, <1>9 DEF DeviceNext

LEMMA PortsInDevice ==
  LifeInv /\ DescInv /\ PortInv /\ OwnPort /\ [DeviceNext]_deviceVars
    => PortInv' /\ OwnPort'
PROOF
<1> SUFFICES ASSUME LifeInv, DescInv, PortInv, OwnPort, [DeviceNext]_deviceVars
             PROVE  PortInv' /\ OwnPort'
  OBVIOUS
<1>0. PortTypeOK
  BY DEF PortInv
<1>1. ASSUME NEW p \in Port, OpenSerial(p)
      PROVE  PortInv' /\ OwnPort'
  <2>1. Open(p, EightN1) \/ OpenFails(p, EightN1) \/ OpenUnset(p, EightN1)
    BY <1>1 DEF OpenSerial
  <2>2. EightN1 \in Attrs
    BY DEF EightN1, Attrs, Parity
  <2>3. OwnPort'
    BY <1>0, <2>1, OpenKeepsOwn
  <2>4. PortInv'
    BY <2>1, <2>2, OpenKeeps, OpenFailsKeeps, OpenUnsetKeeps
  <2> QED
    BY <2>3, <2>4
<1>2. CASE StartAgain
  <2>1. /\ fd' = [p \in Port |-> NoFd] /\ stale' = {} /\ UNCHANGED <<tty, asked>>
        /\ fdt' = [f \in Fd |-> IF f = 0 THEN Console ELSE NoFile]
    BY <1>2 DEF StartAgain
  <2>2. PortTypeOK'
    BY <1>0, <2>1, PortAssumption DEF PortTypeOK
  <2>3. PortInv'
    BY <2>1, <2>2, NoPortOpened, PortAssumption
  <2>4. OwnPort'
    BY <2>1 DEF OwnPort
  <2> QED
    BY <2>3, <2>4
<1>3. CASE /\ UNCHANGED <<fd, tty, stale, asked>>
           /\ fdt' \in [Fd -> Port \cup File \cup {NoFile}]
           /\ \A f \in Fd : fdt[f] \in Port \/ fdt'[f] \in Port => fdt'[f] = fdt[f]
  <2>1. PortTypeOK'
    BY <1>0, <1>3 DEF PortTypeOK
  <2>2. OwnPort'
    BY <1>0, <1>3, OthersKeepOwn
  <2> QED
    BY <1>3, <2>1, <2>2, NoPortOpened
<1>4. fdt' \in [Fd -> Port \cup File \cup {NoFile}]
  BY LifeSteps DEF LifeInv, LifeTyped
<1>5. CASE UNCHANGED deviceVars
  BY <1>3, <1>4, <1>5 DEF deviceVars, portVars
<1>6. CASE DeviceNext /\ ~StartAgain /\ \A p \in Port : ~OpenSerial(p)
  BY <1>3, <1>4, <1>6, OtherFiles
<1> QED
  BY <1>1, <1>2, <1>5, <1>6

(***************************************************************************)
(* The theorems.                                                           *)
(***************************************************************************)
\* Where main is tells which threads run, what is mapped, whether the player is
\* stopped and whose every descriptor is.
THEOREM LifeIsInvariant ==
  DeviceSpec => [](LifeInv /\ DescInv)
PROOF
  BY LifeInitially, LifeSteps, PTL DEF DeviceSpec

\* usr_thread_res_free never takes a descriptor or a buffer from a thread.
THEOREM FreedWhenAtRest ==
  DeviceSpec => []FreedAtRest
PROOF
<1>1. LifeInv => FreedAtRest
  <2> SUFFICES ASSUME LifeInv, freed, running # {} PROVE FALSE
    BY DEF FreedAtRest
  <2>1. mpc \in 9 .. 15
    BY ThreadsAreCreated
  <2> QED
    BY <2>1 DEF LifeInv, MainOrder
<1> QED
  BY <1>1, LifeIsInvariant, PTL

\* Whenever the process is killed and started again: if it could open /dev/mem,
\* the player is stopped before the first thread starts, and until a console
\* commands it (a mapping that fails ends the process before).
THEOREM PlayerStartsIdle ==
  DeviceSpec => []StartsIdle
PROOF
<1>1. LifeInv => StartsIdle
  <2> SUFFICES ASSUME LifeInv, running # {}, ~commanded, mem # NoFd
               PROVE  regs = Quiet
    BY DEF StartsIdle
  <2>1. mpc \in 9 .. 15
    BY ThreadsAreCreated
  <2>2. base = "mapped"
    BY <2>1 DEF LifeInv, LifeTyped, Mapping
  <2> QED
    BY <2>1, <2>2 DEF LifeInv, Stopped
<1> QED
  BY <1>1, LifeIsInvariant, PTL

\* No thread dereferences the address of a mapping that failed.
THEOREM BadMappingIsMetByMain ==
  DeviceSpec => []NoThreadMeetsBadMapping
PROOF
<1>1. LifeInv => NoThreadMeetsBadMapping
  <2> SUFFICES ASSUME LifeInv, running # {}, base = "failed" PROVE FALSE
    BY DEF NoThreadMeetsBadMapping
  <2>1. mpc \in 9 .. 15
    BY ThreadsAreCreated
  <2> QED
    BY <2>1 DEF LifeInv, Mapping
<1> QED
  BY <1>1, LifeIsInvariant, PTL

\* No descriptor is lost but by a socket that could not be set up and by failed
\* readings of the i2c bus, and none has two owners.
THEOREM DescriptorsAreAccounted ==
  DeviceSpec => []DescriptorsAccounted
PROOF
<1>1. LifeInv /\ DescInv => DescriptorsAccounted
  BY DEF DescInv, Counted, OwnFiles, DescriptorsAccounted
<1> QED
  BY <1>1, LifeIsInvariant, PTL

\* The two serial ports of the device: each handle is its own port's, or the
\* attributes of one could not be set; and everything has its type.
THEOREM DevicePorts ==
  DeviceSpec => [](OwnPort /\ GettersAgree /\ DeviceTypeOK)
PROOF
<1>1. DeviceInit => PortInv /\ OwnPort
  BY PortInvInitially DEF DeviceInit, PortInit, OwnPort
<1>2. DeviceSpec => [](PortInv /\ OwnPort)
  BY <1>1, PortsInDevice, LifeIsInvariant, PTL DEF DeviceSpec
<1>3. PortInv => GettersAgree
  BY GettersAnswer DEF PortInv, PortTypeOK, GettersAgree, SettingsOf
<1>4. LifeInv /\ PortInv => DeviceTypeOK
  BY ProgramIs DEF LifeInv, LifeTyped, PortInv, DeviceTypeOK
<1> QED
  BY <1>2, <1>3, <1>4, LifeIsInvariant, PTL
=============================================================================
