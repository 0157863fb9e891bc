----------------------------- MODULE SerialPort -----------------------------
(***************************************************************************)
(* The serial port library (serial.c): a handle per port, the descriptor   *)
(* it holds, and the termios settings of the tty behind it, which calls    *)
(* set and get one attribute at a time by changing bits of shared words.   *)
(*                                                                         *)
(* A word is the set of its bits: |= is union and &= ~ is difference.  A   *)
(* call is one step, for no port has two callers that change its settings. *)
(* A call whose tcgetattr or tcsetattr fails, or whose argument is not     *)
(* valid, returns an error and changes nothing (but see OpenUnset).        *)
(***************************************************************************)
EXTENDS Integers

CONSTANTS
  Port,       \* the ports; a handle and a tty of each
  File,       \* what else a descriptor may refer to
  Passing,    \* those of them that other threads open and close
  Console,    \* that of descriptor 0 (which stands for 0, 1 and 2)
  NoFile,     \* an unused descriptor
  Fd,         \* the descriptor numbers of the process
  Client,     \* the ports whose settings are changed after they are opened
  Asks,       \* the attributes serial_open_advanced is called with
  Rate,       \* the baud rates serial_set_baudrate is called with
  Supported   \* those of the tables of serial.c

Parity == {"none", "odd", "even"}
Attrs  == [databits : Nat, parity : Parity, stopbits : Nat,
           xonxoff : BOOLEAN, rtscts : BOOLEAN, baudrate : Nat]

ASSUME PortAssumption ==
  /\ Client \subseteq Port /\ Fd \subseteq Nat /\ 0 \in Fd
  /\ Passing \subseteq File /\ Console \in File \ Passing
  /\ Port \cap File = {} /\ NoFile \notin Port \cup File
  /\ Asks \subseteq Attrs /\ Rate \subseteq Nat /\ Supported \subseteq Nat \ {0}

VARIABLES
  fd,      \* [Port -> the handle's fd]
  fdt,     \* kernel: [Fd -> what the number refers to]
  tty,     \* kernel: [Port -> termios of the tty]
  stale,   \* history: the handles whose number serial_open has ever closed
  asked    \* history: [Port -> the attributes the last calls asked for]

portVars == <<fd, fdt, tty, stale, asked>>

NoFd == -1

(***************************************************************************)
(* The bits.  CS5 has none of the bits of CSIZE and CS8 both.              *)
(***************************************************************************)
CSIZE == {"CS6", "CS7"}
Cs(n) == CASE n = 5 -> {} [] n = 6 -> {"CS6"} [] n = 7 -> {"CS7"} [] OTHER -> CSIZE
ParityBits(par) == CASE par = "none" -> {} [] par = "even" -> {"PARENB"}
                     [] OTHER -> {"PARENB", "PARODD"}
When(cond, bits) == IF cond THEN bits ELSE {}

CFlag == CSIZE \cup {"CREAD", "CLOCAL", "PARENB", "PARODD", "CSTOPB", "CRTSCTS"}
IFlag == {"IGNBRK", "INPCK", "ISTRIP", "IXON", "IXOFF"}

\* _serial_baudrate_to_bits; cfsetispeed refuses what is not in the table, and
\* the speed stays as it was.
B(rate) == <<"B", rate>>
Bits(rate, old) == IF rate \in Supported THEN B(rate) ELSE old

\* _serial_bits_to_baudrate
Baudrate(bits) == bits[2]

ValidBits == 5 .. 8
ValidStop == {1, 2}

Termios == [cflag : SUBSET CFlag, iflag : SUBSET IFlag, speed : {"B"} \X Nat]

(***************************************************************************)
(* The getters, and serial_tostring, which asks once for all of them.      *)
(***************************************************************************)
GetBaudrate(t) == Baudrate(t.speed)
GetDatabits(t) == CHOOSE n \in ValidBits : Cs(n) = t.cflag \cap CSIZE
GetParity(t)   == IF "PARENB" \notin t.cflag THEN "none"
                  ELSE IF "PARODD" \notin t.cflag THEN "even" ELSE "odd"
GetStopbits(t) == IF "CSTOPB" \in t.cflag THEN 2 ELSE 1
GetXonxoff(t)  == t.iflag \cap {"IXON", "IXOFF"} # {}
GetRtscts(t)   == "CRTSCTS" \in t.cflag

SerialToString(t) == [databits |-> GetDatabits(t), parity |-> GetParity(t),
                stopbits |-> GetStopbits(t), xonxoff |-> GetXonxoff(t),
                rtscts |-> GetRtscts(t), baudrate |-> GetBaudrate(t)]

-----------------------------------------------------------------------------
\* What the number in the handle refers to: calls go there, whatever it is.
Target(p) == IF fd[p] = NoFd THEN NoFile ELSE fdt[fd[p]]

LowestUnused(f) == /\ fdt[f] = NoFile
                   /\ \A g \in Fd : fdt[g] = NoFile => f <= g

\* serial_new; the driver has settings of its own until the port is opened.
NotAsked == [databits |-> 0, parity |-> "none", stopbits |-> 0,
             xonxoff |-> FALSE, rtscts |-> FALSE, baudrate |-> 0]
DriverTermios == [cflag |-> CSIZE \cup {"CREAD", "CLOCAL"}, iflag |-> {"IXON"},
                  speed |-> B(9600)]

PortInit == /\ fd = [p \in Port |-> NoFd]
            /\ fdt = [f \in Fd |-> IF f = 0 THEN Console ELSE NoFile]
            /\ tty = [p \in Port |-> DriverTermios]
            /\ stale = {}
            /\ asked = [p \in Port |-> NotAsked]

(***************************************************************************)
(* serial_open_advanced: whatever the handle held is forgotten.            *)
(***************************************************************************)
Valid(a) == a.databits \in ValidBits /\ a.stopbits \in ValidStop

Settings(a) ==
  [cflag |-> {"CREAD", "CLOCAL"} \cup Cs(a.databits) \cup ParityBits(a.parity)
               \cup When(a.stopbits = 2, {"CSTOPB"})
               \cup When(a.rtscts, {"CRTSCTS"}),
   iflag |-> {"IGNBRK"} \cup When(a.parity # "none", {"INPCK"})
               \cup When(a.parity # "none" /\ a.databits # 8, {"ISTRIP"})
               \cup When(a.xonxoff, {"IXON", "IXOFF"}),
   speed |-> Bits(a.baudrate, B(0))]

Rated(a) == [a EXCEPT !.baudrate = IF @ \in Supported THEN @ ELSE 0]

Open(p, a) ==
  /\ Valid(a)
  /\ \E f \in Fd : /\ LowestUnused(f)
                   /\ fd' = [fd EXCEPT ![p] = f]
                   /\ fdt' = [fdt EXCEPT ![f] = p]
  /\ tty' = [tty EXCEPT ![p] = Settings(a)]
  /\ asked' = [asked EXCEPT ![p] = Rated(a)]
  /\ UNCHANGED stale

\* Mutant: the -1 that open returns is not stored in the handle.
OpenFailsUnstored(p, a) ==
  /\ Valid(a)
  /\ fd' = [fd EXCEPT ![p] = 0]
  /\ UNCHANGED <<fdt, tty, stale, asked>>

OpenFails(p, a) ==
  /\ Valid(a)
  /\ fd' = [fd EXCEPT ![p] = NoFd]
  /\ UNCHANGED <<fdt, tty, stale, asked>>

\* tcsetattr fails: the port is closed again and the handle keeps the number.
OpenUnset(p, a) ==
  /\ Valid(a)
  /\ \E f \in Fd : LowestUnused(f) /\ fd' = [fd EXCEPT ![p] = f]
  /\ stale' = stale \cup {p}
  /\ UNCHANGED <<fdt, tty, asked>>

\* serial_close; close fails if another thread has closed the number.
Close(p) ==
  /\ fd[p] # NoFd /\ Target(p) # NoFile
  /\ fdt' = [fdt EXCEPT ![fd[p]] = NoFile]
  /\ fd' = [fd EXCEPT ![p] = NoFd]
  /\ UNCHANGED <<tty, stale, asked>>

(***************************************************************************)
(* The setters: tcgetattr, change, tcsetattr.                              *)
(***************************************************************************)
Change(p, t, a) == /\ tty' = [tty EXCEPT ![Target(p)] = t]
                   /\ asked' = [asked EXCEPT ![Target(p)] = a]
                   /\ UNCHANGED <<fd, fdt, stale>>

SetBaudrate(p) == \E rate \in Rate :
  /\ Target(p) \in Port
  /\ LET q == Target(p)
     IN Change(p, [tty[q] EXCEPT !.speed = Bits(rate, @)],
                  [asked[q] EXCEPT !.baudrate = IF rate \in Supported THEN rate ELSE @])

SetDatabits(p) == \E n \in ValidBits :
  /\ Target(p) \in Port
  /\ LET q == Target(p)
     IN Change(p, [tty[q] EXCEPT !.cflag = (@ \ CSIZE) \cup Cs(n)],
                  [asked[q] EXCEPT !.databits = n])

\* Mutant: the bits of the old parity stay.
SetParityAdds(p) == \E par \in Parity :
  /\ Target(p) \in Port
  /\ LET q == Target(p)
     IN Change(p, [tty[q] EXCEPT
                     !.iflag = (@ \ {"INPCK", "ISTRIP"})
                                 \cup When(par # "none", {"INPCK", "ISTRIP"}),
                     !.cflag = @ \cup ParityBits(par)],
                  [asked[q] EXCEPT !.parity = par])

SetParity(p) == \E par \in Parity :
  /\ Target(p) \in Port
  /\ LET q == Target(p)
     IN Change(p, [tty[q] EXCEPT
                     !.iflag = (@ \ {"INPCK", "ISTRIP"})
                                 \cup When(par # "none", {"INPCK", "ISTRIP"}),
                     !.cflag = (@ \ {"PARENB", "PARODD"}) \cup ParityBits(par)],
                  [asked[q] EXCEPT !.parity = par])

SetStopbits(p) == \E n \in ValidStop :
  /\ Target(p) \in Port
  /\ LET q == Target(p)
     IN Change(p, [tty[q] EXCEPT
                     !.cflag = (@ \ {"CSTOPB"}) \cup When(n = 2, {"CSTOPB"})],
                  [asked[q] EXCEPT !.stopbits = n])

SetXonxoff(p) == \E enabled \in BOOLEAN :
  /\ Target(p) \in Port
  /\ LET q == Target(p)
     IN Change(p, [tty[q] EXCEPT !.iflag = (@ \ {"IXON", "IXOFF"})
                                             \cup When(enabled, {"IXON", "IXOFF"})],
                  [asked[q] EXCEPT !.xonxoff = enabled])

SetRtscts(p) == \E enabled \in BOOLEAN :
  /\ Target(p) \in Port
  /\ LET q == Target(p)
     IN Change(p, [tty[q] EXCEPT !.cflag = (@ \ {"CRTSCTS"})
                                             \cup When(enabled, {"CRTSCTS"})],
                  [asked[q] EXCEPT !.rtscts = enabled])

Sets(p) == \/ SetBaudrate(p) \/ SetDatabits(p) \/ SetParity(p)
           \/ SetStopbits(p) \/ SetXonxoff(p) \/ SetRtscts(p)

\* Other threads open and close files of their own.
OtherOpens == /\ \E f \in Fd, x \in Passing : /\ LowestUnused(f)
                                              /\ fdt' = [fdt EXCEPT ![f] = x]
              /\ UNCHANGED <<fd, tty, stale, asked>>
OtherCloses == /\ \E f \in Fd : fdt[f] \in Passing /\ fdt' = [fdt EXCEPT ![f] = NoFile]
               /\ UNCHANGED <<fd, tty, stale, asked>>

PortNext ==
  \/ \E p \in Client : \/ \E a \in Asks : Open(p, a) \/ OpenFails(p, a) \/ OpenUnset(p, a)
                       \/ Close(p) \/ Sets(p)
  \/ OtherOpens \/ OtherCloses

PortSpec == PortInit /\ [][PortNext]_portVars

(***************************************************************************)
(* Properties                                                              *)
(***************************************************************************)
PortTypeOK ==
  /\ fd \in [Port -> Fd \cup {NoFd}]
  /\ fdt \in [Fd -> Port \cup File \cup {NoFile}]
  /\ tty \in [Port -> Termios]
  /\ stale \in SUBSET Port
  /\ asked \in [Port -> Attrs]

Opened(p) == \E f \in Fd : fdt[f] = p

\* The getters of a tty that is open answer exactly the attributes that were
\* asked for last, each by whichever call it was: they read back what the setters
\* and serial_open_advanced wrote, and no setter disturbs the bits another's
\* getter reads.  ISTRIP has no getter, so this says nothing of it: SetParity sets it
\* with 8 data bits, too, and SetDatabits leaves it on (see README.md).
GettersAgree ==
  \A p \in Port : Opened(p) => SerialToString(tty[p]) = asked[p]

\* The number in a handle is its own port's, whatever other threads open and
\* close, as long as serial_open_advanced could set the attributes of every port
\* it opened: a handle left with a closed number reads, writes and closes the
\* file that gets the number next, be it another port's.
OwnPort == stale = {} => \A p \in Port : fd[p] # NoFd => fdt[fd[p]] = p
=============================================================================
