----------------------------- MODULE TcpSession -----------------------------
(***************************************************************************)
(* The life of a TCP console session: the accept loop (tcp_thread), the    *)
(* receiver and the periodic sender it starts for each connection it keeps *)
(* (recv_from_socket, period_snd_socket), and the serial feedback thread   *)
(* that shares their mutex and their send buffer (serial_host_thread).     *)
(*                                                                         *)
(* accept_fd, the one word through which the threads tell each other that  *)
(* the session is over, is written under the mutex by the receiver and the *)
(* sender and WITHOUT it by the accept loop, so the kernel's descriptor    *)
(* table is part of the model: numbers are reused, lowest first.           *)
(*                                                                         *)
(* Content of frames is abstracted; a receive either yields a command with *)
(* a reply, or nothing that is answered, or an error.                      *)
(***************************************************************************)
EXTENDS Integers, FiniteSets

CONSTANTS
  Conn,        \* the connections clients ask for in a behaviour
  NoConn,      \* "no connection": an unused descriptor, an idle accept loop
  Other,       \* what a descriptor opened by another thread refers to
  Fd,          \* the descriptor numbers left to the process
  Patient,     \* TRUE: a client connects only when the last session is over
  SpawnFails   \* TRUE: usr_thread_create may fail

ASSUME SessionAssumption ==
  /\ NoConn \notin Conn
  /\ Other \notin Conn
  /\ NoConn # Other
  /\ Fd \subseteq Nat
  /\ Patient \in BOOLEAN
  /\ SpawnFails \in BOOLEAN

VARIABLES
  accept_fd,   \* res->sock[0].accept_fd
  mutex,       \* holder of res->sock[0].mutex
  snd_buf,     \* the thread whose bytes res->sock[0].snd_buf holds
  connect_fd,  \* [Conn -> ..] the local of the receiver started for it
  rpc, spc,    \* [Conn -> ..] control of its receiver and its sender
  tpc, newFd, newConn,  \* control and locals of tcp_thread
  hpc,         \* control of serial_host_thread
  fdt,         \* kernel: what each descriptor number refers to
  otherFd,     \* the descriptor another thread holds while it uses a file
  peer,        \* kernel: the other end of each connection
  backlog      \* kernel: connections waiting for accept

session == <<accept_fd, connect_fd, rpc, spc>>
loop    == <<tpc, newFd, newConn>>
kernel  == <<fdt, otherFd, peer, backlog>>
vars    == <<session, mutex, snd_buf, loop, hpc, kernel>>

NoFd == -1

Free    == <<"free", NoConn>>
Host    == <<"host", NoConn>>
Recv(c) == <<"recv", c>>
Snd(c)  == <<"snd", c>>
Thread  == {Host} \cup {Recv(c) : c \in Conn} \cup {Snd(c) : c \in Conn}

RecvPc == {"none", "start", "lock", "check", "recv", "reply", "clear", "close", "done"}
SndPc  == {"none", "lock", "check", "send", "close", "clear", "done"}
TcpPc  == {"accept", "check", "refuse", "install", "spawnRecv", "spawnSnd"}
HostPc == {"lock", "build", "write"}

(* The program points at which a thread holds the mutex. *)
RecvCritical == {"check", "recv", "reply", "clear", "close"}
SndCritical  == {"check", "send", "close", "clear"}
HostCritical == {"build", "write"}

Init ==
  /\ accept_fd = NoFd
  /\ mutex = Free
  /\ snd_buf = Free
  /\ connect_fd = [c \in Conn |-> NoFd]
  /\ rpc = [c \in Conn |-> "none"]
  /\ spc = [c \in Conn |-> "none"]
  /\ tpc = "accept" /\ newFd = NoFd /\ newConn = NoConn
  /\ hpc = "lock"
  /\ fdt = [f \in Fd |-> NoConn]
  /\ otherFd = NoFd
  /\ peer = [c \in Conn |-> "away"]
  /\ backlog = {}

-----------------------------------------------------------------------------
(* The kernel and the clients. *)

LowestUnused(f) ==
  /\ fdt[f] = NoConn
  /\ \A g \in Fd : fdt[g] = NoConn => f <= g

(* What a descriptor refers to; a call on -1 fails before it gets there. *)
Target(fd) == IF fd = NoFd THEN NoConn ELSE fdt[fd]

Closed(fd) == IF fd = NoFd THEN fdt ELSE [fdt EXCEPT ![fd] = NoConn]

(* No thread of an accepted connection is left, and none is being accepted. *)
SessionOver ==
  /\ tpc = "accept" /\ backlog = {}
  /\ \A c \in Conn : rpc[c] \in {"none", "done"} /\ spc[c] \in {"none", "done"}

Connect(c) ==
  /\ peer[c] = "away"
  /\ Patient => SessionOver
  /\ peer' = [peer EXCEPT ![c] = "up"]
  /\ backlog' = backlog \cup {c}
  /\ UNCHANGED <<session, mutex, snd_buf, loop, hpc, fdt, otherFd>>

(* The client closes its socket, or the connection is reset or found dead  *)
(* by keepalive. Only an end the device still holds can show it.           *)
Observable(c) == c \in backlog \/ \E f \in Fd : fdt[f] = c

PeerLeaves(c) ==
  /\ Observable(c)
  /\ \/ peer[c] = "up" /\ peer' = [peer EXCEPT ![c] = "closed"]
     \/ peer[c] \in {"up", "closed"} /\ peer' = [peer EXCEPT ![c] = "reset"]
  /\ UNCHANGED <<session, mutex, snd_buf, loop, hpc, fdt, otherFd, backlog>>

(* Another thread opens a file, a directory or the i2c bus, and closes it  *)
(* by number, whatever that number refers to by then.                      *)
OtherOpen ==
  /\ otherFd = NoFd
  /\ \E f \in Fd :
       /\ LowestUnused(f)
       /\ fdt' = [fdt EXCEPT ![f] = Other]
       /\ otherFd' = f
  /\ UNCHANGED <<session, mutex, snd_buf, loop, hpc, peer, backlog>>

OtherClose ==
  /\ otherFd # NoFd
  /\ fdt' = Closed(otherFd)
  /\ otherFd' = NoFd
  /\ UNCHANGED <<session, mutex, snd_buf, loop, hpc, peer, backlog>>

(* send() to c: the first one after the client closed still succeeds and   *)
(* is answered with a reset.                                               *)
AfterSend(c) == IF peer[c] = "closed" THEN [peer EXCEPT ![c] = "reset"] ELSE peer

SendWorks(fd) == Target(fd) \in Conn /\ peer[Target(fd)] # "reset"

(* A send to a client that does not read fails after SO_SNDTIMEO. *)
SendFails(fd) ==
  Target(fd) \in Conn => peer[Target(fd)] \in {"up", "reset"}

-----------------------------------------------------------------------------
(* tcp_thread: accept, keep the connection if there is none, else close it. *)

(* With every descriptor in use accept fails and the loop just goes on. *)
TcpAccept ==
  /\ tpc = "accept"
  /\ \E c \in backlog, f \in Fd :
       /\ LowestUnused(f)
       /\ fdt' = [fdt EXCEPT ![f] = c]
       /\ newFd' = f /\ newConn' = c
       /\ backlog' = backlog \ {c}
  /\ tpc' = "check"
  /\ UNCHANGED <<session, mutex, snd_buf, hpc, otherFd, peer>>

(* Mutant: the accept loop keeps the new connection whatever accept_fd is. *)
TcpCheckAlwaysKeeps ==
  /\ tpc = "check"
  /\ tpc' = "install"
  /\ UNCHANGED <<session, mutex, snd_buf, newFd, newConn, hpc, kernel>>

TcpCheck ==
  /\ tpc = "check"
  /\ tpc' = IF accept_fd # NoFd THEN "refuse" ELSE "install"
  /\ UNCHANGED <<session, mutex, snd_buf, newFd, newConn, hpc, kernel>>

TcpRefuse ==
  /\ tpc = "refuse"
  /\ fdt' = Closed(newFd)
  /\ tpc' = "accept" /\ newFd' = NoFd /\ newConn' = NoConn
  /\ UNCHANGED <<session, mutex, snd_buf, hpc, otherFd, peer, backlog>>

TcpInstall ==
  /\ tpc = "install"
  /\ accept_fd' = newFd
  /\ tpc' = "spawnRecv"
  /\ UNCHANGED <<connect_fd, rpc, spc, mutex, snd_buf, newFd, newConn, hpc, kernel>>

(* usr_thread_create's result is ignored, for both threads. *)
TcpSpawnRecv ==
  /\ tpc = "spawnRecv"
  /\ \/ rpc' = [rpc EXCEPT ![newConn] = "start"]
     \/ SpawnFails /\ UNCHANGED rpc
  /\ tpc' = "spawnSnd"
  /\ UNCHANGED <<accept_fd, connect_fd, spc, mutex, snd_buf, newFd, newConn, hpc, kernel>>

TcpSpawnSnd ==
  /\ tpc = "spawnSnd"
  /\ \/ spc' = [spc EXCEPT ![newConn] = "lock"]
     \/ SpawnFails /\ UNCHANGED spc
  /\ tpc' = "accept" /\ newFd' = NoFd /\ newConn' = NoConn
  /\ UNCHANGED <<accept_fd, connect_fd, rpc, mutex, snd_buf, hpc, kernel>>

-----------------------------------------------------------------------------
(* recv_from_socket, in the thread started for connection c. *)

(* The receiver takes its descriptor from accept_fd, before it locks. *)
RecvStart(c) ==
  /\ rpc[c] = "start"
  /\ connect_fd' = [connect_fd EXCEPT ![c] = accept_fd]
  /\ rpc' = [rpc EXCEPT ![c] = "lock"]
  /\ UNCHANGED <<accept_fd, spc, mutex, snd_buf, loop, hpc, kernel>>

RecvLock(c) ==
  /\ rpc[c] = "lock" /\ mutex = Free
  /\ mutex' = Recv(c)
  /\ rpc' = [rpc EXCEPT ![c] = "check"]
  /\ UNCHANGED <<accept_fd, connect_fd, spc, snd_buf, loop, hpc, kernel>>

RecvUnlock(c, next) ==
  /\ mutex' = Free
  /\ rpc' = [rpc EXCEPT ![c] = next]

RecvCheck(c) ==
  /\ rpc[c] = "check"
  /\ \/ accept_fd = NoFd /\ RecvUnlock(c, "done")
     \/ /\ accept_fd # NoFd
        /\ rpc' = [rpc EXCEPT ![c] = "recv"]
        /\ UNCHANGED mutex
  /\ UNCHANGED <<accept_fd, connect_fd, spc, snd_buf, loop, hpc, kernel>>

(* What arrived before a reset can still be read after it, and a reset    *)
(* that the second receive met is not reported again.                      *)
HasConnection(c) == Target(connect_fd[c]) \in Conn

ReceiveFails(c) ==
  HasConnection(c) => peer[Target(connect_fd[c])] = "reset"

(* Mutant: the frame that is too short is skipped without unlocking. *)
RecvNothingKeepsLock(c) ==
  /\ rpc[c] = "recv" /\ HasConnection(c)
  /\ rpc' = [rpc EXCEPT ![c] = "lock"]
  /\ UNCHANGED <<mutex, accept_fd, connect_fd, spc, snd_buf, loop, hpc, kernel>>

(* A timeout, end of file, a short or malformed frame, or a command that   *)
(* is not answered: unlock and go round again.                             *)
RecvNothing(c) ==
  /\ rpc[c] = "recv" /\ HasConnection(c)
  /\ RecvUnlock(c, "lock")
  /\ UNCHANGED <<accept_fd, connect_fd, spc, snd_buf, loop, hpc, kernel>>

(* A whole frame: its handler leaves the reply in snd_buf. *)
RecvCommand(c) ==
  /\ rpc[c] = "recv" /\ HasConnection(c)
  /\ snd_buf' = Recv(c)
  /\ rpc' = [rpc EXCEPT ![c] = "reply"]
  /\ UNCHANGED <<accept_fd, connect_fd, spc, mutex, loop, hpc, kernel>>

RecvError(c) ==
  /\ rpc[c] = "recv" /\ ReceiveFails(c)
  /\ rpc' = [rpc EXCEPT ![c] = "clear"]
  /\ UNCHANGED <<accept_fd, connect_fd, spc, mutex, snd_buf, loop, hpc, kernel>>

RecvReply(c) ==
  /\ rpc[c] = "reply"
  /\ \/ /\ SendWorks(connect_fd[c])
        /\ peer' = AfterSend(Target(connect_fd[c]))
        /\ RecvUnlock(c, "lock")
     \/ /\ SendFails(connect_fd[c])
        /\ rpc' = [rpc EXCEPT ![c] = "clear"]
        /\ UNCHANGED <<peer, mutex>>
  /\ UNCHANGED <<accept_fd, connect_fd, spc, snd_buf, loop, hpc, fdt, otherFd, backlog>>

(* The receiver ends the session: accept_fd first, then the descriptor. *)
RecvClear(c) ==
  /\ rpc[c] = "clear"
  /\ accept_fd' = NoFd
  /\ rpc' = [rpc EXCEPT ![c] = "close"]
  /\ UNCHANGED <<connect_fd, spc, mutex, snd_buf, loop, hpc, kernel>>

(* Mutant: the receiver leaves without closing its descriptor. *)
RecvCloseForgets(c) ==
  /\ rpc[c] = "close"
  /\ RecvUnlock(c, "done")
  /\ UNCHANGED <<accept_fd, connect_fd, spc, snd_buf, loop, hpc, kernel>>

RecvClose(c) ==
  /\ rpc[c] = "close"
  /\ fdt' = Closed(connect_fd[c])
  /\ RecvUnlock(c, "done")
  /\ UNCHANGED <<accept_fd, connect_fd, spc, snd_buf, loop, hpc, otherFd, peer, backlog>>

RecvStep(c) ==
  \/ RecvStart(c) \/ RecvCheck(c) \/ RecvNothing(c) \/ RecvCommand(c)
  \/ RecvError(c) \/ RecvReply(c) \/ RecvClear(c) \/ RecvClose(c)

-----------------------------------------------------------------------------
(* period_snd_socket, in the thread started for connection c. *)

SndLock(c) ==
  /\ spc[c] = "lock" /\ mutex = Free
  /\ mutex' = Snd(c)
  /\ spc' = [spc EXCEPT ![c] = "check"]
  /\ UNCHANGED <<accept_fd, connect_fd, rpc, snd_buf, loop, hpc, kernel>>

SndUnlock(c, next) ==
  /\ mutex' = Free
  /\ spc' = [spc EXCEPT ![c] = next]

(* The session is over, or the feedback frame is built in snd_buf. *)
SndCheck(c) ==
  /\ spc[c] = "check"
  /\ \/ accept_fd = NoFd /\ SndUnlock(c, "done") /\ UNCHANGED snd_buf
     \/ /\ accept_fd # NoFd
        /\ snd_buf' = Snd(c)
        /\ spc' = [spc EXCEPT ![c] = "send"]
        /\ UNCHANGED mutex
  /\ UNCHANGED <<accept_fd, connect_fd, rpc, loop, hpc, kernel>>

(* Mutant: the feedback is sent once instead of periodically. *)
SndSendOnce(c) ==
  /\ spc[c] = "send"
  /\ \/ /\ SendWorks(accept_fd)
        /\ peer' = AfterSend(Target(accept_fd))
        /\ SndUnlock(c, "done")
     \/ /\ SendFails(accept_fd)
        /\ spc' = [spc EXCEPT ![c] = "close"]
        /\ UNCHANGED <<peer, mutex>>
  /\ UNCHANGED <<accept_fd, connect_fd, rpc, snd_buf, loop, hpc, fdt, otherFd, backlog>>

(* The sender sends to whatever accept_fd is now. *)
SndSend(c) ==
  /\ spc[c] = "send"
  /\ \/ /\ SendWorks(accept_fd)
        /\ peer' = AfterSend(Target(accept_fd))
        /\ SndUnlock(c, "lock")
     \/ /\ SendFails(accept_fd)
        /\ spc' = [spc EXCEPT ![c] = "close"]
        /\ UNCHANGED <<peer, mutex>>
  /\ UNCHANGED <<accept_fd, connect_fd, rpc, snd_buf, loop, hpc, fdt, otherFd, backlog>>

(* Mutant: the sender clears accept_fd without closing the descriptor. *)
SndCloseForgets(c) ==
  /\ spc[c] = "close"
  /\ spc' = [spc EXCEPT ![c] = "clear"]
  /\ UNCHANGED <<accept_fd, connect_fd, rpc, mutex, snd_buf, loop, hpc, kernel>>

(* The sender ends the session: the descriptor first, then accept_fd. *)
SndClose(c) ==
  /\ spc[c] = "close"
  /\ fdt' = Closed(accept_fd)
  /\ spc' = [spc EXCEPT ![c] = "clear"]
  /\ UNCHANGED <<accept_fd, connect_fd, rpc, mutex, snd_buf, loop, hpc, otherFd, peer, backlog>>

(* Mutant: the sender closes the descriptor but leaves accept_fd set. *)
SndClearForgets(c) ==
  /\ spc[c] = "clear"
  /\ SndUnlock(c, "done")
  /\ UNCHANGED <<accept_fd, connect_fd, rpc, snd_buf, loop, hpc, kernel>>

SndClear(c) ==
  /\ spc[c] = "clear"
  /\ accept_fd' = NoFd
  /\ SndUnlock(c, "done")
  /\ UNCHANGED <<connect_fd, rpc, snd_buf, loop, hpc, kernel>>

SndStep(c) == SndCheck(c) \/ SndSend(c) \/ SndClose(c) \/ SndClear(c)

-----------------------------------------------------------------------------
(* serial_host_thread: the same feedback, on the host's serial line, built *)
(* in the same buffer under the same mutex.                                *)

(* Mutant: the serial feedback is built without taking the mutex. *)
HostLockNot ==
  /\ hpc = "lock"
  /\ hpc' = "build"
  /\ UNCHANGED <<mutex, session, snd_buf, loop, kernel>>

HostLock ==
  /\ hpc = "lock" /\ mutex = Free
  /\ mutex' = Host
  /\ hpc' = "build"
  /\ UNCHANGED <<session, snd_buf, loop, kernel>>

HostBuild ==
  /\ hpc = "build"
  /\ snd_buf' = Host
  /\ hpc' = "write"
  /\ UNCHANGED <<session, mutex, loop, kernel>>

HostWrite ==
  /\ hpc = "write"
  /\ mutex' = Free
  /\ hpc' = "lock"
  /\ UNCHANGED <<session, snd_buf, loop, kernel>>

-----------------------------------------------------------------------------
TcpStep ==
  TcpAccept \/ TcpCheck \/ TcpRefuse \/ TcpInstall \/ TcpSpawnRecv \/ TcpSpawnSnd

HostStep == HostBuild \/ HostWrite

ThreadStep(c) == RecvLock(c) \/ RecvStep(c) \/ SndLock(c) \/ SndStep(c)

Environment ==
  \/ OtherOpen \/ OtherClose
  \/ \E c \in Conn : Connect(c) \/ PeerLeaves(c)

Next ==
  \/ TcpStep \/ HostLock \/ HostStep \/ Environment
  \/ \E c \in Conn : ThreadStep(c)

Spec == Init /\ [][Next]_vars

(* Every thread that can run does, and a thread that waits for the mutex   *)
(* gets it in the end: its holders sleep between two critical sections.    *)
(* Clients and other users of descriptors owe nothing.                     *)
Fairness ==
  /\ WF_vars(TcpStep) /\ WF_vars(HostStep) /\ SF_vars(HostLock)
  /\ \A c \in Conn :
       /\ WF_vars(RecvStep(c)) /\ SF_vars(RecvLock(c))
       /\ WF_vars(SndStep(c)) /\ SF_vars(SndLock(c))

FairSpec == Spec /\ Fairness

-----------------------------------------------------------------------------
TypeOK ==
  /\ accept_fd \in Fd \cup {NoFd}
  /\ mutex \in Thread \cup {Free}
  /\ snd_buf \in Thread \cup {Free}
  /\ connect_fd \in [Conn -> Fd \cup {NoFd}]
  /\ rpc \in [Conn -> RecvPc]
  /\ spc \in [Conn -> SndPc]
  /\ tpc \in TcpPc
  /\ newFd \in Fd \cup {NoFd}
  /\ newConn \in Conn \cup {NoConn}
  /\ hpc \in HostPc
  /\ fdt \in [Fd -> Conn \cup {NoConn, Other}]
  /\ otherFd \in Fd \cup {NoFd}
  /\ peer \in [Conn -> {"away", "up", "closed", "reset"}]
  /\ backlog \in SUBSET Conn

(* The thread in a critical section is the holder of the mutex. *)
CriticalHolds ==
  /\ \A c \in Conn : rpc[c] \in RecvCritical <=> mutex = Recv(c)
  /\ \A c \in Conn : spc[c] \in SndCritical <=> mutex = Snd(c)
  /\ hpc \in HostCritical <=> mutex = Host

(* What a thread puts on a wire from the shared snd_buf is what it built   *)
(* there, although receivers, senders and the serial feedback all use it.  *)
SendsOwnFrame ==
  /\ \A c \in Conn : rpc[c] = "reply" => snd_buf = Recv(c)
  /\ \A c \in Conn : spc[c] = "send" => snd_buf = Snd(c)
  /\ hpc = "write" => snd_buf = Host

(* Once a thread has seen the session alive it stays so until that thread  *)
(* ends it itself; and the accept loop keeps a connection only while the   *)
(* slot is empty, though it looks without the mutex and writes later.      *)
SlotStable ==
  /\ \A c \in Conn : rpc[c] \in {"recv", "reply", "clear"} => accept_fd # NoFd
  /\ \A c \in Conn : spc[c] \in {"send", "close", "clear"} => accept_fd # NoFd
  /\ tpc = "install" => accept_fd = NoFd
  /\ tpc = "accept" <=> newConn = NoConn
  /\ tpc = "accept" <=> newFd = NoFd

(* A connection gets its receiver and its sender once.                     *)
StartedOnce ==
  /\ \A c \in Conn : peer[c] = "away" \/ c \in backlog =>
       rpc[c] = "none" /\ spc[c] = "none" /\ newConn # c
  /\ \A c \in backlog : peer[c] # "away"
  /\ tpc \in {"check", "refuse", "install", "spawnRecv"} => rpc[newConn] = "none"
  /\ tpc # "accept" => spc[newConn] = "none"

(* The inductive invariant. *)
SessionInv ==
  TypeOK /\ CriticalHolds /\ SendsOwnFrame /\ SlotStable /\ StartedOnce

(* A kept connection is never replaced: accept_fd goes from a descriptor   *)
(* to -1 before it takes another one, whatever the interleaving of the     *)
(* accept loop, which checks and writes it without the mutex, with the     *)
(* threads of earlier sessions.                                            *)
SlotNotOverwritten ==
  [][accept_fd # NoFd => accept_fd' \in {accept_fd, NoFd}]_accept_fd

(* "keep just one connect instance": the threads started for a connection  *)
(* read from, write to and close that connection and nothing else.         *)
OwnConnectionOnly ==
  \A c \in Conn :
    /\ rpc[c] \in {"recv", "reply", "clear", "close"} => Target(connect_fd[c]) = c
    /\ spc[c] \in {"send", "close"} => Target(accept_fd) = c

(* No descriptor is lost: when the threads of all sessions have ended, the *)
(* process holds no connection.                                            *)
NoLeak == SessionOver => \A f \in Fd : fdt[f] \notin Conn

(* The connections the device serves, and those it ever served. One that   *)
(* the accept loop has yet to decide on is not served.                     *)
Served ==
  {c \in Conn : /\ \E f \in Fd : fdt[f] = c
                /\ ~(c = newConn /\ tpc \in {"check", "refuse", "install"})}

EverServed ==
  {c \in Conn : rpc[c] # "none" \/ (c = newConn /\ tpc = "spawnRecv")}

(* The sessions of clients that wait for the end of the last one follow    *)
(* each other: a connection is served from the moment the accept loop      *)
(* keeps it to the one a receiver or a sender closes it, and none begins   *)
(* while another is open.                                                  *)
Session == INSTANCE OneSession WITH open <- Served, seen <- EverServed

OneAtATime == Session!Spec

(* A client that is gone does not block the device: accept_fd becomes -1.  *)
(* Only the periodic sender can notice an orderly close, for the receiver  *)
(* takes the end of file for an incomplete frame.                          *)
SlotFreed ==
  \A c \in Conn :
    (accept_fd # NoFd /\ Target(accept_fd) = c /\ peer[c] \in {"closed", "reset"})
      ~> (accept_fd = NoFd)

(* The serial host gets its feedback for ever, although a receiver may     *)
(* hold the mutex through a receive that blocks.                           *)
HostFed == []<>(hpc = "write")
=============================================================================
