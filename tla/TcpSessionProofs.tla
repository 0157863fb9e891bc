-------------------------- MODULE TcpSessionProofs --------------------------
(***************************************************************************)
(* Proofs about TcpSession, for any set of connections and descriptors,    *)
(* however early clients reconnect and whether or not a thread starts.     *)
(*                                                                         *)
(* SessionInv is inductive.  SendsOwnFrame needs CriticalHolds: whoever    *)
(* overwrites snd_buf holds the mutex, so no other thread stands between   *)
(* its build and its send.  SlotNotOverwritten needs SlotStable's third    *)
(* conjunct, which every action but those of the critical sections leaves  *)
(* alone because only tcp_thread ever sets accept_fd.                      *)
(*                                                                         *)
(* The second part is about clients that wait for the end of the last      *)
(* session (Patient) and threads that start.  SoloInv says who owns each   *)
(* descriptor; what breaks it for other clients is in README.md, section 5. *)
(***************************************************************************)
EXTENDS TcpSession, TLAPS

(* The identities of the threads are different. *)
LEMMA Identities ==
  /\ \A c, d \in Conn : Recv(c) # Snd(d) /\ (Recv(c) = Recv(d) => c = d)
                                         /\ (Snd(c) = Snd(d) => c = d)
  /\ \A c \in Conn : Recv(c) # Free /\ Snd(c) # Free /\ Recv(c) # Host /\ Snd(c) # Host
  /\ Free # Host
PROOF
  BY SessionAssumption DEF Recv, Snd, Free, Host

LEMMA NoFdIsNoDescriptor == NoFd \notin Fd
PROOF
  BY SessionAssumption DEF NoFd

(* The initial state satisfies the inductive invariant. *)
LEMMA InitEstablishes == Init => SessionInv
PROOF
  BY SessionAssumption, Identities, NoFdIsNoDescriptor
     DEF Init, SessionInv, TypeOK, CriticalHolds, SendsOwnFrame, SlotStable,
         StartedOnce, RecvPc, SndPc, TcpPc, HostPc, RecvCritical, SndCritical, HostCritical

(* Closing a descriptor keeps the descriptor table well typed. *)
LEMMA ClosedType ==
  ASSUME TypeOK, NEW fd \in Fd \cup {NoFd}
  PROVE  Closed(fd) \in [Fd -> Conn \cup {NoConn, Other}]
PROOF
  BY DEF Closed, TypeOK

(* A target in Conn is a connection whose peer is known, so a send to it   *)
(* leaves the peers well typed.                                            *)
LEMMA AfterSendType ==
  ASSUME TypeOK, NEW c \in Conn
  PROVE  AfterSend(c) \in [Conn -> {"away", "up", "closed", "reset"}]
PROOF
  BY DEF AfterSend, TypeOK

LEMMA TypeStep == SessionInv /\ [Next]_vars => TypeOK'
PROOF
<1> SUFFICES ASSUME SessionInv, [Next]_vars
             PROVE  TypeOK'
  OBVIOUS
<1> USE NoFdIsNoDescriptor
<1>t. TypeOK
  BY DEF SessionInv
<1>s. SlotStable
  BY DEF SessionInv
<1>1. CASE UNCHANGED vars
  BY <1>t, <1>1 DEF TypeOK, vars, session, loop, kernel
<1>2. CASE TcpStep
  <2>1. CASE TcpAccept
    BY <1>t, <2>1 DEF TcpAccept, TypeOK, TcpPc, session
  <2>2. CASE TcpCheck
    BY <1>t, <2>2 DEF TcpCheck, TypeOK, TcpPc, session, kernel
  <2>3. CASE TcpRefuse
    BY <1>t, <2>3, ClosedType DEF TcpRefuse, TypeOK, TcpPc, session
  <2>4. CASE TcpInstall
    BY <1>t, <2>4 DEF TcpInstall, TypeOK, TcpPc, kernel
  <2>5. CASE TcpSpawnRecv
    BY <1>t, <2>5 DEF TcpSpawnRecv, TypeOK, TcpPc, RecvPc, kernel
  <2>6. CASE TcpSpawnSnd
    BY <1>t, <2>6 DEF TcpSpawnSnd, TypeOK, TcpPc, SndPc, kernel
  <2> QED
    BY <1>2, <2>1, <2>2, <2>3, <2>4, <2>5, <2>6 DEF TcpStep
<1>3. CASE HostLock \/ HostStep
  BY <1>t, <1>3 DEF HostLock, HostStep, HostBuild, HostWrite, TypeOK, HostPc, Thread, session, loop, kernel
<1>4. CASE Environment
  <2>1. CASE OtherOpen
    BY <1>t, <2>1 DEF OtherOpen, TypeOK, session, loop
  <2>2. CASE OtherClose
    BY <1>t, <2>2, ClosedType DEF OtherClose, TypeOK, session, loop
  <2>3. ASSUME NEW c \in Conn, Connect(c) \/ PeerLeaves(c)
        PROVE  TypeOK'
    BY <1>t, <2>3 DEF Connect, PeerLeaves, TypeOK, session, loop
  <2> QED
    BY <1>4, <2>1, <2>2, <2>3 DEF Environment
<1>5. ASSUME NEW c \in Conn, ThreadStep(c)
      PROVE  TypeOK'
  <2>1. CASE RecvLock(c) \/ SndLock(c)
    BY <1>t, <2>1 DEF RecvLock, SndLock, TypeOK, RecvPc, SndPc, Thread, loop, kernel
  <2>2. CASE RecvStart(c) \/ RecvCheck(c) \/ RecvNothing(c) \/ RecvError(c) \/ RecvClear(c)
    BY <1>t, <2>2 DEF RecvStart, RecvCheck, RecvNothing, RecvError, RecvClear, RecvUnlock,
                      TypeOK, RecvPc, loop, kernel
  <2>3. CASE RecvCommand(c)
    BY <1>t, <2>3 DEF RecvCommand, TypeOK, RecvPc, Thread, loop, kernel
  <2>4. CASE RecvReply(c)
    BY <1>t, <2>4, AfterSendType DEF RecvReply, RecvUnlock, SendWorks, TypeOK, RecvPc, loop
  <2>5. CASE RecvClose(c)
    BY <1>t, <2>5, ClosedType DEF RecvClose, RecvUnlock, TypeOK, RecvPc, loop
  <2>6. CASE SndCheck(c)
    BY <1>t, <2>6 DEF SndCheck, SndUnlock, TypeOK, SndPc, Thread, loop, kernel
  <2>7. CASE SndSend(c)
    BY SMTT(30), <1>t, <2>7, AfterSendType DEF SndSend, SndUnlock, SendWorks, TypeOK, SndPc, loop
  <2>8. CASE SndClose(c)
    BY <1>t, <2>8, ClosedType DEF SndClose, TypeOK, SndPc, loop
  <2>9. CASE SndClear(c)
    BY <1>t, <2>9 DEF SndClear, SndUnlock, TypeOK, SndPc, loop, kernel
  <2> QED
    BY <1>5, <2>1, <2>2, <2>3, <2>4, <2>5, <2>6, <2>7, <2>8, <2>9
       DEF ThreadStep, RecvStep, SndStep
<1> QED
  BY <1>1, <1>2, <1>3, <1>4, <1>5 DEF Next

(* Only tcp_thread ever gives accept_fd a descriptor; the others leave it  *)
(* or set it to -1, and only from within their critical section.           *)
LEMMA SlotStep ==
  SessionInv /\ [Next]_vars =>
    \/ accept_fd' = accept_fd
    \/ accept_fd = NoFd
    \/ accept_fd' = NoFd
PROOF
<1> SUFFICES ASSUME SessionInv, [Next]_vars
             PROVE  \/ accept_fd' = accept_fd
                    \/ accept_fd = NoFd
                    \/ accept_fd' = NoFd
  OBVIOUS
<1>1. CASE TcpInstall
  BY <1>1 DEF TcpInstall, SessionInv, SlotStable
<1>2. ASSUME NEW c \in Conn, ThreadStep(c)
      PROVE  accept_fd' = accept_fd \/ accept_fd' = NoFd
  BY <1>2 DEF ThreadStep, RecvLock, SndLock, RecvStep, RecvStart, RecvCheck, RecvNothing,
              RecvCommand, RecvError, RecvReply, RecvClear, RecvClose, SndStep, SndCheck,
              SndSend, SndClose, SndClear, loop, kernel
<1>3. ASSUME ~TcpInstall, ~(\E c \in Conn : ThreadStep(c))
      PROVE  accept_fd' = accept_fd
  BY <1>3 DEF Next, TcpStep, TcpAccept, TcpCheck, TcpRefuse, TcpSpawnRecv, TcpSpawnSnd,
              HostLock, HostStep, HostBuild, HostWrite, Environment, OtherOpen, OtherClose,
              Connect, PeerLeaves, session, kernel, vars
<1> QED
  BY <1>1, <1>2, <1>3

(* Mutual exclusion: every action of a thread moves it into or out of its  *)
(* critical section together with the mutex, and no one else moves it.     *)
LEMMA CriticalStep == SessionInv /\ [Next]_vars => CriticalHolds'
PROOF
<1> SUFFICES ASSUME SessionInv, [Next]_vars
             PROVE  CriticalHolds'
  OBVIOUS
<1> USE DEF SessionInv, RecvCritical, SndCritical, HostCritical
<1>1. CASE UNCHANGED vars
  BY <1>1 DEF CriticalHolds, vars, session, loop
<1>2. CASE TcpStep
  BY <1>2 DEF TcpStep, TcpAccept, TcpCheck, TcpRefuse, TcpInstall, TcpSpawnRecv, TcpSpawnSnd,
              CriticalHolds, StartedOnce, TypeOK, session, kernel
<1>3. CASE HostLock \/ HostStep
  BY <1>3, Identities DEF HostLock, HostStep, HostBuild, HostWrite, CriticalHolds, session
<1>4. CASE Environment
  BY <1>4 DEF Environment, OtherOpen, OtherClose, Connect, PeerLeaves, CriticalHolds, session
<1>5. ASSUME NEW c \in Conn, ThreadStep(c)
      PROVE  CriticalHolds'
  <2> USE Identities DEF CriticalHolds, TypeOK, RecvPc, SndPc
  <2>1. CASE RecvLock(c)
    BY <2>1 DEF RecvLock
  <2>2. CASE RecvStart(c) \/ RecvCommand(c) \/ RecvError(c) \/ RecvClear(c)
    BY <2>2 DEF RecvStart, RecvCommand, RecvError, RecvClear
  <2>3. CASE RecvCheck(c) \/ RecvNothing(c) \/ RecvReply(c) \/ RecvClose(c)
    BY <2>3 DEF RecvCheck, RecvNothing, RecvReply, RecvClose, RecvUnlock
  <2>4. CASE SndLock(c)
    BY <2>4 DEF SndLock
  <2>5. CASE SndCheck(c) \/ SndSend(c) \/ SndClose(c) \/ SndClear(c)
    BY <2>5 DEF SndCheck, SndSend, SndClose, SndClear, SndUnlock
  <2> QED
    BY <1>5, <2>1, <2>2, <2>3, <2>4, <2>5 DEF ThreadStep, RecvStep, SndStep
<1> QED
  BY <1>1, <1>2, <1>3, <1>4, <1>5 DEF Next

LEMMA OwnFrameStep == SessionInv /\ [Next]_vars => SendsOwnFrame'
PROOF
<1> SUFFICES ASSUME SessionInv, [Next]_vars
             PROVE  SendsOwnFrame'
  OBVIOUS
<1> USE DEF SessionInv
<1>1. CASE UNCHANGED vars
  BY <1>1 DEF SendsOwnFrame, vars, session, loop
<1>2. CASE TcpStep
  BY <1>2 DEF TcpStep, TcpAccept, TcpCheck, TcpRefuse, TcpInstall, TcpSpawnRecv, TcpSpawnSnd,
              SendsOwnFrame, SlotStable, TypeOK, TcpPc, session, kernel
<1>3. CASE HostLock \/ HostStep
  BY <1>3, Identities
     DEF HostLock, HostStep, HostBuild, HostWrite, CriticalHolds, SendsOwnFrame,
         RecvCritical, SndCritical, HostCritical, session
<1>4. CASE Environment
  BY <1>4 DEF Environment, OtherOpen, OtherClose, Connect, PeerLeaves, SendsOwnFrame, session
<1>5. ASSUME NEW c \in Conn, ThreadStep(c)
      PROVE  SendsOwnFrame'
  <2> USE DEF SendsOwnFrame, TypeOK, RecvPc, SndPc
  <2>1. CASE RecvCommand(c)
    BY <2>1, Identities DEF RecvCommand, CriticalHolds, RecvCritical, SndCritical, HostCritical
  <2>2. CASE SndCheck(c)
    BY <2>2, Identities
       DEF SndCheck, SndUnlock, CriticalHolds, RecvCritical, SndCritical, HostCritical
  <2>3. CASE RecvLock(c) \/ RecvStart(c) \/ RecvCheck(c) \/ RecvNothing(c) \/ RecvError(c)
             \/ RecvReply(c) \/ RecvClear(c) \/ RecvClose(c)
    BY <2>3 DEF RecvLock, RecvStart, RecvCheck, RecvNothing, RecvError, RecvReply, RecvClear,
                RecvClose, RecvUnlock
  <2>4. CASE SndLock(c) \/ SndSend(c) \/ SndClose(c) \/ SndClear(c)
    BY <2>4 DEF SndLock, SndSend, SndClose, SndClear, SndUnlock
  <2> QED
    BY <1>5, <2>1, <2>2, <2>3, <2>4 DEF ThreadStep, RecvStep, SndStep
<1> QED
  BY <1>1, <1>2, <1>3, <1>4, <1>5 DEF Next

LEMMA SlotStableStep == SessionInv /\ [Next]_vars => SlotStable'
PROOF
<1> SUFFICES ASSUME SessionInv, [Next]_vars
             PROVE  SlotStable'
  OBVIOUS
<1> USE NoFdIsNoDescriptor, SessionAssumption DEF SessionInv
<1>1. CASE UNCHANGED vars
  BY <1>1 DEF SlotStable, vars, session, loop
<1>2. CASE TcpStep
  BY <1>2 DEF TcpStep, TcpAccept, TcpCheck, TcpRefuse, TcpInstall, TcpSpawnRecv, TcpSpawnSnd,
              SlotStable, TypeOK, TcpPc, session, kernel
<1>3. CASE HostLock \/ HostStep
  BY <1>3 DEF HostLock, HostStep, HostBuild, HostWrite, SlotStable, session, loop
<1>4. CASE Environment
  BY <1>4 DEF Environment, OtherOpen, OtherClose, Connect, PeerLeaves, SlotStable, session, loop
<1>5. ASSUME NEW c \in Conn, ThreadStep(c)
      PROVE  SlotStable'
  <2> USE DEF SlotStable, TypeOK, RecvPc, SndPc
  <2>1. CASE RecvLock(c) \/ RecvStart(c) \/ RecvCheck(c) \/ RecvNothing(c) \/ RecvCommand(c)
             \/ RecvError(c) \/ RecvReply(c) \/ RecvClose(c)
    BY <2>1 DEF RecvLock, RecvStart, RecvCheck, RecvNothing, RecvCommand, RecvError, RecvReply,
                RecvClose, RecvUnlock, loop
  <2>2. CASE RecvClear(c)
    BY <2>2, Identities DEF RecvClear, CriticalHolds, RecvCritical, SndCritical, loop
  <2>3. CASE SndLock(c) \/ SndCheck(c) \/ SndSend(c) \/ SndClose(c)
    BY <2>3 DEF SndLock, SndCheck, SndSend, SndClose, SndUnlock, loop
  <2>4. CASE SndClear(c)
    BY <2>4, Identities DEF SndClear, SndUnlock, CriticalHolds, RecvCritical, SndCritical, loop
  <2> QED
    BY <1>5, <2>1, <2>2, <2>3, <2>4 DEF ThreadStep, RecvStep, SndStep
<1> QED
  BY <1>1, <1>2, <1>3, <1>4, <1>5 DEF Next

LEMMA StartedOnceStep == SessionInv /\ [Next]_vars => StartedOnce'
PROOF
<1> SUFFICES ASSUME SessionInv, [Next]_vars
             PROVE  StartedOnce'
  OBVIOUS
<1> USE SessionAssumption DEF SessionInv
<1>1. CASE UNCHANGED vars
  BY <1>1 DEF StartedOnce, vars, session, loop, kernel
<1>2. CASE TcpStep
  <2> USE DEF StartedOnce, TypeOK, SlotStable, session, kernel
  <2>1. CASE TcpAccept
    BY <2>1 DEF TcpAccept
  <2>2. CASE TcpCheck \/ TcpRefuse \/ TcpInstall
    BY <2>2 DEF TcpCheck, TcpRefuse, TcpInstall
  <2>3. CASE TcpSpawnRecv \/ TcpSpawnSnd
    BY <2>3 DEF TcpSpawnRecv, TcpSpawnSnd
  <2> QED
    BY <1>2, <2>1, <2>2, <2>3 DEF TcpStep
<1>3. CASE HostLock \/ HostStep
  BY <1>3 DEF HostLock, HostStep, HostBuild, HostWrite, StartedOnce, session, loop, kernel
<1>4. CASE Environment
  BY <1>4 DEF Environment, OtherOpen, OtherClose, Connect, PeerLeaves, StartedOnce, TypeOK,
              SlotStable, session, loop
<1>5. ASSUME NEW c \in Conn, ThreadStep(c)
      PROVE  StartedOnce'
  <2> USE DEF StartedOnce, TypeOK, SlotStable, RecvPc, SndPc, kernel, loop
  <2>1. CASE RecvLock(c) \/ RecvStart(c) \/ RecvCheck(c) \/ RecvNothing(c) \/ RecvCommand(c)
             \/ RecvError(c) \/ RecvClear(c) \/ RecvClose(c)
    BY <2>1 DEF RecvLock, RecvStart, RecvCheck, RecvNothing, RecvCommand, RecvError, RecvClear,
                RecvClose, RecvUnlock
  <2>2. CASE RecvReply(c)
    BY <2>2 DEF RecvReply, RecvUnlock, AfterSend, SendWorks
  <2>3. CASE SndLock(c) \/ SndCheck(c) \/ SndClose(c) \/ SndClear(c)
    BY <2>3 DEF SndLock, SndCheck, SndClose, SndClear, SndUnlock
  <2>4. CASE SndSend(c)
    BY <2>4 DEF SndSend, SndUnlock, AfterSend, SendWorks
  <2> QED
    BY <1>5, <2>1, <2>2, <2>3, <2>4 DEF ThreadStep, RecvStep, SndStep
<1> QED
  BY <1>1, <1>2, <1>3, <1>4, <1>5 DEF Next

(* In every reachable state the session is well typed, the mutex excludes, *)
(* the slot is stable and every thread sends the frame it built.           *)
THEOREM SessionIsInvariant == Spec => []SessionInv
PROOF
<1>1. Init => SessionInv
  BY InitEstablishes
<1>2. SessionInv /\ [Next]_vars => SessionInv'
  BY TypeStep, CriticalStep, OwnFrameStep, SlotStableStep, StartedOnceStep
     DEF SessionInv
<1> QED
  BY <1>1, <1>2, PTL DEF Spec

(* No receiver, sender or serial feedback ever sends bytes that another    *)
(* thread put into the shared snd_buf.                                     *)
THEOREM OwnFrameSent == Spec => []SendsOwnFrame
PROOF
<1>1. SessionInv => SendsOwnFrame
  BY DEF SessionInv
<1> QED
  BY SessionIsInvariant, <1>1, PTL

(* accept_fd is emptied before it takes another descriptor, although       *)
(* tcp_thread looks at it and writes it without the mutex.                 *)
THEOREM SlotIsNotOverwritten == Spec => SlotNotOverwritten
PROOF
<1>1. SessionInv /\ [Next]_vars
        => [accept_fd # NoFd => accept_fd' \in {accept_fd, NoFd}]_accept_fd
  BY SlotStep
<1> QED
  BY SessionIsInvariant, <1>1, PTL DEF Spec, SlotNotOverwritten
-----------------------------------------------------------------------------
(* c is waiting to be accepted, being accepted, or has a thread.           *)
Active(c) ==
  \/ c \in backlog \/ newConn = c
  \/ rpc[c] \notin {"none", "done"} \/ spc[c] \notin {"none", "done"}

(* c is the connection whose descriptor accept_fd holds: its receiver is   *)
(* about to be started, or has not ended the session.                      *)
Live(c) ==
  \/ newConn = c /\ tpc = "spawnRecv"
  \/ rpc[c] \in {"start", "lock", "check", "recv", "reply", "clear"}

(* A client that waits meets no other.                                     *)
OneActive == \A c, d \in Conn : Active(c) /\ Active(d) => c = d

(* accept_fd refers to the connection that is live, but for the moment in  *)
(* which its sender has closed it and not yet cleared it.                  *)
SlotIsLive ==
  accept_fd # NoFd =>
    \E c \in Conn : Live(c) /\ (spc[c] # "clear" => fdt[accept_fd] = c)

(* A descriptor that refers to a connection is in the hands of the accept  *)
(* loop, in accept_fd, or about to be closed by the receiver.              *)
Held ==
  \A c \in Conn, f \in Fd : fdt[f] = c =>
    \/ newConn = c /\ newFd = f /\ tpc \in {"check", "refuse", "install"}
    \/ accept_fd = f /\ Live(c) /\ spc[c] # "clear"
    \/ rpc[c] = "close" /\ connect_fd[c] = f

(* What the threads have in their hands is theirs.                         *)
OwnDescriptor ==
  /\ tpc \in {"check", "install"} => fdt[newFd] = newConn
  /\ tpc # "refuse"
  /\ tpc = "spawnSnd" => rpc[newConn] # "none"
  /\ otherFd # NoFd => fdt[otherFd] = Other
  /\ \A c \in Conn :
       rpc[c] \in {"lock", "check", "recv", "reply", "clear"} /\ accept_fd # NoFd
         => connect_fd[c] = accept_fd
  /\ \A c \in Conn :
       rpc[c] = "close" =>
         accept_fd = NoFd /\ connect_fd[c] \in Fd /\ fdt[connect_fd[c]] = c

(* The invariant of sessions that follow each other. *)
SoloInv == OneActive /\ SlotIsLive /\ Held /\ OwnDescriptor

(* Who is active while accept_fd is set is live, and accept_fd is his.     *)
LEMMA LiveIsOwner ==
  ASSUME SoloInv, accept_fd # NoFd, NEW c \in Conn, Active(c)
  PROVE  Live(c) /\ (spc[c] # "clear" => fdt[accept_fd] = c)
PROOF
<1>1. PICK d \in Conn : Live(d) /\ (spc[d] # "clear" => fdt[accept_fd] = d)
  BY DEF SoloInv, SlotIsLive
<1>2. Active(d) \/ tpc = "spawnRecv"
  BY <1>1 DEF Live, Active
<1>3. Active(d)
  BY <1>1, <1>2 DEF Live, Active
<1>4. d = c
  BY <1>3 DEF SoloInv, OneActive
<1> QED
  BY <1>1, <1>4

(* A thread that runs leaves the others no place: they are not active.     *)
LEMMA Alone ==
  ASSUME SoloInv, TypeOK, NEW c \in Conn, Active(c)
  PROVE  \A d \in Conn : d # c =>
           d \notin backlog /\ newConn # d /\ rpc[d] \in {"none", "done"} /\ spc[d] \in {"none", "done"}
PROOF
  BY DEF SoloInv, OneActive, Active

(* At the start nothing is held. *)
LEMMA SoloInit == Init => SoloInv
PROOF
  BY SessionAssumption, NoFdIsNoDescriptor
     DEF Init, SoloInv, OneActive, Active, SlotIsLive, Held, OwnDescriptor

(* The accept loop hands each descriptor on. *)
LEMMA LoopSolo ==
  ASSUME ~SpawnFails, SessionInv, SoloInv, TcpStep
  PROVE  SoloInv'
PROOF
<1> USE NoFdIsNoDescriptor, SessionAssumption
<1> USE DEF SoloInv, SessionInv, OneActive, Active, Live, SlotIsLive, Held, OwnDescriptor,
            TypeOK, SlotStable, StartedOnce, session, kernel
<1>1. CASE TcpAccept
  BY <1>1 DEF TcpAccept, LowestUnused
<1>2. CASE TcpCheck
  BY <1>2 DEF TcpCheck
<1>3. CASE TcpRefuse
  BY <1>3 DEF TcpRefuse
<1>4. CASE TcpInstall
  BY <1>4 DEF TcpInstall
<1>5. CASE TcpSpawnRecv
  BY <1>5 DEF TcpSpawnRecv
<1>6. CASE TcpSpawnSnd
  BY <1>6 DEF TcpSpawnSnd
<1> QED
  BY <1>1, <1>2, <1>3, <1>4, <1>5, <1>6 DEF TcpStep

(* A client comes when nobody is active; other threads use free numbers.   *)
LEMMA EnvironmentSolo ==
  ASSUME Patient, SessionInv, SoloInv, Environment
  PROVE  SoloInv'
PROOF
<1> USE NoFdIsNoDescriptor, SessionAssumption
<1> USE DEF SoloInv, SessionInv, OneActive, Active, Live, SlotIsLive, Held, OwnDescriptor,
            TypeOK, SlotStable, StartedOnce, session, loop
<1>1. CASE OtherOpen
  BY <1>1 DEF OtherOpen, LowestUnused
<1>2. CASE OtherClose
  BY <1>2 DEF OtherClose, Closed
<1>3. ASSUME NEW c \in Conn, Connect(c)
      PROVE  SoloInv'
  BY <1>3 DEF Connect, SessionOver
<1>4. ASSUME NEW c \in Conn, PeerLeaves(c)
      PROVE  SoloInv'
  BY <1>4 DEF PeerLeaves
<1> QED
  BY <1>1, <1>2, <1>3, <1>4 DEF Environment

(* A receiver's step: its sender is outside its critical section while the *)
(* receiver is in its own, and nobody else is active.                      *)
LEMMA ReceiverSolo ==
  ASSUME SessionInv, SoloInv, NEW c \in Conn, RecvLock(c) \/ RecvStep(c)
  PROVE  SoloInv'
PROOF
<1>1. Active(c) /\ rpc[c] \notin {"none", "done"}
  BY DEF Active, RecvLock, RecvStep, RecvStart, RecvCheck, RecvNothing, RecvCommand, RecvError,
         RecvReply, RecvClear, RecvClose
<1>2. \A d \in Conn : d # c =>
        d \notin backlog /\ newConn # d /\ rpc[d] \in {"none", "done"} /\ spc[d] \in {"none", "done"}
  BY <1>1, Alone DEF SessionInv
<1>3. accept_fd # NoFd => Live(c) /\ (spc[c] # "clear" => fdt[accept_fd] = c)
  BY <1>1, LiveIsOwner
<1>4. rpc[c] \in RecvCritical => spc[c] \notin SndCritical
  BY Identities DEF SessionInv, CriticalHolds
<1>5. newConn = c => tpc = "spawnSnd"
  BY <1>1, SessionAssumption DEF SessionInv, StartedOnce, SlotStable, TypeOK, TcpPc
<1> USE NoFdIsNoDescriptor, SessionAssumption, <1>1, <1>2, <1>3, <1>4, <1>5
<1> USE DEF SoloInv, SessionInv, OneActive, Active, Live, SlotIsLive, Held, OwnDescriptor,
            TypeOK, SlotStable, kernel, loop, RecvCritical, SndCritical, RecvUnlock
<1>a. CASE RecvLock(c)
  BY <1>a DEF RecvLock
<1>b. CASE RecvStart(c)
  BY <1>b DEF RecvStart
<1>c. CASE RecvCheck(c)
  BY <1>c DEF RecvCheck
<1>d. CASE RecvNothing(c) \/ RecvCommand(c) \/ RecvError(c)
  BY <1>d DEF RecvNothing, RecvCommand, RecvError
<1>e. CASE RecvReply(c)
  BY <1>e DEF RecvReply
<1>f. CASE RecvClear(c)
  BY <1>f DEF RecvClear
<1>g. CASE RecvClose(c)
  BY <1>g DEF RecvClose, Closed
<1> QED
  BY <1>a, <1>b, <1>c, <1>d, <1>e, <1>f, <1>g DEF RecvStep

(* A sender's step, likewise. *)
LEMMA SenderSolo ==
  ASSUME SessionInv, SoloInv, NEW c \in Conn, SndLock(c) \/ SndStep(c)
  PROVE  SoloInv'
PROOF
<1>1. Active(c) /\ spc[c] \notin {"none", "done"}
  BY DEF Active, SndLock, SndStep, SndCheck, SndSend, SndClose, SndClear
<1>2. \A d \in Conn : d # c =>
        d \notin backlog /\ newConn # d /\ rpc[d] \in {"none", "done"} /\ spc[d] \in {"none", "done"}
  BY <1>1, Alone DEF SessionInv
<1>3. accept_fd # NoFd => Live(c) /\ (spc[c] # "clear" => fdt[accept_fd] = c)
  BY <1>1, LiveIsOwner
<1>4. rpc[c] \in RecvCritical => spc[c] \notin SndCritical
  BY Identities DEF SessionInv, CriticalHolds
<1>5. newConn # c
  BY <1>1, SessionAssumption DEF SessionInv, StartedOnce, SlotStable, TypeOK
<1> USE NoFdIsNoDescriptor, SessionAssumption, <1>1, <1>2, <1>3, <1>4, <1>5
<1> USE DEF SoloInv, SessionInv, OneActive, Active, Live, SlotIsLive, Held, OwnDescriptor,
            TypeOK, SlotStable, kernel, loop, RecvCritical, SndCritical, SndUnlock
<1>a. CASE SndLock(c)
  BY <1>a DEF SndLock
<1>b. CASE SndCheck(c)
  BY <1>b DEF SndCheck
<1>c. CASE SndSend(c)
  BY <1>c DEF SndSend
<1>d. CASE SndClose(c)
  BY <1>d DEF SndClose, Closed
<1>e. CASE SndClear(c)
  BY <1>e DEF SndClear
<1> QED
  BY <1>a, <1>b, <1>c, <1>d, <1>e DEF SndStep

(* Every step keeps SoloInv. *)
LEMMA SoloStep ==
  ASSUME Patient, ~SpawnFails, SessionInv, SoloInv, [Next]_vars
  PROVE  SoloInv'
PROOF
<1>1. CASE UNCHANGED vars \/ HostLock \/ HostStep
  BY <1>1 DEF vars, session, loop, kernel, HostLock, HostStep, HostBuild, HostWrite, SoloInv,
              OneActive, Active, Live, SlotIsLive, Held, OwnDescriptor
<1>2. CASE TcpStep
  BY <1>2, LoopSolo
<1>3. CASE Environment
  BY <1>3, EnvironmentSolo
<1>4. ASSUME NEW c \in Conn, ThreadStep(c)
      PROVE  SoloInv'
  BY <1>4, ReceiverSolo, SenderSolo DEF ThreadStep
<1> QED
  BY <1>1, <1>2, <1>3, <1>4 DEF Next

(* When clients wait for the end of the last session and threads start,    *)
(* every descriptor of a connection has one owner.                         *)
THEOREM SoloIsInvariant ==
  ASSUME Patient, ~SpawnFails
  PROVE  Spec => []SoloInv
PROOF
<1>1. SessionInv /\ SoloInv /\ [Next]_vars => SoloInv'
  BY SoloStep
<1> QED
  BY <1>1, SoloInit, SessionIsInvariant, PTL DEF Spec

(* The threads started for a connection use that connection and no other.  *)
THEOREM ThreadsKeepTheirConnection ==
  ASSUME Patient, ~SpawnFails
  PROVE  Spec => []OwnConnectionOnly
PROOF
<1>1. SessionInv /\ SoloInv => OwnConnectionOnly
  <2> SUFFICES ASSUME SessionInv, SoloInv, NEW c \in Conn
               PROVE  /\ rpc[c] \in {"recv", "reply", "clear", "close"} => Target(connect_fd[c]) = c
                      /\ spc[c] \in {"send", "close"} => Target(accept_fd) = c
    BY DEF OwnConnectionOnly
  <2>1. accept_fd # NoFd /\ Active(c) => spc[c] = "clear" \/ fdt[accept_fd] = c
    BY LiveIsOwner
  <2>2. CASE rpc[c] \in {"recv", "reply", "clear"}
    <3>1. accept_fd # NoFd /\ Active(c) /\ connect_fd[c] = accept_fd
      BY <2>2 DEF SessionInv, SlotStable, Active, SoloInv, OwnDescriptor
    <3>2. spc[c] \notin {"send", "close", "clear"}
      BY <2>2, Identities DEF SessionInv, CriticalHolds, RecvCritical, SndCritical
    <3> QED
      BY <2>1, <2>2, <3>1, <3>2 DEF Target
  <2>3. CASE rpc[c] = "close"
    <3>1. connect_fd[c] \in Fd /\ fdt[connect_fd[c]] = c
      BY <2>3 DEF SoloInv, OwnDescriptor
    <3>2. spc[c] \notin {"send", "close", "clear"}
      BY <2>3, Identities DEF SessionInv, CriticalHolds, RecvCritical, SndCritical
    <3> QED
      BY <2>3, <3>1, <3>2, NoFdIsNoDescriptor DEF Target
  <2>4. CASE spc[c] \in {"send", "close"}
    <3>1. accept_fd # NoFd /\ Active(c)
      BY <2>4 DEF SessionInv, SlotStable, Active
    <3>2. rpc[c] \notin RecvCritical
      BY <2>4, Identities DEF SessionInv, CriticalHolds, SndCritical
    <3> QED
      BY <2>1, <2>4, <3>1, <3>2 DEF Target, RecvCritical
  <2> QED
    BY <2>2, <2>3, <2>4
<1> QED
  BY <1>1, SoloIsInvariant, SessionIsInvariant, PTL

(* When the threads of all sessions have ended no connection is held.      *)
THEOREM NothingLeaks ==
  ASSUME Patient, ~SpawnFails
  PROVE  Spec => []NoLeak
PROOF
<1>1. SessionInv /\ SoloInv => NoLeak
  BY SessionAssumption DEF SessionInv, SlotStable, SoloInv, Held, Live, NoLeak, SessionOver
<1> QED
  BY <1>1, SoloIsInvariant, SessionIsInvariant, PTL

(* A step of the server is a step of OneSession or leaves it alone.        *)
LEMMA ServesOne ==
  ASSUME Patient, ~SpawnFails, SessionInv, SoloInv, [Next]_vars
  PROVE  [Session!Next]_<<Served, EverServed>>
PROOF
<1> USE NoFdIsNoDescriptor, SessionAssumption
<1> DEFINE Idle == Served' = Served /\ EverServed' = EverServed
<1> USE DEF Served, EverServed, SessionInv, SoloInv, TypeOK, SlotStable, StartedOnce, session, kernel
<1>1. CASE UNCHANGED vars \/ HostLock \/ HostStep
  <2>1. Idle
    BY <1>1 DEF vars, loop, HostLock, HostStep, HostBuild, HostWrite
  <2> QED
    BY <2>1
<1>2. CASE TcpAccept
  <2>1. PICK c \in backlog, f \in Fd :
          /\ LowestUnused(f) /\ fdt' = [fdt EXCEPT ![f] = c]
          /\ newFd' = f /\ newConn' = c /\ tpc' = "check" /\ rpc' = rpc
    BY <1>2 DEF TcpAccept
  <2>2. tpc = "accept" /\ newConn = NoConn /\ c \in Conn /\ rpc[c] = "none" /\ fdt[f] = NoConn
    BY <1>2, <2>1 DEF TcpAccept, LowestUnused
  <2>3. \A g \in Fd : fdt[g] # c
    BY <2>2 DEF Held, Live
  <2>4. Served' = Served
    BY <2>1, <2>2, <2>3
  <2>5. EverServed' = EverServed
    BY <2>1, <2>2
  <2> QED
    BY <2>4, <2>5
<1>3. CASE TcpCheck \/ TcpRefuse
  <2>1. Idle
    BY <1>3 DEF TcpCheck, TcpRefuse, OwnDescriptor
  <2> QED
    BY <2>1
<1>4. CASE TcpInstall
  <2>1. newConn \in Conn /\ Active(newConn) /\ newConn \notin EverServed
    BY <1>4 DEF TcpInstall, Active
  <2>2. Served = {}
    BY <1>4, <2>1, Alone DEF TcpInstall, Held, Live
  <2>3. Served' = {newConn} /\ EverServed' = EverServed \cup {newConn}
    BY <1>4, <2>1, <2>2 DEF TcpInstall, OwnDescriptor
  <2> QED
    BY <2>1, <2>2, <2>3 DEF Session!Next, Session!Begin
<1>5. CASE TcpSpawnRecv \/ TcpSpawnSnd
  <2>1. Idle
    BY <1>5 DEF TcpSpawnRecv, TcpSpawnSnd, OwnDescriptor
  <2> QED
    BY <2>1
<1>6. CASE Environment
  <2>1. Idle
    BY <1>6 DEF Environment, OtherOpen, OtherClose, Connect, PeerLeaves, LowestUnused, Closed,
                OwnDescriptor, loop
  <2> QED
    BY <2>1
<1>7. ASSUME NEW c \in Conn, RecvClose(c) \/ SndClose(c)
      PROVE  Session!End
  <2>1. Active(c)
    BY <1>7 DEF RecvClose, SndClose, Active
  <2>2. \A f \in Fd : fdt[f] \in Conn => fdt[f] = c
    BY <2>1, Alone DEF Held, Live
  <2>3. newConn = c => tpc = "spawnSnd"
    BY <1>7 DEF RecvClose, SndClose, TcpPc
  <2>4. CASE RecvClose(c)
    <3>1. \A f \in Fd : fdt[f] = c <=> f = connect_fd[c]
      BY <2>3, <2>4 DEF RecvClose, Held, OwnDescriptor
    <3>2. /\ connect_fd[c] \in Fd /\ fdt' = [fdt EXCEPT ![connect_fd[c]] = NoConn]
          /\ newConn' = newConn /\ tpc' = tpc
      BY <2>4 DEF RecvClose, Closed, OwnDescriptor, loop
    <3>3. Served = {c}
      <4>1. fdt[connect_fd[c]] = c
        BY <3>1, <3>2
      <4>2. c \in Served
        BY <2>3, <3>2, <4>1
      <4>3. \A d \in Served : d = c
        BY <2>2
      <4> QED
        BY ONLY <4>2, <4>3
    <3>4. \A f \in Fd : fdt'[f] \notin Conn
      BY <2>2, <3>1, <3>2
    <3>5. Served' = {}
      BY <3>4
    <3>6. EverServed' = EverServed
      BY <2>4 DEF RecvClose, RecvUnlock, loop
    <3> QED
      BY <3>3, <3>5, <3>6 DEF Session!End
  <2>5. CASE SndClose(c)
    <3>1. rpc[c] # "close" /\ accept_fd # NoFd
      BY <2>5, Identities DEF SndClose, CriticalHolds, RecvCritical, SndCritical
    <3>2. fdt[accept_fd] = c
      BY <2>1, <2>5, <3>1, LiveIsOwner DEF SndClose
    <3>3. \A f \in Fd : fdt[f] = c <=> f = accept_fd
      BY <2>3, <3>1, <3>2 DEF Held
    <3>4. Served = {c} /\ Served' = {}
      BY <2>2, <2>3, <2>5, <3>1, <3>3 DEF SndClose, Closed, loop
    <3>5. EverServed' = EverServed
      BY <2>5 DEF SndClose, loop
    <3> QED
      BY <3>4, <3>5 DEF Session!End
  <2> QED
    BY <1>7, <2>4, <2>5
<1>8. ASSUME NEW c \in Conn, ThreadStep(c), ~RecvClose(c), ~SndClose(c)
      PROVE  Idle
  BY <1>8 DEF ThreadStep, RecvLock, SndLock, RecvStep, RecvStart, RecvCheck, RecvNothing,
              RecvCommand, RecvError, RecvReply, RecvClear, SndStep, SndCheck, SndSend, SndClear,
              RecvUnlock, SndUnlock, RecvPc, loop
<1> QED
  BY <1>1, <1>2, <1>3, <1>4, <1>5, <1>6, <1>7, <1>8
     DEF Next, TcpStep, ThreadStep, RecvStep, SndStep, Session!Next

(* "keep just one connect instance": clients that wait for the end of the  *)
(* last session are served one at a time, each once.                       *)
THEOREM SessionsFollowEachOther ==
  ASSUME Patient, ~SpawnFails
  PROVE  Spec => OneAtATime
PROOF
<1>1. Init => Session!Init
  BY SessionAssumption DEF Init, Session!Init, Served, EverServed
<1>2. SessionInv /\ SoloInv /\ [Next]_vars => [Session!Next]_<<Served, EverServed>>
  BY ServesOne
<1> QED
  BY <1>1, <1>2, SoloIsInvariant, SessionIsInvariant, PTL DEF Spec, OneAtATime, Session!Spec
=============================================================================
