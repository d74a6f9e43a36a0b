------------------------ MODULE ServerProcess_proofs ------------------------
(***************************************************************************)
(* Proofs about ServerProcess for any number of processes, directories and *)
(* inodes: unless a lock file was removed under a rival that had it open,  *)
(* one server per directory holds the lock, and a serving server owns the  *)
(* socket path unless a server of another directory took it.               *)
(***************************************************************************)
EXTENDS ServerProcess, TLAPS

\* An flock is exclusive on its inode.
FlockInv == \A s, t \in locked : fd[s] = fd[t] => s = t

\* Whoever has a lock file open has open what the directory names.
LockFileInv == ~raced => \A s \in Servers : fd[s] # None => lockFile[wdir[s]] = fd[s]

\* From bind on, the socket path names the server that bound it.
BoundSteps == {"listen", "serve", "close_socket", "rm_socket"}
SocketInv ==
    ~raced => \A s \in Servers : step[s] \in BoundSteps /\ s \notin robbed => socket = s

IInv == TypeOK /\ FlockInv /\ LockFileInv /\ SocketInv

LEMMA InitIInv == Init => IInv
<1> SUFFICES ASSUME Init PROVE IInv
  OBVIOUS
<1>1. TypeOK
  BY NoneAssumption DEF Init, TypeOK, HandlesOK, Steps, OpenSteps, SocketSteps
<1>2. FlockInv /\ LockFileInv /\ SocketInv
  BY NoneAssumption DEF Init, FlockInv, LockFileInv, SocketInv, BoundSteps
<1>. QED
  BY <1>1, <1>2 DEF IInv

\* Every step keeps descriptors, locks and step counters consistent.
LEMMA TypeStep == TypeOK /\ [Next]_vars => TypeOK'
<1> SUFFICES ASSUME TypeOK, [Next]_vars
             PROVE  TypeOK'
  OBVIOUS
<1> USE NoneAssumption
    DEF TypeOK, HandlesOK, Steps, OpenSteps, SocketSteps, Goto, Exit
<1>1. ASSUME NEW s \in Servers, NEW w \in Wdirs, Start(s, w)
      PROVE  TypeOK'
  BY <1>1 DEF Start
<1>2. ASSUME NEW s \in Servers, OpenLock(s)
      PROVE  TypeOK'
  BY <1>2 DEF OpenLock, UnusedInodes
<1>3. ASSUME NEW s \in Servers, FlockGranted(s)
      PROVE  TypeOK'
  BY <1>3 DEF FlockGranted
<1>4. ASSUME NEW s \in Servers, FlockRefused(s)
      PROVE  TypeOK'
  BY <1>4 DEF FlockRefused
<1>5. ASSUME NEW s \in Servers, RemoveStaleSocket(s)
      PROVE  TypeOK'
  BY <1>5 DEF RemoveStaleSocket, UnlinkSocketPath
<1>6. ASSUME NEW s \in Servers, Bind(s)
      PROVE  TypeOK'
  BY <1>6 DEF Bind
<1>7. ASSUME NEW s \in Servers, BindRefused(s)
      PROVE  TypeOK'
  BY <1>7 DEF BindRefused
<1>8. ASSUME NEW s \in Servers, Listen(s)
      PROVE  TypeOK'
  BY <1>8 DEF Listen
<1>9. ASSUME NEW s \in Servers, Stop(s)
      PROVE  TypeOK'
  BY <1>9 DEF Stop
<1>10. ASSUME NEW s \in Servers, CloseSocket(s)
      PROVE  TypeOK'
  BY <1>10 DEF CloseSocket
<1>11. ASSUME NEW s \in Servers, RemoveSocket(s)
      PROVE  TypeOK'
  BY <1>11 DEF RemoveSocket, UnlinkSocketPath
<1>12. ASSUME NEW s \in Servers, DestroyContext(s)
      PROVE  TypeOK'
  BY <1>12 DEF DestroyContext
<1>13. ASSUME NEW s \in Servers, CloseLock(s)
      PROVE  TypeOK'
  BY <1>13 DEF CloseLock
<1>14. ASSUME NEW s \in Servers, UnlinkLock(s)
      PROVE  TypeOK'
  BY <1>14 DEF UnlinkLock
<1>15. ASSUME NEW s \in Servers, Die(s)
      PROVE  TypeOK'
  BY <1>15 DEF Die
<1>16. CASE UNCHANGED vars
  BY <1>16 DEF vars
<1>. QED
  BY <1>1, <1>2, <1>3, <1>4, <1>5, <1>6, <1>7, <1>8, <1>9, <1>10, <1>11, <1>12, <1>13, <1>14, <1>15, <1>16
     DEF Next, Acquire, CreateSocket, Shutdown, Release

\* Locks are granted only on inodes nobody has locked.
LEMMA FlockStep == TypeOK /\ FlockInv /\ [Next]_vars => FlockInv'
<1> SUFFICES ASSUME TypeOK, FlockInv, [Next]_vars
             PROVE  FlockInv'
  OBVIOUS
<1> USE NoneAssumption
    DEF TypeOK, HandlesOK, OpenSteps, SocketSteps, FlockInv, Goto, Exit
<1>1. ASSUME NEW s \in Servers, NEW w \in Wdirs, Start(s, w)
      PROVE  FlockInv'
  BY <1>1 DEF Start
<1>2. ASSUME NEW s \in Servers, OpenLock(s)
      PROVE  FlockInv'
  BY <1>2 DEF OpenLock, UnusedInodes
<1>3. ASSUME NEW s \in Servers, FlockGranted(s)
      PROVE  FlockInv'
  BY <1>3 DEF FlockGranted, LockFree
<1>4. ASSUME NEW s \in Servers, FlockRefused(s)
      PROVE  FlockInv'
  BY <1>4 DEF FlockRefused, LockFree
<1>5. ASSUME NEW s \in Servers, RemoveStaleSocket(s)
      PROVE  FlockInv'
  BY <1>5 DEF RemoveStaleSocket, UnlinkSocketPath
<1>6. ASSUME NEW s \in Servers, Bind(s)
      PROVE  FlockInv'
  BY <1>6 DEF Bind
<1>7. ASSUME NEW s \in Servers, BindRefused(s)
      PROVE  FlockInv'
  BY <1>7 DEF BindRefused
<1>8. ASSUME NEW s \in Servers, Listen(s)
      PROVE  FlockInv'
  BY <1>8 DEF Listen
<1>9. ASSUME NEW s \in Servers, Stop(s)
      PROVE  FlockInv'
  BY <1>9 DEF Stop
<1>10. ASSUME NEW s \in Servers, CloseSocket(s)
      PROVE  FlockInv'
  BY <1>10 DEF CloseSocket
<1>11. ASSUME NEW s \in Servers, RemoveSocket(s)
      PROVE  FlockInv'
  BY <1>11 DEF RemoveSocket, UnlinkSocketPath
<1>12. ASSUME NEW s \in Servers, DestroyContext(s)
      PROVE  FlockInv'
  BY <1>12 DEF DestroyContext
<1>13. ASSUME NEW s \in Servers, CloseLock(s)
      PROVE  FlockInv'
  BY <1>13 DEF CloseLock
<1>14. ASSUME NEW s \in Servers, UnlinkLock(s)
      PROVE  FlockInv'
  BY <1>14 DEF UnlinkLock
<1>15. ASSUME NEW s \in Servers, Die(s)
      PROVE  FlockInv'
  BY <1>15 DEF Die
<1>16. CASE UNCHANGED vars
  BY <1>16 DEF vars
<1>. QED
  BY <1>1, <1>2, <1>3, <1>4, <1>5, <1>6, <1>7, <1>8, <1>9, <1>10, <1>11, <1>12, <1>13, <1>14, <1>15, <1>16
     DEF Next, Acquire, CreateSocket, Shutdown, Release

\* A name is unlinked under an open descriptor only in a race, and is then so recorded.
LEMMA LockFileStep == TypeOK /\ LockFileInv /\ [Next]_vars => LockFileInv'
<1> SUFFICES ASSUME TypeOK, LockFileInv, [Next]_vars
             PROVE  LockFileInv'
  OBVIOUS
<1> USE NoneAssumption
    DEF TypeOK, HandlesOK, OpenSteps, SocketSteps, LockFileInv, Goto, Exit
<1>1. ASSUME NEW s \in Servers, NEW w \in Wdirs, Start(s, w)
      PROVE  LockFileInv'
  BY <1>1 DEF Start
<1>2. ASSUME NEW s \in Servers, OpenLock(s)
      PROVE  LockFileInv'
  BY <1>2 DEF OpenLock, UnusedInodes
<1>3. ASSUME NEW s \in Servers, FlockGranted(s)
      PROVE  LockFileInv'
  BY <1>3 DEF FlockGranted, LockFree
<1>4. ASSUME NEW s \in Servers, FlockRefused(s)
      PROVE  LockFileInv'
  BY <1>4 DEF FlockRefused, LockFree
<1>5. ASSUME NEW s \in Servers, RemoveStaleSocket(s)
      PROVE  LockFileInv'
  BY <1>5 DEF RemoveStaleSocket, UnlinkSocketPath
<1>6. ASSUME NEW s \in Servers, Bind(s)
      PROVE  LockFileInv'
  BY <1>6 DEF Bind
<1>7. ASSUME NEW s \in Servers, BindRefused(s)
      PROVE  LockFileInv'
  BY <1>7 DEF BindRefused
<1>8. ASSUME NEW s \in Servers, Listen(s)
      PROVE  LockFileInv'
  BY <1>8 DEF Listen
<1>9. ASSUME NEW s \in Servers, Stop(s)
      PROVE  LockFileInv'
  BY <1>9 DEF Stop
<1>10. ASSUME NEW s \in Servers, CloseSocket(s)
      PROVE  LockFileInv'
  BY <1>10 DEF CloseSocket
<1>11. ASSUME NEW s \in Servers, RemoveSocket(s)
      PROVE  LockFileInv'
  BY <1>11 DEF RemoveSocket, UnlinkSocketPath
<1>12. ASSUME NEW s \in Servers, DestroyContext(s)
      PROVE  LockFileInv'
  BY <1>12 DEF DestroyContext
<1>13. ASSUME NEW s \in Servers, CloseLock(s)
      PROVE  LockFileInv'
  BY <1>13 DEF CloseLock
<1>14. ASSUME NEW s \in Servers, UnlinkLock(s)
      PROVE  LockFileInv'
  BY <1>14 DEF UnlinkLock
<1>15. ASSUME NEW s \in Servers, Die(s)
      PROVE  LockFileInv'
  BY <1>15 DEF Die
<1>16. CASE UNCHANGED vars
  BY <1>16 DEF vars
<1>. QED
  BY <1>1, <1>2, <1>3, <1>4, <1>5, <1>6, <1>7, <1>8, <1>9, <1>10, <1>11, <1>12, <1>13, <1>14, <1>15, <1>16
     DEF Next, Acquire, CreateSocket, Shutdown, Release

\* Only the holder of the directory's lock touches the socket path, or a robber.
LEMMA SocketStep == TypeOK /\ FlockInv /\ LockFileInv /\ SocketInv /\ [Next]_vars => SocketInv'
<1> SUFFICES ASSUME TypeOK, FlockInv, LockFileInv, SocketInv, [Next]_vars
             PROVE  SocketInv'
  OBVIOUS
<1> USE NoneAssumption
    DEF TypeOK, HandlesOK, OpenSteps, SocketSteps, FlockInv, LockFileInv, SocketInv, BoundSteps, Goto, Exit
<1>1. ASSUME NEW s \in Servers, NEW w \in Wdirs, Start(s, w)
      PROVE  SocketInv'
  BY <1>1 DEF Start
<1>2. ASSUME NEW s \in Servers, OpenLock(s)
      PROVE  SocketInv'
  BY <1>2 DEF OpenLock, UnusedInodes
<1>3. ASSUME NEW s \in Servers, FlockGranted(s)
      PROVE  SocketInv'
  BY <1>3 DEF FlockGranted, LockFree
<1>4. ASSUME NEW s \in Servers, FlockRefused(s)
      PROVE  SocketInv'
  BY <1>4 DEF FlockRefused, LockFree
<1>5. ASSUME NEW s \in Servers, RemoveStaleSocket(s)
      PROVE  SocketInv'
  BY <1>5 DEF RemoveStaleSocket, UnlinkSocketPath
<1>6. ASSUME NEW s \in Servers, Bind(s)
      PROVE  SocketInv'
  BY <1>6 DEF Bind
<1>7. ASSUME NEW s \in Servers, BindRefused(s)
      PROVE  SocketInv'
  BY <1>7 DEF BindRefused
<1>8. ASSUME NEW s \in Servers, Listen(s)
      PROVE  SocketInv'
  BY <1>8 DEF Listen
<1>9. ASSUME NEW s \in Servers, Stop(s)
      PROVE  SocketInv'
  BY <1>9 DEF Stop
<1>10. ASSUME NEW s \in Servers, CloseSocket(s)
      PROVE  SocketInv'
  BY <1>10 DEF CloseSocket
<1>11. ASSUME NEW s \in Servers, RemoveSocket(s)
      PROVE  SocketInv'
  BY <1>11 DEF RemoveSocket, UnlinkSocketPath
<1>12. ASSUME NEW s \in Servers, DestroyContext(s)
      PROVE  SocketInv'
  BY <1>12 DEF DestroyContext
<1>13. ASSUME NEW s \in Servers, CloseLock(s)
      PROVE  SocketInv'
  BY <1>13 DEF CloseLock
<1>14. ASSUME NEW s \in Servers, UnlinkLock(s)
      PROVE  SocketInv'
  BY <1>14 DEF UnlinkLock
<1>15. ASSUME NEW s \in Servers, Die(s)
      PROVE  SocketInv'
  BY <1>15 DEF Die
<1>16. CASE UNCHANGED vars
  BY <1>16 DEF vars
<1>. QED
  BY <1>1, <1>2, <1>3, <1>4, <1>5, <1>6, <1>7, <1>8, <1>9, <1>10, <1>11, <1>12, <1>13, <1>14, <1>15, <1>16
     DEF Next, Acquire, CreateSocket, Shutdown, Release

LEMMA Inductive == Spec => []IInv
<1>1. IInv /\ [Next]_vars => IInv'
  BY TypeStep, FlockStep, LockFileStep, SocketStep DEF IInv
<1>. QED
  BY InitIInv, <1>1, PTL DEF Spec

\* The descriptor, the lock and the directory of every process fit its step.
THEOREM TypeCorrect == Spec => []TypeOK
<1>1. IInv => TypeOK
  BY DEF IInv
<1>. QED
  BY <1>1, Inductive, PTL

\* Mutual exclusion per directory, for any number of processes that start, stop
\* and die at any time, as long as no lock file was unlinked under a rival.
THEOREM Exclusive == Spec => []ExclusiveUnlessRaced
<1>1. IInv => ExclusiveUnlessRaced
  BY DEF IInv, TypeOK, HandlesOK, FlockInv, LockFileInv, ExclusiveUnlessRaced
<1>. QED
  BY <1>1, Inductive, PTL

\* Clients that connect to the socket path reach the serving server, unless a
\* server of another directory took the path.
THEOREM SocketServed == Spec => []SocketIsServed
<1>1. IInv => SocketIsServed
  BY DEF IInv, SocketInv, SocketIsServed, BoundSteps
<1>. QED
  BY <1>1, Inductive, PTL
=============================================================================
