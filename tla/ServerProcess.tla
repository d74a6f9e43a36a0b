---------------------------- MODULE ServerProcess ----------------------------
(***************************************************************************)
(* The life of wetman_server processes: main.c, lock.c and the part of     *)
(* utils/net/server.c that creates and removes the listening socket.       *)
(*                                                                         *)
(* A server locks <wdir>/server.lock, one lock per working directory, and  *)
(* listens on /tmp/wetman_server.sock, one socket for all of them. The     *)
(* lock is an flock on an inode; the file and the socket are names in a    *)
(* directory, which a process may remove while another has them open.      *)
(* Each action is one system call; the processes interleave freely.        *)
(***************************************************************************)
EXTENDS Integers

CONSTANTS
    Servers,    \* server processes, each may be started again and again
    Wdirs,      \* working directories (WETMAN_WDIR)
    Inodes,     \* inodes a lock file can have
    None        \* no inode, no server, no directory

ASSUME NoneAssumption == None \notin Servers \cup Wdirs \cup Inodes

VARIABLES
    lockFile,   \* per wdir: the inode server.lock names, or None
    socket,     \* the server whose socket the socket path names, or None
    step,       \* per server: its next system call
    wdir,       \* per server: its WETMAN_WDIR, or None
    fd,         \* per server: __serverLockFd, the inode it has open, or None
    locked,     \* the servers whose flock was granted and not released
    raced,      \* history: a lock file was unlinked while a rival had it open
    robbed      \* history: servers whose socket a server of another wdir unlinked

vars == <<lockFile, socket, step, wdir, fd, locked, raced, robbed>>

\* Steps taken with the lock held, in order, with the lock file open.
SocketSteps == {"rm_stale_socket", "bind", "listen", "serve", "close_socket", "rm_socket"}
OpenSteps   == {"flock", "destroy", "close_lock"} \cup SocketSteps
Steps       == {"off", "open", "unlink_lock"} \cup OpenSteps

\* The descriptor is open, and the lock held, exactly from one step to another.
HandlesOK ==
    \A s \in Servers :
        /\ step[s] \in OpenSteps <=> fd[s] # None
        /\ step[s] \in OpenSteps \ {"flock"} <=> s \in locked
        /\ step[s] = "off" <=> wdir[s] = None

TypeOK ==
    /\ lockFile \in [Wdirs -> Inodes \cup {None}]
    /\ socket \in Servers \cup {None}
    /\ step \in [Servers -> Steps]
    /\ wdir \in [Servers -> Wdirs \cup {None}]
    /\ fd \in [Servers -> Inodes \cup {None}]
    /\ locked \in SUBSET Servers /\ robbed \in SUBSET Servers
    /\ raced \in BOOLEAN
    /\ HandlesOK

Init ==
    /\ lockFile = [w \in Wdirs |-> None]
    /\ socket = None
    /\ step = [s \in Servers |-> "off"]
    /\ wdir = [s \in Servers |-> None]
    /\ fd = [s \in Servers |-> None]
    /\ locked = {} /\ robbed = {}
    /\ raced = FALSE

-----------------------------------------------------------------------------
Goto(s, next) == step' = [step EXCEPT ![s] = next]

\* The process ends: the kernel closes its descriptors, which releases its lock.
Exit(s) ==
    /\ Goto(s, "off")
    /\ wdir' = [wdir EXCEPT ![s] = None]
    /\ fd' = [fd EXCEPT ![s] = None]
    /\ locked' = locked \ {s}
    /\ robbed' = robbed \ {s}

UnusedInodes == {i \in Inodes : /\ \A w \in Wdirs : lockFile[w] # i
                                /\ \A t \in Servers : fd[t] # i}

\* unlink(socketPath), whoever bound it.
UnlinkSocketPath(s) ==
    /\ socket' = None
    /\ robbed' = robbed \cup {t \in Servers : socket = t /\ wdir[t] # wdir[s]}

-----------------------------------------------------------------------------
\* main() up to ServerLock_Acquire.
Start(s, w) ==
    /\ step[s] = "off"
    /\ Goto(s, "open")
    /\ wdir' = [wdir EXCEPT ![s] = w]
    /\ UNCHANGED <<lockFile, socket, fd, locked, raced, robbed>>

\* Mutant: a lock file left behind is taken for stale and replaced.
OpenReplacing(s) ==
    /\ step[s] = "open"
    /\ \E i \in UnusedInodes :
         /\ lockFile' = [lockFile EXCEPT ![wdir[s]] = i]
         /\ fd' = [fd EXCEPT ![s] = i]
    /\ Goto(s, "flock")
    /\ UNCHANGED <<socket, wdir, locked, raced, robbed>>

\* open(server.lock, O_CREAT | O_RDWR).
OpenLock(s) ==
    /\ step[s] = "open"
    /\ LET w == wdir[s] IN
         \/ /\ lockFile[w] # None
            /\ fd' = [fd EXCEPT ![s] = lockFile[w]]
            /\ UNCHANGED lockFile
         \/ /\ lockFile[w] = None
            /\ \E i \in UnusedInodes :
                 /\ lockFile' = [lockFile EXCEPT ![w] = i]
                 /\ fd' = [fd EXCEPT ![s] = i]
    /\ Goto(s, "flock")
    /\ UNCHANGED <<socket, wdir, locked, raced, robbed>>

\* flock(LOCK_EX | LOCK_NB): granted on an inode nobody else has locked.
LockFree(s) == \A t \in locked : fd[t] # fd[s]

FlockGranted(s) ==
    /\ step[s] = "flock"
    /\ LockFree(s)
    /\ locked' = locked \cup {s}
    /\ Goto(s, "rm_stale_socket")
    /\ UNCHANGED <<lockFile, socket, wdir, fd, raced, robbed>>

\* "error: another server instance is already running"
FlockRefused(s) ==
    /\ step[s] = "flock"
    /\ ~LockFree(s)
    /\ Exit(s)
    /\ UNCHANGED <<lockFile, socket, raced>>

\* __Server_CreateSocket: unlink, bind, listen.
RemoveStaleSocket(s) ==
    /\ step[s] = "rm_stale_socket"
    /\ UnlinkSocketPath(s)
    /\ Goto(s, "bind")
    /\ UNCHANGED <<lockFile, wdir, fd, locked, raced>>

Bind(s) ==
    /\ step[s] = "bind"
    /\ socket = None
    /\ socket' = s
    /\ Goto(s, "listen")
    /\ UNCHANGED <<lockFile, wdir, fd, locked, raced, robbed>>

\* A path another server has bound meanwhile: exit(1), the lock file stays.
BindRefused(s) ==
    /\ step[s] = "bind"
    /\ socket # None
    /\ Exit(s)
    /\ UNCHANGED <<lockFile, socket, raced>>

Listen(s) ==
    /\ step[s] = "listen"
    /\ Goto(s, "serve")
    /\ UNCHANGED <<lockFile, socket, wdir, fd, locked, raced, robbed>>

\* Mutant: the lock is released before Server_Run has cleaned up its socket.
StopUnlocking(s) ==
    /\ step[s] = "serve"
    /\ Goto(s, "close_socket")
    /\ locked' = locked \ {s}
    /\ UNCHANGED <<lockFile, socket, wdir, fd, raced, robbed>>

\* SIGINT or SIGTERM ends the loop of Server_Run, which closes and unlinks.
Stop(s) ==
    /\ step[s] = "serve"
    /\ Goto(s, "close_socket")
    /\ UNCHANGED <<lockFile, socket, wdir, fd, locked, raced, robbed>>

CloseSocket(s) ==
    /\ step[s] = "close_socket"
    /\ Goto(s, "rm_socket")
    /\ UNCHANGED <<lockFile, socket, wdir, fd, locked, raced, robbed>>

RemoveSocket(s) ==
    /\ step[s] = "rm_socket"
    /\ UnlinkSocketPath(s)
    /\ Goto(s, "destroy")
    /\ UNCHANGED <<lockFile, wdir, fd, locked, raced>>

\* ServerContext_Destroy frees the arena that holds lockPath.
DestroyContext(s) ==
    /\ step[s] = "destroy"
    /\ Goto(s, "close_lock")
    /\ UNCHANGED <<lockFile, socket, wdir, fd, locked, raced, robbed>>

\* Mutant: __serverLockFd keeps the number of the closed descriptor.
CloseLockKeepingFd(s) ==
    /\ step[s] = "close_lock"
    /\ locked' = locked \ {s}
    /\ Goto(s, "unlink_lock")
    /\ UNCHANGED <<lockFile, socket, wdir, fd, raced, robbed>>

\* ServerLock_Release: close first, then unlink.
CloseLock(s) ==
    /\ step[s] = "close_lock"
    /\ fd' = [fd EXCEPT ![s] = None]
    /\ locked' = locked \ {s}
    /\ Goto(s, "unlink_lock")
    /\ UNCHANGED <<lockFile, socket, wdir, raced, robbed>>

\* The path is read from freed memory: the unlink hits the lock file, or
\* nothing, in which case a lock file stays that nobody has locked.
UnlinkLock(s) ==
    /\ step[s] = "unlink_lock"
    /\ \/ /\ lockFile' = [lockFile EXCEPT ![wdir[s]] = None]
          /\ raced' = (raced \/ \E t \in Servers : fd[t] # None /\ fd[t] = lockFile[wdir[s]])
       \/ UNCHANGED <<lockFile, raced>>
    /\ Exit(s)
    /\ UNCHANGED socket

\* A kill, an exit(1) on a failed open, socket, bind or listen, an assertion.
Die(s) ==
    /\ step[s] # "off"
    /\ Exit(s)
    /\ UNCHANGED <<lockFile, socket, raced>>

Acquire(s) == OpenLock(s) \/ FlockGranted(s) \/ FlockRefused(s)
CreateSocket(s) == RemoveStaleSocket(s) \/ Bind(s) \/ BindRefused(s) \/ Listen(s)
Shutdown(s) == Stop(s) \/ CloseSocket(s) \/ RemoveSocket(s) \/ DestroyContext(s)
Release(s) == CloseLock(s) \/ UnlinkLock(s)

Next ==
    \E s \in Servers :
        \/ \E w \in Wdirs : Start(s, w)
        \/ Acquire(s) \/ CreateSocket(s) \/ Shutdown(s) \/ Release(s)
        \/ Die(s)

Spec == Init /\ [][Next]_vars

-----------------------------------------------------------------------------
\* Two servers of one wdir hold their locks only after a third process removed
\* the lock file in the window between its close and its unlink while one of
\* them already had it open; nothing else lets a second server in.
ExclusiveUnlessRaced ==
    ~raced => \A s, t \in locked : wdir[s] = wdir[t] => s = t

\* A serving server owns the socket path: what the clients connect to is never
\* a leftover, nor taken by a server of the same wdir that stops or starts. Only
\* a server of another wdir takes it away (main.c has one path for all).
SocketIsServed ==
    ~raced => \A s \in Servers : step[s] = "serve" /\ s \notin robbed => socket = s

\* Violated. "Check that second server instance cannot be run" (integration/mod.c)
\* and "another server instance is already running" (main.c): one server per wdir.
OneServerPerWdir ==
    \A s, t \in Servers :
        step[s] = "serve" /\ step[t] = "serve" /\ wdir[s] = wdir[t] => s = t
=============================================================================
