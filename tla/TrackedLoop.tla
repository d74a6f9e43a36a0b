----------------------------- MODULE TrackedLoop -----------------------------
(***************************************************************************)
(* The arenas of a server process that runs its event loop, as the memory  *)
(* tracker records them, from MemoryTracker_Init to the end.  EventLoop is *)
(* the ring with the callbacks in it, MemoryTracker the buffer and the     *)
(* dump.  The loop runs the server's own callback, which pushes itself     *)
(* again, and callbacks made by Callback_WithNoArgs, which the server does *)
(* not make today (test/utils/async/ut_event_loop.c:43-110 does): they let *)
(* the ring fill.                                                          *)
(*                                                                         *)
(* A callback is a record of what it runs, of its arena and of the policy  *)
(* for it.  While a flush writes, the process does nothing else.           *)
(***************************************************************************)
EXTENDS EventLoop, MemoryTracker, FiniteSets

CONSTANTS
    MaxArenas,   \* bound: arenas a process creates
    MaxAllocs,   \* bound: allocations it makes
    MaxConns     \* __SERVER_MAX_CLIENTS

ASSUME TrackedBounds == MaxArenas \in Nat /\ MaxAllocs \in Nat /\ MaxConns \in Nat

VARIABLES
    stage,     \* where main and Server_Run are
    live,      \* the arenas that are allocated
    conns,     \* the arenas of the connections
    held,      \* the arena of a callback that is not pushed yet, or NoArena
    step,      \* how far the running handler is: "fresh" until its poll returns,
               \* then "serving" until it pushes or stops, or "done"
    dropped    \* the arenas of callbacks a full ring refused

processVars == <<stage, live, conns, held, step, dropped>>
trackedVars == <<vars, trackerVars, processVars>>

Reader == INSTANCE MemoryTrackerReader WITH CutLine <- Cut

NoArena == -1
MainArena == 0
LoopArena == 1

\* Mutant: the callback of the server is pushed with the default policy.
DefaultPolicy == "FREE"

IterationPolicy == "DO_NOTHING"
Iteration == [handler |-> "__Server_MainIter", arena |-> LoopArena, policy |-> IterationPolicy]
TaskOf(a) == [handler |-> "__callbackHandlerNoArgs", arena |-> a, policy |-> "FREE"]

\* What is pushed is a callback.
ASSUME CallbacksAssumption ==
    Iteration \in Callbacks /\ \A a \in 2 .. (MaxArenas - 1) : TaskOf(a) \in Callbacks

TrackedInit ==
    /\ Init
    /\ TrackerInit
    /\ stage = "starting"
    /\ live = {}
    /\ conns = {}
    /\ held = NoArena
    /\ step = "done"
    /\ dropped = {}

-----------------------------------------------------------------------------
CreateArena ==
    /\ nextArenaId < MaxArenas
    /\ ArenaCreated
    /\ live' = live \cup {nextArenaId}

FreeArena(a) ==
    /\ ArenaFreed(a)
    /\ live' = live \ {a}

Allocs == Len(SelectSeq(history, LAMBDA e : e.type = "MEMORY_ALLOCATED"))

Use(a) == Allocs < MaxAllocs /\ MemoryAllocated(a) /\ UNCHANGED live

\* main has its arena and builds paths in it until it has the lock.
Start ==
    /\ stage = "starting"
    /\ CreateArena
    /\ stage' = "main"
    /\ UNCHANGED <<vars, conns, held, step, dropped>>

UseMain ==
    /\ stage = "main"
    /\ Use(MainArena)
    /\ UNCHANGED <<vars, stage, conns, held, step, dropped>>

\* The lock is refused, or the socket cannot be set up: return 1, exit(1).
Bail ==
    /\ stage = "main"
    /\ FlushEvents
    /\ stage' = "exiting"
    /\ UNCHANGED <<vars, live, conns, held, step, dropped>>

Run ==
    /\ stage = "main"
    /\ CreateArena
    /\ stage' = "prepare"
    /\ UNCHANGED <<vars, conns, held, step, dropped>>

PushFirst ==
    /\ stage = "prepare"
    /\ ~flushing
    /\ Push(Iteration)
    /\ stage' = "ready"
    /\ UNCHANGED <<trackerVars, live, conns, held, step, dropped>>

ExecLoop ==
    /\ stage = "ready"
    /\ held = NoArena
    /\ ~flushing
    /\ Exec
    /\ stage' = "loop"
    /\ UNCHANGED <<trackerVars, live, conns, held, step, dropped>>

InvokeNext ==
    /\ ~flushing
    /\ Invoke
    /\ step' = IF current' = Iteration THEN "fresh" ELSE "done"
    /\ UNCHANGED <<trackerVars, stage, live, conns, held, dropped>>

-----------------------------------------------------------------------------
\* __Server_MainIter, until it pushes itself again.
Iterating == pc = "handler" /\ step # "done" /\ held = NoArena
Serving == Iterating /\ step = "serving"

\* It blocks in poll, for as long as no client and no signal comes.
Asleep == Iterating /\ step = "fresh"

\* poll returns with events, or interrupted.
Wake ==
    /\ Asleep
    /\ ~flushing
    /\ step' = "serving"
    /\ UNCHANGED <<vars, trackerVars, stage, live, conns, held, dropped>>

AcceptClient ==
    /\ Serving
    /\ Cardinality(conns) < MaxConns
    /\ CreateArena
    /\ conns' = conns \cup {nextArenaId}
    /\ UNCHANGED <<vars, stage, held, step, dropped>>

\* A request is read, or answered.
UseConn(a) ==
    /\ Serving
    /\ Use(a)
    /\ UNCHANGED <<vars, stage, conns, held, step, dropped>>

DisconnectConn(a) ==
    /\ Serving \/ stage = "drained"
    /\ FreeArena(a)
    /\ conns' = conns \ {a}
    /\ UNCHANGED <<vars, stage, held, step, dropped>>

PushNext ==
    /\ Serving
    /\ ~flushing
    /\ Push(Iteration)
    /\ step' = "done"
    /\ UNCHANGED <<trackerVars, stage, live, conns, held, dropped>>

\* A shutdown was requested before poll, or poll fails.
Stop ==
    /\ Asleep
    /\ ~flushing
    /\ step' = "done"
    /\ UNCHANGED <<vars, trackerVars, stage, live, conns, held, dropped>>

-----------------------------------------------------------------------------
\* Callback_WithNoArgs and the push of its callback, before the loop runs or
\* in a handler that is awake: the arena, the payload in it, the push.
MayPost == stage = "ready" \/ (pc = "handler" /\ step # "fresh")

NewTask ==
    /\ MayPost
    /\ held = NoArena
    /\ CreateArena
    /\ held' = nextArenaId
    /\ UNCHANGED <<vars, stage, conns, step, dropped>>

PushTask ==
    /\ held # NoArena
    /\ ~flushing
    /\ Push(TaskOf(held))
    /\ held' = NoArena
    /\ dropped' = IF Full THEN dropped \cup {held} ELSE dropped
    /\ UNCHANGED <<trackerVars, stage, live, conns, step>>

UseTask ==
    /\ held # NoArena
    /\ Use(held)
    /\ UNCHANGED <<vars, stage, conns, held, step, dropped>>

-----------------------------------------------------------------------------
\* The policy of a callback for its arena, once its handler returned.
Policy(c) ==
    CASE c.policy = "FREE"       -> FreeArena(c.arena)
      [] c.policy = "RESET"      -> ArenaReset(c.arena) /\ UNCHANGED live
      [] c.policy = "DO_NOTHING" -> ~flushing /\ UNCHANGED <<trackerVars, live>>

ReturnNext ==
    /\ held = NoArena
    /\ step = "done"
    /\ Return
    /\ Policy(current)
    /\ UNCHANGED <<stage, conns, held, step, dropped>>

LoopDrained ==
    /\ ~flushing
    /\ Drained
    /\ stage' = "drained"
    /\ UNCHANGED <<trackerVars, live, conns, held, step, dropped>>

\* The end of Server_Run, after the connections that were left.
FreeLoopArena ==
    /\ stage = "drained"
    /\ conns = {}
    /\ FreeArena(LoopArena)
    /\ stage' = "unwound"
    /\ UNCHANGED <<vars, conns, held, step, dropped>>

DestroyContext ==
    /\ stage = "unwound"
    /\ FreeArena(MainArena)
    /\ stage' = "destroyed"
    /\ UNCHANGED <<vars, conns, held, step, dropped>>

\* Mutant: neither main nor a handler of atexit flushes.
ExitUnflushed ==
    /\ stage = "destroyed"
    /\ stage' = "exiting"
    /\ UNCHANGED <<vars, trackerVars, live, conns, held, step, dropped>>

\* main flushes, then the handler of atexit does.
FlushAtEnd ==
    /\ \/ stage = "destroyed" /\ stage' = "flushed"
       \/ stage = "flushed" /\ stage' = "exiting"
    /\ FlushEvents
    /\ UNCHANGED <<vars, live, conns, held, step, dropped>>

Flush ==
    /\ FlushEvent \/ FlushDone
    /\ UNCHANGED <<vars, processVars>>

Exited ==
    /\ stage = "exiting"
    /\ ~flushing
    /\ stage' = "exited"
    /\ UNCHANGED <<vars, trackerVars, live, conns, held, step, dropped>>

\* SIGKILL, or a SIGPIPE nobody handles.
Kill ==
    /\ Abandon
    /\ stage' = "killed"
    /\ UNCHANGED <<vars, live, conns, held, step, dropped>>
-----------------------------------------------------------------------------
\* What the process does next by itself: waking it is up to its clients, and
\* stopping it to who sends signals.
Progress ==
    \/ Start \/ Run \/ Bail \/ PushFirst \/ ExecLoop \/ InvokeNext
    \/ PushNext \/ PushTask \/ ReturnNext \/ LoopDrained
    \/ (\E a \in conns : stage = "drained" /\ DisconnectConn(a))
    \/ FreeLoopArena \/ DestroyContext \/ FlushAtEnd \/ Flush \/ Exited

Ended == stage \in {"exited", "killed"}

TrackedNext ==
    /\ ~Ended
    /\ \/ Progress
       \/ Wake \/ Stop \/ UseMain \/ AcceptClient \/ NewTask \/ UseTask \/ Kill
       \/ \E a \in conns : UseConn(a) \/ DisconnectConn(a)

TrackedSpec == TrackedInit /\ [][TrackedNext]_trackedVars

\* The process is scheduled, and every handler returns that is not asleep.
TrackedFairSpec == TrackedSpec /\ WF_trackedVars(~Ended /\ Progress)

-----------------------------------------------------------------------------
\* No pending or running callback, and no connection, has an arena that is
\* freed (callback.c:48, server.c:122): the arena of the server's callback
\* outlives every copy of it in the ring.  And an arena nobody owns any more
\* is one whose callback a full ring refused.
ArenasOwned ==
    LET pending == {Pending[i].arena : i \in 1 .. size}
    IN  /\ conns \cup pending \subseteq live
        /\ live \ {MainArena, LoopArena} \subseteq conns \cup pending \cup {held} \cup dropped
        /\ conns \cap pending = {}
        /\ \A i, j \in 1 .. size :
              i # j /\ Pending[i] = Pending[j] => Pending[i] = Iteration

\* The reader's verdict on a dump, whatever it holds, is the promise of its
\* header (memory_tracker_reader.h:17-22): every line is whole, and every arena
\* in it was created once, used while it lived, and freed last.
VerdictMeansLifetimes == Reader!Verified(dump) <=> Reader!Sound(dump)

\* What the integration tests take the verdict for (test/integration/
\* mod.c:68-75): as long as no write failed, a dump that is not empty is found
\* clean only if the process freed all it created, even if it was killed; and
\* the dump of a process that ended by itself is found clean if it did.
VerdictIsTruth ==
    Ended /\ writeFaults = 0 /\ dump # <<>> =>
        /\ Reader!Verified(dump) => live = {}
        /\ stage = "exited" /\ live = {} => Reader!Verified(dump)

\* Every accepted callback runs once the loop runs, however much is pushed and
\* whatever is flushed in between, unless the process is killed: provided poll,
\* which waits without a timeout for the clients, never sleeps for ever. On a
\* quiet server it does, and the callbacks behind the iteration do not run.
AcceptedRunsUnlessKilled ==
    []<>~Asleep =>
      \A c \in Callbacks :
        (stage = "loop" /\ \E i \in 1 .. size : Pending[i] = c)
            ~> (current = c \/ stage = "killed")
=============================================================================
