---------------------------- MODULE MemoryTracker ----------------------------
(***************************************************************************)
(* The memory tracker of utils/mem, from MemoryTracker_Init on.  The hooks *)
(* of the arenas record events in a buffer of MEMORY_TRACKER_MAX_EVENT_    *)
(* COUNT slots.  The hook that fills the buffer writes all of it out, one  *)
(* dprintf per event, before it returns; so do MemoryTracker_FlushEvents   *)
(* and the handler MemoryTracker_Init leaves with atexit.                  *)
(*                                                                         *)
(* An event is its type and its arena; times and sizes are left out.       *)
(***************************************************************************)
EXTENDS Integers, Sequences

CONSTANTS
    MaxEventCount,   \* MEMORY_TRACKER_MAX_EVENT_COUNT
    MaxWriteFaults   \* bound: lines a dprintf fails to write whole

ASSUME MaxEventCountAssumption == MaxEventCount \in Nat \ {0}
ASSUME MaxWriteFaultsAssumption == MaxWriteFaults \in Nat

VARIABLES
    events,        \* the slots of the buffer
    eventCount,    \* the slots in use
    nextArenaId,   \* the id of the next arena
    flushing,      \* MemoryTracker_FlushEvents is at work
    written,       \* the slots it has written out
    dump,          \* the lines of the output
    history,       \* every event recorded, to compare the dump with
    writeFaults    \* the lines that were not written whole

trackerVars ==
    <<events, eventCount, nextArenaId, flushing, written, dump, history, writeFaults>>

Slots == 0 .. (MaxEventCount - 1)

EventTypes == {"ARENA_CREATED", "ARENA_FREED", "ARENA_RESET", "MEMORY_ALLOCATED"}
Event == [type : EventTypes, arena : Nat]
Undefined == [type |-> "UNDEFINED", arena |-> 0]

\* A line that is not a whole event, with all that is written after it up to
\* the next end of line.
Cut == [type |-> "CUT", arena |-> 0]

TrackerInit ==
    /\ events = [i \in Slots |-> Undefined]
    /\ eventCount = 0
    /\ nextArenaId = 0
    /\ flushing = FALSE
    /\ written = 0
    /\ dump = <<>>
    /\ history = <<>>
    /\ writeFaults = 0

-----------------------------------------------------------------------------
\* Mutant: the flush starts at the second event.
SecondEvent == 1

\* The event just recorded took the last slot.
Filled == eventCount + 1 >= MaxEventCount
FirstEvent == 0

\* A hook of an arena: it finds a slot, and flushes what it filled.
Record(type, arena) ==
    /\ ~flushing
    /\ events' = [events EXCEPT ![eventCount] = [type |-> type, arena |-> arena]]
    /\ eventCount' = eventCount + 1
    /\ history' = Append(history, [type |-> type, arena |-> arena])
    /\ flushing' = Filled
    /\ written' = FirstEvent
    /\ UNCHANGED <<dump, writeFaults>>

ArenaCreated ==
    /\ Record("ARENA_CREATED", nextArenaId)
    /\ nextArenaId' = nextArenaId + 1

ArenaFreed(a) == Record("ARENA_FREED", a) /\ UNCHANGED nextArenaId
ArenaReset(a) == Record("ARENA_RESET", a) /\ UNCHANGED nextArenaId
MemoryAllocated(a) == Record("MEMORY_ALLOCATED", a) /\ UNCHANGED nextArenaId

FlushEvents ==
    /\ ~flushing
    /\ flushing' = TRUE
    /\ written' = FirstEvent
    /\ UNCHANGED <<events, eventCount, nextArenaId, dump, history, writeFaults>>

\* One dprintf, whose result nobody looks at, and the reset of its slot.
FlushEvent ==
    /\ flushing
    /\ written < eventCount
    /\ \/ dump' = Append(dump, events[written]) /\ UNCHANGED writeFaults
       \/ /\ writeFaults < MaxWriteFaults
          /\ writeFaults' = writeFaults + 1
          /\ dump' \in {dump, Append(dump, Cut)}
    /\ events' = [events EXCEPT ![written] = Undefined]
    /\ written' = written + 1
    /\ UNCHANGED <<eventCount, nextArenaId, flushing, history>>

FlushDone ==
    /\ flushing
    /\ written = eventCount
    /\ flushing' = FALSE
    /\ eventCount' = 0
    /\ written' = 0
    /\ UNCHANGED <<events, nextArenaId, dump, history, writeFaults>>

\* The process is killed: the line that is being written may be cut.
Abandon ==
    /\ \/ UNCHANGED <<dump, writeFaults>>
       \/ /\ flushing
          /\ written < eventCount
          /\ dump' = Append(dump, Cut)
          /\ writeFaults' = writeFaults + 1
    /\ UNCHANGED <<events, eventCount, nextArenaId, flushing, written, history>>

TrackerNext ==
    \/ ArenaCreated
    \/ \E a \in 0 .. (nextArenaId - 1) :
          ArenaFreed(a) \/ ArenaReset(a) \/ MemoryAllocated(a)
    \/ FlushEvents \/ FlushEvent \/ FlushDone \/ Abandon

TrackerSpec == TrackerInit /\ [][TrackerNext]_trackerVars

-----------------------------------------------------------------------------
\* The buffer is never written beyond its end, and a flush never writes out
\* a slot that holds no event (memory_tracker.c:22, 143).
TrackerOK ==
    /\ eventCount \in 0 .. MaxEventCount
    /\ ~flushing => eventCount < MaxEventCount
    /\ written \in 0 .. eventCount
    /\ \A i \in written .. (eventCount - 1) : events[i] \in Event
    /\ \A i \in Slots : events[i] \in Event \cup {Undefined}

\* What the current flush has not written out yet, or no flush has.
Unwritten == [i \in 1 .. (eventCount - written) |-> events[written + i - 1]]

\* As long as every write succeeds, the dump and the buffer are all there was,
\* in order: no flush loses, repeats or swaps an event, wherever it starts.
NothingLost == writeFaults = 0 => dump \o Unwritten = history
=============================================================================
