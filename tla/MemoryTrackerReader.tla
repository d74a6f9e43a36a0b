------------------------- MODULE MemoryTrackerReader -------------------------
(***************************************************************************)
(* The reader of a dump, utils/mem/memory_tracker_reader.c: a dump is a    *)
(* sequence of lines as MemoryTracker leaves them, and the reader replays  *)
(* the life of every arena in it.                                          *)
(***************************************************************************)
EXTENDS Integers, Sequences, FiniteSetsExt

CONSTANT CutLine   \* a line that is none of the events

ArenasIn(list) == {list[i].arena : i \in DOMAIN list}

\* The arenas the reader keeps a state for: all ids up to the largest.
ArenaIds(list) == 0 .. Max({0} \cup ArenasIn(list))

\* __MemoryEvent_ParseLine knows whole lines only: one malformed line, and
\* MemoryTrackerReader_ReadFromFile gives up.
Parsed(line) == line # CutLine
Readable(lines) == \A i \in DOMAIN lines : Parsed(lines[i])

StateAfter(e, state) ==
    CASE e.type = "ARENA_CREATED" -> "ALIVE"
      [] e.type = "ARENA_FREED"   -> "FREED"
      [] OTHER                    -> state

Expected(e) == IF e.type = "ARENA_CREATED" THEN "NEVER_SEEN" ELSE "ALIVE"

\* What the reader knows of the arenas ids before it reads an event, and after
\* it has read e: their states, and whether all was as it should be.
Unread(ids) == [states |-> [a \in ids |-> "NEVER_SEEN"], ok |-> TRUE]
Read(r, e) ==
    [states |-> [r.states EXCEPT ![e.arena] = StateAfter(e, @)],
     ok     |-> r.ok /\ r.states[e.arena] = Expected(e)]

Replay(list) ==
    LET after[n \in 0 .. Len(list)] ==
          IF n = 0 THEN Unread(ArenaIds(list)) ELSE Read(after[n - 1], list[n])
    IN  after[Len(list)]

\* Mutant: the last arena is not looked at.
AllButLast(list) == ArenaIds(list) \ {Max(ArenaIds(list))}

LeakChecked(list) == ArenaIds(list)

VerifyAllArenasFreed(list) ==
    LET replay == Replay(list)
    IN  replay.ok /\ \A a \in LeakChecked(list) : replay.states[a] # "ALIVE"

\* The dump is read and found consistent and free of leaks.
Verified(lines) == Readable(lines) /\ VerifyAllArenasFreed(lines)

EventsOf(a, list) == {i \in DOMAIN list : list[i].arena = a}

Between(list, i, born, freed) ==
    /\ i \in born .. freed
    /\ list[i].type = "ARENA_CREATED" <=> i = born
    /\ list[i].type = "ARENA_FREED" <=> i = freed

\* What the header promises: an arena is born once, used, and freed at last.
Lifetime(a, list) ==
    \E born, freed \in EventsOf(a, list) :
        born < freed /\ \A i \in EventsOf(a, list) : Between(list, i, born, freed)

Sound(lines) == Readable(lines) /\ \A a \in ArenasIn(lines) : Lifetime(a, lines)
=============================================================================
