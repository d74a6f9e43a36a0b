------------------------- MODULE TrackedLoop_proofs -------------------------
(***************************************************************************)
(* Proofs about a server process that runs its event loop, for every size  *)
(* of the ring and of the tracker's buffer: the ring implements the queue  *)
(* of EventQueue, no flush of the tracker loses an event, and no callback  *)
(* or connection has an arena that is freed.                               *)
(***************************************************************************)
EXTENDS TrackedLoop, SequenceTheorems, SetRecursion, TLAPS

\* The slots of the pending callbacks hold callbacks, and the one that runs
\* stays in its slot until its handler returns.
RingInv ==
    /\ \A i \in 1 .. size : slots[Wrap(nextPos + i - 1)] \in Callbacks
    /\ pc = "handler" => size > 0 /\ current = slots[nextPos]
    /\ pc # "handler" => current = NoCallback

IInv == TypeOK /\ RingInv

\* Indices are below twice the capacity: a wrap subtracts it at most once.
LEMMA WrapCases ==
    ASSUME NEW i \in 0 .. (2 * Capacity - 1)
    PROVE  Wrap(i) = IF i < Capacity THEN i ELSE i - Capacity
  BY CapacityAssumption DEF Wrap

LEMMA InitIInv == Init => IInv
  BY CapacityAssumption DEF Init, IInv, TypeOK, RingInv, Positions

\* A push writes a slot none of the pending callbacks is in.
LEMMA PushStep ==
    ASSUME IInv, NEW c \in Callbacks, Push(c)
    PROVE  /\ IInv'
           /\ ~Full => /\ \A i \in 1 .. size :
                            slots'[Wrap(nextPos + i - 1)] = slots[Wrap(nextPos + i - 1)]
                       /\ slots'[Wrap(nextPos + size)] = c
<1> USE CapacityAssumption DEF IInv, TypeOK, Positions
<1>1. CASE Full
  BY <1>1 DEF Push, Full, RingInv, Wrap
<1>2. CASE ~Full
  <2> DEFINE free == Wrap(nextPos + size)
  <2>1. /\ size < Capacity /\ size' = size + 1 /\ nextPos' = nextPos
        /\ slots' = [slots EXCEPT ![free] = c] /\ pc' = pc /\ current' = current
    BY <1>2 DEF Push, Full, FreeSlot
  <2>2. free \in Positions
    BY <2>1, WrapCases
  <2>3. \A i \in 1 .. size : Wrap(nextPos + i - 1) \in Positions /\ Wrap(nextPos + i - 1) # free
    BY <2>1, WrapCases
  <2>4. \A i \in 1 .. size : slots'[Wrap(nextPos + i - 1)] = slots[Wrap(nextPos + i - 1)]
    BY <2>1, <2>2, <2>3
  <2>5. slots'[free] = c
    BY <2>1, <2>2
  <2>6. TypeOK'
    BY <2>1, <2>2, <1>2 DEF Push
  <2>7. \A i \in 1 .. size' : slots'[Wrap(nextPos' + i - 1)] \in Callbacks
    <3> SUFFICES ASSUME NEW i \in 1 .. size + 1
                 PROVE  slots'[Wrap(nextPos + i - 1)] \in Callbacks
      BY <2>1
    <3>1. CASE i \in 1 .. size
      BY <3>1, <2>4 DEF RingInv
    <3>2. CASE i = size + 1
      BY <3>2, <2>1, <2>5
    <3>. QED
      BY <3>1, <3>2, <2>1
  <2>8. pc' = "handler" => size' > 0 /\ current' = slots'[nextPos']
    <3> SUFFICES ASSUME pc = "handler" PROVE size' > 0 /\ current = slots'[nextPos]
      BY <2>1
    <3>1. nextPos # free
      BY <2>1, WrapCases DEF RingInv
    <3>. QED
      BY <3>1, <2>1, <2>2 DEF RingInv
  <2>. QED
    BY <2>1, <2>4, <2>5, <2>6, <2>7, <2>8 DEF RingInv
<1>. QED
  BY <1>1, <1>2

\* Returning from a handler moves every other pending callback one place ahead.
LEMMA ReturnStep ==
    ASSUME IInv, Return
    PROVE  /\ IInv'
           /\ size > 0
           /\ \A i \in 1 .. size' :
                slots'[Wrap(nextPos' + i - 1)] = slots[Wrap(nextPos + i)]
<1> USE CapacityAssumption DEF IInv, TypeOK, Positions
<1>1. /\ size > 0 /\ size' = size - 1 /\ nextPos' = Wrap(nextPos + 1)
      /\ slots' = [slots EXCEPT ![nextPos] = NoCallback]
      /\ pc' = "test" /\ current' = NoCallback
  BY DEF Return, RingInv, ClearedSlot, AfterHandler
<1>2. \A i \in 1 .. size' : /\ Wrap(nextPos' + i - 1) = Wrap(nextPos + i)
                            /\ Wrap(nextPos + i) \in Positions
                            /\ Wrap(nextPos + i) # nextPos
  <2> SUFFICES ASSUME NEW i \in 1 .. (size - 1)
               PROVE  /\ Wrap(nextPos' + i - 1) = Wrap(nextPos + i)
                      /\ Wrap(nextPos + i) \in Positions
                      /\ Wrap(nextPos + i) # nextPos
    BY <1>1
  <2>1. nextPos' = IF nextPos + 1 < Capacity THEN nextPos + 1 ELSE 0
    BY <1>1, WrapCases
  <2>. QED
    BY <1>1, <2>1, WrapCases
<1>3. \A i \in 1 .. size' : slots'[Wrap(nextPos' + i - 1)] = slots[Wrap(nextPos + i)]
  BY <1>1, <1>2
<1>4. TypeOK'
  <2>1. nextPos' \in Positions
    BY <1>1, WrapCases
  <2>. QED
    BY <1>1, <2>1
<1>5. RingInv'
  <2>1. \A i \in 1 .. size' : slots[Wrap(nextPos + i)] \in Callbacks
    <3> SUFFICES ASSUME NEW i \in 1 .. (size - 1)
                 PROVE  slots[Wrap(nextPos + i)] \in Callbacks
      BY <1>1
    <3>1. i + 1 \in 1 .. size /\ nextPos + (i + 1) - 1 = nextPos + i
      BY <1>1
    <3>. QED
      BY <3>1 DEF RingInv
  <2>. QED
    BY <1>1, <1>3, <2>1 DEF RingInv
<1>. QED
  BY <1>1, <1>3, <1>4, <1>5

LEMMA IInvStep == IInv /\ [Next]_vars => IInv'
<1> SUFFICES ASSUME IInv, [Next]_vars
             PROVE  IInv'
  OBVIOUS
<1>1. CASE Exec
  BY <1>1 DEF Exec, IInv, TypeOK, RingInv, Wrap
<1>2. CASE Invoke
  <2>1. slots[nextPos] \in Callbacks
    <3>1. 1 \in 1 .. size /\ Wrap(nextPos + 1 - 1) = nextPos
      BY <1>2, CapacityAssumption, WrapCases DEF Invoke, IInv, TypeOK, Positions
    <3>. QED
      BY <3>1 DEF IInv, RingInv
  <2>. QED
    BY <1>2, <2>1 DEF Invoke, IInv, TypeOK, RingInv, Wrap
<1>3. CASE Return
  BY <1>3, ReturnStep
<1>4. CASE Drained
  BY <1>4 DEF Drained, IInv, TypeOK, RingInv, Wrap
<1>5. ASSUME NEW c \in Callbacks, Push(c)
      PROVE  IInv'
  BY <1>5, PushStep
<1>6. CASE UNCHANGED vars
  BY <1>6 DEF vars, IInv, TypeOK, RingInv, Wrap
<1>. QED
  BY <1>1, <1>2, <1>3, <1>4, <1>5, <1>6 DEF Next

\* The indices stay within the ring and its size within the capacity.
THEOREM TypeCorrect == Spec => []TypeOK
<1>1. IInv => TypeOK
  BY DEF IInv
<1>. QED
  BY <1>1, InitIInv, IInvStep, PTL DEF Spec

-----------------------------------------------------------------------------
\* Every step of the ring is a step of the queue, or leaves the queue alone.

PendingIsSeq ==
    /\ Pending \in Seq(Callbacks)
    /\ Len(Pending) = size
    /\ \A i \in 1 .. size : Pending[i] = slots[Wrap(nextPos + i - 1)]

LEMMA PendingSeq == IInv => PendingIsSeq
<1> SUFFICES ASSUME IInv
             PROVE  PendingIsSeq
  OBVIOUS
<1>1. size \in Nat /\ \A i \in 1 .. size : slots[Wrap(nextPos + i - 1)] \in Callbacks
  BY CapacityAssumption DEF IInv, TypeOK, RingInv
<1>2. Pending \in [1 .. size -> Callbacks]
  BY <1>1 DEF Pending
<1>3. Pending \in Seq(Callbacks)
  BY <1>1, <1>2
<1>. QED
  BY <1>1, <1>2, <1>3 DEF Pending, PendingIsSeq

LEMMA PendingSeqNext == IInv' => PendingIsSeq'
  BY PendingSeq, PTL

LEMMA RefinesInit == Init => Queue!Init
<1> SUFFICES ASSUME Init PROVE Queue!Init
  OBVIOUS
<1>1. Pending \in Seq(Callbacks) /\ Len(Pending) = 0
  BY InitIInv, PendingSeq DEF Init, PendingIsSeq
<1>2. Pending = <<>>
  BY <1>1
<1>. QED
  BY <1>2 DEF Queue!Init, Init

LEMMA RefinesPush ==
    ASSUME IInv, NEW c \in Callbacks, Push(c)
    PROVE  Queue!Push(c)
<1>1. PendingIsSeq /\ PendingIsSeq'
  BY PushStep, PendingSeq, PendingSeqNext
<1>2. size \in 0 .. Capacity /\ nextPos \in Nat /\ current' = current /\ nextPos' = nextPos
  BY DEF IInv, TypeOK, Positions, Push
<1>3. CASE Full
  <2>1. UNCHANGED <<slots, size, nextPos>> /\ size = Capacity
    BY <1>3 DEF Push, Full
  <2>2. Pending' = Pending
    BY <2>1 DEF Pending, Wrap
  <2>. QED
    BY <1>1, <1>2, <2>1, <2>2 DEF Queue!Push, PendingIsSeq
<1>4. CASE ~Full
  <2>1. size' = size + 1 /\ size < Capacity
    BY <1>2, <1>4, CapacityAssumption DEF Push, Full
  <2>2. \A i \in 1 .. size : Pending'[i] = Pending[i]
    <3> SUFFICES ASSUME NEW i \in 1 .. size
                 PROVE  Pending'[i] = Pending[i]
      OBVIOUS
    <3>1. Pending'[i] = slots'[Wrap(nextPos' + i - 1)] /\ Pending[i] = slots[Wrap(nextPos + i - 1)]
      BY <1>1, <1>2, <2>1 DEF PendingIsSeq
    <3>2. slots'[Wrap(nextPos + i - 1)] = slots[Wrap(nextPos + i - 1)]
      BY <1>4, PushStep
    <3>. QED
      BY <3>1, <3>2, <1>2
  <2>3. Pending'[size + 1] = c
    <3>1. Pending'[size + 1] = slots'[Wrap(nextPos' + (size + 1) - 1)]
      BY <1>1, <1>2, <2>1 DEF PendingIsSeq
    <3>2. nextPos' + (size + 1) - 1 = nextPos + size
      BY <1>2
    <3>. QED
      BY <3>1, <3>2, <1>4, PushStep
  <2>4. Pending' = Append(Pending, c)
    BY <1>1, <1>2, <2>1, <2>2, <2>3 DEF PendingIsSeq
  <2>. QED
    BY <1>1, <1>2, <2>1, <2>4 DEF Queue!Push, PendingIsSeq
<1>. QED
  BY <1>3, <1>4

LEMMA RefinesInvoke == IInv /\ Invoke => Queue!Run
<1> SUFFICES ASSUME IInv, Invoke PROVE Queue!Run
  OBVIOUS
<1>1. PendingIsSeq /\ size \in Nat \ {0} /\ nextPos \in Positions /\ current = NoCallback
      /\ current' = slots[nextPos] /\ UNCHANGED <<slots, size, nextPos>>
  BY PendingSeq DEF IInv, TypeOK, RingInv, Invoke
<1>2. Wrap(nextPos + 1 - 1) = nextPos
  BY <1>1, CapacityAssumption, WrapCases DEF Positions
<1>3. Pending # <<>> /\ Head(Pending) = slots[nextPos]
  BY <1>1, <1>2 DEF PendingIsSeq
<1>4. Pending' = Pending
  BY <1>1 DEF Pending, Wrap
<1>. QED
  BY <1>1, <1>3, <1>4 DEF Queue!Run

LEMMA RefinesReturn == IInv /\ Return => Queue!Done
<1> SUFFICES ASSUME IInv, Return PROVE Queue!Done
  OBVIOUS
<1>1. PendingIsSeq /\ PendingIsSeq' /\ size \in Nat \ {0} /\ size' = size - 1
  BY ReturnStep, PendingSeq, PendingSeqNext, CapacityAssumption DEF IInv, TypeOK, Return
<1>2. current # NoCallback /\ current' = NoCallback
  <2>1. 1 \in 1 .. size /\ Wrap(nextPos + 1 - 1) = nextPos
    BY <1>1, CapacityAssumption, WrapCases DEF IInv, TypeOK, Positions
  <2>2. current \in Callbacks
    BY <2>1 DEF IInv, RingInv, Return
  <2>. QED
    BY <2>2, NoCallbackAssumption DEF Return
<1>3. \A i \in 1 .. size' : Pending'[i] = Pending[i + 1]
  <2> SUFFICES ASSUME NEW i \in 1 .. size'
               PROVE  Pending'[i] = Pending[i + 1]
    OBVIOUS
  <2>1. Pending'[i] = slots[Wrap(nextPos + i)]
    BY <1>1, ReturnStep DEF PendingIsSeq
  <2>2. i + 1 \in 1 .. size /\ nextPos + (i + 1) - 1 = nextPos + i
    BY <1>1 DEF IInv, TypeOK, Positions
  <2>. QED
    BY <1>1, <2>1, <2>2 DEF PendingIsSeq
<1>4. Pending' = Tail(Pending)
  BY <1>1, <1>3 DEF PendingIsSeq
<1>. QED
  BY <1>2, <1>4 DEF Queue!Done

\* The ring buffer implements the bounded first-in first-out queue: no accepted
\* callback is lost, repeated, reordered or overwritten while it runs.
THEOREM RingImplementsQueue == Spec => RingIsQueue
<1>1. IInv /\ [Next]_vars => [Queue!Next]_Queue!vars
  <2> SUFFICES ASSUME IInv, [Next]_vars
               PROVE  Queue!Next \/ UNCHANGED Queue!vars
    OBVIOUS
  <2>1. CASE Exec \/ Drained \/ UNCHANGED vars
    BY <2>1 DEF Exec, Drained, vars, Queue!vars, Pending, Wrap
  <2>2. CASE Invoke
    BY <2>2, RefinesInvoke DEF Queue!Next
  <2>3. CASE Return
    BY <2>3, RefinesReturn DEF Queue!Next
  <2>4. ASSUME NEW c \in Callbacks, Push(c)
        PROVE  Queue!Next
    BY <2>4, RefinesPush DEF Queue!Next
  <2>. QED
    BY <2>1, <2>2, <2>3, <2>4 DEF Next
<1>. QED
  BY <1>1, RefinesInit, InitIInv, IInvStep, PTL DEF Spec, RingIsQueue, Queue!Spec

-----------------------------------------------------------------------------

\* The types that the proofs need, with TrackerOK and NothingLost.
TrackerTypes ==
    /\ events \in [Slots -> Event \cup {Undefined}]
    /\ eventCount \in 0 .. MaxEventCount
    /\ nextArenaId \in Nat
    /\ written \in 0 .. eventCount
    /\ dump \in Seq(Event \cup {Cut})
    /\ history \in Seq(Event)
    /\ writeFaults \in Nat

\* Outside a flush nothing is written and a slot is left.
Quiet == ~flushing => written = 0 /\ eventCount < MaxEventCount

Buffered == \A i \in written .. (eventCount - 1) : events[i] \in Event

\* NothingLost, entry by entry: the form the provers use.
Kept ==
    writeFaults = 0 =>
        /\ Len(history) = Len(dump) + eventCount - written
        /\ \A i \in 1 .. Len(dump) : history[i] = dump[i]
        /\ \A i \in 1 .. (eventCount - written) :
              history[Len(dump) + i] = events[written + i - 1]

TrackerInv == TrackerTypes /\ Quiet /\ Buffered /\ Kept

LEMMA InitInv == TrackerInit => TrackerInv
<1> SUFFICES ASSUME TrackerInit PROVE TrackerInv
  OBVIOUS
<1>1. Undefined \in Event \cup {Undefined}
  OBVIOUS
<1>. QED
  BY <1>1, MaxEventCountAssumption
     DEF TrackerInit, TrackerInv, TrackerTypes, Quiet, Buffered, Kept, Slots

LEMMA RecordInv ==
    ASSUME TrackerInv, NEW type \in EventTypes, NEW arena \in Nat,
           Record(type, arena), nextArenaId' \in Nat
    PROVE  TrackerInv'
<1> DEFINE e == [type |-> type, arena |-> arena]
<1> USE MaxEventCountAssumption DEF TrackerInv, TrackerTypes, Quiet
<1>1. /\ ~flushing /\ eventCount < MaxEventCount /\ eventCount \in Slots
      /\ events' = [events EXCEPT ![eventCount] = e]
      /\ eventCount' = eventCount + 1 /\ written' = 0 /\ written = 0
      /\ history' = Append(history, e) /\ dump' = dump /\ writeFaults' = writeFaults
  BY DEF Record, FirstEvent, Slots
<1>10. ~flushing' => eventCount + 1 < MaxEventCount
  <2>1. ~flushing' => ~Filled
    BY Zenon DEF Record
  <2>. QED
    BY <2>1 DEF Filled
<1>2. e \in Event
  BY DEF Event
<1> HIDE DEF e
<1>3. events'[eventCount] = e /\ \A i \in Slots : i # eventCount => events'[i] = events[i]
  BY <1>1
<1>4. TrackerTypes'
  BY <1>1, <1>2
<1>5. Quiet'
  BY <1>1, <1>10
<1>6. Buffered'
  BY <1>1, <1>2, <1>3 DEF Buffered, Slots
<1>7. Kept'
  <2> SUFFICES ASSUME writeFaults = 0
               PROVE  /\ Len(history') = Len(dump) + eventCount + 1
                      /\ \A i \in 1 .. Len(dump) : history'[i] = dump[i]
                      /\ \A i \in 1 .. (eventCount + 1) : history'[Len(dump) + i] = events'[i - 1]
    BY <1>1 DEF Kept
  <2>1. Len(history) = Len(dump) + eventCount
    BY <1>1 DEF Kept
  <2>2. /\ Len(history') = Len(history) + 1
        /\ history'[Len(history) + 1] = e
        /\ \A i \in 1 .. Len(history) : history'[i] = history[i]
    BY <1>1, <1>2
  <2>3. \A i \in 1 .. eventCount : history[Len(dump) + i] = events[i - 1]
    BY <1>1 DEF Kept
  <2>4. \A i \in 1 .. Len(dump) : history[i] = dump[i]
    BY <1>1 DEF Kept
  <2>5. \A i \in 1 .. (eventCount + 1) : history'[Len(dump) + i] = events'[i - 1]
    <3> TAKE i \in 1 .. (eventCount + 1)
    <3>1. CASE i = eventCount + 1
      BY <3>1, <2>1, <2>2, <1>1, <1>3
    <3>2. CASE i \in 1 .. eventCount
      <4>1. Len(dump) + i \in 1 .. Len(history) /\ i - 1 \in Slots /\ i - 1 # eventCount
        BY <3>2, <2>1, <1>1 DEF Slots
      <4>2. history'[Len(dump) + i] = history[Len(dump) + i] /\ events'[i - 1] = events[i - 1]
        BY <4>1, <2>2, <1>3
      <4>. QED
        BY <4>2, <3>2, <2>3
    <3>3. i \in 1 .. eventCount \/ i = eventCount + 1
      OBVIOUS
    <3>. QED
      BY <3>1, <3>2, <3>3, Zenon
  <2>. QED
    BY <2>1, <2>2, <2>4, <2>5
<1>. QED
  BY <1>4, <1>5, <1>6, <1>7

LEMMA FlushEventInv ==
    ASSUME TrackerInv, FlushEvent
    PROVE  TrackerInv'
<1> USE MaxEventCountAssumption DEF TrackerInv, TrackerTypes
<1>1. /\ flushing /\ written < eventCount /\ written \in Slots
      /\ events' = [events EXCEPT ![written] = Undefined]
      /\ written' = written + 1 /\ eventCount' = eventCount
      /\ flushing' = flushing /\ history' = history /\ nextArenaId' = nextArenaId
  BY DEF FlushEvent, Slots
<1>2. events[written] \in Event
  BY <1>1 DEF Buffered
<1>3. \A i \in Slots : i # written => events'[i] = events[i]
  BY <1>1
<1>4. events' \in [Slots -> Event \cup {Undefined}]
  BY <1>1
<1>5. Buffered'
  BY <1>1, <1>3 DEF Buffered, Slots
<1>6. CASE dump' = Append(dump, events[written]) /\ writeFaults' = writeFaults
  <2>1. TrackerTypes'
    BY <1>1, <1>2, <1>4, <1>6
  <2>2. /\ Len(dump') = Len(dump) + 1
        /\ dump'[Len(dump) + 1] = events[written]
        /\ \A i \in 1 .. Len(dump) : dump'[i] = dump[i]
    BY <1>6, <1>2
  <2>3. Kept'
    <3> SUFFICES ASSUME writeFaults = 0
                 PROVE  /\ Len(history) = Len(dump') + eventCount - (written + 1)
                        /\ \A i \in 1 .. Len(dump') : history[i] = dump'[i]
                        /\ \A i \in 1 .. (eventCount - (written + 1)) :
                              history[Len(dump') + i] = events'[(written + 1) + i - 1]
      BY <1>1, <1>6 DEF Kept
    <3>1. /\ Len(history) = Len(dump) + eventCount - written
          /\ \A i \in 1 .. Len(dump) : history[i] = dump[i]
          /\ \A i \in 1 .. (eventCount - written) :
                history[Len(dump) + i] = events[written + i - 1]
      BY DEF Kept
    <3>2. history[Len(dump) + 1] = events[written]
      <4>1. 1 \in 1 .. (eventCount - written) /\ written + 1 - 1 = written
        BY <1>1
      <4>. QED
        BY <4>1, <3>1
    <3>3. \A i \in 1 .. (eventCount - (written + 1)) :
              history[Len(dump') + i] = events'[(written + 1) + i - 1]
      <4> TAKE i \in 1 .. (eventCount - (written + 1))
      <4>1. i + 1 \in 1 .. (eventCount - written) /\ written + i \in Slots /\ written + i # written
        BY <1>1 DEF Slots
      <4>2. history[Len(dump) + (i + 1)] = events[written + (i + 1) - 1]
        BY <4>1, <3>1
      <4>3. /\ Len(dump') + i = Len(dump) + (i + 1)
            /\ written + (i + 1) - 1 = written + i /\ (written + 1) + i - 1 = written + i
        BY <2>2, <1>1
      <4>4. events'[written + i] = events[written + i]
        BY <4>1, <1>3
      <4>. QED
        BY <4>2, <4>3, <4>4
    <3>. QED
      BY <3>1, <3>2, <3>3, <2>2
  <2>. QED
    BY <2>1, <2>3, <1>1, <1>5 DEF Quiet
<1>7. CASE writeFaults' = writeFaults + 1 /\ dump' \in {dump, Append(dump, Cut)}
  <2>1. TrackerTypes'
    BY <1>1, <1>4, <1>7
  <2>. QED
    BY <2>1, <1>1, <1>5, <1>7 DEF Quiet, Kept
<1>. QED
  BY <1>6, <1>7 DEF FlushEvent

LEMMA StepInv ==
    ASSUME TrackerInv, TrackerNext
    PROVE  TrackerInv'
<1> USE MaxEventCountAssumption
<1>1. CASE ArenaCreated
  BY <1>1, RecordInv DEF ArenaCreated, EventTypes, TrackerInv, TrackerTypes
<1>2. CASE \E a \in 0 .. (nextArenaId - 1) :
              ArenaFreed(a) \/ ArenaReset(a) \/ MemoryAllocated(a)
  BY <1>2, RecordInv DEF ArenaFreed, ArenaReset, MemoryAllocated, EventTypes, TrackerInv, TrackerTypes
<1>3. CASE FlushEvents
  BY <1>3 DEF FlushEvents, FirstEvent, TrackerInv, TrackerTypes, Quiet, Buffered, Kept
<1>4. CASE FlushEvent
  BY <1>4, FlushEventInv
<1>5. CASE FlushDone
  <2>1. /\ TrackerTypes /\ events' = events /\ nextArenaId' = nextArenaId /\ dump' = dump
        /\ history' = history /\ writeFaults' = writeFaults
        /\ ~flushing' /\ eventCount' = 0 /\ written' = 0
    BY <1>5 DEF FlushDone, TrackerInv
  <2>3. TrackerTypes'
    BY <2>1 DEF TrackerTypes
  <2>4. Quiet' /\ Buffered'
    BY <2>1 DEF Quiet, Buffered
  <2>2. Kept'
    BY <1>5 DEF FlushDone, TrackerInv, TrackerTypes, Kept
  <2>. QED
    BY <2>2, <2>3, <2>4 DEF TrackerInv
<1>6. CASE Abandon
  <2>1. CASE UNCHANGED <<dump, writeFaults>>
    BY <1>6, <2>1 DEF Abandon, TrackerInv, TrackerTypes, Quiet, Buffered, Kept
  <2>2. CASE dump' = Append(dump, Cut) /\ writeFaults' = writeFaults + 1
    <3>1. TrackerTypes'
      BY <1>6, <2>2 DEF Abandon, TrackerInv, TrackerTypes
    <3>. QED
      BY <3>1, <1>6, <2>2 DEF Abandon, TrackerInv, TrackerTypes, Quiet, Buffered, Kept
  <2>. QED
    BY <1>6, <2>1, <2>2 DEF Abandon
<1>. QED
  BY <1>1, <1>2, <1>3, <1>4, <1>5, <1>6 DEF TrackerNext

LEMMA InvInductive == TrackerSpec => []TrackerInv
<1>1. TrackerInv /\ UNCHANGED trackerVars => TrackerInv'
  BY DEF TrackerInv, TrackerTypes, Quiet, Buffered, Kept, trackerVars
<1>. QED
  BY <1>1, InitInv, StepInv, PTL DEF TrackerSpec

\* The buffer is never overrun, and a flush meets only slots with an event.
THEOREM BufferNeverOverrun == TrackerSpec => []TrackerOK
<1>1. TrackerInv => TrackerOK
  BY DEF TrackerInv, TrackerTypes, Quiet, Buffered, TrackerOK
<1>. QED
  BY <1>1, InvInductive, PTL

LEMMA KeptIsNothingLost ==
    ASSUME TrackerInv
    PROVE  NothingLost
<1> USE DEF TrackerInv, TrackerTypes
<1> DEFINE n == eventCount - written
<1>1. SUFFICES ASSUME writeFaults = 0
               PROVE  dump \o Unwritten = history
  BY DEF NothingLost
<1>2. n \in Nat /\ \A i \in 1 .. n : written + i - 1 \in written .. (eventCount - 1)
  OBVIOUS
<1>3. Unwritten \in Seq(Event) /\ Len(Unwritten) = n
      /\ \A i \in 1 .. n : Unwritten[i] = events[written + i - 1]
  BY <1>2 DEF Unwritten, Buffered
<1>4. /\ dump \o Unwritten \in Seq(Event \cup {Cut})
      /\ Len(dump \o Unwritten) = Len(dump) + n
      /\ \A i \in 1 .. (Len(dump) + n) :
            (dump \o Unwritten)[i] = IF i <= Len(dump) THEN dump[i] ELSE Unwritten[i - Len(dump)]
  <2>1. Unwritten \in Seq(Event \cup {Cut}) /\ dump \in Seq(Event \cup {Cut})
    BY <1>3
  <2> HIDE DEF n, TrackerInv, TrackerTypes
  <2>2. /\ dump \o Unwritten \in Seq(Event \cup {Cut})
        /\ Len(dump \o Unwritten) = Len(dump) + Len(Unwritten)
        /\ \A i \in 1 .. Len(dump) + Len(Unwritten) : (dump \o Unwritten)[i] =
               IF i <= Len(dump) THEN dump[i] ELSE Unwritten[i - Len(dump)]
    BY <2>1, ConcatProperties, Zenon
  <2>. QED
    BY <2>2, <1>3
<1>6. Len(history) = Len(dump) + n
  BY <1>1 DEF Kept
<1>7. \A i \in 1 .. (Len(dump) + n) : (dump \o Unwritten)[i] = history[i]
  <2> TAKE i \in 1 .. (Len(dump) + n)
  <2>0. Len(dump) \in Nat /\ n \in Nat
    BY <1>2
  <2>1. CASE i <= Len(dump)
    BY <2>1, <1>1, <1>4 DEF Kept
  <2>2. CASE i > Len(dump)
    <3>1. i - Len(dump) \in 1 .. n /\ Len(dump) + (i - Len(dump)) = i
      BY <2>2
    <3>2. history[Len(dump) + (i - Len(dump))] = events[written + (i - Len(dump)) - 1]
      BY <3>1, <1>1 DEF Kept
    <3>3. Unwritten[i - Len(dump)] = events[written + (i - Len(dump)) - 1]
      BY <3>1, <1>3
    <3>. QED
      BY <3>1, <3>2, <3>3, <2>2, <1>4
  <2>3. i \in Int
    BY <2>0
  <2>4. i <= Len(dump) \/ i > Len(dump)
    BY <2>0, <2>3
  <2>. QED
    BY <2>1, <2>2, <2>4
<1>8. history \in Seq(Event \cup {Cut})
  OBVIOUS
<1>9. /\ Len(dump \o Unwritten) = Len(history)
      /\ \A i \in 1 .. Len(dump \o Unwritten) : (dump \o Unwritten)[i] = history[i]
  BY <1>4, <1>6, <1>7
<1> HIDE DEF TrackerInv, TrackerTypes
<1>. QED
  BY <1>4, <1>8, <1>9, SeqEqual

\* No flush loses, repeats or reorders an event as long as the writes succeed.
THEOREM FlushesLoseNothing == TrackerSpec => []NothingLost
  BY KeptIsNothingLost, InvInductive, PTL

-----------------------------------------------------------------------------

\* The loop and the tracker in one process: every step of the process is a step
\* of the ring and of the tracker, or leaves them alone.

\* The arenas of connections and of callbacks.
Lent == live \ {MainArena, LoopArena}

\* The arenas belong to somebody: those of connections, of the callback that is
\* not pushed yet and of pending callbacks are allocated and told apart.
LiveOK == nextArenaId \in 0 .. MaxArenas /\ live \subseteq 0 .. (nextArenaId - 1)
ConnsOK == conns \subseteq Lent
HeldOK == held # NoArena => held \in Lent \ conns
PendingOK ==
    \A i \in 1 .. Len(Pending) :
        \/ Pending[i] = Iteration /\ LoopArena \in live
        \/ \E a \in Lent \ (conns \cup {held}) : Pending[i] = TaskOf(a)
OnceOK ==
    \A i, j \in 1 .. Len(Pending) :
        i # j /\ Pending[i] = Pending[j] => Pending[i] = Iteration
OwnerOK ==
    \A a \in Lent : \/ a \in conns \cup {held} \cup dropped
                    \/ \E i \in 1 .. Len(Pending) : Pending[i] = TaskOf(a)

Owners == LiveOK /\ ConnsOK /\ HeldOK /\ PendingOK /\ OnceOK /\ OwnerOK

\* Where main and Server_Run are, and what there is by then.
StageOK ==
    /\ stage = "starting" => nextArenaId = 0
    /\ stage = "main" => nextArenaId = 1
    /\ stage \in {"prepare", "ready", "loop", "drained"} => LoopArena \in live
    /\ stage \in {"unwound", "destroyed"} => nextArenaId > LoopArena
    /\ stage \in {"starting", "main", "prepare"} => Pending = <<>> /\ conns = {}
    /\ stage \notin {"ready", "loop", "killed"} => held = NoArena
    /\ stage # "killed" => (stage = "loop" <=> pc # "idle")
    /\ pc = "test" => held = NoArena
    /\ stage \in {"drained", "unwound", "destroyed", "flushed", "exiting", "exited"} =>
          Pending = <<>>
    /\ stage \in {"unwound", "destroyed", "flushed", "exiting", "exited"} => conns = {}

TrackedInv == IInv /\ Owners /\ StageOK

\* What the steps of the ring do to the callbacks that wait.
LEMMA PushPending ==
    ASSUME IInv, NEW c \in Callbacks, Push(c)
    PROVE  /\ IInv' /\ PendingIsSeq /\ PendingIsSeq'
           /\ Full => Pending' = Pending
           /\ ~Full => Pending' = Append(Pending, c)
<1>1. IInv' /\ PendingIsSeq /\ PendingIsSeq'
  BY PushStep, PendingSeq, PendingSeqNext
<1>2. Queue!Push(c)
  BY RefinesPush
<1>3. Len(Pending) = size /\ Len(Pending') = size' /\ Pending \in Seq(Callbacks) 
  BY <1>1 DEF PendingIsSeq
<1>4. Full => size' = size
  BY DEF Push
<1>5. ~Full => size' = size + 1
  BY DEF Push
<1>. QED
  BY <1>1, <1>2, <1>3, <1>4, <1>5, CapacityAssumption DEF Queue!Push, IInv, TypeOK

LEMMA ReturnPending ==
    ASSUME IInv, Return
    PROVE  /\ IInv' /\ PendingIsSeq /\ PendingIsSeq'
           /\ Pending # <<>> /\ current = Pending[1] /\ Pending' = Tail(Pending)
<1>1. IInv' /\ PendingIsSeq /\ PendingIsSeq' /\ size > 0
  BY ReturnStep, PendingSeq, PendingSeqNext
<1>2. Queue!Done
  BY RefinesReturn
<1>3. Wrap(nextPos + 1 - 1) = nextPos /\ size \in Nat
  BY WrapCases, CapacityAssumption DEF IInv, TypeOK, Positions
<1>4. current = Pending[1]
  BY <1>1, <1>3 DEF PendingIsSeq, IInv, RingInv, Return
<1>. QED
  BY <1>1, <1>2, <1>4, <1>3 DEF Queue!Done, PendingIsSeq

LEMMA LoopPending ==
    ASSUME IInv, Exec \/ Invoke \/ Drained \/ UNCHANGED vars
    PROVE  IInv' /\ PendingIsSeq /\ PendingIsSeq' /\ Pending' = Pending /\ size' = size
<1>1. [Next]_vars
  BY DEF Next
<1>2. IInv'
  BY <1>1, IInvStep
<1>3. slots' = slots /\ size' = size /\ nextPos' = nextPos
  BY DEF Exec, Invoke, Drained, vars
<1>4. Pending' = Pending
  BY <1>3 DEF Pending, Wrap
<1>. QED
  BY <1>2, <1>3, <1>4, PendingSeq, PendingSeqNext

-----------------------------------------------------------------------------

LEMMA CallbackFacts ==
    /\ Iteration.arena = LoopArena /\ Iteration.policy = "DO_NOTHING"
    /\ \A a : TaskOf(a).arena = a /\ TaskOf(a).policy = "FREE" /\ TaskOf(a) # Iteration
  BY DEF Iteration, TaskOf, IterationPolicy

LEMMA ArenaNumbers == MainArena = 0 /\ LoopArena = 1 /\ NoArena = -1
  BY DEF MainArena, LoopArena, NoArena

LEMMA SameOwners ==
    ASSUME Owners, UNCHANGED <<live, conns, held, dropped, nextArenaId, Pending>>
    PROVE  Owners'
  BY DEF Owners, LiveOK, ConnsOK, HeldOK, PendingOK, OnceOK, OwnerOK, Lent

\* A new arena is none of those there are.
LEMMA CreateOwners ==
    ASSUME Owners, CreateArena, dropped' = dropped, Pending' = Pending,
           \/ UNCHANGED <<conns, held>> /\ nextArenaId <= LoopArena
           \/ conns' = conns \cup {nextArenaId} /\ held' = held /\ nextArenaId > LoopArena
           \/ conns' = conns /\ held = NoArena /\ held' = nextArenaId /\ nextArenaId > LoopArena
    PROVE  Owners'
<1> USE TrackedBounds, ArenaNumbers
<1>1. /\ nextArenaId < MaxArenas /\ nextArenaId' = nextArenaId + 1
      /\ live' = live \cup {nextArenaId} /\ nextArenaId \in Nat /\ nextArenaId \notin live
  BY DEF CreateArena, ArenaCreated, Owners, LiveOK
<1>2. Lent' = IF nextArenaId <= LoopArena THEN Lent ELSE Lent \cup {nextArenaId}
  BY <1>1 DEF Lent
<1>3. nextArenaId \notin Lent
  BY <1>1 DEF Lent
<1>4. LiveOK' /\ ConnsOK' /\ HeldOK'
  BY <1>1, <1>2, <1>3 DEF Owners, LiveOK, ConnsOK, HeldOK
<1>5. Lent \ (conns \cup {held}) \subseteq Lent' \ (conns' \cup {held'})
  BY <1>1, <1>2, <1>3
<1>6. PendingOK'
  BY <1>1, <1>5 DEF Owners, PendingOK
<1>7. OnceOK'
  BY DEF Owners, OnceOK
<1>8. OwnerOK'
  <2> SUFFICES ASSUME NEW a \in Lent'
               PROVE  \/ a \in conns' \cup {held'} \cup dropped
                      \/ \E i \in 1 .. Len(Pending) : Pending[i] = TaskOf(a)
    BY DEF OwnerOK
  <2>1. CASE a \in Lent
    <3>1. held # a \/ held' = a
      BY <2>1, <1>1 DEF Lent, Owners, LiveOK
    <3>. QED
      BY <2>1, <3>1 DEF Owners, OwnerOK
  <2>2. CASE a \notin Lent
    BY <2>2, <1>2
  <2>. QED
    BY <2>1, <2>2
<1>. QED
  BY <1>4, <1>6, <1>7, <1>8 DEF Owners

LEMMA FreeConnOwners ==
    ASSUME Owners, NEW a \in conns, live' = live \ {a}, conns' = conns \ {a},
           UNCHANGED <<held, dropped, nextArenaId, Pending>>
    PROVE  Owners'
<1> USE DEF Owners
<1>1. Lent' = Lent \ {a} /\ a \in Lent
  BY DEF Lent, ConnsOK
<1>2. LiveOK' /\ ConnsOK' /\ HeldOK' /\ OnceOK' /\ OwnerOK'
  BY <1>1 DEF LiveOK, ConnsOK, HeldOK, OnceOK, OwnerOK
<1>3. Lent \ (conns \cup {held}) = Lent' \ (conns' \cup {held'})
  BY <1>1
<1>4. PendingOK'
  BY <1>1, <1>3 DEF PendingOK, Lent
<1>. QED
  BY <1>2, <1>4

\* The arenas of main and of the loop go when no callback is left.
LEMMA FreeOwnOwners ==
    ASSUME Owners, NEW a \in {MainArena, LoopArena}, live' = live \ {a}, Pending = <<>>,
           UNCHANGED <<conns, held, dropped, nextArenaId, Pending>>
    PROVE  Owners'
<1>1. Lent' = Lent
  BY DEF Lent
<1>2. Len(Pending) = 0 /\ \A i : i \notin 1 .. Len(Pending)
  OBVIOUS
<1>3. LiveOK' /\ ConnsOK' /\ HeldOK'
  BY <1>1 DEF Owners, LiveOK, ConnsOK, HeldOK
<1>4. PendingOK' /\ OnceOK' /\ OwnerOK'
  BY <1>1, <1>2 DEF Owners, PendingOK, OnceOK, OwnerOK
<1>. QED
  BY <1>3, <1>4 DEF Owners

LEMMA PushIterationOwners ==
    ASSUME Owners, Pending \in Seq(Callbacks), LoopArena \in live,
           Pending' \in {Pending, Append(Pending, Iteration)},
           UNCHANGED <<live, conns, held, dropped, nextArenaId>>
    PROVE  Owners'
<1>1. CASE Pending' = Pending
  BY <1>1, SameOwners
<1>2. CASE Pending' = Append(Pending, Iteration)
  <2>1. /\ Len(Pending') = Len(Pending) + 1 /\ Len(Pending) \in Nat
        /\ Pending'[Len(Pending) + 1] = Iteration
        /\ \A i \in 1 .. Len(Pending) : Pending'[i] = Pending[i]
    BY <1>2, CallbacksAssumption
  <2> USE DEF Owners
  <2>2. LiveOK' /\ ConnsOK' /\ HeldOK' /\ Lent' = Lent
    BY DEF LiveOK, ConnsOK, HeldOK, Lent
  <2>3. PendingOK'
    BY <2>1, <2>2 DEF PendingOK
  <2>4. OnceOK'
    BY <2>1 DEF OnceOK
  <2>5. OwnerOK'
    BY <2>1, <2>2 DEF OwnerOK
  <2>. QED
    BY <2>2, <2>3, <2>4, <2>5
<1>. QED
  BY <1>1, <1>2

LEMMA PushTaskOwners ==
    ASSUME Owners, Pending \in Seq(Callbacks), held # NoArena, TaskOf(held) \in Callbacks,
           held' = NoArena, UNCHANGED <<live, conns, nextArenaId>>,
           \/ Pending' = Pending /\ dropped' = dropped \cup {held}
           \/ Pending' = Append(Pending, TaskOf(held)) /\ dropped' = dropped
    PROVE  Owners'
<1> USE DEF Owners
<1>1. held \in Lent \ conns /\ Lent' = Lent /\ NoArena \notin Lent
  BY ArenaNumbers DEF HeldOK, Lent, LiveOK
<1>2. LiveOK' /\ ConnsOK' /\ HeldOK'
  BY <1>1 DEF LiveOK, ConnsOK, HeldOK
<1>3. CASE Pending' = Pending /\ dropped' = dropped \cup {held}
  BY <1>1, <1>2, <1>3 DEF PendingOK, OnceOK, OwnerOK
<1>4. CASE Pending' = Append(Pending, TaskOf(held)) /\ dropped' = dropped
  <2>1. /\ Len(Pending') = Len(Pending) + 1 /\ Len(Pending) \in Nat
        /\ Pending'[Len(Pending) + 1] = TaskOf(held)
        /\ \A i \in 1 .. Len(Pending) : Pending'[i] = Pending[i]
    BY <1>4
  <2>2. PendingOK'
    BY <2>1, <1>1 DEF PendingOK
  <2>3. \A i \in 1 .. Len(Pending) : Pending[i] # TaskOf(held)
    BY CallbackFacts DEF PendingOK
  <2>4. OnceOK'
    BY <2>1, <2>3 DEF OnceOK
  <2>5. OwnerOK'
    BY <2>1, <1>1, <1>4 DEF OwnerOK
  <2>. QED
    BY <1>2, <2>2, <2>4, <2>5
<1>. QED
  BY <1>3, <1>4

\* The callback that ran leaves with its arena, which no other callback has.
LEMMA ReturnOwners ==
    ASSUME Owners, Pending \in Seq(Callbacks), Pending # <<>>, held = NoArena,
           Pending' = Tail(Pending), UNCHANGED <<conns, held, dropped, nextArenaId>>,
           live' = IF Pending[1] = Iteration THEN live ELSE live \ {Pending[1].arena}
    PROVE  Owners'
<1> USE DEF Owners
<1>1. /\ Len(Pending) \in Nat \ {0} /\ Len(Pending') = Len(Pending) - 1
      /\ \A i \in 1 .. Len(Pending') : Pending'[i] = Pending[i + 1]
  OBVIOUS
<1>2. LiveOK'
  BY DEF LiveOK
<1>3. OnceOK'
  BY <1>1 DEF OnceOK
<1>4. CASE Pending[1] = Iteration
  <2>1. Lent' = Lent
    BY <1>4 DEF Lent
  <2>2. PendingOK'
    BY <1>1, <1>4, <2>1 DEF PendingOK
  <2>3. OwnerOK'
    <3> SUFFICES ASSUME NEW a \in Lent, NEW i \in 1 .. Len(Pending), Pending[i] = TaskOf(a)
                 PROVE  \E j \in 1 .. Len(Pending') : Pending'[j] = TaskOf(a)
      BY <2>1 DEF OwnerOK
    <3>1. i # 1
      BY <1>4, CallbackFacts
    <3>. QED
      BY <3>1, <1>1
  <2>. QED
    BY <1>2, <1>3, <2>1, <2>2, <2>3 DEF ConnsOK, HeldOK
<1>5. CASE Pending[1] # Iteration
  <2>1. PICK b \in Lent \ (conns \cup {held}) : Pending[1] = TaskOf(b)
    BY <1>1, <1>5 DEF PendingOK
  <2>2. live' = live \ {b} /\ Lent' = Lent \ {b} /\ b # LoopArena
    BY <2>1, <1>5, CallbackFacts DEF Lent
  <2>3. \A i \in 2 .. Len(Pending) : Pending[i] # TaskOf(b)
    BY <1>1, <2>1, CallbackFacts DEF OnceOK
  <2>4. ConnsOK' /\ HeldOK'
    BY <2>1, <2>2 DEF ConnsOK, HeldOK
  <2>5. PendingOK'
    <3> SUFFICES ASSUME NEW i \in 1 .. Len(Pending')
                 PROVE  \/ Pending'[i] = Iteration /\ LoopArena \in live'
                        \/ \E a \in Lent' \ (conns' \cup {held'}) : Pending'[i] = TaskOf(a)
      BY DEF PendingOK
    <3>1. i + 1 \in 2 .. Len(Pending) /\ Pending'[i] = Pending[i + 1]
      BY <1>1
    <3>. QED
      BY <3>1, <2>2, <2>3 DEF PendingOK
  <2>6. OwnerOK'
    <3> SUFFICES ASSUME NEW a \in Lent', NEW i \in 1 .. Len(Pending), Pending[i] = TaskOf(a)
                 PROVE  \E j \in 1 .. Len(Pending') : Pending'[j] = TaskOf(a)
      BY <2>2 DEF OwnerOK
    <3>1. i # 1
      BY <2>1, <2>2, CallbackFacts
    <3>. QED
      BY <3>1, <1>1
  <2>. QED
    BY <1>2, <1>3, <2>4, <2>5, <2>6
<1>. QED
  BY <1>4, <1>5

-----------------------------------------------------------------------------

\* What every step of the process is shown to be.
StepHolds ==
    /\ TrackedInv'
    /\ [Next]_vars
    /\ [TrackerNext]_trackerVars

LEMMA TrackerMoves ==
    /\ \A a : ArenaFreed(a) \/ ArenaReset(a) \/ MemoryAllocated(a) => nextArenaId' = nextArenaId
    /\ FlushEvents \/ FlushEvent \/ FlushDone \/ Abandon \/ UNCHANGED trackerVars =>
          nextArenaId' = nextArenaId
  BY DEF ArenaFreed, ArenaReset, MemoryAllocated, FlushEvents, FlushEvent, FlushDone,
         Abandon, trackerVars

LEMMA RingAlone == TrackedInv /\ UNCHANGED vars => IInv' /\ Pending' = Pending /\ pc' = pc
  BY LoopPending DEF TrackedInv, vars

\* Steps that touch neither the ring nor an arena's owner.
LEMMA UseSound ==
    ASSUME TrackedInv, NEW a \in 0 .. (nextArenaId - 1), Use(a),
           UNCHANGED <<vars, stage, conns, held, dropped>>
    PROVE  StepHolds
<1>1. MemoryAllocated(a) /\ live' = live /\ nextArenaId' = nextArenaId
  BY TrackerMoves DEF Use
<1>2. Pending' = Pending /\ IInv' /\ pc' = pc
  BY RingAlone
<1>3. Owners' /\ StageOK'
  BY <1>1, <1>2, SameOwners DEF TrackedInv, StageOK
<1>. QED
  BY <1>1, <1>2, <1>3 DEF StepHolds, TrackedInv, TrackerNext

LEMMA StageSound ==
    ASSUME TrackedInv, UNCHANGED <<vars, live, conns, held, dropped>>,
           FlushEvents \/ FlushEvent \/ FlushDone \/ Abandon \/ UNCHANGED trackerVars,
           \/ stage' = stage
           \/ stage = "main" /\ stage' = "exiting"
           \/ stage = "destroyed" /\ stage' = "flushed"
           \/ stage = "flushed" /\ stage' = "exiting"
           \/ stage = "exiting" /\ stage' = "exited"
           \/ stage' = "killed"
    PROVE  StepHolds
<1>1. nextArenaId' = nextArenaId
  BY TrackerMoves
<1>2. Pending' = Pending /\ IInv' /\ pc' = pc
  BY RingAlone
<1>3. Owners'
  BY <1>1, <1>2, SameOwners DEF TrackedInv
<1>4. StageOK'
  BY <1>1, <1>2 DEF TrackedInv, StageOK
<1>. QED
  BY <1>2, <1>3, <1>4 DEF StepHolds, TrackedInv, TrackerNext

\* A new arena, for main, for the loop, for a connection or for a callback.
LEMMA CreateSound ==
    ASSUME TrackedInv, CreateArena, UNCHANGED <<vars, dropped>>,
           \/ stage = "starting" /\ stage' = "main" /\ UNCHANGED <<conns, held>>
           \/ stage = "main" /\ stage' = "prepare" /\ UNCHANGED <<conns, held>>
           \/ pc = "handler" /\ stage \in {"loop"} /\ stage' = stage /\ held' = held
              /\ conns' = conns \cup {nextArenaId}
           \/ stage \in {"ready", "loop"} /\ pc # "test" /\ stage' = stage /\ conns' = conns
              /\ held = NoArena /\ held' = nextArenaId
    PROVE  StepHolds
<1> USE ArenaNumbers
<1>1. Pending' = Pending /\ IInv' /\ pc' = pc
  BY RingAlone
<1>2. nextArenaId' = nextArenaId + 1 /\ live' = live \cup {nextArenaId} /\ nextArenaId \in Nat
  BY TrackedBounds DEF CreateArena, ArenaCreated, TrackedInv, Owners, LiveOK
<1>3. stage \in {"ready", "loop"} => nextArenaId > LoopArena
  BY <1>2 DEF TrackedInv, StageOK, Owners, LiveOK
<1>4. stage \in {"starting", "main"} => nextArenaId <= LoopArena
  BY <1>2 DEF TrackedInv, StageOK
<1>5. Owners'
  BY <1>1, <1>3, <1>4, CreateOwners DEF TrackedInv
<1>6. StageOK'
  BY <1>1, <1>2 DEF TrackedInv, StageOK
<1>. QED
  BY <1>1, <1>5, <1>6 DEF StepHolds, TrackedInv, TrackerNext, CreateArena

LEMMA DisconnectSound ==
    ASSUME TrackedInv, NEW a \in conns, FreeArena(a), conns' = conns \ {a},
           stage \in {"loop", "drained"}, UNCHANGED <<vars, stage, held, dropped>>
    PROVE  StepHolds
<1>1. Pending' = Pending /\ IInv' /\ pc' = pc
  BY RingAlone
<1>2. live' = live \ {a} /\ nextArenaId' = nextArenaId /\ ArenaFreed(a)
  BY TrackerMoves DEF FreeArena
<1>3. Owners'
  BY <1>1, <1>2, FreeConnOwners DEF TrackedInv
<1>4. a # LoopArena /\ a \in 0 .. (nextArenaId - 1)
  BY DEF TrackedInv, Owners, ConnsOK, LiveOK, Lent
<1>5. StageOK'
  BY <1>1, <1>2, <1>4 DEF TrackedInv, StageOK
<1>. QED
  BY <1>1, <1>2, <1>3, <1>4, <1>5 DEF StepHolds, TrackedInv, TrackerNext

LEMMA UnwindSound ==
    ASSUME TrackedInv, NEW a \in {MainArena, LoopArena}, FreeArena(a),
           \/ stage = "drained" /\ conns = {} /\ a = LoopArena /\ stage' = "unwound"
           \/ stage = "unwound" /\ a = MainArena /\ stage' = "destroyed",
           UNCHANGED <<vars, conns, held, dropped>>
    PROVE  StepHolds
<1> USE ArenaNumbers
<1>1. Pending' = Pending /\ IInv' /\ pc' = pc
  BY RingAlone
<1>2. live' = live \ {a} /\ nextArenaId' = nextArenaId /\ ArenaFreed(a)
  BY TrackerMoves DEF FreeArena
<1>3. Pending = <<>>
  BY DEF TrackedInv, StageOK
<1>4. Owners'
  BY <1>1, <1>2, <1>3, FreeOwnOwners DEF TrackedInv
<1>5. nextArenaId \in Nat /\ nextArenaId > LoopArena
  BY TrackedBounds DEF TrackedInv, StageOK, Owners, LiveOK
<1>6. StageOK'
  BY <1>1, <1>2, <1>3, <1>5 DEF TrackedInv, StageOK
<1>. QED
  BY <1>1, <1>2, <1>4, <1>5, <1>6 DEF StepHolds, TrackedInv, TrackerNext

\* The loop takes up a callback, begins or ends.
LEMMA LoopSound ==
    ASSUME TrackedInv, UNCHANGED <<trackerVars, live, conns, held, dropped>>,
           \/ stage = "ready" /\ held = NoArena /\ Exec /\ stage' = "loop"
           \/ stage # "killed" /\ Invoke /\ stage' = stage
           \/ stage # "killed" /\ Drained /\ stage' = "drained"
    PROVE  StepHolds
<1>1. IInv' /\ Pending' = Pending
  BY LoopPending DEF TrackedInv
<1>2. nextArenaId' = nextArenaId
  BY DEF trackerVars
<1>3. Owners'
  BY <1>1, <1>2, SameOwners DEF TrackedInv
<1>4. Drained => Pending = <<>>
  BY PendingSeq DEF Drained, TrackedInv, PendingIsSeq
<1>5. StageOK'
  <2>1. CASE stage = "ready" /\ held = NoArena /\ Exec /\ stage' = "loop"
    BY <1>1, <1>2, <2>1 DEF Exec, TrackedInv, StageOK
  <2>2. CASE stage # "killed" /\ Invoke /\ stage' = stage
    BY <1>1, <1>2, <2>2 DEF Invoke, TrackedInv, StageOK
  <2>3. CASE stage # "killed" /\ Drained /\ stage' = "drained"
    BY <1>1, <1>2, <1>4, <2>3 DEF Drained, TrackedInv, StageOK
  <2>. QED
    BY <2>1, <2>2, <2>3
<1>. QED
  BY <1>1, <1>3, <1>5 DEF StepHolds, TrackedInv, Next

LEMMA PushIterationSound ==
    ASSUME TrackedInv, Push(Iteration), UNCHANGED <<trackerVars, live, conns, held, dropped>>,
           \/ stage = "prepare" /\ stage' = "ready"
           \/ stage = "loop" /\ stage' = stage
    PROVE  StepHolds
<1>1. /\ IInv' /\ PendingIsSeq /\ Pending' \in {Pending, Append(Pending, Iteration)}
  BY PushPending, CallbacksAssumption DEF TrackedInv
<1>2. nextArenaId' = nextArenaId /\ pc' = pc
  BY DEF trackerVars, Push
<1>3. Owners'
  BY <1>1, <1>2, PushIterationOwners DEF TrackedInv, PendingIsSeq, StageOK
<1>4. StageOK'
  BY <1>2 DEF TrackedInv, StageOK
<1>. QED
  BY <1>1, <1>3, <1>4, CallbacksAssumption DEF StepHolds, TrackedInv, Next

LEMMA PushTaskSound ==
    ASSUME TrackedInv, PushTask, stage # "killed"
    PROVE  StepHolds
<1> USE ArenaNumbers
<1>1. stage \in {"ready", "loop"}
  BY DEF PushTask, TrackedInv, StageOK
<1>2. held \in 2 .. (MaxArenas - 1)
  <2>1. held \in Lent /\ live \subseteq 0 .. (nextArenaId - 1) /\ nextArenaId \in 0 .. MaxArenas
    BY DEF PushTask, TrackedInv, Owners, HeldOK, LiveOK
  <2>. QED
    BY <2>1, TrackedBounds DEF Lent
<1>3. TaskOf(held) \in Callbacks
  BY <1>2, CallbacksAssumption
<1>4. /\ IInv' /\ PendingIsSeq
      /\ Full => Pending' = Pending
      /\ ~Full => Pending' = Append(Pending, TaskOf(held))
  BY <1>3, PushPending DEF TrackedInv, PushTask
<1>5. /\ nextArenaId' = nextArenaId /\ pc' = pc /\ held' = NoArena /\ held # NoArena
      /\ UNCHANGED <<live, conns, stage, trackerVars>>
  BY DEF trackerVars, Push, PushTask
<1>6. IF Full THEN dropped' = dropped \cup {held} ELSE dropped' = dropped
  BY DEF PushTask
<1>7. Owners'
  BY <1>3, <1>4, <1>5, <1>6, PushTaskOwners DEF TrackedInv, PendingIsSeq
<1>8. StageOK'
  BY <1>1, <1>5 DEF TrackedInv, StageOK
<1>. QED
  BY <1>3, <1>4, <1>5, <1>7, <1>8 DEF StepHolds, TrackedInv, Next, PushTask

LEMMA ReturnSound ==
    ASSUME TrackedInv, ReturnNext, stage # "killed"
    PROVE  StepHolds
<1> USE ArenaNumbers
<1>1. /\ IInv' /\ PendingIsSeq /\ Pending # <<>>
      /\ current = Pending[1] /\ Pending' = Tail(Pending)
  BY ReturnPending DEF TrackedInv, ReturnNext
<1>2. 1 \in 1 .. Len(Pending)
  BY <1>1 DEF PendingIsSeq
<1>3. stage = "loop" /\ pc = "handler" /\ pc' = "test" /\ held = NoArena /\ Policy(current)
      /\ UNCHANGED <<stage, conns, held, dropped>>
  BY DEF ReturnNext, Return, AfterHandler, TrackedInv, StageOK
<1>4. CASE Pending[1] = Iteration
  <2>1. UNCHANGED <<trackerVars, live>>
    BY <1>1, <1>3, <1>4, CallbackFacts DEF Policy
  <2>2. nextArenaId' = nextArenaId
    BY <2>1 DEF trackerVars
  <2>3. Owners'
    BY <1>1, <1>3, <1>4, <2>1, <2>2, ReturnOwners DEF TrackedInv, PendingIsSeq
  <2>4. StageOK'
    BY <1>3, <2>1, <2>2 DEF TrackedInv, StageOK
  <2>. QED
    BY <1>1, <2>1, <2>3, <2>4 DEF StepHolds, TrackedInv, Next, ReturnNext
<1>5. CASE Pending[1] # Iteration
  <2>1. PICK a \in Lent : Pending[1] = TaskOf(a)
    BY <1>2, <1>5 DEF TrackedInv, Owners, PendingOK
  <2>2. FreeArena(a)
    BY <1>1, <1>3, <2>1, CallbackFacts DEF Policy
  <2>3. ArenaFreed(a) /\ live' = live \ {a} /\ nextArenaId' = nextArenaId
    BY <2>2, TrackerMoves DEF FreeArena
  <2>4. Owners'
    BY <1>1, <1>3, <1>5, <2>1, <2>3, CallbackFacts, ReturnOwners DEF TrackedInv, PendingIsSeq
  <2>5. a # LoopArena /\ a \in 0 .. (nextArenaId - 1)
    BY DEF TrackedInv, Owners, LiveOK, Lent
  <2>6. StageOK'
    BY <1>3, <2>3, <2>5 DEF TrackedInv, StageOK
  <2>. QED
    BY <1>1, <2>3, <2>4, <2>5, <2>6 DEF StepHolds, TrackedInv, Next, ReturnNext, TrackerNext
<1>. QED
  BY <1>4, <1>5

-----------------------------------------------------------------------------

LEMMA InitTracked == TrackedInit => TrackedInv
<1> SUFFICES ASSUME TrackedInit PROVE TrackedInv
  OBVIOUS
<1>1. IInv /\ Pending = <<>>
  BY InitIInv, RefinesInit DEF TrackedInit, Queue!Init
<1>2. Len(Pending) = 0
  BY <1>1
<1>3. live = {} /\ conns = {} /\ held = NoArena /\ nextArenaId = 0 /\ stage = "starting"
      /\ pc = "idle"
  BY DEF TrackedInit, TrackerInit, Init
<1>4. Owners
  BY <1>2, <1>3, TrackedBounds
     DEF Owners, LiveOK, ConnsOK, HeldOK, PendingOK, OnceOK, OwnerOK, Lent
<1>5. StageOK
  BY <1>1, <1>3 DEF StageOK
<1>. QED
  BY <1>1, <1>4, <1>5 DEF TrackedInv

LEMMA HandlerInLoop == TrackedInv /\ stage # "killed" /\ pc = "handler" => stage = "loop"
  BY DEF TrackedInv, StageOK

LEMMA TrackedStep ==
    ASSUME TrackedInv, TrackedNext
    PROVE  StepHolds
<1> USE ArenaNumbers
<1>0. stage # "killed"
  BY DEF TrackedNext, Ended
<1>1. CASE Start \/ Run \/ AcceptClient \/ NewTask
  <2>1. CASE Start
    BY <2>1, CreateSound DEF Start
  <2>2. CASE Run
    BY <2>2, CreateSound DEF Run
  <2>3. CASE AcceptClient
    BY <2>3, <1>0, HandlerInLoop, CreateSound DEF AcceptClient, Serving, Iterating
  <2>4. CASE NewTask
    <3>1. stage \in {"ready", "loop"} /\ pc # "test"
      BY <2>4, <1>0, HandlerInLoop DEF NewTask, MayPost, TrackedInv, StageOK
    <3>. QED
      BY <2>4, <3>1, CreateSound DEF NewTask
  <2>. QED
    BY <1>1, <2>1, <2>2, <2>3, <2>4
<1>2. CASE UseMain \/ UseTask \/ \E a \in conns : UseConn(a)
  <2>1. CASE UseMain
    <3>1. MainArena \in 0 .. (nextArenaId - 1)
      BY <2>1 DEF UseMain, TrackedInv, StageOK
    <3>. QED
      BY <2>1, <3>1, UseSound DEF UseMain
  <2>2. CASE UseTask
    <3>1. held \in 0 .. (nextArenaId - 1)
      BY <2>2 DEF UseTask, TrackedInv, Owners, HeldOK, LiveOK, Lent
    <3>. QED
      BY <2>2, <3>1, UseSound DEF UseTask
  <2>3. ASSUME NEW a \in conns, UseConn(a)
        PROVE  StepHolds
    <3>1. a \in 0 .. (nextArenaId - 1)
      BY DEF TrackedInv, Owners, ConnsOK, LiveOK, Lent
    <3>. QED
      BY <2>3, <3>1, UseSound DEF UseConn
  <2>. QED
    BY <1>2, <2>1, <2>2, <2>3
<1>3. CASE Bail \/ Wake \/ Stop \/ FlushAtEnd \/ Flush \/ Exited \/ Kill
  <2>1. CASE Bail
    BY <2>1, StageSound DEF Bail
  <2>2. CASE Stop
    BY <2>2, StageSound DEF Stop
  <2>7. CASE Wake
    BY <2>7, StageSound DEF Wake
  <2>3. CASE FlushAtEnd
    BY <2>3, StageSound DEF FlushAtEnd
  <2>4. CASE Flush
    BY <2>4, StageSound DEF Flush, processVars
  <2>5. CASE Exited
    BY <2>5, StageSound DEF Exited
  <2>6. CASE Kill
    BY <2>6, StageSound DEF Kill
  <2>. QED
    BY <1>3, <2>1, <2>2, <2>3, <2>4, <2>5, <2>6, <2>7
<1>4. CASE PushFirst \/ PushNext \/ PushTask
  <2>1. CASE PushFirst
    BY <2>1, PushIterationSound DEF PushFirst
  <2>2. CASE PushNext
    BY <2>2, <1>0, HandlerInLoop, PushIterationSound DEF PushNext, Serving, Iterating
  <2>3. CASE PushTask
    BY <2>3, <1>0, PushTaskSound
  <2>. QED
    BY <1>4, <2>1, <2>2, <2>3
<1>5. CASE ExecLoop \/ InvokeNext \/ LoopDrained
  BY <1>5, <1>0, LoopSound DEF ExecLoop, InvokeNext, LoopDrained
<1>6. CASE ReturnNext
  BY <1>6, <1>0, ReturnSound
<1>7. CASE FreeLoopArena \/ DestroyContext
  BY <1>7, UnwindSound DEF FreeLoopArena, DestroyContext
<1>8. ASSUME NEW a \in conns, DisconnectConn(a)
      PROVE  StepHolds
  <2>1. stage \in {"loop", "drained"}
    BY <1>8, <1>0, HandlerInLoop DEF DisconnectConn, Serving, Iterating
  <2>. QED
    BY <1>8, <2>1, DisconnectSound DEF DisconnectConn
<1>. QED
  BY <1>1, <1>2, <1>3, <1>4, <1>5, <1>6, <1>7, <1>8 DEF TrackedNext, Progress

LEMMA TrackedStutter == TrackedInv /\ UNCHANGED trackedVars => TrackedInv'
<1> SUFFICES ASSUME TrackedInv, UNCHANGED trackedVars PROVE TrackedInv'
  OBVIOUS
<1>1. UNCHANGED <<vars, trackerVars, live, conns, held, dropped>> /\ stage' = stage
  BY DEF trackedVars, processVars
<1>. QED
  BY <1>1, StageSound DEF StepHolds

LEMMA TrackedInductive == TrackedSpec => []TrackedInv
<1>1. TrackedInv /\ [TrackedNext]_trackedVars => TrackedInv'
  BY TrackedStep, TrackedStutter DEF StepHolds
<1>. QED
  BY <1>1, InitTracked, PTL DEF TrackedSpec

LEMMA OwnersAreOwned == TrackedInv => ArenasOwned
<1> SUFFICES ASSUME TrackedInv PROVE ArenasOwned
  OBVIOUS
<1>1. PendingIsSeq /\ Len(Pending) = size
  BY PendingSeq DEF TrackedInv, PendingIsSeq
<1> DEFINE pending == {Pending[i].arena : i \in 1 .. size}
<1>2. \A i \in 1 .. size : Pending[i].arena \in live \ conns
  <2> TAKE i \in 1 .. size
  <2>1. CASE Pending[i] = Iteration /\ LoopArena \in live
    BY <2>1, CallbackFacts DEF TrackedInv, Owners, ConnsOK, Lent
  <2>2. ASSUME NEW a \in Lent \ (conns \cup {held}), Pending[i] = TaskOf(a)
        PROVE  Pending[i].arena \in live \ conns
    BY <2>2, CallbackFacts DEF Lent
  <2>. QED
    BY <1>1, <2>1, <2>2 DEF TrackedInv, Owners, PendingOK
<1>3. conns \cup pending \subseteq live /\ conns \cap pending = {}
  BY <1>2 DEF TrackedInv, Owners, ConnsOK, Lent
<1>4. live \ {MainArena, LoopArena} \subseteq conns \cup pending \cup {held} \cup dropped
  <2> SUFFICES ASSUME NEW a \in Lent, NEW i \in 1 .. size, Pending[i] = TaskOf(a)
               PROVE  a \in pending
    BY <1>1 DEF TrackedInv, Owners, OwnerOK, Lent
  <2>. QED
    BY CallbackFacts
<1>5. \A i, j \in 1 .. size : i # j /\ Pending[i] = Pending[j] => Pending[i] = Iteration
  BY <1>1 DEF TrackedInv, Owners, OnceOK
<1>. QED
  BY <1>3, <1>4, <1>5 DEF ArenasOwned

\* No callback and no connection has an arena that is freed, and none is lost
\* but with a callback a full ring refused.
THEOREM OwnersHoldTheirArenas == TrackedSpec => []ArenasOwned
  BY TrackedInductive, OwnersAreOwned, PTL

\* A process that runs the loop drives the ring as EventLoop does, so that it
\* is a queue for the server's callbacks too, and its indices stay within it.
THEOREM ProcessDrivesRing == TrackedSpec => Spec
<1>1. TrackedInit => Init
  BY DEF TrackedInit
<1>2. TrackedInv /\ [TrackedNext]_trackedVars => [Next]_vars
  BY TrackedStep DEF StepHolds, trackedVars
<1>. QED
  BY <1>1, <1>2, TrackedInductive, PTL DEF TrackedSpec, Spec

\* The arenas of the process are those the tracker knows: each event is about
\* an arena that was created.
THEOREM ProcessDrivesTracker == TrackedSpec => TrackerSpec
<1>1. TrackedInit => TrackerInit
  BY DEF TrackedInit
<1>2. TrackedInv /\ [TrackedNext]_trackedVars => [TrackerNext]_trackerVars
  BY TrackedStep DEF StepHolds, trackedVars
<1>. QED
  BY <1>1, <1>2, TrackedInductive, PTL DEF TrackedSpec, TrackerSpec

\* Hence, in the process: the ring is the queue, and no flush loses an event.
THEOREM ProcessKeepsPromises == TrackedSpec => []TypeOK /\ []NothingLost /\ RingIsQueue
  BY ProcessDrivesRing, ProcessDrivesTracker, TypeCorrect, RingImplementsQueue,
     FlushesLoseNothing, PTL

-----------------------------------------------------------------------------

LEMMA ArenasOf ==
    ASSUME NEW list \in Seq(Event)
    PROVE  /\ Reader!ArenasIn(list) = {list[i].arena : i \in 1 .. Len(list)}
           /\ \A i \in 1 .. Len(list) : /\ list[i] \in Event
                                       /\ list[i].arena \in Nat
                                       /\ list[i].arena \in Reader!ArenasIn(list)
           /\ Reader!ArenasIn(list) \subseteq Nat
<1>1. DOMAIN list = 1 .. Len(list) /\ \A i \in 1 .. Len(list) : list[i] \in Event
  OBVIOUS
<1>2. \A e \in Event : e.arena \in Nat
  BY DEF Event
<1>3. Reader!ArenasIn(list) = {list[i].arena : i \in 1 .. Len(list)}
  BY <1>1 DEF Reader!ArenasIn
<1>. QED
  BY <1>1, <1>2, <1>3

\* The reader's states have a place for every arena of the dump.
LEMMA IdsCover ==
    ASSUME NEW list \in Seq(Event)
    PROVE  Reader!ArenasIn(list) \subseteq Reader!ArenaIds(list)
<1> DEFINE ids == {0} \cup Reader!ArenasIn(list)
           Bounded(n) == \E m \in ids : \A i \in 1 .. Len(list) : i <= n => list[i].arena <= m
           S == {n \in Nat : Bounded(n)}
<1>1. \A i \in 1 .. Len(list) : list[i].arena \in ids \cap Nat
  BY ArenasOf
<1>2. ids \subseteq Nat
  BY ArenasOf
<1>3. Bounded(0)
  BY <1>1
<1>4. \A n \in Nat : Bounded(n) => Bounded(n + 1)
  <2> SUFFICES ASSUME NEW n \in Nat, Bounded(n) PROVE Bounded(n + 1)
    OBVIOUS
  <2>1. PICK m \in ids : \A i \in 1 .. Len(list) : i <= n => list[i].arena <= m
    OBVIOUS
  <2>2. CASE n + 1 \notin 1 .. Len(list)
    BY <2>1, <2>2
  <2>3. CASE n + 1 \in 1 .. Len(list)
    <3> DEFINE a == list[n + 1].arena
    <3>1. a \in ids \cap Nat /\ m \in Nat
      BY <2>3, <1>1, <1>2
    <3>2. \A i \in 1 .. Len(list) : list[i].arena \in Nat
      BY <1>1
    <3> HIDE DEF ids
    <3>3. CASE a <= m
      BY <2>1, <3>1, <3>3
    <3>4. CASE m < a
      BY <2>1, <3>1, <3>2, <3>4
    <3>. QED
      BY <3>1, <3>3, <3>4
  <2>. QED
    BY <2>2, <2>3
<1>5. Bounded(Len(list))
  <2> HIDE DEF Bounded
  <2>1. S \in SUBSET Nat /\ 0 \in S /\ \A n \in S : n + 1 \in S
    BY <1>3, <1>4
  <2> HIDE DEF S
  <2>2. S = Nat
    BY <2>1, SetInduction, Zenon
  <2>. QED
    BY <2>2 DEF S
<1>6. \E m \in ids : \A a \in ids : m >= a
  <2>1. PICK m \in ids : \A i \in 1 .. Len(list) : list[i].arena <= m
    BY <1>5
  <2>2. m \in Nat
    BY <1>2
  <2>3. \A a \in Reader!ArenasIn(list) : m >= a
    BY <2>1, <2>2, ArenasOf
  <2>. QED
    BY <2>2, <2>3
<1>7. Reader!Max(ids) \in ids /\ \A a \in ids : Reader!Max(ids) >= a
  <2> HIDE DEF ids
  <2>. QED
    BY <1>6 DEF Reader!Max
<1>8. \A a \in ids : a \in 0 .. Reader!Max(ids)
  <2> HIDE DEF ids
  <2>. QED
    BY <1>2, <1>7
<1>. QED
  BY <1>8 DEF Reader!ArenaIds

-----------------------------------------------------------------------------

States == {"NEVER_SEEN", "ALIVE", "FREED"}

\* The reader's loop: what it knows before the first event, and after each.
IsReplay(r, list) ==
    r = [n \in 0 .. Len(list) |->
            IF n = 0 THEN Reader!Unread(Reader!ArenaIds(list)) ELSE Reader!Read(r[n - 1], list[n])]

LEMMA ReplayUnfolds ==
    ASSUME NEW list \in Seq(Event)
    PROVE  \E r : IsReplay(r, list) /\ Reader!Replay(list) = r[Len(list)]
<1> DEFINE ids == Reader!ArenaIds(list)
           X == [states : [ids -> States], ok : BOOLEAN]
           F == [n \in Nat |-> [x \in X |->
                    IF n \in 1 .. Len(list) THEN Reader!Read(x, list[n]) ELSE x]]
<1>1. Reader!Unread(ids) \in X
  BY DEF Reader!Unread, States
<1>2. ASSUME NEW x \in X, NEW e \in Event
      PROVE  Reader!Read(x, e) \in X
  <2>1. x.states \in [ids -> States]
    OBVIOUS
  <2>2. [x.states EXCEPT ![e.arena] = Reader!StateAfter(e, @)] \in [ids -> States]
    <3> HIDE DEF ids
    <3>. QED
      BY <2>1 DEF Reader!StateAfter, States
  <2>3. (x.ok /\ x.states[e.arena] = Reader!Expected(e)) \in BOOLEAN
    OBVIOUS
  <2>. QED
    BY <2>2, <2>3 DEF Reader!Read
<1>3. F \in [Nat -> [X -> X]]
  <2> HIDE DEF X
  <2>. QED
    BY <1>2
<1>4. Len(list) \in Nat
  OBVIOUS
<1>5. PICK g \in [0 .. Len(list) -> X] : IsRecursion(g, Reader!Unread(ids), F, Len(list))
  <2> HIDE DEF F, X, ids
  <2>. QED
    BY <1>1, <1>3, <1>4, RecursiveFunctionExists
<1>6. IsReplay(g, list)
  <2> HIDE DEF X, ids
  <2>1. \A n \in 1 .. Len(list) : F[n][g[n - 1]] = Reader!Read(g[n - 1], list[n])
    <3> TAKE n \in 1 .. Len(list)
    <3>1. g[n - 1] \in X /\ n \in Nat
      OBVIOUS
    <3>. QED
      BY <3>1
  <2> HIDE DEF F
  <2>2. g = [n \in 0 .. Len(list) |-> IF n = 0 THEN Reader!Unread(ids) ELSE Reader!Read(g[n - 1], list[n])]
    BY <1>4, <1>5, <2>1 DEF IsRecursion
  <2>. QED
    BY <2>2 DEF IsReplay, ids
<1> DEFINE r == CHOOSE r : IsReplay(r, list)
<1>7. IsReplay(r, list)
  BY <1>6
<1>8. Reader!Replay(list) = r[Len(list)]
  BY DEF Reader!Replay, IsReplay
<1> HIDE DEF r
<1>. QED
  BY <1>7, <1>8

-----------------------------------------------------------------------------

Made(list, i, a) == list[i].arena = a /\ list[i].type = "ARENA_CREATED"
Gone(list, i, a) == list[i].arena = a /\ list[i].type = "ARENA_FREED"

\* The i-th event may happen after those before it.
InOrder(list, i) ==
    LET a == list[i].arena
    IN  IF list[i].type = "ARENA_CREATED" THEN \A j \in 1 .. (i - 1) : list[j].arena # a
        ELSE /\ \E j \in 1 .. (i - 1) : Made(list, j, a)
             /\ \A j \in 1 .. (i - 1) : ~Gone(list, j, a)

Orderly(list, n) == \A i \in 1 .. n : InOrder(list, i)

StateOf(list, n, a) ==
    IF \E j \in 1 .. n : Gone(list, j, a) THEN "FREED"
    ELSE IF \E j \in 1 .. n : Made(list, j, a) THEN "ALIVE" ELSE "NEVER_SEEN"

LEMMA MadeBefore ==
    ASSUME NEW list, NEW n \in Nat, Orderly(list, n), NEW j \in 1 .. n
    PROVE  \E i \in 1 .. n : Made(list, i, list[j].arena)
  BY DEF Orderly, InOrder, Made

LEMMA StateExpected ==
    ASSUME NEW list \in Seq(Event), NEW n \in Nat, n + 1 \in 1 .. Len(list), Orderly(list, n)
    PROVE  InOrder(list, n + 1) <=>
               StateOf(list, n, list[n + 1].arena) = Reader!Expected(list[n + 1])
<1> DEFINE a == list[n + 1].arena
<1>1. CASE list[n + 1].type = "ARENA_CREATED"
  <2>1. InOrder(list, n + 1) <=> \A j \in 1 .. n : list[j].arena # a
    BY <1>1 DEF InOrder
  <2>2. StateOf(list, n, a) = "NEVER_SEEN" <=>
            \A j \in 1 .. n : ~Gone(list, j, a) /\ ~Made(list, j, a)
    BY DEF StateOf
  <2>3. (\A j \in 1 .. n : list[j].arena # a) <=>
            \A j \in 1 .. n : ~Gone(list, j, a) /\ ~Made(list, j, a)
    BY MadeBefore DEF Gone, Made
  <2>. QED
    BY <1>1, <2>1, <2>2, <2>3 DEF Reader!Expected
<1>2. CASE list[n + 1].type # "ARENA_CREATED"
  <2>1. InOrder(list, n + 1) <=> /\ \E j \in 1 .. n : Made(list, j, a)
                                 /\ \A j \in 1 .. n : ~Gone(list, j, a)
    BY <1>2 DEF InOrder
  <2>2. StateOf(list, n, a) = "ALIVE" <=> /\ \E j \in 1 .. n : Made(list, j, a)
                                          /\ \A j \in 1 .. n : ~Gone(list, j, a)
    BY DEF StateOf
  <2>. QED
    BY <1>2, <2>1, <2>2 DEF Reader!Expected
<1>. QED
  BY <1>1, <1>2

LEMMA StateStep ==
    ASSUME NEW list \in Seq(Event), NEW n \in Nat, n + 1 \in 1 .. Len(list),
           Orderly(list, n), InOrder(list, n + 1), NEW b
    PROVE  StateOf(list, n + 1, b) =
               IF b = list[n + 1].arena
               THEN Reader!StateAfter(list[n + 1], StateOf(list, n, b)) ELSE StateOf(list, n, b)
<1>1. \A j \in 1 .. (n + 1) : j \in 1 .. n \/ j = n + 1
  OBVIOUS
<1>2. CASE b # list[n + 1].arena
  BY <1>1, <1>2 DEF StateOf, Gone, Made
<1>3. CASE b = list[n + 1].arena
  <2>1. CASE list[n + 1].type = "ARENA_CREATED"
    <3>1. \A j \in 1 .. n : list[j].arena # b
      BY <1>3, <2>1 DEF InOrder
    <3>2. Made(list, n + 1, b) /\ ~Gone(list, n + 1, b)
      BY <1>3, <2>1 DEF Made, Gone
    <3>3. \A j \in 1 .. (n + 1) : ~Gone(list, j, b)
      BY <1>1, <3>1, <3>2 DEF Gone
    <3>4. n + 1 \in 1 .. (n + 1)
      OBVIOUS
    <3>. QED
      BY <1>3, <2>1, <3>2, <3>3, <3>4 DEF StateOf, Reader!StateAfter
  <2>2. CASE list[n + 1].type = "ARENA_FREED"
    <3>1. n + 1 \in 1 .. (n + 1) /\ Gone(list, n + 1, b)
      BY <1>3, <2>2 DEF Gone
    <3>. QED
      BY <1>3, <2>2, <3>1 DEF StateOf, Reader!StateAfter
  <2>3. CASE list[n + 1].type \notin {"ARENA_CREATED", "ARENA_FREED"}
    <3>1. ~Made(list, n + 1, b) /\ ~Gone(list, n + 1, b)
      BY <2>3 DEF Made, Gone
    <3>2. StateOf(list, n + 1, b) = StateOf(list, n, b)
      BY <1>1, <3>1 DEF StateOf
    <3>. QED
      BY <1>3, <2>3, <3>2 DEF Reader!StateAfter
  <2>. QED
    BY <2>1, <2>2, <2>3
<1>. QED
  BY <1>2, <1>3

\* The reader finds a dump in order exactly if it is, and then knows what
\* became of every arena.
LEMMA ReplayKnows ==
    ASSUME NEW list \in Seq(Event), NEW r, IsReplay(r, list)
    PROVE  /\ r[Len(list)].ok <=> Orderly(list, Len(list))
           /\ Orderly(list, Len(list)) =>
                 \A a \in Reader!ArenaIds(list) :
                    r[Len(list)].states[a] = StateOf(list, Len(list), a)
<1> DEFINE ids == Reader!ArenaIds(list)
           Knows(n) == n \in 0 .. Len(list) =>
               /\ r[n].ok <=> Orderly(list, n)
               /\ Orderly(list, n) => r[n].states = [a \in ids |-> StateOf(list, n, a)]
           S == {n \in Nat : Knows(n)}
<1>0. Len(list) \in Nat
  OBVIOUS
<1>1. r[0] = Reader!Unread(ids) /\ \A n \in 1 .. Len(list) : r[n] = Reader!Read(r[n - 1], list[n])
  BY <1>0 DEF IsReplay
<1>2. Knows(0)
  BY <1>1 DEF Reader!Unread, Orderly, StateOf
<1>3. ASSUME NEW n \in Nat, Knows(n)
      PROVE  Knows(n + 1)
  <2> SUFFICES ASSUME n + 1 \in 1 .. Len(list)
               PROVE  /\ r[n + 1].ok <=> Orderly(list, n + 1)
                      /\ Orderly(list, n + 1) =>
                            r[n + 1].states = [a \in ids |-> StateOf(list, n + 1, a)]
    BY <1>0
  <2> DEFINE e == list[n + 1]
  <2>1. r[n + 1] = Reader!Read(r[n], e) /\ n \in 0 .. Len(list)
    <3>1. (n + 1) - 1 = n
      OBVIOUS
    <3>. QED
      BY <1>1, <3>1
  <2>2. /\ r[n].ok <=> Orderly(list, n)
        /\ Orderly(list, n) => r[n].states = [a \in ids |-> StateOf(list, n, a)]
    BY <1>3, <2>1
  <2>3. Orderly(list, n + 1) <=> Orderly(list, n) /\ InOrder(list, n + 1)
    BY DEF Orderly
  <2>4. e.arena \in ids
    BY IdsCover, ArenasOf
  <2>5. /\ r[n + 1].ok <=> r[n].ok /\ r[n].states[e.arena] = Reader!Expected(e)
        /\ r[n + 1].states = [r[n].states EXCEPT ![e.arena] = Reader!StateAfter(e, @)]
    <3> DEFINE ok == r[n].ok /\ r[n].states[e.arena] = Reader!Expected(e)
    <3> HIDE DEF e, ids
    <3>1. r[n + 1] = [states |-> [r[n].states EXCEPT ![e.arena] = Reader!StateAfter(e, @)],
                      ok |-> ok]
      BY <2>1, Zenon DEF Reader!Read
    <3> HIDE DEF ok
    <3>2. r[n + 1].ok = ok /\ r[n + 1].states = [r[n].states EXCEPT ![e.arena] = Reader!StateAfter(e, @)]
      BY <3>1
    <3>. QED
      BY <3>2, Zenon DEF ok
  <2>6. CASE ~Orderly(list, n)
    BY <2>2, <2>3, <2>5, <2>6
  <2>7. CASE Orderly(list, n)
    <3>1. r[n].states = [a \in ids |-> StateOf(list, n, a)]
      BY <2>2, <2>7
    <3>2. r[n].states[e.arena] = StateOf(list, n, e.arena)
      BY <2>4, <3>1
    <3>3. r[n + 1].ok <=> InOrder(list, n + 1)
      BY <2>2, <2>5, <2>7, <3>2, StateExpected
    <3>4. ASSUME InOrder(list, n + 1)
          PROVE  r[n + 1].states = [a \in ids |-> StateOf(list, n + 1, a)]
      <4>1. \A a \in ids : StateOf(list, n + 1, a) =
                IF a = e.arena THEN Reader!StateAfter(e, StateOf(list, n, a)) ELSE StateOf(list, n, a)
        BY <2>7, <3>4, StateStep
      <4> HIDE DEF ids, e
      <4>2. [r[n].states EXCEPT ![e.arena] = Reader!StateAfter(e, @)]
              = [a \in ids |-> IF a = e.arena THEN Reader!StateAfter(e, StateOf(list, n, a))
                               ELSE StateOf(list, n, a)]
        BY <3>1, <2>4
      <4>. QED
        BY <2>5, <4>1, <4>2
    <3>. QED
      BY <2>3, <2>7, <3>3, <3>4
  <2>. QED
    BY <2>6, <2>7
<1>4. Knows(Len(list))
  <2> HIDE DEF Knows
  <2>1. S \in SUBSET Nat /\ 0 \in S /\ \A n \in S : n + 1 \in S
    BY <1>2, <1>3
  <2> HIDE DEF S
  <2>2. S = Nat
    BY <2>1, SetInduction, Zenon
  <2>. QED
    BY <1>0, <2>2 DEF S
<1>. QED
  BY <1>0, <1>4

-----------------------------------------------------------------------------

\* All that happens to arena a happens from its creation at b to its end at f.
LivesFromTo(list, a, b, f) ==
    /\ list[b].arena = a /\ list[f].arena = a /\ b < f
    /\ \A i \in 1 .. Len(list) : list[i].arena = a => Reader!Between(list, i, b, f)

LEMMA LifetimeUnfolds ==
    ASSUME NEW list \in Seq(Event), NEW a
    PROVE  Reader!Lifetime(a, list) <=>
               \E b, f \in 1 .. Len(list) : LivesFromTo(list, a, b, f)
<1> DEFINE life == Reader!EventsOf(a, list)
           n == Len(list)
<1>1. DOMAIN list = 1 .. n /\ n \in Nat
  OBVIOUS
<1>2. \A i : i \in life <=> i \in 1 .. n /\ list[i].arena = a
  BY <1>1 DEF Reader!EventsOf
<1>3. Reader!Lifetime(a, list) <=>
          \E b, f \in life : b < f /\ \A i \in life : Reader!Between(list, i, b, f)
  BY DEF Reader!Lifetime
<1> HIDE DEF life
<1>4. (\E b, f \in life : b < f /\ \A i \in life : Reader!Between(list, i, b, f)) <=>
          \E b, f \in 1 .. n : LivesFromTo(list, a, b, f)
  BY <1>2 DEF LivesFromTo
<1>. QED
  BY <1>3, <1>4 DEF n

LEMMA OrderlyLifetime ==
    ASSUME NEW list \in Seq(Event), Orderly(list, Len(list)), NEW a \in Reader!ArenasIn(list),
           StateOf(list, Len(list), a) # "ALIVE"
    PROVE  Reader!Lifetime(a, list)
<1> DEFINE n == Len(list)
<1>1. n \in Nat
  OBVIOUS
<1>2. PICK i \in 1 .. n : list[i].arena = a
  BY ArenasOf
<1>3. PICK b \in 1 .. n : Made(list, b, a)
  BY <1>1, <1>2, MadeBefore
<1>4. PICK f \in 1 .. n : Gone(list, f, a)
  BY <1>3 DEF StateOf
<1> HIDE DEF n
<1>5. ASSUME NEW j \in 1 .. n, list[j].arena = a
      PROVE  /\ b <= j /\ j <= f
             /\ list[j].type = "ARENA_CREATED" <=> j = b
             /\ list[j].type = "ARENA_FREED" <=> j = f
  <2>1. InOrder(list, j) /\ InOrder(list, b) /\ InOrder(list, f)
    BY DEF Orderly, n
  <2>2. b <= j
    <3>1. \A k \in 1 .. (b - 1) : list[k].arena # a
      BY <1>3, <2>1 DEF InOrder, Made
    <3>. QED
      BY <1>5, <3>1, <1>1
  <2>3. list[j].type = "ARENA_CREATED" <=> j = b
    <3>1. list[j].type = "ARENA_CREATED" => \A k \in 1 .. (j - 1) : list[k].arena # a
      BY <1>5, <2>1 DEF InOrder
    <3>. QED
      BY <1>3, <2>2, <3>1, <1>1 DEF Made
  <2>4. j <= f
    <3>1. ASSUME f < j PROVE FALSE
      <4>1. f \in 1 .. (j - 1)
        BY <3>1, <1>1
      <4>2. list[j].type # "ARENA_CREATED"
        BY <1>4, <1>5, <2>1, <4>1 DEF InOrder, Gone
      <4>. QED
        BY <1>4, <1>5, <2>1, <4>1, <4>2 DEF InOrder
    <3>. QED
      BY <3>1, <1>1
  <2>5. list[j].type = "ARENA_FREED" <=> j = f
    <3>1. ASSUME list[j].type = "ARENA_FREED", j < f PROVE FALSE
      <4>1. j \in 1 .. (f - 1) /\ Gone(list, j, a)
        BY <1>5, <3>1, <1>1 DEF Gone
      <4>. QED
        BY <1>4, <2>1, <4>1 DEF InOrder, Gone
    <3>. QED
      BY <1>4, <2>4, <3>1, <1>1 DEF Gone
  <2>. QED
    BY <2>2, <2>3, <2>4, <2>5
<1>6. b < f
  BY <1>1, <1>3, <1>4, <1>5 DEF Made, Gone
<1>7. ASSUME NEW j \in 1 .. n, list[j].arena = a
      PROVE  Reader!Between(list, j, b, f)
  BY <1>1, <1>5, <1>7 DEF Reader!Between
<1>8. LivesFromTo(list, a, b, f)
  BY <1>3, <1>4, <1>6, <1>7 DEF Made, Gone, LivesFromTo, n
<1>. QED
  BY <1>8, LifetimeUnfolds DEF n

LEMMA LifetimeOrderly ==
    ASSUME NEW list \in Seq(Event), \A a \in Reader!ArenasIn(list) : Reader!Lifetime(a, list)
    PROVE  /\ Orderly(list, Len(list))
           /\ \A a : StateOf(list, Len(list), a) # "ALIVE"
<1> DEFINE n == Len(list)
<1>1. n \in Nat
  OBVIOUS
<1>2. ASSUME NEW i \in 1 .. n
      PROVE  InOrder(list, i)
  <2> DEFINE a == list[i].arena
  <2>1. PICK b \in 1 .. n, f \in 1 .. n :
            /\ list[b].arena = a /\ list[f].arena = a /\ b < f
            /\ \A j \in 1 .. n : list[j].arena = a =>
                  /\ b <= j /\ j <= f
                  /\ list[j].type = "ARENA_CREATED" <=> j = b
                  /\ list[j].type = "ARENA_FREED" <=> j = f
    <3>1. a \in Reader!ArenasIn(list)
      BY ArenasOf
    <3> HIDE DEF a
    <3>2. PICK b \in 1 .. n, f \in 1 .. n : LivesFromTo(list, a, b, f)
      BY <3>1, LifetimeUnfolds
    <3>. QED
      BY <3>2, <1>1 DEF LivesFromTo, Reader!Between
  <2>2. b <= i /\ i <= f
    BY <2>1
  <2> HIDE DEF n
  <2>3. CASE list[i].type = "ARENA_CREATED"
    <3>1. i = b
      BY <2>1, <2>3
    <3>2. \A j \in 1 .. (i - 1) : list[j].arena # a
      BY <2>1, <3>1, <1>1
    <3>. QED
      BY <2>3, <3>2 DEF InOrder
  <2>4. CASE list[i].type # "ARENA_CREATED"
    <3>1. b \in 1 .. (i - 1)
      BY <2>1, <2>2, <2>4, <1>1
    <3>2. Made(list, b, a)
      BY <2>1 DEF Made
    <3>3. \A j \in 1 .. (i - 1) : ~Gone(list, j, a)
      BY <2>1, <2>2, <1>1 DEF Gone
    <3>. QED
      BY <2>4, <3>1, <3>2, <3>3 DEF InOrder
  <2>. QED
    BY <2>3, <2>4
<1>3. ASSUME NEW a, NEW i \in 1 .. n, Made(list, i, a)
      PROVE  \E j \in 1 .. n : Gone(list, j, a)
  <2>1. a \in Reader!ArenasIn(list)
    BY <1>3, ArenasOf DEF Made
  <2>2. PICK b \in 1 .. n, f \in 1 .. n :
            /\ list[f].arena = a
            /\ \A j \in 1 .. n : list[j].arena = a => (list[j].type = "ARENA_FREED" <=> j = f)
    BY <2>1, LifetimeUnfolds DEF LivesFromTo, Reader!Between
  <2>. QED
    BY <2>2 DEF Gone
<1>. QED
  BY <1>2, <1>3 DEF Orderly, StateOf

\* Every line of a readable dump is an event.
LEMMA ReadableEvents ==
    ASSUME NEW lines \in Seq(Event \cup {Cut})
    PROVE  Reader!Readable(lines) <=> lines \in Seq(Event)
<1>1. Cut \notin Event
  BY DEF Cut, Event, EventTypes
<1>2. /\ Len(lines) \in Nat /\ DOMAIN lines = 1 .. Len(lines)
      /\ \A i \in 1 .. Len(lines) : lines[i] \in Event \cup {Cut}
  OBVIOUS
<1>3. Reader!Readable(lines) => \A i \in 1 .. Len(lines) : lines[i] \in Event
  BY <1>2 DEF Reader!Readable, Reader!Parsed
<1>4. (\A i \in 1 .. Len(lines) : lines[i] \in Event) => lines \in Seq(Event)
  BY <1>2
<1>5. ASSUME lines \in Seq(Event) PROVE Reader!Readable(lines)
  <2>1. \A i \in 1 .. Len(lines) : lines[i] \in Event
    BY <1>5
  <2>. QED
    BY <1>1, <1>2, <2>1 DEF Reader!Readable, Reader!Parsed
<1>. QED
  BY <1>3, <1>4, <1>5

LEMMA VerdictOfReplay ==
    ASSUME NEW list \in Seq(Event)
    PROVE  Reader!VerifyAllArenasFreed(list) <=>
               /\ Orderly(list, Len(list))
               /\ \A a \in Reader!ArenaIds(list) : StateOf(list, Len(list), a) # "ALIVE"
<1>1. PICK r : IsReplay(r, list) /\ Reader!Replay(list) = r[Len(list)]
  BY ReplayUnfolds
<1>2. /\ r[Len(list)].ok <=> Orderly(list, Len(list))
      /\ Orderly(list, Len(list)) =>
            \A a \in Reader!ArenaIds(list) :
               r[Len(list)].states[a] = StateOf(list, Len(list), a)
  BY <1>1, ReplayKnows
<1>. QED
  BY <1>1, <1>2 DEF Reader!VerifyAllArenasFreed, Reader!LeakChecked

LEMMA VerdictOfEvents ==
    ASSUME NEW list \in Seq(Event)
    PROVE  Reader!VerifyAllArenasFreed(list) <=>
               \A a \in Reader!ArenasIn(list) : Reader!Lifetime(a, list)
  BY VerdictOfReplay, IdsCover, OrderlyLifetime, LifetimeOrderly

LEMMA VerdictOfLines ==
    ASSUME NEW lines \in Seq(Event \cup {Cut})
    PROVE  Reader!Verified(lines) <=> Reader!Sound(lines)
  BY ReadableEvents, VerdictOfEvents DEF Reader!Verified, Reader!Sound

LEMMA TrackerInductive == TrackedSpec => []TrackerInv
  BY ProcessDrivesTracker, InvInductive, PTL

\* The reader finds a dump clean exactly if every arena in it was created once,
\* used while it lived, and freed last, however long the dump is.
THEOREM VerdictIsLifetimes == TrackedSpec => []VerdictMeansLifetimes
<1>1. TrackerInv => VerdictMeansLifetimes
  BY VerdictOfLines DEF TrackerInv, TrackerTypes, VerdictMeansLifetimes
<1>. QED
  BY <1>1, TrackerInductive, PTL

-----------------------------------------------------------------------------

\* What the reader's verdict says of the process: the history is in order, and
\* tells of every arena what became of it.

Truth(a) ==
    IF a \in live THEN "ALIVE"
    ELSE IF a \in 0 .. (nextArenaId - 1) THEN "FREED" ELSE "NEVER_SEEN"

\* The arena of main is the first that is created and the last that is freed.
Journal ==
    /\ Orderly(history, Len(history))
    /\ \A a : StateOf(history, Len(history), a) = Truth(a)
    /\ history # <<>> => Made(history, 1, MainArena)
    /\ \A i \in 1 .. Len(history) : Gone(history, i, MainArena) => i = Len(history)

MainOK ==
    stage \in {"main", "prepare", "ready", "loop", "drained", "unwound"} => MainArena \in live

\* A process that ends by itself has flushed.
EndOK ==
    /\ stage = "exiting" => flushing \/ eventCount = 0
    /\ stage = "exited" => ~flushing /\ eventCount = 0

JournalInv == MainOK /\ EndOK /\ Journal

\* Lists with the same first n events tell the same.
LEMMA SamePrefix ==
    ASSUME NEW k, NEW l, NEW n \in Nat, \A i \in 1 .. n : k[i] = l[i]
    PROVE  /\ Orderly(k, n) <=> Orderly(l, n)
           /\ \A a : StateOf(k, n, a) = StateOf(l, n, a)
<1>1. \A i \in 1 .. n : \A a : (Made(k, i, a) <=> Made(l, i, a)) /\ (Gone(k, i, a) <=> Gone(l, i, a))
  BY DEF Made, Gone
<1>2. \A a : StateOf(k, n, a) = StateOf(l, n, a)
  BY <1>1 DEF StateOf
<1>3. ASSUME NEW i \in 1 .. n
      PROVE  InOrder(k, i) <=> InOrder(l, i)
  <2>1. \A j \in 1 .. (i - 1) : j \in 1 .. n
    OBVIOUS
  <2>. QED
    BY <1>1, <2>1 DEF InOrder
<1>. QED
  BY <1>2, <1>3 DEF Orderly

LEMMA RecordJournal ==
    ASSUME TrackerTypes, Journal, NEW type \in EventTypes, NEW a \in Nat,
           history' = Append(history, [type |-> type, arena |-> a]),
           Truth(a) = Reader!Expected([type |-> type, arena |-> a]),
           Truth(MainArena) # "FREED",
           history = <<>> => type = "ARENA_CREATED" /\ a = MainArena,
           \A b : Truth(b)' = IF b = a
                              THEN Reader!StateAfter([type |-> type, arena |-> a], Truth(b))
                              ELSE Truth(b)
    PROVE  Journal'
<1> DEFINE e == [type |-> type, arena |-> a]
           n == Len(history)
           new == Append(history, e)
<1>1. e \in Event /\ e.type = type /\ e.arena = a
  BY DEF Event
<1>2. history \in Seq(Event) /\ n \in Nat
  BY DEF TrackerTypes
<1> HIDE DEF e
<1>3. /\ new \in Seq(Event) /\ Len(new) = n + 1 /\ new[n + 1] = e
      /\ \A i \in 1 .. n : new[i] = history[i]
  BY <1>1, <1>2
<1>4. history' = new
  BY DEF e
<1> HIDE DEF new
<1>5. Orderly(new, n) /\ \A b : StateOf(new, n, b) = Truth(b)
  <2>1. /\ Orderly(new, n) <=> Orderly(history, n)
        /\ \A b : StateOf(new, n, b) = StateOf(history, n, b)
    <3> HIDE DEF n
    <3>. QED
      BY <1>2, <1>3, SamePrefix
  <2>. QED
    BY <2>1 DEF Journal
<1> HIDE DEF n
<1>6. n + 1 \in 1 .. Len(new)
  BY <1>2, <1>3
<1>7. InOrder(new, n + 1)
  BY <1>1, <1>2, <1>3, <1>5, <1>6, StateExpected DEF e
<1>8. Orderly(new, n + 1)
  BY <1>2, <1>5, <1>7 DEF Orderly
<1>9. \A b : StateOf(new, n + 1, b) = Truth(b)'
  <2>1. \A b : StateOf(new, n + 1, b) =
                   IF b = a THEN Reader!StateAfter(e, Truth(b)) ELSE Truth(b)
    BY <1>1, <1>2, <1>3, <1>5, <1>6, <1>7, StateStep
  <2>. QED
    BY <2>1 DEF e
<1>10. Made(new, 1, MainArena)
  <2>1. CASE history = <<>>
    <3>1. n = 0
      BY <2>1 DEF n
    <3>. QED
      BY <1>1, <1>3, <2>1, <3>1 DEF Made
  <2>2. CASE history # <<>>
    <3>1. 1 \in 1 .. n
      BY <1>2, <2>2 DEF n
    <3>. QED
      BY <1>3, <2>2, <3>1 DEF Made, Journal
  <2>. QED
    BY <2>1, <2>2
<1>11. ASSUME NEW i \in 1 .. (n + 1), Gone(new, i, MainArena)
       PROVE  i = n + 1
  <2>1. ASSUME i \in 1 .. n PROVE FALSE
    <3>1. Gone(history, i, MainArena)
      BY <1>3, <1>11, <2>1 DEF Gone
    <3>2. StateOf(history, n, MainArena) = "FREED"
      BY <2>1, <3>1 DEF StateOf
    <3>. QED
      BY <3>2 DEF Journal, n
  <2>. QED
    BY <1>2, <2>1
<1>. QED
  BY <1>3, <1>4, <1>8, <1>9, <1>10, <1>11 DEF Journal

LEMMA CreateJournal ==
    ASSUME TrackedInv, TrackerTypes, MainOK, Journal, CreateArena,
           stage \in {"starting", "main", "ready", "loop"}
    PROVE  Journal'
<1> USE ArenaNumbers
<1> DEFINE a == nextArenaId
           e == [type |-> "ARENA_CREATED", arena |-> a]
<1>1. /\ history' = Append(history, e)
      /\ nextArenaId' = a + 1 /\ live' = live \cup {a} /\ a \in Nat
  BY DEF CreateArena, ArenaCreated, Record, TrackerTypes
<1>2. live \subseteq 0 .. (a - 1)
  BY DEF TrackedInv, Owners, LiveOK
<1>3. a \notin live /\ a \notin 0 .. (a - 1)
  BY <1>1, <1>2
<1>4. Truth(a) = Reader!Expected(e)
  BY <1>3 DEF Truth, Reader!Expected
<1>5. Truth(MainArena) # "FREED"
  BY <1>1 DEF Truth, MainOK, TrackedInv, StageOK
<1>6. history = <<>> => a = MainArena
  <2>1. ASSUME history = <<>> PROVE Truth(0) = "NEVER_SEEN"
    <3>1. Len(history) = 0
      BY <2>1
    <3>2. StateOf(history, 0, 0) = Truth(0)
      BY <3>1 DEF Journal
    <3>. QED
      BY <3>2 DEF StateOf
  <2>2. Truth(0) = "NEVER_SEEN" => 0 \notin 0 .. (a - 1)
    BY DEF Truth
  <2>. QED
    BY <1>1, <2>1, <2>2
<1>7. ASSUME NEW b
      PROVE  Truth(b)' = IF b = a THEN Reader!StateAfter(e, Truth(b)) ELSE Truth(b)
  <2>1. b \in 0 .. (a + 1 - 1) <=> b \in 0 .. (a - 1) \/ b = a
    BY <1>1
  <2>. QED
    BY <1>1, <2>1 DEF Truth, Reader!StateAfter
<1>. QED
  BY <1>1, <1>4, <1>5, <1>6, <1>7, RecordJournal DEF EventTypes

LEMMA FreeJournal ==
    ASSUME TrackedInv, TrackerTypes, MainOK, Journal, NEW a \in live, FreeArena(a),
           stage \in {"loop", "drained", "unwound"}
    PROVE  Journal'
<1> DEFINE e == [type |-> "ARENA_FREED", arena |-> a]
<1>1. /\ history' = Append(history, e)
      /\ nextArenaId' = nextArenaId /\ live' = live \ {a}
  BY DEF FreeArena, ArenaFreed, Record
<1>2. a \in 0 .. (nextArenaId - 1) /\ a \in Nat
  BY DEF TrackedInv, Owners, LiveOK
<1>3. Truth(a) = Reader!Expected(e) /\ Truth(MainArena) # "FREED"
  BY DEF Truth, Reader!Expected, MainOK
<1>4. history # <<>>
  <2>1. ASSUME history = <<>> PROVE Truth(a) = "NEVER_SEEN"
    <3>1. Len(history) = 0
      BY <2>1
    <3>2. StateOf(history, 0, a) = Truth(a)
      BY <3>1 DEF Journal
    <3>. QED
      BY <3>2 DEF StateOf
  <2>. QED
    BY <2>1 DEF Truth
<1>5. ASSUME NEW b
      PROVE  Truth(b)' = IF b = a THEN Reader!StateAfter(e, Truth(b)) ELSE Truth(b)
  BY <1>1, <1>2 DEF Truth, Reader!StateAfter
<1>. QED
  BY <1>1, <1>2, <1>3, <1>4, <1>5, RecordJournal DEF EventTypes

LEMMA UseJournal ==
    ASSUME TrackedInv, TrackerTypes, MainOK, Journal, NEW a \in live, UNCHANGED live,
           MemoryAllocated(a) \/ ArenaReset(a),
           stage \in {"main", "ready", "loop"}
    PROVE  Journal'
<1> DEFINE e(type) == [type |-> type, arena |-> a]
<1>1. PICK type \in {"MEMORY_ALLOCATED", "ARENA_RESET"} :
          history' = Append(history, e(type)) /\ nextArenaId' = nextArenaId
  BY DEF MemoryAllocated, ArenaReset, Record
<1>2. a \in Nat
  BY DEF TrackedInv, Owners, LiveOK
<1>3. Truth(a) = Reader!Expected(e(type)) /\ Truth(MainArena) # "FREED"
  BY DEF Truth, Reader!Expected, MainOK
<1>4. history # <<>>
  <2>1. ASSUME history = <<>> PROVE Truth(a) = "NEVER_SEEN"
    <3>1. Len(history) = 0
      BY <2>1
    <3>2. StateOf(history, 0, a) = Truth(a)
      BY <3>1 DEF Journal
    <3>. QED
      BY <3>2 DEF StateOf
  <2>. QED
    BY <2>1 DEF Truth
<1>5. ASSUME NEW b
      PROVE  Truth(b)' = IF b = a THEN Reader!StateAfter(e(type), Truth(b)) ELSE Truth(b)
  BY <1>1 DEF Truth, Reader!StateAfter
<1>. QED
  BY <1>1, <1>2, <1>3, <1>4, <1>5, RecordJournal DEF EventTypes

-----------------------------------------------------------------------------

LEMMA ReturnFrees ==
    ASSUME TrackedInv, ReturnNext, stage # "killed"
    PROVE  /\ stage = "loop"
           /\ UNCHANGED <<trackerVars, live>> \/ \E a \in Lent : FreeArena(a)
<1>1. /\ PendingIsSeq /\ Pending # <<>> /\ current = Pending[1]
  BY ReturnPending DEF TrackedInv, ReturnNext
<1>2. 1 \in 1 .. Len(Pending)
  BY <1>1 DEF PendingIsSeq
<1>3. stage = "loop" /\ Policy(current)
  BY DEF ReturnNext, Return, TrackedInv, StageOK
<1>4. CASE Pending[1] = Iteration
  BY <1>1, <1>3, <1>4, CallbackFacts DEF Policy
<1>5. ASSUME NEW a \in Lent, Pending[1] = TaskOf(a)
      PROVE  FreeArena(a)
  BY <1>1, <1>3, <1>5, CallbackFacts DEF Policy
<1>. QED
  BY <1>2, <1>3, <1>4, <1>5 DEF TrackedInv, Owners, PendingOK

\* What a step of the process adds to the history, and in which stage.
Creates == CreateArena /\ stage \in {"starting", "main", "ready", "loop"}

Frees ==
    \E a \in live : /\ FreeArena(a)
                    /\ stage \in {"loop", "drained", "unwound"}
                    /\ a = MainArena => stage' = "destroyed"

Uses ==
    \E a \in live : /\ MemoryAllocated(a) \/ ArenaReset(a)
                    /\ stage \in {"main", "ready", "loop"}
                    /\ UNCHANGED live

Silent == UNCHANGED <<history, live, nextArenaId>>

LEMMA FlushSilent ==
    FlushEvents \/ FlushEvent \/ FlushDone \/ Abandon \/ UNCHANGED trackerVars =>
        UNCHANGED <<history, nextArenaId>>
  BY DEF FlushEvents, FlushEvent, FlushDone, Abandon, trackerVars

LEMMA StepEntries ==
    ASSUME TrackedInv, MainOK, TrackedNext
    PROVE  Creates \/ Frees \/ Uses \/ Silent
<1> USE ArenaNumbers
<1>0. stage # "killed"
  BY DEF TrackedNext, Ended
<1>1. CASE Start \/ Run \/ AcceptClient \/ NewTask
  <2>1. NewTask => stage \in {"ready", "loop"}
    BY <1>0, HandlerInLoop DEF NewTask, MayPost
  <2>. QED
    BY <1>0, <1>1, <2>1, HandlerInLoop DEF Start, Run, AcceptClient, Serving, Iterating, NewTask, Creates
<1>2. CASE UseMain
  BY <1>2 DEF UseMain, Use, Uses, MainOK
<1>3. CASE UseTask
  <2>1. held \in live /\ stage \in {"ready", "loop"}
    BY <1>0, <1>3 DEF UseTask, TrackedInv, StageOK, Owners, HeldOK, Lent
  <2>. QED
    BY <1>3, <2>1 DEF UseTask, Use, Uses
<1>4. ASSUME NEW a \in conns, UseConn(a)
      PROVE  Uses
  <2>1. a \in live /\ stage = "loop"
    BY <1>0, <1>4, HandlerInLoop DEF UseConn, Serving, Iterating, TrackedInv, Owners, ConnsOK, Lent
  <2>. QED
    BY <1>4, <2>1 DEF UseConn, Use, Uses
<1>5. ASSUME NEW a \in conns, DisconnectConn(a)
      PROVE  Frees
  <2>1. a \in live /\ a # MainArena
    BY DEF TrackedInv, Owners, ConnsOK, Lent
  <2>2. stage \in {"loop", "drained"}
    BY <1>0, <1>5, HandlerInLoop DEF DisconnectConn, Serving, Iterating
  <2>. QED
    BY <1>5, <2>1, <2>2 DEF DisconnectConn, Frees
<1>6. CASE ReturnNext
  <2>1. CASE UNCHANGED <<trackerVars, live>>
    BY <2>1 DEF trackerVars, Silent
  <2>2. ASSUME NEW a \in Lent, FreeArena(a)
        PROVE  Frees
    BY <1>0, <1>6, <2>2, ReturnFrees DEF Lent, Frees
  <2>. QED
    BY <1>0, <1>6, <2>1, <2>2, ReturnFrees
<1>7. CASE FreeLoopArena \/ DestroyContext
  BY <1>7 DEF FreeLoopArena, DestroyContext, Frees, MainOK, TrackedInv, StageOK
<1>8. CASE Bail \/ Wake \/ Stop \/ FlushAtEnd \/ Flush \/ Exited \/ Kill
  BY <1>8, FlushSilent DEF Bail, Wake, Stop, FlushAtEnd, Flush, Exited, Kill, processVars, Silent
<1>9. CASE PushFirst \/ PushNext \/ PushTask \/ ExecLoop \/ InvokeNext \/ LoopDrained
  BY <1>9, FlushSilent
     DEF PushFirst, PushNext, PushTask, ExecLoop, InvokeNext, LoopDrained, Silent
<1>. QED
  BY <1>1, <1>2, <1>3, <1>4, <1>5, <1>6, <1>7, <1>8, <1>9 DEF TrackedNext, Progress

LEMMA StageMoves ==
    ASSUME TrackedNext
    PROVE  \/ stage' = stage
           \/ Start /\ stage' = "main"
           \/ stage = "main" /\ stage' = "exiting" /\ FlushEvents
           \/ stage = "main" /\ stage' = "prepare"
           \/ stage = "prepare" /\ stage' = "ready"
           \/ stage = "ready" /\ stage' = "loop"
           \/ stage' = "drained" /\ Drained
           \/ stage = "drained" /\ stage' = "unwound"
           \/ stage = "unwound" /\ stage' = "destroyed"
           \/ stage = "destroyed" /\ stage' = "flushed"
           \/ stage = "flushed" /\ stage' = "exiting" /\ FlushEvents
           \/ stage = "exiting" /\ stage' = "exited" /\ Exited
           \/ stage' = "killed"
<1>1. CASE Start \/ Run \/ AcceptClient \/ NewTask \/ UseMain \/ UseTask
  BY <1>1 DEF Start, Run, AcceptClient, NewTask, UseMain, UseTask
<1>2. CASE \E a \in conns : UseConn(a) \/ DisconnectConn(a)
  BY <1>2 DEF UseConn, DisconnectConn
<1>3. CASE Bail \/ Wake \/ Stop \/ FlushAtEnd \/ Flush \/ Exited \/ Kill
  BY <1>3 DEF Bail, Wake, Stop, FlushAtEnd, Flush, Exited, Kill, processVars
<1>4. CASE PushFirst \/ PushNext \/ PushTask \/ ExecLoop \/ InvokeNext \/ LoopDrained
  BY <1>4 DEF PushFirst, PushNext, PushTask, ExecLoop, InvokeNext, LoopDrained
<1>5. CASE ReturnNext \/ FreeLoopArena \/ DestroyContext
  BY <1>5 DEF ReturnNext, FreeLoopArena, DestroyContext
<1>. QED
  BY <1>1, <1>2, <1>3, <1>4, <1>5 DEF TrackedNext, Progress

LEMMA MainStep ==
    ASSUME TrackedInv, MainOK, TrackedNext
    PROVE  MainOK'
<1> USE ArenaNumbers
<1>1. CASE Start
  BY <1>1 DEF Start, CreateArena, TrackedInv, StageOK, MainOK
<1>2. CASE ~Start
  <2> SUFFICES ASSUME stage' \in {"main", "prepare", "ready", "loop", "drained", "unwound"}
               PROVE  MainArena \in live'
    BY DEF MainOK
  <2>1. MainArena \in live
    <3>1. stage' = stage \/ Drained \/ stage \in {"main", "prepare", "ready", "drained"}
      BY <1>2, StageMoves
    <3>2. Drained => stage \in {"loop", "killed"}
      BY DEF Drained, TrackedInv, StageOK
    <3>3. stage # "killed"
      BY DEF TrackedNext, Ended
    <3>. QED
      BY <3>1, <3>2, <3>3 DEF MainOK
  <2>2. Creates => MainArena \in live'
    BY <2>1 DEF Creates, CreateArena
  <2>3. Frees => MainArena \in live'
    BY <2>1 DEF Frees, FreeArena
  <2>. QED
    BY <2>1, <2>2, <2>3, StepEntries DEF Uses, Silent
<1>. QED
  BY <1>1, <1>2

LEMMA EndStep ==
    ASSUME TrackedInv, EndOK, TrackedNext
    PROVE  EndOK'
<1>1. CASE stage' \notin {"exiting", "exited"}
  BY <1>1 DEF EndOK
<1>2. CASE stage' = "exiting" /\ FlushEvents
  BY <1>2 DEF EndOK, FlushEvents
<1>3. CASE stage' = "exited" /\ Exited
  BY <1>3 DEF EndOK, Exited, trackerVars
<1>4. CASE stage' = stage /\ stage = "exiting"
  <2>1. pc = "idle" /\ held = NoArena /\ conns = {}
    BY <1>4 DEF TrackedInv, StageOK
  <2>2. Flush
    <3>1. ~(Start \/ Run \/ AcceptClient \/ NewTask \/ UseMain \/ UseTask)
      BY <1>4, <2>1 DEF Start, Run, AcceptClient, Serving, Iterating, NewTask, MayPost, UseMain, UseTask
    <3>2. ~(Bail \/ Wake \/ Stop \/ FlushAtEnd \/ Exited \/ Kill)
      BY <1>4, <2>1 DEF Bail, Wake, Stop, Asleep, Iterating, FlushAtEnd, Exited, Kill
    <3>3. ~(PushFirst \/ PushNext \/ PushTask \/ ExecLoop \/ InvokeNext \/ LoopDrained)
      BY <1>4, <2>1 DEF PushFirst, PushNext, Serving, Iterating, PushTask, ExecLoop, InvokeNext, Invoke,
                        LoopDrained, Drained
    <3>4. ~(ReturnNext \/ FreeLoopArena \/ DestroyContext)
      BY <1>4, <2>1 DEF ReturnNext, Return, FreeLoopArena, DestroyContext
    <3>. QED
      BY <2>1, <3>1, <3>2, <3>3, <3>4 DEF TrackedNext, Progress
  <2>. QED
    BY <1>4, <2>2 DEF EndOK, Flush, FlushEvent, FlushDone
<1>5. stage # "exited"
  BY DEF TrackedNext, Ended
<1>. QED
  BY <1>1, <1>2, <1>3, <1>4, <1>5, StageMoves

LEMMA SilentJournal == Journal /\ Silent => Journal'
  BY DEF Journal, Silent, Truth

LEMMA JournalStep ==
    ASSUME TrackedInv, TrackerInv, JournalInv, [TrackedNext]_trackedVars
    PROVE  JournalInv'
<1>1. CASE TrackedNext
  <2>1. TrackerTypes /\ MainOK /\ EndOK /\ Journal
    BY DEF TrackerInv, JournalInv
  <2>2. MainOK' /\ EndOK'
    BY <1>1, <2>1, MainStep, EndStep
  <2>3. Creates => Journal'
    BY <2>1, CreateJournal DEF Creates
  <2>4. Frees => Journal'
    BY <2>1, FreeJournal DEF Frees
  <2>5. Uses => Journal'
    BY <2>1, UseJournal DEF Uses
  <2>. QED
    BY <1>1, <2>1, <2>2, <2>3, <2>4, <2>5, StepEntries, SilentJournal DEF JournalInv
<1>2. CASE UNCHANGED trackedVars
  <2>1. UNCHANGED <<stage, live, history, nextArenaId, flushing, eventCount>>
    BY <1>2 DEF trackedVars, trackerVars, processVars
  <2>2. MainOK' /\ EndOK'
    BY <2>1 DEF JournalInv, MainOK, EndOK
  <2>. QED
    BY <2>1, <2>2, SilentJournal DEF JournalInv, Silent
<1>. QED
  BY <1>1, <1>2

LEMMA InitJournal == TrackedInit => JournalInv
<1> SUFFICES ASSUME TrackedInit PROVE JournalInv
  OBVIOUS
<1>1. history = <<>> /\ Len(history) = 0 /\ stage = "starting" /\ live = {} /\ nextArenaId = 0
  BY DEF TrackedInit, TrackerInit
<1>2. \A a : Truth(a) = "NEVER_SEEN"
  BY <1>1 DEF Truth
<1>3. \A a : StateOf(history, Len(history), a) = "NEVER_SEEN"
  BY <1>1 DEF StateOf
<1>. QED
  BY <1>1, <1>2, <1>3 DEF JournalInv, MainOK, EndOK, Journal, Orderly

LEMMA JournalInductive == TrackedSpec => []JournalInv
  BY TrackedInductive, TrackerInductive, InitJournal, JournalStep, PTL DEF TrackedSpec

LEMMA VerdictTrue ==
    ASSUME TrackedInv, TrackerInv, JournalInv
    PROVE  VerdictIsTruth
<1> USE ArenaNumbers
<1> SUFFICES ASSUME Ended, writeFaults = 0, dump # <<>>
             PROVE  /\ Reader!Verified(dump) => live = {}
                    /\ stage = "exited" /\ live = {} => Reader!Verified(dump)
  BY DEF VerdictIsTruth
<1> DEFINE n == Len(history)
           m == Len(dump)
<1>1. /\ history \in Seq(Event) /\ dump \in Seq(Event \cup {Cut})
      /\ n \in Nat /\ m \in Nat /\ m <= n /\ n = m + eventCount - written
      /\ \A i \in 1 .. m : dump[i] = history[i]
      /\ eventCount \in Nat /\ written \in 0 .. eventCount
  BY DEF TrackerInv, TrackerTypes, Kept
<1>2. dump \in Seq(Event)
  <2>1. \A i \in 1 .. m : dump[i] \in Event
    BY <1>1
  <2>. QED
    BY <1>1, <2>1
<1>3. m > 0
  BY <1>1
<1>4. Reader!Verified(dump) <=>
          /\ Orderly(dump, m)
          /\ \A a \in Reader!ArenaIds(dump) : StateOf(dump, m, a) # "ALIVE"
  BY <1>2, ReadableEvents, VerdictOfReplay DEF Reader!Verified
<1> HIDE DEF m, n
<1>5. /\ Orderly(dump, m) <=> Orderly(history, m)
      /\ \A a : StateOf(dump, m, a) = StateOf(history, m, a)
  BY <1>1, SamePrefix
<1>6. m = n => Orderly(dump, m) /\ \A a : StateOf(dump, m, a) = Truth(a)
  BY <1>5 DEF JournalInv, Journal, n
<1>7. ASSUME Reader!Verified(dump)
      PROVE  live = {}
  <2>1. Made(dump, 1, MainArena) /\ 1 \in 1 .. m
    <3>1. history # <<>>
      BY <1>1, <1>3 DEF n
    <3>. QED
      BY <1>1, <1>3, <3>1 DEF Made, JournalInv, Journal
  <2>2. \A i \in 1 .. m : dump[i].arena \in Reader!ArenaIds(dump)
    BY <1>2, ArenasOf, IdsCover DEF m
  <2>3. PICK k \in 1 .. m : Gone(dump, k, MainArena)
    BY <1>4, <1>7, <2>1, <2>2 DEF StateOf, Made
  <2>4. Gone(history, k, MainArena) /\ k \in 1 .. n
    BY <1>1, <2>3 DEF Gone
  <2>5. k = n
    BY <2>4 DEF JournalInv, Journal, n
  <2>6. m = n
    BY <1>1, <2>5
  <2>7. \A a \in live : StateOf(dump, m, a) = "ALIVE"
    BY <1>6, <2>6 DEF Truth
  <2>8. \A a \in live : \E j \in 1 .. m : dump[j].arena = a
    BY <2>7 DEF StateOf, Made
  <2>. QED
    BY <1>4, <1>7, <2>2, <2>7, <2>8
<1>8. ASSUME stage = "exited", live = {}
      PROVE  Reader!Verified(dump)
  <2>1. m = n
    BY <1>1, <1>8 DEF JournalInv, EndOK, TrackerInv, Quiet
  <2>. QED
    BY <1>4, <1>6, <1>8, <2>1 DEF Truth
<1>. QED
  BY <1>7, <1>8

\* What the integration tests take the verdict for: of a process whose writes
\* succeed, a dump is found clean only if all that was created was freed, and
\* is found clean if the process ended by itself and freed it all.
THEOREM VerdictTells == TrackedSpec => []VerdictIsTruth
  BY TrackedInductive, TrackerInductive, JournalInductive, VerdictTrue, PTL
=============================================================================
