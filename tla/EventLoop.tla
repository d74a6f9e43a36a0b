------------------------------ MODULE EventLoop ------------------------------
(***************************************************************************)
(* The event loop of utils/async: a ring of __EVENT_LOOP_MAX_SIZE slots.   *)
(* EventLoop_Exec invokes the callback in its slot, in place, and leaves   *)
(* the slot only after the handler returned; a handler may push, so the    *)
(* ring can fill while one of its slots is being executed.                 *)
(***************************************************************************)
EXTENDS Integers, Sequences

CONSTANTS
    Callbacks,   \* callbacks that can be pushed
    NoCallback,  \* a slot whose handler is NULL
    Capacity     \* __EVENT_LOOP_MAX_SIZE

ASSUME CapacityAssumption == Capacity \in Nat \ {0}
ASSUME NoCallbackAssumption == NoCallback \notin Callbacks

VARIABLES
    slots,     \* __callbacks
    size,      \* __size
    nextPos,   \* __nextPos
    pc,        \* "idle": outside EventLoop_Exec; "test": at its while; "handler"
    current    \* the callback EventLoop_Exec invoked, or NoCallback

vars == <<slots, size, nextPos, pc, current>>

Positions == 0 .. (Capacity - 1)

TypeOK ==
    /\ slots \in [Positions -> Callbacks \cup {NoCallback}]
    /\ size \in 0 .. Capacity
    /\ nextPos \in Positions
    /\ pc \in {"idle", "test", "handler"}
    /\ current \in Callbacks \cup {NoCallback}

\* EventLoop_New leaves the slots unset; none is read before it is pushed to.
Init ==
    /\ slots = [i \in Positions |-> NoCallback]
    /\ size = 0
    /\ nextPos = 0
    /\ pc = "idle"
    /\ current = NoCallback

-----------------------------------------------------------------------------
\* Mutants: the ring does not wrap; a full ring is not noticed.
NoWrap(i) == i
NeverFull == FALSE

\* The code masks with Capacity - 1, a power of two less one.
Wrap(i) == i % Capacity

FreeSlot == Wrap(nextPos + size)
Full == size = Capacity

\* EventLoop_Push, between runs of the loop or from the handler that runs.
Push(c) ==
    /\ pc \in {"idle", "handler"}
    /\ \/ /\ ~Full
          /\ slots' = [slots EXCEPT ![FreeSlot] = c]
          /\ size' = size + 1
       \/ Full /\ UNCHANGED <<slots, size>>
    /\ UNCHANGED <<nextPos, pc, current>>

Exec ==
    /\ pc = "idle"
    /\ pc' = "test"
    /\ UNCHANGED <<slots, size, nextPos, current>>

Invoke ==
    /\ pc = "test"
    /\ size # 0
    /\ current' = slots[nextPos]
    /\ pc' = "handler"
    /\ UNCHANGED <<slots, size, nextPos>>

\* Mutant: the loop ends after one callback.
AfterHandlerOnce == "idle"

AfterHandler == "test"
ClearedSlot == nextPos

\* The handler returned: Callback_Invoke clears the slot, the loop moves on.
Return ==
    /\ pc = "handler"
    /\ slots' = [slots EXCEPT ![ClearedSlot] = NoCallback]
    /\ nextPos' = Wrap(nextPos + 1)
    /\ size' = size - 1
    /\ current' = NoCallback
    /\ pc' = AfterHandler

Drained ==
    /\ pc = "test"
    /\ size = 0
    /\ pc' = "idle"
    /\ UNCHANGED <<slots, size, nextPos, current>>

Next == Exec \/ Invoke \/ Return \/ Drained \/ \E c \in Callbacks : Push(c)

Spec == Init /\ [][Next]_vars

-----------------------------------------------------------------------------
\* The pending callbacks in the order they were pushed.
Pending == [i \in 1 .. size |-> slots[Wrap(nextPos + i - 1)]]

\* The ring is the bounded queue its users rely on: no accepted callback is
\* overwritten, lost, repeated or reordered, whatever handlers push.
Queue == INSTANCE EventQueue WITH queue <- Pending, running <- current
RingIsQueue == Queue!Spec
=============================================================================
