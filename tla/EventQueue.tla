----------------------------- MODULE EventQueue -----------------------------
(***************************************************************************)
(* What the event loop promises its users: a bounded first-in first-out    *)
(* queue. The callback that runs keeps its place at the head until its     *)
(* handler returns, so it counts against the bound.                        *)
(***************************************************************************)
EXTENDS Naturals, Sequences

CONSTANTS Callbacks, NoCallback, Capacity

VARIABLES
    queue,    \* the accepted callbacks, the one that runs included
    running   \* the callback whose handler runs, or NoCallback

vars == <<queue, running>>

Init == queue = <<>> /\ running = NoCallback

\* A push beyond the bound is dropped.
Push(c) ==
    /\ queue' = IF Len(queue) < Capacity THEN Append(queue, c) ELSE queue
    /\ UNCHANGED running

Run ==
    /\ running = NoCallback /\ queue # <<>>
    /\ running' = Head(queue)
    /\ UNCHANGED queue

Done ==
    /\ running # NoCallback
    /\ queue' = Tail(queue)
    /\ running' = NoCallback

Next == Run \/ Done \/ \E c \in Callbacks : Push(c)

Spec == Init /\ [][Next]_vars
=============================================================================
