---------------------------- MODULE MCTrackedLoop ----------------------------
(* TrackedLoop with a ring that fills and wraps, and a buffer of few events. *)
EXTENDS TrackedLoop

MCCallbacks == {Iteration} \cup {TaskOf(a) : a \in 2 .. (MaxArenas - 1)}
=============================================================================
