------------------------------- MODULE MCArena -------------------------------
(* Arena with two short strings and a vector, and texts longer than a page. *)
EXTENDS Arena, TLC

CONSTANTS x, y, p1, p2, p3

MCStaticText == <<x, x>>
ArenaSymmetry == Permutations(Pages) \cup Permutations(Vars)

\* Bound: the characters allocated at a time.
MaxAllocated == 4
FewAllocated == size[p1] + size[p2] + size[p3] <= MaxAllocated

\* Where a string without characters points is of no use to anyone.
Shown == <<heap, [v \in Vars |-> IF str[v].len = 0 THEN Empty ELSE str[v]], scope, vec>>
=============================================================================
