---------------------------- MODULE MCServerLoop ----------------------------
(* ServerLoop with a table smaller than the number of clients. *)
EXTENDS ServerLoop, TLC

CONSTANTS c1, c2, c3

\* The first client is the prompt one and has a body; the others have none.
MCBodyLen == [c \in Clients |-> IF c = c1 THEN 1 ELSE 0]
StallingSymmetry == Permutations(Clients \ {c1})
=============================================================================
