--------------------------- MODULE MCServerProcess ---------------------------
(* ServerProcess with a few interchangeable processes, directories and inodes. *)
EXTENDS ServerProcess, TLC

ProcessSymmetry == Permutations(Servers) \cup Permutations(Inodes) \cup Permutations(Wdirs)
=============================================================================
