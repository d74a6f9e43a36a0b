-------------------------- MODULE MCWorkspaceStore --------------------------
(* WorkspaceStore on a small disk for TLC. *)
EXTENDS WorkspaceStore, TLC

ProjectSymmetry == Permutations(Projects)
=============================================================================
