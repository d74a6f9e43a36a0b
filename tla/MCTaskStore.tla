----------------------------- MODULE MCTaskStore -----------------------------
(* TaskStore with a few ids. *)
EXTENDS TaskStore
=============================================================================
