----------------------------- MODULE MCTaskLock -----------------------------
(* TaskLock for TLC: a small set of tasks.  They are interchangeable, but  *)
(* the liveness property rules symmetry out.                               *)
EXTENDS TaskLock
=============================================================================
