----------------------------- MODULE MCScheduler -----------------------------
(* TLC instance of Scheduler: six slots, so that the search wraps past     *)
(* several live tasks and a half-filled slot may follow them; a tick       *)
(* counter of four slices, so that it wraps in every rotation length.      *)
EXTENDS Scheduler
=============================================================================
