----------------------------- MODULE MCScheduler -----------------------------
(* Small instances of the scheduler for TLC: an hour of four ticks. *)
EXTENDS Scheduler
CONSTANTS p1, p2
MCProcess == {p1, p2}
=============================================================================
