------------------------------- MODULE MCTimer -------------------------------
(* An instance of TimerHandle for TLC. *)
EXTENDS TimerHandle

\* Negative, zero, due at the next tick and later: what the eviction timer is
\* rescheduled with when the worker is late, just in time and early.
AnyDurations == -1 .. 3
=============================================================================
