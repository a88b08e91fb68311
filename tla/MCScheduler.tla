---------------------------- MODULE MCScheduler ----------------------------
(* Four process structures and a queue of three entries: the queue fills    *)
(* up, and a structure can wait outside it.                                 *)
EXTENDS Scheduler
CONSTANTS a, b, c, d
MCProcs == {a, b, c, d}
=============================================================================
