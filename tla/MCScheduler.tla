---------------------------- MODULE MCScheduler ----------------------------
(* Two calling threads, two event objects with delays 1 and 2, which are   *)
(* used again, and two ids besides 0: the counter wraps around, and an id  *)
(* comes back while its first holder is still in the list or its caller    *)
(* still keeps it.                                                         *)
EXTENDS Scheduler

CONSTANTS dispatcher, io, e1, e2

MCCaller == {dispatcher, io}
MCEvent  == {e1, e2}
MCDelay  == {1, 2}
=============================================================================
