---------------------------- MODULE MCDispatcher ----------------------------
(* Two threads beside the dispatcher, three tasks, one of which may expire. *)
EXTENDS Dispatcher, TLC

CONSTANTS io, sched, t1, t2, t3

MCThread == {io, sched}
MCTask   == {t1, t2, t3}
MCTimed  == {t1}
=============================================================================
