---------------------------- MODULE MCConnection ----------------------------
(* One connection at a time: connections meet only in the pool, where the *)
(* list is empty or not, and at the port, which waits for a free one.     *)
EXTENDS Connection, TLC

CONSTANTS c1
=============================================================================
