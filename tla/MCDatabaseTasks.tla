-------------------------- MODULE MCDatabaseTasks --------------------------
(* Two calling threads and three queries, two of them with a callback.     *)
EXTENDS DatabaseTasks

CONSTANTS dispatcher, io, q1, q2, q3

MCThread == {dispatcher, io}
MCQuery  == {q1, q2, q3}
MCWithCallback == {q1, q2}
=============================================================================
