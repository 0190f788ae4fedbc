---------------------------- MODULE MCGameSession ----------------------------
(* Two connections that compete for one character: each can log in once,   *)
(* so up to two Player objects, and one session can replace the other.     *)
EXTENDS GameSession

CONSTANTS c1, c2

MCConn == {c1, c2}
=============================================================================
