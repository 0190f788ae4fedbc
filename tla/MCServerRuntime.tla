-------------------------- MODULE MCServerRuntime --------------------------
(* One event, one query with a callback, one network request, two signals. *)
EXTENDS ServerRuntime

CONSTANTS e1, q1, r1, sig1, sig2

MCEvent   == {e1}
MCQuery   == {q1}
MCRequest == {r1}
MCSig     == {sig1, sig2}
MCDelay   == {1}

\* An idle server and one signal.
NoneOf == {}
OneSig == {sig1}
=============================================================================
