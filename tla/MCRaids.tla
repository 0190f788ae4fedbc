------------------------------- MODULE MCRaids -------------------------------
(* A raid that is repeated and one that is not, of two events each. *)
EXTENDS Raids

CONSTANTS dracola, tyrn

LengthValue == [r \in {dracola, tyrn} |-> 2]
=============================================================================
