------------------------------- MODULE MCParty -------------------------------
(* Three players, so that a party can lose its leader and go on, and two      *)
(* addresses, so that a player invited to one party can lead another.  One of *)
(* the players gains nothing in a fight.                                      *)
EXTENDS Party, TLC

CONSTANTS ann, bob, cat, heap1, heap2

Symmetry == Permutations({ann, bob}) \cup Permutations({heap1, heap2})
=============================================================================
