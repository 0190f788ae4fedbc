------------------------------- MODULE MCTrade -------------------------------
(* Three players, so that a third can interfere with a trade, and three items *)
(* of which two are bags, so that an offer can be nested in two ways.         *)
EXTENDS Trade

CONSTANTS ann, bob, cat, bag, box, coin
=============================================================================
