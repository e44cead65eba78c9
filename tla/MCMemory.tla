------------------------------ MODULE MCMemory ------------------------------
(* A fact and its opposite, two open transactions.                          *)
EXTENDS Memory, TLC

CONSTANTS likes, dislikes, t1, t2

MCOpposite(f) == IF f = likes THEN dislikes ELSE likes
Symmetry == Permutations(Txns) \cup Permutations(Facts)
=============================================================================
