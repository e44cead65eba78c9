---------------------------- MODULE MCKnowledge ----------------------------
(* Two users and two groups, three documents over two texts and an empty    *)
(* one, two transactions that add.                                          *)
EXTENDS Knowledge, TLC

CONSTANTS u1, u2, g1, g2, a1, a2, x, y, void

Symmetry == Permutations(Users) \cup Permutations(Groups)
            \cup Permutations(Adders) \cup Permutations(Contents \ Blank)
=============================================================================
