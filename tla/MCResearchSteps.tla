------------------------- MODULE MCResearchSteps -------------------------
(* Plans and process sets for model checking ResearchSteps. *)
EXTENDS ResearchSteps, TLC

CONSTANTS a, b, c, d, w1, w2

\* c needs both roots and d follows c: a join, and a chain behind it.
JoinSteps == {a, b, c, d}
JoinDeps  == {<<c, a>>, <<c, b>>, <<d, c>>}

\* One step after another.
ChainSteps == {a, b}
ChainDeps  == {<<b, a>>}

TwoWorkers == {w1, w2}

\* The workers are interchangeable (used by the runs without liveness).
WorkerSymmetry == Permutations(TwoWorkers)
==========================================================================
