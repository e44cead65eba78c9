------------------------ MODULE MCResearchPipeline ------------------------
(* Processes for model checking ResearchPipeline. *)
EXTENDS ResearchPipeline, TLC

CONSTANTS w1, w2, c1, c2

TwoWorkers == {w1, w2}
OneCallback  == {c1}
TwoCallbacks == {c1, c2}

\* Workers are interchangeable, and so are callbacks (used by the runs without liveness).
Interchangeable == Permutations(TwoWorkers) \cup Permutations(TwoCallbacks)
===========================================================================
