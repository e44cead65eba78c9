------------------------------- MODULE MCPolls -------------------------------
(* Two polls of a group, with a member and an option followed in each of them *)
(* and two messages handled at a time.                                        *)
EXTENDS Polls

CONSTANTS ann, A, t1, t2

==============================================================================
