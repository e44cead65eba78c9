----------------------------- MODULE MCEvidence -----------------------------
(***************************************************************************)
(* Two tasks of a workspace.  The first searches the web and the knowledge *)
(* base side by side, the second fetches a page the first may find too;    *)
(* two runs of the search may overlap, and find the same pages.            *)
(***************************************************************************)
EXTENDS Evidence, TLC

CONSTANTS t1, t2, s1, s2, s3, w1, w2, page1, page2, doc

MCToolOf == s1 :> "web.search" @@ s2 :> "knowledge.search" @@ s3 :> "web.fetch"

MCTaskOf == s1 :> t1 @@ s2 :> t1 @@ s3 :> t2

=============================================================================
