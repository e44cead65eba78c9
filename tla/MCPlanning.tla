----------------------------- MODULE MCPlanning -----------------------------
(***************************************************************************)
(* Drafts for TLC: all graphs of three steps with up to two dependencies   *)
(* each, the acyclic ones of four steps with any number of them in any     *)
(* order, all pairs of steps of any kind, and one draft of too many steps. *)
(***************************************************************************)
EXTENDS Planning

CONSTANTS a, b, c, d, e

Step(k, deps) == [key |-> k, tool |-> "registered", fixed |-> FALSE, depends_on |-> deps]

Lists(S, n) == UNION {[1..m -> S] : m \in 0..n}

\* The members of S, some of them, in any order.
Orders(S) == UNION {SetToSeqs(T) : T \in SUBSET S}

Graphs3 == {<<Step(a, x), Step(b, y), Step(c, z)>> : x, y, z \in Lists({a, b, c}, 2)}

Dags4 == {<<Step(d, x), Step(c, y), Step(b, z), Step(a, <<>>)>> :
              x \in Orders({a, b, c}), y \in Orders({a, b}), z \in Orders({a})}

AnyStep == [key : {a, b}, tool : {"registered", "unregistered", "blank"},
            fixed : BOOLEAN, depends_on : Lists({a, b, c}, 1)]

TooMany == [i \in 1..5 |-> Step(<<a, b, c, d, e>>[i], <<>>)]

MCDrafts == [steps : Graphs3 \cup Dags4 \cup Lists(AnyStep, 2) \cup {TooMany}, dear : BOOLEAN]

=============================================================================
