---------------------------- MODULE ResearchDag ----------------------------
(***************************************************************************)
(* What the execution of a research plan promises, without workers, queue, *)
(* leases or transactions.  A plan is a set of steps with dependencies.  A *)
(* step is active only when everything it depends on is done; it ends once,*)
(* as done or as failed; and a failure skips, in the same instant,         *)
(* everything downstream of it that was still waiting.                     *)
(***************************************************************************)
EXTENDS FiniteSets

CONSTANTS Steps,   \* the steps of one task's plan
          Deps     \* pairs <<s, d>>: step s depends on step d

VARIABLE phase     \* phase[s]: where step s is in its life

Phases == {"waiting", "active", "done", "failed", "skipped"}

DependsOn(s) == {d \in Steps : <<s, d>> \in Deps}

\* A set that holds every step with a dependency in it or on s.
ClosedDownstream(s, X) ==
    \A u \in Steps : DependsOn(u) \cap (X \cup {s}) # {} => u \in X

\* The steps that depend on s, directly or through others: the least such set.
Downstream(s) == {u \in Steps : \A X \in SUBSET Steps :
                                    ClosedDownstream(s, X) => u \in X}

----------------------------------------------------------------------------
Init == phase = [s \in Steps |-> IF DependsOn(s) = {} THEN "active" ELSE "waiting"]

\* s ends well.  Of the waiting steps whose dependencies are now all done, any
\* may become active: the abstraction leaves open how many are noticed.
Finish(s) ==
    /\ phase[s] = "active"
    /\ \E started \in SUBSET {t \in Steps : /\ phase[t] = "waiting"
                                            /\ s \in DependsOn(t)
                                            /\ \A d \in DependsOn(t) :
                                                  d = s \/ phase[d] = "done"} :
          phase' = [t \in Steps |-> IF t = s THEN "done"
                                    ELSE IF t \in started THEN "active"
                                    ELSE phase[t]]

\* s ends badly, and what waits downstream of it will never run.
Fail(s) ==
    /\ phase[s] = "active"
    /\ phase' = [t \in Steps |-> IF t = s THEN "failed"
                                 ELSE IF t \in Downstream(s) /\ phase[t] = "waiting"
                                 THEN "skipped"
                                 ELSE phase[t]]

Next == \E s \in Steps : Finish(s) \/ Fail(s)

Spec == Init /\ [][Next]_phase

----------------------------------------------------------------------------
(***************************************************************************)
(* What the abstract machine itself guarantees.                            *)
(***************************************************************************)
TypeOK == phase \in [Steps -> Phases]

\* No step is active or done before everything it depends on is done.
ActiveAfterDependencies ==
    \A s \in Steps : phase[s] \in {"active", "done", "failed"} =>
        \A d \in DependsOn(s) : phase[d] = "done"

\* A step is skipped exactly when something it depends on failed or was skipped.
SkippedBehindFailure ==
    \A s \in Steps : phase[s] = "skipped" <=>
        \E d \in DependsOn(s) : phase[d] \in {"failed", "skipped"}
============================================================================
