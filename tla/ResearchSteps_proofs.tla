------------------------ MODULE ResearchSteps_proofs ------------------------
(***************************************************************************)
(* Theorems about ResearchSteps, for every plan and every set of workers.  *)
(* Type correctness, one synthesis message and claims in the order of the  *)
(* plan hold whatever goes wrong.  For any number of crashes, exceptions   *)
(* and failed sends, SafeInv of ResearchSteps is inductive, implies the    *)
(* five safety properties, and the steps implement ResearchDag.            *)
(***************************************************************************)
EXTENDS ResearchSteps, FiniteSetTheorems, TLAPS

(***************************************************************************)
(* Type correctness.                                                       *)
(***************************************************************************)
LEMMA InitTypeOK == Init => TypeOK
  BY StepsAssumption DEF Init, TypeOK, Procs, PCs, StepStatuses

LEMMA EndJobTypeOK ==
  ASSUME TypeOK, NEW p \in Procs, EndJob(p)
  PROVE  /\ pc' \in [Procs -> PCs]
         /\ job' \in [Workers -> Steps \cup {None}]
         /\ outcome' \in [Workers -> StepStatuses]
         /\ touched' \in [Workers -> SUBSET Steps]
         /\ sendFailed' \in [Procs -> BOOLEAN]
<1>1. pc' \in [Procs -> PCs]
  BY DEF EndJob, Goto, TypeOK, PCs
<1>2. job' \in [Workers -> Steps \cup {None}] /\ outcome' \in [Workers -> StepStatuses]
  BY DEF EndJob, TypeOK, StepStatuses
<1>3. touched' \in [Workers -> SUBSET Steps]
  BY DEF EndJob, TypeOK
<1>4. sendFailed' \in [Procs -> BOOLEAN]
  BY DEF EndJob, TypeOK
<1> QED
  BY <1>1, <1>2, <1>3, <1>4

LEMMA NextTypeOK == TypeOK /\ [Next]_vars => TypeOK'
<1> SUFFICES ASSUME TypeOK, [Next]_vars PROVE TypeOK'
  OBVIOUS
<1> USE DEF Goto, vars, rowVars, sentVars, txnVars, dispVars
<1>1. ASSUME NEW p \in Procs, ReadDue(p) PROVE TypeOK'
  BY <1>1 DEF ReadDue, TypeOK, PCs
<1>2. ASSUME NEW p \in Procs, Claim(p) PROVE TypeOK'
  <2>1. PICK claimed \in SUBSET Steps :
          /\ status' = [s \in Steps |-> IF s \in claimed THEN "running" ELSE Promoted(p)[s]]
          /\ owner' = [s \in Steps |-> IF s \in claimed THEN p ELSE owner[s]]
          /\ attempts' = [s \in Steps |-> IF s \in claimed THEN attempts[s] + 1
                                          ELSE attempts[s]]
          /\ batch' = [batch EXCEPT ![p] = claimed]
    BY <1>2 DEF Claim, Claimable
  <2>2. Promoted(p) \in [Steps -> StepStatuses]
    BY DEF Promoted, TypeOK, StepStatuses
  <2>3. status' \in [Steps -> StepStatuses] /\ owner' \in [Steps -> Procs \cup {None}]
    BY <2>1, <2>2 DEF TypeOK, StepStatuses
  <2>4. attempts' \in [Steps -> Nat] /\ batch' \in [Procs -> SUBSET Steps]
    BY <2>1 DEF TypeOK
  <2> QED
    BY <1>2, <2>3, <2>4 DEF Claim, TypeOK, PCs
<1>3. ASSUME NEW p \in Procs, NEW s \in Steps, Send(p, s) PROVE TypeOK'
  BY <1>3 DEF Send, TypeOK
<1>4. ASSUME NEW p \in Procs, NEW s \in Steps, SendFails(p, s) PROVE TypeOK'
  <2>1. status' \in [Steps -> StepStatuses] /\ owner' \in [Steps -> Procs \cup {None}]
    <3>1. CASE status' = [status EXCEPT ![s] = "ready"] /\ owner' = [owner EXCEPT ![s] = None]
      BY <3>1 DEF TypeOK, StepStatuses
    <3>2. CASE UNCHANGED <<status, owner>>
      BY <3>2 DEF TypeOK
    <3> QED
      BY <1>4, <3>1, <3>2 DEF SendFails, ReleaseClaim
  <2>2. queue' \in [Steps -> Nat] /\ faults' \in Nat
    BY <1>4 DEF SendFails, Fault, TypeOK
  <2> QED
    BY <1>4, <2>1, <2>2 DEF SendFails, TypeOK
<1>5. ASSUME NEW p \in Procs, DispatchEnds(p) PROVE TypeOK'
  <2>1. CASE EndJob(p)
    BY <1>5, <2>1, EndJobTypeOK DEF DispatchEnds, TypeOK
  <2>2. CASE ~EndJob(p)
    BY <1>5, <2>2 DEF DispatchEnds, TypeOK, PCs
  <2> QED
    BY <2>1, <2>2
<1>6. ASSUME NEW w \in Workers, NEW s \in Steps, Receive(w, s) PROVE TypeOK'
  BY <1>6 DEF Receive, TypeOK, PCs
<1>7. ASSUME NEW w \in Workers,
             ToolSucceeds(w) \/ ToolFails(w) \/ ToolFailsRetryably(w) \/ ToolRaises(w)
      PROVE TypeOK'
  <2>1. faults' \in Nat
    BY <1>7 DEF ToolSucceeds, ToolFails, ToolFailsRetryably, ToolRaises, Fault, TypeOK
  <2>2. \A s : UnblockSet(s) \subseteq Steps /\ CancelSet(s) \subseteq Steps
    BY DEF UnblockSet, CancelSet, Dependents
  <2>3. \A s : AfterRetryable(s) \in StepStatuses \cap {"failed", "retry_wait"}
    BY DEF AfterRetryable, StepStatuses
  <2>4. \A o \in {"completed", "failed", "retry_wait"} : Rows(w, o) \subseteq Steps
    BY <2>2 DEF Rows
  <2>5. ASSUME NEW o \in {"completed", "failed", "retry_wait"},
               NEW label \in {"commit", "commitError"}, Write(w, o, Rows(w, o), label)
        PROVE TypeOK'
    BY <2>1, <2>4, <2>5 DEF Write, TypeOK, StepStatuses, PCs
  <2> QED
    BY <1>7, <2>3, <2>5 DEF ToolSucceeds, ToolFails, ToolFailsRetryably, ToolRaises
<1>8. ASSUME NEW w \in Workers, Commit(w) PROVE TypeOK'
  <2>1. status' \in [Steps -> StepStatuses] /\ owner' \in [Steps -> Procs \cup {None}]
    BY <1>8 DEF Commit, DependentStatus, TypeOK, StepStatuses
  <2>2. stranded' \in SUBSET Steps /\ succeeded' \in SUBSET Steps
    BY <1>8 DEF Commit, TypeOK
  <2>3. CASE pc[w] = "commit"
    BY <1>8, <2>1, <2>2, <2>3 DEF Commit, TypeOK, PCs, Procs
  <2>4. CASE EndJob(w)
    BY <1>8, <2>1, <2>2, <2>4, EndJobTypeOK DEF Commit, TypeOK, Procs
  <2> QED
    BY <1>8, <2>3, <2>4 DEF Commit
<1>9. ASSUME NEW w \in Workers, CheckComplete(w) PROVE TypeOK'
  <2>1. CASE EndJob(w)
    BY <1>9, <2>1, EndJobTypeOK DEF CheckComplete, TypeOK, Procs
  <2>2. CASE ~EndJob(w)
    BY <1>9, <2>2 DEF CheckComplete, TypeOK, PCs, Procs
  <2> QED
    BY <2>1, <2>2
<1>10. ASSUME NEW w \in Workers, Transition(w) PROVE TypeOK'
  <2>1. CASE EndJob(w)
    BY <1>10, <2>1, EndJobTypeOK DEF Transition, TypeOK, Procs
  <2>2. CASE ~EndJob(w)
    BY <1>10, <2>2 DEF Transition, TypeOK, PCs, Procs
  <2> QED
    BY <2>1, <2>2
<1>11. ASSUME NEW w \in Workers, SendSynthesis(w) PROVE TypeOK'
  BY <1>11, EndJobTypeOK DEF SendSynthesis, Fault, TypeOK, Procs
<1>12. CASE WatchdogReads
  BY <1>12 DEF WatchdogReads, Fault, TypeOK, PCs, Procs
<1>13. CASE WatchdogCommits
  BY <1>13 DEF WatchdogCommits, TypeOK, PCs, Procs, StepStatuses
<1>14. ASSUME NEW p \in Procs, Crash(p) PROVE TypeOK'
  <2>1. queue' \in [Steps -> Nat] /\ faults' \in Nat
    BY <1>14 DEF Crash, Redelivered, Fault, TypeOK
  <2> QED
    BY <1>14, <2>1, EndJobTypeOK DEF Crash, TypeOK
<1>15. ASSUME NEW p \in Procs, JobRaises(p) PROVE TypeOK'
  <2>1. /\ faults' \in Nat /\ stranded' \in SUBSET Steps
        /\ expired' \in SUBSET Steps /\ due' \in [Procs -> SUBSET Steps]
    BY <1>15 DEF JobRaises, Fault, TypeOK
  <2> QED
    BY <1>15, <2>1, EndJobTypeOK DEF JobRaises, TypeOK
<1>16. ASSUME NEW p \in Procs, NEW s \in Steps, ReleaseRaises(p, s) PROVE TypeOK'
  <2>1. queue' \in [Steps -> Nat] /\ faults' \in Nat
    BY <1>16 DEF ReleaseRaises, Fault, TypeOK
  <2> QED
    BY <1>16, <2>1, EndJobTypeOK DEF ReleaseRaises, TypeOK
<1>17. ASSUME NEW w \in Workers, NEW s \in Steps, ReceiveRaises(w, s) PROVE TypeOK'
  BY <1>17 DEF ReceiveRaises, Fault, TypeOK
<1>18. CASE UNCHANGED vars
  BY <1>18 DEF TypeOK
<1> QED
  BY <1>1, <1>2, <1>3, <1>4, <1>5, <1>6, <1>7, <1>8, <1>9, <1>10, <1>11, <1>12, <1>13,
     <1>14, <1>15, <1>16, <1>17, <1>18 DEF Next, Dispatch, Work, DatabaseRaises, Procs

\* Every variable keeps its type, whatever the plan, the processes and the faults.
THEOREM TypeCorrect == Spec => []TypeOK
  BY InitTypeOK, NextTypeOK, PTL DEF Spec


----------------------------------------------------------------------------
(***************************************************************************)
(* What the helpers return.                                                *)
(***************************************************************************)

\* CancelSet(s) is closed under the pending dependents of s and of its members, has
\* no member that is not one of those, and is within every closed set.
LEMMA CancelSetFacts ==
  ASSUME NEW s \in Steps
  PROVE  /\ CancelSet(s) \subseteq Steps
         /\ \A X \in SUBSET Steps : CancelClosed(s, X) => CancelSet(s) \subseteq X
         /\ CancelClosed(s, CancelSet(s))
         /\ \A u \in CancelSet(s) : DependsOn(u) \cap (CancelSet(s) \cup {s}) # {}
<1> DEFINE CS == CancelSet(s)
<1>1. CS \subseteq Steps /\ \A X \in SUBSET Steps : CancelClosed(s, X) => CS \subseteq X
  BY DEF CancelSet
<1>2. CancelClosed(s, CS)
  <2> SUFFICES ASSUME NEW u \in Steps, DependsOn(u) \cap (CS \cup {s}) # {},
                      status[u] \notin Terminal
               PROVE  u \in CS
    BY DEF CancelClosed
  <2>1. ASSUME NEW X \in SUBSET Steps, CancelClosed(s, X) PROVE u \in X
    <3>1. CS \subseteq X
      BY <1>1, <2>1
    <3> QED
      BY <2>1, <3>1 DEF CancelClosed
  <2> QED
    BY <2>1 DEF CancelSet
<1>3. \A u \in CS : DependsOn(u) \cap (CS \cup {s}) # {}
  <2> DEFINE X == {u \in CS : DependsOn(u) \cap (CS \cup {s}) # {}}
  <2>1. CancelClosed(s, X)
    BY <1>1, <1>2 DEF CancelClosed
  <2>2. X \in SUBSET Steps
    BY <1>1
  <2> HIDE DEF X
  <2>3. CS \subseteq X
    BY <1>1, <2>1, <2>2
  <2> QED
    BY <2>3 DEF X
<1> QED
  BY <1>1, <1>2, <1>3

\* A step that depends on a RUNNING step, directly or behind other waiting steps, waits
\* itself: what a failure of the step would cancel is PENDING.
LEMMA CancelSetPending ==
  ASSUME TypeOK, SafeInv, NEW s \in Steps, status[s] = "running"
  PROVE  \A u \in CancelSet(s) : status[u] = "pending"
<1> DEFINE X == {u \in Steps : status[u] = "pending"}
<1>1. CancelClosed(s, X)
  <2> SUFFICES ASSUME NEW u \in Steps, NEW d \in DependsOn(u), d \in X \cup {s},
                      status[u] \notin Terminal
               PROVE  status[u] = "pending"
    BY DEF CancelClosed
  <2>1. status[d] # "completed"
    OBVIOUS
  <2>2. status[u] \notin {"ready", "running", "retry_wait"}
    BY <2>1 DEF SafeInv, DependenciesFirst
  <2> QED
    BY <2>2 DEF TypeOK, StepStatuses, Terminal
<1>2. X \in SUBSET Steps
  OBVIOUS
<1> HIDE DEF X
<1>3. CancelSet(s) \subseteq X
  BY <1>1, <1>2, CancelSetFacts
<1> QED
  BY <1>3 DEF X

\* What the completion of a RUNNING step would unblock is PENDING too.
LEMMA UnblockSetPending ==
  ASSUME TypeOK, SafeInv, NEW s \in Steps, status[s] = "running"
  PROVE  \A t \in UnblockSet(s) : status[t] = "pending"
<1> SUFFICES ASSUME NEW t \in UnblockSet(s) PROVE status[t] = "pending"
  OBVIOUS
<1>1. t \in Steps /\ s \in DependsOn(t)
  BY DEF UnblockSet, Dependents, DependsOn
<1>2. \A d \in DependsOn(t) : status[d] \notin {"failed", "cancelled"}
  BY DEF UnblockSet
<1>3. status[t] # "cancelled"
  BY <1>1, <1>2 DEF SafeInv, CancellationClosed
<1>4. status[t] \notin {"ready", "running", "retry_wait", "completed", "failed"}
  BY <1>1 DEF SafeInv, DependenciesFirst
<1> QED
  BY <1>1, <1>3, <1>4 DEF TypeOK, StepStatuses

\* What the end of a job leaves, process by process.
LEMMA EndJobFacts ==
  ASSUME TypeOK, NEW p \in Workers, EndJob(p)
  PROVE  /\ pc'[p] = "idle" /\ job'[p] = None /\ touched'[p] = {}
         /\ \A q \in Procs : q # p => pc'[q] = pc[q]
         /\ \A w \in Workers : w # p => /\ job'[w] = job[w]
                                        /\ outcome'[w] = outcome[w]
                                        /\ touched'[w] = touched[w]
  BY DEF EndJob, Goto, TypeOK, Procs

\* A step that opens no transaction and changes no row leaves the open ones right.
LEMMA OpenFrame ==
  ASSUME OpenTransactions, status' = status,
         \A w \in Workers : Open(w)' => /\ Open(w)
                                        /\ job'[w] = job[w]
                                        /\ outcome'[w] = outcome[w]
                                        /\ touched'[w] = touched[w]
  PROVE  OpenTransactions'
  BY DEF OpenTransactions

----------------------------------------------------------------------------
(***************************************************************************)
(* Every action preserves the invariant.                                   *)
(***************************************************************************)
\* Nothing waits for a retry, so nothing is due.
LEMMA ReadDueSafe ==
  ASSUME Faults \subseteq SafeFaults, TypeOK, SafeInv,
         NEW p \in Workers, ReadDue(p)
  PROVE  SafeInv'
<1> USE DEF SafeInv, rowVars, sentVars, txnVars, dispVars, Procs
<1>1. NoRecovery'
  BY DEF TypeOK, ReadDue, Goto, NoRecovery
<1>2. JobPhases'
  BY DEF TypeOK, ReadDue, Goto, JobPhases, Open
<1>3. WaitingUnclaimed'
  BY DEF TypeOK, ReadDue, Goto, WaitingUnclaimed
<1>4. ClaimHeld'
  BY DEF TypeOK, ReadDue, Goto, ClaimHeld
<1>5. OpenTransactions'
  BY OpenFrame DEF TypeOK, ReadDue, Goto, Open
<1>6. SynthesisReady'
  BY DEF TypeOK, ReadDue, Goto, SynthesisReady, StepsOver
<1>7. DependenciesFirst'
  BY DEF TypeOK, ReadDue, Goto, DependenciesFirst
<1>8. CancellationClosed'
  BY DEF TypeOK, ReadDue, Goto, CancellationClosed
<1>9. SingleDelivery'
  BY DEF TypeOK, ReadDue, Goto, SingleDelivery, Handles
<1>10. NoOrphanLease'
  BY DEF TypeOK, ReadDue, Goto, NoOrphanLease, Handles
<1>11. SynthesisAfterSteps'
  BY DEF ReadDue, SynthesisAfterSteps, StepsOver
<1> QED
  BY <1>1, <1>2, <1>3, <1>4, <1>5, <1>6, <1>7, <1>8, <1>9, <1>10, <1>11

\* Only READY rows are claimed, and nobody carries those.
LEMMA ClaimSafe ==
  ASSUME Faults \subseteq SafeFaults, TypeOK, SafeInv,
         NEW p \in Workers, Claim(p)
  PROVE  SafeInv'
<1> USE DEF SafeInv, rowVars, sentVars, txnVars, dispVars, Procs
<1>1. PICK claimed \in SUBSET {s \in Steps : status[s] = "ready"} :
        /\ status' = [s \in Steps |-> IF s \in claimed THEN "running" ELSE status[s]]
        /\ owner' = [s \in Steps |-> IF s \in claimed THEN p ELSE owner[s]]
        /\ batch' = [batch EXCEPT ![p] = claimed]
  <2>1. Promoted(p) = status
    BY DEF Promoted, NoRecovery, TypeOK
  <2>2. Claimable(p) \subseteq {s \in Steps : status[s] = "ready"}
    BY <2>1 DEF Claimable
  <2> QED
    BY <2>1, <2>2 DEF Claim
<1>2. /\ pc[p] = "claim" /\ pc' = [pc EXCEPT ![p] = "send"]
      /\ due' = [due EXCEPT ![p] = {}] /\ stranded' = stranded \ batch'[p]
      /\ UNCHANGED <<taskStatus, queue, synthSent, job, outcome, touched>>
  BY DEF Claim, Goto
<1>3. \A s \in claimed : /\ status[s] = "ready" /\ queue[s] = 0
                         /\ \A q \in Procs : s \notin batch[q]
                         /\ \A w \in Workers : job[w] # s
  BY <1>1 DEF WaitingUnclaimed
<1>4. \A s \in Steps : status[s] \in Terminal \/ status[s] = "pending" \/ s \notin claimed
                          => status'[s] = status[s] /\ owner'[s] = owner[s]
  BY <1>1 DEF TypeOK, Terminal
<1>5. NoRecovery'
  BY <1>1, <1>2, <1>3 DEF TypeOK, JobPhases, NoRecovery
<1>6. JobPhases'
  <2>1. \A q \in Procs : pc'[q] # "send" => batch'[q] = {}
    BY <1>1, <1>2 DEF TypeOK, JobPhases
  <2>2. \A w \in Workers : job[w] \in Steps => status'[job[w]] = status[job[w]]
    BY <1>1, <1>3 DEF TypeOK
  <2>3. \A w \in Workers : w # p => pc'[w] = pc[w]
    BY <1>2 DEF TypeOK
  <2>4. pc'[p] = "send"
    BY <1>2 DEF TypeOK
  <2> QED
    BY <1>2, <2>1, <2>2, <2>3, <2>4 DEF TypeOK, JobPhases, Open
<1>7. WaitingUnclaimed'
  BY <1>1, <1>2, <1>3 DEF TypeOK, JobPhases, WaitingUnclaimed
<1>8. ClaimHeld'
  <2>1. \A q \in Procs : q # p => batch'[q] = batch[q]
    BY <1>1 DEF TypeOK
  <2>2. batch'[p] = claimed
    BY <1>1 DEF TypeOK
  <2>3. \A q \in Procs : \A s \in batch[q] : status'[s] = status[s] /\ owner'[s] = owner[s]
    BY <1>1, <1>3 DEF TypeOK
  <2>4. \A s \in claimed : status'[s] = "running" /\ owner'[s] = p
    BY <1>1
  <2> QED
    BY <2>1, <2>2, <2>3, <2>4 DEF ClaimHeld
<1>9. OpenTransactions'
  <2>1. \A w \in Workers : Open(w)' <=> Open(w)
    BY <1>2 DEF TypeOK, Open
  <2>2. \A t \in Steps : status'[t] \in Terminal <=> status[t] \in Terminal
    BY <1>1 DEF Terminal
  <2>3. \A t \in Steps : status[t] \in {"pending", "completed"} => status'[t] = status[t]
    BY <1>1
  <2>4. \A w \in Workers : touched[w] \subseteq Steps
    BY DEF TypeOK
  <2> QED
    BY <1>2, <2>1, <2>2, <2>3, <2>4 DEF OpenTransactions, DependsOn
<1>10. SynthesisReady'
  BY <1>1, <1>2 DEF TypeOK, SynthesisReady, StepsOver, Terminal
<1>11. DependenciesFirst'
  BY <1>1 DEF TypeOK, DependenciesFirst, DependsOn
<1>12. CancellationClosed'
  BY <1>1 DEF TypeOK, CancellationClosed, DependsOn
<1>13. SingleDelivery'
  <2>1. \A q \in Procs : q # p => batch'[q] = batch[q]
    BY <1>1 DEF TypeOK
  <2>2. batch[p] = {} /\ batch'[p] = claimed
    BY <1>1, <1>2 DEF TypeOK, JobPhases
  <2>3. \A t \in claimed, q \in Procs : t \in batch'[q] => q = p
    BY <1>3, <2>1
  <2>4. \A t \in Steps \ claimed : \A q \in Procs : t \in batch'[q] => t \in batch[q]
    BY <2>1, <2>2
  <2> QED
    BY <1>2, <1>3, <2>3, <2>4 DEF SingleDelivery, Handles
<1>14. NoOrphanLease'
  BY <1>1, <1>2, <1>3 DEF TypeOK, JobPhases, NoOrphanLease, Handles
<1>15. SynthesisAfterSteps'
  BY <1>1, <1>2 DEF TypeOK, SynthesisAfterSteps, StepsOver, Terminal
<1> QED
  BY <1>5, <1>6, <1>7, <1>8, <1>9, <1>10, <1>11, <1>12, <1>13, <1>14, <1>15

LEMMA SendSafe ==
  ASSUME Faults \subseteq SafeFaults, TypeOK, SafeInv,
         NEW p \in Workers, NEW s \in Steps, Send(p, s)
  PROVE  SafeInv'
<1> USE DEF SafeInv, rowVars, sentVars, txnVars, dispVars, Procs
<1>1. NoRecovery'
  BY DEF TypeOK, Send, NoRecovery
<1>2. JobPhases'
  BY DEF TypeOK, Send, JobPhases, Open
<1>3. WaitingUnclaimed'
  BY DEF TypeOK, Send, WaitingUnclaimed
<1>4. ClaimHeld'
  BY DEF TypeOK, Send, ClaimHeld
<1>5. OpenTransactions'
  BY OpenFrame DEF TypeOK, Send, Open
<1>6. SynthesisReady'
  BY DEF TypeOK, Send, SynthesisReady, StepsOver
<1>7. DependenciesFirst'
  BY DEF TypeOK, Send, DependenciesFirst
<1>8. CancellationClosed'
  BY DEF TypeOK, Send, CancellationClosed
<1>9. SingleDelivery'
  <2>0. queue[s] = 0
    <3>1. s \in batch[p] /\ p \in Procs /\ queue[s] \in Nat
      BY DEF Send, TypeOK
    <3> QED
      BY <3>1 DEF SingleDelivery
  <2>1. queue'[s] = 1 /\ s \notin batch'[p] /\ \A t \in Steps : t # s => queue'[t] = queue[t]
    BY <2>0 DEF TypeOK, Send
  <2>2. \A q \in Procs : batch'[q] \subseteq batch[q]
    BY DEF TypeOK, Send
  <2>3. \A q \in Procs : s \notin batch'[q]
    BY <2>1, <2>2 DEF Send, SingleDelivery
  <2>4. \A w \in Workers : job'[w] = job[w] /\ job'[w] # s
    BY DEF Send, SingleDelivery, Handles
  <2> QED
    BY <2>1, <2>2, <2>3, <2>4 DEF SingleDelivery, Handles
<1>10. NoOrphanLease'
  BY DEF TypeOK, Send, NoOrphanLease, Handles
<1>11. SynthesisAfterSteps'
  BY DEF TypeOK, Send, SynthesisAfterSteps, StepsOver
<1> QED
  BY <1>1, <1>2, <1>3, <1>4, <1>5, <1>6, <1>7, <1>8, <1>9, <1>10, <1>11

\* The claim that is given back is the sender's own, so the row is READY again.
LEMMA SendFailsSafe ==
  ASSUME Faults \subseteq SafeFaults, TypeOK, SafeInv,
         NEW p \in Workers, NEW s \in Steps, SendFails(p, s)
  PROVE  SafeInv'
<1> USE DEF SafeInv, rowVars, sentVars, txnVars, dispVars, Procs
<1>1. /\ pc[p] = "send" /\ s \in batch[p]
      /\ batch' = [batch EXCEPT ![p] = @ \ {s}]
      /\ UNCHANGED <<queue, attempts, taskStatus, synthSent, pc, job, outcome, touched, due,
                     expired, stranded>>
  BY DEF SendFails, Fault, SafeFaults
<1>2. status[s] = "running" /\ owner[s] = p
  BY <1>1 DEF ClaimHeld
<1>3. status' = [status EXCEPT ![s] = "ready"] /\ owner' = [owner EXCEPT ![s] = None]
  BY <1>2 DEF SendFails, ReleaseClaim
<1>4. /\ queue[s] = 0 /\ \A w \in Workers : job[w] # s
      /\ \A q \in Procs : s \in batch[q] => q = p
  <2>1. s \in batch[p] /\ p \in Procs /\ queue[s] \in Nat
    BY <1>1 DEF TypeOK
  <2> QED
    BY <2>1 DEF SingleDelivery, Handles
<1>5. /\ \A q \in Procs : batch'[q] \subseteq batch[q]
      /\ \A q \in Procs : s \notin batch'[q]
  BY <1>1, <1>4 DEF TypeOK
<1>6. /\ status'[s] = "ready" /\ owner'[s] = None
      /\ \A t \in Steps : t # s => status'[t] = status[t] /\ owner'[t] = owner[t]
  BY <1>3 DEF TypeOK
<1>7. ~StepsOver /\ ~StepsOver'
  BY <1>2, <1>6 DEF StepsOver, Terminal
<1>8. NoRecovery'
  BY <1>1, <1>2, <1>3, <1>4, <1>5, <1>6 DEF TypeOK, JobPhases, NoRecovery
<1>9. JobPhases'
  BY <1>1, <1>3, <1>4, <1>5 DEF TypeOK, JobPhases, Open
<1>10. WaitingUnclaimed'
  BY <1>1, <1>2, <1>3, <1>4, <1>5, <1>6 DEF TypeOK, JobPhases, WaitingUnclaimed
<1>11. ClaimHeld'
  BY <1>1, <1>2, <1>3, <1>4, <1>5, <1>6 DEF TypeOK, JobPhases, ClaimHeld
<1>12. OpenTransactions'
  <2>1. \A t \in Steps : status'[t] \in Terminal <=> status[t] \in Terminal
    BY <1>2, <1>6 DEF Terminal
  <2>2. \A t \in Steps : status[t] \in {"pending", "completed"} => status'[t] = status[t]
    BY <1>2, <1>6
  <2>3. \A w \in Workers : touched[w] \subseteq Steps
    BY DEF TypeOK
  <2> QED
    BY <1>1, <2>1, <2>2, <2>3 DEF OpenTransactions, Open, DependsOn
<1>13. SynthesisReady'
  BY <1>1, <1>7 DEF SynthesisReady
<1>14. DependenciesFirst'
  BY <1>2, <1>6 DEF DependenciesFirst, DependsOn
<1>15. CancellationClosed'
  BY <1>2, <1>6 DEF CancellationClosed, DependsOn
<1>16. SingleDelivery'
  BY <1>1, <1>2, <1>3, <1>4, <1>5, <1>6 DEF TypeOK, JobPhases, SingleDelivery, Handles
<1>17. NoOrphanLease'
  BY <1>1, <1>2, <1>3, <1>4, <1>5, <1>6 DEF TypeOK, JobPhases, NoOrphanLease, Handles
<1>18. SynthesisAfterSteps'
  BY <1>1, <1>7 DEF SynthesisAfterSteps
<1> QED
  BY <1>8, <1>9, <1>10, <1>11, <1>12, <1>13, <1>14, <1>15, <1>16, <1>17, <1>18

LEMMA DispatchEndsSafe ==
  ASSUME Faults \subseteq SafeFaults, TypeOK, SafeInv,
         NEW p \in Workers, DispatchEnds(p)
  PROVE  SafeInv'
<1> USE DEF SafeInv, rowVars, sentVars, txnVars, dispVars, Procs
<1>1. /\ UNCHANGED <<status, owner, queue, batch, due, stranded>>
      /\ \A u \in Workers : u # p => /\ pc'[u] = pc[u] /\ job'[u] = job[u]
                                      /\ outcome'[u] = outcome[u] /\ touched'[u] = touched[u]
      /\ \/ pc'[p] = "idle" /\ job'[p] = None /\ touched'[p] = {}
         \/ /\ pc'[p] = "check" /\ job'[p] = job[p]
            /\ outcome'[p] = outcome[p] /\ touched'[p] = touched[p]
      /\ \A q \in Procs : q # p => pc'[q] = pc[q]
  <2>1. CASE EndJob(p)
    BY <2>1, EndJobFacts DEF DispatchEnds
  <2>2. CASE ~EndJob(p)
    BY <2>2 DEF DispatchEnds, Goto, TypeOK
  <2> QED
    BY <2>1, <2>2
<1>2. pc[p] = "send" /\ batch[p] = {} /\ Watchdog # p
  BY StepsAssumption DEF DispatchEnds
<1>3. NoRecovery'
  BY <1>1, <1>2 DEF NoRecovery
<1>4. JobPhases'
  BY <1>1, <1>2, StepsAssumption DEF JobPhases, Open
<1>5. WaitingUnclaimed'
  BY <1>1, StepsAssumption DEF WaitingUnclaimed
<1>6. ClaimHeld'
  BY <1>1 DEF ClaimHeld
<1>7. OpenTransactions'
  BY <1>1, <1>2, OpenFrame DEF Open
<1>8. SynthesisReady'
  BY <1>1, <1>2 DEF SynthesisReady, StepsOver
<1>9. DependenciesFirst'
  BY <1>1 DEF DependenciesFirst
<1>10. CancellationClosed'
  BY <1>1 DEF CancellationClosed
<1>11. SingleDelivery'
  BY <1>1, StepsAssumption DEF SingleDelivery, Handles
<1>12. NoOrphanLease'
  BY <1>1, <1>2, StepsAssumption DEF NoOrphanLease, Handles
<1>13. SynthesisAfterSteps'
  BY <1>1 DEF DispatchEnds, SynthesisAfterSteps, StepsOver
<1> QED
  BY <1>3, <1>4, <1>5, <1>6, <1>7, <1>8, <1>9, <1>10, <1>11, <1>12, <1>13

\* The message was the step's only carrier, and the job takes its place.
LEMMA ReceiveSafe ==
  ASSUME Faults \subseteq SafeFaults, TypeOK, SafeInv,
         NEW w \in Workers, NEW s \in Steps, Receive(w, s)
  PROVE  SafeInv'
<1> USE DEF SafeInv, rowVars, sentVars, txnVars, dispVars, Procs
<1>1. NoRecovery'
  BY StepsAssumption DEF TypeOK, Receive, Goto, NoRecovery
<1>2. JobPhases'
  BY DEF TypeOK, Receive, Goto, JobPhases, Open
<1>3. WaitingUnclaimed'
  BY DEF TypeOK, Receive, Goto, WaitingUnclaimed
<1>4. ClaimHeld'
  BY DEF TypeOK, Receive, Goto, ClaimHeld
<1>5. OpenTransactions'
  BY OpenFrame DEF TypeOK, Receive, Goto, Open
<1>6. SynthesisReady'
  BY DEF TypeOK, Receive, Goto, SynthesisReady, StepsOver
<1>7. DependenciesFirst'
  BY DEF TypeOK, Receive, Goto, DependenciesFirst
<1>8. CancellationClosed'
  BY DEF TypeOK, Receive, Goto, CancellationClosed
<1>9. SingleDelivery'
  BY DEF TypeOK, Receive, Goto, SingleDelivery, Handles
<1>10. NoOrphanLease'
  <2>1. SUFFICES ASSUME NEW t \in Steps, status[t] = "running", t \notin stranded
        PROVE  \/ queue'[t] > 0
               \/ \E q \in Procs : t \in batch[q]
               \/ \E v \in Workers : job'[v] = t /\ pc'[v] \in {"tool", "commit", "commitError"}
    BY DEF Receive, NoOrphanLease, Handles
  <2>2. CASE t = s
    BY <2>1, <2>2 DEF Receive, Goto, TypeOK
  <2>3. CASE t # s
    <3>1. queue'[t] = queue[t] /\ pc[w] = "idle"
      BY <2>3 DEF Receive, TypeOK
    <3>2. \A v \in Workers : v # w => job'[v] = job[v] /\ pc'[v] = pc[v]
      BY DEF Receive, Goto, TypeOK
    <3> QED
      BY <2>1, <3>1, <3>2 DEF NoOrphanLease, Handles
  <2> QED
    BY <2>2, <2>3
<1>11. SynthesisAfterSteps'
  BY DEF TypeOK, Receive, Goto, SynthesisAfterSteps, StepsOver
<1> QED
  BY <1>1, <1>2, <1>3, <1>4, <1>5, <1>6, <1>7, <1>8, <1>9, <1>10, <1>11

\* The transaction of a success opens: its rows are the step and what it unblocks.
LEMMA ToolSucceedsSafe ==
  ASSUME Faults \subseteq SafeFaults, TypeOK, SafeInv,
         NEW w \in Workers,
         Write(w, "completed", UnblockSet(job[w]), "commit")
  PROVE  SafeInv'
<1> USE DEF SafeInv, rowVars, sentVars, txnVars, dispVars, Procs
<1>1. /\ pc[w] = "tool" /\ job[w] \in Steps /\ status[job[w]] = "running"
      /\ UNCHANGED <<status, owner, job, queue, batch, due, stranded, taskStatus>>
      /\ \A v \in Workers : v # w => /\ pc'[v] = pc[v] /\ outcome'[v] = outcome[v]
                                      /\ touched'[v] = touched[v]
      /\ pc'[w] = "commit" /\ outcome'[w] = "completed" /\ touched'[w] = UnblockSet(job[w])
      /\ \A q \in Procs : q # w => pc'[q] = pc[q]
  BY DEF Write, Goto, TypeOK, JobPhases
<1>2. \A v \in Workers : Open(v) /\ v # w => touched[v] \cap UnblockSet(job[w]) = {}
  BY DEF Write, LockedFor, Open
<1>3. \A t \in UnblockSet(job[w]) : status[t] = "pending"
  BY <1>1, UnblockSetPending
<1>4. Watchdog # w /\ "commit" \in {"commit", "commitError"}
  BY StepsAssumption
<1>5. NoRecovery'
  BY <1>1, <1>4 DEF NoRecovery
<1>6. JobPhases'
  BY <1>1, <1>4, StepsAssumption DEF JobPhases, Open
<1>7. WaitingUnclaimed'
  BY <1>1, <1>4, StepsAssumption DEF WaitingUnclaimed
<1>8. ClaimHeld'
  BY <1>1, <1>4 DEF ClaimHeld
<1>9. OpenTransactions'
  <2> SUFFICES ASSUME NEW v \in Workers, Open(v)'
               PROVE  /\ \A t \in touched'[v] : status[t] = "pending"
                      /\ \A u \in Workers : Open(u)' /\ u # v => touched'[u] \cap touched'[v] = {}
                      /\ outcome'[v] = "completed" => \A t \in touched'[v] :
                            \A d \in DependsOn(t) : d = job[v] \/ status[d] = "completed"
                      /\ outcome'[v] = "failed" => \A u \in Steps :
                            /\ u \in touched'[v] =>
                                  DependsOn(u) \cap (touched'[v] \cup {job[v]}) # {}
                            /\ /\ status[u] \notin Terminal
                               /\ DependsOn(u) \cap (touched'[v] \cup {job[v]}) # {}
                               => u \in touched'[v]
    BY <1>1 DEF OpenTransactions
  <2>1. CASE v = w
    BY <1>1, <1>2, <1>3, <2>1 DEF UnblockSet, Open
  <2>2. CASE v # w
    BY <1>1, <1>2, <2>2 DEF OpenTransactions, Open
  <2> QED
    BY <2>1, <2>2
<1>10. SynthesisReady'
  BY <1>1, <1>4 DEF SynthesisReady, StepsOver
<1>11. DependenciesFirst'
  BY <1>1, <1>4 DEF DependenciesFirst
<1>12. CancellationClosed'
  BY <1>1, <1>4 DEF CancellationClosed
<1>13. SingleDelivery'
  BY <1>1, <1>4, StepsAssumption DEF SingleDelivery, Handles
<1>14. NoOrphanLease'
  BY <1>1, <1>4, StepsAssumption DEF NoOrphanLease, Handles
<1>15. SynthesisAfterSteps'
  BY <1>1 DEF SynthesisAfterSteps, StepsOver
<1> QED
  BY <1>5, <1>6, <1>7, <1>8, <1>9, <1>10, <1>11, <1>12, <1>13, <1>14, <1>15

\* The transaction of a failure opens: its rows are the step and what it cancels.
LEMMA ToolFailsSafe ==
  ASSUME Faults \subseteq SafeFaults, TypeOK, SafeInv,
         NEW w \in Workers, NEW label \in {"commit", "commitError"},
         Write(w, "failed", CancelSet(job[w]), label)
  PROVE  SafeInv'
<1> USE DEF SafeInv, rowVars, sentVars, txnVars, dispVars, Procs
<1>1. /\ pc[w] = "tool" /\ job[w] \in Steps /\ status[job[w]] = "running"
      /\ UNCHANGED <<status, owner, job, queue, batch, due, stranded, taskStatus>>
      /\ \A v \in Workers : v # w => /\ pc'[v] = pc[v] /\ outcome'[v] = outcome[v]
                                      /\ touched'[v] = touched[v]
      /\ pc'[w] = label /\ outcome'[w] = "failed" /\ touched'[w] = CancelSet(job[w])
      /\ \A q \in Procs : q # w => pc'[q] = pc[q]
  BY DEF Write, Goto, TypeOK, JobPhases
<1>2. \A v \in Workers : Open(v) /\ v # w => touched[v] \cap CancelSet(job[w]) = {}
  BY DEF Write, LockedFor, Open
<1>3. \A t \in CancelSet(job[w]) : status[t] = "pending"
  BY <1>1, CancelSetPending
<1>4. Watchdog # w /\ label \in {"commit", "commitError"}
  BY StepsAssumption
<1>5. NoRecovery'
  BY <1>1, <1>4 DEF NoRecovery
<1>6. JobPhases'
  BY <1>1, <1>4, StepsAssumption DEF JobPhases, Open
<1>7. WaitingUnclaimed'
  BY <1>1, <1>4, StepsAssumption DEF WaitingUnclaimed
<1>8. ClaimHeld'
  BY <1>1, <1>4 DEF ClaimHeld
<1>9. OpenTransactions'
  <2> SUFFICES ASSUME NEW v \in Workers, Open(v)'
               PROVE  /\ \A t \in touched'[v] : status[t] = "pending"
                      /\ \A u \in Workers : Open(u)' /\ u # v => touched'[u] \cap touched'[v] = {}
                      /\ outcome'[v] = "completed" => \A t \in touched'[v] :
                            \A d \in DependsOn(t) : d = job[v] \/ status[d] = "completed"
                      /\ outcome'[v] = "failed" => \A u \in Steps :
                            /\ u \in touched'[v] =>
                                  DependsOn(u) \cap (touched'[v] \cup {job[v]}) # {}
                            /\ /\ status[u] \notin Terminal
                               /\ DependsOn(u) \cap (touched'[v] \cup {job[v]}) # {}
                               => u \in touched'[v]
    BY <1>1 DEF OpenTransactions
  <2>1. CASE v = w
    BY <1>1, <1>2, <1>3, <2>1, CancelSetFacts DEF CancelClosed, Open
  <2>2. CASE v # w
    BY <1>1, <1>2, <2>2 DEF OpenTransactions, Open
  <2> QED
    BY <2>1, <2>2
<1>10. SynthesisReady'
  BY <1>1, <1>4 DEF SynthesisReady, StepsOver
<1>11. DependenciesFirst'
  BY <1>1, <1>4 DEF DependenciesFirst
<1>12. CancellationClosed'
  BY <1>1, <1>4 DEF CancellationClosed
<1>13. SingleDelivery'
  BY <1>1, <1>4, StepsAssumption DEF SingleDelivery, Handles
<1>14. NoOrphanLease'
  BY <1>1, <1>4, StepsAssumption DEF NoOrphanLease, Handles
<1>15. SynthesisAfterSteps'
  BY <1>1 DEF SynthesisAfterSteps, StepsOver
<1> QED
  BY <1>5, <1>6, <1>7, <1>8, <1>9, <1>10, <1>11, <1>12, <1>13, <1>14, <1>15

\* The worker sees its own step as the row has it, so what it sees over is over.
LEMMA CheckCompleteSafe ==
  ASSUME Faults \subseteq SafeFaults, TypeOK, SafeInv,
         NEW w \in Workers, CheckComplete(w)
  PROVE  SafeInv'
<1> USE DEF SafeInv, rowVars, sentVars, txnVars, dispVars, Procs
<1>1. /\ UNCHANGED <<status, owner, queue, batch, due, stranded>>
      /\ \A u \in Workers : u # w => /\ pc'[u] = pc[u] /\ job'[u] = job[u]
                                      /\ outcome'[u] = outcome[u] /\ touched'[u] = touched[u]
      /\ \/ pc'[w] = "idle" /\ job'[w] = None /\ touched'[w] = {}
         \/ /\ pc'[w] = "transition" /\ job'[w] = job[w]
            /\ outcome'[w] = outcome[w] /\ touched'[w] = touched[w]
      /\ \A q \in Procs : q # w => pc'[q] = pc[q]
  <2>1. CASE EndJob(w)
    BY <2>1, EndJobFacts DEF CheckComplete
  <2>2. CASE ~EndJob(w)
    BY <2>2 DEF CheckComplete, Goto, TypeOK
  <2> QED
    BY <2>1, <2>2
<1>2. pc[w] = "check" /\ Watchdog # w
  BY StepsAssumption DEF CheckComplete
<1>3. NoRecovery'
  BY <1>1, <1>2 DEF NoRecovery
<1>4. JobPhases'
  BY <1>1, <1>2, StepsAssumption DEF JobPhases, Open
<1>5. WaitingUnclaimed'
  BY <1>1, StepsAssumption DEF WaitingUnclaimed
<1>6. ClaimHeld'
  BY <1>1 DEF ClaimHeld
<1>7. OpenTransactions'
  BY <1>1, <1>2, OpenFrame DEF Open
<1>8. SynthesisReady'
  <2>1. pc'[w] = "transition" => StepsOver
    <3>1. \A s \in Steps : SeenBy(w, s) = status[s]
      BY <1>2, StepsAssumption DEF SeenBy, JobPhases, Open
    <3>2. CASE AllDone(w) /\ HasSuccess(w)
      BY <3>1, <3>2, <1>1 DEF AllDone, HasSuccess, StepsOver
    <3>3. CASE ~(AllDone(w) /\ HasSuccess(w))
      BY <3>3, EndJobFacts DEF CheckComplete
    <3> QED
      BY <3>2, <3>3
  <2> QED
    BY <1>1, <2>1 DEF SynthesisReady, StepsOver
<1>9. DependenciesFirst'
  BY <1>1 DEF DependenciesFirst
<1>10. CancellationClosed'
  BY <1>1 DEF CancellationClosed
<1>11. SingleDelivery'
  BY <1>1, StepsAssumption DEF SingleDelivery, Handles
<1>12. NoOrphanLease'
  BY <1>1, <1>2, StepsAssumption DEF NoOrphanLease, Handles
<1>13. SynthesisAfterSteps'
  BY <1>1 DEF CheckComplete, SynthesisAfterSteps, StepsOver
<1> QED
  BY <1>3, <1>4, <1>5, <1>6, <1>7, <1>8, <1>9, <1>10, <1>11, <1>12, <1>13

LEMMA TransitionSafe ==
  ASSUME Faults \subseteq SafeFaults, TypeOK, SafeInv,
         NEW w \in Workers, Transition(w)
  PROVE  SafeInv'
<1> USE DEF SafeInv, rowVars, sentVars, txnVars, dispVars, Procs
<1>1. /\ UNCHANGED <<status, owner, queue, batch, due, stranded>>
      /\ \A u \in Workers : u # w => /\ pc'[u] = pc[u] /\ job'[u] = job[u]
                                      /\ outcome'[u] = outcome[u] /\ touched'[u] = touched[u]
      /\ \/ pc'[w] = "idle" /\ job'[w] = None /\ touched'[w] = {}
         \/ /\ pc'[w] = "synthesize" /\ job'[w] = job[w]
            /\ outcome'[w] = outcome[w] /\ touched'[w] = touched[w]
      /\ \A q \in Procs : q # w => pc'[q] = pc[q]
  <2>1. CASE EndJob(w)
    BY <2>1, EndJobFacts DEF Transition
  <2>2. CASE ~EndJob(w)
    BY <2>2 DEF Transition, Goto, TypeOK
  <2> QED
    BY <2>1, <2>2
<1>2. pc[w] = "transition" /\ Watchdog # w
  BY StepsAssumption DEF Transition
<1>3. NoRecovery'
  BY <1>1, <1>2 DEF NoRecovery
<1>4. JobPhases'
  BY <1>1, <1>2, StepsAssumption DEF JobPhases, Open
<1>5. WaitingUnclaimed'
  BY <1>1, StepsAssumption DEF WaitingUnclaimed
<1>6. ClaimHeld'
  BY <1>1 DEF ClaimHeld
<1>7. OpenTransactions'
  BY <1>1, <1>2, OpenFrame DEF Open
<1>8. SynthesisReady'
  BY <1>1, <1>2 DEF SynthesisReady, StepsOver
<1>9. DependenciesFirst'
  BY <1>1 DEF DependenciesFirst
<1>10. CancellationClosed'
  BY <1>1 DEF CancellationClosed
<1>11. SingleDelivery'
  BY <1>1, StepsAssumption DEF SingleDelivery, Handles
<1>12. NoOrphanLease'
  BY <1>1, <1>2, StepsAssumption DEF NoOrphanLease, Handles
<1>13. SynthesisAfterSteps'
  BY <1>1, <1>2 DEF Transition, SynthesisAfterSteps, SynthesisReady, StepsOver
<1> QED
  BY <1>3, <1>4, <1>5, <1>6, <1>7, <1>8, <1>9, <1>10, <1>11, <1>12, <1>13

LEMMA SendSynthesisSafe ==
  ASSUME Faults \subseteq SafeFaults, TypeOK, SafeInv,
         NEW w \in Workers, SendSynthesis(w)
  PROVE  SafeInv'
<1> USE DEF SafeInv, rowVars, sentVars, txnVars, dispVars, Procs
<1>1. /\ UNCHANGED <<status, owner, queue, batch, due, stranded>>
      /\ \A u \in Workers : u # w => /\ pc'[u] = pc[u] /\ job'[u] = job[u]
                                      /\ outcome'[u] = outcome[u] /\ touched'[u] = touched[u]
      /\ pc'[w] = "idle" /\ job'[w] = None /\ touched'[w] = {}
      /\ \A q \in Procs : q # w => pc'[q] = pc[q]
  BY EndJobFacts DEF SendSynthesis
<1>2. pc[w] = "synthesize" /\ Watchdog # w
  BY StepsAssumption DEF SendSynthesis
<1>3. NoRecovery'
  BY <1>1, <1>2 DEF NoRecovery
<1>4. JobPhases'
  BY <1>1, <1>2, StepsAssumption DEF JobPhases, Open
<1>5. WaitingUnclaimed'
  BY <1>1, StepsAssumption DEF WaitingUnclaimed
<1>6. ClaimHeld'
  BY <1>1 DEF ClaimHeld
<1>7. OpenTransactions'
  BY <1>1, <1>2, OpenFrame DEF Open
<1>8. SynthesisReady'
  BY <1>1, <1>2 DEF SynthesisReady, StepsOver
<1>9. DependenciesFirst'
  BY <1>1 DEF DependenciesFirst
<1>10. CancellationClosed'
  BY <1>1 DEF CancellationClosed
<1>11. SingleDelivery'
  BY <1>1, StepsAssumption DEF SingleDelivery, Handles
<1>12. NoOrphanLease'
  BY <1>1, <1>2, StepsAssumption DEF NoOrphanLease, Handles
<1>13. SynthesisAfterSteps'
  BY <1>1 DEF SendSynthesis, SynthesisAfterSteps, StepsOver
<1> QED
  BY <1>3, <1>4, <1>5, <1>6, <1>7, <1>8, <1>9, <1>10, <1>11, <1>12, <1>13

\* The commit shows writes that are still right, and ends the step.
LEMMA CommitSafe ==
  ASSUME Faults \subseteq SafeFaults, TypeOK, SafeInv,
         NEW w \in Workers, Commit(w)
  PROVE  SafeInv'
<1> USE DEF SafeInv, rowVars, sentVars, txnVars, dispVars, Procs
<1> DEFINE j == job[w]
           T == touched[w]
           o == outcome[w]
<1>1. /\ Open(w) /\ j \in Steps /\ status[j] = "running"
      /\ o \in {"completed", "failed"} /\ T \subseteq Steps
      /\ \A t \in T : status[t] = "pending"
  <2>1. Open(w)
    BY DEF Commit, Open
  <2> QED
    BY <2>1 DEF JobPhases, OpenTransactions, Open, TypeOK
<1>2. /\ status'[j] = o
      /\ \A t \in T : status'[t] = IF o = "failed" THEN "cancelled" ELSE "ready"
      /\ \A s \in Steps : s # j /\ s \notin T => status'[s] = status[s]
  BY <1>1 DEF Commit, DependentStatus
<1>3. UNCHANGED <<owner, queue, batch, due, stranded, taskStatus>>
  BY <1>1 DEF Commit
<1>4. /\ \A u \in Workers : u # w => /\ pc'[u] = pc[u] /\ job'[u] = job[u]
                                      /\ outcome'[u] = outcome[u] /\ touched'[u] = touched[u]
      /\ touched'[w] = {}
      /\ \/ pc'[w] = "idle" /\ job'[w] = None
         \/ pc'[w] = "promote" /\ job'[w] = j /\ outcome'[w] = o
      /\ \A q \in Procs : q # w => pc'[q] = pc[q]
  <2>1. CASE pc[w] = "commit"
    BY <2>1 DEF Commit, Goto, TypeOK
  <2>2. CASE pc[w] # "commit"
    BY <2>2, EndJobFacts DEF Commit
  <2> QED
    BY <2>1, <2>2
<1>5. /\ queue[j] = 0 /\ \A q \in Procs : j \notin batch[q]
      /\ \A u \in Workers : u # w => job[u] # j
  <2>1. queue[j] \in Nat /\ j \in Steps /\ job[w] = j
    BY <1>1 DEF TypeOK
  <2> HIDE DEF j
  <2> QED
    BY <2>1 DEF SingleDelivery, Handles
<1>6. \A t \in T : /\ queue[t] = 0 /\ \A q \in Procs : t \notin batch[q]
                   /\ \A u \in Workers : job[u] # t
  BY <1>1 DEF WaitingUnclaimed
<1>7. \A s \in Steps : status[s] \in Terminal => status'[s] = status[s]
  BY <1>1, <1>2 DEF Terminal
<1>8. Watchdog # w /\ None \notin Steps
  BY StepsAssumption
<1>9. ~StepsOver
  BY <1>1 DEF StepsOver, Terminal
<1> HIDE DEF j, T, o
<1>11. NoRecovery'
  BY <1>1, <1>2, <1>3, <1>4, <1>8 DEF NoRecovery
<1>12. JobPhases'
  <2>1. \A q \in Procs : pc'[q] # "send" => batch'[q] = {}
    BY <1>1, <1>3, <1>4 DEF JobPhases, Open
  <2>2. ASSUME NEW v \in Workers, v # w, job[v] \in Steps,
               status[job[v]] \notin {"pending"}
        PROVE  status'[job[v]] = status[job[v]]
    BY <1>1, <1>2, <1>5, <2>2
  <2>3. ASSUME NEW v \in Workers, v # w
        PROVE  /\ pc'[v] = "idle" => job'[v] = None
               /\ pc'[v] = "tool" \/ Open(v)' => job'[v] \in Steps /\ status'[job'[v]] = "running"
               /\ pc'[v] = "commit" => outcome'[v] \in {"completed", "failed"}
               /\ pc'[v] = "commitError" => outcome'[v] = "failed"
               /\ ~Open(v)' => touched'[v] = {}
               /\ pc'[v] \notin {"idle", "tool", "commit", "commitError"} /\ job'[v] # None =>
                     outcome'[v] = status'[job'[v]] /\ outcome'[v] \in {"completed", "failed"}
    BY <1>4, <2>2, <2>3 DEF JobPhases, Open, TypeOK
  <2>4. /\ pc'[w] = "idle" => job'[w] = None
        /\ pc'[w] \in {"idle", "promote"}
        /\ touched'[w] = {}
        /\ pc'[w] = "promote" => /\ outcome'[w] = status'[job'[w]]
                                /\ outcome'[w] \in {"completed", "failed"}
    BY <1>1, <1>2, <1>4
  <2> QED
    BY <2>1, <2>3, <2>4 DEF JobPhases, Open
<1>13. WaitingUnclaimed'
  BY <1>1, <1>2, <1>3, <1>4, <1>6, <1>8 DEF WaitingUnclaimed
<1>14. ClaimHeld'
  BY <1>1, <1>2, <1>3, <1>5, <1>6 DEF ClaimHeld, TypeOK
<1>15. OpenTransactions'
  <2> SUFFICES ASSUME NEW v \in Workers, Open(v)'
               PROVE  /\ \A t \in touched'[v] : status'[t] = "pending"
                      /\ \A u \in Workers : Open(u)' /\ u # v => touched'[u] \cap touched'[v] = {}
                      /\ outcome'[v] = "completed" => \A t \in touched'[v] :
                            \A d \in DependsOn(t) : d = job'[v] \/ status'[d] = "completed"
                      /\ outcome'[v] = "failed" => \A u \in Steps :
                            /\ u \in touched'[v] =>
                                  DependsOn(u) \cap (touched'[v] \cup {job'[v]}) # {}
                            /\ /\ status'[u] \notin Terminal
                               /\ DependsOn(u) \cap (touched'[v] \cup {job'[v]}) # {}
                               => u \in touched'[v]
    BY DEF OpenTransactions, DependsOn
  <2>1. /\ v # w /\ Open(v) /\ touched'[v] = touched[v] /\ job'[v] = job[v]
        /\ outcome'[v] = outcome[v] /\ touched[v] \subseteq Steps
    BY <1>4 DEF Open, TypeOK
  <2>2. touched[v] \cap T = {} /\ j \notin touched[v]
    BY <1>1, <2>1 DEF OpenTransactions, T
  <2>3. \A t \in touched'[v] : status'[t] = "pending"
    BY <1>2, <2>1, <2>2 DEF OpenTransactions
  <2>4. \A u \in Workers : Open(u)' /\ u # v => touched'[u] \cap touched'[v] = {}
    BY <1>4, <2>1 DEF OpenTransactions, Open
  <2>5. outcome'[v] = "completed" => \A t \in touched'[v] :
           \A d \in DependsOn(t) : d = job'[v] \/ status'[d] = "completed"
    BY <1>7, <2>1 DEF OpenTransactions, DependsOn, Terminal
  <2>6. ASSUME outcome'[v] = "failed", NEW u \in Steps
        PROVE  /\ u \in touched'[v] => DependsOn(u) \cap (touched'[v] \cup {job'[v]}) # {}
               /\ /\ status'[u] \notin Terminal
                  /\ DependsOn(u) \cap (touched'[v] \cup {job'[v]}) # {}
                  => u \in touched'[v]
    BY <1>7, <2>1, <2>6 DEF OpenTransactions
  <2> QED
    BY <2>3, <2>4, <2>5, <2>6
<1>16. SynthesisReady'
  BY <1>4, <1>9 DEF SynthesisReady
<1>17. DependenciesFirst'
  <2> SUFFICES ASSUME NEW s \in Steps, NEW d \in DependsOn(s),
                      status'[s] \in {"ready", "running", "retry_wait", "completed", "failed"}
               PROVE  status'[d] = "completed"
    BY DEF DependenciesFirst, DependsOn
  <2>1. CASE s \in T
    <3>1. o = "completed" /\ (d = j \/ status[d] = "completed")
      BY <1>1, <1>2, <2>1 DEF OpenTransactions, T, o, j
    <3> QED
      BY <1>2, <1>7, <3>1 DEF DependsOn, Terminal
  <2>2. CASE s \notin T
    <3>1. status[d] = "completed"
      BY <1>1, <1>2, <2>2 DEF DependenciesFirst
    <3> QED
      BY <1>7, <3>1 DEF DependsOn, Terminal
  <2> QED
    BY <2>1, <2>2
<1>18. CancellationClosed'
  <2> SUFFICES ASSUME NEW s \in Steps
               PROVE  status'[s] = "cancelled" <=>
                         \E d \in DependsOn(s) : status'[d] \in {"failed", "cancelled"}
    BY DEF CancellationClosed, DependsOn
  <2>1. ASSUME status'[s] = "cancelled"
        PROVE  \E d \in DependsOn(s) : status'[d] \in {"failed", "cancelled"}
    <3>1. CASE s \in T
      <4>1. o = "failed"
        BY <1>2, <2>1, <3>1
      <4>2. PICK d \in DependsOn(s) : d \in T \cup {j}
        BY <1>1, <3>1, <4>1 DEF OpenTransactions, T, o, j
      <4> QED
        BY <1>2, <4>1, <4>2
    <3>2. CASE s \notin T
      <4>1. status[s] = "cancelled"
        BY <1>1, <1>2, <2>1, <3>2
      <4>2. PICK d \in DependsOn(s) : status[d] \in {"failed", "cancelled"}
        BY <4>1 DEF CancellationClosed
      <4> QED
        BY <1>7, <4>2 DEF DependsOn, Terminal
    <3> QED
      BY <3>1, <3>2
  <2>2. ASSUME NEW d \in DependsOn(s), status'[d] \in {"failed", "cancelled"}
        PROVE  status'[s] = "cancelled"
    <3>0. d \in Steps
      BY DEF DependsOn
    <3>1. CASE d \in T \cup {j}
      <4>1. o = "failed"
        BY <1>1, <1>2, <2>2, <3>1
      <4>2. status[d] \in {"running", "pending"}
        BY <1>1, <3>1
      <4>3. status[s] \in Terminal => status[s] = "cancelled"
        BY <4>2 DEF Terminal, DependenciesFirst
      <4>4. status[s] \notin Terminal => s \in T
        BY <1>1, <3>1, <4>1 DEF OpenTransactions, T, o, j
      <4> QED
        BY <1>2, <1>7, <4>1, <4>3, <4>4 DEF Terminal
    <3>2. CASE d \notin T \cup {j}
      <4>1. status[d] \in {"failed", "cancelled"}
        BY <1>2, <2>2, <3>0, <3>2
      <4>2. status[s] = "cancelled"
        BY <4>1 DEF CancellationClosed
      <4> QED
        BY <1>7, <4>2 DEF Terminal
    <3> QED
      BY <3>1, <3>2
  <2> QED
    BY <2>1, <2>2
<1>19. SingleDelivery'
  BY <1>3, <1>4, <1>8 DEF SingleDelivery, Handles, j
<1>20. NoOrphanLease'
  <2> SUFFICES ASSUME NEW s \in Steps, status'[s] = "running", s \notin stranded
               PROVE  \/ queue[s] > 0
                      \/ \E p \in Procs : s \in batch[p]
                      \/ \E v \in Workers :
                            job'[v] = s /\ pc'[v] \in {"tool", "commit", "commitError"}
    BY <1>3 DEF NoOrphanLease, Handles
  <2>1. s # j /\ status[s] = "running"
    BY <1>1, <1>2
  <2>2. CASE queue[s] > 0 \/ \E p \in Procs : s \in batch[p]
    BY <2>2
  <2>3. CASE \E v \in Workers : job[v] = s /\ pc[v] \in {"tool", "commit", "commitError"}
    BY <1>4, <2>1, <2>3 DEF j
  <2> QED
    BY <2>1, <2>2, <2>3 DEF NoOrphanLease, Handles
<1>21. SynthesisAfterSteps'
  BY <1>3, <1>9 DEF SynthesisAfterSteps
<1> QED
  BY <1>11, <1>12, <1>13, <1>14, <1>15, <1>16, <1>17, <1>18, <1>19, <1>20, <1>21

\* A process dies: its transaction is rolled back, its message is delivered again, and
\* what it had claimed and not sent has lost its carrier.
LEMMA CrashSafe ==
  ASSUME Faults \subseteq SafeFaults, TypeOK, SafeInv,
         NEW p \in Workers, Crash(p)
  PROVE  SafeInv'
<1> USE DEF SafeInv, rowVars, sentVars, txnVars, dispVars, Procs
<1>1. /\ UNCHANGED <<status, owner, taskStatus>>
      /\ \A u \in Workers : u # p => /\ pc'[u] = pc[u] /\ job'[u] = job[u]
                                      /\ outcome'[u] = outcome[u] /\ touched'[u] = touched[u]
      /\ pc'[p] = "idle" /\ job'[p] = None /\ touched'[p] = {}
      /\ \A q \in Procs : q # p => pc'[q] = pc[q]
  BY EndJobFacts DEF Crash
<1>2. /\ \A s \in Steps : queue'[s] = IF job[p] = s THEN queue[s] + 1 ELSE queue[s]
      /\ \A q \in Procs : q # p => batch'[q] = batch[q]
      /\ batch'[p] = {} /\ stranded' = stranded \cup batch[p]
      /\ \A q \in Procs : due'[q] \subseteq due[q]
  BY DEF Crash, Redelivered, TypeOK
<1>3. Watchdog # p /\ None \notin Steps /\ \A s \in Steps : queue[s] \in Nat
  BY StepsAssumption DEF TypeOK
<1>4. \A s \in Steps : job[p] = s =>
         /\ queue[s] = 0 /\ \A q \in Procs : s \notin batch[q]
         /\ \A u \in Workers : u # p => job[u] # s
  BY <1>3 DEF SingleDelivery, Handles
<1>11. NoRecovery'
  BY <1>1, <1>2, <1>3 DEF NoRecovery
<1>12. JobPhases'
  BY <1>1, <1>2, <1>3 DEF JobPhases, Open
<1>13. WaitingUnclaimed'
  BY <1>1, <1>2, <1>3 DEF WaitingUnclaimed
<1>14. ClaimHeld'
  BY <1>1, <1>2 DEF ClaimHeld
<1>15. OpenTransactions'
  BY <1>1, OpenFrame DEF Open
<1>16. SynthesisReady'
  BY <1>1 DEF SynthesisReady, StepsOver
<1>17. DependenciesFirst'
  BY <1>1 DEF DependenciesFirst
<1>18. CancellationClosed'
  BY <1>1 DEF CancellationClosed
<1>19. SingleDelivery'
  BY <1>1, <1>2, <1>3, <1>4 DEF SingleDelivery, Handles
<1>20. NoOrphanLease'
  <2> SUFFICES ASSUME NEW s \in Steps, status[s] = "running", s \notin stranded'
               PROVE  \/ queue'[s] > 0
                      \/ \E q \in Procs : s \in batch'[q]
                      \/ \E v \in Workers :
                            job'[v] = s /\ pc'[v] \in {"tool", "commit", "commitError"}
    BY <1>1 DEF NoOrphanLease, Handles
  <2>1. s \notin stranded /\ s \notin batch[p]
    BY <1>2
  <2>2. CASE queue[s] > 0
    BY <1>2, <1>3, <2>2
  <2>3. CASE \E q \in Procs : s \in batch[q]
    BY <1>2, <2>1, <2>3
  <2>4. CASE job[p] = s
    BY <1>2, <1>3, <2>4
  <2>5. CASE \E v \in Workers : v # p /\ job[v] = s /\ pc[v] \in {"tool", "commit", "commitError"}
    BY <1>1, <2>5
  <2> QED
    BY <2>1, <2>2, <2>3, <2>4, <2>5 DEF NoOrphanLease, Handles
<1>21. SynthesisAfterSteps'
  BY <1>1 DEF SynthesisAfterSteps, StepsOver
<1> QED
  BY <1>11, <1>12, <1>13, <1>14, <1>15, <1>16, <1>17, <1>18, <1>19, <1>20, <1>21

\* An error of the database ends the job as a crash does, but its message is gone.
LEMMA JobRaisesSafe ==
  ASSUME Faults \subseteq SafeFaults, TypeOK, SafeInv,
         NEW p \in Workers, JobRaises(p)
  PROVE  SafeInv'
<1> USE DEF SafeInv, rowVars, sentVars, txnVars, dispVars, Procs
<1>1. /\ UNCHANGED <<status, owner, queue, batch, taskStatus>>
      /\ \A u \in Workers : u # p => /\ pc'[u] = pc[u] /\ job'[u] = job[u]
                                      /\ outcome'[u] = outcome[u] /\ touched'[u] = touched[u]
      /\ pc'[p] = "idle" /\ job'[p] = None /\ touched'[p] = {}
      /\ \A q \in Procs : q # p => pc'[q] = pc[q]
  BY EndJobFacts DEF JobRaises
<1>2. /\ batch[p] = {} /\ pc[p] \notin {"tool", "commit"}
      /\ stranded \subseteq stranded'
      /\ pc[p] = "commitError" => job[p] \in Steps /\ job[p] \in stranded'
      /\ \A q \in Procs : due'[q] \subseteq due[q]
  BY DEF JobRaises, JobPhases, Open, TypeOK
<1>3. Watchdog # p /\ None \notin Steps
  BY StepsAssumption
<1>4. NoRecovery'
  BY <1>1, <1>2, <1>3 DEF NoRecovery
<1>5. JobPhases'
  BY <1>1, <1>2, <1>3 DEF JobPhases, Open
<1>6. WaitingUnclaimed'
  BY <1>1, <1>3 DEF WaitingUnclaimed
<1>7. ClaimHeld'
  BY <1>1 DEF ClaimHeld
<1>8. OpenTransactions'
  BY <1>1, OpenFrame DEF Open
<1>9. SynthesisReady'
  BY <1>1 DEF SynthesisReady, StepsOver
<1>10. DependenciesFirst'
  BY <1>1 DEF DependenciesFirst
<1>11. CancellationClosed'
  BY <1>1 DEF CancellationClosed
<1>12. SingleDelivery'
  BY <1>1, <1>3 DEF SingleDelivery, Handles
<1>13. NoOrphanLease'
  <2> SUFFICES ASSUME NEW s \in Steps, status[s] = "running", s \notin stranded'
               PROVE  \/ queue[s] > 0
                      \/ \E q \in Procs : s \in batch[q]
                      \/ \E v \in Workers :
                            job'[v] = s /\ pc'[v] \in {"tool", "commit", "commitError"}
    BY <1>1 DEF NoOrphanLease, Handles
  <2>1. s \notin stranded /\ ~(job[p] = s /\ pc[p] \in {"tool", "commit", "commitError"})
    BY <1>2
  <2> QED
    BY <1>1, <2>1 DEF NoOrphanLease, Handles
<1>14. SynthesisAfterSteps'
  BY <1>1 DEF SynthesisAfterSteps, StepsOver
<1> QED
  BY <1>4, <1>5, <1>6, <1>7, <1>8, <1>9, <1>10, <1>11, <1>12, <1>13, <1>14

\* The send loop is left: what was still to be sent keeps its lease and has no carrier.
LEMMA ReleaseRaisesSafe ==
  ASSUME Faults \subseteq SafeFaults, TypeOK, SafeInv,
         NEW p \in Workers, NEW r \in Steps, ReleaseRaises(p, r)
  PROVE  SafeInv'
<1> USE DEF SafeInv, rowVars, sentVars, txnVars, dispVars, Procs
<1>1. /\ UNCHANGED <<status, owner, queue, due, taskStatus>> /\ pc[p] = "send"
      /\ \A u \in Workers : u # p => /\ pc'[u] = pc[u] /\ job'[u] = job[u]
                                      /\ outcome'[u] = outcome[u] /\ touched'[u] = touched[u]
      /\ pc'[p] = "idle" /\ job'[p] = None /\ touched'[p] = {}
      /\ \A q \in Procs : q # p => pc'[q] = pc[q]
  BY EndJobFacts DEF ReleaseRaises, SafeFaults
<1>2. /\ \A q \in Procs : q # p => batch'[q] = batch[q]
      /\ batch'[p] = {} /\ stranded' = stranded \cup batch[p]
  BY DEF ReleaseRaises, TypeOK
<1>3. Watchdog # p /\ None \notin Steps
  BY StepsAssumption
<1>4. NoRecovery'
  BY <1>1, <1>2, <1>3 DEF NoRecovery
<1>5. JobPhases'
  BY <1>1, <1>2, <1>3 DEF JobPhases, Open
<1>6. WaitingUnclaimed'
  BY <1>1, <1>2, <1>3 DEF WaitingUnclaimed
<1>7. ClaimHeld'
  BY <1>1, <1>2 DEF ClaimHeld
<1>8. OpenTransactions'
  BY <1>1, OpenFrame DEF Open
<1>9. SynthesisReady'
  BY <1>1 DEF SynthesisReady, StepsOver
<1>10. DependenciesFirst'
  BY <1>1 DEF DependenciesFirst
<1>11. CancellationClosed'
  BY <1>1 DEF CancellationClosed
<1>12. SingleDelivery'
  <2>1. \A q \in Procs : batch'[q] \subseteq batch[q]
    BY <1>2
  <2> QED
    BY <1>1, <1>2, <1>3, <2>1 DEF SingleDelivery, Handles
<1>13. NoOrphanLease'
  <2> SUFFICES ASSUME NEW s \in Steps, status[s] = "running", s \notin stranded'
               PROVE  \/ queue[s] > 0
                      \/ \E q \in Procs : s \in batch'[q]
                      \/ \E v \in Workers :
                            job'[v] = s /\ pc'[v] \in {"tool", "commit", "commitError"}
    BY <1>1 DEF NoOrphanLease, Handles
  <2>1. s \notin stranded /\ s \notin batch[p]
    BY <1>2
  <2>2. CASE queue[s] > 0
    BY <2>2
  <2>3. CASE \E q \in Procs : s \in batch[q]
    BY <1>2, <2>1, <2>3
  <2>4. CASE \E v \in Workers : job[v] = s /\ pc[v] \in {"tool", "commit", "commitError"}
    BY <1>1, <2>4
  <2> QED
    BY <2>1, <2>2, <2>3, <2>4 DEF NoOrphanLease, Handles
<1>14. SynthesisAfterSteps'
  BY <1>1 DEF SynthesisAfterSteps, StepsOver
<1> QED
  BY <1>4, <1>5, <1>6, <1>7, <1>8, <1>9, <1>10, <1>11, <1>12, <1>13, <1>14

\* A message is gone without a job: its step has lost its carrier.
LEMMA ReceiveRaisesSafe ==
  ASSUME Faults \subseteq SafeFaults, TypeOK, SafeInv,
         NEW w \in Workers, NEW r \in Steps, ReceiveRaises(w, r)
  PROVE  SafeInv'
<1> USE DEF SafeInv, rowVars, sentVars, txnVars, dispVars, Procs
<1>1. /\ UNCHANGED <<status, owner, batch, due, taskStatus, pc, job, outcome, touched>>
      /\ queue[r] > 0 /\ queue'[r] = queue[r] - 1 /\ queue'[r] \in Nat
      /\ \A t \in Steps : t # r => queue'[t] = queue[t]
      /\ stranded' = IF status[r] = "running" THEN stranded \cup {r} ELSE stranded
  BY DEF ReceiveRaises, TypeOK
<1>2. \A t \in Steps : queue[t] \in Nat /\ queue'[t] \in Nat
  BY <1>1 DEF TypeOK
<1>3. NoRecovery'
  BY <1>1 DEF NoRecovery
<1>4. JobPhases'
  BY <1>1 DEF JobPhases, Open
<1>5. WaitingUnclaimed'
  BY <1>1 DEF WaitingUnclaimed
<1>6. ClaimHeld'
  BY <1>1 DEF ClaimHeld
<1>7. OpenTransactions'
  BY <1>1, OpenFrame DEF Open
<1>8. SynthesisReady'
  BY <1>1 DEF SynthesisReady, StepsOver
<1>9. DependenciesFirst'
  BY <1>1 DEF DependenciesFirst
<1>10. CancellationClosed'
  BY <1>1 DEF CancellationClosed
<1>11. SingleDelivery'
  <2>1. queue[r] = 1 /\ queue'[r] = 0
    BY <1>1, <1>2 DEF SingleDelivery
  <2> QED
    BY <1>1, <2>1 DEF SingleDelivery, Handles
<1>12. NoOrphanLease'
  BY <1>1, <1>2 DEF NoOrphanLease, Handles
<1>13. SynthesisAfterSteps'
  BY <1>1 DEF SynthesisAfterSteps, StepsOver
<1> QED
  BY <1>3, <1>4, <1>5, <1>6, <1>7, <1>8, <1>9, <1>10, <1>11, <1>12, <1>13

LEMMA UnchangedSafe ==
  ASSUME SafeInv, UNCHANGED vars
  PROVE  SafeInv'
  BY DEF SafeInv, vars, rowVars, sentVars, txnVars, dispVars, NoRecovery, JobPhases, Open,
         WaitingUnclaimed, ClaimHeld, OpenTransactions, SynthesisReady, StepsOver,
         DependenciesFirst, CancellationClosed, SingleDelivery, NoOrphanLease, Handles,
         SynthesisAfterSteps, DependsOn

\* When planning commits nothing is claimed, and only the steps without dependencies
\* are READY.
LEMMA InitSafe == Init => SafeInv
<1> SUFFICES ASSUME Init PROVE SafeInv
  OBVIOUS
<1> USE DEF Init, Procs
<1>1. PICK planner \in Workers :
         pc = [p \in Procs |-> IF p = planner THEN "promote" ELSE "idle"]
  OBVIOUS
<1>2. /\ \A s \in Steps : status[s] = IF DependsOn(s) = {} THEN "ready" ELSE "pending"
      /\ \A w \in Workers : pc[w] \in {"idle", "promote"} /\ job[w] = None /\ touched[w] = {}
      /\ Watchdog # planner /\ None \notin Steps
  BY <1>1, StepsAssumption
<1>3. NoRecovery
  BY <1>1, <1>2 DEF NoRecovery
<1>4. JobPhases /\ WaitingUnclaimed /\ ClaimHeld
  BY <1>1, <1>2 DEF JobPhases, WaitingUnclaimed, ClaimHeld, Open
<1>5. OpenTransactions /\ SynthesisReady
  BY <1>2 DEF OpenTransactions, SynthesisReady, Open
<1>6. DependenciesFirst /\ CancellationClosed
  <2>1. \A s \in Steps : DependsOn(s) \subseteq Steps
    BY DEF DependsOn
  <2> QED
    BY <1>2, <2>1 DEF DependenciesFirst, CancellationClosed
<1>7. SingleDelivery /\ NoOrphanLease /\ SynthesisAfterSteps
  BY <1>2 DEF SingleDelivery, NoOrphanLease, Handles, SynthesisAfterSteps
<1> QED
  BY <1>3, <1>4, <1>5, <1>6, <1>7 DEF SafeInv

\* Every step preserves the invariant; the retries, the lost replies and the watchdog
\* are excluded by the faults allowed.
LEMMA NextSafe ==
  ASSUME Faults \subseteq SafeFaults, TypeOK, SafeInv, [Next]_vars
  PROVE  SafeInv'
<1>1. ASSUME NEW p \in Procs, Dispatch(p) PROVE SafeInv'
  <2>1. p \in Workers
    <3>1. pc[p] # "idle"
      BY <1>1 DEF Dispatch, ReadDue, Claim, Send, SendFails, DispatchEnds
    <3> QED
      BY <3>1 DEF SafeInv, NoRecovery, Procs
  <2>2. CASE ReadDue(p)
    BY <2>1, <2>2, ReadDueSafe
  <2>3. CASE Claim(p)
    BY <2>1, <2>3, ClaimSafe
  <2>4. CASE \E s \in Steps : Send(p, s) \/ SendFails(p, s)
    BY <2>1, <2>4, SendSafe, SendFailsSafe
  <2>5. CASE DispatchEnds(p)
    BY <2>1, <2>5, DispatchEndsSafe
  <2> QED
    BY <1>1, <2>2, <2>3, <2>4, <2>5 DEF Dispatch
<1>2. ASSUME NEW p \in Procs, Crash(p) PROVE SafeInv'
  <2>1. p \in Workers
    BY <1>2 DEF Crash, SafeInv, NoRecovery, Procs
  <2> QED
    BY <1>2, <2>1, CrashSafe
<1>3. ASSUME NEW w \in Workers, Work(w) PROVE SafeInv'
  <2>1. CASE \E s \in Steps : Receive(w, s)
    BY <2>1, ReceiveSafe
  <2>2. CASE ToolSucceeds(w)
    <3>1. Write(w, "completed", UnblockSet(job[w]), "commit")
      BY <2>2 DEF ToolSucceeds, Rows
    <3> QED
      BY <3>1, ToolSucceedsSafe
  <2>3. CASE ToolFails(w)
    <3>1. Write(w, "failed", CancelSet(job[w]), "commit")
      BY <2>3 DEF ToolFails, Rows
    <3> QED
      BY <3>1, ToolFailsSafe
  <2>4. CASE ToolFailsRetryably(w)
    BY <2>4 DEF ToolFailsRetryably, SafeFaults
  <2>5. CASE ToolRaises(w)
    <3>1. Write(w, "failed", CancelSet(job[w]), "commitError")
      BY <2>5 DEF ToolRaises, Rows
    <3> QED
      BY <3>1, ToolFailsSafe
  <2>6. CASE Commit(w)
    BY <2>6, CommitSafe
  <2>7. CASE CheckComplete(w)
    BY <2>7, CheckCompleteSafe
  <2>8. CASE Transition(w)
    BY <2>8, TransitionSafe
  <2>9. CASE SendSynthesis(w)
    BY <2>9, SendSynthesisSafe
  <2> QED
    BY <1>3, <2>1, <2>2, <2>3, <2>4, <2>5, <2>6, <2>7, <2>8, <2>9 DEF Work
<1>4. CASE WatchdogReads
  BY <1>4 DEF WatchdogReads, Fault, SafeFaults
<1>5. CASE WatchdogCommits
  BY <1>5 DEF WatchdogCommits, SafeInv, NoRecovery
<1>6. ASSUME NEW p \in Procs, DatabaseRaises(p) PROVE SafeInv'
  <2>1. CASE JobRaises(p)
    <3>1. p \in Workers
      BY <2>1 DEF JobRaises, SafeInv, NoRecovery, Procs
    <3> QED
      BY <2>1, <3>1, JobRaisesSafe
  <2>2. ASSUME NEW s \in Steps, ReleaseRaises(p, s) PROVE SafeInv'
    <3>1. p \in Workers
      BY <2>2 DEF ReleaseRaises, SafeInv, NoRecovery, Procs
    <3> QED
      BY <2>2, <3>1, ReleaseRaisesSafe
  <2>3. ASSUME p \in Workers, NEW s \in Steps, ReceiveRaises(p, s) PROVE SafeInv'
    BY <2>3, ReceiveRaisesSafe
  <2> QED
    BY <1>6, <2>1, <2>2, <2>3 DEF DatabaseRaises
<1>7. CASE UNCHANGED vars
  BY <1>7, UnchangedSafe
<1> QED
  BY <1>1, <1>2, <1>3, <1>4, <1>5, <1>6, <1>7 DEF Next

----------------------------------------------------------------------------
(***************************************************************************)
(* The theorems.                                                           *)
(***************************************************************************)

\* Whatever the plan, the workers and the number of crashes, exceptions and failed
\* sends, the inductive invariant holds (steps.py, dispatch.py, execution.py,
\* tasks.py: the claim, the job and the commit of a step).
THEOREM SafeInvHolds ==
  ASSUME Faults \subseteq SafeFaults
  PROVE  Spec => []SafeInv
<1>1. Init => SafeInv
  BY InitSafe
<1>2. TypeOK /\ SafeInv /\ [Next]_vars => SafeInv'
  BY NextSafe
<1>3. Spec => []TypeOK
  BY TypeCorrect
<1> QED
  BY <1>1, <1>2, <1>3, PTL DEF Spec

\* A step is worked on only when everything it depends on completed (_unblock_dependents
\* and claim_next).
THEOREM StartsAfterDependencies ==
  ASSUME Faults \subseteq SafeFaults
  PROVE  Spec => []DependenciesFirst
<1>1. SafeInv => DependenciesFirst
  BY DEF SafeInv
<1> QED
  BY <1>1, SafeInvHolds, PTL

\* A step is cancelled if and only if something it depends on failed or is cancelled
\* (_cancel_dependents).
THEOREM FailureReachesExactlyDependents ==
  ASSUME Faults \subseteq SafeFaults
  PROVE  Spec => []CancellationClosed
<1>1. SafeInv => CancellationClosed
  BY DEF SafeInv
<1> QED
  BY <1>1, SafeInvHolds, PTL

\* A step has at most one claim, message or job at a time, so its tool never runs
\* twice at once (claim_next, enqueue_step, execute_step_job).
THEOREM OneDeliveryPerStep ==
  ASSUME Faults \subseteq SafeFaults
  PROVE  Spec => []SingleDelivery
<1>1. SafeInv => SingleDelivery
  BY DEF SafeInv
<1> QED
  BY <1>1, SafeInvHolds, PTL

\* A RUNNING row loses its carrier only to a dispatch that dies or cannot release a claim
\* before it sent its batch, to a delivery whose row cannot be read, or to a failure that
\* cannot be recorded (dispatch_ready, release_claim, execute_step_job).
THEOREM LeasesHaveCarriers ==
  ASSUME Faults \subseteq SafeFaults
  PROVE  Spec => []NoOrphanLease
<1>1. SafeInv => NoOrphanLease
  BY DEF SafeInv
<1> QED
  BY <1>1, SafeInvHolds, PTL

\* A task leaves RUNNING for synthesis only when every step is over and one succeeded
\* (queue_synthesis_if_complete).
THEOREM SynthesisOnlyWhenOver ==
  ASSUME Faults \subseteq SafeFaults
  PROVE  Spec => []SynthesisAfterSteps
<1>1. SafeInv => SynthesisAfterSteps
  BY DEF SafeInv
<1> QED
  BY <1>1, SafeInvHolds, PTL


----------------------------------------------------------------------------
(***************************************************************************)
(* What holds under every fault, duplicate executions and lease recovery   *)
(* included.                                                               *)
(***************************************************************************)

\* The permission to send the synthesis message exists once: before the transition
\* nobody has it, and from then on it is one worker's, spent, or lost.
SynthesisInv ==
    /\ synthSent <= 1
    /\ taskStatus = "running" => synthSent = 0 /\ \A w \in Workers : pc[w] # "synthesize"
    /\ \A w \in Workers : pc[w] = "synthesize" => synthSent = 0
    /\ \A v, w \in Workers : pc[v] = "synthesize" /\ pc[w] = "synthesize" => v = w

\* A set with at most one element has a cardinality of 0 or 1.
LEMMA AtMostOne ==
  ASSUME NEW S, \A x, y \in S : x = y
  PROVE  /\ IsFiniteSet(S)
         /\ S = {} => Cardinality(S) = 0
         /\ S # {} => Cardinality(S) = 1
<1>1. CASE S = {}
  BY <1>1, FS_EmptySet
<1>2. CASE S # {}
  <2>1. PICK x \in S : TRUE
    BY <1>2
  <2>2. S = {x}
    BY <2>1
  <2> QED
    BY <1>2, <2>2, FS_Singleton
<1> QED
  BY <1>1, <1>2

LEMMA SynthesisInvImplies == TypeOK /\ SynthesisInv => SynthesisSentOnce
<1> SUFFICES ASSUME TypeOK, SynthesisInv PROVE SynthesisSentOnce
  OBVIOUS
<1> DEFINE Senders == {w \in Workers : pc[w] = "synthesize"}
<1>1. \A v, w \in Senders : v = w
  BY DEF SynthesisInv
<1>2. Senders # {} => synthSent = 0
  BY DEF SynthesisInv
<1>3. /\ Senders = {} => Cardinality(Senders) = 0
      /\ Senders # {} => Cardinality(Senders) = 1
  BY <1>1, AtMostOne, Zenon
<1>4. synthSent + Cardinality(Senders) <= 1
  <2> HIDE DEF Senders
  <2> QED
    BY <1>2, <1>3 DEF TypeOK, SynthesisInv
<1> QED
  BY <1>4 DEF SynthesisSentOnce

LEMMA NextSynthesisInv == TypeOK /\ SynthesisInv /\ [Next]_vars => SynthesisInv'
<1> SUFFICES ASSUME TypeOK, SynthesisInv, [Next]_vars PROVE SynthesisInv'
  OBVIOUS
<1> USE DEF Goto, vars, rowVars, sentVars, txnVars, dispVars, Procs, TypeOK
\* The permission changes hands only between Transition and SendSynthesis.
<1> DEFINE Quiet == /\ UNCHANGED <<taskStatus, synthSent>>
                    /\ \A w \in Workers : pc'[w] = "synthesize" => pc[w] = "synthesize"
<1>1. Quiet => SynthesisInv'
  BY DEF SynthesisInv
<1>2. ASSUME NEW p \in Procs, Dispatch(p) PROVE Quiet
  BY <1>2 DEF Dispatch, ReadDue, Claim, Send, SendFails, DispatchEnds, EndJob
<1>3. ASSUME NEW p \in Procs, Crash(p) PROVE Quiet
  BY <1>3 DEF Crash, EndJob
<1>4. ASSUME NEW w \in Workers, Work(w), ~Transition(w), ~SendSynthesis(w) PROVE Quiet
  <2>1. CASE \E s \in Steps : Receive(w, s)
    BY <2>1 DEF Receive
  <2>2. CASE ToolSucceeds(w) \/ ToolFails(w) \/ ToolFailsRetryably(w) \/ ToolRaises(w)
    BY <2>2 DEF ToolSucceeds, ToolFails, ToolFailsRetryably, ToolRaises, Write
  <2>3. CASE Commit(w)
    BY <2>3 DEF Commit, EndJob
  <2>4. CASE CheckComplete(w)
    BY <2>4 DEF CheckComplete, EndJob
  <2> QED
    BY <1>4, <2>1, <2>2, <2>3, <2>4 DEF Work
<1>5. ASSUME NEW w \in Workers, Transition(w) PROVE SynthesisInv'
  BY <1>5 DEF Transition, ExpectedTaskStatus, EndJob, SynthesisInv
<1>6. ASSUME NEW w \in Workers, SendSynthesis(w) PROVE SynthesisInv'
  <2>1. /\ synthSent = 0 /\ taskStatus # "running" /\ taskStatus' = taskStatus
        /\ \A v \in Workers : pc'[v] # "synthesize"
    BY <1>6 DEF SendSynthesis, EndJob, SynthesisInv
  <2>2. synthSent' \in {0, 1}
    BY <1>6, <2>1 DEF SendSynthesis
  <2> QED
    BY <2>1, <2>2 DEF SynthesisInv
<1>7. CASE WatchdogReads \/ WatchdogCommits
  BY <1>7, StepsAssumption DEF WatchdogReads, WatchdogCommits, SynthesisInv
<1>8. ASSUME NEW p \in Procs, DatabaseRaises(p) PROVE Quiet
  BY <1>8 DEF DatabaseRaises, JobRaises, ReleaseRaises, ReceiveRaises, EndJob
<1>9. CASE UNCHANGED vars
  BY <1>9, <1>1
<1> QED
  BY <1>1, <1>2, <1>3, <1>4, <1>5, <1>6, <1>7, <1>8, <1>9 DEF Next

\* Whatever is delivered twice, recovered or retried, the synthesis message is sent at
\* most once, because the transition before it is guarded (queue_synthesis_if_complete).
THEOREM SynthesisOnce == Spec => []SynthesisSentOnce
<1>1. Init => SynthesisInv
  BY DEF Init, SynthesisInv, Procs
<1>2. TypeOK /\ SynthesisInv /\ [Next]_vars => SynthesisInv'
  BY NextSynthesisInv
<1>3. TypeOK /\ SynthesisInv => SynthesisSentOnce
  BY SynthesisInvImplies
<1> QED
  BY <1>1, <1>2, <1>3, TypeCorrect, PTL DEF Spec

\* Everything s depends on completed at some time.
Prior(s) == DependsOn(s) \subseteq succeeded

\* Whatever may still make a step READY, or already did, came after its dependencies
\* completed: a row's own status, the rows an open transaction is about to unblock, and
\* the rows that were read for a retry or as expired.
ClaimInv ==
    /\ \A s \in Steps : status[s] \in {"ready", "running", "retry_wait"} => Prior(s)
    /\ \A s \in Steps : status[s] = "completed" => s \in succeeded
    /\ \A s \in Steps : attempts[s] > 0 => Prior(s)
    /\ \A w \in Workers : job[w] # None => Prior(job[w])
    /\ \A w \in Workers : pc[w] = "tool" \/ Open(w) => job[w] # None
    /\ \A p \in Procs : \A s \in due[p] : Prior(s)
    /\ \A s \in expired : Prior(s)
    /\ \A w \in Workers : Open(w) =>
          /\ outcome[w] \in {"completed", "failed", "retry_wait"}
          /\ outcome[w] = "retry_wait" => touched[w] = {}
          /\ outcome[w] = "completed" =>
                \A t \in touched[w] : DependsOn(t) \subseteq succeeded \cup {job[w]}

\* A step that ends nothing but jobs and changes no row keeps the invariant.
LEMMA ClaimInvFrame ==
  ASSUME TypeOK, ClaimInv, UNCHANGED <<status, attempts, succeeded>>,
         \A w \in Workers : \/ pc'[w] \notin {"tool", "commit", "commitError"} /\ job'[w] = None
                            \/ /\ pc'[w] \in {"tool", "commit", "commitError"} => pc'[w] = pc[w]
                               /\ job'[w] = job[w] /\ outcome'[w] = outcome[w]
                               /\ touched'[w] = touched[w],
         \A p \in Procs : due'[p] \subseteq due[p],
         expired' \subseteq expired
  PROVE  ClaimInv'
  BY DEF ClaimInv, Prior, Open, TypeOK

LEMMA ClaimKeepsOrder ==
  ASSUME TypeOK, ClaimInv, NEW p \in Procs, Claim(p)
  PROVE  ClaimInv'
<1> USE DEF Goto, rowVars, sentVars, txnVars, dispVars, Procs
<1>1. PICK claimed \in SUBSET Claimable(p) :
        /\ status' = [s \in Steps |-> IF s \in claimed THEN "running" ELSE Promoted(p)[s]]
        /\ attempts' = [s \in Steps |-> IF s \in claimed THEN attempts[s] + 1 ELSE attempts[s]]
  BY DEF Claim
<1>2. \A s \in Steps : Promoted(p)[s] = "ready" => Prior(s)
  BY DEF Promoted, ClaimInv
<1>3. claimed \subseteq Steps /\ \A s \in claimed : Prior(s)
  BY <1>1, <1>2 DEF Claimable
<1>4. \A s \in Steps : /\ status'[s] \in {"ready", "running", "retry_wait"} => Prior(s)
                       /\ status'[s] = "completed" => s \in succeeded
                       /\ attempts'[s] > 0 => Prior(s)
  <2> SUFFICES ASSUME NEW s \in Steps
               PROVE  /\ status'[s] \in {"ready", "running", "retry_wait"} => Prior(s)
                      /\ status'[s] = "completed" => s \in succeeded
                      /\ attempts'[s] > 0 => Prior(s)
    OBVIOUS
  <2>1. CASE s \in claimed
    BY <1>1, <1>3, <2>1
  <2>2. CASE s \notin claimed
    <3>1. status'[s] = Promoted(p)[s] /\ attempts'[s] = attempts[s]
      BY <1>1, <2>2
    <3>2. Promoted(p)[s] = "ready" \/ Promoted(p)[s] = status[s]
      BY DEF Promoted
    <3> QED
      BY <1>2, <3>1, <3>2 DEF ClaimInv
  <2> QED
    BY <2>1, <2>2
<1>5. /\ UNCHANGED <<job, outcome, touched, expired, succeeded>>
      /\ \A q \in Procs : due'[q] \subseteq due[q]
      /\ \A w \in Workers : pc'[w] \in {"tool", "commit", "commitError"} => pc'[w] = pc[w]
  BY DEF Claim, TypeOK
<1> QED
  BY <1>4, <1>5 DEF ClaimInv, Prior, Open

LEMMA WriteKeepsOrder ==
  ASSUME TypeOK, ClaimInv, NEW w \in Workers,
         NEW o \in {"completed", "failed", "retry_wait"},
         NEW label \in {"commit", "commitError"}, Write(w, o, Rows(w, o), label)
  PROVE  ClaimInv'
<1> USE DEF Goto, rowVars, sentVars, txnVars, dispVars, Procs
<1>1. pc[w] = "tool" /\ job[w] # None
  BY DEF Write, ClaimInv
<1>2. /\ o = "retry_wait" => Rows(w, o) = {}
      /\ o = "completed" =>
            \A t \in Rows(w, o) : DependsOn(t) \subseteq succeeded \cup {job[w]}
  BY DEF Rows, UnblockSet, DependsOn, ClaimInv
<1>3. /\ outcome'[w] = o /\ touched'[w] = Rows(w, o)
      /\ \A v \in Workers : v # w => /\ pc'[v] = pc[v] /\ outcome'[v] = outcome[v]
                                     /\ touched'[v] = touched[v]
      /\ UNCHANGED <<status, attempts, job, due, expired, succeeded>>
  BY DEF Write, TypeOK
<1> QED
  BY <1>1, <1>2, <1>3 DEF ClaimInv, Prior, Open

LEMMA CommitKeepsOrder ==
  ASSUME TypeOK, ClaimInv, NEW w \in Workers, Commit(w)
  PROVE  ClaimInv'
<1> USE DEF rowVars, sentVars, txnVars, dispVars, Procs
<1>1. /\ Open(w) /\ job[w] # None /\ Prior(job[w])
      /\ outcome[w] \in {"completed", "failed", "retry_wait"}
      /\ outcome[w] = "retry_wait" => touched[w] = {}
      /\ outcome[w] = "completed" =>
            \A t \in touched[w] : DependsOn(t) \subseteq succeeded \cup {job[w]}
  BY DEF Commit, Open, ClaimInv
<1>2. /\ UNCHANGED <<attempts, due, expired>>
      /\ succeeded' = IF outcome[w] = "completed" THEN succeeded \cup {job[w]} ELSE succeeded
  BY <1>1 DEF Commit, TypeOK
<1>3. /\ succeeded \subseteq succeeded'
      /\ \A s : Prior(s) => Prior(s)'
  BY <1>2 DEF Prior, DependsOn
<1>4. \A s \in Steps : /\ status'[s] \in {"ready", "running", "retry_wait"} => Prior(s)'
                       /\ status'[s] = "completed" => s \in succeeded'
  <2> SUFFICES ASSUME NEW s \in Steps
               PROVE  /\ status'[s] \in {"ready", "running", "retry_wait"} => Prior(s)'
                      /\ status'[s] = "completed" => s \in succeeded'
    OBVIOUS
  <2>1. status'[s] = IF s = job[w] THEN outcome[w]
                     ELSE IF s \in touched[w] THEN DependentStatus(outcome[w])
                     ELSE status[s]
    BY DEF Commit
  <2>2. CASE s = job[w]
    BY <1>1, <1>2, <1>3, <2>1, <2>2
  <2>3. CASE s # job[w] /\ s \in touched[w]
    <3>1. outcome[w] = "completed" => Prior(s)'
      BY <1>1, <1>2, <2>3 DEF Prior, DependsOn
    <3> QED
      BY <1>1, <2>1, <2>3, <3>1 DEF DependentStatus
  <2>4. CASE s # job[w] /\ s \notin touched[w]
    BY <1>3, <2>1, <2>4 DEF ClaimInv
  <2> QED
    BY <2>2, <2>3, <2>4
<1>5. /\ pc'[w] \notin {"tool", "commit", "commitError"}
      /\ job'[w] \in {job[w], None}
      /\ \A v \in Workers : v # w => /\ pc'[v] = pc[v] /\ job'[v] = job[v]
                                     /\ outcome'[v] = outcome[v] /\ touched'[v] = touched[v]
  <2>1. CASE pc[w] = "commit"
    BY <2>1 DEF Commit, Goto, TypeOK
  <2>2. CASE pc[w] # "commit"
    <3>1. EndJob(w)
      BY <2>2 DEF Commit
    <3> QED
      BY <3>1, EndJobFacts
  <2> QED
    BY <2>1, <2>2
<1>6. \A v \in Workers : v # w /\ Open(v) /\ outcome[v] = "completed" =>
         \A t \in touched[v] : DependsOn(t) \subseteq succeeded' \cup {job[v]}
  BY <1>3 DEF ClaimInv
<1>7. \A s \in Steps : attempts'[s] > 0 => Prior(s)'
  BY <1>2, <1>3 DEF ClaimInv
<1>8. /\ \A v \in Workers : job'[v] # None => Prior(job[v])'
      /\ \A p \in Procs : \A s \in due'[p] : Prior(s)'
      /\ \A s \in expired' : Prior(s)'
  BY <1>1, <1>2, <1>3, <1>5 DEF ClaimInv, Prior
<1> QED
  BY <1>4, <1>5, <1>6, <1>7, <1>8 DEF ClaimInv, Open, DependsOn

LEMMA NextClaimInv == TypeOK /\ ClaimInv /\ [Next]_vars => ClaimInv'
<1> SUFFICES ASSUME TypeOK, ClaimInv, [Next]_vars PROVE ClaimInv'
  OBVIOUS
<1> USE DEF vars, rowVars, sentVars, txnVars, dispVars, Procs
<1>1. ASSUME NEW p \in Procs, ReadDue(p) PROVE ClaimInv'
  <2>1. \A s \in due'[p] : s \in Steps /\ status[s] = "retry_wait"
    BY <1>1 DEF ReadDue, TypeOK
  <2>2. /\ UNCHANGED <<status, attempts, job, outcome, touched, expired, succeeded>>
        /\ \A q \in Procs : q # p => due'[q] = due[q]
        /\ \A w \in Workers : pc'[w] \in {"tool", "commit", "commitError"} => pc'[w] = pc[w]
    BY <1>1 DEF ReadDue, Goto, TypeOK
  <2> QED
    BY <2>1, <2>2 DEF ClaimInv, Prior, Open
<1>2. ASSUME NEW p \in Procs, NEW s \in Steps, Send(p, s) PROVE ClaimInv'
  BY <1>2, ClaimInvFrame DEF Send
<1>3. ASSUME NEW p \in Procs, NEW s \in Steps, SendFails(p, s) PROVE ClaimInv'
  <2>1. \A t \in Steps : \/ status'[t] = status[t]
                         \/ status[t] = "running" /\ status'[t] = "ready"
    BY <1>3 DEF SendFails, ReleaseClaim, TypeOK
  <2>2. UNCHANGED <<attempts, pc, job, outcome, touched, due, expired, succeeded>>
    BY <1>3 DEF SendFails
  <2> QED
    BY <2>1, <2>2 DEF ClaimInv, Prior, Open
<1>4. ASSUME NEW p \in Procs, DispatchEnds(p) PROVE ClaimInv'
  BY <1>4, ClaimInvFrame DEF DispatchEnds, EndJob, Goto, TypeOK
<1>5. ASSUME NEW w \in Workers, NEW s \in Steps, Receive(w, s) PROVE ClaimInv'
  <2>1. CASE status[s] = "running"
    <3>1. /\ job'[w] = s /\ pc'[w] = "tool"
          /\ UNCHANGED <<status, attempts, outcome, touched, due, expired, succeeded>>
          /\ \A v \in Workers : v # w => pc'[v] = pc[v] /\ job'[v] = job[v]
      BY <1>5, <2>1 DEF Receive, Goto, TypeOK
    <3> QED
      BY <2>1, <3>1, StepsAssumption DEF ClaimInv, Prior, Open
  <2>2. CASE status[s] # "running"
    BY <1>5, <2>2, ClaimInvFrame DEF Receive
  <2> QED
    BY <2>1, <2>2
<1>6. ASSUME NEW w \in Workers,
             ToolSucceeds(w) \/ ToolFails(w) \/ ToolFailsRetryably(w) \/ ToolRaises(w)
      PROVE  ClaimInv'
  <2>1. \A s : AfterRetryable(s) \in {"failed", "retry_wait"}
    BY DEF AfterRetryable
  <2> QED
    BY <1>6, <2>1, WriteKeepsOrder DEF ToolSucceeds, ToolFails, ToolFailsRetryably, ToolRaises
<1>7. ASSUME NEW w \in Workers, CheckComplete(w) \/ Transition(w) \/ SendSynthesis(w)
      PROVE  ClaimInv'
  <2>1. /\ UNCHANGED <<status, attempts, due, expired, succeeded>>
        /\ \/ EndJob(w)
           \/ /\ pc' = [pc EXCEPT ![w] = "transition"] \/ pc' = [pc EXCEPT ![w] = "synthesize"]
              /\ UNCHANGED <<job, outcome, touched>>
    BY <1>7 DEF CheckComplete, Transition, SendSynthesis, Goto
  <2> QED
    BY <2>1, ClaimInvFrame DEF EndJob, Goto, TypeOK
<1>8. CASE WatchdogReads
  <2>1. /\ \A s \in expired' \cup due'[Watchdog] :
              s \in Steps /\ status[s] \in {"running", "retry_wait"}
        /\ UNCHANGED <<status, attempts, job, outcome, touched, succeeded>>
        /\ \A q \in Procs : q # Watchdog => due'[q] = due[q]
        /\ \A w \in Workers : pc'[w] \in {"tool", "commit", "commitError"} => pc'[w] = pc[w]
    BY <1>8 DEF WatchdogReads, Goto, TypeOK
  <2> QED
    BY <2>1 DEF ClaimInv, Prior, Open
<1>9. CASE WatchdogCommits
  <2>1. \A s \in Steps : \/ status'[s] = status[s]
                         \/ status'[s] = "ready" /\ s \in expired \cup due[Watchdog]
    BY <1>9 DEF WatchdogCommits, TypeOK
  <2>2. /\ expired' = {} /\ UNCHANGED <<attempts, job, outcome, touched, succeeded>>
        /\ \A q \in Procs : due'[q] \subseteq due[q]
        /\ \A w \in Workers : pc'[w] \in {"tool", "commit", "commitError"} => pc'[w] = pc[w]
    BY <1>9 DEF WatchdogCommits, Goto, TypeOK
  <2> QED
    BY <2>1, <2>2 DEF ClaimInv, Prior, Open
<1>10. ASSUME NEW p \in Procs, Crash(p) PROVE ClaimInv'
  BY <1>10, ClaimInvFrame DEF Crash, EndJob, Goto, TypeOK
<1>11. ASSUME NEW p \in Procs, JobRaises(p) PROVE ClaimInv'
  BY <1>11, ClaimInvFrame DEF JobRaises, EndJob, Goto, TypeOK
<1>12. ASSUME NEW p \in Procs, NEW s \in Steps, ReleaseRaises(p, s) PROVE ClaimInv'
  BY <1>12, ClaimInvFrame DEF ReleaseRaises, EndJob, Goto, TypeOK
<1>13. ASSUME NEW w \in Workers, NEW s \in Steps, ReceiveRaises(w, s) PROVE ClaimInv'
  BY <1>13, ClaimInvFrame DEF ReceiveRaises
<1>14. CASE UNCHANGED vars
  BY <1>14, ClaimInvFrame
<1> QED
  BY <1>1, <1>2, <1>3, <1>4, <1>5, <1>6, <1>7, <1>8, <1>9, <1>10, <1>11, <1>12, <1>13, <1>14,
     ClaimKeepsOrder, CommitKeepsOrder DEF Next, Dispatch, Work, DatabaseRaises

\* A step is claimed only after the completion of each step it depends on was committed,
\* also under duplicate execution, lease recovery and retries (claim_next,
\* _unblock_dependents, promote_due_retries, ResearchWatchdog.run_once).
THEOREM ClaimsInOrder == Spec => []ClaimedAfterDependencies
<1>1. Init => ClaimInv
  BY DEF Init, ClaimInv, Prior, Open, Procs
<1>2. TypeOK /\ ClaimInv /\ [Next]_vars => ClaimInv'
  BY NextClaimInv
<1>3. ClaimInv => ClaimedAfterDependencies
  BY DEF ClaimInv, Prior, ClaimedAfterDependencies
<1> QED
  BY <1>1, <1>2, <1>3, TypeCorrect, PTL DEF Spec


----------------------------------------------------------------------------
(***************************************************************************)
(* The workers implement the abstract plan of ResearchDag.                 *)
(***************************************************************************)

\* The rows an open transaction holds lie behind its own step.
TouchedBehind ==
    \A w \in Workers : Open(w) =>
        /\ outcome[w] = "completed" => touched[w] \subseteq Dependents(job[w])
        /\ outcome[w] = "failed" => touched[w] \subseteq Dag!Downstream(job[w])

LEMMA CancelSetDownstream ==
  ASSUME NEW s \in Steps
  PROVE  CancelSet(s) \subseteq Dag!Downstream(s)
<1> SUFFICES ASSUME NEW X \in SUBSET Steps, Dag!ClosedDownstream(s, X)
             PROVE  CancelSet(s) \subseteq X
  BY DEF Dag!Downstream, CancelSet
<1>1. CancelClosed(s, X)
  BY DEF CancelClosed, Dag!ClosedDownstream, Dag!DependsOn, DependsOn
<1> QED
  BY <1>1, CancelSetFacts

\* While a step runs, everything downstream of it waits or is cancelled already, and what
\* waits is what the transaction that fails it wrote.
LEMMA DownstreamTouched ==
  ASSUME TypeOK, SafeInv, NEW w \in Workers, Open(w), outcome[w] = "failed"
  PROVE  \A u \in Dag!Downstream(job[w]) : status[u] = "pending" => u \in touched[w]
<1> DEFINE X == touched[w] \cup {u \in Steps : status[u] = "cancelled"}
<1>1. job[w] \in Steps /\ status[job[w]] = "running" /\ touched[w] \subseteq Steps
  BY DEF SafeInv, JobPhases, TypeOK
<1>2. \A u \in touched[w] : status[u] = "pending"
  BY DEF SafeInv, OpenTransactions
<1>3. \A u \in Steps : /\ status[u] \notin Terminal
                       /\ DependsOn(u) \cap (touched[w] \cup {job[w]}) # {}
                       => u \in touched[w]
  BY DEF SafeInv, OpenTransactions
<1>4. Dag!ClosedDownstream(job[w], X)
  <2> SUFFICES ASSUME NEW u \in Steps, NEW d \in DependsOn(u), d \in X \cup {job[w]}
               PROVE  u \in X
    BY DEF Dag!ClosedDownstream, Dag!DependsOn, DependsOn
  <2>1. CASE status[d] = "cancelled"
    BY <2>1 DEF SafeInv, CancellationClosed
  <2>2. CASE d \in touched[w] \cup {job[w]}
    <3>1. status[d] # "completed"
      BY <1>1, <1>2, <2>2
    <3>2. status[u] \in {"pending", "cancelled"}
      BY <3>1 DEF SafeInv, DependenciesFirst, TypeOK, StepStatuses
    <3> QED
      BY <1>3, <2>2, <3>2 DEF Terminal
  <2> QED
    BY <2>1, <2>2
<1>5. X \in SUBSET Steps
  BY <1>1
<1> HIDE DEF X
<1>6. Dag!Downstream(job[w]) \subseteq X
  BY <1>4, <1>5 DEF Dag!Downstream
<1> QED
  BY <1>6 DEF X

LEMMA NextTouchedBehind ==
  ASSUME TypeOK, SafeInv, TouchedBehind, [Next]_vars
  PROVE  TouchedBehind'
<1> USE DEF vars, rowVars, sentVars, txnVars, dispVars, Procs
\* Only Write opens a transaction, and an open one keeps its step and its rows.
<1> DEFINE Kept(w) == Open(w)' => /\ Open(w)
                                  /\ job'[w] = job[w]
                                  /\ outcome'[w] = outcome[w]
                                  /\ touched'[w] = touched[w]
<1>1. (\A w \in Workers : Kept(w)) => TouchedBehind'
  BY DEF TouchedBehind
<1>2. ASSUME NEW p \in Procs, Dispatch(p) PROVE \A w \in Workers : Kept(w)
  <2>1. CASE ReadDue(p)
    BY <2>1 DEF ReadDue, Goto, Open, TypeOK
  <2>2. CASE Claim(p)
    BY <2>2 DEF Claim, Goto, Open, TypeOK
  <2>3. CASE \E s \in Steps : Send(p, s) \/ SendFails(p, s)
    BY <2>3 DEF Send, SendFails, Open
  <2>4. CASE DispatchEnds(p)
    BY <2>4 DEF DispatchEnds, EndJob, Goto, Open, TypeOK
  <2> QED
    BY <1>2, <2>1, <2>2, <2>3, <2>4 DEF Dispatch
<1>3. ASSUME NEW p \in Procs, Crash(p) PROVE \A w \in Workers : Kept(w)
  BY <1>3 DEF Crash, EndJob, Goto, Open, TypeOK
<1>4. ASSUME NEW w \in Workers, NEW o \in {"completed", "failed", "retry_wait"},
             NEW label \in {"commit", "commitError"}, Write(w, o, Rows(w, o), label)
      PROVE  TouchedBehind'
  <2>1. job[w] \in Steps
    BY <1>4 DEF Write, SafeInv, JobPhases
  <2>2. /\ outcome'[w] = o /\ touched'[w] = Rows(w, o) /\ job' = job
        /\ \A v \in Workers : v # w => Kept(v)
    BY <1>4 DEF Write, Goto, Open, TypeOK
  <2>3. o = "completed" => Rows(w, o) \subseteq Dependents(job[w])
    BY DEF Rows, UnblockSet
  <2>4. o = "failed" => Rows(w, o) \subseteq Dag!Downstream(job[w])
    BY <2>1, CancelSetDownstream DEF Rows
  <2>5. ASSUME NEW v \in Workers, v # w, Open(v)'
        PROVE  /\ outcome'[v] = "completed" => touched'[v] \subseteq Dependents(job'[v])
               /\ outcome'[v] = "failed" => touched'[v] \subseteq Dag!Downstream(job'[v])
    BY <2>2, <2>5 DEF TouchedBehind
  <2> QED
    BY <2>2, <2>3, <2>4, <2>5 DEF TouchedBehind, Dependents, Dag!Downstream,
       Dag!ClosedDownstream, Dag!DependsOn
<1>5. ASSUME NEW w \in Workers, Work(w) PROVE TouchedBehind'
  <2>1. CASE \E s \in Steps : Receive(w, s)
    BY <2>1, <1>1 DEF Receive, Goto, Open, TypeOK
  <2>2. CASE ToolSucceeds(w) \/ ToolFails(w) \/ ToolFailsRetryably(w) \/ ToolRaises(w)
    <3>1. \A s : AfterRetryable(s) \in {"failed", "retry_wait"}
      BY DEF AfterRetryable
    <3> QED
      BY <2>2, <3>1, <1>4 DEF ToolSucceeds, ToolFails, ToolFailsRetryably, ToolRaises
  <2>3. CASE Commit(w)
    BY <2>3, <1>1 DEF Commit, EndJob, Goto, Open, TypeOK
  <2>4. CASE CheckComplete(w) \/ Transition(w) \/ SendSynthesis(w)
    BY <2>4, <1>1 DEF CheckComplete, Transition, SendSynthesis, EndJob, Goto, Open, TypeOK
  <2> QED
    BY <1>5, <2>1, <2>2, <2>3, <2>4 DEF Work
<1>6. CASE WatchdogReads \/ WatchdogCommits
  BY <1>6, <1>1, StepsAssumption DEF WatchdogReads, WatchdogCommits, Goto, Open, TypeOK
<1>7. ASSUME NEW p \in Procs, DatabaseRaises(p) PROVE \A w \in Workers : Kept(w)
  <2>1. CASE JobRaises(p)
    BY <2>1 DEF JobRaises, EndJob, Goto, Open, TypeOK
  <2>2. CASE \E s \in Steps : ReleaseRaises(p, s)
    BY <2>2 DEF ReleaseRaises, EndJob, Goto, Open, TypeOK
  <2>3. CASE \E s \in Steps : ReceiveRaises(p, s)
    BY <2>3 DEF ReceiveRaises, Open
  <2> QED
    BY <1>7, <2>1, <2>2, <2>3 DEF DatabaseRaises
<1>8. CASE UNCHANGED vars
  BY <1>8, <1>1 DEF Open
<1> QED
  BY <1>2, <1>3, <1>1, <1>5, <1>6, <1>7, <1>8 DEF Next

\* The commit that completes a step is the plan's Finish, with the rows it unblocks as
\* the steps that become active.
LEMMA CommitFinishes ==
  ASSUME TypeOK, SafeInv, TouchedBehind, NEW w \in Workers, Commit(w),
         outcome[w] = "completed"
  PROVE  Dag!Finish(job[w])
<1>1. /\ Open(w) /\ job[w] \in Steps /\ status[job[w]] = "running"
      /\ touched[w] \subseteq Dependents(job[w])
  BY DEF Commit, Open, SafeInv, JobPhases, TouchedBehind
<1>2. \A t \in touched[w] : /\ t \in Steps /\ status[t] = "pending"
                            /\ job[w] \in DependsOn(t)
                            /\ \A d \in DependsOn(t) : d = job[w] \/ status[d] = "completed"
  BY <1>1 DEF SafeInv, OpenTransactions, Dependents, DependsOn
<1>3. status' = [s \in Steps |-> IF s = job[w] THEN "completed"
                                 ELSE IF s \in touched[w] THEN "ready" ELSE status[s]]
  BY DEF Commit, DependentStatus
<1>4. touched[w] \subseteq
        {t \in Steps : /\ [s \in Steps |-> Phase(s)][t] = "waiting"
                       /\ job[w] \in Dag!DependsOn(t)
                       /\ \A d \in Dag!DependsOn(t) :
                             d = job[w] \/ [s \in Steps |-> Phase(s)][d] = "done"}
  BY <1>2 DEF Phase, Dag!DependsOn, DependsOn
<1>5. [s \in Steps |-> Phase(s)]' =
        [t \in Steps |-> IF t = job[w] THEN "done"
                         ELSE IF t \in touched[w] THEN "active"
                         ELSE [s \in Steps |-> Phase(s)][t]]
  BY <1>3 DEF Phase
<1>6. [s \in Steps |-> Phase(s)][job[w]] = "active"
  BY <1>1 DEF Phase
<1> QED
  BY <1>4, <1>5, <1>6 DEF Dag!Finish

\* The commit that fails a step is the plan's Fail: it skips all that waits downstream.
LEMMA CommitFails ==
  ASSUME TypeOK, SafeInv, TouchedBehind, NEW w \in Workers, Commit(w),
         outcome[w] = "failed"
  PROVE  Dag!Fail(job[w])
<1>1. /\ Open(w) /\ job[w] \in Steps /\ status[job[w]] = "running"
      /\ touched[w] \subseteq Dag!Downstream(job[w])
      /\ \A t \in touched[w] : status[t] = "pending"
  BY DEF Commit, Open, SafeInv, JobPhases, OpenTransactions, TouchedBehind
<1>2. status' = [s \in Steps |-> IF s = job[w] THEN "failed"
                                 ELSE IF s \in touched[w] THEN "cancelled" ELSE status[s]]
  BY DEF Commit, DependentStatus
<1>3. \A t \in Steps : t \in Dag!Downstream(job[w]) /\ status[t] = "pending"
                          <=> t \in touched[w]
  BY <1>1, DownstreamTouched
<1>4. \A t \in Steps : [s \in Steps |-> Phase(s)][t] = "waiting" <=> status[t] = "pending"
  BY DEF Phase
<1>5. [s \in Steps |-> Phase(s)]' =
        [t \in Steps |-> IF t = job[w] THEN "failed"
                         ELSE IF t \in Dag!Downstream(job[w])
                                 /\ [s \in Steps |-> Phase(s)][t] = "waiting" THEN "skipped"
                         ELSE [s \in Steps |-> Phase(s)][t]]
  BY <1>2, <1>3, <1>4 DEF Phase
<1>6. [s \in Steps |-> Phase(s)][job[w]] = "active"
  BY <1>1 DEF Phase
<1> QED
  BY <1>5, <1>6 DEF Dag!Fail

LEMMA StepsRefine ==
  ASSUME Faults \subseteq SafeFaults, TypeOK, SafeInv, TouchedBehind, [Next]_vars
  PROVE  [Dag!Next]_([s \in Steps |-> Phase(s)])
<1> USE DEF vars, rowVars, sentVars, txnVars, dispVars, Procs
<1> DEFINE Stutter == [s \in Steps |-> Phase(s)]' = [s \in Steps |-> Phase(s)]
<1>1. status' = status => Stutter
  BY DEF Phase
<1>2. ASSUME NEW p \in Procs, Dispatch(p) PROVE Stutter
  <2>1. CASE ReadDue(p) \/ DispatchEnds(p) \/ \E s \in Steps : Send(p, s)
    BY <2>1, <1>1 DEF ReadDue, DispatchEnds, Send
  <2>2. CASE Claim(p)
    <3>1. \A s \in Steps : Promoted(p)[s] = status[s]
      BY DEF Promoted, SafeInv, NoRecovery
    <3>2. \A s \in Steps : \/ status'[s] = status[s]
                           \/ status[s] = "ready" /\ status'[s] = "running"
      BY <2>2, <3>1 DEF Claim, Claimable
    <3> QED
      BY <3>2 DEF Phase
  <2>3. ASSUME NEW s \in Steps, SendFails(p, s) PROVE Stutter
    <3>1. \A t \in Steps : \/ status'[t] = status[t]
                           \/ status[t] = "running" /\ status'[t] = "ready"
      BY <2>3 DEF SendFails, ReleaseClaim, TypeOK
    <3> QED
      BY <3>1 DEF Phase
  <2> QED
    BY <1>2, <2>1, <2>2, <2>3 DEF Dispatch
<1>3. ASSUME NEW p \in Procs, Crash(p) PROVE Stutter
  BY <1>3, <1>1 DEF Crash
<1>4. ASSUME NEW w \in Workers, Commit(w) PROVE Dag!Next
  <2>1. job[w] \in Steps /\ outcome[w] \in {"completed", "failed"}
    BY <1>4 DEF Commit, SafeInv, JobPhases, Open
  <2> QED
    BY <1>4, <2>1, CommitFinishes, CommitFails DEF Dag!Next
<1>5. ASSUME NEW w \in Workers, Work(w), ~Commit(w) PROVE Stutter
  BY <1>5, <1>1 DEF Work, Receive, ToolSucceeds, ToolFails, ToolFailsRetryably, ToolRaises,
     Write, CheckComplete, Transition, SendSynthesis
<1>6. CASE WatchdogReads \/ WatchdogCommits
  BY <1>6 DEF WatchdogReads, WatchdogCommits, Fault, SafeFaults, SafeInv, NoRecovery
<1>7. ASSUME NEW p \in Procs, DatabaseRaises(p) PROVE Stutter
  BY <1>7, <1>1 DEF DatabaseRaises, JobRaises, ReleaseRaises, ReceiveRaises
<1>8. CASE UNCHANGED vars
  BY <1>8, <1>1
<1> QED
  BY <1>2, <1>3, <1>4, <1>5, <1>6, <1>7, <1>8 DEF Next

\* Whatever the plan, the workers and the number of crashes, exceptions and failed sends,
\* the workers' steps are steps of the abstract plan or invisible to it: each step ends
\* once, and a failure takes everything that waits downstream with it in one instant.
THEOREM StepsImplementDag ==
  ASSUME Faults \subseteq SafeFaults
  PROVE  Spec => ImplementsDag
<1>1. Init => Dag!Init
  BY DEF Init, Phase, Dag!Init, Dag!DependsOn, DependsOn
<1>2. Init => TouchedBehind
  BY DEF Init, TouchedBehind, Open, Procs
<1>3. TypeOK /\ SafeInv /\ TouchedBehind /\ [Next]_vars => TouchedBehind'
  BY NextTouchedBehind
<1>4. TypeOK /\ SafeInv /\ TouchedBehind /\ [Next]_vars
        => [Dag!Next]_([s \in Steps |-> Phase(s)])
  BY StepsRefine
<1> QED
  BY <1>1, <1>2, <1>3, <1>4, TypeCorrect, SafeInvHolds, PTL DEF Spec, ImplementsDag, Dag!Spec
=============================================================================
