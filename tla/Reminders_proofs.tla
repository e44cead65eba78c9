-------------------------- MODULE Reminders_proofs --------------------------
(***************************************************************************)
(* Type correctness and safety of Reminders, for all reminders, tasks,     *)
(* horizons and numbers of faults.                                         *)
(***************************************************************************)
EXTENDS Reminders, TLAPS

\* A fault is counted and takes none back, so that what is only promised while
\* nothing of its kind has happened stays promised at most that long.
LEMMA FaultCounts ==
    ASSUME TypeOK, NEW k \in FaultKinds, Fault(k)
    PROVE  /\ faults' \in [FaultKinds -> Nat]
           /\ faults'[k] # 0
           /\ \A l \in FaultKinds : faults'[l] = 0 => faults[l] = 0
<1>1. faults \in [FaultKinds -> Nat]
  BY DEF TypeOK
<1>2. faults' = [faults EXCEPT ![k] = faults[k] + 1]
  BY DEF Fault
<1> QED
  BY <1>1, <1>2

\* The columns of a row that has ended.
LEMMA EndedColumns ==
    ASSUME NEW v \in Row, NEW s \in {"executed", "cancelled"}
    PROVE  /\ Ended(v, s) \in Row
           /\ Ended(v, s).kind = v.kind
           /\ Ended(v, s).next = v.next
           /\ Ended(v, s).enabled = FALSE
           /\ Ended(v, s).status = s
<1> DEFINE w == [v EXCEPT !.enabled = FALSE]
<1>1. w \in Row /\ w.kind = v.kind /\ w.next = v.next /\ w.enabled = FALSE
  BY DEF Row
<1>2. Ended(v, s) = [w EXCEPT !.status = s]
  BY DEF Ended
<1> HIDE DEF w
<1> QED
  BY <1>1, <1>2 DEF Row

\* The columns of a row with a new time to run at, or none.
LEMMA NextColumns ==
    ASSUME NEW v \in Row, NEW next \in Times \cup {None}
    PROVE  /\ [v EXCEPT !.next = next] \in Row
           /\ [v EXCEPT !.next = next].kind = v.kind
           /\ [v EXCEPT !.next = next].next = next
           /\ [v EXCEPT !.next = next].enabled = v.enabled
           /\ [v EXCEPT !.next = next].status = v.status
BY DEF Row

\* The columns of a row that does not exist, and of one just created.
LEMMA NewColumns ==
    /\ NoRow \in Row /\ NoRow.status = "absent" /\ NoRow.enabled = FALSE /\ NoRow.next = None
    /\ \A kind \in {"once", "cron"}, next \in Times :
         /\ Scheduled(kind, next) \in Row
         /\ Scheduled(kind, next).status = "scheduled"
         /\ Scheduled(kind, next).enabled = TRUE
         /\ Scheduled(kind, next).next = next
BY DEF Row, NoRow, Scheduled

\* What mark_success writes: a reminder meant once has ended, a rule goes on as it
\* was, at a later time.
LEMMA SuccessColumns ==
    ASSUME TypeOK, NEW r \in Reminders, NEW new \in Successes(r)
    PROVE  /\ new \in Row
           /\ new.kind = row[r].kind
           /\ \/ /\ row[r].kind = "once"
                 /\ new.status = "executed" /\ new.enabled = FALSE /\ new.next = None
              \/ /\ row[r].kind = "cron"
                 /\ new.status = row[r].status /\ new.enabled = row[r].enabled
                 /\ new.next \in (now + 1)..Horizon
<1>1. row[r] \in Row /\ (now + 1)..Horizon \subseteq Times
  BY ClockAssumption DEF TypeOK, Times
<1>2. CASE row[r].kind = "once"
  <2> DEFINE e == Ended(row[r], "executed")
  <2>1. new = [e EXCEPT !.next = None]
    BY <1>2 DEF Successes, Executed
  <2>2. /\ e \in Row /\ e.kind = row[r].kind
        /\ e.enabled = FALSE /\ e.status = "executed"
    BY <1>1, EndedColumns
  <2> HIDE DEF e
  <2> QED
    BY <1>2, <2>1, <2>2, NextColumns
<1>3. CASE row[r].kind # "once"
  <2>1. row[r].kind = "cron"
    BY <1>1, <1>3 DEF Row
  <2>2. PICK next \in (now + 1)..Horizon : new = [row[r] EXCEPT !.next = next]
    BY <1>3 DEF Successes, Later
  <2> QED
    BY <1>1, <2>1, <2>2, NextColumns
<1> QED
  BY <1>2, <1>3

\* The history of pushes consists of instants.
LEMMA PushTimes ==
    ASSUME TypeOK, NEW r \in Reminders, NEW i \in DOMAIN pushes[r]
    PROVE  pushes[r][i] \in Nat
<1>1. pushes[r] \in Seq(Times)
  BY DEF TypeOK
<1>2. pushes[r][i] \in Times
  BY <1>1
<1> QED
  BY <1>2, ClockAssumption DEF Times

\* The initial states are well typed: no row, no task and no scan.
LEMMA TypesInit == Init => TypeOK
<1> SUFFICES ASSUME Init PROVE TypeOK
  OBVIOUS
<1>1. NoRow \in Row /\ 0 \in 0..(Horizon - 1)
  BY ClockAssumption, NewColumns
<1>2. [k \in FaultKinds |-> 0] \in [FaultKinds -> Nat] /\ <<>> \in Seq(Times)
  OBVIOUS
<1>3. None \notin Reminders
  BY NoneAssumption
<1> QED
  BY <1>1, <1>2, <1>3 DEF Init, TypeOK

----------------------------------------------------------------------------
(* What all actions of one actor share.                                    *)

\* Nothing but the rest of the process moves when time passes.
LEMMA TickSafe == SafeInv /\ Tick => SafeInv'
<1> SUFFICES ASSUME SafeInv, Tick PROVE SafeInv'
  OBVIOUS
<1>0. now \in Nat /\ now' = now + 1 /\ now' \in 0..(Horizon - 1)
  BY ClockAssumption DEF SafeInv, TypeOK, Tick
<1>1. TypeOK'
  BY <1>0 DEF SafeInv, TypeOK, Tick, taskVars, scanVars
<1>u. UNCHANGED <<row, pc, of, version, phase, left, cur, marks, pushes, told, faults>>
  BY DEF Tick, taskVars, scanVars
<1>2. RowsAgree' /\ OncePerDueTime'
  BY <1>u DEF SafeInv, RowsAgree, Agrees, OncePerDueTime, Certain
<1>3. TasksHold'
  BY <1>u DEF SafeInv, TasksHold, Agrees
<1>4. LockedOnce' /\ AnswersHold'
  BY <1>u DEF SafeInv, LockedOnce, Holds, HeldByTask, AnswersHold, AnswersKept
<1>5. ScanHolds'
  <2>1. \A d \in 0..now : d \in 0..now'
    BY <1>0
  <2> QED
    BY <1>u, <2>1 DEF SafeInv, ScanHolds, InScan, Agrees
<1>6. PushesPrecede'
  <2>1. \A r \in Reminders : \A i \in DOMAIN pushes[r] : pushes[r][i] \in Nat
    <3>1. TypeOK
      BY DEF SafeInv
    <3> QED
      BY <3>1, PushTimes
  <2>2. \A r \in Reminders : \A i \in DOMAIN pushes[r] : pushes[r][i] <= now'
    <3> SUFFICES ASSUME NEW r \in Reminders, NEW i \in DOMAIN pushes[r]
                 PROVE  pushes[r][i] <= now'
      OBVIOUS
    <3>1. pushes[r][i] <= now /\ pushes[r][i] \in Nat
      BY <2>1 DEF SafeInv, PushesPrecede
    <3> QED
      BY <1>0, <3>1
  <2> QED
    BY <1>u, <2>2 DEF SafeInv, PushesPrecede, NotAfter, Before, Certain
<1> QED
  BY <1>1, <1>2, <1>3, <1>4, <1>5, <1>6 DEF SafeInv

\* A new row is not visible yet, and nobody else writes one of that name.
LEMMA CreateSafe ==
    ASSUME SafeInv, NEW t \in Tasks, NEW r \in Reminders, Create(t, r)
    PROVE  SafeInv'
<1>0. PICK kind \in {"once", "cron"}, next \in Times :
         version' = [version EXCEPT ![t] = Scheduled(kind, next)]
  <2>1. now..Horizon \subseteq Times
    BY ClockAssumption DEF SafeInv, TypeOK, Times
  <2> QED
    BY <2>1 DEF Create
<1>a. /\ pc' = [pc EXCEPT ![t] = "wrote"] /\ of' = [of EXCEPT ![t] = r]
      /\ row[r] = NoRow /\ ~HeldByTask(r) /\ pc[t] = "idle"
      /\ UNCHANGED <<now, row, scanVars, pushes, told, faults>>
  BY DEF Create
<1>b. TypeOK
  BY DEF SafeInv
<1>c. Scheduled(kind, next) \in Row /\ version'[t] = Scheduled(kind, next)
  BY <1>0, <1>b, NewColumns DEF TypeOK
<1>1. TypeOK'
  BY <1>0, <1>a, <1>b, <1>c DEF TypeOK, scanVars
<1>2. RowsAgree' /\ OncePerDueTime' /\ PushesPrecede' /\ ScanHolds'
  BY <1>a DEF SafeInv, scanVars, RowsAgree, Agrees, OncePerDueTime, Certain,
              PushesPrecede, NotAfter, Before, ScanHolds, InScan
<1>3. Agrees(version[t], r)'
  <2>1. next # None
    BY NoneAssumption, ClockAssumption DEF Times
  <2> QED
    BY <1>c, <2>1, NewColumns DEF Agrees
<1>4. TasksHold'
  BY <1>0, <1>a, <1>b, <1>c, <1>3, NewColumns DEF SafeInv, TasksHold, TypeOK, Agrees
<1>5. LockedOnce'
  <2>1. marks[r] = NoRow
    BY <1>a, NewColumns DEF SafeInv, ScanHolds, InScan
  <2> QED
    BY <1>a, <1>b, <2>1 DEF SafeInv, LockedOnce, Holds, HeldByTask, TypeOK, scanVars
<1>6. AnswersHold'
  <2>1. r \notin told
    BY <1>a, NewColumns DEF SafeInv, AnswersHold
  <2> QED
    BY <1>a, <1>b, <2>1 DEF SafeInv, AnswersHold, Holds, TypeOK, scanVars, AnswersKept
<1> QED
  BY <1>1, <1>2, <1>4, <1>5, <1>6 DEF SafeInv

\* A query changes nothing that others see.
LEMMA FindActiveSafe ==
    ASSUME SafeInv, NEW t \in Tasks, NEW r \in Reminders, FindActive(t, r)
    PROVE  SafeInv'
<1>a. /\ pc' = [pc EXCEPT ![t] = "found"] /\ of' = [of EXCEPT ![t] = r]
      /\ pc[t] = "idle" /\ row[r].enabled
      /\ UNCHANGED <<now, row, version, scanVars, pushes, told, faults>>
  BY DEF FindActive
<1>b. TypeOK
  BY DEF SafeInv
<1>1. TypeOK'
  BY <1>a, <1>b DEF TypeOK, scanVars
<1>2. RowsAgree' /\ OncePerDueTime' /\ PushesPrecede' /\ ScanHolds'
  BY <1>a DEF SafeInv, scanVars, RowsAgree, Agrees, OncePerDueTime, Certain,
              PushesPrecede, NotAfter, Before, ScanHolds, InScan
<1>3. TasksHold'
  <2>1. row[r].status # "absent"
    BY <1>a DEF SafeInv, RowsAgree, Agrees
  <2> QED
    BY <1>a, <1>b, <2>1 DEF SafeInv, TasksHold, TypeOK, Agrees
<1>4. LockedOnce' /\ AnswersHold'
  BY <1>a, <1>b DEF SafeInv, LockedOnce, Holds, HeldByTask, TypeOK, scanVars, AnswersHold,
                    AnswersKept
<1> QED
  BY <1>1, <1>2, <1>3, <1>4 DEF SafeInv

\* A cancellation locks the row it found, whatever has become of it meanwhile.
LEMMA CancelSafe ==
    ASSUME SafeInv, NEW t \in Tasks, Cancel(t)
    PROVE  SafeInv'
<1> DEFINE r == of[t]
<1> DEFINE new == Ended(row[r], "cancelled")
<1>a. /\ pc' = [pc EXCEPT ![t] = "wrote"] /\ version' = [version EXCEPT ![t] = new]
      /\ pc[t] = "found" /\ ~HeldByTask(r) /\ marks[r] = NoRow
      /\ UNCHANGED <<now, row, of, phase, left, cur, marks, pushes, told, faults>>
  BY DEF Cancel, scanVars
<1>b. TypeOK
  BY DEF SafeInv
<1>c. r \in Reminders /\ row[r] \in Row
  BY <1>a, <1>b DEF TypeOK
<1>d. /\ new \in Row /\ new.kind = row[r].kind /\ new.next = row[r].next
      /\ new.enabled = FALSE /\ new.status = "cancelled"
  BY <1>c, EndedColumns
<1>e. row[r].status # "absent"
  BY <1>a DEF SafeInv, TasksHold
<1> HIDE DEF r, new
<1>f. of[t] = r /\ version'[t] = new
  BY <1>a, <1>b DEF r, TypeOK
<1>1. TypeOK'
  BY <1>a, <1>b, <1>d DEF TypeOK
<1>2. RowsAgree' /\ OncePerDueTime' /\ PushesPrecede' /\ ScanHolds'
  BY <1>a DEF SafeInv, RowsAgree, Agrees, OncePerDueTime, Certain,
              PushesPrecede, NotAfter, Before, ScanHolds, InScan
<1>3. Agrees(version[t], of[t])'
  BY <1>a, <1>c, <1>d, <1>e, <1>f DEF SafeInv, RowsAgree, Agrees
<1>4. TasksHold'
  <2> SUFFICES ASSUME NEW u \in Tasks
               PROVE  /\ pc'[u] = "found" => row'[of'[u]].status # "absent"
                      /\ pc'[u] \in {"wrote", "replied"} =>
                           /\ Agrees(version[u], of[u])'
                           /\ \/ version'[u].status = "scheduled" /\ row'[of'[u]] = NoRow
                              \/ /\ version'[u].status = "cancelled"
                                 /\ version'[u].next = row'[of'[u]].next
                                 /\ row'[of'[u]].status # "absent"
    BY DEF TasksHold
  <2>1. CASE u = t
    BY <1>a, <1>b, <1>d, <1>e, <1>f, <1>3, <2>1 DEF TypeOK
  <2>2. CASE u # t
    BY <1>a, <1>b, <2>2 DEF SafeInv, TasksHold, TypeOK, Agrees
  <2> QED
    BY <2>1, <2>2
<1>5. LockedOnce'
  BY <1>a, <1>b, <1>f DEF SafeInv, LockedOnce, Holds, HeldByTask, TypeOK
<1>6. AnswersHold'
  BY <1>a, <1>b DEF SafeInv, AnswersHold, Holds, TypeOK, AnswersKept
<1> QED
  BY <1>1, <1>2, <1>4, <1>5, <1>6 DEF SafeInv

\* The user may be told what the transaction holds.
LEMMA ReplySafe ==
    ASSUME SafeInv, NEW t \in Tasks, Reply(t)
    PROVE  SafeInv'
<1>a. /\ pc' = [pc EXCEPT ![t] = "replied"] /\ pc[t] = "wrote"
      /\ \/ version[t].status = "cancelled" /\ told' = told \cup {of[t]}
         \/ told' = told
      /\ UNCHANGED <<now, row, of, version, phase, left, cur, marks, pushes, faults>>
  BY DEF Reply, scanVars
<1>b. TypeOK /\ of[t] \in Reminders
  BY <1>a DEF SafeInv, TypeOK
<1>1. TypeOK'
  BY <1>a, <1>b DEF TypeOK
<1>2. RowsAgree' /\ OncePerDueTime' /\ PushesPrecede' /\ ScanHolds'
  BY <1>a DEF SafeInv, RowsAgree, Agrees, OncePerDueTime, Certain,
              PushesPrecede, NotAfter, Before, ScanHolds, InScan
<1>3. \A u \in Tasks :
        /\ pc'[u] \in {"wrote", "replied"} <=> pc[u] \in {"wrote", "replied"}
        /\ pc'[u] = "found" => pc[u] = "found"
  BY <1>a, <1>b DEF TypeOK
<1>4. TasksHold'
  BY <1>a, <1>3 DEF SafeInv, TasksHold, Agrees
<1>5. LockedOnce'
  BY <1>a, <1>3 DEF SafeInv, LockedOnce, Holds, HeldByTask
<1>6. AnswersHold'
  <2>1. version[t].status = "cancelled" => row[of[t]].status # "absent"
    BY <1>a, NewColumns DEF SafeInv, TasksHold
  <2>2. Holds(t, of[t])'
    BY <1>a, <1>b DEF Holds, TypeOK
  <2>3. \A q \in told : AnswersKept' /\ (\E u \in Tasks : Holds(u, q))
                          => \E u \in Tasks : Holds(u, q)'
    BY <1>a, <1>3 DEF Holds
  <2> QED
    BY <1>a, <2>1, <2>2, <2>3 DEF SafeInv, AnswersHold, AnswersKept
<1> QED
  BY <1>1, <1>2, <1>4, <1>5, <1>6 DEF SafeInv

\* What a commit writes is locked, so that no other transaction meant that row.
LEMMA TaskCommitsSafe ==
    ASSUME SafeInv, NEW t \in Tasks, TaskCommits(t)
    PROVE  SafeInv'
<1> DEFINE r == of[t]
<1> DEFINE new == version[t]
<1>a. /\ pc' = [pc EXCEPT ![t] = "idle"] /\ of' = [of EXCEPT ![t] = None]
      /\ version' = [version EXCEPT ![t] = NoRow] /\ pc[t] = "replied"
      /\ row' = [row EXCEPT ![r] = new]
      /\ UNCHANGED <<now, phase, left, cur, marks, pushes, told, faults>>
  BY DEF TaskCommits, TaskIdle, scanVars
<1>b. TypeOK
  BY DEF SafeInv
<1>c. r \in Reminders /\ new \in Row
  BY <1>a, <1>b DEF TypeOK
<1>d. Holds(t, r) /\ HeldByTask(r)
  BY <1>a DEF Holds, HeldByTask
<1>e. marks[r] = NoRow /\ \A u \in Tasks : Holds(u, r) => u = t
  BY <1>c, <1>d DEF SafeInv, LockedOnce
<1>f. /\ Agrees(new, r)
      /\ \/ new.status = "scheduled" /\ row[r] = NoRow
         \/ new.status = "cancelled" /\ new.next = row[r].next /\ row[r].status # "absent"
  BY <1>a DEF SafeInv, TasksHold
<1>g. new # NoRow /\ new.status # "absent"
  BY <1>f, NewColumns
<1> HIDE DEF r, new
<1>h. row'[r] = new /\ \A q \in Reminders \ {r} : row'[q] = row[q]
  BY <1>a, <1>b, <1>c DEF TypeOK
<1>1. TypeOK'
  BY <1>a, <1>b, <1>c, NewColumns DEF TypeOK
<1>2. RowsAgree'
  BY <1>a, <1>f, <1>h DEF SafeInv, RowsAgree, Agrees
<1>3. OncePerDueTime'
  BY <1>a DEF SafeInv, OncePerDueTime, Certain
<1>4. TasksHold'
  <2> SUFFICES ASSUME NEW u \in Tasks
               PROVE  /\ pc'[u] = "found" => row'[of'[u]].status # "absent"
                      /\ pc'[u] \in {"wrote", "replied"} =>
                           /\ Agrees(version[u], of[u])'
                           /\ \/ version'[u].status = "scheduled" /\ row'[of'[u]] = NoRow
                              \/ /\ version'[u].status = "cancelled"
                                 /\ version'[u].next = row'[of'[u]].next
                                 /\ row'[of'[u]].status # "absent"
    BY DEF TasksHold
  <2>1. CASE u = t
    BY <1>a, <1>b, <2>1 DEF TypeOK
  <2>2. CASE u # t
    <3>1. pc'[u] = pc[u] /\ of'[u] = of[u] /\ version'[u] = version[u]
      BY <1>a, <1>b, <2>2 DEF TypeOK
    <3>2. pc[u] # "idle" => of[u] \in Reminders
      BY <1>b DEF TypeOK
    <3>3. pc[u] \in {"wrote", "replied"} => of[u] # r
      BY <1>e, <2>2 DEF Holds
    <3> QED
      BY <1>a, <1>g, <1>h, <3>1, <3>2, <3>3 DEF SafeInv, TasksHold, Agrees
  <2> QED
    BY <2>1, <2>2
<1>i. \A u \in Tasks, q \in Reminders : Holds(u, q)' <=> Holds(u, q) /\ q # r
  BY <1>a, <1>b, <1>d, <1>e DEF Holds, TypeOK
<1>5. LockedOnce'
  BY <1>a, <1>i DEF SafeInv, LockedOnce, HeldByTask
<1>6. ScanHolds'
  <2>1. \A q \in Reminders : q \in left => row'[q].next = row[q].next
    BY <1>f, <1>h, NewColumns DEF SafeInv, ScanHolds, InScan
  <2> QED
    BY <1>a, <1>g, <1>h, <2>1 DEF SafeInv, ScanHolds, InScan, Agrees
<1>7. AnswersHold'
  <2>1. r \in told => ~new.enabled
    BY <1>f, NewColumns DEF SafeInv, AnswersHold, Agrees
  <2>2. told \subseteq Reminders
    BY <1>b DEF TypeOK
  <2>3. ASSUME NEW q \in told
        PROVE  /\ row'[q].status # "absent"
               /\ AnswersKept => \/ \E u \in Tasks : Holds(u, q)'
                                 \/ ~row'[q].enabled /\ ~marks'[q].enabled
    <3>1. CASE q = r
      BY <1>a, <1>e, <1>g, <1>h, <2>1, <3>1, NewColumns
    <3>2. CASE q # r
      BY <1>a, <1>h, <1>i, <2>2, <3>2 DEF SafeInv, AnswersHold
    <3> QED
      BY <3>1, <3>2
  <2> QED
    BY <1>a, <2>3 DEF AnswersHold, AnswersKept
<1>8. PushesPrecede'
  <2>1. row[r] = NoRow => pushes[r] = <<>>
    BY <1>c DEF SafeInv, PushesPrecede
  <2>2. NotAfter(new, r)
    BY <1>c, <1>f, <2>1 DEF SafeInv, PushesPrecede, NotAfter
  <2>3. Certain /\ ~(cur = r /\ phase = "succeeded") => Before(new, r)
    BY <1>c, <1>e, <1>f, <2>1 DEF SafeInv, PushesPrecede, Before
  <2> QED
    BY <1>a, <1>e, <1>g, <1>h, <2>2, <2>3
       DEF SafeInv, PushesPrecede, NotAfter, Before, Certain
<1> QED
  BY <1>1, <1>2, <1>3, <1>4, <1>5, <1>6, <1>7, <1>8 DEF SafeInv

\* What a task that fails had written was seen by nobody.
LEMMA TaskFailsSafe ==
    ASSUME SafeInv, NEW t \in Tasks, TaskFails(t)
    PROVE  SafeInv'
<1>a. /\ pc' = [pc EXCEPT ![t] = "idle"] /\ of' = [of EXCEPT ![t] = None]
      /\ version' = [version EXCEPT ![t] = NoRow]
      /\ UNCHANGED <<now, row, phase, left, cur, marks, pushes, told>>
  BY DEF TaskFails, TaskIdle, scanVars
<1>b. TypeOK
  BY DEF SafeInv
<1>c. /\ faults' \in [FaultKinds -> Nat] /\ faults'["task fails"] # 0
      /\ \A l \in FaultKinds : faults'[l] = 0 => faults[l] = 0
  BY <1>b, FaultCounts DEF TaskFails, FaultKinds
<1>d. (Certain' => Certain) /\ ~AnswersKept'
  BY <1>c DEF Certain, AnswersKept, FaultKinds
<1>1. TypeOK'
  BY <1>a, <1>b, <1>c, NewColumns DEF TypeOK
<1>2. RowsAgree' /\ OncePerDueTime' /\ ScanHolds'
  BY <1>a, <1>d DEF SafeInv, RowsAgree, Agrees, OncePerDueTime, ScanHolds, InScan
<1>3. PushesPrecede'
  BY <1>a, <1>d DEF SafeInv, PushesPrecede, NotAfter, Before
<1>4. TasksHold'
  BY <1>a, <1>b DEF SafeInv, TasksHold, TypeOK, Agrees
<1>5. LockedOnce'
  BY <1>a, <1>b DEF SafeInv, LockedOnce, Holds, HeldByTask, TypeOK
<1>6. AnswersHold'
  BY <1>a, <1>d DEF SafeInv, AnswersHold
<1> QED
  BY <1>1, <1>2, <1>3, <1>4, <1>5, <1>6 DEF SafeInv

\* The scan selects what is enabled and nobody's business in the scan before.
LEMMA ScanBeginsSafe == SafeInv /\ ScanBegins => SafeInv'
<1> SUFFICES ASSUME SafeInv, ScanBegins PROVE SafeInv'
  OBVIOUS
<1>a. /\ phase = "idle" /\ phase' = "pushing"
      /\ left' = {r \in Reminders : Due(r)}
      /\ UNCHANGED <<now, row, pc, of, version, cur, marks, pushes, told, faults>>
  BY DEF ScanBegins, taskVars
<1>b. TypeOK
  BY DEF SafeInv
<1>c. cur \notin Reminders /\ \A r \in Reminders : marks[r] = NoRow
  BY <1>a, <1>b DEF TypeOK, SafeInv, ScanHolds, InScan
<1>1. TypeOK'
  BY <1>a, <1>b, <1>c DEF TypeOK
<1>2. RowsAgree' /\ OncePerDueTime' /\ TasksHold'
  BY <1>a DEF SafeInv, RowsAgree, Agrees, OncePerDueTime, Certain, TasksHold
<1>3. LockedOnce' /\ AnswersHold'
  BY <1>a DEF SafeInv, LockedOnce, Holds, HeldByTask, AnswersHold, AnswersKept
<1>4. ScanHolds'
  <2>1. ASSUME NEW r \in Reminders, Due(r)
        PROVE  row[r].status # "absent" /\ row[r].next \in 0..now
    <3>1. row[r].next \in Nat /\ row[r].next <= now /\ now \in Nat
      BY <1>b, <2>1, ClockAssumption DEF Due, TypeOK, Row, Times
    <3> QED
      BY <2>1, <3>1 DEF Due
  <2> QED
    BY <1>a, <1>c, <2>1 DEF ScanHolds, InScan
<1>5. PushesPrecede'
  BY <1>a DEF SafeInv, PushesPrecede, NotAfter, Before, Certain
<1> QED
  BY <1>1, <1>2, <1>3, <1>4, <1>5 DEF SafeInv

\* What is pushed goes at the end of a reminder's history.
LEMMA PushAppends ==
    ASSUME SafeInv, NEW r \in left, GroupReceives(r)
    PROVE  /\ r \in Reminders /\ row[r].next \in Nat /\ row[r].next <= now
           /\ pushes' \in [Reminders -> Seq(Times)]
           /\ \A q \in Reminders \ {r} : pushes'[q] = pushes[q]
           /\ pushes'[r] # <<>>
           /\ DOMAIN pushes'[r] = 1..(Len(pushes[r]) + 1)
           /\ DOMAIN pushes[r] = 1..Len(pushes[r]) /\ Len(pushes[r]) \in Nat
           /\ \A i \in DOMAIN pushes[r] : pushes'[r][i] = pushes[r][i] /\ pushes[r][i] \in Nat
           /\ pushes'[r][Len(pushes[r]) + 1] = row[r].next
<1>1. TypeOK /\ r \in Reminders
  BY DEF SafeInv, TypeOK
<1>2. row[r].next \in Times \cap Nat /\ row[r].next <= now
  <2>1. row[r].next \in 0..now /\ now \in 0..(Horizon - 1)
    BY <1>1 DEF SafeInv, ScanHolds, TypeOK
  <2> QED
    BY <2>1, ClockAssumption DEF Times
<1>3. pushes[r] \in Seq(Times) /\ pushes'[r] = Append(pushes[r], row[r].next)
  BY <1>1 DEF GroupReceives, TypeOK
<1>4. Append(pushes[r], row[r].next) \in Seq(Times)
  BY <1>2, <1>3
<1>5. \A i \in DOMAIN pushes[r] : pushes[r][i] \in Nat
  BY <1>1, PushTimes
<1>6. /\ Len(pushes[r]) \in Nat /\ DOMAIN pushes[r] = 1..Len(pushes[r])
      /\ DOMAIN pushes'[r] = 1..(Len(pushes[r]) + 1)
      /\ \A i \in 1..Len(pushes[r]) : pushes'[r][i] = pushes[r][i]
      /\ pushes'[r][Len(pushes[r]) + 1] = row[r].next
      /\ pushes'[r] # <<>>
  BY <1>2, <1>3
<1>7. /\ pushes' \in [Reminders -> Seq(Times)]
      /\ \A q \in Reminders \ {r} : pushes'[q] = pushes[q]
  BY <1>1, <1>4 DEF GroupReceives, TypeOK
<1> QED
  BY <1>1, <1>2, <1>5, <1>6, <1>7

\* A push, whatever comes of it: its due time is not earlier than those before, and
\* is later if the scan has nothing unrecorded behind it.
LEMMA PushSafe ==
    ASSUME SafeInv, NEW r \in Reminders,
           Push(r) \/ PushRefused(r) \/ PushAnswerLost(r)
    PROVE  SafeInv'
<1>a. /\ phase = "pushing" /\ r \in left /\ left' = left \ {r} /\ cur' = r
      /\ phase' \in {"succeeded", "failed"}
      /\ UNCHANGED <<now, row, pc, of, version, marks, told>>
  BY DEF Push, PushRefused, PushAnswerLost, TakeUp, Earliest, taskVars
<1>b. TypeOK
  BY DEF SafeInv
<1>c. /\ faults' \in [FaultKinds -> Nat]
      /\ \A l \in FaultKinds : faults'[l] = 0 => faults[l] = 0
  <2>1. CASE Push(r)
    BY <1>b, <2>1 DEF Push, TypeOK
  <2>2. CASE PushRefused(r)
    BY <1>b, <2>2, FaultCounts DEF PushRefused, FaultKinds
  <2>3. CASE PushAnswerLost(r)
    BY <1>b, <2>3, FaultCounts DEF PushAnswerLost, FaultKinds
  <2> QED
    BY <2>1, <2>2, <2>3
<1>d. (Certain' => Certain) /\ (AnswersKept' => AnswersKept)
  BY <1>c DEF Certain, AnswersKept, FaultKinds
<1>e. \/ pushes' = pushes /\ phase' = "failed"
      \/ GroupReceives(r) /\ (phase' = "succeeded" \/ ~Certain')
  <2>1. CASE Push(r)
    BY <2>1 DEF Push, TakeUp
  <2>2. CASE PushRefused(r)
    BY <2>2 DEF PushRefused, TakeUp
  <2>3. CASE PushAnswerLost(r)
    <3>1. faults'["answer lost"] # 0
      BY <1>b, <2>3, FaultCounts DEF PushAnswerLost, FaultKinds
    <3> QED
      BY <2>3, <3>1 DEF PushAnswerLost, Certain
  <2> QED
    BY <2>1, <2>2, <2>3
<1>f. /\ cur \notin Reminders /\ marks[r] = NoRow
      /\ row[r].status # "absent" /\ row[r].next \in 0..now
  BY <1>a, <1>b DEF TypeOK, SafeInv, ScanHolds, InScan
<1>g. /\ pushes' \in [Reminders -> Seq(Times)]
      /\ \A q \in Reminders \ {r} : pushes'[q] = pushes[q]
      /\ \A q \in Reminders : pushes[q] # <<>> => pushes'[q] # <<>>
      /\ phase' = "succeeded" => pushes'[r] # <<>>
  <2>1. CASE pushes' = pushes /\ phase' = "failed"
    BY <1>b, <2>1 DEF TypeOK
  <2>2. CASE GroupReceives(r)
    BY <1>a, <2>2, PushAppends
  <2> QED
    BY <1>e, <2>1, <2>2
<1>1. TypeOK'
  BY <1>a, <1>b, <1>c, <1>g DEF TypeOK
<1>2. RowsAgree'
  BY <1>a, <1>g DEF SafeInv, RowsAgree, Agrees
<1>3. OncePerDueTime'
  <2>1. CASE pushes' = pushes
    BY <1>d, <2>1 DEF SafeInv, OncePerDueTime
  <2>2. CASE GroupReceives(r)
    <3>1. NotAfter(row[r], r) /\ (Certain' => Before(row[r], r))
      BY <1>d, <1>f DEF SafeInv, PushesPrecede
    <3>2. row[r].next # None
      BY <1>a, <2>2, PushAppends, NoneAssumption
    <3> SUFFICES ASSUME NEW q \in Reminders, NEW i \in DOMAIN pushes'[q],
                        NEW j \in DOMAIN pushes'[q], i < j
                 PROVE  /\ pushes'[q][i] <= pushes'[q][j]
                        /\ Certain' => pushes'[q][i] < pushes'[q][j]
      BY DEF OncePerDueTime
    <3>3. CASE q # r
      BY <1>d, <1>g, <3>3 DEF SafeInv, OncePerDueTime
    <3>4. CASE q = r /\ j \in DOMAIN pushes[r]
      <4>1. i \in DOMAIN pushes[r]
        BY <1>a, <2>2, <3>4, PushAppends
      <4> QED
        BY <1>a, <1>d, <2>2, <3>4, <4>1, PushAppends DEF SafeInv, OncePerDueTime
    <3>5. CASE q = r /\ j \notin DOMAIN pushes[r]
      <4>1. j = Len(pushes[r]) + 1 /\ i \in DOMAIN pushes[r]
        BY <1>a, <2>2, <3>5, PushAppends
      <4>2. pushes'[r][j] = row[r].next /\ pushes'[r][i] = pushes[r][i]
        BY <1>a, <2>2, <4>1, PushAppends
      <4> QED
        BY <3>1, <3>2, <3>5, <4>1, <4>2 DEF NotAfter, Before
    <3> QED
      BY <3>3, <3>4, <3>5
  <2> QED
    BY <1>e, <2>1, <2>2
<1>4. TasksHold'
  <2>1. \A t \in Tasks : pc[t] # "idle" => of[t] \in Reminders
    BY <1>b DEF TypeOK
  <2> QED
    BY <1>a, <1>g, <2>1 DEF SafeInv, TasksHold, Agrees
<1>5. LockedOnce' /\ AnswersHold'
  BY <1>a, <1>d DEF SafeInv, LockedOnce, Holds, HeldByTask, AnswersHold
<1>6. ScanHolds'
  BY <1>a, <1>f, <1>g DEF SafeInv, ScanHolds, InScan, Agrees
<1>7. PushesPrecede'
  <2> SUFFICES ASSUME NEW q \in Reminders
               PROVE  /\ row[q] = NoRow => pushes'[q] = <<>>
                      /\ \A i \in DOMAIN pushes'[q] : pushes'[q][i] <= now
                      /\ NotAfter(row[q], q)' /\ NotAfter(marks[q], q)'
                      /\ Certain' =>
                           /\ marks[q] # NoRow => Before(marks[q], q)'
                           /\ marks[q] = NoRow /\ ~(cur' = q /\ phase' = "succeeded")
                                => Before(row[q], q)'
    BY <1>a DEF PushesPrecede, NotAfter, Before
  <2>1. CASE pushes'[q] = pushes[q] /\ (q = r => phase' = "failed")
    BY <1>a, <1>d, <1>f, <2>1 DEF SafeInv, PushesPrecede, NotAfter, Before
  <2>2. CASE q = r /\ GroupReceives(r) /\ (phase' = "succeeded" \/ ~Certain')
    <3>1. row[r] # NoRow
      BY <1>f, NewColumns
    <3>2. NotAfter(marks[r], r)'
      BY <1>a, <1>f, NewColumns DEF NotAfter
    <3>3. \A i \in DOMAIN pushes'[r] : pushes'[r][i] <= now /\ pushes'[r][i] <= row[r].next
      <4> SUFFICES ASSUME NEW i \in DOMAIN pushes'[r]
                   PROVE  pushes'[r][i] <= now /\ pushes'[r][i] <= row[r].next
        OBVIOUS
      <4>1. row[r].next # None /\ NotAfter(row[r], r)
        BY <1>a, <2>2, PushAppends, NoneAssumption DEF SafeInv, PushesPrecede
      <4>2. CASE i \in DOMAIN pushes[r]
        BY <1>a, <2>2, <4>1, <4>2, PushAppends DEF SafeInv, PushesPrecede, NotAfter
      <4>3. CASE i \notin DOMAIN pushes[r]
        <5>1. i = Len(pushes[r]) + 1 /\ row[r].next \in Nat /\ row[r].next <= now
          BY <1>a, <2>2, <4>3, PushAppends
        <5>2. pushes'[r][i] = row[r].next
          BY <1>a, <2>2, <5>1, PushAppends
        <5> QED
          BY <5>1, <5>2
      <4> QED
        BY <4>2, <4>3
    <3> QED
      BY <1>a, <1>f, <2>2, <3>1, <3>2, <3>3 DEF NotAfter
  <2> QED
    BY <1>e, <1>g, <2>1, <2>2
<1> QED
  BY <1>1, <1>2, <1>3, <1>4, <1>5, <1>6, <1>7 DEF SafeInv

\* What is needed of a mark: a row that fits together, is not enabled again, and
\* whose next time is not before what was pushed.
LEMMA MarkSafe ==
    ASSUME SafeInv, cur \in Reminders, ~HeldByTask(cur),
           NEW new \in Row, marks' = [marks EXCEPT ![cur] = new],
           phase' = "pushing", cur' = None,
           UNCHANGED <<now, row, taskVars, left, pushes, told, faults>>,
           new.status # "absent", Agrees(new, cur), ~row[cur].enabled => ~new.enabled,
           NotAfter(new, cur), Certain => Before(new, cur)
    PROVE  SafeInv'
<1>a. UNCHANGED <<now, row, pc, of, version, left, pushes, told, faults>>
  BY DEF taskVars
<1>b. TypeOK
  BY DEF SafeInv
<1>c. cur' \notin Reminders
  BY NoneAssumption
<1>d. /\ cur \notin left /\ row[cur].status # "absent"
      /\ marks'[cur] = new /\ \A q \in Reminders \ {cur} : marks'[q] = marks[q]
      /\ new # NoRow
  BY <1>b, NewColumns DEF SafeInv, ScanHolds, InScan, TypeOK
<1>1. TypeOK'
  BY <1>a, <1>b, <1>c DEF TypeOK
<1>2. RowsAgree' /\ OncePerDueTime' /\ TasksHold'
  <2>1. RowsAgree'
    BY <1>a DEF SafeInv, RowsAgree, Agrees
  <2>2. OncePerDueTime'
    BY <1>a DEF SafeInv, OncePerDueTime, Certain
  <2>3. TasksHold'
    BY <1>a DEF SafeInv, TasksHold, Agrees
  <2> QED
    BY <2>1, <2>2, <2>3
<1>3. LockedOnce'
  BY <1>a, <1>d DEF SafeInv, LockedOnce, Holds, HeldByTask
<1>4. ScanHolds'
  BY <1>a, <1>c, <1>d DEF SafeInv, ScanHolds, InScan, Agrees
<1>5. AnswersHold'
  <2> SUFFICES ASSUME NEW q \in told, AnswersKept
               PROVE  \/ \E t \in Tasks : Holds(t, q)
                      \/ ~row[q].enabled /\ ~marks'[q].enabled
    BY <1>a DEF SafeInv, AnswersHold, AnswersKept, Holds
  <2>1. q \in Reminders
    BY <1>b DEF TypeOK
  <2>2. CASE q = cur
    BY <1>d, <2>2 DEF SafeInv, AnswersHold, HeldByTask
  <2>3. CASE q # cur
    BY <1>d, <2>1, <2>3 DEF SafeInv, AnswersHold
  <2> QED
    BY <2>2, <2>3
<1>6. PushesPrecede'
  <2> SUFFICES ASSUME NEW q \in Reminders
               PROVE  /\ row[q] = NoRow => pushes[q] = <<>>
                      /\ \A i \in DOMAIN pushes[q] : pushes[q][i] <= now
                      /\ NotAfter(row[q], q) /\ NotAfter(marks'[q], q)
                      /\ Certain =>
                           /\ marks'[q] # NoRow => Before(marks'[q], q)
                           /\ marks'[q] = NoRow => Before(row[q], q)
    BY <1>a, <1>c DEF PushesPrecede, NotAfter, Before, Certain
  <2>1. CASE q = cur
    BY <1>d, <2>1 DEF SafeInv, PushesPrecede
  <2>2. CASE q # cur
    BY <1>d, <2>2 DEF SafeInv, PushesPrecede
  <2> QED
    BY <2>1, <2>2
<1> QED
  BY <1>1, <1>2, <1>3, <1>4, <1>5, <1>6 DEF SafeInv

\* A reminder meant once has ended; the next time of a rule is later than now, and
\* so than all pushes.
LEMMA MarkSuccessSafe == SafeInv /\ MarkSuccess => SafeInv'
<1> SUFFICES ASSUME SafeInv, MarkSuccess PROVE SafeInv'
  OBVIOUS
<1>a. TypeOK /\ cur \in Reminders /\ pushes[cur] # <<>>
  BY DEF SafeInv, TypeOK, ScanHolds, MarkSuccess
<1>b. PICK new \in Successes(cur) : marks' = [marks EXCEPT ![cur] = new]
  BY DEF MarkSuccess
<1>c. /\ new \in Row /\ new.kind = row[cur].kind
      /\ \/ /\ row[cur].kind = "once"
            /\ new.status = "executed" /\ new.enabled = FALSE /\ new.next = None
         \/ /\ row[cur].kind = "cron"
            /\ new.status = row[cur].status /\ new.enabled = row[cur].enabled
            /\ new.next \in (now + 1)..Horizon
  BY <1>a, <1>b, SuccessColumns
<1>d. row[cur].status # "absent" /\ Agrees(row[cur], cur)
  BY <1>a DEF SafeInv, ScanHolds, InScan, RowsAgree
<1>e. CASE row[cur].kind = "once"
  <2>1. Agrees(new, cur) /\ new.status # "absent"
    BY <1>a, <1>c, <1>e DEF Agrees
  <2>2. ~new.enabled /\ NotAfter(new, cur) /\ Before(new, cur)
    BY <1>c, <1>e DEF NotAfter, Before
  <2> QED
    BY <1>a, <1>b, <1>c, <2>1, <2>2, MarkSafe DEF MarkSuccess
<1>f. CASE row[cur].kind = "cron"
  <2>1. new.next \in Nat /\ new.next > now /\ new.next # None /\ now \in Nat
    BY <1>a, <1>c, <1>f, ClockAssumption, NoneAssumption DEF TypeOK
  <2>2. Agrees(new, cur) /\ new.status # "absent"
    BY <1>c, <1>d, <1>f, <2>1 DEF Agrees
  <2>3. \A i \in DOMAIN pushes[cur] : pushes[cur][i] \in Nat /\ pushes[cur][i] <= now
    BY <1>a, PushTimes DEF SafeInv, PushesPrecede
  <2>4. NotAfter(new, cur) /\ Before(new, cur)
    BY <2>1, <2>3 DEF NotAfter, Before
  <2> QED
    BY <1>a, <1>b, <1>c, <1>f, <2>2, <2>4, MarkSafe DEF MarkSuccess
<1> QED
  BY <1>c, <1>e, <1>f

\* A failure leaves the reminder as it is, with the same time to run at.
LEMMA MarkFailedSafe == SafeInv /\ MarkFailed => SafeInv'
<1> SUFFICES ASSUME SafeInv, MarkFailed PROVE SafeInv'
  OBVIOUS
<1>a. TypeOK /\ cur \in Reminders
  BY DEF SafeInv, TypeOK, MarkFailed
<1>b. row[cur] \in Row /\ row[cur].status # "absent" /\ Agrees(row[cur], cur)
  BY <1>a DEF SafeInv, ScanHolds, InScan, RowsAgree, TypeOK
<1>c. NotAfter(row[cur], cur) /\ (Certain => Before(row[cur], cur))
  BY <1>a DEF SafeInv, ScanHolds, PushesPrecede, MarkFailed
<1> QED
  BY <1>a, <1>b, <1>c, MarkSafe DEF MarkFailed

\* The commit makes the marks the rows; tasks hold none of these.
LEMMA ScanCommitsSafe == SafeInv /\ ScanCommits => SafeInv'
<1> SUFFICES ASSUME SafeInv, ScanCommits PROVE SafeInv'
  OBVIOUS
<1>a. /\ phase = "pushing" /\ left = {} /\ phase' = "idle" /\ left' = {} /\ cur' = None
      /\ row' = [r \in Reminders |-> IF marks[r] = NoRow THEN row[r] ELSE marks[r]]
      /\ marks' = [r \in Reminders |-> NoRow]
      /\ UNCHANGED <<now, pc, of, version, pushes, told, faults>>
  BY DEF ScanCommits, ScanIdle, taskVars
<1>b. TypeOK
  BY DEF SafeInv
<1>c. cur' \notin Reminders /\ cur \notin Reminders
  BY <1>a, <1>b, NoneAssumption DEF TypeOK
<1>d. \A r \in Reminders :
        \/ marks[r] = NoRow /\ row'[r] = row[r]
        \/ /\ marks[r] # NoRow /\ row'[r] = marks[r]
           /\ marks[r].status # "absent" /\ row[r].status # "absent"
           /\ Agrees(marks[r], r) /\ ~HeldByTask(r)
  BY <1>a DEF SafeInv, ScanHolds, InScan, LockedOnce
<1>1. TypeOK'
  BY <1>a, <1>b, <1>c, NewColumns DEF TypeOK
<1>2. RowsAgree'
  BY <1>a, <1>d DEF SafeInv, RowsAgree, Agrees
<1>3. OncePerDueTime'
  BY <1>a DEF SafeInv, OncePerDueTime, Certain
<1>4. TasksHold'
  <2> SUFFICES ASSUME NEW t \in Tasks
               PROVE  /\ pc[t] = "found" => row'[of[t]].status # "absent"
                      /\ pc[t] \in {"wrote", "replied"} =>
                           /\ Agrees(version[t], of[t])
                           /\ \/ version[t].status = "scheduled" /\ row'[of[t]] = NoRow
                              \/ /\ version[t].status = "cancelled"
                                 /\ version[t].next = row'[of[t]].next
                                 /\ row'[of[t]].status # "absent"
    BY <1>a DEF TasksHold, Agrees
  <2>1. pc[t] # "idle" => of[t] \in Reminders
    BY <1>b DEF TypeOK
  <2>2. CASE pc[t] = "found"
    BY <1>d, <2>1, <2>2 DEF SafeInv, TasksHold
  <2>3. CASE pc[t] \in {"wrote", "replied"}
    <3>1. HeldByTask(of[t])
      BY <2>3 DEF HeldByTask, Holds
    <3>2. row'[of[t]] = row[of[t]]
      BY <1>d, <2>1, <2>3, <3>1
    <3> QED
      BY <2>3, <3>2 DEF SafeInv, TasksHold
  <2> QED
    BY <2>2, <2>3
<1>5. LockedOnce'
  BY <1>a DEF SafeInv, LockedOnce, Holds, HeldByTask
<1>6. ScanHolds'
  BY <1>a, <1>c DEF ScanHolds, InScan
<1>7. AnswersHold'
  <2> SUFFICES ASSUME NEW q \in told
               PROVE  /\ row'[q].status # "absent"
                      /\ AnswersKept => \/ \E t \in Tasks : Holds(t, q)
                                        \/ ~row'[q].enabled /\ ~marks'[q].enabled
    BY <1>a DEF AnswersHold, AnswersKept, Holds
  <2>1. q \in Reminders /\ marks'[q] = NoRow
    BY <1>a, <1>b DEF TypeOK
  <2> QED
    BY <1>d, <2>1, NewColumns DEF SafeInv, AnswersHold
<1>8. PushesPrecede'
  <2> SUFFICES ASSUME NEW q \in Reminders
               PROVE  /\ row'[q] = NoRow => pushes[q] = <<>>
                      /\ \A i \in DOMAIN pushes[q] : pushes[q][i] <= now
                      /\ NotAfter(row'[q], q) /\ NotAfter(NoRow, q)
                      /\ Certain => Before(row'[q], q)
    BY <1>a, <1>c DEF PushesPrecede, NotAfter, Before, Certain
  <2>1. NotAfter(NoRow, q)
    BY NewColumns DEF NotAfter
  <2> QED
    BY <1>c, <1>d, <2>1 DEF SafeInv, PushesPrecede
<1> QED
  BY <1>1, <1>2, <1>3, <1>4, <1>5, <1>6, <1>7, <1>8 DEF SafeInv

\* A scan that ends without a commit leaves no trace but its pushes.
LEMMA ScanDropped ==
    ASSUME SafeInv, ScanIdle,
           UNCHANGED <<now, row, pushes, told>>,
           faults' \in [FaultKinds -> Nat], ~Certain', AnswersKept' => AnswersKept,
           TypeOK', TasksHold', LockedOnce',
           AnswersKept' => \A t \in Tasks : pc'[t] = pc[t] /\ of'[t] = of[t]
    PROVE  SafeInv'
<1>a. /\ phase' = "idle" /\ left' = {} /\ cur' = None
      /\ marks' = [r \in Reminders |-> NoRow]
  BY DEF ScanIdle
<1>b. TypeOK /\ cur' \notin Reminders
  BY <1>a, NoneAssumption DEF SafeInv
<1>1. RowsAgree'
  BY DEF SafeInv, RowsAgree, Agrees
<1>2. OncePerDueTime'
  BY DEF SafeInv, OncePerDueTime
<1>3. ScanHolds'
  BY <1>a, <1>b DEF ScanHolds, InScan
<1>4. AnswersHold'
  <2> SUFFICES ASSUME NEW q \in told
               PROVE  /\ row[q].status # "absent"
                      /\ AnswersKept' => \/ \E t \in Tasks : Holds(t, q)'
                                         \/ ~row[q].enabled /\ ~marks'[q].enabled
    BY DEF AnswersHold, AnswersKept
  <2>1. q \in Reminders /\ ~marks'[q].enabled
    BY <1>a, <1>b, NewColumns DEF TypeOK
  <2> QED
    BY <2>1 DEF SafeInv, AnswersHold, Holds
<1>5. PushesPrecede'
  <2>1. \A q \in Reminders : marks'[q] = NoRow /\ NotAfter(marks[q], q)'
    BY <1>a, NewColumns DEF NotAfter
  <2> QED
    BY <2>1 DEF SafeInv, PushesPrecede, NotAfter
<1> QED
  BY <1>1, <1>2, <1>3, <1>4, <1>5 DEF SafeInv

\* An exception in the loop.
LEMMA ScanRaisesSafe == SafeInv /\ ScanRaises => SafeInv'
<1> SUFFICES ASSUME SafeInv, ScanRaises PROVE SafeInv'
  OBVIOUS
<1>a. /\ phase' = "idle" /\ left' = {} /\ cur' = None
      /\ marks' = [r \in Reminders |-> NoRow] /\ ScanIdle
      /\ UNCHANGED <<now, row, pc, of, version, pushes, told>>
  BY DEF ScanRaises, ScanIdle, taskVars
<1>b. TypeOK
  BY DEF SafeInv
<1>c. /\ faults' \in [FaultKinds -> Nat] /\ faults'["scan raises"] # 0
      /\ \A l \in FaultKinds : faults'[l] = 0 => faults[l] = 0
  BY <1>b, FaultCounts DEF ScanRaises, FaultKinds
<1>d. ~Certain' /\ (AnswersKept' => AnswersKept)
  BY <1>c DEF Certain, AnswersKept, FaultKinds
<1>1. TypeOK'
  BY <1>a, <1>b, <1>c, NewColumns, NoneAssumption DEF TypeOK
<1>2. TasksHold' /\ LockedOnce'
  BY <1>a DEF SafeInv, TasksHold, Agrees, LockedOnce, Holds, HeldByTask
<1> QED
  BY <1>a, <1>c, <1>d, <1>1, <1>2, ScanDropped

\* The process dies with all its transactions.
LEMMA CrashSafe == SafeInv /\ Crash => SafeInv'
<1> SUFFICES ASSUME SafeInv, Crash PROVE SafeInv'
  OBVIOUS
<1>a. /\ phase' = "idle" /\ left' = {} /\ cur' = None
      /\ marks' = [r \in Reminders |-> NoRow] /\ ScanIdle
      /\ pc' = [t \in Tasks |-> "idle"] /\ of' = [t \in Tasks |-> None]
      /\ version' = [t \in Tasks |-> NoRow]
      /\ UNCHANGED <<now, row, pushes, told>>
  BY DEF Crash, ScanIdle
<1>b. TypeOK
  BY DEF SafeInv
<1>c. faults' \in [FaultKinds -> Nat] /\ faults'["crash"] # 0
  BY <1>b, FaultCounts DEF Crash, FaultKinds
<1>d. ~Certain' /\ ~AnswersKept'
  BY <1>c DEF Certain, AnswersKept
<1>1. TypeOK'
  BY <1>a, <1>b, <1>c, NewColumns, NoneAssumption DEF TypeOK
<1>2. TasksHold' /\ LockedOnce'
  BY <1>a DEF TasksHold, LockedOnce, Holds, HeldByTask
<1> QED
  BY <1>a, <1>c, <1>d, <1>1, <1>2, ScanDropped

----------------------------------------------------------------------------
LEMMA SafeInit == Init => SafeInv
<1> SUFFICES ASSUME Init PROVE SafeInv
  OBVIOUS
<1>1. TypeOK
  BY TypesInit
<1>2. RowsAgree /\ OncePerDueTime
  BY NewColumns DEF Init, RowsAgree, Agrees, OncePerDueTime
<1>3. TasksHold /\ LockedOnce /\ AnswersHold
  BY DEF Init, TasksHold, LockedOnce, Holds, HeldByTask, AnswersHold
<1>4. ScanHolds
  BY NoneAssumption DEF Init, ScanHolds, InScan
<1>5. PushesPrecede
  BY NewColumns DEF Init, PushesPrecede, NotAfter, Before
<1> QED
  BY <1>1, <1>2, <1>3, <1>4, <1>5 DEF SafeInv

LEMMA SafeNext == SafeInv /\ [Next]_vars => SafeInv'
<1> SUFFICES ASSUME SafeInv, [Next]_vars PROVE SafeInv'
  OBVIOUS
<1>1. CASE UNCHANGED vars
  <2>1. UNCHANGED <<now, row, pc, of, version, phase, left, cur, marks, pushes, told, faults>>
    BY <1>1 DEF vars, taskVars, scanVars
  <2>2. TypeOK' /\ RowsAgree' /\ OncePerDueTime'
    BY <2>1 DEF SafeInv, TypeOK, RowsAgree, Agrees, OncePerDueTime, Certain
  <2>3. TasksHold' /\ LockedOnce' /\ AnswersHold'
    BY <2>1 DEF SafeInv, TasksHold, Agrees, LockedOnce, Holds, HeldByTask, AnswersHold, AnswersKept
  <2>4. ScanHolds' /\ PushesPrecede'
    BY <2>1 DEF SafeInv, ScanHolds, InScan, Agrees, PushesPrecede, NotAfter, Before, Certain
  <2> QED
    BY <2>2, <2>3, <2>4 DEF SafeInv
<1>2. CASE Next
  BY <1>2, TickSafe, ScanBeginsSafe, MarkSuccessSafe, MarkFailedSafe, ScanCommitsSafe,
     ScanRaisesSafe, CrashSafe, PushSafe, CancelSafe, ReplySafe, TaskCommitsSafe,
     TaskFailsSafe, CreateSafe, FindActiveSafe DEF Next, ScanStep, TaskStep
<1> QED
  BY <1>1, <1>2

\* The inductive invariant holds: rows, tasks, scan, answers and pushes fit together
\* for any number of reminders, tasks, instants and faults.
THEOREM SafeInvHolds == Spec => []SafeInv
<1>1. Init => SafeInv
  BY SafeInit
<1>2. SafeInv /\ [Next]_vars => SafeInv'
  BY SafeNext
<1> QED
  BY <1>1, <1>2, PTL DEF Spec

\* Rows keep their types, and their columns fit together whoever wrote them last.
THEOREM RowsFitTogether == Spec => [](TypeOK /\ RowsAgree)
<1>1. SafeInv => TypeOK /\ RowsAgree
  BY DEF SafeInv
<1> QED
  BY <1>1, SafeInvHolds, PTL

\* The group is reminded in order, and of each due time once while every success
\* gets into the database.
THEOREM RemindedOnce == Spec => []OncePerDueTime
<1>1. SafeInv => OncePerDueTime
  BY DEF SafeInv
<1> QED
  BY <1>1, SafeInvHolds, PTL

\* A cancellation that was confirmed is in force once its task is over.
THEOREM CancellationsHold == Spec => []CancelHonest
<1>1. SafeInv => CancelHonest
  BY DEF SafeInv, AnswersHold, CancelHonest, HeldByTask
<1> QED
  BY <1>1, SafeInvHolds, PTL

\* What a step may do to a reminder that is over and in nobody's hands.
StaysOff(r) == Off(r) => Off(r)' /\ pushes'[r] = pushes[r]

LEMMA StaysOffNext ==
    ASSUME SafeInv, Next, NEW r \in Reminders
    PROVE  StaysOff(r)
<1> SUFFICES ASSUME Off(r) PROVE Off(r)' /\ pushes'[r] = pushes[r]
  BY DEF StaysOff
<1>a. /\ row[r].status \in {"executed", "cancelled"}
      /\ r \notin left /\ r # cur /\ marks[r] = NoRow
  BY DEF Off, InScan
<1>b. TypeOK /\ r # None
  BY NoneAssumption DEF SafeInv
<1>1. CASE Tick
  BY <1>a, <1>1 DEF Tick, scanVars, Off, InScan
<1>2. ASSUME NEW t \in Tasks,
             Cancel(t) \/ Reply(t) \/ \E q \in Reminders : Create(t, q) \/ FindActive(t, q)
      PROVE  Off(r)' /\ pushes'[r] = pushes[r]
  BY <1>a, <1>2 DEF Cancel, Reply, Create, FindActive, scanVars, Off, InScan
<1>3. ASSUME NEW t \in Tasks, TaskCommits(t)
      PROVE  Off(r)' /\ pushes'[r] = pushes[r]
  <2>1. of[t] = r => version[t].status = "cancelled"
    BY <1>a, <1>3, NewColumns DEF TaskCommits, SafeInv, TasksHold
  <2>2. row'[r].status \in {"executed", "cancelled"}
    BY <1>a, <1>b, <1>3, <2>1 DEF TaskCommits, TypeOK
  <2> QED
    BY <1>a, <1>3, <2>2 DEF TaskCommits, scanVars, Off, InScan
<1>4. ASSUME NEW t \in Tasks, TaskFails(t)
      PROVE  Off(r)' /\ pushes'[r] = pushes[r]
  BY <1>a, <1>4 DEF TaskFails, scanVars, Off, InScan
<1>5. CASE ScanBegins
  <2>1. ~Due(r)
    BY <1>a DEF Due
  <2> QED
    BY <1>a, <1>5, <2>1 DEF ScanBegins, Off, InScan
<1>6. ASSUME NEW q \in Reminders, Push(q) \/ PushRefused(q) \/ PushAnswerLost(q)
      PROVE  Off(r)' /\ pushes'[r] = pushes[r]
  <2>1. /\ q \in left /\ left' = left \ {q} /\ cur' = q
        /\ UNCHANGED <<row, marks>>
        /\ GroupReceives(q) \/ pushes' = pushes
    BY <1>6 DEF Push, PushRefused, PushAnswerLost, TakeUp, Earliest
  <2>2. pushes'[r] = pushes[r]
    BY <1>a, <1>b, <2>1 DEF GroupReceives, TypeOK
  <2> QED
    BY <1>a, <2>1, <2>2 DEF Off, InScan
<1>7. CASE MarkSuccess \/ MarkFailed
  <2>1. /\ UNCHANGED <<row, left, pushes>> /\ cur' = None
        /\ \E new : marks' = [marks EXCEPT ![cur] = new]
    BY <1>7 DEF MarkSuccess, MarkFailed
  <2>2. marks'[r] = NoRow
    BY <1>a, <1>b, <2>1 DEF TypeOK
  <2> QED
    BY <1>a, <1>b, <2>1, <2>2 DEF Off, InScan
<1>8. CASE ScanCommits
  BY <1>a, <1>b, <1>8 DEF ScanCommits, ScanIdle, Off, InScan
<1>9. CASE ScanRaises \/ Crash
  BY <1>a, <1>b, <1>9 DEF ScanRaises, Crash, ScanIdle, Off, InScan
<1> QED
  BY <1>1, <1>2, <1>3, <1>4, <1>5, <1>6, <1>7, <1>8, <1>9 DEF Next, ScanStep, TaskStep

\* Nothing that is over, and not in a scan that selected it before, is pushed or
\* scheduled again.
THEOREM NothingComesBack == Spec => OffStaysOff
<1>1. SafeInv /\ [Next]_vars => [\A r \in Reminders : Off(r) => Off(r)' /\ pushes'[r] = pushes[r]]_vars
  BY StaysOffNext DEF StaysOff
<1> QED
  BY <1>1, SafeInvHolds, PTL DEF Spec, OffStaysOff

=============================================================================
