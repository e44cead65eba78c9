------------------------------ MODULE Reminders ------------------------------
(***************************************************************************)
(* Reminders of a group chat: members create and cancel them in background *)
(* tasks of the callback router (reminders/service.py, agents/reminder,    *)
(* wechat/callback_router.py), and a job of the scheduler scans for those  *)
(* that are due and pushes them to the group (scheduler/manager.py).  All  *)
(* of it runs in one web process; the rows are in PostgreSQL.              *)
(*                                                                         *)
(* A transaction that has flushed holds the new version of a row and locks *)
(* the row until it commits or is rolled back; others read the version     *)
(* that was committed last.  The session writes only the columns it has    *)
(* changed, so the new version is made from the one the UPDATE finds.      *)
(*                                                                         *)
(* Abstracted: texts, targets and their names (a target that cannot be     *)
(* resolved is a push that is refused), the log of runs, who owns a        *)
(* reminder.  A cron rule is any choice of later instants.                 *)
(***************************************************************************)
EXTENDS Naturals, Sequences, Functions

CONSTANTS
    Reminders,   \* identities of rows
    Tasks,       \* background tasks that may be under way at the same time
    Horizon,     \* bound: the last instant of the model, never reached
    None,        \* NULL, and no reminder at all
    MaxFaults    \* bound: the number of faults

FaultKinds == {"crash", "scan raises", "task fails", "refused", "answer lost"}

ASSUME ClockAssumption == Horizon \in Nat \ {0}
ASSUME NoneAssumption == None \notin Nat \cup Reminders
ASSUME FaultsAssumption == MaxFaults \in Nat

VARIABLES
    now,       \* the clock
    row,       \* committed rows of the table reminders
    pc,        \* where a task is
    of,        \* the reminder it is about
    version,   \* the row its open transaction wrote
    phase,     \* where the scan is
    left,      \* reminders it selected and has not pushed
    cur,       \* the one it pushed last
    marks,     \* rows its open transaction wrote
    pushes,    \* history: due times of the messages the group received
    told,      \* history: reminders whose cancellation was confirmed to the user
    faults     \* history: faults of each kind

taskVars == <<pc, of, version>>
scanVars == <<phase, left, cur, marks>>
vars == <<now, row, taskVars, scanVars, pushes, told, faults>>

Times == 0..Horizon
Row == [kind: {"once", "cron"}, status: {"absent", "scheduled", "executed", "cancelled"},
        enabled: BOOLEAN, next: Times \cup {None}]
NoRow == [kind |-> "once", status |-> "absent", enabled |-> FALSE, next |-> None]

Scheduled(kind, next) ==
    [kind |-> kind, status |-> "scheduled", enabled |-> TRUE, next |-> next]
Ended(v, status) == [v EXCEPT !.enabled = FALSE, !.status = status]

----------------------------------------------------------------------------
Init ==
    /\ now = 0
    /\ row = [r \in Reminders |-> NoRow]
    /\ pc = [t \in Tasks |-> "idle"]
    /\ of = [t \in Tasks |-> None]
    /\ version = [t \in Tasks |-> NoRow]
    /\ phase = "idle" /\ left = {} /\ cur = None
    /\ marks = [r \in Reminders |-> NoRow]
    /\ pushes = [r \in Reminders |-> <<>>]
    /\ told = {}
    /\ faults = [k \in FaultKinds |-> 0]

MoreFaults == FoldFunction(+, 0, faults) < MaxFaults

Fault(kind) ==
    /\ MoreFaults
    /\ faults' = [faults EXCEPT ![kind] = @ + 1]

Tick ==
    /\ now + 1 < Horizon
    /\ now' = now + 1
    /\ UNCHANGED <<row, taskVars, scanVars, pushes, told, faults>>

----------------------------------------------------------------------------
(* The background tasks.                                                   *)

\* A reminder whose row this task's open transaction wrote is locked.
Holds(t, r) == pc[t] \in {"wrote", "replied"} /\ of[t] = r
HeldByTask(r) == \E t \in Tasks : Holds(t, r)

\* ReminderService.create_reminder: a time in the past is accepted, and so is
\* a rule that fires at this instant.  The id is fresh.
Create(t, r) ==
    /\ pc[t] = "idle"
    /\ row[r] = NoRow /\ ~HeldByTask(r)
    /\ \/ \E next \in Times : version' = [version EXCEPT ![t] = Scheduled("once", next)]
       \/ \E next \in now..Horizon : version' = [version EXCEPT ![t] = Scheduled("cron", next)]
    /\ pc' = [pc EXCEPT ![t] = "wrote"]
    /\ of' = [of EXCEPT ![t] = r]
    /\ UNCHANGED <<now, row, scanVars, pushes, told, faults>>

\* ReminderService.cancel_user_reminder, the query for an enabled reminder.
FindActive(t, r) ==
    /\ pc[t] = "idle"
    /\ row[r].enabled
    /\ pc' = [pc EXCEPT ![t] = "found"]
    /\ of' = [of EXCEPT ![t] = r]
    /\ UNCHANGED <<now, row, version, scanVars, pushes, told, faults>>

\* The rest of it: the flush waits for whoever holds the row.
Cancel(t) ==
    /\ pc[t] = "found"
    /\ ~HeldByTask(of[t]) /\ marks[of[t]] = NoRow
    /\ version' = [version EXCEPT ![t] = Ended(row[of[t]], "cancelled")]
    /\ pc' = [pc EXCEPT ![t] = "wrote"]
    /\ UNCHANGED <<now, row, of, scanVars, pushes, told, faults>>

\* handle_callback_message answers the user before the transaction commits; the
\* answer may be rejected, which nobody looks at.
Reply(t) ==
    /\ pc[t] = "wrote"
    /\ pc' = [pc EXCEPT ![t] = "replied"]
    /\ \/ version[t].status = "cancelled" /\ told' = told \cup {of[t]}
       \/ UNCHANGED told
    /\ UNCHANGED <<now, row, of, version, scanVars, pushes, faults>>

TaskIdle(t) ==
    /\ pc' = [pc EXCEPT ![t] = "idle"]
    /\ of' = [of EXCEPT ![t] = None]
    /\ version' = [version EXCEPT ![t] = NoRow]

\* The end of process_recorded_message.
TaskCommits(t) ==
    /\ pc[t] = "replied"
    /\ row' = [row EXCEPT ![of[t]] = version[t]]
    /\ TaskIdle(t)
    /\ UNCHANGED <<now, scanVars, pushes, told, faults>>

\* Anything raises (the reply times out, the database fails): rolled back.
TaskFails(t) ==
    /\ pc[t] # "idle"
    /\ Fault("task fails")
    /\ TaskIdle(t)
    /\ UNCHANGED <<now, row, scanVars, pushes, told>>

----------------------------------------------------------------------------
(* The scan: SchedulerManager._process_due_reminders, one at a time.       *)

\* Variant: get_due_reminders without its conditions on the state.
AnyTimePassed(r) == row[r].next # None /\ row[r].next <= now

\* The condition of get_due_reminders.
Due(r) ==
    /\ row[r].enabled /\ row[r].status = "scheduled"
    /\ row[r].next # None /\ row[r].next <= now

\* Variant: the job never returns, so that the scheduler starts no other one.
NeverReturns ==
    /\ phase' = "pushing" /\ left' = {} /\ cur' = None
    /\ marks' = [r \in Reminders |-> NoRow]

ScanIdle ==
    /\ phase' = "idle" /\ left' = {} /\ cur' = None
    /\ marks' = [r \in Reminders |-> NoRow]

ScanBegins ==
    /\ phase = "idle"
    /\ \E r \in Reminders : Due(r)
    /\ left' = {r \in Reminders : Due(r)}
    /\ phase' = "pushing"
    /\ UNCHANGED <<now, row, taskVars, cur, marks, pushes, told, faults>>

\* ORDER BY next_run_at
Earliest(r) == r \in left /\ \A s \in left : row[r].next <= row[s].next

TakeUp(r, result) ==
    /\ phase = "pushing" /\ Earliest(r)
    /\ left' = left \ {r}
    /\ cur' = r
    /\ phase' = result
    /\ UNCHANGED <<now, row, taskVars, marks, told>>

GroupReceives(r) == pushes' = [pushes EXCEPT ![r] = Append(@, row[r].next)]

Push(r)    == TakeUp(r, "succeeded") /\ GroupReceives(r) /\ UNCHANGED faults
\* No target of that name, an error of the network or an error code of WeCom.
PushRefused(r) == TakeUp(r, "failed") /\ Fault("refused") /\ UNCHANGED pushes
\* The group has the message, but the request times out.
PushAnswerLost(r) == TakeUp(r, "failed") /\ GroupReceives(r) /\ Fault("answer lost")

Executed(r) == [Ended(row[r], "executed") EXCEPT !.next = None]
Later == (now + 1)..Horizon

\* Variant: mark_success writes every column of the row that was once loaded.
WriteAllColumns(r) ==
    IF row[r].kind = "once" THEN {Executed(r)} ELSE {Scheduled("cron", next) : next \in Later}

\* Variant: the next time of a rule may be the present one.
FireAgain(r) ==
    IF row[r].kind = "once" THEN {Executed(r)}
    ELSE {[row[r] EXCEPT !.next = next] : next \in now..Horizon}

\* Variant: a reminder meant once is not switched off.
LeaveEnabled(r) ==
    IF row[r].kind = "once" THEN {[Executed(r) EXCEPT !.enabled = row[r].enabled]}
    ELSE {[row[r] EXCEPT !.next = next] : next \in Later}

\* What mark_success makes of a row.
Successes(r) ==
    IF row[r].kind = "once" THEN {Executed(r)}
    ELSE {[row[r] EXCEPT !.next = next] : next \in Later}

MarkSuccess ==
    /\ phase = "succeeded"
    /\ ~HeldByTask(cur)
    /\ \E new \in Successes(cur) : marks' = [marks EXCEPT ![cur] = new]
    /\ phase' = "pushing" /\ cur' = None
    /\ UNCHANGED <<now, row, taskVars, left, pushes, told, faults>>

\* Variant: mark_failed sets the status that the model's comment lists and nobody
\* else knows.
StatusFailed ==
    /\ phase = "failed"
    /\ ~HeldByTask(cur)
    /\ marks' = [marks EXCEPT ![cur] = [row[cur] EXCEPT !.status = "failed"]]
    /\ phase' = "pushing" /\ cur' = None
    /\ UNCHANGED <<now, row, taskVars, left, pushes, told, faults>>

\* mark_failed writes last_run_at only, which locks the row all the same.
MarkFailed ==
    /\ phase = "failed"
    /\ ~HeldByTask(cur)
    /\ marks' = [marks EXCEPT ![cur] = row[cur]]
    /\ phase' = "pushing" /\ cur' = None
    /\ UNCHANGED <<now, row, taskVars, left, pushes, told, faults>>

ScanCommits ==
    /\ phase = "pushing" /\ left = {}
    /\ row' = [r \in Reminders |-> IF marks[r] = NoRow THEN row[r] ELSE marks[r]]
    /\ ScanIdle
    /\ UNCHANGED <<now, taskVars, pushes, told, faults>>

\* Nothing catches an exception of the loop: all marks are rolled back.
ScanRaises ==
    /\ phase # "idle"
    /\ Fault("scan raises")
    /\ ScanIdle
    /\ UNCHANGED <<now, row, taskVars, pushes, told>>

----------------------------------------------------------------------------
\* The web process dies and is started again.
Crash ==
    /\ Fault("crash")
    /\ ScanIdle
    /\ pc' = [t \in Tasks |-> "idle"]
    /\ of' = [t \in Tasks |-> None]
    /\ version' = [t \in Tasks |-> NoRow]
    /\ UNCHANGED <<now, row, pushes, told>>

TaskStep(t) == Cancel(t) \/ Reply(t) \/ TaskCommits(t)

ScanStep ==
    \/ ScanBegins \/ MarkSuccess \/ MarkFailed \/ ScanCommits
    \/ \E r \in Reminders : Push(r) \/ PushRefused(r) \/ PushAnswerLost(r)

Next ==
    \/ Tick \/ ScanStep \/ ScanRaises \/ Crash
    \/ \E t \in Tasks :
         \/ TaskStep(t) \/ TaskFails(t)
         \/ \E r \in Reminders : Create(t, r) \/ FindActive(t, r)

Spec == Init /\ [][Next]_vars

\* The interval job runs again and again, and a task that began goes on; nobody
\* has to write a message, and time need not pass.
Fairness == WF_vars(ScanStep) /\ \A t \in Tasks : WF_vars(TaskStep(t))
FairSpec == Spec /\ Fairness

----------------------------------------------------------------------------
TypeOK ==
    /\ now \in 0..(Horizon - 1)
    /\ row \in [Reminders -> Row]
    /\ pc \in [Tasks -> {"idle", "found", "wrote", "replied"}]
    /\ of \in [Tasks -> Reminders \cup {None}]
    /\ version \in [Tasks -> Row]
    /\ phase \in {"idle", "pushing", "succeeded", "failed"}
    /\ left \in SUBSET Reminders
    /\ cur \in Reminders \cup {None}
    /\ marks \in [Reminders -> Row]
    /\ pushes \in [Reminders -> Seq(Times)]
    /\ told \in SUBSET Reminders
    /\ faults \in [FaultKinds -> Nat]
    /\ \A t \in Tasks : pc[t] # "idle" => of[t] \in Reminders
    /\ cur \in Reminders <=> phase \in {"succeeded", "failed"}

\* The columns of a row fit together, although the scan and a cancellation each
\* write some of them: what is enabled has a time to run at, and what has no
\* time has been pushed, even if it was cancelled meanwhile.
Agrees(v, r) ==
    /\ v.status = "absent" => v = NoRow
    /\ v.enabled <=> v.status = "scheduled"
    /\ v.enabled => v.next # None
    /\ v.status = "executed" => v.kind = "once" /\ v.next = None
    /\ v.status # "absent" /\ v.next = None => pushes[r] # <<>>

RowsAgree == \A r \in Reminders : Agrees(row[r], r)

\* No push was made whose success did not get into the database.
Certain == \A k \in {"crash", "scan raises", "answer lost"} : faults[k] = 0

\* The group is reminded in the order of the due times, and never twice of the
\* same one unless a push was made whose success did not get into the database:
\* the scan commits once, after all pushes, and a push without an answer counts
\* as failed and is repeated by the next scan.
OncePerDueTime == \A r \in Reminders :
    \A i, j \in DOMAIN pushes[r] : i < j =>
        /\ pushes[r][i] <= pushes[r][j]
        /\ Certain => pushes[r][i] < pushes[r][j]

\* No task failed after it had answered.
AnswersKept == faults["crash"] = 0 /\ faults["task fails"] = 0

\* Once its task is over, a cancellation the user was told of is in force, unless
\* the task failed after its answer: no scan that had the reminder in hand when
\* the task committed brings it back.
CancelHonest == \A r \in told :
    ~HeldByTask(r) /\ AnswersKept => ~row[r].enabled

\* The reminder is in the hands of the scan.
InScan(r) ==
    r \in left \/ cur = r \/ marks[r] # NoRow

Off(r) == row[r].status \in {"executed", "cancelled"} /\ ~InScan(r)

\* A reminder that is executed or cancelled, and not in the hands of a scan that
\* selected it earlier, is never pushed or scheduled again.
OffStaysOff ==
    [][\A r \in Reminders : Off(r) => Off(r)' /\ pushes'[r] = pushes[r]]_vars

\* A reminder that is due is pushed and marked, or cancelled, whatever (finitely
\* many) faults occur: rolled back scans are repeated, no lock is kept.
DueIsSettled == \A r \in Reminders : Due(r) ~> ~Due(r)

----------------------------------------------------------------------------
(* The inductive invariant behind these properties.                        *)

\* What a task holds: a new row, or the cancelled version of an old one.
TasksHold == \A t \in Tasks :
    /\ pc[t] = "found" => row[of[t]].status # "absent"
    /\ pc[t] \in {"wrote", "replied"} =>
         /\ Agrees(version[t], of[t])
         /\ \/ version[t].status = "scheduled" /\ row[of[t]] = NoRow
            \/ /\ version[t].status = "cancelled" /\ version[t].next = row[of[t]].next
               /\ row[of[t]].status # "absent"

\* A row is locked by one task, or by the scan.
LockedOnce == \A r \in Reminders :
    /\ \A t, u \in Tasks : Holds(t, r) /\ Holds(u, r) => t = u
    /\ HeldByTask(r) => marks[r] = NoRow

\* What the scan holds: reminders that exist, each at one place.
ScanHolds ==
    /\ phase = "idle" => \A r \in Reminders : ~InScan(r)
    /\ phase = "succeeded" => pushes[cur] # <<>>
    /\ \A r \in Reminders :
         /\ InScan(r) => row[r].status # "absent"
         /\ r \in left => r # cur /\ row[r].next \in 0..now
         /\ r \in left \/ r = cur => marks[r] = NoRow
         /\ marks[r] # NoRow => marks[r].status # "absent" /\ Agrees(marks[r], r)

\* What the user was told will be so, or is so and no scan undoes it.
AnswersHold == \A r \in told :
    /\ row[r].status # "absent"
    /\ AnswersKept =>
         \/ \E t \in Tasks : Holds(t, r)
         \/ ~row[r].enabled /\ ~marks[r].enabled

\* The pushes of a reminder are no later than its next time, and earlier than the
\* next time for which the scan has nothing to record.
NotAfter(v, r) == v.next # None => \A i \in DOMAIN pushes[r] : pushes[r][i] <= v.next
Before(v, r)   == v.next # None => \A i \in DOMAIN pushes[r] : pushes[r][i] < v.next

PushesPrecede == \A r \in Reminders :
    /\ row[r] = NoRow => pushes[r] = <<>>
    /\ \A i \in DOMAIN pushes[r] : pushes[r][i] <= now
    /\ NotAfter(row[r], r) /\ NotAfter(marks[r], r)
    /\ Certain =>
         /\ marks[r] # NoRow => Before(marks[r], r)
         /\ marks[r] = NoRow /\ ~(cur = r /\ phase = "succeeded") => Before(row[r], r)

SafeInv == TypeOK /\ RowsAgree /\ OncePerDueTime /\ TasksHold /\ LockedOnce /\ ScanHolds
           /\ AnswersHold /\ PushesPrecede
=============================================================================
