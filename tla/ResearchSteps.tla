--------------------------- MODULE ResearchSteps ---------------------------
(***************************************************************************)
(* Execution of the steps of one research task by the taskiq workers.      *)
(*                                                                         *)
(* The steps are rows of research_steps.  A dispatcher claims READY rows,  *)
(* commits, and sends one message per claimed step to the Redis stream.  A *)
(* worker that receives the message runs the tool, completes the row in a  *)
(* transaction that also cancels or unblocks the dependents, then          *)
(* dispatches again and checks whether the task can go to synthesis.       *)
(*                                                                         *)
(* PostgreSQL runs at READ COMMITTED: a transaction reads what is          *)
(* committed at each statement, holds a lock on every row it wrote, and    *)
(* shows its writes to the others only when it commits.  Each such gap     *)
(* between a read and the commit that relies on it is a pair of actions.   *)
(***************************************************************************)
EXTENDS Naturals, FiniteSets, FiniteSetsExt

CONSTANTS
    Steps,          \* the steps of the task's plan
    Deps,           \* pairs <<s, d>>: step s depends on step d
    Workers,        \* taskiq worker processes
    Watchdog,       \* the process that runs ResearchWatchdog.run_once
    None,           \* no step, or no owner
    MaxConcurrent,  \* ResearchStepDispatcher._max, per dispatch call
    RetryPolicy,    \* TRUE when the executor was built with a retry policy
    MaxAttempts,    \* research_steps.max_attempts
    Faults,         \* what may go wrong: a subset of FaultKinds
    MaxFaults,      \* bound: crashes, exceptions, failed sends and watchdog runs
    MaxClaims       \* bound: claims of one step

FaultKinds == {"crash", "exception", "send", "lostReply", "retryable", "leaseExpiry"}

ASSUME StepsAssumption ==
    /\ Deps \subseteq Steps \X Steps
    /\ Watchdog \notin Workers
    /\ None \notin Steps \cup Workers \cup {Watchdog}
    /\ MaxConcurrent \in Nat \ {0}
    /\ RetryPolicy \in BOOLEAN
    /\ MaxAttempts \in Nat \ {0}
    /\ Faults \subseteq FaultKinds
    /\ MaxFaults \in Nat
    /\ MaxClaims \in Nat \ {0}

VARIABLES
    status,      \* status[s]: the committed status of the step's row
    owner,       \* owner[s]: the dispatch that claimed it
    attempts,    \* attempts[s]: attempt_count
    taskStatus,  \* the task row, from the moment it runs
    queue,       \* queue[s]: messages for s in the stream, delivered to nobody
    synthSent,   \* synthesis messages sent
    pc,          \* pc[p]: what process p does next
    job,         \* job[w]: the step whose message w is handling
    outcome,     \* outcome[w]: the status w gave its step, as w's session knows it
    touched,     \* touched[w]: the dependents w's open transaction wrote
    due,         \* due[p]: the RETRY_WAIT rows p read
    expired,     \* the RUNNING rows the watchdog read as expired
    batch,       \* batch[p]: steps p claimed and has still to send
    sendFailed,  \* sendFailed[p]: a send of this dispatch raised
    stranded,    \* leases whose dispatch, message or job ended without ending the step
    succeeded,   \* the steps whose completion was ever committed
    faults       \* faults so far

rowVars  == <<status, owner, attempts>>
sentVars == <<queue, synthSent>>
txnVars  == <<outcome, touched>>
dispVars == <<due, batch, sendFailed>>
vars == <<rowVars, taskStatus, sentVars, pc, job, txnVars, dispVars, expired,
          stranded, succeeded, faults>>

Procs == Workers \cup {Watchdog}

StepStatuses == {"pending", "ready", "running", "retry_wait",
                 "completed", "failed", "cancelled"}
Terminal == {"completed", "failed", "cancelled"}

DependsOn(s) == {d \in Steps : <<s, d>> \in Deps}
Dependents(s) == {t \in Steps : <<t, s>> \in Deps}

----------------------------------------------------------------------------
(***************************************************************************)
(* The helpers of ResearchStepService, as what they read and write.        *)
(***************************************************************************)

\* _cancel_dependents follows dependents through rows that are not terminal.
CancelClosed(s, X) ==
    \A u \in Steps : /\ DependsOn(u) \cap (X \cup {s}) # {}
                     /\ status[u] \notin Terminal
                     => u \in X

\* Variant: the direct dependents only.
CancelOnlyChildren(s) == {t \in Dependents(s) : status[t] \notin Terminal}

CancelSet(s) == {u \in Steps : \A X \in SUBSET Steps : CancelClosed(s, X) => u \in X}

\* Variant: the other dependencies are over, well or not.
UnblockAnyDone(s) == {t \in Dependents(s) :
                        \A d \in DependsOn(t) : d = s \/ status[d] \in Terminal}

\* _unblock_dependents: the dependents of s whose other dependencies read as
\* completed, whatever their own status is.
UnblockSet(s) == {t \in Dependents(s) :
                    \A d \in DependsOn(t) : d = s \/ status[d] = "completed"}

\* The rows process p finds locked by another open transaction.
LockedFor(p) == UNION {{job[w]} \cup touched[w] :
                         w \in {v \in Workers : v # p /\ pc[v] \in {"commit", "commitError"}}}

\* What a retryable failure makes of the step: schedule_retry when there is a
\* policy, and always another wait when there is none.
AfterRetryable(s) ==
    IF RetryPolicy /\ attempts[s] >= MaxAttempts THEN "failed" ELSE "retry_wait"

\* Variant: its own row as the session loaded it.
SeenAsLoaded(w, s) == IF s = job[w] THEN "running" ELSE status[s]

\* The step statuses w's session sees: it still holds its own step's row as it
\* wrote it, and reads the others afresh.
SeenBy(w, s) == IF s = job[w] THEN outcome[w] ELSE status[s]

----------------------------------------------------------------------------
(***************************************************************************)
(* The state when planning commits: mark_root_steps_ready has made the     *)
(* steps without dependencies READY, the task runs, and the worker that    *)
(* planned it is about to dispatch.                                        *)
(***************************************************************************)
Init ==
    /\ status = [s \in Steps |-> IF DependsOn(s) = {} THEN "ready" ELSE "pending"]
    /\ owner = [s \in Steps |-> None]
    /\ attempts = [s \in Steps |-> 0]
    /\ taskStatus = "running"
    /\ queue = [s \in Steps |-> 0]
    /\ synthSent = 0
    /\ \E planner \in Workers :
          pc = [p \in Procs |-> IF p = planner THEN "promote" ELSE "idle"]
    /\ job = [w \in Workers |-> None]
    /\ outcome = [w \in Workers |-> "pending"]
    /\ touched = [w \in Workers |-> {}]
    /\ due = [p \in Procs |-> {}]
    /\ batch = [p \in Procs |-> {}]
    /\ sendFailed = [p \in Procs |-> FALSE]
    /\ expired = {}
    /\ stranded = {}
    /\ succeeded = {}
    /\ faults = 0

Goto(p, label) == pc' = [pc EXCEPT ![p] = label]

Fault(kind) == kind \in Faults /\ faults < MaxFaults /\ faults' = faults + 1

----------------------------------------------------------------------------
(***************************************************************************)
(* dispatch_ready, run by a worker after planning or after a step, and by  *)
(* the watchdog.                                                           *)
(***************************************************************************)

\* promote_due_retries selects the RETRY_WAIT rows without locking them.  With a
\* retry policy only those whose delay has passed are due.
ReadDue(p) ==
    /\ pc[p] = "promote"
    /\ LET waiting == {s \in Steps : status[s] = "retry_wait"} IN
       \E d \in SUBSET waiting :
          /\ RetryPolicy \/ d = waiting
          /\ due' = [due EXCEPT ![p] = d]
    /\ Goto(p, "claim")
    /\ UNCHANGED <<rowVars, taskStatus, sentVars, job, txnVars, batch, sendFailed,
                   expired, stranded, succeeded, faults>>

\* The rest of the claiming transaction, up to its commit: the promoted rows are
\* written back as READY, then up to MaxConcurrent READY rows that nobody holds
\* become RUNNING under this dispatch's name.
Promoted(p) == [s \in Steps |-> IF s \in due[p] THEN "ready" ELSE status[s]]

\* Variant: without the condition on READY.
ClaimableUnfinished(p) == {s \in Steps : /\ Promoted(p)[s] \notin Terminal
                                         /\ attempts[s] < MaxClaims}

Claimable(p) == {s \in Steps : /\ Promoted(p)[s] = "ready"
                               /\ s \notin LockedFor(p)
                               /\ attempts[s] < MaxClaims}

Claim(p) ==
    /\ pc[p] = "claim"
    /\ due[p] \cap LockedFor(p) = {}
    /\ \E claimed \in SUBSET Claimable(p) :
          /\ Cardinality(claimed) = Min({MaxConcurrent, Cardinality(Claimable(p))})
          /\ status' = [s \in Steps |-> IF s \in claimed THEN "running" ELSE Promoted(p)[s]]
          /\ owner' = [s \in Steps |-> IF s \in claimed THEN p ELSE owner[s]]
          /\ attempts' = [s \in Steps |-> IF s \in claimed THEN attempts[s] + 1
                                          ELSE attempts[s]]
          /\ batch' = [batch EXCEPT ![p] = claimed]
    /\ due' = [due EXCEPT ![p] = {}]
    /\ stranded' = stranded \ batch'[p]
    /\ Goto(p, "send")
    /\ UNCHANGED <<taskStatus, sentVars, job, txnVars, sendFailed, expired, succeeded, faults>>

\* enqueue_step succeeds for one claimed step.
Send(p, s) ==
    /\ pc[p] = "send" /\ s \in batch[p]
    /\ queue' = [queue EXCEPT ![s] = @ + 1]
    /\ batch' = [batch EXCEPT ![p] = @ \ {s}]
    /\ UNCHANGED <<rowVars, taskStatus, synthSent, pc, job, txnVars, due, sendFailed,
                   expired, stranded, succeeded, faults>>

\* release_claim: the row goes back to READY if it is still this dispatch's.
\* Variant: the claim is kept.
KeepClaim(p, s) == UNCHANGED <<status, owner>>

ReleaseClaim(p, s) ==
    IF status[s] = "running" /\ owner[s] = p
    THEN /\ status' = [status EXCEPT ![s] = "ready"]
         /\ owner' = [owner EXCEPT ![s] = None]
    ELSE UNCHANGED <<status, owner>>

\* enqueue_step raises, and the claim is released.  When only the reply was lost
\* the message is in the stream all the same.
SendFails(p, s) ==
    /\ pc[p] = "send" /\ s \in batch[p]
    /\ s \notin LockedFor(p)
    /\ \/ Fault("send") /\ UNCHANGED queue
       \/ Fault("lostReply") /\ queue' = [queue EXCEPT ![s] = @ + 1]
    /\ ReleaseClaim(p, s)
    /\ batch' = [batch EXCEPT ![p] = @ \ {s}]
    /\ sendFailed' = [sendFailed EXCEPT ![p] = TRUE]
    /\ UNCHANGED <<attempts, taskStatus, synthSent, pc, job, txnVars, due, expired,
                   stranded, succeeded>>

\* The job is over and its message, if it had one, is acknowledged.
EndJob(p) ==
    /\ Goto(p, "idle")
    /\ job' = [w \in Workers |-> IF w = p THEN None ELSE job[w]]
    /\ outcome' = [w \in Workers |-> IF w = p THEN "pending" ELSE outcome[w]]
    /\ touched' = [w \in Workers |-> IF w = p THEN {} ELSE touched[w]]
    /\ sendFailed' = [sendFailed EXCEPT ![p] = FALSE]

\* Every claimed step was tried.  A failed send is raised now and ends the job;
\* otherwise a step's job goes on to the pipeline check.
DispatchEnds(p) ==
    /\ pc[p] = "send" /\ batch[p] = {}
    /\ IF p \in Workers /\ job[p] # None /\ ~sendFailed[p]
       THEN Goto(p, "check") /\ UNCHANGED <<job, txnVars, sendFailed>>
       ELSE EndJob(p)
    /\ UNCHANGED <<rowVars, taskStatus, sentVars, due, batch, expired, stranded, succeeded,
                   faults>>

----------------------------------------------------------------------------
(***************************************************************************)
(* execute_step_job.                                                       *)
(***************************************************************************)

\* A message is delivered.  It starts the tool only if the row is RUNNING.
Receive(w, s) ==
    /\ pc[w] = "idle" /\ queue[s] > 0
    /\ queue' = [queue EXCEPT ![s] = @ - 1]
    /\ IF status[s] = "running"
       THEN /\ job' = [job EXCEPT ![w] = s]
            /\ Goto(w, "tool")
       ELSE UNCHANGED <<job, pc>>
    /\ UNCHANGED <<rowVars, taskStatus, synthSent, txnVars, dispVars, expired, stranded,
                   succeeded, faults>>

\* The tool ends and the session writes its transaction: the step's own row and
\* the dependents' rows.  It waits for rows that another session holds.
Write(w, o, rows, label) ==
    /\ pc[w] = "tool"
    /\ ({job[w]} \cup rows) \cap LockedFor(w) = {}
    /\ outcome' = [outcome EXCEPT ![w] = o]
    /\ touched' = [touched EXCEPT ![w] = rows]
    /\ Goto(w, label)
    /\ UNCHANGED <<rowVars, taskStatus, sentVars, job, dispVars, expired, stranded, succeeded>>

Rows(w, o) == CASE o = "completed" -> UnblockSet(job[w])
                [] o = "failed" -> CancelSet(job[w])
                [] o = "retry_wait" -> {}

ToolSucceeds(w) == Write(w, "completed", Rows(w, "completed"), "commit") /\ UNCHANGED faults

ToolFails(w) == Write(w, "failed", Rows(w, "failed"), "commit") /\ UNCHANGED faults

ToolFailsRetryably(w) ==
    /\ "retryable" \in Faults
    /\ LET o == AfterRetryable(job[w]) IN Write(w, o, Rows(w, o), "commit")
    /\ UNCHANGED faults

\* The database raises: the session rolls back, and a new one fails the step.
ToolRaises(w) ==
    /\ Fault("exception")
    /\ Write(w, "failed", Rows(w, "failed"), "commitError")

\* What a transaction that gave its step status o writes to the dependents.
\* Variant: a status of the task, not of a step.
DependentTaskStatus(o) == IF o = "failed" THEN "cancelled" ELSE "submitted"

DependentStatus(o) == IF o = "failed" THEN "cancelled" ELSE "ready"

\* The commit shows the writes.  After an error the job just returns; otherwise
\* it dispatches what it unblocked.
Commit(w) ==
    /\ pc[w] \in {"commit", "commitError"}
    /\ status' = [s \in Steps |->
                    IF s = job[w] THEN outcome[w]
                    ELSE IF s \in touched[w] THEN DependentStatus(outcome[w])
                    ELSE status[s]]
    /\ owner' = IF outcome[w] = "retry_wait" THEN [owner EXCEPT ![job[w]] = None] ELSE owner
    /\ succeeded' = succeeded \cup {s \in Steps : job[w] = s /\ outcome[w] = "completed"}
    /\ IF pc[w] = "commit"
       THEN /\ Goto(w, "promote")
            /\ touched' = [touched EXCEPT ![w] = {}]
            /\ UNCHANGED <<job, outcome, sendFailed>>
       ELSE EndJob(w)
    /\ UNCHANGED <<attempts, taskStatus, sentVars, due, batch, expired, stranded, faults>>

----------------------------------------------------------------------------
(***************************************************************************)
(* queue_synthesis_if_complete.                                            *)
(***************************************************************************)

\* Variant: nothing is left to run at the moment.
NothingActive(w) == \A s \in Steps : SeenBy(w, s) \notin {"ready", "running"}

AllDone(w) == \A s \in Steps : SeenBy(w, s) \in Terminal

HasSuccess(w) == \E s \in Steps : SeenBy(w, s) = "completed"

\* The steps are read; if they are not all over, or none succeeded, that is all.
CheckComplete(w) ==
    /\ pc[w] = "check"
    /\ IF AllDone(w) /\ HasSuccess(w)
       THEN Goto(w, "transition") /\ UNCHANGED <<job, txnVars, sendFailed>>
       ELSE EndJob(w)
    /\ UNCHANGED <<rowVars, taskStatus, sentVars, due, batch, expired, stranded, succeeded,
                   faults>>

\* The guarded UPDATE of the task row, and its commit.
\* Variant: whatever the status is.
AnyTaskStatus == TRUE

ExpectedTaskStatus == taskStatus = "running"

Transition(w) ==
    /\ pc[w] = "transition"
    /\ IF ExpectedTaskStatus
       THEN /\ taskStatus' = "synthesizing"
            /\ Goto(w, "synthesize")
            /\ UNCHANGED <<job, txnVars, sendFailed>>
       ELSE EndJob(w) /\ UNCHANGED taskStatus
    /\ UNCHANGED <<rowVars, sentVars, due, batch, expired, stranded, succeeded, faults>>

\* enqueue_synthesis: sent, or it raises and the job ends without it.
SendSynthesis(w) ==
    /\ pc[w] = "synthesize"
    /\ \/ synthSent' = synthSent + 1 /\ UNCHANGED faults
       \/ Fault("send") /\ UNCHANGED synthSent
    /\ EndJob(w)
    /\ UNCHANGED <<rowVars, taskStatus, queue, due, batch, expired, stranded, succeeded>>

----------------------------------------------------------------------------
(***************************************************************************)
(* The watchdog, and crashes.                                              *)
(***************************************************************************)

\* run_once selects the RUNNING rows whose lease is past, which it may be for
\* any of them since the lease starts at the claim, and the RETRY_WAIT rows.
WatchdogReads ==
    /\ Fault("leaseExpiry")
    /\ pc[Watchdog] = "idle"
    /\ \E e \in SUBSET {s \in Steps : status[s] = "running"} : expired' = e
    /\ due' = [due EXCEPT ![Watchdog] = {s \in Steps : status[s] = "retry_wait"}]
    /\ expired' \cup due'[Watchdog] # {}
    /\ Goto(Watchdog, "recover")
    /\ UNCHANGED <<rowVars, taskStatus, sentVars, job, txnVars, batch, sendFailed,
                   stranded, succeeded>>

\* It writes them all back as READY, commits, and goes on to dispatch.
WatchdogCommits ==
    /\ pc[Watchdog] = "recover"
    /\ (expired \cup due[Watchdog]) \cap LockedFor(Watchdog) = {}
    /\ status' = [s \in Steps |-> IF s \in expired \cup due[Watchdog] THEN "ready"
                                  ELSE status[s]]
    /\ owner' = [s \in Steps |-> IF s \in expired THEN None ELSE owner[s]]
    /\ expired' = {}
    /\ due' = [due EXCEPT ![Watchdog] = {}]
    /\ Goto(Watchdog, "promote")
    /\ UNCHANGED <<attempts, taskStatus, sentVars, job, txnVars, batch, sendFailed,
                   stranded, succeeded, faults>>

\* The stream keeps a message until its job has ended.
Redelivered(p) == [s \in Steps |-> IF p \in Workers /\ job[p] = s THEN queue[s] + 1
                                   ELSE queue[s]]

\* A process dies.  Its transaction is rolled back, and the message it had not
\* acknowledged is delivered again to some worker.
Crash(p) ==
    /\ pc[p] # "idle"
    /\ Fault("crash")
    /\ EndJob(p)
    /\ queue' = Redelivered(p)
    /\ due' = [due EXCEPT ![p] = {}]
    /\ batch' = [batch EXCEPT ![p] = {}]
    /\ stranded' = stranded \cup batch[p]
    /\ expired' = IF p = Watchdog THEN {} ELSE expired
    /\ UNCHANGED <<rowVars, taskStatus, synthSent, succeeded>>

(***************************************************************************)
(* Where an error of the database ends a job that does not handle it.      *)
(***************************************************************************)

\* Outside the tool's transaction every error ends the job, and its message is
\* acknowledged.  When the session that was to record a failure raises, the row stays
\* RUNNING.
JobRaises(p) ==
    /\ pc[p] \in {"promote", "claim", "commitError", "check", "transition", "recover"}
    /\ Fault("exception")
    /\ EndJob(p)
    /\ due' = [due EXCEPT ![p] = {}]
    /\ expired' = IF p = Watchdog THEN {} ELSE expired
    /\ stranded' = stranded \cup {s \in Steps : pc[p] = "commitError" /\ job[p] = s}
    /\ UNCHANGED <<rowVars, taskStatus, sentVars, batch, succeeded>>

\* A send fails and so does release_claim: the loop is left, and the rest of the batch
\* stays RUNNING without a message.
ReleaseRaises(p, s) ==
    /\ pc[p] = "send" /\ s \in batch[p]
    /\ Fault("exception")
    /\ \/ "send" \in Faults /\ UNCHANGED queue
       \/ "lostReply" \in Faults /\ queue' = [queue EXCEPT ![s] = @ + 1]
    /\ EndJob(p)
    /\ batch' = [batch EXCEPT ![p] = {}]
    /\ stranded' = stranded \cup batch[p]
    /\ UNCHANGED <<rowVars, taskStatus, synthSent, due, expired, succeeded>>

\* The row of a delivered message cannot be read: the job is over at once.
ReceiveRaises(w, s) ==
    /\ pc[w] = "idle" /\ queue[s] > 0
    /\ Fault("exception")
    /\ queue' = [queue EXCEPT ![s] = @ - 1]
    /\ stranded' = IF status[s] = "running" THEN stranded \cup {s} ELSE stranded
    /\ UNCHANGED <<rowVars, taskStatus, synthSent, pc, job, txnVars, dispVars, expired,
                   succeeded>>

----------------------------------------------------------------------------
Dispatch(p) ==
    \/ ReadDue(p)
    \/ Claim(p)
    \/ \E s \in Steps : Send(p, s) \/ SendFails(p, s)
    \/ DispatchEnds(p)

Work(w) ==
    \/ \E s \in Steps : Receive(w, s)
    \/ ToolSucceeds(w)
    \/ ToolFails(w)
    \/ ToolFailsRetryably(w)
    \/ ToolRaises(w)
    \/ Commit(w)
    \/ CheckComplete(w)
    \/ Transition(w)
    \/ SendSynthesis(w)

\* What the database may do to a process at any time.
DatabaseRaises(p) ==
    \/ JobRaises(p)
    \/ \E s \in Steps : ReleaseRaises(p, s)
    \/ p \in Workers /\ \E s \in Steps : ReceiveRaises(p, s)

Next ==
    \/ \E p \in Procs : Dispatch(p) \/ Crash(p) \/ DatabaseRaises(p)
    \/ \E w \in Workers : Work(w)
    \/ WatchdogReads
    \/ WatchdogCommits

Spec == Init /\ [][Next]_vars

\* Workers go on with the job they have and take messages while there are any;
\* nothing obliges a tool to fail, a process to crash or the watchdog to run.
Fairness == \A w \in Workers : WF_vars(Dispatch(w) \/ Work(w))

FairSpec == Spec /\ Fairness

----------------------------------------------------------------------------
(***************************************************************************)
(* Properties.                                                             *)
(***************************************************************************)
PCs == {"idle", "promote", "claim", "send", "tool", "commit", "commitError",
        "check", "transition", "synthesize", "recover"}

\* Every variable holds a value of its column or of its kind.
TypeOK ==
    /\ status \in [Steps -> StepStatuses]
    /\ owner \in [Steps -> Procs \cup {None}]
    /\ attempts \in [Steps -> Nat]
    /\ taskStatus \in {"running", "synthesizing"}
    /\ queue \in [Steps -> Nat]
    /\ synthSent \in Nat
    /\ pc \in [Procs -> PCs]
    /\ job \in [Workers -> Steps \cup {None}]
    /\ outcome \in [Workers -> StepStatuses]
    /\ touched \in [Workers -> SUBSET Steps]
    /\ due \in [Procs -> SUBSET Steps]
    /\ batch \in [Procs -> SUBSET Steps]
    /\ sendFailed \in [Procs -> BOOLEAN]
    /\ expired \in SUBSET Steps
    /\ stranded \in SUBSET Steps
    /\ succeeded \in SUBSET Steps
    /\ faults \in Nat

\* A step is worked on only when everything it depends on completed: neither the
\* unblocking of dependents nor a claim lets one start early (steps.py, claim_next
\* and _unblock_dependents).
DependenciesFirst ==
    \A s \in Steps : status[s] \in {"ready", "running", "retry_wait", "completed", "failed"} =>
        \A d \in DependsOn(s) : status[d] = "completed"

\* A failure reaches exactly the steps behind it: whatever the interleaving of the
\* transactions that complete and cancel, a step is cancelled if and only if
\* something it depends on failed or is cancelled (_cancel_dependents).
CancellationClosed ==
    \A s \in Steps : status[s] = "cancelled" <=>
        \E d \in DependsOn(s) : status[d] \in {"failed", "cancelled"}

\* Handling w's message of step s, in any phase of the job.
Handles(w, s) == job[w] = s

\* At most one claim, message or job of a step is under way, so that its tool never
\* runs twice at once: the claim taken before the message is sent is the only
\* source of messages, and a redelivery follows only a dead worker.
SingleDelivery ==
    \A s \in Steps :
        /\ queue[s] <= 1
        /\ queue[s] = 1 => \A p \in Procs : s \notin batch[p]
        /\ queue[s] = 1 => \A w \in Workers : ~Handles(w, s)
        /\ \A p, q \in Procs : s \in batch[p] /\ s \in batch[q] => p = q
        /\ \A v, w \in Workers : Handles(v, s) /\ Handles(w, s) => v = w
        /\ \A p \in Procs, w \in Workers : ~(s \in batch[p] /\ Handles(w, s))

\* A RUNNING row has somebody to end it: its message is in the stream or about to be
\* sent, or a worker is running its tool or committing.  A failed send gives the row
\* back and a crash has the message delivered again; a lease is left to nobody only
\* when a dispatch dies or cannot release a claim before it sent what it had claimed
\* (dispatch_ready), or when the database raises as a delivery's row is read or as a
\* failure is recorded (execute_step_job).
NoOrphanLease ==
    \A s \in Steps : status[s] = "running" /\ s \notin stranded =>
        \/ queue[s] > 0
        \/ \E p \in Procs : s \in batch[p]
        \/ \E w \in Workers : Handles(w, s) /\ pc[w] \in {"tool", "commit", "commitError"}

\* Every step is over, and one of them succeeded.
StepsOver ==
    /\ \A s \in Steps : status[s] \in Terminal
    /\ \E s \in Steps : status[s] = "completed"

\* When the task has left RUNNING for synthesis every step is over and one of
\* them succeeded, although the steps are read before the guarded UPDATE and the
\* worker's own step is read from its session (queue_synthesis_if_complete).
SynthesisAfterSteps ==
    taskStatus = "synthesizing" => StepsOver

\* Whatever is delivered twice, recovered or retried, the synthesis message is sent
\* at most once, because the transition that precedes it is guarded.
SynthesisSentOnce == synthSent + Cardinality({w \in Workers : pc[w] = "synthesize"}) <= 1

\* A step is claimed only after the completion of each step it depends on was committed,
\* also under duplicate execution, lease recovery and retries, which may overwrite that
\* completion later.
ClaimedAfterDependencies ==
    \A s \in Steps : attempts[s] > 0 => DependsOn(s) \subseteq succeeded

\* Without a crash, an exception or a failed send, a task whose steps are all over
\* with a success among them goes to synthesis: of the workers that finish last,
\* one sees everything over when it checks.
SynthesisReached ==
    StepsOver ~> taskStatus = "synthesizing" \/ faults > 0

(***************************************************************************)
(* The inductive invariant behind the five safety properties above, when   *)
(* nothing but crashes, exceptions and failed sends goes wrong.            *)
(***************************************************************************)
SafeFaults == {"crash", "exception", "send"}

Open(w) == pc[w] \in {"commit", "commitError"}

NoRecovery ==
    /\ \A s \in Steps : status[s] # "retry_wait"
    /\ \A p \in Procs : due[p] = {}
    /\ pc[Watchdog] = "idle"

\* What a process holds at each point of its job.
JobPhases ==
    /\ \A p \in Procs : pc[p] # "send" => batch[p] = {}
    /\ \A w \in Workers :
        /\ pc[w] = "idle" => job[w] = None
        /\ pc[w] = "tool" \/ Open(w) => job[w] \in Steps /\ status[job[w]] = "running"
        /\ pc[w] = "commit" => outcome[w] \in {"completed", "failed"}
        /\ pc[w] = "commitError" => outcome[w] = "failed"
        /\ ~Open(w) => touched[w] = {}
        /\ pc[w] \notin {"idle", "tool", "commit", "commitError"} /\ job[w] # None =>
              outcome[w] = status[job[w]] /\ outcome[w] \in {"completed", "failed"}

\* A step nobody claimed has no claim, message or job.
WaitingUnclaimed ==
    \A s \in Steps : status[s] \in {"pending", "ready"} =>
        /\ queue[s] = 0
        /\ \A p \in Procs : s \notin batch[p]
        /\ \A w \in Workers : job[w] # s

ClaimHeld == \A p \in Procs : \A s \in batch[p] : status[s] = "running" /\ owner[s] = p

\* The writes an open transaction holds are still right when it commits: they are on
\* PENDING rows that no other transaction writes; a completion's rows wait for nothing
\* else; a failure's rows are those that depend on the step or on one of them.
OpenTransactions ==
    \A w \in Workers : Open(w) =>
        /\ \A t \in touched[w] : status[t] = "pending"
        /\ \A v \in Workers : Open(v) /\ v # w => touched[v] \cap touched[w] = {}
        /\ outcome[w] = "completed" => \A t \in touched[w] :
              \A d \in DependsOn(t) : d = job[w] \/ status[d] = "completed"
        /\ outcome[w] = "failed" => \A u \in Steps :
              /\ u \in touched[w] => DependsOn(u) \cap (touched[w] \cup {job[w]}) # {}
              /\ /\ status[u] \notin Terminal
                 /\ DependsOn(u) \cap (touched[w] \cup {job[w]}) # {}
                 => u \in touched[w]

SynthesisReady == \A w \in Workers : pc[w] = "transition" => StepsOver

\* The five safety properties, and what makes them inductive: at every moment each
\* process holds what its place in its job says, and the rows of an open transaction
\* are as it left them.
SafeInv ==
    /\ NoRecovery
    /\ JobPhases
    /\ WaitingUnclaimed
    /\ ClaimHeld
    /\ OpenTransactions
    /\ SynthesisReady
    /\ DependenciesFirst
    /\ CancellationClosed
    /\ SingleDelivery
    /\ NoOrphanLease
    /\ SynthesisAfterSteps

\* The plan's execution, as ResearchDag tells it.
Phase(s) ==
    CASE status[s] = "pending"   -> "waiting"
      [] status[s] = "completed" -> "done"
      [] status[s] = "failed"    -> "failed"
      [] status[s] = "cancelled" -> "skipped"
      [] OTHER                   -> "active"

Dag == INSTANCE ResearchDag WITH phase <- [s \in Steps |-> Phase(s)]

\* Every step of the workers is a step of the abstract plan, or is invisible to it.
ImplementsDag == Dag!Spec
============================================================================
