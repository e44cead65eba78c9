-------------------------- MODULE ResearchPipeline --------------------------
(***************************************************************************)
(* The life of one research task, from the chat message that asks for it   *)
(* to the report the user receives.                                        *)
(*                                                                         *)
(* The web process handles the user's messages: it submits the task, and   *)
(* lets a member of the workspace approve or reject its plan.  Workers run *)
(* the jobs of the stages: plan, step, synthesize, validate, deliver.  A   *)
(* job commits what it did to PostgreSQL and then sends the message of the *)
(* next stage to the Redis stream, which keeps a message until its job has *)
(* ended and delivers it again when the worker dies, or when the job takes *)
(* longer than the stream's idle timeout.                                  *)
(*                                                                         *)
(* The steps of one version of the plan are one unit here, with one        *)
(* message: how they are claimed, retried and unblocked one by one is      *)
(* ResearchSteps.  The unit is over when all its steps are; it is stuck    *)
(* when its last job has ended and some step is neither over nor about to  *)
(* be worked on.                                                           *)
(***************************************************************************)
EXTENDS Naturals, Sequences, FiniteSets

CONSTANTS
    Workers,     \* taskiq worker processes
    Callbacks,   \* deliveries of the chat message that asks for the task
    Approver,    \* the handling of a member's approval
    Rejecter,    \* the handling of a member's rejection
    None,        \* no message
    MaxRounds,   \* QualityRepairCoordinator's max_repair_rounds
    MaxTries,    \* attempts of one delivery job
    Faults,      \* what may go wrong: a subset of FaultKinds
    MaxFaults    \* bound: faults of all kinds together

FaultKinds == {"crash", "exception", "send", "lostReply", "redelivery"}

Plans    == {"first", "repair"}
Stages   == {"synthesize", "validate", "deliver"}
Messages == Plans \cup Stages \cup {"plan"}

ASSUME PipelineAssumption ==
    /\ Approver # Rejecter
    /\ {Approver, Rejecter} \cap (Workers \cup Callbacks) = {}
    /\ Workers \cap Callbacks = {}
    /\ None \notin Messages
    /\ MaxRounds \in Nat
    /\ MaxTries \in Nat \ {0}
    /\ Faults \subseteq FaultKinds
    /\ MaxFaults \in Nat

VARIABLES
    task,      \* the task row's committed status; "none" before there is a row
    enqueued,  \* enqueued_at is set
    approval,  \* the approval row's status; "none" when there is none
    steps,     \* steps[k]: what became of the steps of plan version k, as one unit
    round,     \* current_round
    reports,   \* the report versions' report_status, in order
    delivery,  \* the delivery row's status
    received,  \* times the user received the beginning of the report
    queue,     \* queue[m]: messages m in the stream, delivered to nobody
    sends,     \* sends[m]: messages of stage m ever sent
    pc,        \* pc[p]: what process p does next
    msg,       \* msg[w]: the message whose job w runs
    seen,      \* seen[w]: the rows w's session loaded and still relies on
    tries,     \* tries[w]: attempts of w's delivery job that failed
    out,       \* out[p]: messages p committed to send and has not sent yet
    lost,      \* a job or a request ended before it committed or sent what it was for
    faults     \* faults so far

taskVars  == <<task, enqueued, approval, steps, round>>
reportVars == <<reports, delivery, received>>
sentVars  == <<queue, sends>>
jobVars   == <<msg, seen, tries, out>>
vars == <<taskVars, reportVars, sentVars, pc, jobVars, lost, faults>>

Deciders == {Approver, Rejecter}
Procs == Workers \cup Callbacks \cup Deciders

TaskStatuses == {"none", "submitted", "awaiting_approval", "running", "synthesizing",
                 "validating", "completed", "failed", "cancelled"}
Over == {"completed", "failed", "cancelled"}

NothingSeen == [status |-> "none", round |-> 0, versions |-> 0]

----------------------------------------------------------------------------
Init ==
    /\ task = "none" /\ enqueued = FALSE /\ approval = "none"
    /\ steps = [k \in Plans |-> "none"]
    /\ round = 0
    /\ reports = <<>> /\ delivery = "none" /\ received = 0
    /\ queue = [m \in Messages |-> 0]
    /\ sends = [m \in Stages |-> 0]
    /\ pc = [p \in Procs |-> "idle"]
    /\ msg = [w \in Workers |-> None]
    /\ seen = [w \in Workers |-> NothingSeen]
    /\ tries = [w \in Workers |-> 0]
    /\ out = [p \in Procs |-> {}]
    /\ lost = FALSE
    /\ faults = 0

Goto(p, label) == pc' = [pc EXCEPT ![p] = label]

Fault(kind) == kind \in Faults /\ faults < MaxFaults /\ faults' = faults + 1

\* A job's end acknowledges its message; a request of the web process is over.
End(p) ==
    /\ Goto(p, IF p \in Workers THEN "idle" ELSE "done")
    /\ msg' = [w \in Workers |-> IF w = p THEN None ELSE msg[w]]
    /\ seen' = [w \in Workers |-> IF w = p THEN NothingSeen ELSE seen[w]]
    /\ tries' = [w \in Workers |-> IF w = p THEN 0 ELSE tries[w]]
    /\ out' = [out EXCEPT ![p] = {}]

\* p commits a transaction after which it must send messages.
CommitThenSend(p, messages, label) ==
    /\ out' = [out EXCEPT ![p] = messages]
    /\ Goto(p, label)
    /\ UNCHANGED <<msg, seen, tries>>

Starts(w, m) == pc[w] = "start" /\ msg[w] = m

----------------------------------------------------------------------------
(***************************************************************************)
(* submit: create the row, commit, enqueue the planning, note it.          *)
(***************************************************************************)

\* create_task returns the row that is there when the message was seen before,
\* and a row that was not marked as enqueued is enqueued again; or it looked before
\* the other delivery committed, and its insertion of the same msgid raises.
SubmitCreates(c) ==
    /\ pc[c] = "idle"
    /\ IF task = "none"
       THEN task' = "submitted" /\ delivery' = "pending" /\ Goto(c, "enqueue")
       ELSE /\ Goto(c, "done") \/ (~enqueued /\ Goto(c, "enqueue"))
            /\ UNCHANGED <<task, delivery>>
    /\ UNCHANGED <<enqueued, approval, steps, round, reports, received, sentVars, jobVars,
                   lost, faults>>

\* Put m in the stream.
Enqueue(m) ==
    /\ queue' = [queue EXCEPT ![m] = @ + 1]
    /\ sends' = [k \in Stages |-> IF k = m THEN sends[k] + 1 ELSE sends[k]]

SubmitEnqueues(c) ==
    /\ pc[c] = "enqueue"
    /\ Enqueue("plan")
    /\ Goto(c, "mark")
    /\ UNCHANGED <<taskVars, reportVars, jobVars, lost, faults>>

\* The send raises, perhaps after the stream took the message.
SubmitEnqueueRaises(c) ==
    /\ pc[c] = "enqueue"
    /\ \/ Fault("send") /\ UNCHANGED sentVars
       \/ Fault("lostReply") /\ Enqueue("plan")
    /\ Goto(c, "markFailed")
    /\ UNCHANGED <<taskVars, reportVars, jobVars, lost>>

SubmitMarks(c) ==
    /\ pc[c] = "mark"
    /\ enqueued' = TRUE
    /\ End(c)
    /\ UNCHANGED <<task, approval, steps, round, reportVars, sentVars, lost, faults>>

\* mark_enqueued or its commit raises, in the same try as the send.
SubmitMarkRaises(c) ==
    /\ pc[c] = "mark"
    /\ Fault("exception")
    /\ Goto(c, "markFailed")
    /\ UNCHANGED <<taskVars, reportVars, sentVars, jobVars, lost>>

\* mark_failed writes the status whatever it is by now.
SubmitMarksFailed(c) ==
    /\ pc[c] = "markFailed"
    /\ task' = "failed"
    /\ End(c)
    /\ UNCHANGED <<enqueued, approval, steps, round, reportVars, sentVars, lost, faults>>

----------------------------------------------------------------------------
(***************************************************************************)
(* Messages, dispatching and sending.                                      *)
(***************************************************************************)
Receive(w, m) ==
    /\ pc[w] = "idle" /\ queue[m] > 0
    /\ queue' = [queue EXCEPT ![m] = @ - 1]
    /\ msg' = [msg EXCEPT ![w] = m]
    /\ Goto(w, "start")
    /\ UNCHANGED <<taskVars, reportVars, sends, seen, tries, out, lost, faults>>

\* Variant: a step's job ends with its dispatch.
EndsAnyway(p, label) == End(p)

\* What is left of p's job when it has sent everything: a step's job goes on from
\* its dispatch to the pipeline check.
GoOn(p, label) ==
    IF label = "sendSteps" /\ p \in Workers /\ msg[p] \in Plans
    THEN Goto(p, "check") /\ out' = [out EXCEPT ![p] = {}] /\ UNCHANGED <<msg, seen, tries>>
    ELSE End(p)

\* dispatch_ready claims the READY steps and commits, and with them those that wait
\* to be retried and are due.
Dispatch(p) ==
    /\ pc[p] = "dispatch"
    /\ \E due \in SUBSET {k \in Plans : steps[k] = "stuck"} :
       LET ready == due \cup {k \in Plans : steps[k] = "ready"} IN
       /\ steps' = [k \in Plans |-> IF k \in ready THEN "running" ELSE steps[k]]
       /\ IF ready = {} THEN GoOn(p, "sendSteps") ELSE CommitThenSend(p, ready, "sendSteps")
    /\ UNCHANGED <<task, enqueued, approval, round, reportVars, sentVars, lost, faults>>

Send(p, m) ==
    /\ pc[p] \in {"sendSteps", "sendStage"} /\ m \in out[p]
    /\ Enqueue(m)
    /\ IF out[p] = {m}
       THEN GoOn(p, pc[p])
       ELSE out' = [out EXCEPT ![p] = @ \ {m}] /\ UNCHANGED <<pc, msg, seen, tries>>
    /\ UNCHANGED <<taskVars, reportVars, lost, faults>>

\* A send raises.  Dispatching, the claim is given back, unless the database raises
\* then and the lease is orphaned; either way the job ends and nobody sends what was
\* to be sent.
SendRaises(p) ==
    /\ pc[p] \in {"sendSteps", "sendStage"}
    /\ Fault("send")
    /\ \E left \in {"ready"} \cup (IF "exception" \in Faults THEN {"stuck"} ELSE {}) :
          steps' = [k \in Plans |->
                      IF pc[p] = "sendSteps" /\ k \in out[p] /\ steps[k] = "running"
                      THEN left ELSE steps[k]]
    /\ lost' = TRUE
    /\ End(p)
    /\ UNCHANGED <<task, enqueued, approval, round, reportVars, sentVars>>

----------------------------------------------------------------------------
(***************************************************************************)
(* execute_planning_job, and the decision on the plan.                     *)
(***************************************************************************)

\* mark_root_steps_ready.
RootsReady == [k \in Plans |-> IF steps[k] = "pending" THEN "ready" ELSE steps[k]]

\* What planning commits.  The first update locks the task row to the end of the
\* transaction, so the guard and the commit are one step.
\* Variant: the steps are made ready before anybody decided.
PlannedReady(approvalNeeded) ==
    /\ approval' = IF approvalNeeded THEN "pending" ELSE "none"
    /\ task' = IF approvalNeeded THEN "awaiting_approval" ELSE "running"
    /\ steps' = [steps EXCEPT !["first"] = "ready"]

PlanCommitted(approvalNeeded) ==
    /\ approval' = IF approvalNeeded THEN "pending" ELSE "none"
    /\ task' = IF approvalNeeded THEN "awaiting_approval" ELSE "running"
    /\ steps' = [steps EXCEPT !["first"] = IF approvalNeeded THEN "pending" ELSE "ready"]

PlanTask(w) ==
    /\ Starts(w, "plan")
    /\ task = "submitted"
    /\ \E approvalNeeded \in BOOLEAN : PlanCommitted(approvalNeeded)
    /\ CommitThenSend(w, {}, "dispatch")
    /\ UNCHANGED <<enqueued, round, reportVars, sentVars, lost, faults>>

\* The task is not SUBMITTED any more, and the transition raises.
PlanTooLate(w) ==
    /\ Starts(w, "plan")
    /\ task # "submitted"
    /\ End(w)
    /\ UNCHANGED <<taskVars, reportVars, sentVars, lost, faults>>

\* approve and reject select the pending approval without locking it...
Decide(d) ==
    /\ d \in Deciders /\ pc[d] = "idle"
    /\ approval = "pending"
    /\ Goto(d, "decide")
    /\ UNCHANGED <<taskVars, reportVars, sentVars, jobVars, lost, faults>>

\* ...and write it, the task and the steps, whatever they have become.
Approve ==
    /\ pc[Approver] = "decide"
    /\ approval' = "approved"
    /\ task' = "running"
    /\ steps' = RootsReady
    /\ CommitThenSend(Approver, {}, "dispatch")
    /\ UNCHANGED <<enqueued, round, reportVars, sentVars, lost, faults>>

Reject ==
    /\ pc[Rejecter] = "decide"
    /\ approval' = "rejected"
    /\ task' = "cancelled"
    /\ steps' = [k \in Plans |-> IF steps[k] \in {"none"} \cup Over THEN steps[k]
                                 ELSE "cancelled"]
    /\ End(Rejecter)
    /\ UNCHANGED <<enqueued, round, reportVars, sentVars, lost, faults>>

----------------------------------------------------------------------------
(***************************************************************************)
(* execute_step_job and queue_synthesis_if_complete.                       *)
(***************************************************************************)

\* The tool runs if the row is RUNNING; it still may be when the unit is stuck.
StepStarts(w, k) ==
    /\ Starts(w, k)
    /\ \/ steps[k] \in {"running", "stuck"} /\ Goto(w, "tool") /\ UNCHANGED jobVars
       \/ steps[k] # "running" /\ End(w)
    /\ UNCHANGED <<taskVars, reportVars, sentVars, lost, faults>>

\* The last of the jobs of the plan's steps ends.  complete_step writes the row
\* whatever its status is by now.  Without any fault the steps may be stuck: a join is
\* left PENDING when its dependencies complete at the same time, and a step that failed
\* retryably waits for a dispatch of the task after it is due.
StepEnds(w) ==
    /\ pc[w] = "tool"
    /\ \E outcome \in {"completed", "failed", "stuck"} :
          steps' = [steps EXCEPT ![msg[w]] = outcome]
    /\ Goto(w, "dispatch")
    /\ UNCHANGED <<task, enqueued, approval, round, reportVars, sentVars, jobVars, lost, faults>>

\* The database raises instead: another session fails the step, which may leave the
\* plan with a success or without, and the job returns; or that session raises too,
\* and the lease is orphaned.
StepRaises(w) ==
    /\ pc[w] = "tool"
    /\ Fault("exception")
    /\ \E outcome \in {"completed", "failed", "stuck"} :
          steps' = [steps EXCEPT ![msg[w]] = outcome]
    /\ lost' = TRUE
    /\ End(w)
    /\ UNCHANGED <<task, enqueued, approval, round, reportVars, sentVars>>

StepsOver == \A k \in Plans : steps[k] \in {"none"} \cup Over
StepSucceeded == \E k \in Plans : steps[k] = "completed"

\* transition, then commit, then the message of the next stage.
\* Variant: from whatever status.
AnyStatus(from) == task # "none"

InStatus(from) == task = from

CheckSteps(w) ==
    /\ pc[w] = "check"
    /\ IF StepsOver /\ StepSucceeded /\ InStatus("running")
       THEN /\ task' = "synthesizing"
            /\ CommitThenSend(w, {"synthesize"}, "sendStage")
       ELSE End(w) /\ UNCHANGED task
    /\ UNCHANGED <<enqueued, approval, steps, round, reportVars, sentVars, lost, faults>>

----------------------------------------------------------------------------
(***************************************************************************)
(* synthesize_research_task.                                               *)
(***************************************************************************)

\* _next_version reads the newest version, once the model has answered...
Draft(w) ==
    /\ Starts(w, "synthesize")
    /\ seen' = [seen EXCEPT ![w].versions = Len(reports)]
    /\ Goto(w, "draft")
    /\ UNCHANGED <<taskVars, reportVars, sentVars, msg, tries, out, lost, faults>>

\* ...and the insertion of the next one raises when somebody else has inserted it.
CommitDraft(w) ==
    /\ pc[w] = "draft"
    /\ IF seen[w].versions = Len(reports)
       THEN reports' = Append(reports, "draft") /\ Goto(w, "drafted") /\ UNCHANGED jobVars
       ELSE End(w) /\ UNCHANGED reports
    /\ UNCHANGED <<taskVars, delivery, received, sentVars, lost, faults>>

QueueValidation(w) ==
    /\ pc[w] = "drafted"
    /\ IF InStatus("synthesizing")
       THEN /\ task' = "validating"
            /\ CommitThenSend(w, {"validate"}, "sendStage")
       ELSE End(w) /\ UNCHANGED task
    /\ UNCHANGED <<enqueued, approval, steps, round, reportVars, sentVars, lost, faults>>

----------------------------------------------------------------------------
(***************************************************************************)
(* validate_research_task: the review commits its findings, and then its   *)
(* decision is carried out with the task as the review's session loaded it.*)
(***************************************************************************)
Review(w) ==
    /\ Starts(w, "validate")
    /\ seen' = [seen EXCEPT ![w] = [@ EXCEPT !.status = task, !.round = round]]
    /\ Goto(w, "review")
    /\ UNCHANGED <<taskVars, reportVars, sentVars, msg, tries, out, lost, faults>>

\* complete_and_queue_delivery marks every version of the task as validated.
\* Variant: the task is completed and the reports are forgotten.
LeftAsDrafts == reports

AllValidated == [v \in DOMAIN reports |-> "validated"]

\* "pass"; or "repair" without anything to look up, which ends in the same call.
ReviewPasses(w) ==
    /\ pc[w] = "review"
    /\ IF InStatus("validating")
       THEN /\ task' = "completed"
            /\ reports' = AllValidated
            /\ CommitThenSend(w, {"deliver"}, "sendStage")
       ELSE End(w) /\ UNCHANGED <<task, reports>>
    /\ UNCHANGED <<enqueued, approval, steps, round, delivery, received, sentVars, lost, faults>>

\* "repair" with queries, while there are rounds: one transaction with the steps of
\* a new plan version, the round and the transition.
ReviewRepairs(w) ==
    /\ pc[w] = "review"
    /\ seen[w].round < MaxRounds
    /\ IF InStatus("validating")
       THEN /\ task' = "running"
            /\ round' = seen[w].round + 1
            /\ steps' = [steps EXCEPT !["repair"] = "pending"]
            /\ CommitThenSend(w, {"repair"}, "sendStage")
       ELSE End(w) /\ UNCHANGED <<task, round, steps>>
    /\ UNCHANGED <<enqueued, approval, reportVars, sentVars, lost, faults>>

\* "fail", or "repair" after the last round: mark_failed writes the status unless the
\* session already saw it failed.
ReviewFails(w) ==
    /\ pc[w] = "review"
    /\ task' = IF seen[w].status = "failed" THEN task ELSE "failed"
    /\ End(w)
    /\ UNCHANGED <<enqueued, approval, steps, round, reportVars, sentVars, lost, faults>>

----------------------------------------------------------------------------
(***************************************************************************)
(* execute_delivery_job: up to MaxTries attempts, each with its session.   *)
(***************************************************************************)
Validated == {v \in DOMAIN reports : reports[v] = "validated"}

\* scalar_one_or_none raises when it finds more than one.
OneValidated == Cardinality(Validated) = 1

\* Variant: the last attempt is retried.
RetriesOnceMore(w) ==
    IF tries[w] = MaxTries
    THEN End(w)
    ELSE /\ tries' = [tries EXCEPT ![w] = @ + 1]
         /\ Goto(w, "start")
         /\ UNCHANGED <<msg, seen, out>>

AttemptFails(w) ==
    IF tries[w] + 1 = MaxTries
    THEN End(w)
    ELSE /\ tries' = [tries EXCEPT ![w] = @ + 1]
         /\ Goto(w, "start")
         /\ UNCHANGED <<msg, seen, out>>

\* The attempt loads the delivery row, and nothing is left to do if it says so;
\* otherwise it goes for the row's lock with a validated report.
DeliverStarts(w) ==
    /\ Starts(w, "deliver")
    /\ IF delivery = "delivered" THEN End(w)
       ELSE IF OneValidated THEN Goto(w, "lock") /\ UNCHANGED jobVars
       ELSE AttemptFails(w)
    /\ UNCHANGED <<taskVars, reportVars, sentVars, lost, faults>>

\* convert_open_userid raises.
ConvertRaises(w) ==
    /\ pc[w] = "lock"
    /\ Fault("send")
    /\ AttemptFails(w)
    /\ UNCHANGED <<taskVars, reportVars, sentVars, lost>>

\* SELECT ... FOR UPDATE returns once nobody else holds the row.  The session keeps
\* the row as it loaded it first, so the status it looks at again is the old one.
LockDelivery(w) ==
    /\ pc[w] = "lock"
    /\ \A v \in Workers : pc[v] # "deliver"
    /\ Goto(w, "deliver")
    /\ UNCHANGED <<taskVars, reportVars, sentVars, jobVars, lost, faults>>

\* Every part is sent.
DeliverSucceeds(w) ==
    /\ pc[w] = "deliver"
    /\ received' = received + 1
    /\ delivery' = "delivered"
    /\ End(w)
    /\ UNCHANGED <<taskVars, reports, sentVars, lost, faults>>

\* A part is refused, the first one or a later one.
\* Variant: the row says what it would have said.
SaidDelivered == "delivered"

SaidFailed == "failed"

DeliverFails(w) ==
    /\ pc[w] = "deliver"
    /\ Fault("send")
    /\ received' \in {received, received + 1}
    /\ delivery' = SaidFailed
    /\ AttemptFails(w)
    /\ UNCHANGED <<taskVars, reports, sentVars, lost>>

----------------------------------------------------------------------------
(***************************************************************************)
(* Errors nobody handles, crashes, and messages delivered again.           *)
(***************************************************************************)

\* The model, the validator or the database raises where the job or the request does
\* not handle it: the transaction is rolled back, and the message acknowledged.
JobRaises(p) ==
    /\ \/ Starts(p, "plan") /\ task = "submitted"
       \/ \E k \in Plans : Starts(p, k) /\ steps[k] = "running"
       \/ Starts(p, "synthesize")
       \/ Starts(p, "validate")
       \/ pc[p] \in {"dispatch", "check", "draft", "drafted", "review", "markFailed"}
    /\ Fault("exception")
    /\ lost' = TRUE
    /\ End(p)
    /\ UNCHANGED <<taskVars, reportVars, sentVars>>

\* The database raises in a delivery, perhaps after parts of the report were sent.  The
\* attempt has failed; or the commit that ends it raises too, and the job with it.
DeliveryRaises(w) ==
    /\ pc[w] \in {"lock", "deliver"} \/ Starts(w, "deliver")
    /\ Fault("exception")
    /\ received' \in IF pc[w] = "deliver" THEN {received, received + 1} ELSE {received}
    /\ AttemptFails(w) \/ End(w)
    /\ UNCHANGED <<taskVars, reports, delivery, sentVars, lost>>

\* A worker's message that was not acknowledged is delivered again.  What had been
\* committed stays: a job redelivered after its commit finds the status changed and
\* does not send what the commit was for.
Crash(p) ==
    /\ pc[p] \notin {"idle", "done"}
    /\ Fault("crash")
    /\ queue' = [m \in Messages |-> IF p \in Workers /\ msg[p] = m THEN queue[m] + 1
                                    ELSE queue[m]]
    /\ received' \in IF pc[p] = "deliver" THEN {received, received + 1} ELSE {received}
    /\ lost' = (lost \/ pc[p] \in {"enqueue", "markFailed", "dispatch", "sendSteps",
                                  "sendStage", "check"})
    /\ End(p)
    /\ UNCHANGED <<taskVars, reports, delivery, sends>>

\* The job runs longer than the stream's idle timeout.
Redeliver(w) ==
    /\ pc[w] # "idle"
    /\ Fault("redelivery")
    /\ queue' = [queue EXCEPT ![msg[w]] = @ + 1]
    /\ UNCHANGED <<taskVars, reportVars, sends, pc, jobVars, lost>>

----------------------------------------------------------------------------
Submit(c) ==
    \/ SubmitCreates(c)
    \/ SubmitEnqueues(c)
    \/ SubmitEnqueueRaises(c)
    \/ SubmitMarks(c)
    \/ SubmitMarkRaises(c)
    \/ SubmitMarksFailed(c)

SendAll(p) ==
    \/ Dispatch(p)
    \/ \E m \in Messages : Send(p, m)
    \/ SendRaises(p)

Work(w) ==
    \/ \E m \in Messages : Receive(w, m)
    \/ PlanTask(w)
    \/ PlanTooLate(w)
    \/ \E k \in Plans : StepStarts(w, k)
    \/ StepEnds(w)
    \/ StepRaises(w)
    \/ CheckSteps(w)
    \/ Draft(w)
    \/ CommitDraft(w)
    \/ QueueValidation(w)
    \/ Review(w)
    \/ ReviewPasses(w)
    \/ ReviewRepairs(w)
    \/ ReviewFails(w)
    \/ DeliverStarts(w)
    \/ ConvertRaises(w)
    \/ LockDelivery(w)
    \/ DeliverSucceeds(w)
    \/ DeliverFails(w)

Next ==
    \/ \E c \in Callbacks : Submit(c)
    \/ \E d \in Deciders : Decide(d)
    \/ Approve
    \/ Reject
    \/ \E w \in Workers : Work(w) \/ Redeliver(w)
    \/ \E p \in Workers \cup Deciders : SendAll(p)
    \/ \E w \in Workers : DeliveryRaises(w)
    \/ \E p \in Procs : JobRaises(p) \/ Crash(p)

Spec == Init /\ [][Next]_vars

\* Jobs and requests that began go on, and the stream is read in its order, so no message
\* in it is passed over for ever.  No member has to decide, and nothing has to go wrong.
Fairness ==
    /\ \A w \in Workers : WF_vars(Work(w) \/ SendAll(w))
    /\ \A m \in Messages : SF_vars(\E w \in Workers : Receive(w, m))
    /\ \A c \in Callbacks : WF_vars(pc[c] # "idle" /\ Submit(c))
    /\ WF_vars(Approve \/ SendAll(Approver))
    /\ WF_vars(Reject)

FairSpec == Spec /\ Fairness

----------------------------------------------------------------------------
(***************************************************************************)
(* Properties.                                                             *)
(***************************************************************************)
PCs == {"idle", "done", "enqueue", "mark", "markFailed", "decide", "start", "dispatch",
        "sendSteps", "sendStage", "tool", "check", "draft", "drafted", "review",
        "lock", "deliver"}

\* Every variable holds a value of its column or of its kind.
TypeOK ==
    /\ task \in TaskStatuses
    /\ enqueued \in BOOLEAN
    /\ approval \in {"none", "pending", "approved", "rejected"}
    /\ steps \in [Plans -> {"none", "pending", "ready", "running", "stuck"} \cup Over]
    /\ round \in 0..MaxRounds
    /\ reports \in Seq({"draft", "validated"})
    /\ delivery \in {"none", "pending", "delivered", "failed"}
    /\ received \in Nat
    /\ queue \in [Messages -> Nat]
    /\ sends \in [Stages -> Nat]
    /\ pc \in [Procs -> PCs]
    /\ msg \in [Workers -> Messages \cup {None}]
    /\ seen \in [Workers -> [status : TaskStatuses, round : 0..MaxRounds, versions : Nat]]
    /\ tries \in [Workers -> 0..MaxTries-1]
    /\ out \in [Procs -> SUBSET Messages]
    /\ lost \in BOOLEAN
    /\ faults \in Nat

\* Message m is in the stream, or p is about to send it.
OnItsWay(m) == queue[m] > 0 \/ \E p \in Procs : m \in out[p]

\* A worker has m's job in hand, in one of the phases before its commit.
InHand(m, phases) == \E w \in Workers : msg[w] = m /\ pc[w] \in phases

\* While a decision on the plan is pending, nothing of the plan has begun: no step is
\* claimable, dispatched or run, and nothing is written (request_approval and the
\* root steps it leaves PENDING).
NothingBeforeApproval ==
    approval = "pending" =>
        /\ \A k \in Plans : steps[k] \in {"none", "pending"} /\ ~OnItsWay(k)
        /\ reports = <<>>

\* Who moves the task on from the status it has.
HasOwner ==
    CASE task = "submitted" ->
            \/ OnItsWay("plan") \/ InHand("plan", {"start"})
            \/ \E c \in Callbacks : pc[c] \in {"enqueue", "markFailed"}
      [] task = "awaiting_approval" -> approval = "pending"
      [] task = "running" ->
            \/ \E k \in Plans : \/ steps[k] = "running" /\ OnItsWay(k)
                                \/ steps[k] = "running" /\ InHand(k, {"start"})
                                \/ InHand(k, {"tool", "dispatch", "sendSteps", "check"})
            \/ \E p \in Procs : pc[p] = "dispatch" /\ \E k \in Plans : steps[k] = "ready"
      [] task = "synthesizing" ->
            OnItsWay("synthesize") \/ InHand("synthesize", {"start", "draft", "drafted"})
      [] task = "validating" -> OnItsWay("validate") \/ InHand("validate", {"start", "review"})
      [] OTHER -> TRUE

\* Where the code may leave a running task for good: no step succeeded, the steps of a
\* repair wait to be made READY, or the steps are stuck (a join whose dependencies
\* completed at the same time, a retry nobody dispatches, an orphaned lease).
Stalled ==
    /\ task = "running"
    /\ \/ StepsOver /\ ~StepSucceeded
       \/ steps["repair"] = "pending"
       \/ \E k \in Plans : steps[k] = "stuck"

\* A task in an active status always has somebody to move it on, also after crashes
\* and duplicate deliveries, unless a job or a request ended before it committed or
\* sent what it was for (lost: a crash between a commit and its message, a send or the
\* database that raised), or the task is stalled: those are all the ways to strand it.
AlwaysOwned == lost \/ Stalled \/ HasOwner

\* No stage is started twice: however often a job is delivered and whoever runs it,
\* the guarded transition lets one of them send the next message of each round.
StageSentOnce ==
    \A m \in Stages : sends[m] + Cardinality({p \in Procs : m \in out[p]}) <= 1 + round

\* The delivery row never claims a report that did not arrive, and nothing arrives
\* that no review validated (deliver).
DeliveryHonest ==
    /\ delivery = "delivered" => received > 0
    /\ received > 0 => Validated # {}

\* Every task that is asked for comes before a member, ends, or is left where Stalled
\* and lost say: it never waits for something that nobody does.
Settles ==
    task # "none" ~> task \in Over \cup {"awaiting_approval"} \/ lost \/ Stalled

\* When nothing goes wrong a completed task's report reaches the user.
CompletedIsDelivered == task = "completed" ~> delivery = "delivered" \/ faults > 0
============================================================================
