---------------------- MODULE ResearchPipeline_proofs ----------------------
(***************************************************************************)
(* Theorems about ResearchPipeline, for every number of workers and of     *)
(* deliveries of the chat message, every number of repair rounds and of    *)
(* delivery attempts, and every fault; the last one excludes messages that *)
(* the stream delivers twice.                                              *)
(***************************************************************************)
EXTENDS ResearchPipeline, FiniteSetTheorems, SequenceTheorems, TLAPS

(***************************************************************************)
(* Type correctness.                                                       *)
(***************************************************************************)
LEMMA InitTypeOK == Init => TypeOK
<1> SUFFICES ASSUME Init PROVE TypeOK
  OBVIOUS
<1>1. NothingSeen \in [status : TaskStatuses, round : 0..MaxRounds, versions : Nat]
  BY PipelineAssumption DEF NothingSeen, TaskStatuses
<1>2. reports \in Seq({"draft", "validated"})
  BY DEF Init
<1>3. 0 \in 0..MaxRounds /\ 0 \in 0..MaxTries-1
  BY PipelineAssumption
<1>4. /\ queue \in [Messages -> Nat] /\ sends \in [Stages -> Nat]
      /\ pc \in [Procs -> PCs]
      /\ msg \in [Workers -> Messages \cup {None}]
      /\ out \in [Procs -> SUBSET Messages]
  BY DEF Init, PCs
<1>5. /\ seen \in [Workers -> [status : TaskStatuses, round : 0..MaxRounds, versions : Nat]]
      /\ tries \in [Workers -> 0..MaxTries-1]
  BY <1>1, <1>3 DEF Init
<1> QED
  BY <1>2, <1>3, <1>4, <1>5 DEF Init, TypeOK, TaskStatuses

\* What the end of a job or of a request leaves.
LEMMA EndFacts ==
  ASSUME TypeOK, NEW p \in Procs, End(p)
  PROVE  /\ pc'[p] = IF p \in Workers THEN "idle" ELSE "done"
         /\ p \in Workers => msg'[p] = None
         /\ out'[p] = {}
         /\ \A q \in Procs : q # p => pc'[q] = pc[q] /\ out'[q] = out[q]
         /\ \A w \in Workers : w # p => msg'[w] = msg[w] /\ seen'[w] = seen[w]
  BY DEF End, Goto, TypeOK

LEMMA EndTypeOK ==
  ASSUME TypeOK, NEW p \in Procs, End(p)
  PROVE  /\ pc' \in [Procs -> PCs]
         /\ msg' \in [Workers -> Messages \cup {None}]
         /\ seen' \in [Workers -> [status : TaskStatuses, round : 0..MaxRounds, versions : Nat]]
         /\ tries' \in [Workers -> 0..MaxTries-1]
         /\ out' \in [Procs -> SUBSET Messages]
<1>1. NothingSeen \in [status : TaskStatuses, round : 0..MaxRounds, versions : Nat]
  BY PipelineAssumption DEF NothingSeen, TaskStatuses
<1>2. pc' \in [Procs -> PCs]
  BY DEF End, Goto, TypeOK, PCs
<1>3. msg' \in [Workers -> Messages \cup {None}] /\ out' \in [Procs -> SUBSET Messages]
  BY DEF End, TypeOK
<1>4. seen' \in [Workers -> [status : TaskStatuses, round : 0..MaxRounds, versions : Nat]]
  BY <1>1 DEF End, TypeOK
<1>5. tries' \in [Workers -> 0..MaxTries-1]
  BY PipelineAssumption DEF End, TypeOK
<1> QED
  BY <1>2, <1>3, <1>4, <1>5

LEMMA NextTypeOK == TypeOK /\ [Next]_vars => TypeOK'
<1> SUFFICES ASSUME TypeOK, [Next]_vars PROVE TypeOK'
  OBVIOUS
<1> USE DEF vars, taskVars, reportVars, sentVars, jobVars, Procs, Deciders
<1> DEFINE Statuses == {"none", "pending", "ready", "running", "stuck"} \cup Over
           Jobs == /\ pc \in [Procs -> PCs]
                   /\ msg \in [Workers -> Messages \cup {None}]
                   /\ seen \in [Workers -> [status : TaskStatuses, round : 0..MaxRounds,
                                            versions : Nat]]
                   /\ tries \in [Workers -> 0..MaxTries-1]
                   /\ out \in [Procs -> SUBSET Messages]
\* The job variables of one process, in the ways the actions move them.
<1>e. \A p \in Procs : End(p) => Jobs'
  BY EndTypeOK
<1>g. \A p \in Procs, l \in PCs : Goto(p, l) /\ UNCHANGED jobVars => Jobs'
  BY DEF Goto, TypeOK
<1>c. \A p \in Procs, ms \in SUBSET Messages, l \in PCs : CommitThenSend(p, ms, l) => Jobs'
  BY DEF CommitThenSend, Goto, TypeOK
<1>a. \A w \in Workers : AttemptFails(w) => Jobs'
  <2> SUFFICES ASSUME NEW w \in Workers, AttemptFails(w) PROVE Jobs'
    OBVIOUS
  <2>1. CASE tries[w] + 1 = MaxTries
    BY <2>1, <1>e DEF AttemptFails
  <2>2. CASE tries[w] + 1 # MaxTries
    <3>1. tries[w] + 1 \in 0..MaxTries-1 /\ "start" \in PCs
      <4>1. tries[w] \in 0..MaxTries-1
        BY DEF TypeOK
      <4> QED
        BY <2>2, <4>1, PipelineAssumption DEF PCs
    <3> QED
      BY <2>2, <3>1 DEF AttemptFails, Goto, TypeOK
  <2> QED
    BY <2>1, <2>2
<1>o. \A p \in Procs : \A l : GoOn(p, l) => Jobs'
  <2> SUFFICES ASSUME NEW p \in Procs, NEW l, GoOn(p, l) PROVE Jobs'
    OBVIOUS
  <2>1. CASE End(p)
    BY <2>1, <1>e
  <2>2. CASE ~End(p)
    BY <2>2 DEF GoOn, Goto, TypeOK, PCs
  <2> QED
    BY <2>1, <2>2
<1>f. \A kind : Fault(kind) => faults' \in Nat
  BY DEF Fault, TypeOK
<1>q. \A m \in Messages : Enqueue(m) => queue' \in [Messages -> Nat] /\ sends' \in [Stages -> Nat]
  BY DEF Enqueue, TypeOK
<1>l. {"done", "enqueue", "mark", "markFailed", "decide", "start", "dispatch", "sendSteps",
       "sendStage", "tool", "check", "draft", "drafted", "review", "lock", "deliver"}
        \subseteq PCs
  BY DEF PCs
<1>p. {"first", "repair", "synthesize", "validate", "deliver", "plan"} = Messages
      /\ Plans \subseteq Messages /\ "first" \in Plans /\ "repair" \in Plans
  BY DEF Messages, Plans, Stages
<1>s. {"none", "submitted", "awaiting_approval", "running", "synthesizing", "validating",
       "completed", "failed", "cancelled"} = TaskStatuses
      /\ {"completed", "failed", "cancelled"} = Over
  BY DEF TaskStatuses, Over
<1> DEFINE Rest == /\ task \in TaskStatuses
                   /\ enqueued \in BOOLEAN
                   /\ approval \in {"none", "pending", "approved", "rejected"}
                   /\ steps \in [Plans -> Statuses]
                   /\ round \in 0..MaxRounds
                   /\ reports \in Seq({"draft", "validated"})
                   /\ delivery \in {"none", "pending", "delivered", "failed"}
                   /\ received \in Nat
                   /\ queue \in [Messages -> Nat]
                   /\ sends \in [Stages -> Nat]
                   /\ lost \in BOOLEAN
                   /\ faults \in Nat
<1>t. Rest /\ Jobs /\ (Rest' /\ Jobs' => TypeOK')
  BY DEF TypeOK
<1> HIDE DEF Jobs
<1>1. ASSUME NEW c \in Callbacks, Submit(c) PROVE TypeOK'
  <2>1. CASE SubmitCreates(c)
    <3>1. Jobs'
      BY <2>1, <1>g, <1>l DEF SubmitCreates
    <3> QED
      BY <2>1, <3>1, <1>t, <1>s DEF SubmitCreates
  <2>2. CASE SubmitEnqueues(c)
    <3>1. Jobs'
      BY <2>2, <1>g, <1>l DEF SubmitEnqueues
    <3> QED
      BY <2>2, <3>1, <1>t, <1>q, <1>p DEF SubmitEnqueues
  <2>3. CASE SubmitEnqueueRaises(c)
    <3>1. Jobs'
      BY <2>3, <1>g, <1>l DEF SubmitEnqueueRaises
    <3> QED
      BY <2>3, <3>1, <1>t, <1>q, <1>p, <1>f DEF SubmitEnqueueRaises
  <2>4. CASE SubmitMarks(c) \/ SubmitMarksFailed(c)
    <3>1. Jobs'
      BY <2>4, <1>e DEF SubmitMarks, SubmitMarksFailed
    <3> QED
      BY <2>4, <3>1, <1>t, <1>s DEF SubmitMarks, SubmitMarksFailed
  <2>5. CASE SubmitMarkRaises(c)
    <3>1. Jobs'
      BY <2>5, <1>g, <1>l DEF SubmitMarkRaises
    <3> QED
      BY <2>5, <3>1, <1>t, <1>f DEF SubmitMarkRaises
  <2> QED
    BY <1>1, <2>1, <2>2, <2>3, <2>4, <2>5 DEF Submit
<1>2. ASSUME NEW d \in Deciders, Decide(d) PROVE TypeOK'
  <2>1. Jobs'
    BY <1>2, <1>g, <1>l DEF Decide
  <2> QED
    BY <1>2, <2>1, <1>t DEF Decide
<1>3. CASE Approve
  <2>1. Jobs'
    BY <1>3, <1>c, <1>l DEF Approve
  <2> QED
    BY <1>3, <2>1, <1>t, <1>s DEF Approve, RootsReady
<1>4. CASE Reject
  <2>1. Jobs'
    BY <1>4, <1>e DEF Reject
  <2> QED
    BY <1>4, <2>1, <1>t, <1>s DEF Reject
<1>5. ASSUME NEW w \in Workers, Work(w) PROVE TypeOK'
  <2>1. CASE \E m \in Messages : Receive(w, m)
    <3>1. Jobs'
      BY <2>1, <1>t, <1>l DEF Receive, Goto, Jobs
    <3> QED
      BY <2>1, <3>1, <1>t DEF Receive
  <2>2. CASE PlanTask(w)
    <3>1. Jobs'
      BY <2>2, <1>c, <1>l DEF PlanTask
    <3>2. PICK needed \in BOOLEAN : PlanCommitted(needed)
      BY <2>2 DEF PlanTask
    <3> QED
      BY <2>2, <3>1, <3>2, <1>t, <1>s, <1>p DEF PlanTask, PlanCommitted
  <2>3. CASE PlanTooLate(w)
    BY <2>3, <1>e, <1>t DEF PlanTooLate
  <2>5. ASSUME NEW k \in Plans, StepStarts(w, k) PROVE TypeOK'
    <3>1. Jobs'
      BY <2>5, <1>e, <1>g, <1>l DEF StepStarts
    <3> QED
      BY <2>5, <3>1, <1>t DEF StepStarts
  <2>6. CASE StepEnds(w)
    <3>1. Jobs'
      BY <2>6, <1>g, <1>l DEF StepEnds
    <3> QED
      BY <2>6, <3>1, <1>t, <1>s DEF StepEnds
  <2>7. CASE StepRaises(w)
    <3>1. Jobs'
      BY <2>7, <1>e DEF StepRaises
    <3> QED
      BY <2>7, <3>1, <1>t, <1>s, <1>f DEF StepRaises
  <2>8. CASE CheckSteps(w)
    <3>1. Jobs'
      BY <2>8, <1>e, <1>c, <1>l, <1>p DEF CheckSteps
    <3> QED
      BY <2>8, <3>1, <1>t, <1>s DEF CheckSteps
  <2>9. CASE Draft(w)
    <3>1. Len(reports) \in Nat
      BY <1>t
    <3>2. Jobs'
      BY <2>9, <3>1, <1>t, <1>l DEF Draft, Goto, Jobs
    <3> QED
      BY <2>9, <3>2, <1>t DEF Draft
  <2>10. CASE CommitDraft(w)
    <3>1. Jobs'
      BY <2>10, <1>e, <1>g, <1>l DEF CommitDraft
    <3>2. Append(reports, "draft") \in Seq({"draft", "validated"})
      BY <1>t, AppendProperties
    <3> QED
      BY <2>10, <3>1, <3>2, <1>t DEF CommitDraft
  <2>11. CASE QueueValidation(w)
    <3>1. Jobs'
      BY <2>11, <1>e, <1>c, <1>l, <1>p DEF QueueValidation
    <3> QED
      BY <2>11, <3>1, <1>t, <1>s DEF QueueValidation
  <2>12. CASE Review(w)
    <3>1. Jobs'
      BY <2>12, <1>t, <1>l DEF Review, Goto, Jobs
    <3> QED
      BY <2>12, <3>1, <1>t DEF Review
  <2>13. CASE ReviewPasses(w)
    <3>1. Jobs'
      BY <2>13, <1>e, <1>c, <1>l, <1>p DEF ReviewPasses
    <3>2. AllValidated \in Seq({"draft", "validated"})
      BY <1>t DEF AllValidated
    <3> QED
      BY <2>13, <3>1, <3>2, <1>t, <1>s DEF ReviewPasses
  <2>14. CASE ReviewRepairs(w)
    <3>1. Jobs'
      BY <2>14, <1>e, <1>c, <1>l, <1>p DEF ReviewRepairs
    <3>2. seen[w].round + 1 \in 0..MaxRounds
      BY <2>14, <1>t, PipelineAssumption DEF ReviewRepairs, Jobs
    <3> QED
      BY <2>14, <3>1, <3>2, <1>t, <1>s, <1>p DEF ReviewRepairs
  <2>15. CASE ReviewFails(w)
    <3>1. Jobs'
      BY <2>15, <1>e DEF ReviewFails
    <3> QED
      BY <2>15, <3>1, <1>t, <1>s DEF ReviewFails
  <2>16. CASE DeliverStarts(w)
    <3>1. Jobs'
      BY <2>16, <1>e, <1>g, <1>a, <1>l DEF DeliverStarts
    <3> QED
      BY <2>16, <3>1, <1>t DEF DeliverStarts
  <2>17. CASE ConvertRaises(w) \/ DeliverFails(w)
    <3>1. Jobs'
      BY <2>17, <1>a DEF ConvertRaises, DeliverFails
    <3> QED
      BY <2>17, <3>1, <1>t, <1>f DEF ConvertRaises, DeliverFails, SaidFailed
  <2>18. CASE LockDelivery(w)
    BY <2>18, <1>g, <1>l, <1>t DEF LockDelivery
  <2>19. CASE DeliverSucceeds(w)
    <3>1. Jobs'
      BY <2>19, <1>e DEF DeliverSucceeds
    <3> QED
      BY <2>19, <3>1, <1>t DEF DeliverSucceeds
  <2> QED
    BY <1>5, <2>1, <2>2, <2>3, <2>5, <2>6, <2>7, <2>8, <2>9, <2>10, <2>11, <2>12,
       <2>13, <2>14, <2>15, <2>16, <2>17, <2>18, <2>19 DEF Work
<1>6. ASSUME NEW w \in Workers, Redeliver(w) PROVE TypeOK'
  <2>1. queue' \in [Messages -> Nat]
    <3>1. CASE msg[w] \in Messages
      BY <1>6, <3>1, <1>t DEF Redeliver
    <3>2. CASE msg[w] \notin Messages
      BY <1>6, <3>2, <1>t DEF Redeliver
    <3> QED
      BY <3>1, <3>2
  <2>2. Jobs'
    BY <1>6, <1>t DEF Redeliver, Jobs
  <2> QED
    BY <1>6, <2>1, <2>2, <1>t, <1>f DEF Redeliver
<1>7. ASSUME NEW p \in Procs, SendAll(p) PROVE TypeOK'
  <2>1. CASE Dispatch(p)
    <3>1. Jobs'
      BY <2>1, <1>o, <1>c, <1>l, <1>p DEF Dispatch
    <3> QED
      BY <2>1, <3>1, <1>t, <1>p DEF Dispatch
  <2>2. ASSUME NEW m \in Messages, Send(p, m) PROVE TypeOK'
    <3>1. CASE out[p] = {m}
      BY <2>2, <3>1, <1>o, <1>q, <1>t DEF Send
    <3>2. CASE out[p] # {m}
      <4>1. Jobs'
        BY <2>2, <3>2, <1>t DEF Send, Jobs
      <4> QED
        BY <2>2, <4>1, <1>q, <1>t DEF Send
    <3> QED
      BY <3>1, <3>2
  <2>3. CASE SendRaises(p)
    <3>1. Jobs'
      BY <2>3, <1>e DEF SendRaises
    <3>2. PICK left \in {"ready", "stuck"} :
            steps' = [k \in Plans |->
                        IF pc[p] = "sendSteps" /\ k \in out[p] /\ steps[k] = "running"
                        THEN left ELSE steps[k]]
      BY <2>3 DEF SendRaises
    <3>3. steps' \in [Plans -> Statuses]
      BY <3>2, <1>t
    <3> QED
      BY <2>3, <3>1, <3>3, <1>t, <1>f DEF SendRaises
  <2> QED
    BY <1>7, <2>1, <2>2, <2>3 DEF SendAll
<1>8. ASSUME NEW p \in Procs, Crash(p) PROVE TypeOK'
  <2>1. Jobs'
    BY <1>8, <1>e DEF Crash
  <2>2. queue' \in [Messages -> Nat] /\ received' \in Nat /\ lost' \in BOOLEAN
    BY <1>8, <1>t DEF Crash
  <2> QED
    BY <1>8, <2>1, <2>2, <1>t, <1>f DEF Crash
<1>9. CASE UNCHANGED vars
  BY <1>9 DEF TypeOK
<1>10. ASSUME NEW p \in Procs, JobRaises(p) PROVE TypeOK'
  BY <1>10, <1>e, <1>t, <1>f DEF JobRaises
<1>11. ASSUME NEW w \in Workers, DeliveryRaises(w) PROVE TypeOK'
  <2>1. Jobs'
    BY <1>11, <1>a, <1>e DEF DeliveryRaises
  <2>2. received' \in Nat
    BY <1>11, <1>t DEF DeliveryRaises
  <2> QED
    BY <1>11, <2>1, <2>2, <1>t, <1>f DEF DeliveryRaises
<1> QED
  BY <1>1, <1>2, <1>3, <1>4, <1>5, <1>6, <1>7, <1>8, <1>9, <1>10, <1>11 DEF Next

\* Every variable keeps its type, whatever goes wrong.
THEOREM TypeCorrect == Spec => []TypeOK
  BY InitTypeOK, NextTypeOK, PTL DEF Spec

----------------------------------------------------------------------------
(***************************************************************************)
(* What a process holds at each point of its job.                          *)
(***************************************************************************)
Phases ==
    /\ \A w \in Workers :
        /\ pc[w] = "idle" <=> msg[w] = None
        /\ pc[w] = "tool" => msg[w] \in Plans
        /\ pc[w] \in {"draft", "drafted"} => msg[w] = "synthesize"
        /\ pc[w] = "review" => msg[w] = "validate"
        /\ pc[w] \in {"lock", "deliver"} => msg[w] = "deliver"
    /\ \A p \in Procs : out[p] # {} => pc[p] \in {"sendSteps", "sendStage"}

LEMMA EndPhases ==
  ASSUME TypeOK, Phases, NEW p \in Procs, End(p)
  PROVE  Phases'
  BY EndFacts DEF Phases, Procs

\* A process goes on with the message and the sends it has.
LEMMA GotoPhases ==
  ASSUME TypeOK, Phases, NEW p \in Procs, NEW l, Goto(p, l), UNCHANGED <<msg, out>>,
         out[p] # {} => l \in {"sendSteps", "sendStage"},
         p \in Workers => /\ l # "idle" /\ msg[p] # None
                          /\ l = "tool" => msg[p] \in Plans
                          /\ l \in {"draft", "drafted"} => msg[p] = "synthesize"
                          /\ l = "review" => msg[p] = "validate"
                          /\ l \in {"lock", "deliver"} => msg[p] = "deliver"
  PROVE  Phases'
  BY DEF Phases, Goto, TypeOK, Procs

LEMMA CommitPhases ==
  ASSUME TypeOK, Phases, NEW p \in Procs, NEW ms \in SUBSET Messages,
         NEW l \in {"dispatch", "sendSteps", "sendStage"}, CommitThenSend(p, ms, l),
         p \in Workers => pc[p] # "idle",
         l = "dispatch" => ms = {}
  PROVE  Phases'
  BY DEF Phases, CommitThenSend, Goto, TypeOK, Procs

LEMMA GoOnPhases ==
  ASSUME TypeOK, Phases, NEW p \in Procs, NEW l, GoOn(p, l), p \in Workers => pc[p] # "idle"
  PROVE  Phases'
<1>1. CASE End(p)
  BY <1>1, EndPhases
<1>2. CASE ~End(p)
  BY <1>2 DEF GoOn, Goto, Phases, TypeOK, Procs
<1> QED
  BY <1>1, <1>2

LEMMA AttemptPhases ==
  ASSUME TypeOK, Phases, NEW w \in Workers, AttemptFails(w), pc[w] \in {"start", "lock", "deliver"}
  PROVE  Phases'
<1>1. CASE End(w)
  BY <1>1, EndPhases DEF Procs
<1>2. CASE ~End(w)
  <2>1. Goto(w, "start") /\ UNCHANGED <<msg, out>> /\ out[w] = {} /\ msg[w] # None
    BY <1>2 DEF AttemptFails, Phases, Procs
  <2> QED
    BY <2>1, GotoPhases DEF Procs
<1> QED
  BY <1>1, <1>2

LEMMA NextPhases == TypeOK /\ Phases /\ [Next]_vars => Phases'
<1> SUFFICES ASSUME TypeOK, Phases, [Next]_vars PROVE Phases'
  OBVIOUS
<1> USE DEF vars, taskVars, reportVars, sentVars, jobVars, Procs, Deciders
<1>1. \A p \in Procs : pc[p] \notin {"sendSteps", "sendStage"} => out[p] = {}
  BY DEF Phases
<1>2. \A w \in Workers : pc[w] # "idle" => msg[w] # None
  BY DEF Phases
<1>3. \A m \in Messages : m # None
  BY PipelineAssumption
<1>4. /\ {} \in SUBSET Messages /\ {"synthesize"} \in SUBSET Messages
      /\ {"validate"} \in SUBSET Messages /\ {"deliver"} \in SUBSET Messages
      /\ {"repair"} \in SUBSET Messages
      /\ \A ms \in SUBSET Plans : ms \in SUBSET Messages
  BY DEF Messages, Plans, Stages
<1>5. Workers \cap Callbacks = {} /\ Workers \cap {Approver, Rejecter} = {}
  BY PipelineAssumption
<1>6. ASSUME NEW c \in Callbacks, Submit(c) PROVE Phases'
  <2>1. CASE SubmitCreates(c)
    <3>1. \E l : Goto(c, l)
      BY <2>1 DEF SubmitCreates
    <3> QED
      BY <2>1, <3>1, <1>1, <1>5, GotoPhases DEF SubmitCreates
  <2>2. CASE SubmitEnqueues(c)
    BY <2>2, <1>1, <1>5, GotoPhases DEF SubmitEnqueues
  <2>3. CASE SubmitEnqueueRaises(c)
    BY <2>3, <1>1, <1>5, GotoPhases DEF SubmitEnqueueRaises
  <2>4. CASE SubmitMarks(c) \/ SubmitMarksFailed(c)
    BY <2>4, EndPhases DEF SubmitMarks, SubmitMarksFailed
  <2>5. CASE SubmitMarkRaises(c)
    BY <2>5, <1>1, <1>5, GotoPhases DEF SubmitMarkRaises
  <2> QED
    BY <1>6, <2>1, <2>2, <2>3, <2>4, <2>5 DEF Submit
<1>7. ASSUME NEW d \in Deciders, Decide(d) PROVE Phases'
  BY <1>7, <1>1, <1>5, GotoPhases DEF Decide
<1>8. CASE Approve
  BY <1>8, <1>4, <1>5, CommitPhases DEF Approve
<1>9. CASE Reject
  BY <1>9, EndPhases DEF Reject
<1>10. ASSUME NEW w \in Workers, Work(w) PROVE Phases'
  <2>1. ASSUME NEW m \in Messages, Receive(w, m) PROVE Phases'
    <3>1. /\ pc'[w] = "start" /\ msg'[w] = m /\ out' = out /\ out[w] = {}
          /\ \A p \in Procs : p # w => pc'[p] = pc[p]
          /\ \A v \in Workers : v # w => msg'[v] = msg[v]
      BY <2>1, <1>1 DEF Receive, Goto, TypeOK
    <3> QED
      BY <3>1, <1>3 DEF Phases
  <2>2. CASE PlanTask(w)
    BY <2>2, <1>4, CommitPhases DEF PlanTask, Starts
  <2>3. CASE PlanTooLate(w) \/ StepRaises(w) \/ ReviewFails(w) \/ DeliverSucceeds(w)
    BY <2>3, EndPhases DEF PlanTooLate, StepRaises, ReviewFails, DeliverSucceeds
  <2>4. ASSUME NEW k \in Plans, StepStarts(w, k) PROVE Phases'
    <3>1. CASE End(w)
      BY <3>1, EndPhases
    <3>2. CASE ~End(w)
      BY <2>4, <3>2, <1>1, <1>2, GotoPhases DEF StepStarts, Starts
    <3> QED
      BY <3>1, <3>2
  <2>5. CASE StepEnds(w)
    BY <2>5, <1>1, <1>2, GotoPhases DEF StepEnds
  <2>6. CASE CheckSteps(w)
    BY <2>6, <1>4, EndPhases, CommitPhases DEF CheckSteps
  <2>7. CASE Draft(w)
    BY <2>7, <1>1, <1>2, GotoPhases DEF Draft, Starts
  <2>8. CASE CommitDraft(w)
    <3>1. CASE End(w)
      BY <3>1, EndPhases
    <3>2. CASE ~End(w)
      <4>1. msg[w] = "synthesize"
        BY <2>8 DEF CommitDraft, Phases
      <4> QED
        BY <2>8, <3>2, <4>1, <1>1, <1>2, GotoPhases DEF CommitDraft
    <3> QED
      BY <3>1, <3>2
  <2>9. CASE QueueValidation(w)
    BY <2>9, <1>4, EndPhases, CommitPhases DEF QueueValidation
  <2>10. CASE Review(w)
    BY <2>10, <1>1, <1>2, GotoPhases DEF Review, Starts
  <2>11. CASE ReviewPasses(w)
    BY <2>11, <1>4, EndPhases, CommitPhases DEF ReviewPasses
  <2>12. CASE ReviewRepairs(w)
    BY <2>12, <1>4, EndPhases, CommitPhases DEF ReviewRepairs
  <2>13. CASE DeliverStarts(w)
    <3>1. CASE End(w) \/ AttemptFails(w)
      BY <2>13, <3>1, EndPhases, AttemptPhases DEF DeliverStarts, Starts
    <3>2. CASE ~End(w) /\ ~AttemptFails(w)
      BY <2>13, <3>2, <1>1, <1>2, GotoPhases DEF DeliverStarts, Starts
    <3> QED
      BY <3>1, <3>2
  <2>14. CASE ConvertRaises(w) \/ DeliverFails(w)
    BY <2>14, AttemptPhases DEF ConvertRaises, DeliverFails
  <2>15. CASE LockDelivery(w)
    <3>1. msg[w] = "deliver"
      BY <2>15 DEF LockDelivery, Phases
    <3> QED
      BY <2>15, <3>1, <1>1, <1>2, GotoPhases DEF LockDelivery
  <2> QED
    BY <1>10, <2>1, <2>2, <2>3, <2>4, <2>5, <2>6, <2>7, <2>8, <2>9, <2>10, <2>11, <2>12,
       <2>13, <2>14, <2>15 DEF Work
<1>11. ASSUME NEW w \in Workers, Redeliver(w) PROVE Phases'
  BY <1>11 DEF Redeliver, Phases
<1>12. ASSUME NEW p \in Procs, SendAll(p) PROVE Phases'
  <2>1. CASE Dispatch(p)
    BY <2>1, <1>4, GoOnPhases, CommitPhases DEF Dispatch
  <2>2. ASSUME NEW m \in Messages, Send(p, m) PROVE Phases'
    <3>1. CASE out[p] = {m}
      BY <2>2, <3>1, GoOnPhases DEF Send
    <3>2. CASE out[p] # {m}
      BY <2>2, <3>2 DEF Send, Phases, TypeOK
    <3> QED
      BY <3>1, <3>2
  <2>3. CASE SendRaises(p)
    BY <2>3, EndPhases DEF SendRaises
  <2> QED
    BY <1>12, <2>1, <2>2, <2>3 DEF SendAll
<1>13. ASSUME NEW p \in Procs, Crash(p) PROVE Phases'
  BY <1>13, EndPhases DEF Crash
<1>14. CASE UNCHANGED vars
  BY <1>14 DEF Phases
<1>15. ASSUME NEW p \in Procs, JobRaises(p) PROVE Phases'
  BY <1>15, EndPhases DEF JobRaises
<1>16. ASSUME NEW w \in Workers, DeliveryRaises(w) PROVE Phases'
  BY <1>16, EndPhases, AttemptPhases DEF DeliveryRaises, Starts
<1> QED
  BY <1>6, <1>7, <1>8, <1>9, <1>10, <1>11, <1>12, <1>13, <1>14, <1>15, <1>16 DEF Next

----------------------------------------------------------------------------
(***************************************************************************)
(* Before the plan is decided on.                                          *)
(***************************************************************************)

\* Message m is nowhere: not in the stream, not about to be sent, in nobody's hands.
Absent(m) ==
    /\ queue[m] = 0
    /\ \A p \in Procs : m \notin out[p]
    /\ \A w \in Workers : msg[w] # m

\* The plan is not made, or waits for its decision, or the approval is being written.
Undecided == task \in {"none", "submitted"} \/ approval = "pending" \/ pc[Approver] = "decide"

\* Nothing but the planning has begun.
Nothing ==
    /\ steps["first"] \in {"none", "pending", "cancelled"} /\ steps["repair"] = "none"
    /\ reports = <<>>
    /\ \A m \in Messages \ {"plan"} : Absent(m)
    /\ \A m \in Stages : sends[m] = 0

Untouched ==
    /\ Undecided => Nothing
    /\ approval = "pending" => steps["first"] = "pending"
    /\ approval = "pending" \/ pc[Approver] = "decide" =>
          task \notin {"none", "submitted"} /\ steps["first"] # "none"

\* While nothing has begun the workers can only take and run the planning.
LEMMA NothingRuns ==
  ASSUME TypeOK, Phases, Nothing, NEW w \in Workers
  PROVE  /\ pc[w] \notin {"tool", "draft", "drafted", "review", "lock", "deliver"}
         /\ \A m \in Messages : Starts(w, m) => m = "plan"
         /\ \A p \in Procs, m \in Messages : m \in out[p] => m = "plan"
<1>1. \A m \in Messages : m # "plan" => msg[w] # m /\ \A p \in Procs : m \notin out[p]
  BY DEF Nothing, Absent
<1>2. Messages = {"first", "repair", "synthesize", "validate", "deliver", "plan"}
      /\ Plans = {"first", "repair"}
  BY DEF Messages, Plans, Stages
<1> QED
  BY <1>1, <1>2 DEF Phases, Starts

\* A step that sends nothing new keeps what is absent away.
LEMMA AbsentStays ==
  ASSUME TypeOK, NEW m \in Messages, Absent(m),
         queue'[m] > 0 => queue[m] > 0 \/ \E w \in Workers : msg[w] = m,
         queue'[m] \in Nat,
         \A p \in Procs : m \in out'[p] => m \in out[p],
         \A w \in Workers : msg'[w] # msg[w] => msg'[w] # m
  PROVE  Absent(m)'
  BY DEF Absent, TypeOK

LEMMA NextUntouched ==
  ASSUME TypeOK, TypeOK', Phases, Untouched, [Next]_vars
  PROVE  Untouched'
<1> USE DEF vars, taskVars, reportVars, sentVars, jobVars, Procs, Deciders
<1> DEFINE Others == Messages \ {"plan"}
           \* What a step leaves of it when it sends nothing and decides nothing.
           Calm == /\ UNCHANGED <<approval, steps>>
                   /\ task' = task \/ task' \notin {"none", "submitted"}
                   /\ pc'[Approver] = "decide" => pc[Approver] = "decide"
                   /\ Nothing => Nothing'
<1>0. Approver \notin Workers /\ Rejecter \notin Workers /\ Approver # Rejecter
      /\ Approver \notin Callbacks /\ Workers \cap Callbacks = {}
      /\ \A m \in Messages : m # None
  BY PipelineAssumption
<1>m. Messages = {"first", "repair", "synthesize", "validate", "deliver", "plan"}
      /\ Plans = {"first", "repair"} /\ Stages = {"synthesize", "validate", "deliver"}
  BY DEF Messages, Plans, Stages
<1>c. Calm => Untouched'
  BY DEF Untouched, Undecided
<1>n. ASSUME UNCHANGED <<steps, reports, sends>>,
             \A m \in Others : queue'[m] > 0 => queue[m] > 0 \/ \E w \in Workers : msg[w] = m,
             \A p \in Procs : out'[p] \subseteq out[p],
             \A w \in Workers : msg'[w] \in {msg[w], None, "plan"}
      PROVE  Nothing => Nothing'
  <2>1. ASSUME NEW m \in Others, Absent(m) PROVE Absent(m)'
    <3>1. m \in Messages /\ m # "plan" /\ m # None /\ queue'[m] \in Nat
      BY <1>0 DEF TypeOK
    <3>2. \A w \in Workers : msg'[w] # msg[w] => msg'[w] # m
      BY <1>n, <3>1
    <3> QED
      BY <1>n, <2>1, <3>1, <3>2, AbsentStays
  <2> QED
    BY <1>n, <2>1 DEF Nothing
<1>e. ASSUME NEW p \in Procs, End(p)
      PROVE  /\ \A q \in Procs : out'[q] \subseteq out[q]
             /\ \A w \in Workers : msg'[w] \in {msg[w], None}
             /\ pc'[Approver] = "decide" => pc[Approver] = "decide"
  BY <1>e, EndFacts
<1>1. ASSUME NEW c \in Callbacks, Submit(c) PROVE Untouched'
  <2>0. /\ UNCHANGED <<steps, approval, reports, sends>>
        /\ task' = task \/ task' = "failed" \/ (task = "none" /\ task' = "submitted")
    BY <1>1, <1>m DEF Submit, SubmitCreates, SubmitEnqueues, SubmitEnqueueRaises,
       SubmitMarkRaises, SubmitMarks, SubmitMarksFailed, Enqueue, TypeOK
  <2>1. /\ \A p \in Procs : out'[p] \subseteq out[p]
        /\ \A w \in Workers : msg'[w] \in {msg[w], None}
        /\ pc'[Approver] = pc[Approver]
    <3>1. CASE SubmitMarks(c) \/ SubmitMarksFailed(c)
      BY <3>1, <1>0, EndFacts DEF SubmitMarks, SubmitMarksFailed
    <3>2. CASE \/ SubmitCreates(c) \/ SubmitEnqueues(c) \/ SubmitEnqueueRaises(c)
               \/ SubmitMarkRaises(c)
      BY <3>2, <1>0 DEF SubmitCreates, SubmitEnqueues, SubmitEnqueueRaises, SubmitMarkRaises,
         Goto, TypeOK
    <3> QED
      BY <1>1, <3>1, <3>2 DEF Submit
  <2>2. \A m \in Others : queue'[m] = queue[m]
    BY <1>1 DEF Submit, SubmitCreates, SubmitEnqueues, SubmitEnqueueRaises,
       SubmitMarkRaises, SubmitMarks, SubmitMarksFailed, Enqueue, TypeOK
  <2>3. Nothing => Nothing'
    <3>1. \A w \in Workers : msg'[w] \in {msg[w], None, "plan"}
      BY <2>1
    <3>2. \A m \in Others : queue'[m] > 0 => queue[m] > 0
      BY <2>2
    <3> HIDE DEF Others
    <3> QED
      BY <2>0, <2>1, <3>1, <3>2, <1>n
  <2> QED
    BY <2>0, <2>1, <2>3 DEF Untouched, Undecided
<1>2. ASSUME NEW d \in Deciders, Decide(d) PROVE Untouched'
  <2>1. /\ UNCHANGED <<steps, approval, task, reports, sends, queue, out, msg>>
        /\ approval = "pending"
    BY <1>2 DEF Decide
  <2>2. Nothing'
    BY <2>1 DEF Untouched, Undecided, Nothing, Absent
  <2> QED
    BY <2>1, <2>2 DEF Untouched, Undecided
<1>3. CASE Approve
  BY <1>3, <1>0 DEF Approve, CommitThenSend, Goto, Untouched, Undecided, TypeOK
<1>4. CASE Reject
  <2>1. /\ UNCHANGED <<reports, sends, queue>> /\ approval' = "rejected" /\ task' = "cancelled"
        /\ steps' = [k \in Plans |-> IF steps[k] \in {"none"} \cup Over THEN steps[k]
                                     ELSE "cancelled"]
        /\ \A p \in Procs : out'[p] \subseteq out[p]
        /\ \A w \in Workers : msg'[w] = msg[w]
        /\ pc'[Approver] = pc[Approver]
    BY <1>4, <1>0, EndFacts DEF Reject
  <2>2. ASSUME Nothing PROVE Nothing'
    <3>1. \A m \in Others : Absent(m)'
      BY <2>1, <2>2, AbsentStays DEF Nothing, TypeOK
    <3>2. steps'["first"] \in {"none", "pending", "cancelled"} /\ steps'["repair"] = "none"
      BY <2>1, <2>2, <1>m DEF Nothing, Over
    <3> QED
      BY <2>1, <2>2, <3>1, <3>2 DEF Nothing
  <2> QED
    BY <2>1, <2>2, <1>m DEF Untouched, Undecided
<1>5. ASSUME NEW w \in Workers, Work(w) PROVE Untouched'
  <2>w. Approver # w /\ w \in Procs
    BY <1>0
  <2>1. ASSUME NEW m \in Messages, Receive(w, m) PROVE Untouched'
    <3>1. /\ UNCHANGED <<approval, steps, task, reports, sends, out>>
          /\ pc'[Approver] = pc[Approver]
          /\ \A v \in Workers : v # w => msg'[v] = msg[v]
          /\ msg'[w] = m /\ queue[m] > 0
          /\ \A k \in Messages : queue'[k] > 0 => queue[k] > 0
      BY <2>1, <1>0 DEF Receive, Goto, TypeOK
    <3>2. ASSUME Nothing PROVE Nothing'
      <4>1. m = "plan"
        BY <3>1, <3>2 DEF Nothing, Absent
      <4> QED
        BY <3>1, <3>2, <4>1, <1>n
    <3> QED
      BY <3>1, <3>2, <1>c
  <2>2. CASE PlanTask(w)
    <3>1. /\ task = "submitted" /\ Nothing /\ pc[Approver] # "decide"
          /\ pc'[Approver] = pc[Approver]
          /\ UNCHANGED <<reports, sends, queue, msg>>
          /\ \A p \in Procs : out'[p] \subseteq out[p]
      BY <2>2, <2>w DEF PlanTask, CommitThenSend, Goto, TypeOK, Untouched, Undecided
    <3>2. \/ /\ approval' = "none" /\ task' = "running"
          \/ /\ approval' = "pending" /\ task' = "awaiting_approval"
             /\ steps' = [steps EXCEPT !["first"] = "pending"]
      BY <2>2 DEF PlanTask, PlanCommitted
    <3>3. \A m \in Others : Absent(m)'
      BY <3>1, AbsentStays DEF Nothing, TypeOK
    <3> QED
      BY <3>1, <3>2, <3>3, <1>m DEF Untouched, Undecided, Nothing, TypeOK
  <2>3. CASE PlanTooLate(w) \/ (\E k \in Plans : Starts(w, k) /\ End(w)
                  /\ UNCHANGED <<taskVars, reportVars, sentVars>>)
    <3>1. End(w) /\ UNCHANGED <<taskVars, reportVars, sentVars>>
      BY <2>3 DEF PlanTooLate
    <3> QED
      BY <3>1, <1>e, <1>n, <1>c, <2>w
  <2>4. ASSUME NEW k \in Plans, StepStarts(w, k), ~End(w) PROVE Untouched'
    <3>1. UNCHANGED <<taskVars, reportVars, sentVars, msg, out>> /\ pc'[Approver] = pc[Approver]
      BY <2>4, <2>w DEF StepStarts, Goto, TypeOK
    <3> QED
      BY <3>1, <1>n, <1>c
  \* The rest of the work needs a message that is absent as long as nothing is decided.
  <2>5. ASSUME \/ pc[w] \in {"tool", "draft", "drafted", "review", "lock", "deliver"}
               \/ \E m \in Others : Starts(w, m)
        PROVE  ~Nothing /\ ~Undecided
    <3>1. ~Nothing
      BY <2>5, NothingRuns DEF Starts
    <3> QED
      BY <3>1 DEF Untouched
  <2>6. ASSUME ~Undecided, approval' = approval, task' = task \/ task' \notin {"none", "submitted"},
               pc'[Approver] = "decide" => pc[Approver] = "decide"
        PROVE  Untouched'
    BY <2>6 DEF Untouched, Undecided
  <2>7. CASE StepEnds(w) \/ StepRaises(w)
    <3>1. /\ pc[w] = "tool" /\ UNCHANGED <<approval, task>>
          /\ pc'[Approver] = "decide" => pc[Approver] = "decide"
      BY <2>7, <1>e, <2>w DEF StepEnds, StepRaises, Goto, TypeOK
    <3> QED
      BY <3>1, <2>5, <2>6
  <2>8. CASE CheckSteps(w)
    <3>1. CASE StepsOver /\ StepSucceeded /\ InStatus("running")
      <4>1. ~Undecided
        BY <3>1, <1>m DEF StepSucceeded, Untouched, Nothing
      <4> QED
        BY <2>8, <3>1, <4>1, <2>6, <1>e, <2>w DEF CheckSteps, CommitThenSend, Goto, TypeOK
    <3>2. CASE ~(StepsOver /\ StepSucceeded /\ InStatus("running"))
      <4>1. End(w) /\ UNCHANGED <<task, approval, steps, reports, sends, queue>>
        BY <2>8, <3>2 DEF CheckSteps
      <4> QED
        BY <4>1, <1>e, <1>n, <1>c, <2>w
    <3> QED
      BY <3>1, <3>2
  <2>9. CASE \/ Draft(w) \/ CommitDraft(w) \/ QueueValidation(w) \/ Review(w)
             \/ ReviewPasses(w) \/ ReviewRepairs(w) \/ ReviewFails(w)
    <3>1. ~Undecided
      BY <2>9, <2>5, <1>m DEF Draft, CommitDraft, QueueValidation, Review, ReviewPasses,
         ReviewRepairs, ReviewFails
    <3>2. approval' = approval /\ (task' = task \/ task' \notin {"none", "submitted"})
      BY <2>9 DEF Draft, CommitDraft, QueueValidation, Review, ReviewPasses, ReviewRepairs,
         ReviewFails
    <3>3. pc'[Approver] = "decide" => pc[Approver] = "decide"
      BY <2>9, <1>e, <2>w DEF Draft, CommitDraft, QueueValidation, Review, ReviewPasses,
         ReviewRepairs, ReviewFails, CommitThenSend, Goto, TypeOK
    <3> QED
      BY <3>1, <3>2, <3>3, <2>6
  <2>10. CASE \/ DeliverStarts(w) \/ ConvertRaises(w) \/ LockDelivery(w)
              \/ DeliverSucceeds(w) \/ DeliverFails(w)
    <3>1. ~Undecided
      BY <2>10, <2>5, <1>m DEF DeliverStarts, ConvertRaises, LockDelivery, DeliverSucceeds,
         DeliverFails
    <3>2. UNCHANGED <<approval, task>>
      BY <2>10 DEF DeliverStarts, ConvertRaises, LockDelivery, DeliverSucceeds, DeliverFails
    <3>3. pc'[Approver] = "decide" => pc[Approver] = "decide"
      BY <2>10, <1>e, <2>w DEF DeliverStarts, ConvertRaises, LockDelivery, DeliverSucceeds,
         DeliverFails, AttemptFails, Goto, TypeOK
    <3> QED
      BY <3>1, <3>2, <3>3, <2>6
  <2> QED
    BY <1>5, <2>1, <2>2, <2>3, <2>4, <2>7, <2>8, <2>9, <2>10 DEF Work, StepStarts
<1>6. ASSUME NEW w \in Workers, Redeliver(w) PROVE Untouched'
  <2>1. UNCHANGED <<taskVars, reportVars, sends, pc, jobVars>>
        /\ \A m \in Messages : queue'[m] > 0 => queue[m] > 0 \/ msg[w] = m
    BY <1>6 DEF Redeliver, TypeOK
  <2> QED
    BY <2>1, <1>n, <1>c
<1>7. ASSUME NEW p \in Procs, SendAll(p) PROVE Untouched'
  <2>1. CASE Dispatch(p)
    <3>1. CASE \A k \in Plans : steps[k] \notin {"ready", "stuck"}
      <4>1. UNCHANGED <<task, approval, reports, sends, queue>> /\ GoOn(p, "sendSteps")
            /\ steps' = [k \in Plans |-> steps[k]]
        BY <2>1, <3>1 DEF Dispatch
      <4>2. steps' = steps
        BY <4>1 DEF TypeOK
      <4>3. /\ \A q \in Procs : out'[q] \subseteq out[q]
            /\ \A w \in Workers : msg'[w] \in {msg[w], None}
            /\ pc'[Approver] = "decide" => pc[Approver] = "decide"
        BY <4>1, <1>e, <1>0 DEF GoOn, Goto, TypeOK
      <4> QED
        BY <4>1, <4>2, <4>3, <1>n, <1>c
    <3>2. CASE \E k \in Plans : steps[k] \in {"ready", "stuck"}
      <4>1. ~Undecided
        BY <3>2, <1>m DEF Untouched, Nothing
      <4>2. UNCHANGED <<approval, task>>
        BY <2>1 DEF Dispatch
      <4>3. pc'[Approver] = "decide" => pc[Approver] = "decide"
        BY <2>1, <1>e, <1>0 DEF Dispatch, CommitThenSend, GoOn, Goto, TypeOK
      <4> QED
        BY <4>1, <4>2, <4>3 DEF Untouched, Undecided
    <3> QED
      BY <3>1, <3>2
  <2>2. ASSUME NEW m \in Messages, Send(p, m) PROVE Untouched'
    <3>1. UNCHANGED <<task, approval, steps, reports>> /\ m \in out[p] /\ Enqueue(m)
      BY <2>2 DEF Send
    <3>2. /\ \A q \in Procs : out'[q] \subseteq out[q]
          /\ \A w \in Workers : msg'[w] \in {msg[w], None}
          /\ pc'[Approver] = "decide" => pc[Approver] = "decide"
      <4>1. CASE out[p] = {m} /\ End(p)
        BY <4>1, <1>e
      <4>2. CASE /\ Goto(p, "check") /\ out' = [out EXCEPT ![p] = {}]
                 /\ UNCHANGED <<msg, seen, tries>>
        BY <4>2, <1>0 DEF Goto, TypeOK
      <4>3. CASE out' = [out EXCEPT ![p] = @ \ {m}] /\ UNCHANGED <<pc, msg, seen, tries>>
        BY <4>3, <1>0 DEF TypeOK
      <4> QED
        BY <2>2, <4>1, <4>2, <4>3 DEF Send, GoOn
    <3>3. ASSUME Nothing PROVE Nothing'
      <4>1. m = "plan"
        BY <3>1, <3>3 DEF Nothing, Absent
      <4>2. sends' = sends /\ \A k \in Others : queue'[k] = queue[k]
        BY <3>1, <4>1, <1>m DEF Enqueue, TypeOK
      <4> QED
        BY <3>1, <3>2, <3>3, <4>2, <1>n
    <3> QED
      BY <3>1, <3>2, <3>3, <1>c
  <2>3. CASE SendRaises(p)
    <3>1. /\ UNCHANGED <<task, approval, reports, sentVars>> /\ End(p)
          /\ \E left : steps' = [k \in Plans |-> IF pc[p] = "sendSteps" /\ k \in out[p]
                                                  /\ steps[k] = "running"
                                               THEN left ELSE steps[k]]
      BY <2>3 DEF SendRaises
    <3>2. CASE steps' = steps
      BY <3>1, <3>2, <1>e, <1>n, <1>c
    <3>3. CASE steps' # steps
      <4>1. \E k \in Plans : steps[k] = "running"
        BY <3>1, <3>3 DEF TypeOK
      <4>2. ~Undecided
        BY <4>1, <1>m DEF Untouched, Nothing
      <4> QED
        BY <3>1, <4>2, <1>e DEF Untouched, Undecided
    <3> QED
      BY <3>2, <3>3
  <2> QED
    BY <1>7, <2>1, <2>2, <2>3 DEF SendAll
<1>8. ASSUME NEW p \in Procs, Crash(p) PROVE Untouched'
  <2>1. UNCHANGED <<taskVars, reports, sends>> /\ End(p)
        /\ \A m \in Messages : queue'[m] > 0 => queue[m] > 0 \/ (p \in Workers /\ msg[p] = m)
    BY <1>8 DEF Crash, TypeOK
  <2> QED
    BY <2>1, <1>e, <1>n, <1>c
<1>9. CASE UNCHANGED vars
  BY <1>9 DEF Untouched, Undecided, Nothing, Absent
<1>10. ASSUME NEW p \in Procs, JobRaises(p) PROVE Untouched'
  <2>1. UNCHANGED <<taskVars, reports, sentVars>> /\ End(p)
    BY <1>10 DEF JobRaises
  <2> QED
    BY <2>1, <1>e, <1>n, <1>c
<1>11. ASSUME NEW w \in Workers, DeliveryRaises(w) PROVE Untouched'
  <2>1. UNCHANGED <<taskVars, reports, sentVars>>
    BY <1>11 DEF DeliveryRaises
  <2>2. /\ \A q \in Procs : out'[q] \subseteq out[q]
        /\ \A v \in Workers : msg'[v] \in {msg[v], None}
        /\ pc'[Approver] = "decide" => pc[Approver] = "decide"
    BY <1>11, <1>e, <1>0 DEF DeliveryRaises, AttemptFails, Goto, TypeOK
  <2> QED
    BY <2>1, <2>2, <1>n, <1>c
<1> QED
  BY <1>1, <1>2, <1>3, <1>4, <1>5, <1>6, <1>7, <1>8, <1>9, <1>10, <1>11 DEF Next

----------------------------------------------------------------------------
(***************************************************************************)
(* The steps of a repair.                                                  *)
(***************************************************************************)

\* The steps of a repair are never made READY, so the only steps that run are the first
\* plan's; and a task whose repair was cancelled does not run.
RepairWaits ==
    /\ steps["repair"] \in {"none", "pending", "cancelled"}
    /\ \A w \in Workers : pc[w] = "tool" => msg[w] = "first"
    /\ task = "running" => steps["repair"] # "cancelled"

LEMMA NextRepairWaits ==
  ASSUME TypeOK, Phases, Untouched, RepairWaits, [Next]_vars
  PROVE  RepairWaits'
<1> USE DEF vars, taskVars, reportVars, sentVars, jobVars, Procs, Deciders
<1> DEFINE Tools == \A w \in Workers : pc'[w] = "tool" => pc[w] = "tool" /\ msg'[w] = msg[w]
           Frame == /\ Tools
                    /\ steps'["repair"] = steps["repair"]
                    /\ task' = task \/ task' # "running"
<1>m. Plans = {"first", "repair"} /\ "first" # "repair"
  BY DEF Plans
<1>0. Workers \cap (Callbacks \cup Deciders) = {}
  BY PipelineAssumption
<1>f. Frame => RepairWaits'
  BY DEF RepairWaits
<1>e. \A p \in Procs : End(p) => Tools
  BY EndFacts
<1>c. \A p \in Procs : \A ms, l : l # "tool" /\ CommitThenSend(p, ms, l) => Tools
  BY DEF CommitThenSend, Goto, TypeOK
<1>g. \A p \in Procs : \A l : l # "tool" /\ Goto(p, l) /\ UNCHANGED msg => Tools
  BY DEF Goto, TypeOK
<1>1. ASSUME NEW c \in Callbacks, Submit(c) PROVE RepairWaits'
  <2>1. steps' = steps /\ (task' = task \/ task' # "running")
    BY <1>1 DEF Submit, SubmitCreates, SubmitEnqueues, SubmitEnqueueRaises,
       SubmitMarkRaises, SubmitMarks, SubmitMarksFailed
  <2>2. Tools
    BY <1>1, <1>e, <1>g DEF Submit, SubmitCreates, SubmitEnqueues, SubmitEnqueueRaises,
       SubmitMarkRaises, SubmitMarks, SubmitMarksFailed
  <2> QED
    BY <2>1, <2>2, <1>f
<1>2. ASSUME NEW d \in Deciders, Decide(d) PROVE RepairWaits'
  BY <1>2, <1>g, <1>f DEF Decide
<1>3. CASE Approve
  <2>1. steps["repair"] = "none" /\ Tools
    BY <1>3, <1>c DEF Approve, Untouched, Undecided, Nothing
  <2> QED
    BY <1>3, <2>1, <1>m DEF Approve, RootsReady, RepairWaits
<1>4. CASE Reject
  <2>1. Tools
    BY <1>4, <1>e DEF Reject
  <2> QED
    BY <1>4, <2>1, <1>m DEF Reject, RepairWaits, Over
<1>5. ASSUME NEW w \in Workers, Work(w) PROVE RepairWaits'
  <2>1. CASE \E m \in Messages : Receive(w, m)
    <3>1. Tools
      BY <2>1 DEF Receive, Goto, TypeOK
    <3> QED
      BY <2>1, <3>1, <1>f DEF Receive
  <2>2. CASE PlanTask(w)
    <3>1. steps["repair"] = "none" /\ Tools
      BY <2>2, <1>c DEF PlanTask, Untouched, Undecided, Nothing
    <3>2. steps'["repair"] = steps["repair"]
      BY <2>2, <1>m DEF PlanTask, PlanCommitted, TypeOK
    <3> QED
      BY <3>1, <3>2 DEF RepairWaits
  <2>3. CASE \/ PlanTooLate(w) \/ ReviewFails(w) \/ DeliverSucceeds(w)
    BY <2>3, <1>e, <1>f DEF PlanTooLate, ReviewFails, DeliverSucceeds
  <2>4. ASSUME NEW k \in Plans, StepStarts(w, k) PROVE RepairWaits'
    <3>1. CASE ~End(w)
      <4>1. k = "first" /\ msg[w] = k
        BY <2>4, <3>1, <1>m DEF StepStarts, Starts, RepairWaits
      <4> QED
        BY <2>4, <3>1, <4>1 DEF StepStarts, Goto, RepairWaits, TypeOK
    <3>2. CASE End(w)
      BY <2>4, <3>2, <1>e, <1>f DEF StepStarts
    <3> QED
      BY <3>1, <3>2
  <2>5. CASE StepEnds(w)
    <3>1. msg[w] = "first"
      BY <2>5 DEF StepEnds, RepairWaits
    <3> QED
      BY <2>5, <3>1, <1>g, <1>f, <1>m DEF StepEnds, TypeOK
  <2>6. CASE StepRaises(w)
    <3>1. msg[w] = "first"
      BY <2>6 DEF StepRaises, RepairWaits
    <3> QED
      BY <2>6, <3>1, <1>e, <1>f, <1>m DEF StepRaises, TypeOK
  <2>7. CASE CheckSteps(w) \/ QueueValidation(w) \/ ReviewPasses(w)
    <3>1. Tools
      BY <2>7, <1>e, <1>c DEF CheckSteps, QueueValidation, ReviewPasses
    <3> QED
      BY <2>7, <3>1, <1>f DEF CheckSteps, QueueValidation, ReviewPasses
  <2>8. CASE Draft(w) \/ Review(w) \/ LockDelivery(w)
    BY <2>8, <1>g, <1>f DEF Draft, Review, LockDelivery
  <2>9. CASE CommitDraft(w)
    BY <2>9, <1>g, <1>e, <1>f DEF CommitDraft
  <2>10. CASE ReviewRepairs(w)
    <3>1. Tools
      BY <2>10, <1>e, <1>c DEF ReviewRepairs
    <3> QED
      BY <2>10, <3>1, <1>m DEF ReviewRepairs, RepairWaits, TypeOK
  <2>11. CASE DeliverStarts(w) \/ ConvertRaises(w) \/ DeliverFails(w)
    <3>1. Tools
      BY <2>11, <1>e, <1>g DEF DeliverStarts, ConvertRaises, DeliverFails, AttemptFails
    <3> QED
      BY <2>11, <3>1, <1>f DEF DeliverStarts, ConvertRaises, DeliverFails
  <2> QED
    BY <1>5, <2>1, <2>2, <2>3, <2>4, <2>5, <2>6, <2>7, <2>8, <2>9, <2>10, <2>11 DEF Work
<1>6. ASSUME NEW w \in Workers, Redeliver(w) PROVE RepairWaits'
  BY <1>6, <1>f DEF Redeliver
<1>7. ASSUME NEW p \in Procs, SendAll(p) PROVE RepairWaits'
  <2>1. Tools
    BY <1>7, <1>e, <1>c, <1>g DEF SendAll, Dispatch, Send, SendRaises, GoOn
  <2>2. task' = task
    BY <1>7 DEF SendAll, Dispatch, Send, SendRaises
  <2>3. steps'["repair"] = steps["repair"]
    BY <1>7, <1>m DEF SendAll, Dispatch, Send, SendRaises, RepairWaits
  <2> QED
    BY <2>1, <2>2, <2>3, <1>f
<1>8. ASSUME NEW p \in Procs, Crash(p) \/ JobRaises(p) PROVE RepairWaits'
  BY <1>8, <1>e, <1>f DEF Crash, JobRaises
<1>9. CASE UNCHANGED vars
  BY <1>9, <1>f
<1>10. ASSUME NEW w \in Workers, DeliveryRaises(w) PROVE RepairWaits'
  <2>1. Tools
    BY <1>10, <1>e, <1>g DEF DeliveryRaises, AttemptFails
  <2> QED
    BY <1>10, <2>1, <1>f DEF DeliveryRaises
<1> QED
  BY <1>1, <1>2, <1>3, <1>4, <1>5, <1>6, <1>7, <1>8, <1>9, <1>10 DEF Next

----------------------------------------------------------------------------
(***************************************************************************)
(* The right to start a stage.                                             *)
(***************************************************************************)

\* Nobody has, or ever used, the right to send stage m's message.
NoTicket(m) == sends[m] = 0 /\ \A p \in Procs : m \notin out[p]

\* At most one process has it, and none once it was used.
OneTicket(m) ==
    /\ sends[m] <= 1
    /\ sends[m] = 1 => \A p \in Procs : m \notin out[p]
    /\ \A p, q \in Procs : m \in out[p] /\ m \in out[q] => p = q

\* The status of the task says which rights were not given yet.  A task that runs again
\* for a repair keeps its repair pending, so it does not go to synthesis a second time.
Tickets ==
    /\ \A m \in Stages : OneTicket(m)
    /\ task = "running" /\ steps["repair"] = "none" => \A m \in Stages : NoTicket(m)
    /\ task = "synthesizing" => NoTicket("validate")
    /\ task \in {"synthesizing", "validating"} => NoTicket("deliver")

LEMMA TicketsKept ==
  ASSUME TypeOK, NEW m \in Stages, sends'[m] = sends[m],
         \A p \in Procs : m \in out'[p] => m \in out[p]
  PROVE  (NoTicket(m) => NoTicket(m)') /\ (OneTicket(m) => OneTicket(m)')
  BY DEF NoTicket, OneTicket

\* A process that commits a transition gets the right nobody had.
LEMMA TicketGiven ==
  ASSUME TypeOK, NEW p \in Procs, NEW m \in Stages, NEW l, CommitThenSend(p, {m}, l),
         sends' = sends, NoTicket(m), \A k \in Stages : OneTicket(k)
  PROVE  /\ \A k \in Stages : OneTicket(k)'
         /\ \A k \in Stages : k # m /\ NoTicket(k) => NoTicket(k)'
<1>1. out'[p] = {m} /\ \A q \in Procs : q # p => out'[q] = out[q]
  BY DEF CommitThenSend, TypeOK
<1>2. \A k \in Stages : k # m => \A q \in Procs : k \in out'[q] => k \in out[q]
  BY <1>1
<1>3. OneTicket(m)'
  BY <1>1 DEF NoTicket, OneTicket
<1> QED
  BY <1>2, <1>3, TicketsKept

LEMMA NextTickets ==
  ASSUME TypeOK, Phases, Untouched, RepairWaits, Tickets, [Next]_vars
  PROVE  Tickets'
<1> USE DEF vars, taskVars, reportVars, sentVars, jobVars, Procs, Deciders
<1> DEFINE Keeps == /\ \A m \in Stages : sends'[m] = sends[m]
                    /\ \A p \in Procs, m \in Stages : m \in out'[p] => m \in out[p]
           Frame == /\ Keeps
                    /\ task' = task \/ task' \notin {"running", "synthesizing", "validating"}
                    /\ steps'["repair"] = "none" => steps["repair"] = "none"
<1>m. /\ Plans = {"first", "repair"} /\ Stages = {"synthesize", "validate", "deliver"}
      /\ Messages = {"first", "repair", "synthesize", "validate", "deliver", "plan"}
  BY DEF Plans, Stages, Messages
<1>k. Keeps => \A m \in Stages : /\ NoTicket(m) => NoTicket(m)'
                                 /\ OneTicket(m) => OneTicket(m)'
  BY TicketsKept
<1>f. Frame => Tickets'
  BY <1>k, <1>m DEF Tickets
<1>e. \A p \in Procs : End(p) => \A q \in Procs : out'[q] \subseteq out[q]
  BY EndFacts
<1>n. Nothing => \A m \in Stages : NoTicket(m)
  BY <1>m DEF Nothing, Absent, NoTicket
<1>1. ASSUME NEW c \in Callbacks, Submit(c) PROVE Tickets'
  <2>1. steps' = steps /\ (task' = task \/ task' \in {"submitted", "failed"})
    BY <1>1 DEF Submit, SubmitCreates, SubmitEnqueues, SubmitEnqueueRaises,
       SubmitMarkRaises, SubmitMarks, SubmitMarksFailed
  <2>2. \A m \in Stages : sends'[m] = sends[m]
    BY <1>1, <1>m DEF Submit, SubmitCreates, SubmitEnqueues, SubmitEnqueueRaises,
       SubmitMarkRaises, SubmitMarks, SubmitMarksFailed, Enqueue
  <2>3. \A q \in Procs : out'[q] \subseteq out[q]
    BY <1>1, <1>e DEF Submit, SubmitCreates, SubmitEnqueues, SubmitEnqueueRaises,
       SubmitMarkRaises, SubmitMarks, SubmitMarksFailed
  <2> QED
    BY <2>1, <2>2, <2>3, <1>f
<1>2. ASSUME NEW d \in Deciders, Decide(d) PROVE Tickets'
  BY <1>2, <1>f DEF Decide
<1>3. CASE Approve
  <2>1. \A m \in Stages : NoTicket(m)
    BY <1>3, <1>n DEF Approve, Untouched, Undecided
  <2>2. Keeps
    BY <1>3 DEF Approve, CommitThenSend, TypeOK
  <2> QED
    BY <1>3, <2>1, <2>2, <1>k DEF Approve, Tickets
<1>4. CASE Reject
  BY <1>4, <1>e, <1>f, <1>m DEF Reject, Over
<1>5. ASSUME NEW w \in Workers, Work(w) PROVE Tickets'
  <2>1. CASE \E m \in Messages : Receive(w, m)
    BY <2>1, <1>f DEF Receive
  <2>2. CASE PlanTask(w)
    <3>1. \A m \in Stages : NoTicket(m)
      BY <2>2, <1>n DEF PlanTask, Untouched, Undecided
    <3>2. Keeps
      BY <2>2 DEF PlanTask, CommitThenSend, TypeOK
    <3>3. task' \in {"awaiting_approval", "running"}
      BY <2>2 DEF PlanTask, PlanCommitted
    <3> QED
      BY <3>1, <3>2, <3>3, <1>k DEF Tickets
  <2>3. CASE PlanTooLate(w) \/ ReviewFails(w) \/ DeliverSucceeds(w)
    BY <2>3, <1>e, <1>f DEF PlanTooLate, ReviewFails, DeliverSucceeds
  <2>4. CASE \E k \in Plans : StepStarts(w, k)
    BY <2>4, <1>e, <1>f DEF StepStarts
  <2>5. CASE StepEnds(w) \/ StepRaises(w)
    <3>1. msg[w] = "first" /\ steps'["repair"] = steps["repair"]
      BY <2>5, <1>m DEF StepEnds, StepRaises, RepairWaits, TypeOK
    <3> QED
      BY <2>5, <3>1, <1>e, <1>f DEF StepEnds, StepRaises
  <2>6. CASE CheckSteps(w)
    <3>1. CASE StepsOver /\ StepSucceeded /\ InStatus("running")
      <4>1. steps["repair"] = "none"
        BY <3>1, <1>m DEF StepsOver, Over, InStatus, RepairWaits
      <4>2. \A m \in Stages : NoTicket(m)
        BY <3>1, <4>1 DEF InStatus, Tickets
      <4>3. task' = "synthesizing" /\ sends' = sends
            /\ CommitThenSend(w, {"synthesize"}, "sendStage")
        BY <2>6, <3>1 DEF CheckSteps
      <4>4. \A k \in Stages : OneTicket(k)' /\ (k # "synthesize" => NoTicket(k)')
        BY <4>2, <4>3, <1>m, TicketGiven DEF Tickets
      <4> QED
        BY <4>3, <4>4, <1>m DEF Tickets
    <3>2. CASE ~(StepsOver /\ StepSucceeded /\ InStatus("running"))
      BY <2>6, <3>2, <1>e, <1>f DEF CheckSteps
    <3> QED
      BY <3>1, <3>2
  <2>7. CASE Draft(w) \/ Review(w) \/ LockDelivery(w)
    BY <2>7, <1>f DEF Draft, Review, LockDelivery
  <2>8. CASE CommitDraft(w)
    BY <2>8, <1>e, <1>f DEF CommitDraft
  <2>9. CASE QueueValidation(w)
    <3>1. CASE InStatus("synthesizing")
      <4>1. task' = "validating" /\ sends' = sends
            /\ CommitThenSend(w, {"validate"}, "sendStage")
        BY <2>9, <3>1 DEF QueueValidation
      <4>2. NoTicket("validate") /\ NoTicket("deliver")
        BY <3>1 DEF InStatus, Tickets
      <4>3. (\A k \in Stages : OneTicket(k)') /\ NoTicket("deliver")'
        BY <4>1, <4>2, <1>m, TicketGiven DEF Tickets
      <4> QED
        BY <4>1, <4>3 DEF Tickets
    <3>2. CASE ~InStatus("synthesizing")
      BY <2>9, <3>2, <1>e, <1>f DEF QueueValidation
    <3> QED
      BY <3>1, <3>2
  <2>10. CASE ReviewPasses(w)
    <3>1. CASE InStatus("validating")
      <4>1. task' = "completed" /\ sends' = sends
            /\ CommitThenSend(w, {"deliver"}, "sendStage")
        BY <2>10, <3>1 DEF ReviewPasses
      <4>2. NoTicket("deliver")
        BY <3>1 DEF InStatus, Tickets
      <4>3. \A k \in Stages : OneTicket(k)'
        BY <4>1, <4>2, <1>m, TicketGiven DEF Tickets
      <4> QED
        BY <4>1, <4>3 DEF Tickets
    <3>2. CASE ~InStatus("validating")
      BY <2>10, <3>2, <1>e, <1>f DEF ReviewPasses
    <3> QED
      BY <3>1, <3>2
  <2>11. CASE ReviewRepairs(w)
    <3>1. CASE InStatus("validating")
      <4>1. /\ task' = "running" /\ sends' = sends /\ steps'["repair"] = "pending"
            /\ \A q \in Procs : out'[q] \subseteq out[q] \cup {"repair"}
        BY <2>11, <3>1, <1>m DEF ReviewRepairs, CommitThenSend, TypeOK
      <4>2. Keeps
        BY <4>1, <1>m
      <4> QED
        BY <4>1, <4>2, <1>k DEF Tickets
    <3>2. CASE ~InStatus("validating")
      BY <2>11, <3>2, <1>e, <1>f DEF ReviewRepairs
    <3> QED
      BY <3>1, <3>2
  <2>12. CASE DeliverStarts(w) \/ ConvertRaises(w) \/ DeliverFails(w)
    <3>1. \A q \in Procs : out'[q] \subseteq out[q]
      BY <2>12, <1>e DEF DeliverStarts, ConvertRaises, DeliverFails, AttemptFails
    <3> QED
      BY <2>12, <3>1, <1>f DEF DeliverStarts, ConvertRaises, DeliverFails
  <2> QED
    BY <1>5, <2>1, <2>2, <2>3, <2>4, <2>5, <2>6, <2>7, <2>8, <2>9, <2>10, <2>11, <2>12 DEF Work
<1>6. ASSUME NEW w \in Workers, Redeliver(w) PROVE Tickets'
  BY <1>6, <1>f DEF Redeliver
<1>7. ASSUME NEW p \in Procs, SendAll(p) PROVE Tickets'
  <2>1. CASE Dispatch(p)
    <3>1. \A q \in Procs : out'[q] \subseteq out[q] \cup {"first", "repair"}
      <4>1. CASE GoOn(p, "sendSteps")
        BY <4>1, <1>e DEF GoOn, TypeOK
      <4>2. CASE ~GoOn(p, "sendSteps")
        <5>1. PICK ready \in SUBSET Plans : out' = [out EXCEPT ![p] = ready]
          BY <2>1, <4>2 DEF Dispatch, CommitThenSend
        <5> QED
          BY <5>1, <1>m DEF TypeOK
      <4> QED
        BY <4>1, <4>2
    <3>2. task' = task /\ sends' = sends /\ (steps'["repair"] = "none" => steps["repair"] = "none")
      BY <2>1, <1>m DEF Dispatch
    <3> QED
      BY <3>1, <3>2, <1>f, <1>m
  <2>2. ASSUME NEW m \in Messages, Send(p, m) PROVE Tickets'
    <3>1. /\ UNCHANGED <<task, steps>> /\ m \in out[p]
          /\ sends' = [k \in Stages |-> IF k = m THEN sends[k] + 1 ELSE sends[k]]
      BY <2>2 DEF Send, Enqueue
    <3>2. /\ m \notin out'[p]
          /\ \A q \in Procs : out'[q] \subseteq out[q]
          /\ \A q \in Procs : q # p => out'[q] = out[q]
      <4>1. CASE out[p] = {m}
        <5>1. out'[p] = {} /\ \A q \in Procs : q # p => out'[q] = out[q]
          BY <2>2, <4>1, EndFacts DEF Send, GoOn, TypeOK
        <5> QED
          BY <5>1
      <4>2. CASE out[p] # {m}
        BY <2>2, <4>2 DEF Send, TypeOK
      <4> QED
        BY <4>1, <4>2
    <3>3. ASSUME NEW k \in Stages, k # m
          PROVE  (NoTicket(k) => NoTicket(k)') /\ (OneTicket(k) => OneTicket(k)')
      BY <3>1, <3>2, <3>3, TicketsKept
    <3>4. ASSUME m \in Stages
          PROVE  ~NoTicket(m) /\ OneTicket(m)'
      <4>1. sends[m] = 0 /\ \A q \in Procs : m \in out[q] => q = p
        <5>1. OneTicket(m) /\ sends[m] \in Nat
          BY <3>4 DEF Tickets, TypeOK
        <5> QED
          BY <3>1, <5>1 DEF OneTicket
      <4>2. sends'[m] = 1 /\ \A q \in Procs : m \notin out'[q]
        BY <3>1, <3>2, <3>4, <4>1
      <4> QED
        BY <3>1, <4>2 DEF NoTicket, OneTicket
    <3> QED
      BY <3>1, <3>3, <3>4, <1>m DEF Tickets
  <2>3. CASE SendRaises(p)
    <3>1. task' = task /\ sends' = sends /\ (steps'["repair"] = "none" => steps["repair"] = "none")
      BY <2>3, <1>m DEF SendRaises
    <3> QED
      BY <2>3, <3>1, <1>e, <1>f DEF SendRaises
  <2> QED
    BY <1>7, <2>1, <2>2, <2>3 DEF SendAll
<1>8. ASSUME NEW p \in Procs, Crash(p) \/ JobRaises(p) PROVE Tickets'
  BY <1>8, <1>e, <1>f DEF Crash, JobRaises
<1>9. CASE UNCHANGED vars
  BY <1>9, <1>f
<1>10. ASSUME NEW w \in Workers, DeliveryRaises(w) PROVE Tickets'
  <2>1. \A q \in Procs : out'[q] \subseteq out[q]
    BY <1>10, <1>e DEF DeliveryRaises, AttemptFails
  <2> QED
    BY <1>10, <2>1, <1>f DEF DeliveryRaises
<1> QED
  BY <1>1, <1>2, <1>3, <1>4, <1>5, <1>6, <1>7, <1>8, <1>9, <1>10 DEF Next

----------------------------------------------------------------------------
(***************************************************************************)
(* The delivery.                                                           *)
(***************************************************************************)

\* A delivery under way has a validated report to send.
Honest ==
    /\ DeliveryHonest
    /\ \A p \in Procs : pc[p] \in {"lock", "deliver"} => Validated # {}

\* A report that was validated stays validated: a draft is added behind it, and a review
\* validates them all.
LEMMA ValidatedStays ==
  ASSUME TypeOK, Validated # {}, reports' \in {reports, Append(reports, "draft"), AllValidated}
  PROVE  Validated' # {}
<1>1. PICK v \in DOMAIN reports : reports[v] = "validated"
  BY DEF Validated
<1>2. CASE reports' = reports
  BY <1>1, <1>2 DEF Validated
<1>3. CASE reports' = Append(reports, "draft")
  <2>1. reports \in Seq({"draft", "validated"}) /\ DOMAIN reports = 1..Len(reports)
    BY DEF TypeOK
  <2>2. /\ Append(reports, "draft") \in Seq({"draft", "validated"})
        /\ Len(Append(reports, "draft")) = Len(reports) + 1
        /\ \A i \in 1..Len(reports) : Append(reports, "draft")[i] = reports[i]
    BY <2>1, AppendProperties
  <2>3. v \in DOMAIN reports' /\ reports'[v] = "validated"
    BY <1>1, <1>3, <2>1, <2>2
  <2> QED
    BY <2>3 DEF Validated
<1>4. CASE reports' = AllValidated
  BY <1>1, <1>4 DEF Validated, AllValidated
<1> QED
  BY <1>2, <1>3, <1>4

LEMMA NextHonest ==
  ASSUME TypeOK, Phases, Honest, [Next]_vars
  PROVE  Honest'
<1> USE DEF vars, taskVars, reportVars, sentVars, jobVars, Procs, Deciders
<1> DEFINE Delivering == {"lock", "deliver"}
           Frame == /\ received' = received
                    /\ delivery' # "delivered" \/ delivery' = delivery
                    /\ \A q \in Procs : pc'[q] \in Delivering => pc[q] \in Delivering
<1>v. reports' \in {reports, Append(reports, "draft"), AllValidated}
  <2>1. ASSUME NEW c \in Callbacks, Submit(c) PROVE reports' = reports
    BY <2>1 DEF Submit, SubmitCreates, SubmitEnqueues, SubmitEnqueueRaises, SubmitMarks,
       SubmitMarkRaises, SubmitMarksFailed
  <2>2. ASSUME NEW d \in Deciders, Decide(d) \/ Approve \/ Reject PROVE reports' = reports
    BY <2>2 DEF Decide, Approve, Reject
  <2>3. ASSUME NEW w \in Workers, Work(w)
        PROVE  reports' \in {reports, Append(reports, "draft"), AllValidated}
    BY <2>3 DEF Work, Receive, PlanTask, PlanTooLate, StepStarts, StepEnds, StepRaises,
       CheckSteps, Draft, CommitDraft, QueueValidation, Review, ReviewPasses, ReviewRepairs,
       ReviewFails, DeliverStarts, ConvertRaises, LockDelivery, DeliverSucceeds, DeliverFails
  <2>4. ASSUME NEW p \in Procs, SendAll(p) PROVE reports' = reports
    BY <2>4 DEF SendAll, Dispatch, Send, SendRaises
  <2>5. ASSUME NEW p \in Procs, JobRaises(p) \/ Crash(p) PROVE reports' = reports
    BY <2>5 DEF JobRaises, Crash
  <2>6. ASSUME NEW w \in Workers, Redeliver(w) \/ DeliveryRaises(w)
        PROVE  reports' = reports
    BY <2>6 DEF Redeliver, DeliveryRaises
  <2>7. CASE UNCHANGED vars
    BY <2>7
  <2> QED
    BY <2>1, <2>2, <2>3, <2>4, <2>5, <2>6, <2>7 DEF Next
<1>s. Validated # {} => Validated' # {}
  BY <1>v, ValidatedStays
<1>f. Frame => Honest'
  BY <1>s DEF Honest, DeliveryHonest
<1>e. \A p \in Procs : End(p) => \A q \in Procs : pc'[q] \in Delivering => pc[q] \in Delivering
  BY EndFacts
<1>g. \A p \in Procs : \A l : l \notin Delivering /\ Goto(p, l) =>
        \A q \in Procs : pc'[q] \in Delivering => pc[q] \in Delivering
  BY DEF Goto, TypeOK
<1>1. ASSUME NEW c \in Callbacks, Submit(c) PROVE Honest'
  BY <1>1, <1>e, <1>g, <1>f DEF Submit, SubmitCreates, SubmitEnqueues, SubmitEnqueueRaises,
     SubmitMarkRaises, SubmitMarks, SubmitMarksFailed
<1>2. ASSUME NEW d \in Deciders, Decide(d) PROVE Honest'
  BY <1>2, <1>g, <1>f DEF Decide
<1>3. CASE Approve
  BY <1>3, <1>g, <1>f DEF Approve, CommitThenSend
<1>4. CASE Reject
  BY <1>4, <1>e, <1>f DEF Reject
<1>5. ASSUME NEW w \in Workers, Work(w) PROVE Honest'
  <2>1. CASE \/ (\E m \in Messages : Receive(w, m)) \/ PlanTask(w) \/ PlanTooLate(w)
             \/ (\E k \in Plans : StepStarts(w, k)) \/ StepEnds(w)
             \/ StepRaises(w) \/ CheckSteps(w)
    <3>1. received' = received /\ delivery' = delivery
      BY <2>1 DEF Receive, PlanTask, PlanTooLate, StepStarts, StepEnds, StepRaises, CheckSteps
    <3>2. End(w) \/ \E l : l \notin Delivering /\ Goto(w, l)
      BY <2>1 DEF Receive, PlanTask, PlanTooLate, StepStarts, StepEnds, StepRaises,
         CheckSteps, CommitThenSend
    <3> QED
      BY <3>1, <3>2, <1>e, <1>g, <1>f
  <2>2. CASE \/ Draft(w) \/ CommitDraft(w) \/ QueueValidation(w) \/ Review(w)
             \/ ReviewPasses(w) \/ ReviewRepairs(w) \/ ReviewFails(w)
    <3>1. received' = received /\ delivery' = delivery
      BY <2>2 DEF Draft, CommitDraft, QueueValidation, Review, ReviewPasses, ReviewRepairs,
         ReviewFails
    <3>2. End(w) \/ \E l : l \notin Delivering /\ Goto(w, l)
      BY <2>2 DEF Draft, CommitDraft, QueueValidation, Review, ReviewPasses, ReviewRepairs,
         ReviewFails, CommitThenSend
    <3> QED
      BY <3>1, <3>2, <1>e, <1>g, <1>f
  <2>3. CASE DeliverStarts(w)
    <3>1. CASE OneValidated
      <4>1. Validated # {}
        BY <3>1, FS_EmptySet DEF OneValidated
      <4>2. UNCHANGED <<reports, received, delivery>>
        BY <2>3 DEF DeliverStarts
      <4> QED
        BY <4>1, <4>2, <1>s DEF Honest, DeliveryHonest
    <3>2. CASE ~OneValidated
      BY <2>3, <3>2, <1>e, <1>g, <1>f DEF DeliverStarts, AttemptFails
    <3> QED
      BY <3>1, <3>2
  <2>4. CASE ConvertRaises(w)
    BY <2>4, <1>e, <1>g, <1>f DEF ConvertRaises, AttemptFails
  <2>5. CASE LockDelivery(w)
    <3>1. Validated # {}
      BY <2>5 DEF LockDelivery, Honest
    <3> QED
      BY <2>5, <3>1, <1>s DEF LockDelivery, Honest, DeliveryHonest
  <2>6. CASE DeliverSucceeds(w) \/ DeliverFails(w)
    <3>1. Validated # {}
      BY <2>6 DEF DeliverSucceeds, DeliverFails, Honest
    <3>2. delivery' = "delivered" => received' = received + 1
      BY <2>6 DEF DeliverSucceeds, DeliverFails, SaidFailed
    <3> QED
      BY <3>1, <3>2, <1>s DEF Honest, DeliveryHonest, TypeOK
  <2> QED
    BY <1>5, <2>1, <2>2, <2>3, <2>4, <2>5, <2>6 DEF Work
<1>6. ASSUME NEW w \in Workers, Redeliver(w) PROVE Honest'
  BY <1>6, <1>f DEF Redeliver
<1>7. ASSUME NEW p \in Procs, SendAll(p) PROVE Honest'
  <2>1. received' = received /\ delivery' = delivery
    BY <1>7 DEF SendAll, Dispatch, Send, SendRaises
  <2>2. End(p) \/ pc' = pc \/ \E l : l \notin Delivering /\ Goto(p, l)
    BY <1>7 DEF SendAll, Dispatch, Send, SendRaises, GoOn, CommitThenSend
  <2> QED
    BY <2>1, <2>2, <1>e, <1>g, <1>f
\* Parts that were sent before the job, or only the attempt, came to an end.
<1>8. ASSUME NEW p \in Procs, Crash(p) \/ (p \in Workers /\ DeliveryRaises(p)) PROVE Honest'
  <2>0. /\ received' \in IF pc[p] = "deliver" THEN {received, received + 1} ELSE {received}
        /\ delivery' = delivery /\ received \in Nat
    BY <1>8 DEF Crash, DeliveryRaises, TypeOK
  <2>1. \A q \in Procs : pc'[q] \in Delivering => pc[q] \in Delivering
    BY <1>8, <1>e, <1>g DEF Crash, DeliveryRaises, AttemptFails
  <2>2. CASE pc[p] = "deliver"
    <3>1. Validated # {}
      BY <2>2 DEF Honest
    <3> QED
      BY <2>0, <2>1, <2>2, <3>1, <1>s DEF Honest, DeliveryHonest
  <2>3. CASE pc[p] # "deliver"
    BY <2>0, <2>1, <2>3, <1>f
  <2> QED
    BY <2>2, <2>3
<1>9. CASE UNCHANGED vars
  BY <1>9, <1>f
<1>10. ASSUME NEW p \in Procs, JobRaises(p) PROVE Honest'
  BY <1>10, <1>e, <1>f DEF JobRaises
<1> QED
  BY <1>1, <1>2, <1>3, <1>4, <1>5, <1>6, <1>7, <1>8, <1>9, <1>10 DEF Next

----------------------------------------------------------------------------
(***************************************************************************)
(* Who moves the task on.                                                  *)
(***************************************************************************)

\* A task that awaits a decision can get one; and a task that a review saw failed does
\* not run again, since there is nobody left to approve it.
Decided ==
    /\ task = "awaiting_approval" => approval = "pending"
    /\ \A w \in Workers : pc[w] = "review" /\ seen[w].status = "failed" =>
          task \in {"failed", "cancelled"}

PlanAwaited ==
    task = "submitted" =>
        \/ OnItsWay("plan")
        \/ InHand("plan", {"start"})
        \/ \E c \in Callbacks : pc[c] \in {"enqueue", "markFailed"}

\* While the first plan's steps run, each of their states has its carrier.
StepsCarried ==
    task = "running" /\ steps["repair"] = "none" =>
        /\ steps["first"] \notin {"none", "pending"}
        /\ steps["first"] = "ready" => \E p \in Procs : pc[p] = "dispatch"
        /\ steps["first"] = "running" => OnItsWay("first") \/ InHand("first", {"start", "tool"})
        /\ steps["first"] = "completed" => InHand("first", {"dispatch", "sendSteps", "check"})

\* Of the drafts under way one is based on the newest version, unless one is written.
DraftCarried ==
    task = "synthesizing" =>
        \/ OnItsWay("synthesize")
        \/ InHand("synthesize", {"start", "drafted"})
        \/ \E w \in Workers : pc[w] = "draft" /\ seen[w].versions = Len(reports)

ReviewCarried ==
    task = "validating" => OnItsWay("validate") \/ InHand("validate", {"start", "review"})

Owned ==
    /\ Decided
    /\ lost \/ (PlanAwaited /\ StepsCarried /\ DraftCarried /\ ReviewCarried)

\* A step moves one process, by an action of its own.
LEMMA OneMoves ==
  ASSUME TypeOK, [Next]_vars
  PROVE  /\ \A w \in Workers : \/ pc'[w] = pc[w] /\ msg'[w] = msg[w] /\ seen'[w] = seen[w]
                               \/ Work(w) \/ SendAll(w) \/ DeliveryRaises(w)
                               \/ JobRaises(w) \/ Crash(w)
         /\ \A c \in Callbacks : pc'[c] = pc[c] \/ Submit(c) \/ JobRaises(c) \/ Crash(c)
         /\ \A p \in Procs : pc[p] = "dispatch" =>
               pc'[p] = pc[p] \/ Dispatch(p) \/ JobRaises(p) \/ Crash(p)
         /\ lost => lost'
<1> USE DEF vars, taskVars, reportVars, sentVars, jobVars, Procs, Deciders
<1> DEFINE Still(q) == /\ pc'[q] = pc[q]
                       /\ q \in Workers => msg'[q] = msg[q] /\ seen'[q] = seen[q]
           Alone(p) == \A q \in Procs : q # p => Still(q)
<1>0. Workers \cap Callbacks = {} /\ (Workers \cup Callbacks) \cap {Approver, Rejecter} = {}
      /\ Approver # Rejecter
  BY PipelineAssumption
<1>e. \A p \in Procs : End(p) => Alone(p)
  BY EndFacts
<1>g. \A p \in Procs : \A l : Goto(p, l) /\ UNCHANGED <<msg, seen>> => Alone(p)
  BY DEF Goto, TypeOK
<1>1. ASSUME NEW c \in Callbacks, Submit(c)
      PROVE  Alone(c) /\ pc[c] # "dispatch" /\ lost' = lost
  BY <1>1, <1>e, <1>g DEF Submit, SubmitCreates, SubmitEnqueues, SubmitEnqueueRaises,
     SubmitMarkRaises, SubmitMarks, SubmitMarksFailed
<1>2. ASSUME NEW d \in Deciders, Decide(d) PROVE Alone(d) /\ pc[d] # "dispatch" /\ lost' = lost
  BY <1>2, <1>g DEF Decide
<1>3. Approve => Alone(Approver) /\ pc[Approver] # "dispatch" /\ lost' = lost
  BY <1>g DEF Approve, CommitThenSend
<1>4. Reject => Alone(Rejecter) /\ pc[Rejecter] # "dispatch" /\ lost' = lost
  BY <1>e DEF Reject
<1>5. ASSUME NEW w \in Workers, Work(w)
      PROVE  Alone(w) /\ pc[w] # "dispatch" /\ (lost => lost')
  <2>1. CASE \E m \in Messages : Receive(w, m)
    BY <2>1 DEF Receive, Goto, TypeOK
  <2>2. CASE Draft(w) \/ Review(w)
    BY <2>2 DEF Draft, Review, Starts, Goto, TypeOK
  <2>3. CASE \/ PlanTask(w) \/ PlanTooLate(w) \/ (\E k \in Plans : StepStarts(w, k))
             \/ StepEnds(w) \/ StepRaises(w) \/ CheckSteps(w)
    BY <2>3, <1>e, <1>g DEF PlanTask, PlanTooLate, StepStarts, StepEnds, StepRaises,
       CheckSteps, CommitThenSend, Starts
  <2>4. CASE \/ CommitDraft(w) \/ QueueValidation(w) \/ ReviewPasses(w) \/ ReviewRepairs(w)
             \/ ReviewFails(w)
    BY <2>4, <1>e, <1>g DEF CommitDraft, QueueValidation, ReviewPasses, ReviewRepairs, ReviewFails,
       CommitThenSend
  <2>5. CASE \/ DeliverStarts(w) \/ ConvertRaises(w) \/ LockDelivery(w) \/ DeliverSucceeds(w)
             \/ DeliverFails(w)
    BY <2>5, <1>e, <1>g DEF DeliverStarts, ConvertRaises, LockDelivery, DeliverSucceeds,
       DeliverFails, AttemptFails, Starts
  <2> QED
    BY <1>5, <2>1, <2>2, <2>3, <2>4, <2>5 DEF Work
<1>6. ASSUME NEW p \in Procs, SendAll(p)
      PROVE  Alone(p) /\ (pc[p] = "dispatch" => Dispatch(p)) /\ (lost => lost')
  <2>1. End(p) \/ (UNCHANGED <<msg, seen>> /\ (pc' = pc \/ \E l : Goto(p, l)))
    BY <1>6 DEF SendAll, Dispatch, Send, SendRaises, GoOn, CommitThenSend
  <2>2. (pc[p] = "dispatch" => Dispatch(p)) /\ (lost => lost')
    BY <1>6 DEF SendAll, Dispatch, Send, SendRaises
  <2> QED
    BY <2>1, <2>2, <1>e, <1>g
<1>7. ASSUME NEW p \in Procs, Crash(p) \/ JobRaises(p) PROVE Alone(p) /\ (lost => lost')
  BY <1>7, <1>e DEF Crash, JobRaises
<1>15. ASSUME NEW w \in Workers, DeliveryRaises(w)
       PROVE  Alone(w) /\ pc[w] # "dispatch" /\ lost' = lost
  BY <1>15, <1>e, <1>g DEF DeliveryRaises, AttemptFails, Starts
<1>8. (UNCHANGED vars \/ \E w \in Workers : Redeliver(w)) =>
        (\A q \in Procs : Still(q)) /\ lost' = lost
  BY DEF Redeliver
<1>9. CASE UNCHANGED vars \/ \E w \in Workers : Redeliver(w)
  BY <1>8, <1>9
<1>10. CASE \E c \in Callbacks : Submit(c)
  BY <1>0, <1>1, <1>10
<1>11. CASE Approve \/ Reject \/ \E d \in Deciders : Decide(d)
  BY <1>0, <1>2, <1>3, <1>4, <1>11
<1>12. CASE \E w \in Workers : Work(w)
  BY <1>0, <1>5, <1>12
<1>13. CASE \E p \in Workers \cup Deciders : SendAll(p)
  BY <1>0, <1>6, <1>13
<1>14. CASE \E p \in Procs : JobRaises(p) \/ Crash(p)
  BY <1>0, <1>7, <1>14
<1>16. CASE \E w \in Workers : DeliveryRaises(w)
  BY <1>0, <1>15, <1>16
<1> QED
  BY <1>9, <1>10, <1>11, <1>12, <1>13, <1>14, <1>16 DEF Next

\* A message that is on its way stays on its way until a worker takes it, unless one is
\* lost.
LEMMA OnItsWayStays ==
  ASSUME TypeOK, Phases, [Next]_vars, ~lost', NEW m \in Messages, OnItsWay(m)
  PROVE  OnItsWay(m)' \/ InHand(m, {"start"})'
<1> USE DEF vars, taskVars, reportVars, sentVars, jobVars, Procs, Deciders
\* What p does when it is not sending leaves every message where it is.
<1> DEFINE Stays == /\ queue'[m] >= queue[m]
                    /\ \A p \in Procs : m \in out[p] => m \in out'[p]
<1>t. queue \in [Messages -> Nat] /\ queue' \in [Messages -> Nat]
  BY NextTypeOK DEF TypeOK
<1>s. Stays => OnItsWay(m)'
  BY <1>t DEF OnItsWay
<1>o. \A p \in Procs : pc[p] \notin {"sendSteps", "sendStage"} => out[p] = {}
  BY DEF Phases
<1>q. queue[m] \in Nat
  BY DEF TypeOK
<1>e. ASSUME NEW p \in Procs, pc[p] \notin {"sendSteps", "sendStage"},
             \/ End(p)
             \/ \E ms, l : CommitThenSend(p, ms, l)
             \/ out' = out
      PROVE  \A q \in Procs : m \in out[q] => m \in out'[q]
  BY <1>e, <1>o, EndFacts DEF CommitThenSend, TypeOK
<1>1. ASSUME NEW c \in Callbacks, Submit(c) PROVE Stays
  <2>1. queue'[m] >= queue[m]
    BY <1>1, <1>q DEF Submit, SubmitCreates, SubmitEnqueues, SubmitEnqueueRaises,
       SubmitMarkRaises, SubmitMarks, SubmitMarksFailed, Enqueue, TypeOK
  <2> QED
    BY <1>1, <2>1, <1>e DEF Submit, SubmitCreates, SubmitEnqueues, SubmitEnqueueRaises,
       SubmitMarkRaises, SubmitMarks, SubmitMarksFailed
<1>2. ASSUME NEW d \in Deciders, Decide(d) PROVE Stays
  BY <1>2, <1>q DEF Decide
<1>3. CASE Approve
  BY <1>3, <1>q, <1>e, <1>s DEF Approve
<1>4. CASE Reject
  BY <1>4, <1>q, <1>e, <1>s DEF Reject
<1>5. ASSUME NEW w \in Workers, Work(w) PROVE OnItsWay(m)' \/ InHand(m, {"start"})'
  <2>1. ASSUME NEW k \in Messages, Receive(w, k) PROVE OnItsWay(m)' \/ InHand(m, {"start"})'
    <3>1. CASE k = m
      BY <2>1, <3>1 DEF Receive, Goto, InHand, TypeOK
    <3>2. CASE k # m
      BY <2>1, <3>2, <1>q, <1>s DEF Receive, TypeOK
    <3> QED
      BY <3>1, <3>2
  <2>2. CASE ~\E k \in Messages : Receive(w, k)
    <3>1. queue' = queue
      BY <1>5, <2>2 DEF Work, PlanTask, PlanTooLate, StepStarts, StepEnds, StepRaises,
         CheckSteps, Draft, CommitDraft, QueueValidation, Review, ReviewPasses, ReviewRepairs,
         ReviewFails, DeliverStarts, ConvertRaises, LockDelivery, DeliverSucceeds, DeliverFails
    <3>2. pc[w] \notin {"sendSteps", "sendStage"}
      BY <1>5, <2>2 DEF Work, PlanTask, PlanTooLate, StepStarts, StepEnds, StepRaises,
         CheckSteps, Draft, CommitDraft, QueueValidation, Review, ReviewPasses, ReviewRepairs,
         ReviewFails, DeliverStarts, ConvertRaises, LockDelivery, DeliverSucceeds, DeliverFails,
         Starts
    <3>3. End(w) \/ (\E ms, l : CommitThenSend(w, ms, l)) \/ out' = out
      BY <1>5, <2>2 DEF Work, PlanTask, PlanTooLate, StepStarts, StepEnds, StepRaises,
         CheckSteps, Draft, CommitDraft, QueueValidation, Review, ReviewPasses, ReviewRepairs,
         ReviewFails, DeliverStarts, ConvertRaises, LockDelivery, DeliverSucceeds, DeliverFails,
         AttemptFails
    <3> QED
      BY <3>1, <3>2, <3>3, <1>q, <1>e, <1>s
  <2> QED
    BY <2>1, <2>2
<1>6. ASSUME NEW w \in Workers, Redeliver(w) PROVE Stays
  BY <1>6, <1>q DEF Redeliver, TypeOK
<1>7. ASSUME NEW p \in Procs, SendAll(p) PROVE OnItsWay(m)'
  <2>1. CASE Dispatch(p)
    <3>1. queue' = queue /\ pc[p] = "dispatch"
      BY <2>1 DEF Dispatch
    <3>2. End(p) \/ (\E ms, l : CommitThenSend(p, ms, l)) \/ out' = [out EXCEPT ![p] = {}]
      BY <2>1 DEF Dispatch, GoOn
    <3>3. \A q \in Procs : m \in out[q] => m \in out'[q]
      BY <3>1, <3>2, <1>e, <1>o DEF TypeOK
    <3> QED
      BY <3>1, <3>3, <1>q, <1>s
  <2>2. ASSUME NEW k \in Messages, Send(p, k) PROVE OnItsWay(m)'
    <3>1. /\ \A j \in Messages : queue'[j] = IF j = k THEN queue[j] + 1 ELSE queue[j]
          /\ k \in out[p]
      BY <2>2 DEF Send, Enqueue, TypeOK
    <3>2. \A q \in Procs, j \in Messages : j # k /\ j \in out[q] => j \in out'[q]
      <4>1. CASE out[p] = {k}
        <5>1. GoOn(p, pc[p])
          BY <2>2, <4>1 DEF Send
        <5>2. End(p) \/ out' = [out EXCEPT ![p] = {}]
          BY <5>1 DEF GoOn
        <5>3. \A q \in Procs : q # p => out'[q] = out[q]
          BY <5>2, EndFacts DEF TypeOK
        <5> QED
          BY <4>1, <5>3
      <4>2. CASE out[p] # {k}
        <5>1. out' = [out EXCEPT ![p] = @ \ {k}]
          BY <2>2, <4>2 DEF Send
        <5> QED
          BY <5>1 DEF TypeOK
      <4> QED
        BY <4>1, <4>2
    <3> QED
      BY <3>1, <3>2, <1>q DEF OnItsWay
  <2>3. CASE SendRaises(p)
    BY <2>3 DEF SendRaises
  <2> QED
    BY <1>7, <2>1, <2>2, <2>3 DEF SendAll
<1>8. ASSUME NEW p \in Procs, Crash(p) PROVE Stays
  <2>1. pc[p] \notin {"sendSteps", "sendStage"}
    <3>1. lost' = (lost \/ pc[p] \in {"enqueue", "markFailed", "dispatch", "sendSteps",
                                      "sendStage", "check"})
      BY <1>8 DEF Crash
    <3> QED
      BY <3>1
  <2>2. queue'[m] >= queue[m] /\ End(p)
    BY <1>8, <1>t DEF Crash
  <2> QED
    BY <2>1, <2>2, <1>e
<1>9. CASE UNCHANGED vars
  BY <1>9, <1>q, <1>s
<1>10. ASSUME NEW w \in Workers, DeliveryRaises(w) PROVE Stays
  <2>1. pc[w] \notin {"sendSteps", "sendStage"} /\ queue' = queue
    BY <1>10 DEF DeliveryRaises, Starts
  <2>2. End(w) \/ out' = out
    BY <1>10 DEF DeliveryRaises, AttemptFails
  <2> QED
    BY <2>1, <2>2, <1>q, <1>e
<1>11. \A p \in Procs : ~JobRaises(p)
  BY DEF JobRaises
<1> QED
  BY <1>1, <1>2, <1>3, <1>4, <1>5, <1>6, <1>7, <1>8, <1>9, <1>10, <1>11, <1>s DEF Next

\* The actions that write the task, its approval or its steps...
LEMMA TaskWriters ==
  ASSUME [Next]_vars
  PROVE  \/ UNCHANGED <<task, approval, steps>>
         \/ \E c \in Callbacks : SubmitCreates(c) \/ SubmitMarksFailed(c)
         \/ Approve
         \/ Reject
         \/ \E p \in Procs : Dispatch(p) \/ SendRaises(p)
         \/ \E w \in Workers : \/ PlanTask(w) \/ StepEnds(w) \/ StepRaises(w) \/ CheckSteps(w)
                               \/ QueueValidation(w)
                               \/ ReviewPasses(w) \/ ReviewRepairs(w) \/ ReviewFails(w)
<1> DEFINE Same == UNCHANGED <<task, approval, steps>>
<1> USE DEF vars, taskVars
<1>1. ASSUME NEW c \in Callbacks, Submit(c)
      PROVE  Same \/ SubmitCreates(c) \/ SubmitMarksFailed(c)
  BY <1>1 DEF Submit, SubmitEnqueues, SubmitEnqueueRaises, SubmitMarkRaises, SubmitMarks
<1>2. ASSUME NEW w \in Workers, Work(w)
      PROVE  \/ Same
             \/ PlanTask(w) \/ StepEnds(w) \/ StepRaises(w) \/ CheckSteps(w)
             \/ QueueValidation(w)
             \/ ReviewPasses(w) \/ ReviewRepairs(w) \/ ReviewFails(w)
  BY <1>2 DEF Work, Receive, PlanTooLate, StepStarts, Draft, CommitDraft, Review,
     DeliverStarts, ConvertRaises, LockDelivery, DeliverSucceeds, DeliverFails
<1>3. ASSUME NEW p \in Procs, SendAll(p) PROVE Same \/ Dispatch(p) \/ SendRaises(p)
  BY <1>3 DEF SendAll, Send
<1>4. (\E w \in Workers : Redeliver(w) \/ DeliveryRaises(w)) \/ (\E d \in Deciders : Decide(d))
        \/ (\E p \in Procs : JobRaises(p) \/ Crash(p)) => Same
  BY DEF Redeliver, DeliveryRaises, Decide, JobRaises, Crash
<1> QED
  BY <1>1, <1>2, <1>3, <1>4 DEF Next, Procs

\* ...and the ones that write the reports.
LEMMA ReportWriters ==
  ASSUME [Next]_vars
  PROVE  \/ reports' = reports
         \/ \E w \in Workers : CommitDraft(w) /\ pc' = [pc EXCEPT ![w] = "drafted"] /\ msg' = msg
         \/ task = "validating"
<1> USE DEF vars, taskVars, reportVars
<1>1. ASSUME NEW c \in Callbacks, Submit(c) PROVE reports' = reports
  BY <1>1 DEF Submit, SubmitCreates, SubmitMarksFailed, SubmitEnqueues, SubmitEnqueueRaises,
     SubmitMarkRaises, SubmitMarks
<1>2. ASSUME NEW w \in Workers, Work(w)
      PROVE  \/ reports' = reports
             \/ CommitDraft(w) /\ pc' = [pc EXCEPT ![w] = "drafted"] /\ msg' = msg
             \/ task = "validating"
  <2>1. CASE CommitDraft(w)
    BY <2>1 DEF CommitDraft, Goto, jobVars
  <2>2. CASE ReviewPasses(w)
    BY <2>2 DEF ReviewPasses, InStatus
  <2>3. CASE ~CommitDraft(w) /\ ~ReviewPasses(w)
    BY <1>2, <2>3 DEF Work, Receive, PlanTask, PlanTooLate, StepStarts, StepEnds,
       StepRaises, CheckSteps, Draft, QueueValidation, Review, ReviewRepairs, ReviewFails,
       DeliverStarts, ConvertRaises, LockDelivery, DeliverSucceeds, DeliverFails
  <2> QED
    BY <2>1, <2>2, <2>3
<1>3. ASSUME NEW p \in Procs, SendAll(p) PROVE reports' = reports
  BY <1>3 DEF SendAll, Send, Dispatch, SendRaises
<1>4. (\E w \in Workers : Redeliver(w) \/ DeliveryRaises(w)) \/ (\E d \in Deciders : Decide(d))
        \/ (\E p \in Procs : JobRaises(p) \/ Crash(p)) \/ Approve \/ Reject => reports' = reports
  BY DEF Redeliver, DeliveryRaises, Decide, JobRaises, Crash, Approve, Reject
<1> QED
  BY <1>1, <1>2, <1>3, <1>4 DEF Next, Procs

\* What becomes of w's job, when nothing is lost: it stays where it is, or its message is
\* delivered again, or it takes its next step.
LEMMA Departs ==
  ASSUME TypeOK, Phases, [Next]_vars, ~lost', NEW w \in Workers
  PROVE  \/ pc'[w] = pc[w] /\ msg'[w] = msg[w] /\ seen'[w] = seen[w]
         \/ queue'[msg[w]] > 0
         \/ DeliveryRaises(w)
         \/ /\ pc[w] = "start" => \/ PlanTask(w) \/ PlanTooLate(w) \/ Draft(w) \/ Review(w)
                                  \/ (\E k \in Plans : StepStarts(w, k)) \/ DeliverStarts(w)
            /\ pc[w] = "tool" => StepEnds(w)
            /\ pc[w] = "check" => CheckSteps(w)
            /\ pc[w] = "draft" => CommitDraft(w)
            /\ pc[w] = "drafted" => QueueValidation(w)
            /\ pc[w] = "review" => ReviewPasses(w) \/ ReviewRepairs(w) \/ ReviewFails(w)
            /\ pc[w] = "dispatch" => Dispatch(w)
            /\ pc[w] = "sendSteps" => \E m \in Messages : Send(w, m)
<1>1. CASE Crash(w)
  <2>1. pc[w] # "idle" /\ queue' = [m \in Messages |-> IF w \in Workers /\ msg[w] = m
                                     THEN queue[m] + 1 ELSE queue[m]]
    BY <1>1 DEF Crash
  <2>2. msg[w] \in Messages
    BY <2>1 DEF Phases, TypeOK
  <2> QED
    BY <2>1, <2>2 DEF TypeOK
<1>2. CASE SendAll(w)
  BY <1>2 DEF SendAll, Dispatch, Send, SendRaises
<1>3. CASE Work(w)
  <2>1. ~StepRaises(w)
    BY DEF StepRaises
  <2>2. CASE pc[w] \in {"dispatch", "sendSteps"}
    BY <1>3, <2>2 DEF Work, Receive, PlanTask, PlanTooLate, StepStarts, StepEnds,
       StepRaises, CheckSteps, Draft, CommitDraft, QueueValidation, Review, ReviewPasses,
       ReviewRepairs, ReviewFails, DeliverStarts, ConvertRaises, LockDelivery, DeliverSucceeds,
       DeliverFails, Starts
  <2>3. CASE pc[w] \in {"start", "tool", "check"}
    BY <1>3, <2>1, <2>3 DEF Work, Receive, StepEnds, CheckSteps, CommitDraft, QueueValidation,
       ReviewPasses, ReviewRepairs, ReviewFails, ConvertRaises, LockDelivery, DeliverSucceeds,
       DeliverFails, PlanTask, PlanTooLate, StepStarts, Draft, Review, DeliverStarts, Starts
  <2>4. CASE pc[w] \in {"draft", "drafted", "review"}
    BY <1>3, <2>1, <2>4 DEF Work, Receive, StepEnds, CheckSteps, CommitDraft, QueueValidation,
       ReviewPasses, ReviewRepairs, ReviewFails, ConvertRaises, LockDelivery, DeliverSucceeds,
       DeliverFails, PlanTask, PlanTooLate, StepStarts, Draft, Review, DeliverStarts, Starts
  <2> QED
    BY <2>2, <2>3, <2>4
<1>4. ~JobRaises(w)
  BY DEF JobRaises
<1> QED
  BY <1>1, <1>2, <1>3, <1>4, OneMoves

LEMMA NextDecided ==
  ASSUME TypeOK, Phases, Untouched, Decided, [Next]_vars
  PROVE  Decided'
<1> USE DEF taskVars
<1>1. task' = "awaiting_approval" => approval' = "pending"
  <2>1. CASE UNCHANGED <<task, approval, steps>>
    BY <2>1 DEF Decided
  <2>2. CASE \E c \in Callbacks : SubmitCreates(c) \/ SubmitMarksFailed(c)
    BY <2>2 DEF Decided, SubmitCreates, SubmitMarksFailed
  <2>3. CASE Approve \/ Reject
    BY <2>3 DEF Approve, Reject
  <2>4. CASE \E p \in Procs : Dispatch(p) \/ SendRaises(p)
    BY <2>4 DEF Decided, Dispatch, SendRaises
  <2>5. CASE \E w \in Workers : PlanTask(w)
    BY <2>5 DEF PlanTask, PlanCommitted
  <2>6. CASE \E w \in Workers : \/ StepEnds(w) \/ StepRaises(w) \/ CheckSteps(w)
                                \/ QueueValidation(w)
                                \/ ReviewPasses(w) \/ ReviewRepairs(w) \/ ReviewFails(w)
    BY <2>6 DEF Decided, StepEnds, StepRaises, CheckSteps, QueueValidation, ReviewPasses,
       ReviewRepairs, ReviewFails
  <2> QED
    BY TaskWriters, <2>1, <2>2, <2>3, <2>4, <2>5, <2>6
<1>2. ASSUME NEW w \in Workers, pc'[w] = "review", seen'[w].status = "failed"
      PROVE  task' \in {"failed", "cancelled"}
  <2>1. CASE pc[w] = "review" /\ seen'[w] = seen[w]
    <3>1. task \in {"failed", "cancelled"}
      BY <1>2, <2>1 DEF Decided
    <3>2. ~Approve
      BY <2>1, NothingRuns DEF Approve, Untouched, Undecided
    <3>3. CASE \E c \in Callbacks : SubmitCreates(c) \/ SubmitMarksFailed(c)
      BY <3>1, <3>3 DEF SubmitCreates, SubmitMarksFailed
    <3>4. CASE Reject \/ \E p \in Procs : Dispatch(p) \/ SendRaises(p)
      BY <3>1, <3>4 DEF Reject, Dispatch, SendRaises
    <3>5. CASE \E v \in Workers : \/ PlanTask(v) \/ StepEnds(v) \/ StepRaises(v) \/ CheckSteps(v)
                                  \/ QueueValidation(v)
                                  \/ ReviewPasses(v) \/ ReviewRepairs(v) \/ ReviewFails(v)
      BY <3>1, <3>5 DEF PlanTask, StepEnds, StepRaises, CheckSteps, QueueValidation, ReviewPasses,
         ReviewRepairs, ReviewFails, InStatus
    <3> QED
      BY TaskWriters, <3>1, <3>2, <3>3, <3>4, <3>5
  <2>2. CASE Review(w)
    BY <1>2, <2>2 DEF Review, TypeOK, TaskStatuses
  <2>3. Review(w) \/ (pc[w] = "review" /\ seen'[w] = seen[w])
    <3>1. CASE Work(w)
      <4>1. w \in Procs
        BY DEF Procs
      <4>2. ~End(w)
        BY <1>2, <4>1, EndFacts
      <4>3. \A l : Goto(w, l) => l = "review"
        BY <1>2, <4>1 DEF Goto, TypeOK
      <4>4. \A ms, l : CommitThenSend(w, ms, l) => l = "review"
        BY <4>3 DEF CommitThenSend
      <4>5. ~AttemptFails(w)
        BY <4>2, <4>3 DEF AttemptFails
      <4>6. CASE Review(w)
        BY <4>6
      <4>7. CASE \/ \E m \in Messages : Receive(w, m)
                 \/ PlanTask(w) \/ PlanTooLate(w)
                 \/ (\E k \in Plans : StepStarts(w, k))
                 \/ StepEnds(w) \/ StepRaises(w) \/ CheckSteps(w) \/ Draft(w)
        BY <4>7, <4>2, <4>3, <4>4 DEF Receive, PlanTask, PlanTooLate, StepStarts,
           StepEnds, StepRaises, CheckSteps, Draft
      <4>8. CASE \/ CommitDraft(w) \/ QueueValidation(w)
                 \/ ReviewPasses(w) \/ ReviewRepairs(w) \/ ReviewFails(w)
                 \/ DeliverStarts(w) \/ ConvertRaises(w) \/ LockDelivery(w)
                 \/ DeliverSucceeds(w) \/ DeliverFails(w)
        BY <4>8, <4>2, <4>3, <4>4, <4>5 DEF CommitDraft, QueueValidation, ReviewPasses,
           ReviewRepairs, ReviewFails, DeliverStarts, ConvertRaises, LockDelivery,
           DeliverSucceeds, DeliverFails
      <4> QED
        BY <3>1, <4>6, <4>7, <4>8 DEF Work
    <3>2. CASE SendAll(w)
      <4>1. w \in Procs
        BY DEF Procs
      <4>2. ~End(w)
        BY <1>2, <4>1, EndFacts
      <4>3. \A l : Goto(w, l) => l = "review"
        BY <1>2, <4>1 DEF Goto, TypeOK
      <4>4. pc[w] # "review"
        BY <3>2 DEF SendAll, Dispatch, Send, SendRaises
      <4> QED
        BY <1>2, <3>2, <4>2, <4>3, <4>4 DEF SendAll, Dispatch, Send, SendRaises, GoOn,
           CommitThenSend
    <3>3. CASE Crash(w) \/ JobRaises(w)
      BY <1>2, <3>3, EndFacts DEF Crash, JobRaises, Procs
    <3>4. CASE DeliveryRaises(w)
      BY <1>2, <3>4, EndFacts DEF DeliveryRaises, AttemptFails, Goto, TypeOK, Procs
    <3> QED
      BY <1>2, <3>1, <3>2, <3>3, <3>4, OneMoves
  <2> QED
    BY <2>1, <2>2, <2>3
<1> QED
  BY <1>1, <1>2 DEF Decided

LEMMA NextPlanAwaited ==
  ASSUME TypeOK, Phases, PlanAwaited, [Next]_vars, ~lost'
  PROVE  PlanAwaited'
<1> SUFFICES ASSUME task' = "submitted"
             PROVE  \/ OnItsWay("plan")'
                    \/ InHand("plan", {"start"})'
                    \/ \E c \in Callbacks : pc'[c] \in {"enqueue", "markFailed"}
  BY DEF PlanAwaited, InHand
<1> USE DEF taskVars
<1>0. "plan" \in Messages /\ "plan" \notin Plans
  BY DEF Messages, Plans
<1>1. CASE \E c \in Callbacks : SubmitCreates(c) /\ task = "none"
  BY <1>1 DEF SubmitCreates, Goto, TypeOK, Procs
<1>2. CASE task = "submitted"
  <2>1. CASE OnItsWay("plan")
    BY <1>0, <2>1, OnItsWayStays
  <2>2. ASSUME NEW w \in Workers, msg[w] = "plan", pc[w] = "start"
        PROVE  OnItsWay("plan")' \/ InHand("plan", {"start"})'
    <3>1. ~PlanTooLate(w) /\ ~Draft(w) /\ ~Review(w) /\ ~DeliverStarts(w) /\ ~DeliveryRaises(w)
          /\ \A k \in Plans : ~StepStarts(w, k)
      BY <1>0, <1>2, <2>2 DEF PlanTooLate, Draft, Review, DeliverStarts, DeliveryRaises,
         StepStarts, Starts
    <3>2. ~PlanTask(w)
      BY DEF PlanTask, PlanCommitted
    <3>3. \/ pc'[w] = pc[w] /\ msg'[w] = msg[w]
          \/ queue'[msg[w]] > 0
      BY <2>2, <3>1, <3>2, Departs
    <3> QED
      BY <2>2, <3>3 DEF OnItsWay, InHand
  <2>3. ASSUME NEW c \in Callbacks, pc[c] \in {"enqueue", "markFailed"}
        PROVE  OnItsWay("plan")' \/ pc'[c] \in {"enqueue", "markFailed"}
    <3>1. CASE Crash(c)
      <4>1. lost' = (lost \/ pc[c] \in {"enqueue", "markFailed", "dispatch", "sendSteps",
                                        "sendStage", "check"})
        BY <3>1 DEF Crash
      <4> QED
        BY <2>3, <4>1
    <3>2. CASE SubmitEnqueues(c)
      BY <1>0, <3>2 DEF SubmitEnqueues, Enqueue, OnItsWay, TypeOK
    <3>3. CASE SubmitEnqueueRaises(c)
      BY <3>3 DEF SubmitEnqueueRaises, Goto, TypeOK, Procs
    <3>4. ~SubmitCreates(c) /\ ~SubmitMarks(c) /\ ~SubmitMarkRaises(c) /\ ~SubmitMarksFailed(c)
          /\ ~JobRaises(c)
      BY <2>3 DEF SubmitCreates, SubmitMarks, SubmitMarkRaises, SubmitMarksFailed, JobRaises
    <3> QED
      BY <2>3, <3>1, <3>2, <3>3, <3>4, OneMoves DEF Submit
  <2> QED
    BY <1>2, <2>1, <2>2, <2>3 DEF PlanAwaited, InHand
<1>3. task = "submitted" \/ \E c \in Callbacks : SubmitCreates(c) /\ task = "none"
  <2>1. CASE \E c \in Callbacks : SubmitCreates(c) \/ SubmitMarksFailed(c)
    BY <2>1 DEF SubmitCreates, SubmitMarksFailed
  <2>2. CASE Approve \/ Reject \/ \E p \in Procs : Dispatch(p) \/ SendRaises(p)
    BY <2>2 DEF Approve, Reject, Dispatch, SendRaises
  <2>3. CASE \E w \in Workers : \/ PlanTask(w) \/ StepEnds(w) \/ StepRaises(w) \/ CheckSteps(w)
                                \/ QueueValidation(w)
                                \/ ReviewPasses(w) \/ ReviewRepairs(w) \/ ReviewFails(w)
    BY <2>3 DEF PlanTask, PlanCommitted, StepEnds, StepRaises, CheckSteps, QueueValidation,
       ReviewPasses, ReviewRepairs, ReviewFails
  <2> QED
    BY TaskWriters, <2>1, <2>2, <2>3
<1> QED
  BY <1>1, <1>2, <1>3

LEMMA NextDraftCarried ==
  ASSUME TypeOK, TypeOK', Phases, DraftCarried, [Next]_vars, ~lost'
  PROVE  DraftCarried'
<1> SUFFICES ASSUME task' = "synthesizing"
             PROVE  \/ OnItsWay("synthesize")'
                    \/ InHand("synthesize", {"start", "drafted"})'
                    \/ \E w \in Workers : pc'[w] = "draft" /\ seen'[w].versions = Len(reports')
  BY DEF DraftCarried, InHand
<1> USE DEF taskVars
<1>0. "synthesize" \in Messages /\ "synthesize" \notin Plans
  BY DEF Messages, Plans, Stages
<1>1. ASSUME NEW w \in Workers, CheckSteps(w), task = "running"
      PROVE  OnItsWay("synthesize")'
  <2>1. CommitThenSend(w, {"synthesize"}, "sendStage")
    BY <1>1 DEF CheckSteps
  <2> QED
    BY <2>1 DEF CommitThenSend, OnItsWay, TypeOK, Procs
<1>2. CASE task = "synthesizing"
  <2>1. CASE OnItsWay("synthesize")
    <3>1. OnItsWay("synthesize")' \/ InHand("synthesize", {"start"})'
      BY <1>0, <2>1, OnItsWayStays
    <3> QED
      BY <3>1 DEF InHand
  <2>2. ASSUME NEW w \in Workers, msg[w] = "synthesize", pc[w] = "start"
        PROVE  \/ OnItsWay("synthesize")'
               \/ InHand("synthesize", {"start", "drafted"})'
               \/ pc'[w] = "draft" /\ seen'[w].versions = Len(reports')
    <3>1. ~PlanTooLate(w) /\ ~PlanTask(w) /\ ~Review(w) /\ ~DeliverStarts(w)
          /\ ~DeliveryRaises(w) /\ \A k \in Plans : ~StepStarts(w, k)
      BY <1>0, <2>2 DEF PlanTooLate, PlanTask, Review, DeliverStarts, DeliveryRaises, StepStarts,
         Starts
    <3>2. CASE Draft(w)
      <4>1. reports' = reports /\ pc'[w] = "draft"
        BY <3>2 DEF Draft, reportVars, Goto, TypeOK, Procs
      <4>2. seen'[w].versions = Len(reports)
        BY <3>2 DEF Draft, TypeOK
      <4> QED
        BY <4>1, <4>2
    <3>3. CASE pc'[w] = pc[w] /\ msg'[w] = msg[w]
      BY <2>2, <3>3 DEF InHand
    <3>4. CASE queue'[msg[w]] > 0
      BY <2>2, <3>4 DEF OnItsWay
    <3> QED
      BY <2>2, <3>1, <3>2, <3>3, <3>4, Departs
  <2>3. ASSUME NEW w \in Workers, msg[w] = "synthesize", pc[w] = "drafted"
        PROVE  OnItsWay("synthesize")' \/ InHand("synthesize", {"start", "drafted"})'
    <3>1. ~QueueValidation(w) /\ ~DeliveryRaises(w)
      BY <1>2, <2>3 DEF QueueValidation, InStatus, DeliveryRaises, Starts
    <3>2. \/ pc'[w] = pc[w] /\ msg'[w] = msg[w]
          \/ queue'[msg[w]] > 0
      BY <2>3, <3>1, Departs
    <3> QED
      BY <2>3, <3>2 DEF OnItsWay, InHand
  <2>4. ASSUME NEW w \in Workers, pc[w] = "draft", seen[w].versions = Len(reports)
        PROVE  \/ OnItsWay("synthesize")'
               \/ InHand("synthesize", {"start", "drafted"})'
               \/ pc'[w] = "draft" /\ seen'[w].versions = Len(reports')
    <3>1. msg[w] = "synthesize"
      BY <2>4 DEF Phases
    <3>2. ASSUME NEW v \in Workers, CommitDraft(v), pc' = [pc EXCEPT ![v] = "drafted"],
                 msg' = msg
          PROVE  InHand("synthesize", {"start", "drafted"})'
      <4>1. msg[v] = "synthesize" /\ pc'[v] = "drafted"
        BY <3>2 DEF CommitDraft, Phases, TypeOK, Procs
      <4> QED
        BY <3>2, <4>1 DEF InHand
    <3>3. CASE reports' = reports
      <4>1. CASE CommitDraft(w)
        BY <2>4, <3>3, <4>1 DEF CommitDraft, TypeOK
      <4>2. ~DeliveryRaises(w)
        BY <2>4 DEF DeliveryRaises, Starts
      <4> QED
        BY <2>4, <3>1, <3>3, <4>1, <4>2, Departs DEF OnItsWay
    <3> QED
      BY <1>2, <3>2, <3>3, ReportWriters
  <2> QED
    BY <1>2, <2>1, <2>2, <2>3, <2>4 DEF DraftCarried, InHand
<1>3. task = "synthesizing" \/ \E w \in Workers : CheckSteps(w) /\ task = "running"
  <2>1. CASE \E c \in Callbacks : SubmitCreates(c) \/ SubmitMarksFailed(c)
    BY <2>1 DEF SubmitCreates, SubmitMarksFailed
  <2>2. CASE Approve \/ Reject \/ \E p \in Procs : Dispatch(p) \/ SendRaises(p)
    BY <2>2 DEF Approve, Reject, Dispatch, SendRaises
  <2>3. CASE \E w \in Workers : \/ PlanTask(w) \/ StepEnds(w) \/ StepRaises(w) \/ CheckSteps(w)
                                \/ QueueValidation(w)
                                \/ ReviewPasses(w) \/ ReviewRepairs(w) \/ ReviewFails(w)
    BY <2>3 DEF PlanTask, PlanCommitted, StepEnds, StepRaises, CheckSteps, QueueValidation,
       ReviewPasses, ReviewRepairs, ReviewFails, InStatus
  <2> QED
    BY TaskWriters, <2>1, <2>2, <2>3
<1> QED
  BY <1>1, <1>2, <1>3

LEMMA NextReviewCarried ==
  ASSUME TypeOK, Phases, Decided, ReviewCarried, [Next]_vars, ~lost'
  PROVE  ReviewCarried'
<1> SUFFICES ASSUME task' = "validating"
             PROVE  OnItsWay("validate")' \/ InHand("validate", {"start", "review"})'
  BY DEF ReviewCarried, InHand
<1> USE DEF taskVars
<1>0. "validate" \in Messages /\ "validate" \notin Plans
  BY DEF Messages, Plans, Stages
<1>1. ASSUME NEW w \in Workers, QueueValidation(w), task = "synthesizing"
      PROVE  OnItsWay("validate")'
  <2>1. CommitThenSend(w, {"validate"}, "sendStage")
    BY <1>1 DEF QueueValidation, InStatus
  <2> QED
    BY <2>1 DEF CommitThenSend, OnItsWay, TypeOK, Procs
<1>2. CASE task = "validating"
  <2>1. CASE OnItsWay("validate")
    <3>1. OnItsWay("validate")' \/ InHand("validate", {"start"})'
      BY <1>0, <2>1, OnItsWayStays
    <3> QED
      BY <3>1 DEF InHand
  <2>2. ASSUME NEW w \in Workers, msg[w] = "validate", pc[w] = "start"
        PROVE  OnItsWay("validate")' \/ InHand("validate", {"start", "review"})'
    <3>1. ~PlanTooLate(w) /\ ~PlanTask(w) /\ ~Draft(w) /\ ~DeliverStarts(w)
          /\ ~DeliveryRaises(w) /\ \A k \in Plans : ~StepStarts(w, k)
      BY <1>0, <2>2 DEF PlanTooLate, PlanTask, Draft, DeliverStarts, DeliveryRaises, StepStarts,
         Starts
    <3>2. CASE Review(w)
      <4>1. msg' = msg /\ pc'[w] = "review"
        BY <3>2 DEF Review, Goto, TypeOK, Procs
      <4> QED
        BY <2>2, <4>1 DEF InHand
    <3>3. CASE pc'[w] = pc[w] /\ msg'[w] = msg[w]
      BY <2>2, <3>3 DEF InHand
    <3>4. CASE queue'[msg[w]] > 0
      BY <2>2, <3>4 DEF OnItsWay
    <3> QED
      BY <2>2, <3>1, <3>2, <3>3, <3>4, Departs
  <2>3. ASSUME NEW w \in Workers, msg[w] = "validate", pc[w] = "review"
        PROVE  OnItsWay("validate")' \/ InHand("validate", {"start", "review"})'
    <3>1. seen[w].status # "failed"
      BY <1>2, <2>3 DEF Decided
    <3>2. ~ReviewPasses(w) /\ ~ReviewRepairs(w) /\ ~ReviewFails(w) /\ ~DeliveryRaises(w)
      BY <1>2, <2>3, <3>1 DEF ReviewPasses, ReviewRepairs, ReviewFails, InStatus, DeliveryRaises,
         Starts
    <3>3. \/ pc'[w] = pc[w] /\ msg'[w] = msg[w]
          \/ queue'[msg[w]] > 0
      BY <2>3, <3>2, Departs
    <3> QED
      BY <2>3, <3>3 DEF OnItsWay, InHand
  <2> QED
    BY <1>2, <2>1, <2>2, <2>3 DEF ReviewCarried, InHand
<1>3. task = "validating" \/ \E w \in Workers : QueueValidation(w) /\ task = "synthesizing"
  <2>1. CASE \E c \in Callbacks : SubmitCreates(c) \/ SubmitMarksFailed(c)
    BY <2>1 DEF SubmitCreates, SubmitMarksFailed
  <2>2. CASE Approve \/ Reject \/ \E p \in Procs : Dispatch(p) \/ SendRaises(p)
    BY <2>2 DEF Approve, Reject, Dispatch, SendRaises
  <2>3. CASE \E w \in Workers : \/ PlanTask(w) \/ StepEnds(w) \/ StepRaises(w) \/ CheckSteps(w)
                                \/ QueueValidation(w)
                                \/ ReviewPasses(w) \/ ReviewRepairs(w) \/ ReviewFails(w)
    BY <2>3 DEF PlanTask, PlanCommitted, StepEnds, StepRaises, CheckSteps, QueueValidation,
       ReviewPasses, ReviewRepairs, ReviewFails, InStatus
  <2> QED
    BY TaskWriters, <2>1, <2>2, <2>3
<1> QED
  BY <1>1, <1>2, <1>3

LEMMA NextStepsCarried ==
  ASSUME TypeOK, Phases, Untouched, RepairWaits, StepsCarried, [Next]_vars, ~lost'
  PROVE  StepsCarried'
<1> SUFFICES ASSUME task' = "running", steps'["repair"] = "none"
             PROVE  /\ steps'["first"] \notin {"none", "pending"}
                    /\ steps'["first"] = "ready" => \E p \in Procs : pc'[p] = "dispatch"
                    /\ steps'["first"] = "running" =>
                          OnItsWay("first")' \/ InHand("first", {"start", "tool"})'
                    /\ steps'["first"] = "completed" =>
                          InHand("first", {"dispatch", "sendSteps", "check"})'
  BY DEF StepsCarried, InHand
<1> USE DEF taskVars
<1>0. /\ "first" \in Plans /\ "repair" \in Plans /\ "first" \in Messages
      /\ \A k \in Plans : k = "first" \/ k = "repair"
      /\ "first" \notin {"plan", "synthesize", "validate", "deliver"}
      /\ \A w \in Workers : w \in Procs
  BY DEF Plans, Messages, Procs
\* The steps are made ready by a process that then dispatches them.
<1>1. ASSUME NEW w \in Workers, PlanTask(w)
      PROVE  steps'["first"] = "ready" /\ pc'[w] = "dispatch"
  BY <1>0, <1>1 DEF PlanTask, PlanCommitted, CommitThenSend, Goto, TypeOK
<1>2. CASE Approve
  <2>1. steps["first"] \in {"pending", "cancelled"}
    BY <1>2 DEF Approve, Untouched, Undecided, Nothing
  <2>2. steps'["first"] \in {"ready", "cancelled"}
    BY <1>0, <1>2, <2>1 DEF Approve, RootsReady
  <2>3. Approver \in Procs /\ pc'[Approver] = "dispatch"
    BY <1>2 DEF Approve, CommitThenSend, Goto, TypeOK, Procs, Deciders
  <2> QED
    BY <2>2, <2>3
\* A state that stays has its carrier.
<1>3. CASE task = "running" /\ steps["repair"] = "none" /\ steps'["first"] = steps["first"]
  <2>1. steps["first"] \notin {"none", "pending"}
    BY <1>3 DEF StepsCarried
  <2>2. ASSUME steps["first"] = "ready" PROVE \E p \in Procs : pc'[p] = "dispatch"
    <3>1. PICK p \in Procs : pc[p] = "dispatch"
      BY <1>3, <2>2 DEF StepsCarried
    <3>2. ~Dispatch(p)
      BY <1>0, <1>3, <2>2 DEF Dispatch
    <3>3. ~Crash(p)
      <4>1. Crash(p) => lost' = (lost \/ pc[p] \in {"enqueue", "markFailed", "dispatch",
                                                  "sendSteps", "sendStage", "check"})
        BY DEF Crash
      <4> QED
        BY <3>1, <4>1
    <3>4. ~JobRaises(p)
      BY DEF JobRaises
    <3> QED
      BY <3>1, <3>2, <3>3, <3>4, OneMoves
  <2>3. ASSUME steps["first"] = "running"
        PROVE  OnItsWay("first")' \/ InHand("first", {"start", "tool"})'
    <3>1. CASE OnItsWay("first")
      <4>1. OnItsWay("first")' \/ InHand("first", {"start"})'
        BY <1>0, <3>1, OnItsWayStays
      <4> QED
        BY <4>1 DEF InHand
    <3>2. ASSUME NEW w \in Workers, msg[w] = "first", pc[w] \in {"start", "tool"}
          PROVE  OnItsWay("first")' \/ InHand("first", {"start", "tool"})'
      <4>1. ~StepEnds(w) \/ pc[w] # "tool"
        BY <1>0, <1>3, <2>3, <3>2 DEF StepEnds, TypeOK
      <4>2. ~PlanTooLate(w) /\ ~PlanTask(w) /\ ~Draft(w) /\ ~Review(w) /\ ~DeliverStarts(w)
            /\ ~DeliveryRaises(w)
        BY <1>0, <3>2 DEF PlanTooLate, PlanTask, Draft, Review, DeliverStarts, DeliveryRaises,
           Starts
      <4>3. ASSUME NEW k \in Plans, StepStarts(w, k) PROVE InHand("first", {"start", "tool"})'
        <5>1. k = "first" /\ Goto(w, "tool") /\ msg' = msg
          BY <2>3, <3>2, <4>3 DEF StepStarts, Starts, jobVars
        <5>2. pc'[w] = "tool"
          BY <1>0, <5>1 DEF Goto, TypeOK
        <5> QED
          BY <3>2, <5>1, <5>2 DEF InHand
      <4>4. CASE pc'[w] = pc[w] /\ msg'[w] = msg[w]
        BY <3>2, <4>4 DEF InHand
      <4>5. CASE queue'[msg[w]] > 0
        BY <3>2, <4>5 DEF OnItsWay
      <4> QED
        BY <3>2, <4>1, <4>2, <4>3, <4>4, <4>5, Departs
    <3> QED
      BY <1>3, <2>3, <3>1, <3>2 DEF StepsCarried, InHand
  <2>4. ASSUME steps["first"] = "completed"
        PROVE  InHand("first", {"dispatch", "sendSteps", "check"})'
    <3>1. PICK w \in Workers : msg[w] = "first" /\ pc[w] \in {"dispatch", "sendSteps", "check"}
      BY <1>3, <2>4 DEF StepsCarried, InHand
    <3>2. ~Crash(w)
      <4>1. Crash(w) => lost' = (lost \/ pc[w] \in {"enqueue", "markFailed", "dispatch",
                                                  "sendSteps", "sendStage", "check"})
        BY DEF Crash
      <4> QED
        BY <3>1, <4>1
    <3>3. ~CheckSteps(w)
      <4>1. StepsOver /\ StepSucceeded
        BY <1>0, <1>3, <2>4 DEF StepsOver, StepSucceeded, Over
      <4> QED
        BY <1>3, <4>1 DEF CheckSteps, InStatus
    <3>4. CASE Dispatch(w) \/ \E m \in Messages : Send(w, m)
      <4>1. \A l : GoOn(w, l) /\ l = "sendSteps" => msg' = msg /\ pc'[w] = "check"
        BY <1>0, <3>1 DEF GoOn, Goto, TypeOK
      <4>2. \A ms : CommitThenSend(w, ms, "sendSteps") => msg' = msg /\ pc'[w] = "sendSteps"
        BY <1>0 DEF CommitThenSend, Goto, TypeOK
      <4>3. CASE Dispatch(w)
        BY <3>1, <4>1, <4>2, <4>3 DEF Dispatch, InHand
      <4>4. ASSUME NEW m \in Messages, Send(w, m)
            PROVE  msg' = msg /\ pc'[w] \in {"sendSteps", "check"}
        <5>1. pc[w] = "sendSteps"
          BY <3>1, <4>4 DEF Send
        <5> QED
          BY <4>1, <4>4, <5>1 DEF Send
      <4> QED
        BY <3>1, <3>4, <4>3, <4>4 DEF InHand
    <3>5. CASE pc'[w] = pc[w] /\ msg'[w] = msg[w]
      BY <3>1, <3>5 DEF InHand
    <3>6. CASE Work(w)
      BY <3>1, <3>3, <3>6 DEF Work, Receive, PlanTask, PlanTooLate, StepStarts, StepEnds,
         StepRaises, Draft, CommitDraft, QueueValidation, Review, ReviewPasses, ReviewRepairs,
         ReviewFails, DeliverStarts, ConvertRaises, LockDelivery, DeliverSucceeds, DeliverFails,
         Starts
    <3>7. ~SendRaises(w) /\ ~JobRaises(w) /\ ~DeliveryRaises(w)
      BY <3>1 DEF SendRaises, JobRaises, DeliveryRaises, Starts
    <3> QED
      BY <3>2, <3>4, <3>5, <3>6, <3>7, OneMoves DEF SendAll
  <2> QED
    BY <1>3, <2>1, <2>2, <2>3, <2>4
\* What else happens to the steps of a running task.
<1>4. ASSUME NEW p \in Procs, Dispatch(p), steps'["first"] # steps["first"]
      PROVE  steps'["first"] = "running" /\ OnItsWay("first")'
  <2>1. PICK ready \in SUBSET Plans :
           /\ steps' = [k \in Plans |-> IF k \in ready THEN "running" ELSE steps[k]]
           /\ IF ready = {} THEN GoOn(p, "sendSteps") ELSE CommitThenSend(p, ready, "sendSteps")
    BY <1>4 DEF Dispatch
  <2>2. "first" \in ready /\ steps'["first"] = "running"
    BY <1>0, <1>4, <2>1
  <2>3. "first" \in out'[p]
    BY <1>0, <2>1, <2>2 DEF CommitThenSend, TypeOK
  <2> QED
    BY <2>2, <2>3 DEF OnItsWay
<1>5. ASSUME NEW w \in Workers, StepEnds(w)
      PROVE  \/ steps'["first"] \in {"failed", "stuck"}
             \/ steps'["first"] = "completed"
                /\ InHand("first", {"dispatch", "sendSteps", "check"})'
  <2>1. msg[w] = "first"
    BY <1>5 DEF StepEnds, RepairWaits
  <2>2. steps'["first"] \in {"completed", "failed", "stuck"}
    BY <1>0, <1>5, <2>1 DEF StepEnds, TypeOK
  <2>3. pc'[w] = "dispatch" /\ msg' = msg
    BY <1>0, <1>5 DEF StepEnds, Goto, jobVars, TypeOK
  <2> QED
    BY <2>1, <2>2, <2>3 DEF InHand
<1>6. (\A w \in Workers : ~StepRaises(w)) /\ (\A p \in Procs : ~SendRaises(p))
  BY DEF StepRaises, SendRaises
<1>7. \A w \in Workers : ~ReviewRepairs(w) \/ UNCHANGED <<task, steps>>
  BY <1>0 DEF ReviewRepairs, TypeOK
<1>8. /\ ~Reject
      /\ \A c \in Callbacks : SubmitMarksFailed(c) \/ SubmitCreates(c) => UNCHANGED <<task, steps>>
  BY DEF Reject, SubmitMarksFailed, SubmitCreates
<1>9. \/ \E w \in Workers : PlanTask(w)
      \/ Approve
      \/ UNCHANGED <<task, steps>>
      \/ \E p \in Procs : Dispatch(p)
      \/ \E w \in Workers : StepEnds(w)
  <2>1. ASSUME NEW w \in Workers,
               CheckSteps(w) \/ QueueValidation(w) \/ ReviewPasses(w) \/ ReviewFails(w)
        PROVE  UNCHANGED <<task, steps>>
    BY <2>1 DEF CheckSteps, QueueValidation, ReviewPasses, ReviewFails
  <2> QED
    BY <1>6, <1>7, <1>8, <2>1, TaskWriters
<1>10. CASE UNCHANGED <<task, steps>>
  BY <1>3, <1>10
<1>11. ASSUME NEW p \in Procs, Dispatch(p)
       PROVE  task = "running" /\ steps["repair"] = "none"
  BY <1>0, <1>11 DEF Dispatch, RepairWaits
<1>12. CASE \E p \in Procs : Dispatch(p)
  BY <1>3, <1>4, <1>11, <1>12
<1>13. CASE \E w \in Workers : StepEnds(w)
  BY <1>5, <1>13
<1> QED
  BY <1>1, <1>2, <1>9, <1>10, <1>12, <1>13, <1>0

LEMMA NextOwned ==
  ASSUME TypeOK, TypeOK', Phases, Untouched, RepairWaits, Owned, [Next]_vars
  PROVE  Owned'
<1>1. lost => lost'
  BY OneMoves
<1>2. Decided'
  BY NextDecided DEF Owned
<1>3. CASE lost'
  BY <1>2, <1>3 DEF Owned
<1>4. CASE ~lost'
  <2>1. PlanAwaited /\ StepsCarried /\ DraftCarried /\ ReviewCarried /\ Decided
    BY <1>1, <1>4 DEF Owned
  <2> QED
    BY <1>2, <1>4, <2>1, NextPlanAwaited, NextStepsCarried, NextDraftCarried, NextReviewCarried
       DEF Owned
<1> QED
  BY <1>3, <1>4

\* Whoever carries a status owns the task, unless the task is stalled.
LEMMA OwnedHasOwner ==
  ASSUME TypeOK, Phases, RepairWaits, Owned
  PROVE  AlwaysOwned
<1> SUFFICES ASSUME ~lost, ~Stalled PROVE HasOwner
  BY DEF AlwaysOwned
<1>1. Decided /\ PlanAwaited /\ StepsCarried /\ DraftCarried /\ ReviewCarried
  BY DEF Owned
<1>2. CASE task = "running"
  <2>1. "first" \in Plans /\ \A k \in Plans : k \in {"first", "repair"}
    BY DEF Plans
  <2>2. steps["repair"] = "none"
    BY <1>2 DEF RepairWaits, Stalled
  <2>3. steps["first"] \in {"ready", "running", "stuck", "completed", "failed", "cancelled"}
    BY <1>1, <1>2, <2>1, <2>2 DEF StepsCarried, TypeOK, Over
  <2>4. steps["first"] \notin {"failed", "cancelled", "stuck"}
    BY <1>2, <2>1, <2>2 DEF Stalled, StepsOver, StepSucceeded, Over
  <2>5. \/ steps["first"] = "running" /\ OnItsWay("first")
        \/ steps["first"] = "running" /\ InHand("first", {"start"})
        \/ InHand("first", {"tool", "dispatch", "sendSteps", "check"})
        \/ (\E p \in Procs : pc[p] = "dispatch") /\ steps["first"] = "ready"
    BY <1>1, <1>2, <2>2, <2>3, <2>4 DEF StepsCarried, InHand
  <2> QED
    BY <1>2, <2>1, <2>5 DEF HasOwner
<1>3. CASE task = "submitted"
  BY <1>1, <1>3 DEF HasOwner, PlanAwaited
<1>4. CASE task = "awaiting_approval"
  BY <1>1, <1>4 DEF HasOwner, Decided
<1>5. CASE task = "synthesizing"
  <2>1. \A w \in Workers : pc[w] = "draft" /\ seen[w].versions = Len(reports) =>
           msg[w] = "synthesize"
    BY DEF Phases
  <2> QED
    BY <1>1, <1>5, <2>1 DEF HasOwner, DraftCarried, InHand
<1>6. CASE task = "validating"
  BY <1>1, <1>6 DEF HasOwner, ReviewCarried
<1>7. CASE task \in {"none"} \cup Over
  BY <1>7 DEF HasOwner, Over
<1> QED
  BY <1>2, <1>3, <1>4, <1>5, <1>6, <1>7 DEF TypeOK, TaskStatuses, Over

----------------------------------------------------------------------------
(***************************************************************************)
(* The inductive invariant, and what follows from it.                      *)
(***************************************************************************)
IInv == TypeOK /\ Phases /\ Untouched /\ RepairWaits /\ Tickets /\ Honest /\ Owned

LEMMA InitIInv == Init => IInv
<1> SUFFICES ASSUME Init PROVE IInv
  OBVIOUS
<1>1. TypeOK
  BY InitTypeOK
<1>2. "first" \in Plans /\ "repair" \in Plans /\ Approver \in Procs
  BY DEF Plans, Procs, Deciders
<1>3. /\ \A p \in Procs : pc[p] = "idle" /\ out[p] = {}
      /\ \A w \in Workers : w \in Procs /\ msg[w] = None
      /\ \A m \in Messages : queue[m] = 0
      /\ \A m \in Stages : sends[m] = 0
      /\ \A k \in Plans : steps[k] = "none"
  BY DEF Init, Procs
<1>4. Phases
  BY <1>3 DEF Phases
<1>5. Untouched
  <2>1. \A m \in Messages : Absent(m)
    BY <1>3, PipelineAssumption DEF Absent
  <2> QED
    BY <1>2, <1>3, <2>1 DEF Init, Untouched, Undecided, Nothing
<1>6. RepairWaits
  BY <1>2, <1>3 DEF RepairWaits, Init
<1>7. Tickets
  BY <1>3 DEF Tickets, OneTicket, NoTicket, Init
<1>8. Honest
  BY <1>3 DEF Honest, DeliveryHonest, Init
<1>9. Owned
  BY <1>3 DEF Owned, Decided, PlanAwaited, StepsCarried, DraftCarried, ReviewCarried, Init
<1> QED
  BY <1>1, <1>4, <1>5, <1>6, <1>7, <1>8, <1>9 DEF IInv

LEMMA NextIInv == IInv /\ [Next]_vars => IInv'
<1> SUFFICES ASSUME IInv, [Next]_vars PROVE IInv'
  OBVIOUS
<1>1. TypeOK /\ Phases /\ Untouched /\ RepairWaits /\ Tickets /\ Honest /\ Owned
  BY DEF IInv
<1>2. TypeOK'
  BY <1>1, NextTypeOK
<1>3. Phases' /\ Untouched' /\ RepairWaits' /\ Tickets' /\ Honest'
  BY <1>1, <1>2, NextPhases, NextUntouched, NextRepairWaits, NextTickets, NextHonest
<1>4. Owned'
  BY <1>1, <1>2, NextOwned
<1> QED
  BY <1>2, <1>3, <1>4 DEF IInv

LEMMA Invariance == Spec => []IInv
  BY InitIInv, NextIInv, PTL DEF Spec

\* A set without two members has at most one.
LEMMA AtMostOne ==
  ASSUME NEW S, \A x, y \in S : x = y
  PROVE  /\ S = {} => Cardinality(S) = 0
         /\ S # {} => Cardinality(S) = 1
<1>1. CASE S = {}
  BY <1>1, FS_EmptySet
<1>2. CASE S # {}
  <2>1. PICK x \in S : TRUE
    BY <1>2
  <2>2. S = {x}
    BY <2>1
  <2> QED
    BY <1>2, <2>2, FS_Singleton
<1> QED
  BY <1>1, <1>2

\* While a member has not decided on the plan, no step is claimable, dispatched or run and
\* nothing is written: request_approval leaves the root steps PENDING, and only approve
\* makes them READY.
THEOREM ApprovalFirst == Spec => []NothingBeforeApproval
<1>1. IInv => NothingBeforeApproval
  <2> SUFFICES ASSUME IInv, approval = "pending"
               PROVE  /\ \A k \in Plans : steps[k] \in {"none", "pending"} /\ ~OnItsWay(k)
                      /\ reports = <<>>
    BY DEF NothingBeforeApproval
  <2>1. Nothing /\ steps["first"] = "pending"
    BY DEF IInv, Untouched, Undecided
  <2>2. \A k \in Plans : k \in {"first", "repair"} /\ k \in Messages \ {"plan"}
    BY DEF Plans, Messages
  <2>3. \A k \in Plans : steps[k] \in {"none", "pending"}
    BY <2>1, <2>2 DEF Nothing
  <2>4. ASSUME NEW k \in Plans PROVE ~OnItsWay(k)
    <3>1. Absent(k)
      BY <2>1, <2>2 DEF Nothing
    <3> QED
      BY <3>1 DEF Absent, OnItsWay
  <2> QED
    BY <2>1, <2>3, <2>4 DEF Nothing
<1> QED
  BY <1>1, Invariance, PTL

\* However often a job is delivered and whoever runs it, queue_synthesis_if_complete,
\* complete_and_queue_delivery and the transition to validation each let one of them send
\* the message of the next stage.
THEOREM StagesSentOnce == Spec => []StageSentOnce
<1>1. IInv => StageSentOnce
  <2> SUFFICES ASSUME IInv, NEW m \in Stages
               PROVE  sends[m] + Cardinality({p \in Procs : m \in out[p]}) <= 1 + round
    BY DEF StageSentOnce
  <2> DEFINE Senders == {p \in Procs : m \in out[p]}
  <2>1. round \in Nat /\ sends[m] \in Nat
    BY PipelineAssumption DEF IInv, TypeOK
  <2>2. OneTicket(m)
    BY DEF IInv, Tickets
  <2>3. \A p, q \in Senders : p = q
    BY <2>2 DEF OneTicket
  <2>4. /\ Senders = {} => Cardinality(Senders) = 0
        /\ Senders # {} => Cardinality(Senders) = 1
    BY <2>3, AtMostOne
  <2>5. sends[m] = 1 => Senders = {}
    BY <2>2 DEF OneTicket
  <2>6. sends[m] <= 1
    BY <2>2 DEF OneTicket
  <2> HIDE DEF Senders
  <2>7. sends[m] + Cardinality(Senders) <= 1 + round
    BY <2>1, <2>4, <2>5, <2>6
  <2> QED
    BY <2>7 DEF Senders
<1> QED
  BY <1>1, Invariance, PTL

\* deliver never marks a report as delivered that did not reach the user, and sends none
\* that no review validated, also when attempts fail, the worker dies between the sending
\* and the commit, or two workers deliver at once.
THEOREM DeliveriesHonest == Spec => []DeliveryHonest
<1>1. IInv => DeliveryHonest
  BY DEF IInv, Honest
<1> QED
  BY <1>1, Invariance, PTL

\* A task in an active status has a message, a job or a member to move it on; it is
\* stranded only by a job or a request that ended before it committed or sent what it was
\* for, by a plan none of whose steps succeeded or some of whose steps are stuck (a join
\* whose dependencies completed at the same time, a retry nobody dispatches, an orphaned
\* lease), or by a repair.
THEOREM Ownership == Spec => []AlwaysOwned
<1>1. IInv => AlwaysOwned
  BY OwnedHasOwner DEF IInv
<1> QED
  BY <1>1, Invariance, PTL

----------------------------------------------------------------------------
(***************************************************************************)
(* A task that is over.                                                    *)
(*                                                                         *)
(* approve, reject and mark_failed write the status whatever it is.  These *)
(* are all the ways in which one of them meets a task that is over, as long*)
(* as the stream delivers each message once.                               *)
(***************************************************************************)
NoRepeats == Faults \cap {"crash", "redelivery"} = {}

\* Both members read the approval while it was pending.
Crossed == pc[Approver] # "idle" /\ pc[Rejecter] # "idle"

\* Two decisions crossed; a submission whose send, or whose note of it, raised gives up
\* a task that the planning has taken all the same; or the plan of such a task, which
\* still waits for a decision, gets one.
Reopened ==
    \/ Crossed
    \/ \E c \in Callbacks : pc[c] = "markFailed"
    \/ task = "failed" /\ approval = "pending"

\* A step leaves a task that is over as it is.
StaysOver == (task \in Over /\ task' # task) => Reopened

\* A task that completed, failed or was cancelled keeps its status, but in these ways.
OverIsFinal == [][StaysOver]_vars

Reviewing(w) == msg[w] = "validate" /\ pc[w] \in {"start", "review"}

ReviewDue ==
    \/ queue["validate"] > 0
    \/ \E w \in Workers : Reviewing(w)
    \/ \E p \in Procs : "validate" \in out[p]

\* The message of the review is in one place.
OneReview ==
    /\ queue["validate"] <= sends["validate"]
    /\ \A w \in Workers : Reviewing(w) => queue["validate"] = 0 /\ sends["validate"] = 1
    /\ \A v, w \in Workers : Reviewing(v) /\ Reviewing(w) => v = w

Finality ==
    /\ OneReview
    /\ ~Crossed /\ ReviewDue => task \in {"validating", "failed"}
    /\ approval = "pending" => task \in {"awaiting_approval", "failed"}
    /\ \A d \in Deciders : pc[d] = "decide" => Crossed \/ approval = "pending"

\* Nobody begins a review, and none is asked for.
NoNewReview ==
    /\ \A w \in Workers : Reviewing(w)' => Reviewing(w)
    /\ \A p \in Procs : "validate" \in out'[p] => "validate" \in out[p]

LEMMA ReviewsKept ==
  ASSUME OneReview, NoNewReview, queue'["validate"] = queue["validate"],
         sends'["validate"] = sends["validate"]
  PROVE  OneReview' /\ (ReviewDue' => ReviewDue)
  BY DEF OneReview, NoNewReview, ReviewDue

LEMMA EndReviews ==
  ASSUME TypeOK, NEW p \in Procs, End(p)
  PROVE  NoNewReview
<1>1. \A w \in Workers : w \in Procs
  BY DEF Procs
<1>2. \A q \in Procs : "validate" \in out'[q] => "validate" \in out[q]
  BY EndFacts
<1>3. ASSUME NEW w \in Workers, Reviewing(w)' PROVE Reviewing(w)
  <2>1. w # p
    BY <1>1, <1>3, EndFacts DEF Reviewing
  <2> QED
    BY <1>1, <1>3, <2>1, EndFacts DEF Reviewing
<1> QED
  BY <1>2, <1>3 DEF NoNewReview

LEMMA GotoReviews ==
  ASSUME TypeOK, NEW p \in Procs, NEW l, Goto(p, l), UNCHANGED <<msg, out>>,
         p \in Workers => l \notin {"start", "review"} \/ msg[p] # "validate" \/ pc[p] = "start"
  PROVE  NoNewReview
  BY DEF Goto, NoNewReview, Reviewing, TypeOK, Procs

LEMMA CommitReviews ==
  ASSUME TypeOK, NEW p \in Procs, NEW ms, NEW l \in {"dispatch", "sendSteps", "sendStage"},
         CommitThenSend(p, ms, l), "validate" \notin ms
  PROVE  NoNewReview
  BY DEF CommitThenSend, Goto, NoNewReview, Reviewing, TypeOK, Procs

LEMMA GoOnReviews ==
  ASSUME TypeOK, NEW p \in Procs, NEW l, GoOn(p, l)
  PROVE  NoNewReview
<1>1. CASE End(p)
  BY <1>1, EndReviews
<1>2. CASE ~End(p)
  BY <1>2 DEF GoOn, Goto, NoNewReview, Reviewing, TypeOK, Procs
<1> QED
  BY <1>1, <1>2

LEMMA AttemptReviews ==
  ASSUME TypeOK, NEW w \in Workers, AttemptFails(w), msg[w] = "deliver"
  PROVE  NoNewReview
<1>1. CASE End(w)
  BY <1>1, EndReviews DEF Procs
<1>2. CASE ~End(w)
  <2>1. Goto(w, "start") /\ UNCHANGED <<msg, out>>
    BY <1>2 DEF AttemptFails
  <2> QED
    BY <2>1, GotoReviews DEF Procs
<1> QED
  BY <1>1, <1>2

\* The message of the review stays one, and only QueueValidation asks for a review.
LEMMA NextOneReview ==
  ASSUME NoRepeats, IInv, IInv', OneReview, [Next]_vars
  PROVE  OneReview' /\ (ReviewDue' => ReviewDue \/ task' = "validating")
<1> DEFINE Goal == OneReview' /\ (ReviewDue' => ReviewDue \/ task' = "validating")
           Same == queue'["validate"] = queue["validate"] /\ sends'["validate"] = sends["validate"]
<1> USE DEF vars, taskVars, reportVars, sentVars, jobVars, Deciders
<1>0. /\ TypeOK /\ Phases /\ OneTicket("validate") /\ OneTicket("validate")'
      /\ task = "synthesizing" => NoTicket("validate")
  BY DEF IInv, Tickets, Stages
<1>k. NoNewReview /\ Same => Goal
  BY ReviewsKept
<1>p. /\ \A w \in Workers : w \in Procs /\ w \notin Callbacks \cup Deciders
      /\ Callbacks \cup Deciders \subseteq Procs
  BY PipelineAssumption DEF Procs
<1>m. /\ Messages = {"first", "repair", "synthesize", "validate", "deliver", "plan"}
      /\ Plans = {"first", "repair"} /\ Stages = {"synthesize", "validate", "deliver"}
      /\ None \notin Messages
  BY PipelineAssumption DEF Messages, Plans, Stages
<1>q. /\ queue["validate"] \in Nat /\ sends["validate"] \in Nat
      /\ queue'["validate"] \in Nat /\ sends'["validate"] \in Nat
  BY <1>m DEF IInv, TypeOK
<1> HIDE DEF Goal
<1>1. ASSUME NEW c \in Callbacks, Submit(c) PROVE Goal
  <2>1. Same
    BY <1>1, <1>0, <1>m DEF Submit, SubmitCreates, SubmitEnqueues, SubmitEnqueueRaises,
       SubmitMarkRaises, SubmitMarks, SubmitMarksFailed, Enqueue, TypeOK
  <2>2. c \in Procs /\ c \notin Workers
    BY <1>p
  <2>3. CASE SubmitMarks(c) \/ SubmitMarksFailed(c)
    BY <2>1, <2>2, <2>3, <1>0, <1>k, EndReviews DEF SubmitMarks, SubmitMarksFailed
  <2>4. CASE \/ SubmitCreates(c) \/ SubmitEnqueues(c) \/ SubmitEnqueueRaises(c)
             \/ SubmitMarkRaises(c)
    <3>1. (\E l : Goto(c, l)) /\ UNCHANGED <<msg, out>>
      BY <2>4 DEF SubmitCreates, SubmitEnqueues, SubmitEnqueueRaises, SubmitMarkRaises
    <3> QED
      BY <2>1, <2>2, <3>1, <1>0, <1>k, GotoReviews
  <2> QED
    BY <1>1, <2>3, <2>4 DEF Submit
<1>2. ASSUME NEW d \in Deciders, Decide(d) PROVE Goal
  BY <1>2, <1>0, <1>p, <1>k, GotoReviews DEF Decide
<1>3. ASSUME Approve PROVE Goal
  <2>1. CommitThenSend(Approver, {}, "dispatch") /\ Same /\ Approver \in Procs
    BY <1>3, <1>p DEF Approve
  <2> QED
    BY <2>1, <1>0, <1>k, CommitReviews
<1>4. ASSUME Reject PROVE Goal
  BY <1>4, <1>0, <1>p, <1>k, EndReviews DEF Reject
<1>5. ASSUME NEW w \in Workers, Work(w) PROVE Goal
  <2>0. w \in Procs
    BY <1>p
  <2>1. ASSUME NEW m \in Messages, Receive(w, m) PROVE Goal
    <3>1. /\ msg'[w] = m /\ pc'[w] = "start" /\ out' = out /\ sends' = sends
          /\ \A v \in Workers : v # w => msg'[v] = msg[v] /\ pc'[v] = pc[v]
          /\ queue[m] > 0 /\ queue'[m] = queue[m] - 1
          /\ m # "validate" => queue'["validate"] = queue["validate"]
      BY <2>1, <2>0, <1>0, <1>m DEF Receive, Goto, TypeOK
    <3>r. \A v \in Workers : v # w => (Reviewing(v)' <=> Reviewing(v))
      BY <3>1 DEF Reviewing
    <3>2. CASE m = "validate"
      <4>1. \A v \in Workers : ~Reviewing(v)
        BY <3>1, <3>2 DEF OneReview
      <4>2. queue["validate"] = 1 /\ sends["validate"] = 1
        BY <3>1, <3>2, <1>0, <1>q DEF OneReview, OneTicket
      <4>3. OneReview'
        BY <3>1, <3>r, <3>2, <4>1, <4>2, <1>q DEF OneReview
      <4>4. ReviewDue
        BY <3>1, <3>2 DEF ReviewDue
      <4> QED
        BY <4>3, <4>4 DEF Goal
    <3>3. CASE m # "validate"
      <4>1. NoNewReview
        BY <3>1, <3>r, <3>3 DEF NoNewReview, Reviewing
      <4> QED
        BY <4>1, <3>1, <3>3, <1>k
    <3> QED
      BY <3>2, <3>3
  <2>2. CASE PlanTask(w)
    BY <2>2, <2>0, <1>0, <1>k, CommitReviews DEF PlanTask
  <2>3. CASE PlanTooLate(w) \/ StepRaises(w) \/ ReviewFails(w) \/ DeliverSucceeds(w)
    BY <2>3, <2>0, <1>0, <1>k, EndReviews
       DEF PlanTooLate, StepRaises, ReviewFails, DeliverSucceeds
  <2>4. ASSUME NEW k \in Plans, StepStarts(w, k) PROVE Goal
    <3>1. Same /\ (End(w) \/ (Goto(w, "tool") /\ UNCHANGED <<msg, out>>))
      BY <2>4 DEF StepStarts
    <3> QED
      BY <3>1, <2>0, <1>0, <1>k, EndReviews, GotoReviews
  <2>5. CASE StepEnds(w)
    BY <2>5, <2>0, <1>0, <1>k, GotoReviews DEF StepEnds
  <2>6. CASE CheckSteps(w)
    <3>1. Same /\ (End(w) \/ CommitThenSend(w, {"synthesize"}, "sendStage"))
      BY <2>6 DEF CheckSteps
    <3> QED
      BY <3>1, <2>0, <1>0, <1>k, EndReviews, CommitReviews
  <2>7. CASE Draft(w)
    BY <2>7, <2>0, <1>0, <1>k, GotoReviews DEF Draft
  <2>8. CASE CommitDraft(w)
    <3>1. Same /\ (End(w) \/ (Goto(w, "drafted") /\ UNCHANGED <<msg, out>>))
      BY <2>8 DEF CommitDraft
    <3> QED
      BY <3>1, <2>0, <1>0, <1>k, EndReviews, GotoReviews
  <2>9. CASE QueueValidation(w)
    <3>1. CASE End(w)
      BY <2>9, <3>1, <2>0, <1>0, <1>k, EndReviews DEF QueueValidation
    <3>2. CASE ~End(w)
      <4>1. Same /\ task' = "validating" /\ UNCHANGED msg
            /\ \A v \in Workers : Reviewing(v)' => Reviewing(v)
        BY <2>9, <3>2, <1>0 DEF QueueValidation, CommitThenSend, Goto, Reviewing, TypeOK, Procs
      <4> QED
        BY <4>1 DEF OneReview, Goal
    <3> QED
      BY <3>1, <3>2
  <2>10. CASE Review(w)
    BY <2>10, <2>0, <1>0, <1>k, GotoReviews DEF Review, Starts
  <2>11. CASE ReviewPasses(w)
    <3>1. Same /\ (End(w) \/ CommitThenSend(w, {"deliver"}, "sendStage"))
      BY <2>11 DEF ReviewPasses
    <3> QED
      BY <3>1, <2>0, <1>0, <1>k, EndReviews, CommitReviews
  <2>12. CASE ReviewRepairs(w)
    <3>1. Same /\ (End(w) \/ CommitThenSend(w, {"repair"}, "sendStage"))
      BY <2>12 DEF ReviewRepairs
    <3> QED
      BY <3>1, <2>0, <1>0, <1>k, EndReviews, CommitReviews
  <2>13. CASE DeliverStarts(w) \/ ConvertRaises(w) \/ DeliverFails(w) \/ LockDelivery(w)
    <3>1. Same /\ msg[w] = "deliver"
      BY <2>13, <1>0 DEF DeliverStarts, ConvertRaises, DeliverFails, LockDelivery, Starts, Phases
    <3>2. \/ End(w) \/ AttemptFails(w)
          \/ \E l : Goto(w, l) /\ UNCHANGED <<msg, out>>
      BY <2>13 DEF DeliverStarts, ConvertRaises, DeliverFails, LockDelivery
    <3> QED
      BY <3>1, <3>2, <2>0, <1>0, <1>k, EndReviews, AttemptReviews, GotoReviews
  <2> QED
    BY <1>5, <2>1, <2>2, <2>3, <2>4, <2>5, <2>6, <2>7, <2>8, <2>9, <2>10, <2>11, <2>12, <2>13
       DEF Work
<1>6. ASSUME NEW w \in Workers, Redeliver(w) PROVE FALSE
  BY <1>6 DEF Redeliver, Fault, NoRepeats
<1>7. ASSUME NEW p \in Procs, SendAll(p) PROVE Goal
  <2>1. CASE Dispatch(p)
    <3>1. /\ Same
          /\ GoOn(p, "sendSteps") \/ \E ms \in SUBSET Plans : CommitThenSend(p, ms, "sendSteps")
      BY <2>1 DEF Dispatch
    <3> QED
      BY <3>1, <1>0, <1>m, <1>k, GoOnReviews, CommitReviews
  <2>2. ASSUME NEW m \in Messages, Send(p, m) PROVE Goal
    <3>1. NoNewReview
      <4>1. CASE out[p] = {m}
        BY <2>2, <4>1, <1>0, GoOnReviews DEF Send
      <4>2. CASE out[p] # {m}
        BY <2>2, <4>2, <1>0 DEF Send, NoNewReview, Reviewing, TypeOK
      <4> QED
        BY <4>1, <4>2
    <3>2. CASE m # "validate"
      BY <2>2, <3>1, <3>2, <1>0, <1>m, <1>k DEF Send, Enqueue, TypeOK
    <3>3. CASE m = "validate"
      <4>1. /\ "validate" \in out[p]
            /\ queue'["validate"] = queue["validate"] + 1
            /\ sends'["validate"] = sends["validate"] + 1
        BY <2>2, <3>3, <1>0, <1>m DEF Send, Enqueue, TypeOK
      <4>2. sends["validate"] = 0
        BY <4>1, <1>0, <1>q DEF OneTicket
      <4>3. queue["validate"] = 0 /\ \A w \in Workers : ~Reviewing(w)
        BY <4>2, <1>q DEF OneReview
      <4>4. \A w \in Workers : ~Reviewing(w)'
        BY <3>1, <4>3 DEF NoNewReview
      <4>5. OneReview'
        BY <4>1, <4>2, <4>3, <4>4 DEF OneReview
      <4>6. ReviewDue
        BY <4>1 DEF ReviewDue
      <4> QED
        BY <4>5, <4>6 DEF Goal
    <3> QED
      BY <3>2, <3>3
  <2>3. CASE SendRaises(p)
    BY <2>3, <1>0, <1>k, EndReviews DEF SendRaises
  <2> QED
    BY <1>7, <2>1, <2>2, <2>3 DEF SendAll
<1>8. ASSUME NEW p \in Procs, Crash(p) PROVE FALSE
  BY <1>8 DEF Crash, Fault, NoRepeats
<1>9. ASSUME UNCHANGED vars PROVE Goal
  <2>1. NoNewReview /\ Same
    BY <1>9 DEF NoNewReview, Reviewing
  <2> QED
    BY <2>1, <1>k
<1>10. ASSUME NEW p \in Procs, JobRaises(p) PROVE Goal
  BY <1>10, <1>0, <1>k, EndReviews DEF JobRaises
<1>11. ASSUME NEW w \in Workers, DeliveryRaises(w) PROVE Goal
  <2>1. Same /\ msg[w] = "deliver"
    BY <1>11, <1>0 DEF DeliveryRaises, Starts, Phases
  <2>2. End(w) \/ AttemptFails(w)
    BY <1>11 DEF DeliveryRaises
  <2> QED
    BY <2>1, <2>2, <1>0, <1>p, <1>k, EndReviews, AttemptReviews
<1>12. Goal
  BY <1>1, <1>2, <1>3, <1>4, <1>5, <1>6, <1>7, <1>8, <1>9, <1>10, <1>11 DEF Next, Procs
<1> QED
  BY <1>12 DEF Goal

\* The review that ends was the only one.
LEMMA ReviewConsumed ==
  ASSUME IInv, OneReview, NEW w \in Workers, ReviewPasses(w) \/ ReviewRepairs(w)
  PROVE  ~ReviewDue'
<1>0. TypeOK /\ Phases /\ OneTicket("validate") /\ w \in Procs
  BY DEF IInv, Tickets, Stages, Procs
<1>1. Reviewing(w)
  BY <1>0 DEF ReviewPasses, ReviewRepairs, Reviewing, Phases
<1>2. /\ queue["validate"] = 0 /\ sends["validate"] = 1
      /\ \A v \in Workers : Reviewing(v) => v = w
      /\ \A p \in Procs : "validate" \notin out[p]
  BY <1>0, <1>1 DEF OneReview, OneTicket
<1>3. queue' = queue /\ (End(w) \/ CommitThenSend(w, {"deliver"}, "sendStage")
                               \/ CommitThenSend(w, {"repair"}, "sendStage"))
  BY DEF ReviewPasses, ReviewRepairs, sentVars
<1>4. NoNewReview
  BY <1>0, <1>3, EndReviews, CommitReviews
<1>5. ~Reviewing(w)'
  BY <1>0, <1>3, EndFacts DEF CommitThenSend, Goto, Reviewing, TypeOK
<1> QED
  BY <1>2, <1>3, <1>4, <1>5 DEF NoNewReview, ReviewDue

\* Which steps write the status, and which of them rely on what it was.
LEMMA StatusWrites ==
  ASSUME TypeOK, Phases, [Next]_vars, ~Approve, ~Reject
  PROVE  \/ UNCHANGED <<task, approval>>
         \/ /\ task \in {"none", "submitted"}
            /\ approval' = "pending" => task' = "awaiting_approval" \/ approval = "pending"
         \/ /\ approval' = approval
            /\ \/ task' = "failed" /\ \E c \in Callbacks : pc[c] = "markFailed"
               \/ task' \in {task, "failed"} /\ \E w \in Workers : Reviewing(w)
               \/ task \in {"running", "synthesizing"}
               \/ task = "validating" /\ \E w \in Workers : ReviewPasses(w) \/ ReviewRepairs(w)
<1> USE DEF vars, taskVars
<1>1. ASSUME NEW c \in Callbacks, Submit(c)
      PROVE  /\ approval' = approval
             /\ \/ task' = task \/ task = "none"
                \/ task' = "failed" /\ pc[c] = "markFailed"
  BY <1>1 DEF Submit, SubmitCreates, SubmitEnqueues, SubmitEnqueueRaises,
     SubmitMarkRaises, SubmitMarks, SubmitMarksFailed
<1>2. ASSUME NEW w \in Workers, PlanTask(w)
      PROVE  task = "submitted" /\ (approval' = "pending" => task' = "awaiting_approval")
  BY <1>2 DEF PlanTask, PlanCommitted
<1>3. ASSUME NEW w \in Workers, ReviewFails(w)
      PROVE  approval' = approval /\ task' \in {task, "failed"} /\ Reviewing(w)
  BY <1>3 DEF ReviewFails, Reviewing, Phases
<1>4. ASSUME NEW w \in Workers,
             CheckSteps(w) \/ QueueValidation(w) \/ ReviewPasses(w) \/ ReviewRepairs(w)
      PROVE  /\ approval' = approval
             /\ \/ task' = task \/ task \in {"running", "synthesizing"}
                \/ task = "validating" /\ (ReviewPasses(w) \/ ReviewRepairs(w))
  BY <1>4 DEF CheckSteps, QueueValidation, ReviewPasses, ReviewRepairs, InStatus
<1>5. ASSUME NEW w \in Workers, Work(w)
      PROVE  \/ UNCHANGED <<task, approval>>
             \/ PlanTask(w) \/ ReviewFails(w)
             \/ CheckSteps(w) \/ QueueValidation(w) \/ ReviewPasses(w) \/ ReviewRepairs(w)
  BY <1>5 DEF Work, Receive, PlanTooLate, StepStarts, StepEnds, StepRaises, Draft,
     CommitDraft, Review, DeliverStarts, ConvertRaises, LockDelivery, DeliverSucceeds, DeliverFails
<1>6. ASSUME NEW p \in Procs, SendAll(p) \/ JobRaises(p) \/ Crash(p)
      PROVE  UNCHANGED <<task, approval>>
  BY <1>6 DEF SendAll, Dispatch, Send, SendRaises, JobRaises, Crash
<1>7. \/ \E d \in Deciders : Decide(d)
      \/ \E w \in Workers : Redeliver(w) \/ DeliveryRaises(w)
      \/ UNCHANGED vars
      => UNCHANGED <<task, approval>>
  BY DEF Decide, Redeliver, DeliveryRaises
<1> QED
  BY <1>1, <1>2, <1>3, <1>4, <1>5, <1>6, <1>7 DEF Next, Procs

\* A member decides once.
LEMMA DeciderSteps ==
  ASSUME TypeOK, [Next]_vars, NEW d \in Deciders
  PROVE  /\ pc[d] # "idle" => pc'[d] # "idle"
         /\ pc'[d] = "decide" => \/ pc[d] = "decide"
                                \/ (approval = "pending" /\ approval' = approval)
<1> USE DEF vars, taskVars, jobVars
<1>0. /\ d \in Procs /\ d \notin Workers \cup Callbacks /\ Approver # Rejecter
      /\ d = Approver \/ d = Rejecter
  BY PipelineAssumption DEF Procs, Deciders
<1>e. ASSUME NEW p \in Procs, End(p)
      PROVE  (pc[d] # "idle" => pc'[d] # "idle") /\ (pc'[d] = "decide" => pc[d] = "decide")
  BY <1>e, <1>0, EndFacts
<1>g. ASSUME NEW p \in Procs, NEW l, Goto(p, l), p # d \/ l \notin {"idle", "decide"}
      PROVE  (pc[d] # "idle" => pc'[d] # "idle") /\ (pc'[d] = "decide" => pc[d] = "decide")
  BY <1>g, <1>0 DEF Goto, TypeOK
<1>1. ASSUME NEW c \in Callbacks, Submit(c)
      PROVE  (pc[d] # "idle" => pc'[d] # "idle") /\ (pc'[d] = "decide" => pc[d] = "decide")
  <2>1. c \in Procs /\ c # d
    BY <1>0 DEF Procs
  <2>2. End(c) \/ \E l : Goto(c, l)
    BY <1>1 DEF Submit, SubmitCreates, SubmitEnqueues, SubmitEnqueueRaises,
       SubmitMarkRaises, SubmitMarks, SubmitMarksFailed
  <2> QED
    BY <2>1, <2>2, <1>e, <1>g
<1>2. ASSUME NEW w \in Workers, Work(w) \/ DeliveryRaises(w)
      PROVE  (pc[d] # "idle" => pc'[d] # "idle") /\ (pc'[d] = "decide" => pc[d] = "decide")
  <2>1. w \in Procs /\ w # d
    BY <1>0 DEF Procs
  <2>2. End(w) \/ (\E l : Goto(w, l)) \/ pc' = pc
    BY <1>2 DEF DeliveryRaises, Work, Receive, PlanTask, PlanTooLate, StepStarts, StepEnds, StepRaises,
       CheckSteps, Draft, CommitDraft, QueueValidation, Review, ReviewPasses, ReviewRepairs,
       ReviewFails, DeliverStarts, ConvertRaises, LockDelivery, DeliverSucceeds, DeliverFails,
       CommitThenSend, AttemptFails
  <2> QED
    BY <2>1, <2>2, <1>e, <1>g
<1>3. ASSUME NEW p \in Procs, SendAll(p) \/ JobRaises(p) \/ Crash(p)
      PROVE  (pc[d] # "idle" => pc'[d] # "idle") /\ (pc'[d] = "decide" => pc[d] = "decide")
  <2>1. \/ End(p) \/ pc' = pc
        \/ \E l \in {"check", "sendSteps"} : Goto(p, l)
    BY <1>3 DEF SendAll, Dispatch, Send, SendRaises, JobRaises, Crash, GoOn, CommitThenSend
  <2> QED
    BY <2>1, <1>e, <1>g
<1>4. ASSUME NEW b \in Deciders, Decide(b)
      PROVE  /\ pc[d] # "idle" => pc'[d] # "idle"
             /\ pc'[d] = "decide" => approval = "pending" /\ approval' = approval
  BY <1>4, <1>0 DEF Decide, Goto, TypeOK
<1>5. ASSUME Approve
      PROVE  (pc[d] # "idle" => pc'[d] # "idle") /\ (pc'[d] = "decide" => pc[d] = "decide")
  <2>1. Approver \in Procs /\ Goto(Approver, "dispatch")
    BY <1>5 DEF Approve, CommitThenSend, Procs, Deciders
  <2> QED
    BY <2>1, <1>g
<1>6. ASSUME Reject
      PROVE  (pc[d] # "idle" => pc'[d] # "idle") /\ (pc'[d] = "decide" => pc[d] = "decide")
  <2>1. Rejecter \in Procs /\ End(Rejecter)
    BY <1>6 DEF Reject, Procs, Deciders
  <2> QED
    BY <2>1, <1>e
<1>7. CASE pc' = pc
  BY <1>7
<1>8. (\E w \in Workers : Redeliver(w)) \/ UNCHANGED vars => pc' = pc
  BY DEF Redeliver
<1> QED
  BY <1>1, <1>2, <1>3, <1>4, <1>5, <1>6, <1>7, <1>8 DEF Next, Procs

LEMMA NextFinality ==
  ASSUME NoRepeats, IInv, IInv', Finality, [Next]_vars
  PROVE  Finality' /\ StaysOver
<1>0. /\ TypeOK /\ Phases
      /\ Approver \in Deciders /\ Rejecter \in Deciders
      /\ \A d \in Deciders : d = Approver \/ d = Rejecter
  BY DEF IInv, Deciders
<1>1. OneReview' /\ (ReviewDue' => ReviewDue \/ task' = "validating")
  BY NextOneReview DEF Finality
<1>2. Undecided => ~ReviewDue
  <2>1. ASSUME Undecided PROVE Absent("validate")
    <3>1. Nothing
      BY <2>1 DEF IInv, Untouched
    <3>2. "validate" \in Messages \ {"plan"}
      BY DEF Messages, Stages
    <3> QED
      BY <3>1, <3>2 DEF Nothing
  <2> QED
    BY <2>1 DEF Absent, ReviewDue, Reviewing
<1>3. Crossed => Crossed'
  BY <1>0, DeciderSteps DEF Crossed
<1>4. \A d \in Deciders : pc[d] = "decide" => Crossed \/ approval = "pending"
  BY DEF Finality
<1>5. ASSUME NEW w \in Workers, Reviewing(w), ~Crossed PROVE task \in {"validating", "failed"}
  BY <1>5 DEF Finality, ReviewDue
\* The decisions.
<1>6. ASSUME Approve \/ Reject PROVE Finality' /\ StaysOver
  <2>1. PICK d \in Deciders : pc[d] = "decide"
    BY <1>6, <1>0 DEF Approve, Reject
  <2>2. approval' # "pending"
    BY <1>6 DEF Approve, Reject
  <2>3. Crossed \/ (task \in {"awaiting_approval", "failed"} /\ approval = "pending")
    BY <2>1, <1>4 DEF Finality
  <2>4. StaysOver
    BY <2>3 DEF StaysOver, Reopened, Over
  <2>5. ~Crossed /\ ReviewDue' => task' = "validating"
    BY <2>3, <1>1, <1>2 DEF Undecided
  <2>6. task' # "validating"
    BY <1>6 DEF Approve, Reject
  <2>7. ASSUME NEW b \in Deciders, pc'[b] = "decide" PROVE Crossed'
    <3>1. pc[b] = "decide"
      BY <2>2, <2>7, <1>0, DeciderSteps
    <3>2. /\ Approve => b # Approver /\ pc[Approver] = "decide"
          /\ Reject => b # Rejecter /\ pc[Rejecter] = "decide"
      BY <2>7, <1>0, PipelineAssumption DEF Approve, Reject, CommitThenSend, Goto, End, TypeOK, Procs
    <3> QED
      BY <1>6, <3>1, <3>2, <1>0, <1>3 DEF Crossed
  <2> QED
    BY <1>1, <1>3, <2>2, <2>4, <2>5, <2>6, <2>7 DEF Finality
<1>7. ASSUME ~Approve, ~Reject PROVE Finality' /\ StaysOver
  <2>d. ASSUME NEW d \in Deciders, pc'[d] = "decide", ~Crossed'
        PROVE  approval = "pending" /\ (pc[d] = "decide" \/ approval' = approval)
    BY <2>d, <1>0, <1>3, <1>4, DeciderSteps
  <2>a. approval = "pending" => task \in {"awaiting_approval", "failed"}
    BY DEF Finality
  <2>r. ~Crossed /\ ReviewDue => task \in {"validating", "failed"}
    BY DEF Finality
  <2>1. CASE UNCHANGED <<task, approval>>
    BY <2>1, <2>d, <2>a, <2>r, <1>1, <1>3 DEF Finality, StaysOver
  <2>2. CASE /\ task \in {"none", "submitted"}
             /\ approval' = "pending" => task' = "awaiting_approval" \/ approval = "pending"
    <3>1. ~ReviewDue /\ approval # "pending"
      BY <2>2, <2>a, <1>2 DEF Undecided
    <3> QED
      BY <2>2, <3>1, <2>d, <1>1 DEF Finality, StaysOver, Over
  <2>3. CASE /\ approval' = approval /\ task' = "failed"
             /\ \E c \in Callbacks : pc[c] = "markFailed"
    BY <2>3, <2>d, <1>1 DEF Finality, StaysOver, Reopened
  <2>4. CASE /\ approval' = approval /\ task' \in {task, "failed"}
             /\ \E w \in Workers : Reviewing(w)
    <3>1. Crossed \/ task \in {"validating", "failed"}
      BY <2>4, <1>5
    <3>2. StaysOver
      BY <2>4, <3>1 DEF StaysOver, Reopened, Over
    <3> QED
      BY <2>4, <3>1, <3>2, <2>d, <2>a, <1>1, <1>3 DEF Finality
  <2>5. CASE approval' = approval /\ task \in {"running", "synthesizing"}
    BY <2>5, <2>d, <2>a, <2>r, <1>1, <1>3 DEF Finality, StaysOver, Over
  <2>6. CASE /\ approval' = approval /\ task = "validating"
             /\ \E w \in Workers : ReviewPasses(w) \/ ReviewRepairs(w)
    <3>1. ~ReviewDue'
      BY <2>6, ReviewConsumed DEF Finality
    <3> QED
      BY <2>6, <3>1, <2>d, <2>a, <1>1 DEF Finality, StaysOver, Over
  <2> QED
    BY <1>0, <1>7, <2>1, <2>2, <2>3, <2>4, <2>5, <2>6, StatusWrites
<1> QED
  BY <1>6, <1>7

\* As long as the stream delivers each message once, a task that completed, failed or was
\* cancelled keeps its status, although approve, reject and mark_failed write it whatever
\* it is: but for two decisions that cross, and for a submission whose send, or whose note
\* of it, raised after the planning had begun.
THEOREM OverIsFinalHolds ==
  ASSUME NoRepeats
  PROVE  Spec => OverIsFinal
<1>1. Init => Finality
  BY DEF Init, Finality, OneReview, Reviewing, ReviewDue, Messages, Stages, Procs, Deciders, Crossed
<1>2. IInv /\ IInv' /\ Finality /\ [Next]_vars => Finality' /\ StaysOver
  BY NextFinality
<1> QED
  BY <1>1, <1>2, Invariance, PTL DEF Spec, OverIsFinal
=============================================================================
