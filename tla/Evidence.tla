------------------------------ MODULE Evidence ------------------------------
(***************************************************************************)
(* From the answer of a research tool to the rows a report may cite.       *)
(*                                                                         *)
(* A run of a step calls its tool, stores the evidence the tool returned   *)
(* one piece after the other, and completes the step, all in one           *)
(* transaction.  A content is stored once per workspace: store() looks for *)
(* its hash and inserts a row if it finds none, and a unique index stands  *)
(* behind it.  Steps of all tasks of a workspace meet at that index: an    *)
(* insert waits while another transaction has inserted the same content,   *)
(* and raises when that transaction commits, or when the two wait for each *)
(* other.  The executor catches the exception and goes on with a session   *)
(* whose transaction is gone.                                              *)
(*                                                                         *)
(* When the steps of a task are over, the synthesis reads the rows of the  *)
(* task, lets the model write a draft, and refuses it if it cites another  *)
(* row.  How steps are claimed, recovered and sent, and what follows the   *)
(* draft, is in ResearchSteps and ResearchPipeline.                        *)
(***************************************************************************)
EXTENDS Naturals, Sequences

CONSTANTS
    Tasks,      \* tasks of one workspace
    Steps,      \* their steps, claimed and running
    TaskOf,     \* TaskOf[s]: the task of step s
    ToolOf,     \* ToolOf[s]: the tool of step s
    Contents,   \* source and excerpt of a piece of evidence: what is hashed
    Internal,   \* those whose source is the knowledge base
    Workers,    \* taskiq workers
    None,       \* no step, task or content
    MaxRuns,    \* bound: runs of all steps, with those that overlap another
    MaxDrafts   \* bound: reports of one task

Tools == {"knowledge.search", "web.search", "web.fetch"}

ASSUME EvidenceAssumption ==
    /\ TaskOf \in [Steps -> Tasks]
    /\ ToolOf \in [Steps -> Tools]
    /\ Internal \subseteq Contents
    /\ None \notin Tasks \cup Steps \cup Contents
    /\ MaxRuns \in Nat \ {0}
    /\ MaxDrafts \in Nat \ {0}

VARIABLES
    owner,     \* owner[c]: the task_id of the committed row with content c
    status,    \* status[s]: the committed status of the step's row
    ref,       \* ref[s]: the rows its result_ref names
    answer,    \* answer[s]: what the tool returned to the run that completed s
    runs,      \* runs started
    queued,    \* queued[t]: the synthesis of t was sent
    reports,   \* reports[t]: for each version, the rows its claims cite
    pc,        \* pc[w]: what worker w does next
    job,       \* job[w]: the step, or the task, it works on
    found,     \* found[w]: what the tool returned
    todo,      \* todo[w]: what of it is still to be stored
    kept,      \* kept[w]: evidence_ids, the rows stored or reused
    inserted,  \* inserted[w]: rows of w's open transaction
    current,   \* current[w]: the content w is inserting
    basis      \* basis[w]: the rows the synthesis has read

rowVars == <<owner, status, ref, answer>>
runVars == <<job, found, todo, kept, inserted, current>>
vars == <<rowVars, runs, queued, reports, pc, runVars, basis>>

Stored == {c \in Contents : owner[c] # None}
RowsOf(t) == {c \in Contents : owner[c] = t}
StepsOf(t) == {s \in Steps : TaskOf[s] = t}

----------------------------------------------------------------------------
Init ==
    /\ owner = [c \in Contents |-> None]
    /\ status = [s \in Steps |-> "running"]
    /\ ref = [s \in Steps |-> {}]
    /\ answer = [s \in Steps |-> {}]
    /\ runs = 0
    /\ queued = [t \in Tasks |-> FALSE]
    /\ reports = [t \in Tasks |-> <<>>]
    /\ pc = [w \in Workers |-> "idle"]
    /\ job = [w \in Workers |-> None]
    /\ found = [w \in Workers |-> {}]
    /\ todo = [w \in Workers |-> {}]
    /\ kept = [w \in Workers |-> {}]
    /\ inserted = [w \in Workers |-> {}]
    /\ current = [w \in Workers |-> None]
    /\ basis = [w \in Workers |-> {}]

Goto(w, label) == pc' = [pc EXCEPT ![w] = label]

\* The job returns or raises, and its session is closed.
End(w) ==
    /\ Goto(w, "idle")
    /\ job' = [job EXCEPT ![w] = None]
    /\ found' = [found EXCEPT ![w] = {}]
    /\ todo' = [todo EXCEPT ![w] = {}]
    /\ kept' = [kept EXCEPT ![w] = {}]
    /\ inserted' = [inserted EXCEPT ![w] = {}]
    /\ current' = [current EXCEPT ![w] = None]
    /\ basis' = [basis EXCEPT ![w] = {}]

----------------------------------------------------------------------------
(***************************************************************************)
(* The tool of a step: ResearchToolRegistry.execute, as research/tasks.py  *)
(* builds it, without permissions, hooks or a circuit breaker.             *)
(***************************************************************************)

\* A message of the step finds its row RUNNING.  The row may be so because a run
\* is under way: its lease has expired, or the message was sent twice.
Start(w, s) ==
    /\ pc[w] = "idle"
    /\ status[s] = "running" /\ runs < MaxRuns
    /\ job' = [job EXCEPT ![w] = s]
    /\ runs' = runs + 1
    /\ Goto(w, "tool")
    /\ UNCHANGED <<rowVars, queued, reports, found, todo, kept, inserted, current, basis>>

\* Documents of the knowledge base, or none.
KnowledgeFinds(tool, C) == tool = "knowledge.search" /\ C \subseteq Internal

\* Results of a web search, or none.
WebFinds(tool, C) == tool = "web.search" /\ C \subseteq Contents \ Internal

\* The one page that was asked for.
FetchFinds(tool, C) ==
    tool = "web.fetch" /\ \E c \in Contents \ Internal : C = {c}

\* The provider returns a list of evidence, perhaps an empty one.
ToolFinds(w) ==
    /\ pc[w] = "tool"
    /\ \E C \in SUBSET Contents :
          /\ \/ KnowledgeFinds(ToolOf[job[w]], C)
             \/ WebFinds(ToolOf[job[w]], C)
             \/ FetchFinds(ToolOf[job[w]], C)
          /\ found' = [found EXCEPT ![w] = C]
    /\ todo' = [todo EXCEPT ![w] = found'[w]]
    /\ Goto(w, "store")
    /\ UNCHANGED <<rowVars, runs, queued, reports, job, kept, inserted, current, basis>>

Mark(s, st) == status' = [status EXCEPT ![s] = st]

\* No provider, a timeout, a failure the provider reports itself, or an exception that
\* classify_error finds not worth a retry.
ToolFails(w) ==
    /\ pc[w] = "tool"
    /\ Mark(job[w], "failed")
    /\ End(w)
    /\ UNCHANGED <<owner, ref, answer, runs, queued, reports>>

\* An exception that classify_error calls transient.  The step waits and, since that
\* wait ends with another claim, is RUNNING again, whatever it was.
ToolFailsRetryably(w) ==
    /\ pc[w] = "tool"
    /\ Mark(job[w], "running")
    /\ End(w)
    /\ UNCHANGED <<owner, ref, answer, runs, queued, reports>>

----------------------------------------------------------------------------
(***************************************************************************)
(* ResearchEvidenceService.store, for each piece, and complete_step.       *)
(***************************************************************************)

\* The SELECT by workspace and hash sees committed rows and the transaction's own.
Sees(w, c) == c \in Stored \/ c \in inserted[w]

Look(w) ==
    /\ pc[w] = "store"
    /\ \E c \in todo[w] :
          /\ todo' = [todo EXCEPT ![w] = @ \ {c}]
          /\ IF Sees(w, c)
             THEN /\ kept' = [kept EXCEPT ![w] = @ \cup {c}]
                  /\ UNCHANGED <<pc, current>>
             ELSE /\ current' = [current EXCEPT ![w] = c]
                  /\ Goto(w, "insert")
                  /\ UNCHANGED kept
    /\ UNCHANGED <<rowVars, runs, queued, reports, job, found, inserted, basis>>

\* The insert of w waits for the transaction of v, which inserted the same content.
WaitsFor(w, v) == v # w /\ pc[w] = "insert" /\ current[w] \in inserted[v]

Insert(w) ==
    /\ pc[w] = "insert"
    /\ \A v \in Workers : ~WaitsFor(w, v)
    /\ current[w] \notin Stored
    /\ inserted' = [inserted EXCEPT ![w] = @ \cup {current[w]}]
    /\ kept' = [kept EXCEPT ![w] = @ \cup {current[w]}]
    /\ current' = [current EXCEPT ![w] = None]
    /\ Goto(w, "store")
    /\ UNCHANGED <<rowVars, runs, queued, reports, job, found, todo, basis>>

\* w is one of several transactions that wait for each other in a circle.
Deadlocked(w) ==
    \E circle \in SUBSET Workers :
       /\ w \in circle
       /\ \A v \in circle : /\ \E u \in circle : WaitsFor(v, u)
                            /\ \E u \in circle : WaitsFor(u, v)

\* Variant: the loop goes on in a new transaction.
GoesOn(w) ==
    /\ Goto(w, "store")
    /\ inserted' = [inserted EXCEPT ![w] = {}]
    /\ current' = [current EXCEPT ![w] = None]

\* Variant: the insert is tried again until it succeeds.
TriesAgain(w) ==
    /\ inserted' = [inserted EXCEPT ![w] = {}]
    /\ UNCHANGED <<pc, current>>

\* The flush that raised has rolled the transaction back.  The executor logs the
\* exception, but every later use of the session raises too, complete_step's last.
Aborts(w) ==
    /\ Goto(w, "aborted")
    /\ inserted' = [inserted EXCEPT ![w] = {}]
    /\ current' = [current EXCEPT ![w] = None]

\* The content was committed by another run meanwhile, or this one is chosen to end
\* a deadlock.
InsertRaises(w) ==
    /\ pc[w] = "insert"
    /\ \/ current[w] \in Stored
       \/ Deadlocked(w)
    /\ Aborts(w)
    /\ UNCHANGED <<rowVars, runs, queued, reports, job, found, todo, kept, basis>>

\* The step and its evidence are committed together.
Complete(w) ==
    /\ pc[w] = "store" /\ todo[w] = {}
    /\ owner' = [c \in Contents |-> IF c \in inserted[w] THEN TaskOf[job[w]] ELSE owner[c]]
    /\ Mark(job[w], "completed")
    /\ ref' = [ref EXCEPT ![job[w]] = kept[w]]
    /\ answer' = [answer EXCEPT ![job[w]] = found[w]]
    /\ End(w)
    /\ UNCHANGED <<runs, queued, reports>>

\* The job catches what complete_step raised and fails the step in a new session.
FailStep(w) ==
    /\ pc[w] = "aborted"
    /\ Mark(job[w], "failed")
    /\ End(w)
    /\ UNCHANGED <<owner, ref, answer, runs, queued, reports>>

----------------------------------------------------------------------------
(***************************************************************************)
(* ReportSynthesisService.synthesize.                                      *)
(***************************************************************************)

\* queue_synthesis_if_complete sends the synthesis when every step is over and one
\* of them has succeeded.
QueueSynthesis(t) ==
    /\ ~queued[t]
    /\ \A s \in StepsOf(t) : status[s] # "running"
    /\ \E s \in StepsOf(t) : status[s] = "completed"
    /\ queued' = [queued EXCEPT ![t] = TRUE]
    /\ UNCHANGED <<rowVars, runs, reports, pc, runVars, basis>>

\* The message may be delivered more than once.
ReadEvidence(w, t) ==
    /\ pc[w] = "idle"
    /\ queued[t] /\ Len(reports[t]) < MaxDrafts
    /\ job' = [job EXCEPT ![w] = t]
    /\ basis' = [basis EXCEPT ![w] = RowsOf(t)]
    /\ Goto(w, "draft")
    /\ UNCHANGED <<rowVars, runs, queued, reports, found, todo, kept, inserted, current>>

\* Variant: any row of the workspace.
AllowedInWorkspace(w) == Stored

\* validate_report_draft accepts citations of the rows that were read.
Allowed(w) == basis[w]

\* The model's draft is accepted and stored as the next version; without any row a
\* report is stored that says so, and the model is not asked.
WriteReport(w) ==
    /\ pc[w] = "draft"
    /\ Len(reports[job[w]]) < MaxDrafts
    /\ \E cites \in SUBSET Allowed(w) :
          reports' = [reports EXCEPT ![job[w]] = Append(@, cites)]
    /\ End(w)
    /\ UNCHANGED <<rowVars, runs, queued>>

\* The model fails, cites a row that was not read, or the version exists by now.
DraftRaises(w) ==
    /\ pc[w] = "draft"
    /\ End(w)
    /\ UNCHANGED <<rowVars, runs, queued, reports>>

\* A worker dies.  Its transaction is rolled back.
Crash(w) ==
    /\ pc[w] # "idle"
    /\ End(w)
    /\ UNCHANGED <<rowVars, runs, queued, reports>>

----------------------------------------------------------------------------
Tool(w) == ToolFinds(w) \/ ToolFails(w) \/ ToolFailsRetryably(w)

Store(w) == Look(w) \/ Insert(w) \/ InsertRaises(w) \/ Complete(w) \/ FailStep(w)

Synthesize(w) == WriteReport(w) \/ DraftRaises(w)

Work(w) == Tool(w) \/ Store(w) \/ Synthesize(w)

Next ==
    \/ \E w \in Workers : \/ \E s \in Steps : Start(w, s)
                          \/ \E t \in Tasks : ReadEvidence(w, t)
                          \/ Work(w)
                          \/ Crash(w)
    \/ \E t \in Tasks : QueueSynthesis(t)

Spec == Init /\ [][Next]_vars

\* A job that a worker has begun goes on until it ends: calls have timeouts, and the
\* database lets one of two waiting transactions go on.
Fairness == \A w \in Workers : WF_vars(Work(w))

FairSpec == Spec /\ Fairness

----------------------------------------------------------------------------
PCs == {"idle", "tool", "store", "insert", "aborted", "draft"}

\* The types of all variables.
TypeOK ==
    /\ owner \in [Contents -> Tasks \cup {None}]
    /\ status \in [Steps -> {"running", "completed", "failed"}]
    /\ ref \in [Steps -> SUBSET Contents] /\ answer \in [Steps -> SUBSET Contents]
    /\ runs \in 0..MaxRuns
    /\ queued \in [Tasks -> BOOLEAN]
    /\ reports \in [Tasks -> Seq(SUBSET Contents)]
    /\ pc \in [Workers -> PCs]
    /\ job \in [Workers -> Steps \cup Tasks \cup {None}]
    /\ found \in [Workers -> SUBSET Contents]
    /\ todo \in [Workers -> SUBSET Contents]
    /\ kept \in [Workers -> SUBSET Contents]
    /\ inserted \in [Workers -> SUBSET Contents]
    /\ current \in [Workers -> Contents \cup {None}]
    /\ basis \in [Workers -> SUBSET Contents]

\* A completed step has lost nothing of what its tool returned to the run that
\* completed it: each piece is a committed row, and result_ref names them all -
\* although the executor goes on when storing a piece raises.
EvidenceKept ==
    \A s \in Steps : status[s] = "completed" => ref[s] = answer[s] /\ ref[s] \subseteq Stored

\* The claims of a report cite committed rows of the report's own task, although
\* rows are shared by the whole workspace and steps may still be storing some.
CitesItsTask ==
    \A t \in Tasks : \A v \in DOMAIN reports[t] : reports[t][v] \subseteq RowsOf(t)

\* No run waits for ever, although each may hold what the others wait for.
RunEnds == \A w \in Workers : pc[w] # "idle" ~> pc[w] = "idle"
=============================================================================
