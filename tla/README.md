# A TLA+ model of Personal Butler Agent

Personal Butler Agent is a chat assistant for WeCom (企业微信): a FastAPI process
answers callbacks of the chat platform, keeps reminders, polls, memories and a
knowledge base, and hands long "research" tasks to taskiq workers over a Redis
stream. This directory models the parts of it whose correctness depends on the
order of events, checks the models with TLC, and proves the central safety
properties with TLAPS.

Paths below are relative to the repository (`src/research/steps.py`, ...).

## 1. The system

### 1.1 Components

| component | state it keeps | operations | what makes it correct |
|---|---|---|---|
| step scheduling (`research/steps.py`, `dispatch.py`, `execution.py`, `reliability/watchdog.py`) | rows of `research_steps`: status, owner, lease, attempts; `research_step_dependencies` | claim, release, complete, unblock and cancel dependents, retry, promote, recover leases, dispatch | a step runs after what it depends on, once at a time, and always has somebody to end it |
| pipeline and jobs (`research/tasks.py`, `pipeline.py`, `queue.py`, `broker.py`) | the task's status, the Redis stream | jobs plan, step, synthesize, validate, deliver; a transition then a message | a stage starts once; a task is never left without an owner |
| submission and approval (`research/submission.py`, `approvals.py`, `service.py`) | `research_tasks`, `research_approvals`, `research_deliveries` | submit, approve, reject, mark_failed, transition | a repeated callback makes one task; nothing runs before the approval |
| synthesis, review, repair (`research/synthesis`, `review`, `quality.py`) | `research_reports`, claims, findings, `current_round` | draft, review, repair or complete or fail | one report a round; only reviewed reports are delivered; repairs end |
| delivery (`research/delivery.py`) | delivery row, user bindings | deliver, with three attempts | what the row says is what the user got |
| planning (`research/planning`, `supervisor`) | plans, steps, dependencies | generate, validate, persist | acyclic plans within the budget |
| evidence, budgets, usage, events | `research_evidence`, `research_usage`, `research_events` | store with deduplication, record | a completed step has kept its evidence; a report cites rows of its own task |
| reliability helpers, tool registry | Redis counters of the circuit breaker | record_failure, record_success, allow, execute | failures are retried or fail the step |
| callback inbox and router (`wechat/callback_*.py`, `messaging`) | `inbound_messages` | accept, deduplicate, handle in the background, mark | a message is handled at most once, and not lost |
| token cache (`wechat/app_client.py`) | a Redis key | get, refresh, invalidate | a fresh token is not thrown away |
| reminders (`reminders/service.py`, `agents/reminder`) | `reminders`, `reminder_runs` | create, cancel, scan, finish | every due reminder is pushed once; a cancelled one never |
| scheduler (`scheduler/manager.py`) | jobs in memory, last pushes | schedule, scan, push | a job that is set runs, or the process died |
| polls (`agents/poll`) | `polls`, `poll_votes`, scheduled jobs | create, vote, end, push the result | one result, counting every vote accepted before the end |
| conversation memory (`memory/conversation.py`) | messages, summaries | append, compress, load | a message is in its row until the summary covers it |
| memory agent (`agents/memory`) | memory fragments | extract, merge, supersede, search | a mention counts once; a fact has one profile |
| knowledge base (`knowledge`) | documents and chunks in SQL, vectors in Chroma | ingest, search, delete | a search stays in scope; the two stores agree |
| governance (`governance`) | workspaces, members | resolve a member, run hooks | the right workspace; a critical hook can stop work |
| chat agents (`agents/private_butler`, `group_mention`, `summary`, `webhook_composer`) | none of their own | classify and call a service | |
| weather, search, LLM client, CLI, evaluation, benchmark | none, or one-off | external calls, offline tools | |

### 1.2 How they interact

* The web process and the workers share PostgreSQL (READ COMMITTED) and the
  Redis stream, nothing else. Every job opens its own session, commits, and then
  sends the messages that the commit made necessary. There is no outbox: commit
  and send are two steps.
* The stream keeps a message until its job has returned. A worker that dies
  leaves its message to another one, and a job that outlasts the idle timeout is
  delivered a second time while the first still runs.
* `transition` is the one guarded write of the task's status (`UPDATE ... WHERE
  status IN (...)`); `mark_failed`, `approve` and `reject` write it
  unconditionally.
* A SQLAlchemy session answers reads of rows it already holds from its identity
  map (`expire_on_commit=False`), and its own writes stay visible to it.
* A chat message is handled by a background task of the web process, in one
  transaction which is committed after the reply was sent. Everything an agent
  does for the message - a reminder, a vote, a memory, a document - is written in
  that transaction, and what it does outside of the database (Chroma, the jobs of
  the scheduler, a push) is done before the commit and not undone by a rollback.
* Messages of one user or group are handled at the same time; nothing puts them
  in a row.

### 1.3 What is hard

Steps of two sessions between a read and the commit that relies on it; locks
taken in one statement and missing in the next; crashes between a commit and a
send; a send that raises after the stream took the message; redelivery; leases
recovered from a living worker; decisions of two members at once; partial
deliveries; stores without transactions and timers in memory; unique indexes met
by transactions that overlap. `PROJECT.json` lists each one at its line under
`hazards`, with the properties that would catch it.

## 2. The modules

| module | what it is |
|---|---|
| `ResearchDag` | abstract: a plan as a graph whose steps wait, become active, are done, fail, or are skipped behind a failure |
| `ResearchSteps` | the steps of one task, the workers that run them, the watchdog, the transactions and the messages |
| `MCResearchSteps` | plans and processes for TLC |
| `ResearchSteps_proofs` | type correctness, the safety properties and the refinement of `ResearchDag`, proved |
| `ResearchPipeline` | one task from the callback to the report in the user's chat |
| `MCResearchPipeline` | processes for TLC |
| `ResearchPipeline_proofs` | the inductive invariant of `ResearchPipeline` and its safety theorems, proved |
| `Planning` | from the draft of a language model to the rows of a plan |
| `MCPlanning` | small drafts for TLC |
| `Evidence` | what the tools of steps return, on its way to rows and into reports |
| `MCEvidence` | tasks, steps and tools for TLC |
| `Evidence_proofs` | no completed step has lost evidence, and reports cite their task; of `Planning`: accepted plans can run, and the verdicts on cycles and depth are right; proved |
| `Inbox` | posts of the platform, the inbox, background tasks, and submissions of one member |
| `MCInbox` | messages for TLC |
| `Inbox_proofs` | messages are handled once and kept, and two active tasks raced or were reopened, proved |
| `Reminders` | reminders of a group: tasks that create and cancel, and the scan that pushes |
| `MCReminders` | reminders and tasks for TLC |
| `Reminders_proofs` | the inductive invariant of `Reminders` and its safety theorems, proved |
| `Polls` | polls of a group, the tasks that create them, vote and end them, and the timers |
| `MCPolls` | a group for TLC |
| `Polls_proofs` | a result comes once and complete, and the timer is kept, proved |
| `Conversation` | the messages and the summary of one user, in turns that overlap |
| `MCConversation` | turns for TLC |
| `Conversation_proofs` | nothing is forgotten and the window is kept; of `Memory`: a fact has one profile and mentions are counted once; proved |
| `Memory` | fragments and profiles of one user, the side paths and the tools that change them |
| `MCMemory` | a fact and its opposite for TLC |
| `Knowledge` | documents as rows and as vectors, and the searches over both |
| `MCKnowledge` | users, groups and texts for TLC |
| `Knowledge_proofs` | searches stay in scope and the stores agree, proved |

How they fit together: `ResearchPipeline` composes the stages of a task and takes
the steps of a plan as one unit, `Planning` is how that unit comes to be accepted,
`ResearchSteps` is how it runs (for any plan, an acyclic one or not), and `Evidence` is
what one run of a step does between its tool and its commit, and what the
synthesis reads of it. `Inbox` is the front of all of them: the transaction of a
background task that it follows is the transaction in which the tasks of
`Reminders` and `Polls`, the turns of `Conversation`, the tools of `Memory` and
the adders of `Knowledge` work. Each of these starts such transactions at will and
lets them fail at any point, which is what `Inbox` allows.

### 2.1 ResearchSteps

`status`, `owner`, `attempts` are columns of `research_steps`; only committed
values. `queue` is the stream, per step. A process is a worker or the watchdog,
`pc` says where it is, and the rest of its state is what its Python frame and
session hold: `job` (the message in hand), `outcome` and `touched` (the writes of
its open transaction), `due`, `expired` (rows it has read and not yet written),
`batch` (claims still to send), `sendFailed` (the `first_error` of
`dispatch_ready`). `succeeded` (the steps whose completion was ever committed),
`stranded` (the steps whose lease was left to nobody in one of the ways that
`NoOrphanLease` names) and `faults` are history variables.

| action | code |
|---|---|
| `ReadDue`, `Claim` | the claiming transaction of `dispatch_ready`: `promote_due_retries` reads; its write, `claim_next` and the commit |
| `Send`, `SendFails`, `DispatchEnds` | the loop over `enqueue_step`, with `release_claim`, and the final `raise` |
| `Receive` | entry of `execute_step_job` and its status guard |
| `ToolSucceeds`, `ToolFails`, `ToolFailsRetryably`, `ToolRaises` | `ResearchStepExecutor.execute`: the tool call and everything written up to the commit, including the rows `_unblock_dependents` or `_cancel_dependents` picks |
| `Commit` | the commit; after the exception path the job returns, otherwise it dispatches |
| `CheckComplete`, `Transition`, `SendSynthesis` | `queue_synthesis_if_complete`: the reads, the guarded update and commit, the send |
| `WatchdogReads`, `WatchdogCommits` | `ResearchWatchdog.run_once` |
| `ReceiveRaises`, `JobRaises`, `ReleaseRaises` | the database raises where nothing catches it: `db.get` before the `try`, the session that records a failure, `release_claim` in the send loop, which leaves the rest of the batch unsent |
| `Crash` | death of a process; the transaction is rolled back, the message comes back |

A transaction takes two actions: one in which it reads and writes (its rows are
locked from then on, `LockedFor`) and one in which it commits. A claiming
transaction is the exception: after the unlocked read of `ReadDue` its locked
part is one action, because nobody can see or change the rows it locks and
nothing else it reads matters. `Rows` is computed when the transaction writes,
from what is committed then: this is where the write skew of two completions
comes from. In the same way `touched` may be stale when it is committed, and the
invariant `OpenTransactions` says why it is not wrong.

The lease's expiry time and `available_at` are not clocks: a RUNNING row may be
expired whenever the watchdog looks, and a RETRY_WAIT row is due when the
executor has no policy (it leaves `available_at` in the past), or any time when
it has one. Steps are claimed in any order: the order of the claim query has no
influence on the properties.

### 2.2 ResearchPipeline

The steps of one plan version are one unit with one message; how they run one by
one is `ResearchSteps`. `task`, `approval`, `round`, `reports`, `delivery` are
the rows, `queue` the stream, `seen` what the session of a job loaded and still
relies on, `out` the messages a process committed to send. The decision of the
review is a nondeterministic choice among passing, repairing and failing, which
is every outcome that `_apply_quality_gate` has.

The unit ends completed, failed, or `"stuck"`, at any time and without any fault:
its last job is over and some step is neither over nor about to be worked on. That
is what `ResearchSteps` shows can happen: a join whose two last dependencies
completed at once, a retry that nobody dispatches, an orphaned lease. A later
dispatch or a redelivered message may take a stuck unit up again.

`lost` records that a job or a request ended before it committed, or before it sent,
what it was for: a crash between a commit and its message, a send that raised, or the
database raising in a job that is acknowledged all the same (`JobRaises`, and
`SubmitMarkRaises` for the request that submits). `DeliveryRaises` is the database
raising in an attempt at delivery, perhaps after parts of the report were sent.

`Approver` and `Rejecter` are two requests of the web process that may arrive at
once; each reads the pending approval in `Decide` and writes without a lock.
`Callbacks` are deliveries of the same chat message.

### 2.3 Reminders

`row` is the committed table. An open transaction holds the whole new version of
the rows it wrote (`version` of a task, `marks` of the scan) and locks them; since
the session writes changed columns only, the version is made from the row that
the UPDATE finds, which may no longer be the one that was read.

| action | code |
|---|---|
| `Create` | `create_reminder`, in the task's transaction |
| `FindActive`, `Cancel` | the query and the flush of `cancel_user_reminder` |
| `Reply`, `TaskCommits`, `TaskFails` | the answer, then the commit, of `process_recorded_message`, and its exception path |
| `ScanBegins` | `get_due_reminders`, for a non-empty result |
| `Push`, `PushRefused`, `PushAnswerLost` | one round of the loop: delivered, refused or without target, delivered but timed out |
| `MarkSuccess`, `MarkFailed` | the flushes that record it, which wait for row locks |
| `ScanCommits`, `ScanRaises` | the one commit at the end; an exception, which nothing catches |
| `Tick`, `Crash` | the clock; death and restart of the process with all its transactions |

Instants are numbers below `Horizon`; a cron rule may fire at any later instant,
so that every rule is covered. A confirmed cancellation does not mean silence: a
scan that selected the reminder before still pushes it, and so does one that
begins between the answer to the user and the commit. `CancelHonest` and
`OffStaysOff` say what does hold.

### 2.4 Inbox

`request` is a post that is being answered, `row` the committed status in
`inbound_messages`, `job` the background task of a message, `research` the task
that a submission created. A task that is over may become active again (`Reopens`):
`approve` writes RUNNING whatever it finds, after a reject that crossed it or after
`mark_failed` gave up a task whose planning went on. `reopened` are those that were
then not alone. A background task is one transaction, except that
`submit` commits half-way (`Create`), and with it the inbox row.

| action | code |
|---|---|
| `Post` | `_parse_callback_request`, and the SELECT of `record_inbound_message` |
| `Insert`, `CommitRow`, `Respond` | its INSERT, which waits for another of the same msgid and raises if that one was committed; the commit; the answer, after which the background task starts |
| `RequestFails` | the database raises: the platform gets an error and posts again |
| `Begin` | `mark_processing` and the dispatch of `handle_callback_message` |
| `Reopens` | `approve`, of a task that is over |
| `Check`, `Create`, `Send` | `create_task`, the commit of `submit`, `enqueue_planning` with `mark_failed` |
| `Reply`, `Finish` | `send_reply`; `mark_processed` and the commit |
| `JobFails`, `MarkFailed` | an exception; `mark_failed` in a session of its own |
| `Crash` | death and restart of the web process; nothing takes a row up again |

### 2.5 Polls

`status`, `votes` are committed columns and rows; `timer` the jobs in the
scheduler's memory, `runner` the job of a poll while it runs. A vote is read in
`Answer`, told to the member as recorded, and written at the commit. The
transaction that ends a poll locks its row from its flush (`EndMarks`, `JobMarks`)
to its commit, and pushes the result in between. Three history variables name
what may go wrong: `twice` (two transactions had both read that the poll is open,
or one did so in vain), `strayed` (the timer was not set, or came to nothing),
`closing` (the ballots when the poll was first marked ended). `manager` says whether
the process has a scheduler at all, which depends on a setting: without one no
timer is set and no result pushed. A crash strays the polls whose timer or ending
transaction it takes (`WillEnd`), and no others.

| action | code |
|---|---|
| `Create`, `CreateCommits` | `create_poll_node` with `schedule_poll_end`, which comes before the commit, may raise (logged only), and is left out without a scheduler |
| `Vote`, `Answer`, `VoteCommits`, `VoteClashes` | `_detect_vote_action` of the group policy and `cast_vote_node`; the unique constraint |
| `EndFinds`, `EndMarks`, `EndPushes`, `EndCommits` | `end_poll_node` |
| `Fire`, `JobMarks`, `JobPushes`, `JobCommits`, `JobRaises` | `SchedulerManager._push_poll_result` |
| `Missed`, `Crash`, `TaskFails` | the scheduler's grace time; a restart; a rollback |

### 2.6 Conversation

An exchange is the two messages of a turn. `rows` and `summary` are committed,
`turn` is what a turn has read and flushed, `locker` the one whose uncommitted
write locks the summary's row. `SelectOld`, `SelectSummary` and `Compress` are
three steps because a call of the model lies between the reads and the write;
`crossed` says that a summary was merged from one that was no longer the last.

### 2.7 Memory

`fragments` and `profiles` are committed rows, `txn` what an open transaction has
read (`read`, `target`) and flushed (`frag`, `changes`, `gone`); a flushed row is
locked (`Locked`) and what is written was read before, which is where a count is
lost. The side path is `Extract`, `Find`, `Count` or `Note`, `Doubt` and `Lower`,
`Ripe` and `Promote` (`add_fragment`, `detect_contradiction`,
`aggregate_fragments`); the tools are `AddMemory` with `Upsert`, `ChangeMemory` and
`DeleteMemory`. A commit writes changed columns only (`Applied`). Confidence is
counted in twentieths, so that the code's 0.15, 0.2, 0.3 and 0.6 are numbers.

Texts of one meaning are compared by vectors, and a lookup stays within one type. The
vector is a shorter one when the API fails, vectors of different length have
similarity 0.0 (`knowledge/embedding.py`), and the two paths to a profile choose its
type differently. A lookup may therefore miss what is there: `Look` a profile
(recorded in `missed`), `Find` a fragment, `Doubt` a contradiction.

### 2.8 Knowledge

`stored` are documents whose rows are committed, `vectors` those in Chroma.
`Candidates` is what `_coarse_retrieval` unites: the vectors under Chroma's own
filter (`VectorFilter`), the full text search and the keyword search under the
filter of the rows (`SqlFilter`). Vectors are put into Chroma in the middle of a
transaction (`Index`) that may still fail (`Fails`), and when that raises, the tool
answers that adding failed while its rows are committed with the message
(`Unindexed`). A text without a paragraph (`Blank`) has no chunk: its document is
stored, but neither put into Chroma nor found by any search (`Chunked`).

### 2.9 Evidence

A run of a step is one transaction: the tool (`ToolFinds`, `ToolFails`,
`ToolFailsRetryably`), `store` for each piece (`Look`, `Insert`), `complete_step`
and the commit (`Complete`). `owner` holds the committed rows by content: the
unique index of workspace and hash admits one row for each. An insert of a content
that another open transaction has inserted waits (`WaitsFor`), and raises when that
one commits or when the two wait for each other (`InsertRaises`); from then on the
transaction is gone, although `execute` catches the exception and goes on, and the
job fails the step in a new session (`FailStep`). The registry is the one the
workers build: without circuit breaker, hooks and permissions. The synthesis reads
the rows of its task (`ReadEvidence`) and refuses a draft that cites another one
(`WriteReport`, `DraftRaises`).

### 2.10 Planning

One action for each check of `PlanValidator`, in its order, between
`_normalize_tool_steps` (`Normalize`) and the inserts (`Persist`,
`MarkRootStepsReady`); the topological sort takes one key from its queue at a time
(`Pop`), in any order, because it iterates over sets. `DependencyDepth` begins the search
for the next step of the draft, and `Dfs` is one call of `dfs`: `calls` are the calls
still to come, first those that the current one makes (`Deeper`, in the order in which
the dependencies are listed), then those that wait for its return; `visited` and
`deepest` are the variables of `_dependency_depth`. `ValidateDepth` compares. A refusal records why, so that the properties can ask whether
it is so. The steps are a function from their
places in the answer, so that those which `Normalize` leaves keep theirs. The properties compare this
with reference definitions that use neither algorithm: closed sets of steps, sets of
steps that wait for each other, and chains by their length. What happens to the task
when planning raises, and the approval between `Persist` and `MarkRootStepsReady`,
is in `ResearchPipeline`.

## 3. The runs

| run | instance | what it shows |
|---|---|---|
| `steps_join` | 4 steps (two roots, a join, a chain behind it), 2 workers, up to 2 crashes, database errors and failed sends | dependencies come first; cancellation is exactly the closure of failure; a step has one claim, message or job; a lease is left to nobody only when its dispatcher dies or cannot release it before the send, or the database raises as a job reads the row or records a failure; synthesis only when everything is over; refinement of `ResearchDag`; under fairness, a task whose steps are over reaches synthesis unless something went wrong |
| `steps_faults` | 2 steps in a chain, 2 workers and the watchdog, a retry policy with 2 attempts, up to 2 faults of all six kinds | what survives duplicate execution: one synthesis message, and no claim before the completions it depends on were committed |
| `pipeline_faults` | 2 workers, 2 callbacks, approver and rejecter, one repair round, 2 delivery attempts, up to 2 faults of five kinds | nothing of a plan runs before its approval; stages start once a round; a task without owner was stranded in one of the named ways, the stuck steps among them; the delivery row is honest |
| `pipeline_progress` | 2 workers, 1 callback, 1 fault, fairness | every task is decided, ends, or is known to be stalled or lost; a completed report arrives when nothing goes wrong |
| `reminders` | 2 reminders of either kind, a task, the scan, 1 fault of five kinds, instants 0..2, fairness | columns written by two transactions agree; each due time is pushed once and in order unless a success was lost; a confirmed cancellation holds; what is over stays over; a due reminder is pushed and marked, or cancelled, whatever the fault |
| `polls` | 2 polls, a member, 2 tasks at a time, 5 messages, 1 fault, with a scheduler or without, fairness | a result comes twice only from ends that overlap or are undone; it counts every vote of before the end; a poll with an end time keeps its timer, and ends, unless the timer was not set or came to nothing in a known way |
| `inbox` | 3 messages of one member of which 2 or 3 are submissions, 2 posts at a time, 3 posts in all, 1 fault, fairness | a message is handled at most once, and is recorded before it is acknowledged; two active tasks of a member come only from submissions that raced or from an approval that reopened one; a recorded message is settled unless the process died |
| `evidence` | 2 tasks, 3 steps with a tool of each kind, 2 pages and a document, 2 workers, 4 runs, 1 report each, fairness | a completed step has lost no evidence; a report cites rows of its task; no run waits for ever |
| `knowledge` | 2 users, 2 groups, 2 texts and an empty one, 2 adders, 3 documents, 2 faults, symmetry | searches stay in scope on every path; the stores differ only by what failed; a text is stored twice only by transactions that overlap |
| `conversation` | 8 exchanges in up to 3 turns at a time, 4 kept, 2 in the window and in a batch, 2 faults, symmetry | what compression removes is in the summary unless two compressions crossed, and is older than what the next turn reads |
| `memory` | a fact and its opposite, 4 mentions, 2 tool calls, 2 transactions, 1 fault, symmetry | a mention is counted once, and lost only by side paths that share a row; a fact has one profile unless two transactions looked for it at once or a lookup missed it |
| `planning` | all graphs of 3 steps with up to 2 dependencies, the acyclic ones of 4 steps, pairs of steps of any kind, a draft of 5 steps; at most 4 steps, depth 2 | an accepted plan can run to its last step, and has lost nothing of the draft but steps that share a key with a pipeline step; cycles are found exactly; a plan refused for its depth is too deep, and in an accepted one two steps that a chain over the limit connects are also connected by one within it |

All runs but `planning` set `CHECK_DEADLOCK FALSE`: a task ends, the messages that the bounds
allow are handled, and then nothing is left to do.

### 3.1 Bounds, and why they are enough

* `MaxFaults` (`MaxFailures` in `Memory`) counts crashes, exceptions, failed sends and watchdog runs
  together. Two allow every pair: a crash during the recovery from a failed send,
  two crashed dispatchers, a redelivery of a job whose first run then fails.
* `MaxClaims` cuts the number of times one step is claimed; with 4 in
  `steps_join` (where each fault allows at most one more claim) it never binds.
  In `steps_faults` it is 2: the original and one duplicate execution.
* Two workers make every pair of concurrent transactions. The join with a chain
  behind it has the three shapes the helpers tell apart: a step with two
  dependencies, a dependent of a dependent, and roots.
* `MaxRounds` is 1, the constant of `validate_research_task`. `MaxTries` is 2
  in the exhaustive runs (3 in the code): one failed attempt that is retried and
  one that is not.
* Workers and callbacks are interchangeable; `SYMMETRY` is
  used only in runs without liveness properties.
* In `reminders` one task meets the scan, and one fault covers each kind alone; the
  safety properties of the run are proved for any number of both. With `Horizon = 2` a rule fires at two instants of the model and has a
  third time left; two reminders give the scan a batch whose first member is
  pushed when the second fails.
* `polls`: two polls are what the vote's choice and the ending of the newest one
  tell apart. Votes of different members touch different rows, and none of the
  properties tells letters apart, so that one of each suffices. Five messages
  create both polls, vote and end one of them twice.
* `inbox`: a message and its repetition at the same time, and a third message
  that finds one or two active tasks. `Mixes` leaves out the combinations without
  two submissions, which have less behaviour.
* `evidence`: `MaxRuns` is one more than the steps, so that two runs of one step
  overlap; two pages are the least that lets two runs wait for each other.
* `conversation`: `Keep`, `Window` and `Batch` are a third of the code's 12, 6 and
  6 exchanges, with `Window + Batch <= Keep` as there, on which `WindowKept`
  rests. Eight exchanges compress twice and more, three turns let
  a third one work on what two that crossed have left.
* `memory`: the third occurrence promotes, the fourth finds the profile; the two
  tool calls add and change or delete it.
* `knowledge`: two users and two groups let every filter confuse one with
  another; three documents over two texts give a duplicate and a third, and the
  empty text a document that only the rows know.
* `planning`: three steps have every cycle up to length 3 and lists with repetitions;
  four in a chain, with shortcuts in any order, are more than the limit of 2 and are
  the least that hides a chain of 3 (the code's limits are 12 steps and depth 3).

### 3.2 Disagreements met while modelling

`PROJECT.json` quotes, for each, the line that says otherwise. In the models they
are ordinary behaviour, which the properties take into account by name.

Research:

1. `promote_due_retries` reads without a lock and writes by key, so that two
   dispatchers can claim one step (`steps.py:238`).
2. `_unblock_dependents` suffers write skew under READ COMMITTED: a join can
   stay PENDING for ever (`steps.py:319`).
3. The steps of a repair are enqueued while PENDING, so that the task stays
   RUNNING (`pipeline.py:152`).
4. The re-check of the delivery row under its lock reads the session's old
   instance (`delivery.py:72`).
5. A redelivered synthesis writes a second report, and the delivery of two
   validated versions raises (`tasks.py:422`).
6. Without a retry policy, which is how the workers build the executor,
   retryable failures are repeated without bound or delay (`execution.py:96`).
7. Nothing schedules the watchdog (`watchdog.py:15`).
8. A content is stored with the first task of the workspace that found it; a later
   task that finds it again completes its step with that row, which its own report
   may not cite (`evidence.py:101`).
9. Two runs that store one content at once: the second one's transaction is gone
   and its step fails, although the executor catches the error in order to go on
   (`evidence.py:119`).
10. A tool that times out fails its step for good (`registry.py:161`).
11. No circuit breaker guards the providers: the workers build the registry
    without one (`tasks.py:113`).

12. The depth of a plan is counted with one set of visited steps, so that a shorter
    chain hides a longer one and a plan over the limit is accepted
    (`validator.py:119`).
13. A plan without steps is accepted, and its task stays RUNNING
    (`supervisor/service.py:149`).
14. A step that names a dependency twice passes the validator and violates the
    primary key of the dependencies (`planning/service.py:94`).

Chat:

15. `mark_failed` does not move a reminder's next time, contrary to the service's
    description, so that a failing reminder is pushed again every minute.
16. With two open polls no vote can be recorded (`poll/nodes.py:340`).
17. Two first votes of a member that overlap are both confirmed, and one of them is
    rolled back (`poll/nodes.py:367`).
18. The vector search of a private chat asks for the documents of user "", so that a
    user's own documents are never found by their vectors (`knowledge/service.py:299`).
19. A tool reports that adding a document failed while its rows are committed
    (`private_butler/tools.py:227`).
20. A text that somebody keeps privately is refused as existing in the group's
    knowledge base (`group_mention/tools.py:84`).
21. A summary is written without looking whether it is still the one it was merged
    from (`conversation.py:165`).
22. `list_memories` numbers the profiles by importance, `update_memory` and
    `delete_memory` take the number as a primary key (`private_butler/tools.py:370`).
23. Nothing calls `decay_profiles` (`agents/memory/service.py:487`).

The properties that hold were stated with these in mind: the proofs about steps
exclude retries and lease recovery, `NoOrphanLease` names `stranded`, `AlwaysOwned`
names `Stalled` and `lost`, `OneActiveTask` names `raced` and `reopened`, `TimerKept`
`strayed`, `OneProfile` `twinned` and `missed`, `NothingForgotten` `crossed`, and so
on. An exception names one way in which the code departs from the property, and the
property holds in every other; where the code is changed, the corresponding exception
can go. `hazards` says for each hazard whether a property catches it, or whether it is
what the code does and only excepted.

### 3.3 Fairness

`ResearchSteps!Fairness` is weak fairness of each worker's own loop: a job that
has begun goes on, and an idle worker takes a message if there is one, which is
what the taskiq worker process does. Nothing obliges a tool to fail, a fault to
occur or the watchdog to run (nothing schedules it). `ResearchPipeline!Fairness`
adds that a request of the web process which began goes on, and is strong for the
receipt of each message: the consumers read the stream in its order, so that no
message in it is passed over for ever. Nobody has to ask for a task, no member has to
decide on a plan, so that `Settles` accepts a task that waits for a decision, and the
database never has to raise.

`Reminders!Fairness` is weak fairness of the scan (an interval job that the
scheduler starts again every minute, one instance at a time, and after every
restart) and of each task that began. Time need not pass and nobody has to write
a message. Refused pushes are faults, hence finitely many: a target that refuses
for ever keeps its reminder due for ever.

`Inbox!FairSpec` is weak fairness of each post that is being answered and of each
background task: the event loop goes on with what it began. Nobody has to post.
`Polls!FairSpec` is the same for the tasks of a group, and for the job of a poll:
the time of a timer comes, unless the process dies before (`Crash`) or the
scheduler finds it too late to run (`Missed`), which are faults. `Evidence!Fairness`
is weak fairness of the work of a worker that has begun a job: every call of a
provider and of the model has a timeout, and the database ends one of several
transactions that wait for each other. An idle worker need not start anything.

### 3.4 Mutants

For every property of a passing run `PROJECT.json` names a change of the model
that a plausible bug of the code would make (the definitions marked "Variant" in
the modules), under which TLC finds the property violated.

## 4. The proofs

`ResearchSteps_proofs` proves `Spec => []TypeOK` for every value of the
constants: one lemma for the initial states, one for the end of a job, one with
a case for each action.

Its safety theorems assume `Faults \subseteq SafeFaults`: crashes, database
errors and failed sends may occur at any time and in any number (`MaxFaults` is
arbitrary), but no lost replies, no retryable failures and no lease recovery.
The assumption is needed: a step that is claimed twice (disagreement 1) or sent
again after a lost reply has two executions, after which a late completion
overwrites the row and the properties are false. Plans, workers, concurrency and
attempts are arbitrary; `Deps` may even be cyclic or infinite, since nothing in
the argument needs the plan to end.

None of the five properties is inductive. `SafeInv` adds what they rest on:

* `JobPhases`: what a process holds at each point; in particular the step of a
  worker at its tool or in its transaction is RUNNING.
* `WaitingUnclaimed`, `ClaimHeld`: a PENDING or READY step has no claim, message
  or job, and a claimed one is RUNNING under the claimer's name. With
  `SingleDelivery` this makes the worker that holds a step the only one that can
  end it.
* `OpenTransactions`: the rows an open transaction wrote are still PENDING, no
  two open transactions wrote the same row, a completion's rows wait for nothing
  else, and a failure's rows are closed under "depends on". This is the heart of
  the proof: `touched` was computed from an older state, and the row locks plus
  the fact that two dependencies of one step cannot both be the last one keep it
  right. Closure under dependents is preserved when another transaction commits
  because the rows it turns READY or CANCELLED were locked by it.
* `SynthesisReady`: the check before the transition stays true until it.

Each action has a lemma (`ReadDueSafe`, `ClaimSafe`, ..., `CommitSafe`,
`NextSafe`); `CancelSetFacts` states what the least fixed point of
`_cancel_dependents` gives without computing it. The theorems
`SafeInvHolds`, `StartsAfterDependencies`, `FailureReachesExactlyDependents`,
`OneDeliveryPerStep`, `LeasesHaveCarriers` and `SynthesisOnlyWhenOver` follow.

`StepsImplementDag` is the refinement. `Phase` maps a status to a phase of the
abstract plan, every other variable is hidden, and each action is a step of
`ResearchDag` or a stutter: only `Claim` (a step begins) and `Commit` (it is done, or
fails and takes everything downstream with it) are visible. For the latter one more
invariant is needed, `TouchedBehind`: the rows of an open transaction lie behind its
own step. That they are all the waiting steps downstream (`DownstreamTouched`) is the
closure in `OpenTransactions` and `CancellationClosed` together.

Two properties survive every fault, and their theorems assume nothing.
`SynthesisOnce` rests on `SynthesisInv`: the permission to send the message exists
once, nobody has it before the transition, and from then on it is one worker's, spent
or lost. `ClaimsInOrder` rests on `ClaimInv`: whatever may still make a step READY (its
row, the rows an open transaction is about to unblock, the rows read as due or as
expired) came after the completion of each of its dependencies had been committed (`Prior`,
which speaks of `succeeded`, a set that only grows). Whether they still are completed
is not part of it, since a late execution may undo that.

`ResearchPipeline_proofs` proves `ApprovalFirst`, `StagesSentOnce`, `DeliveriesHonest`
and `Ownership` for any number of workers, callbacks, rounds, attempts and faults of
every kind. The inductive invariant has one part for each of them, and each is needed
by the later ones:

* `Phases`: what a process holds at each point of its job.
* `Untouched`: before the plan is decided on, no step is claimable, no stage was sent
  and no report exists.
* `RepairWaits`: the steps of a repair stay PENDING (disagreement 3), so the only
  steps that run are the first plan's.
* `Tickets`: for each stage there is one right to send its message, held by nobody,
  by one process, or spent, and the status of the task says which were not given yet.
* `Honest`: a delivery under way has a validated report to send.
* `Owned`: for each status, the message on its way or the process in hand that will
  take the task out of it, unless something was lost or the steps are stuck.

`OverIsFinalHolds` is about the writes that have no guard: `approve`, `reject` and
`mark_failed`. It proves the action property `OverIsFinal`, that a task which is over
keeps its status, and names the ways in which it may not (`Reopened`): two decisions
that both read the approval while it was pending, and a submission that gives up a task
which the planning had taken, whose plan may then still be approved. It assumes
`NoRepeats`, that no worker dies and no job outlasts the idle timeout: a review that is
delivered again may find the task completed and fail it. The invariant `Finality` says
that the message of the review is in one place (`OneReview`) and that a review under way
or to come finds the task in validation or failed. TLC finds the property violated when
any one of the exceptions, or the assumption, is left out.

`Reminders_proofs` proves `SafeInv` of `Reminders` inductive for any number of
reminders, tasks, instants and faults (2 reminders, a task and 1 fault in the run), and
from it `RowsFitTogether`, `RemindedOnce`, `CancellationsHold` and
`NothingComesBack`. What the properties need beyond themselves:

* `LockedOnce`: a row has at most one open transaction, so that a commit meets the
  row its version was made from.
* `TasksHold`: a task's version is a row not yet visible, or the cancelled version
  of an existing one with the same next time. Hence a commit of a task neither
  revives a reminder nor changes when it runs.
* `ScanHolds`: selected, taken up and marked reminders are different ones, exist,
  and what is marked as executed was pushed.
* `AnswersHold`: what was confirmed is held by a task, or is committed and no mark
  of the scan undoes it.
* `PushesPrecede`: all pushes lie before the reminder's next time, or before the
  one the scan is about to record; a new time of a rule is later than now.

There is one lemma for each action; the four that end or record a scan share
`MarkSafe` and `ScanDropped`.

`Evidence_proofs` proves `EvidenceKept` and `CitesItsTask` for any number of tasks,
steps, contents and workers. The invariant says, for a worker that stores: what its
tool found is what it has kept and what is still to be stored; what it has kept is
committed or in its own transaction; and the transactions of two workers have
inserted different contents, none of them committed. The last part is the unique
index, and makes a commit add rows without taking any from another task: therefore
rows that a synthesis has read stay rows of its task.

The same module extends `Planning` and proves `AcceptedPlansRun` for any
answer of the model that fits the schema and any limits. The sort counts in-degrees,
the property asks for a way to work the plan off, and "grown" sets connect them: a
grown set holds a step whenever it holds all it depends on. While the sort runs,
an in-degree is the number of dependencies that were not popped, and every grown set
holds all free steps (`Sorting`); when all steps are free, only the whole plan is grown
(`Sorted`). `Drawn` and `Removals` say that the steps are those of the answer, in their
places, and that what was taken out shares its key with a step of the pipeline.
`CyclesAreReal` proves the first part of `VerdictsHonest`: when the queue is empty and
something is left, each of the steps that are left waits for another of them.
`VerdictsAreHonest` adds the parts about the depth. A search calls `dfs` only along chains
from its root (`Way`), so that the depth it reports is the length of one; and a key it
has met is visited or is still to be called (`SearchOK`), so that what it has visited when
it ends is closed under dependencies. A chain from the root, of whatever length, therefore
never leaves what is `Near` the root (`ChainsStay`), which is how the property speaks of
the end of a chain that is longer than any the search took. Where one would argue by
induction along the chain, `ChainsStay` takes the first place outside: `<` on the naturals
is well-founded (`LeastElement`).

`Conversation_proofs` proves `NothingForgotten` for any sizes and any number of
turns. Inductive with it is `Writing`:
whoever has written a summary holds the lock of its row until its transaction ends,
and, while no two compressions have crossed, what it wrote covers the committed
summary and the messages it deleted. `WindowKeptHolds` has a different argument,
`WindowSafe`: behind every row that was deleted, and behind all rows that a turn has
selected, there are `Window` rows. A deletion keeps it because the sets of
"rows newer than these" are nested (`Nested`), so that what one compression deletes is
old to all, and because the oldest `Batch` of more than `Keep` rows leave
`Keep + 1 - Batch` behind them (`OldestFacts`), one of which may be the turn's own and
not committed, so that `Window + Batch <= Keep` is enough. It does not matter whether compressions cross.

The same module extends `Memory` and proves `OneProfileHolds` for any facts
and any number of transactions, messages and tool calls (`Memory` and `Planning` have
names of their own for what each module has, such as `MemoryInit` and `PlanSpec`, so that
their proofs can share a module with those of their neighbour). `Isolated` is what the row
locks give: what a transaction has flushed is flushed by nobody else, and the row is
still there or the key is new. `Alone` is the point: for a fact outside
`twinned` and `missed` one transaction at most is about to write a profile, and it aims
at the one there is, if any. `TxnShape` says what a transaction holds at each stage. The
proof uses the assumption of `Memory` that `Nothing`, the absence of a row, is not one.

`MentionsCountedHolds` proves `MentionsCounted` from the same invariant and `MentionInv`.
The property counts the occurrences of the rows there are, which is not inductive: a side
path that read a row and commits later may write the count back to what it was when it
read. `Evident` has, for a fact, every occurrence that its rows have, had when an open
side path read them, or that a written row goes back to; `Backed` says that even so many,
with the promoted ones, are no more than the mentions that were committed. It is a set
of pairs of an id and a number and not a sum, so that a commit adds the one element that
pays for its mention. `Exact` is the other direction: for a fact outside `raced` a row is
as it was read, and nobody else has it in hand. `Anchored` keeps the id of a written row
to one fact and, while it is new, to one transaction.

`Knowledge_proofs` proves `SearchScoped` in every state, from what the two filters
compare and from the shapes of the questions alone (`FiltersScope`), and
`StoresAgree` and `StoredOnce` with an invariant that extends each of them to what
open transactions are about to commit: `Unbacked`, `Unindexable`, `Apart`, and
`Numbered`, by which a document that is being added is a new one.

`Inbox_proofs` proves `HandledOnce`, `AckedIsKept` and `OneActiveTask` for any number
of messages, posts and faults. The unique `msgid` enters as `Recording` and `Alone`:
one post of a message at most gets to insert its row, or has just recorded it, and
until that post is answered no background task exists. `Counted` says that a task has
a row and that handling starts when it leaves the queue; `Kept`, that a row which is
neither settled nor lost still has a post or a task that will go on with it; `Races`,
that who is about to create a research task found no other one, or one of the two is
in `raced` or `reopened`.

`Polls_proofs` proves `ResultOnce`, `ResultComplete` and `TimerKept` for any number of
polls, members, tasks and faults. `Orderly` gives a poll one creator, which ends before
anything can end the poll; `Timed`, that the timer is set before the poll is committed,
or the poll is in `strayed`, and stays; `Single`, that a poll outside `twice` has one transaction that ends it, and
no result before the push of that one; `Closed`, that what is pushed was marked as
ended before and that a vote, once cast, may be changed but not withdrawn.

Every safety property that a run checks is stated by a theorem. Only model-checked is
liveness, which is out of reach of the prover: `SynthesisReached`, `Settles`,
`CompletedIsDelivered`, `DueIsSettled`, `PollEnds`, `IsSettled` and `RunEnds`. Only proved,
and in no run, is `OverIsFinal`.

An EXCEPT of the models never names an index twice: `[txn EXCEPT ![t] = [@ EXCEPT
!.at = ..., !.fact = ...]]` and not `[txn EXCEPT ![t].at = ..., ![t].fact = ...]`.
tlapm 1.4.5 translates the second form into facts that contradict each other, from
which anything follows. For the same reason the proofs were run on the mutants of
section 3.4: each mutant of a property that a theorem states breaks the proof of that
theorem.

## 5. What is not modelled

Wording, prompts and the answers of language models (a choice among the outcomes
the code distinguishes); the contents of evidence and reports, and the verdicts of
the review on single claims; stateless clients (weather, search); encryption of
callbacks; the evaluation and benchmark tools; one-off migrations and the command
line except for ingestion; the address policy of the web fetcher.

Code that nothing calls: the research entry `research.run` of the first phase, the
circuit breaker, `ResearchBudget` and `ResearchUsageRecorder`, `decay_profiles` and
`extract_facts` of the memory service, `ChromaStore.delete_by_document`, and the
watchdog, which is modelled all the same.

The token cache of the app client is left out because losing a token costs another
request and nothing else; governance because it looks up a member and decides on one
request; the fixture planner because the workers always have a supervisor.

## 6. Plan

1. **Done**: `ResearchSteps` with proofs, `ResearchPipeline`, `Evidence` with proofs.
2. **Done**: `Inbox`, `Reminders` and `Polls`, each with proofs.
3. **Done**: `Conversation` and `Knowledge` with proofs; `Memory`.
4. Pure algorithms, each against a reference definition over bounded inputs:
   the validator of plans is done (`Planning`); the retry delays and chunking are left.
5. **Done**: proofs of every safety property of the runs, and the refinement of
   `ResearchDag`. Left: which parts of `SafeInv` survive lost replies and lease recovery.
6. Review verdicts: the claims of several versions of a report, which the review
   reads together.
