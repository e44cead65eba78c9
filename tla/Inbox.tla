-------------------------------- MODULE Inbox --------------------------------
(***************************************************************************)
(* The inbox of the smart robot: WeCom posts every message to a callback   *)
(* (wechat/callback_router.py), which records it under its msgid           *)
(* (wechat/callback_inbox.py), answers at once and handles it in a         *)
(* background task.  A message without an answer is posted again.  Handling*)
(* goes through messaging/dispatch.py to an agent; the one whose effect is *)
(* followed here is the submission of a research task, of which a member   *)
(* may have one at a time (research/submission.py, research/service.py).   *)
(*                                                                         *)
(* A background task is one transaction that is committed after the reply; *)
(* a submission commits it half-way.                                       *)
(*                                                                         *)
(* Abstracted: the wire format and its encryption (a post whose body is    *)
(* not a message of this robot gets an error and changes nothing), texts,  *)
(* the other effects of a message.  All messages are of one member.        *)
(***************************************************************************)
EXTENDS Naturals, FiniteSets

CONSTANTS
    Messages,     \* the messages of the member, by msgid
    Mixes,        \* which kinds the messages may have
    Requests,     \* posts that may be under way at the same time
    None,         \* no message
    MaxPosts,     \* bound: the number of posts
    MaxFaults     \* bound: the number of faults

ASSUME BoundsAssumption == {MaxPosts, MaxFaults} \subseteq Nat
ASSUME NoneAssumption == None \notin Messages

Kinds == {"silent", "chat", "submit"}

ASSUME MixesAssumption == Mixes \subseteq [Messages -> Kinds]

VARIABLES
    kind,      \* what a message is
    request,   \* the posts that are being answered
    row,       \* committed column inbound_messages.status
    job,       \* the background task of a message
    research,  \* the research task a message created
    acked,     \* history: messages the platform got an answer for
    handled,   \* history: how often handling began
    lost,      \* history: recorded messages nobody will settle
    raced,     \* history: submissions that looked for an active task together
    reopened,  \* history: tasks that became active again beside another one
    posts,     \* history: the number of posts
    faults     \* history: the number of faults

history == <<acked, handled, lost, raced, reopened>>
vars == <<kind, request, row, job, research, history, posts, faults>>

NoRequest == [at |-> "idle", msg |-> None]

Init ==
    /\ kind \in Mixes
    /\ request = [r \in Requests |-> NoRequest]
    /\ row = [m \in Messages |-> "none"]
    /\ job = [m \in Messages |-> "none"]
    /\ research = [m \in Messages |-> "none"]
    /\ acked = {} /\ lost = {} /\ raced = {} /\ reopened = {}
    /\ handled = [m \in Messages |-> 0]
    /\ posts = 0 /\ faults = 0

Fault == faults < MaxFaults /\ faults' = faults + 1

----------------------------------------------------------------------------
(* The callback.                                                           *)

Answered(r) == request' = [request EXCEPT ![r] = NoRequest]

\* The platform posts a message until it gets an answer; _parse_callback_request and
\* _extract_message_body find it in the body.  The query of record_inbound_message:
\* a message that is known is answered and left alone.
Post(r, m) ==
    /\ request[r] = NoRequest
    /\ m \notin acked /\ posts < MaxPosts
    /\ posts' = posts + 1
    /\ IF row[m] = "none"
       THEN request' = [request EXCEPT ![r] = [at |-> "new", msg |-> m]] /\ UNCHANGED acked
       ELSE acked' = acked \cup {m} /\ UNCHANGED request
    /\ UNCHANGED <<kind, row, job, research, handled, lost, raced, reopened, faults>>

Inserting(m) == \E q \in Requests : request[q] = [at |-> "inserted", msg |-> m]

\* Variant: msgid is not unique.
InsertAnyway(r) ==
    /\ request[r].at = "new"
    /\ request' = [request EXCEPT ![r].at = "inserted"]
    /\ UNCHANGED <<kind, row, job, research, history, posts, faults>>

\* Variant: the platform is answered before the row is committed.
AnswerFirst(r) ==
    /\ request[r].at = "new" /\ ~Inserting(request[r].msg)
    /\ request' = [request EXCEPT ![r].at = "inserted"]
    /\ acked' = acked \cup {request[r].msg}
    /\ UNCHANGED <<kind, row, job, research, handled, lost, raced, reopened, posts,
                   faults>>

\* Its INSERT waits for another one of the same msgid, and raises if that one was
\* committed: the platform gets an error.
Insert(r) ==
    /\ request[r].at = "new" /\ ~Inserting(request[r].msg)
    /\ IF row[request[r].msg] = "none"
       THEN request' = [request EXCEPT ![r].at = "inserted"]
       ELSE Answered(r)
    /\ UNCHANGED <<kind, row, job, research, history, posts, faults>>

CommitRow(r) ==
    /\ request[r].at = "inserted"
    /\ row' = [row EXCEPT ![request[r].msg] = "pending"]
    /\ request' = [request EXCEPT ![r].at = "recorded"]
    /\ UNCHANGED <<kind, job, research, history, posts, faults>>

\* The background task starts after the answer, whether that arrives or not.
Respond(r) ==
    /\ request[r].at = "recorded"
    /\ job' = [job EXCEPT ![request[r].msg] = "queued"]
    /\ Answered(r)
    /\ \/ acked' = acked \cup {request[r].msg} /\ UNCHANGED faults
       \/ Fault /\ UNCHANGED acked
    /\ UNCHANGED <<kind, row, research, handled, lost, raced, reopened, posts>>

RequestFails(r) ==
    /\ request[r].at \in {"new", "inserted"}
    /\ Fault
    /\ Answered(r)
    /\ UNCHANGED <<kind, row, job, research, history, posts>>

----------------------------------------------------------------------------
(* The background task: process_recorded_message.                          *)

Goes(m, from, to) == job[m] = from /\ job' = [job EXCEPT ![m] = to]

\* mark_processing, and where handle_callback_message and dispatch_message lead:
\* a voice without words and a group message of no concern get no reply.
Begin(m) ==
    /\ Goes(m, "queued", CASE kind[m] = "silent" -> "handled"
                           [] kind[m] = "chat"   -> "replying"
                           [] kind[m] = "submit" -> "checking")
    /\ handled' = [handled EXCEPT ![m] = @ + 1]
    /\ UNCHANGED <<kind, request, row, research, acked, lost, raced, reopened, posts,
                   faults>>

\* Variant: a task waiting for approval is not counted.
NoneSeen == {}

\* The tasks of the member that are not over.
ActiveTasks == {m \in Messages : research[m] = "active"}

Checked == {m \in Messages : job[m] = "creating"}

\* create_task: no active task, one, or several, which scalar_one_or_none refuses.
Check(m) ==
    /\ \/ ActiveTasks = {} /\ Goes(m, "checking", "creating")
       \/ Cardinality(ActiveTasks) = 1 /\ Goes(m, "checking", "replying")
       \/ Cardinality(ActiveTasks) > 1 /\ Goes(m, "checking", "failing")
    /\ raced' = IF Checked = {} THEN raced ELSE raced \cup Checked \cup {m}
    /\ UNCHANGED <<kind, request, row, research, acked, handled, lost, reopened, posts,
                   faults>>

\* The INSERT and the commit of submit, which commits the inbox row as well.
Create(m) ==
    /\ Goes(m, "creating", "sending")
    /\ research' = [research EXCEPT ![m] = "active"]
    /\ row' = [row EXCEPT ![m] = "processing"]
    /\ UNCHANGED <<kind, request, history, posts, faults>>

\* enqueue_planning, and mark_failed when it or mark_enqueued raises; the member is
\* told which.  The planning may have been enqueued all the same.
Send(m) ==
    /\ Goes(m, "sending", "replying")
    /\ \/ UNCHANGED <<research, faults>>
       \/ Fault /\ research' = [research EXCEPT ![m] = "over"]
    /\ UNCHANGED <<kind, request, row, history, posts>>

\* send_reply: it arrives, is refused, which nobody looks at, or raises.
Reply(m) ==
    /\ \/ Goes(m, "replying", "handled") /\ UNCHANGED faults
       \/ Goes(m, "replying", "failing") /\ Fault
    /\ UNCHANGED <<kind, request, row, research, history, posts>>

\* mark_processed and the commit.
Finish(m) ==
    /\ Goes(m, "handled", "done")
    /\ row' = [row EXCEPT ![m] = "processed"]
    /\ UNCHANGED <<kind, request, research, history, posts, faults>>

\* Variant: the failed transaction is used to mark the message.
MarkInFailed(m) ==
    /\ Goes(m, "failing", "done")
    /\ UNCHANGED <<kind, request, row, research, history, posts, faults>>

\* mark_failed in a session of its own.
MarkFailed(m) ==
    /\ Goes(m, "failing", "done")
    /\ row' = [row EXCEPT ![m] = "failed"]
    /\ UNCHANGED <<kind, request, research, history, posts, faults>>

\* The database raises; while the failure is marked, nothing catches that.
JobFails(m) ==
    /\ job[m] \notin {"none", "queued", "done"}
    /\ Fault
    /\ IF job[m] = "failing"
       THEN Goes(m, "failing", "done") /\ lost' = lost \cup {m}
       ELSE Goes(m, job[m], "failing") /\ UNCHANGED lost
    /\ UNCHANGED <<kind, request, row, research, acked, handled, raced, reopened, posts>>

\* The research worker settles a task of the member, or a member rejects its plan.
ResearchEnds(m) ==
    /\ research[m] = "active" /\ job[m] # "sending"
    /\ research' = [research EXCEPT ![m] = "over"]
    /\ UNCHANGED <<kind, request, row, job, history, posts, faults>>

\* approve writes RUNNING over a task that is over: a rejection crossed it, or mark_failed
\* gave up a task whose planning went on to ask for the approval.  Nobody looks for
\* another active task of the member then.
Reopens(m) ==
    /\ research[m] = "over"
    /\ research' = [research EXCEPT ![m] = "active"]
    /\ reopened' = IF (ActiveTasks \cup Checked) \ {m} = {} THEN reopened ELSE reopened \cup {m}
    /\ UNCHANGED <<kind, request, row, job, acked, handled, lost, raced, posts, faults>>

----------------------------------------------------------------------------
Settled(m) == row[m] \in {"processed", "failed"}

\* The web process dies and is started again: the rows stay as they are, and
\* nothing takes them up again.
Crash ==
    /\ Fault
    /\ request' = [r \in Requests |-> NoRequest]
    /\ job' = [m \in Messages |-> IF job[m] = "none" THEN "none" ELSE "done"]
    /\ lost' = lost \cup {m \in Messages : row[m] # "none" /\ ~Settled(m)}
    /\ UNCHANGED <<kind, row, research, acked, handled, raced, reopened, posts>>

RequestStep(r) == Insert(r) \/ CommitRow(r) \/ Respond(r)

JobStep(m) ==
    \/ Begin(m) \/ Check(m) \/ Create(m) \/ Send(m) \/ Reply(m)
    \/ Finish(m) \/ MarkFailed(m)

Next ==
    \/ Crash
    \/ \E r \in Requests : \/ RequestStep(r) \/ RequestFails(r)
                           \/ \E m \in Messages : Post(r, m)
    \/ \E m \in Messages : JobStep(m) \/ JobFails(m) \/ ResearchEnds(m) \/ Reopens(m)

Spec == Init /\ [][Next]_vars

\* The event loop goes on with what it began; nobody has to post.
FairSpec ==
    /\ Spec
    /\ \A r \in Requests : WF_vars(RequestStep(r))
    /\ \A m \in Messages : WF_vars(JobStep(m))

----------------------------------------------------------------------------
TypeOK ==
    /\ kind \in [Messages -> Kinds]
    /\ request \in [Requests -> [at : {"idle", "new", "inserted", "recorded"},
                                 msg : Messages \cup {None}]]
    /\ row \in [Messages -> {"none", "pending", "processing", "processed", "failed"}]
    /\ job \in [Messages -> {"none", "queued", "checking", "creating", "sending",
                             "replying", "handled", "failing", "done"}]
    /\ research \in [Messages -> {"none", "active", "over"}]
    /\ {acked, lost, raced, reopened} \subseteq SUBSET Messages
    /\ handled \in [Messages -> Nat]
    /\ posts \in Nat /\ faults \in Nat

\* A message is handled once, however often it is posted: two posts that both find
\* it new cannot both insert its msgid.
HandledOnce == \A m \in Messages : handled[m] <= 1

\* A message the platform got an answer for, and will not post again, is recorded;
\* and it is settled, or under way, or was under way when the process died or when
\* its failure could not be marked.
AckedIsKept == \A m \in acked :
    /\ row[m] # "none"
    /\ \/ Settled(m) \/ m \in lost \/ job[m] \notin {"none", "done"}
       \/ \E r \in Requests : request[r] = [at |-> "recorded", msg |-> m]

\* A member has one active research task, unless two messages looked for one before
\* either had created its own (create_task asks, and no constraint holds it), or an
\* approval made a task active again that was over, beside another one.
OneActiveTask == \A m, n \in Messages :
    m # n /\ research[m] = "active" /\ research[n] = "active"
        => {m, n} \cap (raced \cup reopened) # {}

\* A message that was recorded is processed or failed in the end, unless it was lost.
IsSettled == \A m \in Messages : row[m] = "pending" ~> Settled(m) \/ m \in lost
=============================================================================
