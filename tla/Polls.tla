-------------------------------- MODULE Polls --------------------------------
(***************************************************************************)
(* Polls of one group chat: members create them, vote and end them by      *)
(* messages that background tasks of the callback router handle            *)
(* (agents/poll, messaging/group_policy.py), and a timer of the scheduler  *)
(* ends those that have an end time (scheduler/manager.py).  A task is one *)
(* transaction: it answers the member first and commits afterwards.  The   *)
(* timers are kept in the memory of the process only.                      *)
(*                                                                         *)
(* A transaction that has written a poll locks its row until it is over.   *)
(* The vote of a member is written when the inbox row is marked, thus after*)
(* the answer, in one go with the commit.                                  *)
(*                                                                         *)
(* Abstracted: titles, wording and layout, what the LLM makes of an end    *)
(* time (none, or some time, perhaps past), the instants themselves: a     *)
(* timer may go off as soon as it is set.  Polls of other groups share     *)
(* nothing with these.  The group has a webhook.                           *)
(*                                                                         *)
(* Without a file of scheduler targets the process has no scheduler and no *)
(* webhook client: no poll gets a timer, and no result is pushed.          *)
(***************************************************************************)
EXTENDS Naturals, Sequences, FiniteSets, Functions

CONSTANTS
    MaxPolls,    \* bound: polls are numbered 1..MaxPolls in the order of creation
    Members,     \* who votes
    Letters,     \* the options of a poll
    Tasks,       \* background tasks that may be under way at the same time
    None,        \* no vote, nobody, no poll
    MaxMessages, \* bound: the number of messages handled
    MaxFaults    \* bound: the number of faults

ASSUME BoundsAssumption == {MaxPolls, MaxMessages, MaxFaults} \subseteq Nat

Polls == 1..MaxPolls
Ballots == [Members -> Letters \cup {None}]
NoVotes == [m \in Members |-> None]

ASSUME NoneAssumption == None \notin Letters \cup Members \cup Nat \cup Ballots

VARIABLES
    manager,   \* the process has a SchedulerManager (scheduler_targets_file is set)
    status,    \* committed column polls.status; "void": the INSERT was rolled back
    timed,     \* polls with an end time
    votes,     \* committed rows of poll_votes
    task,      \* the background tasks
    timer,     \* polls with a job poll_end:<id> in the scheduler
    runner,    \* the running job of a poll
    results,   \* history: the ballots counted in the messages the group received
    closing,   \* history: the ballots when the poll was first marked ended
    strayed,   \* history: polls whose timer was not set, or came to nothing
    twice,     \* history: polls two transactions were ending, or one did in vain
    messages,  \* history: the number of messages
    faults     \* history: the number of faults

timers == <<timer, runner>>
history == <<results, closing, strayed, twice>>
vars == <<manager, status, timed, votes, task, timers, history, messages, faults>>

Idle == [at |-> "idle", kind |-> "none", poll |-> None, member |-> None,
         letter |-> None, old |-> None]
Task == [at : {"idle", "voting", "found", "marked", "answered"},
         kind : {"none", "create", "vote", "end"}, poll : Polls \cup {None},
         member : Members \cup {None}, letter : Letters \cup {None},
         old : Letters \cup {None}]

Init ==
    /\ manager \in BOOLEAN
    /\ status = [p \in Polls |-> "absent"]
    /\ timed = {}
    /\ votes = [p \in Polls |-> NoVotes]
    /\ task = [t \in Tasks |-> Idle]
    /\ timer = {} /\ runner = [p \in Polls |-> "idle"]
    /\ results = [p \in Polls |-> <<>>]
    /\ closing = [p \in Polls |-> None]
    /\ strayed = {} /\ twice = {}
    /\ messages = 0 /\ faults = 0

Fault == faults < MaxFaults /\ faults' = faults + 1

\* A task begins with the next message.
Begin(t, new) ==
    /\ task[t] = Idle
    /\ messages < MaxMessages
    /\ messages' = messages + 1
    /\ task' = [task EXCEPT ![t] = new]

----------------------------------------------------------------------------
(* What the queries return.                                                *)

Active == {p \in Polls : status[p] = "active"}

\* Variant: the poll created last, open or not.
NewestAny ==
    {p \in Polls : status[p] \in {"active", "ended"} /\ \A q \in Active : q <= p}

\* _get_active_poll: the open poll created last.
NewestActive == {p \in Active : \A q \in Active : q <= p}

\* _count_votes: what was committed.
Count(p) == votes[p]

Creating(p) == \E t \in Tasks : task[t].kind = "create" /\ task[t].poll = p

\* Transactions that have written the poll.
HeldByTask(p) ==
    \E t \in Tasks : task[t].kind = "end" /\ task[t].poll = p /\ task[t].at # "found"
HeldByJob(p) == runner[p] \in {"marked", "pushed"}
Held(p) == HeldByTask(p) \/ HeldByJob(p)

\* Whoever read that the poll is open in order to end it.
Ending(p) ==
    \/ \E t \in Tasks : task[t].kind = "end" /\ task[t].poll = p
    \/ runner[p] # "idle"

\* Its timer is set, or went off, or was cancelled by a transaction that ends the poll.
WillEnd(p) == p \in timer \/ runner[p] # "idle" \/ HeldByTask(p)

TaskIdle(t) == task' = [task EXCEPT ![t] = Idle]

----------------------------------------------------------------------------
(* Creating a poll.                                                        *)

\* Variant: the job of every poll has the same id, and replaces another.
OneJob(p, jobs) == {p}

\* schedule_poll_end, replace_existing: a job per poll.
Schedule(p, jobs) == jobs \cup {p}

\* create_poll_node: the job is in the scheduler before the poll is committed.  Without
\* a manager there is no job, nor if schedule_poll_end raises, which is only logged.
Create(t, p) ==
    /\ Begin(t, [Idle EXCEPT !.at = "answered", !.kind = "create", !.poll = p])
    /\ status[p] = "absent" /\ \A q \in Polls : q < p => status[q] # "absent" \/ Creating(q)
    /\ ~Creating(p)
    /\ \/ UNCHANGED <<timed, timer, strayed, faults>>
       \/ /\ timed' = timed \cup {p}
          /\ \/ manager /\ timer' = Schedule(p, timer) /\ UNCHANGED <<strayed, faults>>
             \/ /\ (~manager /\ UNCHANGED faults) \/ (manager /\ Fault)
                /\ strayed' = strayed \cup {p} /\ UNCHANGED timer
    /\ UNCHANGED <<manager, status, votes, runner, results, closing, twice>>

CreateCommits(t) ==
    /\ task[t].kind = "create"
    /\ status' = [status EXCEPT ![task[t].poll] = "active"]
    /\ TaskIdle(t)
    /\ UNCHANGED <<manager, messages, timed, votes, timers, history, faults>>

----------------------------------------------------------------------------
(* Voting.                                                                 *)

\* The ways to vote that the answers of the agent suggest: "A", "choose A", "poll A",
\* and with the poll named, "poll 1 A" and "A for the poll <title>".
Naming == {"poll 1 A", "for title A"}

\* _detect_vote_action: what the group policy takes for a vote, if a poll is open.
Forwarded == IF Active = {} THEN {} ELSE {"A", "choose A", "poll A"}

\* _parse_vote_option finds a letter only at its place in the short forms.
Readable == {"A", "choose A", "poll A"}

\* The poll a message is a vote for: with several open ones it must name one.
VotedPolls(form) ==
    IF Cardinality(Active) = 1 \/ form \in Naming THEN Active ELSE {}

\* cast_vote_node, up to the choice of the poll and the letter.
Vote(t, m, l) ==
    /\ \E form \in Forwarded \cap Readable : \E p \in VotedPolls(form) :
         Begin(t, [Idle EXCEPT !.at = "voting", !.kind = "vote", !.poll = p,
                               !.member = m, !.letter = l])
    /\ UNCHANGED <<manager, status, timed, votes, timers, history, faults>>

\* cast_vote_node reads the member's vote; the member is told that the letter is
\* recorded before anything is written.
Answer(t) ==
    /\ task[t].at = "voting"
    /\ task' = [task EXCEPT ![t] =
         [@ EXCEPT !.at = "answered", !.old = votes[task[t].poll][task[t].member]]]
    /\ UNCHANGED <<manager, messages, status, timed, votes, timers, history, faults>>

\* The flush of mark_processed, an INSERT unless a vote was read, and the commit.
Insertable(t) == task[t].old # None \/ votes[task[t].poll][task[t].member] = None

\* Variant: the vote is deleted when it is changed, and inserted by the next one.
DropVote(t) ==
    /\ task[t].kind = "vote" /\ task[t].at = "answered" /\ Insertable(t)
    /\ votes' = [votes EXCEPT ![task[t].poll][task[t].member] =
                    IF task[t].old = None THEN task[t].letter ELSE None]
    /\ TaskIdle(t)
    /\ UNCHANGED <<manager, messages, status, timed, timers, history, faults>>

VoteCommits(t) ==
    /\ task[t].kind = "vote" /\ task[t].at = "answered" /\ Insertable(t)
    /\ votes' = [votes EXCEPT ![task[t].poll][task[t].member] = task[t].letter]
    /\ TaskIdle(t)
    /\ UNCHANGED <<manager, messages, status, timed, timers, history, faults>>

\* UniqueConstraint("poll_id", "user_id"): the transaction is rolled back.
VoteClashes(t) ==
    /\ task[t].kind = "vote" /\ task[t].at = "answered" /\ ~Insertable(t)
    /\ TaskIdle(t)
    /\ UNCHANGED <<manager, messages, status, timed, votes, timers, history, faults>>

----------------------------------------------------------------------------
(* Ending a poll by hand.                                                  *)

Overlaps(p) == twice' = IF Ending(p) THEN twice \cup {p} ELSE twice

EndFinds(t) ==
    /\ \E p \in NewestActive :
         /\ Begin(t, [Idle EXCEPT !.at = "found", !.kind = "end", !.poll = p])
         /\ Overlaps(p)
    /\ UNCHANGED <<manager, status, timed, votes, timers, results, closing, strayed,
                   faults>>

Marks(p) ==
    closing' = IF closing[p] = None THEN [closing EXCEPT ![p] = votes[p]] ELSE closing

\* Variant: the timer of the poll created last is cancelled.
CancelNewest(p, jobs) == jobs \ {q \in Polls : \A r \in jobs : r <= q}

\* cancel_poll_end
Cancel(p, jobs) == jobs \ {p}

\* The flush of end_poll_node waits for the row, and sets the status whatever it
\* is by then; the job is cancelled at once.
EndMarks(t) ==
    /\ task[t].at = "found"
    /\ ~Held(task[t].poll)
    /\ task' = [task EXCEPT ![t].at = "marked"]
    /\ timer' = Cancel(task[t].poll, timer)
    /\ Marks(task[t].poll)
    /\ UNCHANGED <<manager, messages, status, timed, votes, runner, results, strayed,
                   twice, faults>>

GroupReceives(p) == results' = [results EXCEPT ![p] = Append(@, Count(p))]

\* The push, whose outcome nobody looks at, and the answer.
EndPushes(t) ==
    /\ task[t].at = "marked"
    /\ task' = [task EXCEPT ![t].at = "answered"]
    /\ \/ manager /\ GroupReceives(task[t].poll) /\ UNCHANGED faults
       \/ ~manager /\ UNCHANGED <<results, faults>>
       \/ manager /\ Fault /\ UNCHANGED results
    /\ UNCHANGED <<manager, messages, status, timed, votes, timers, closing, strayed,
                   twice>>

EndCommits(t) ==
    /\ task[t].kind = "end" /\ task[t].at = "answered"
    /\ status' = [status EXCEPT ![task[t].poll] = "ended"]
    /\ TaskIdle(t)
    /\ UNCHANGED <<manager, messages, timed, votes, timers, history, faults>>

\* Anything raises: rolled back, but the scheduler keeps what it was told: a timer
\* that was cancelled is not set again.
TaskFails(t) ==
    /\ task[t] # Idle
    /\ Fault
    /\ TaskIdle(t)
    /\ LET p == task[t].poll IN
         /\ status' = [status EXCEPT ![p] = IF task[t].kind = "create" THEN "void" ELSE @]
         /\ strayed' = IF task[t].kind = "end" /\ task[t].at # "found" THEN strayed \cup {p}
                       ELSE strayed
         /\ twice' = IF task[t].kind = "end" THEN twice \cup {p} ELSE twice
    /\ UNCHANGED <<manager, messages, timed, votes, timers, results, closing>>

----------------------------------------------------------------------------
(* The timer: SchedulerManager._push_poll_result.                          *)

\* The job is gone once it runs, also if the poll is not committed yet.
Fire(p) ==
    /\ p \in timer
    /\ timer' = timer \ {p}
    /\ IF status[p] = "active"
       THEN runner' = [runner EXCEPT ![p] = "open"] /\ Overlaps(p) /\ UNCHANGED strayed
       ELSE strayed' = strayed \cup {p} /\ UNCHANGED <<runner, twice>>
    /\ UNCHANGED <<manager, messages, status, timed, votes, task, results, closing,
                   faults>>

\* Its time was over when it was set, or the scheduler was too busy.
Missed(p) ==
    /\ p \in timer
    /\ Fault
    /\ timer' = timer \ {p}
    /\ strayed' = strayed \cup {p}
    /\ UNCHANGED <<manager, messages, status, timed, votes, task, runner, results,
                   closing, twice>>

JobMarks(p) ==
    /\ runner[p] = "open" /\ ~Held(p)
    /\ runner' = [runner EXCEPT ![p] = "marked"]
    /\ Marks(p)
    /\ UNCHANGED <<manager, messages, status, timed, votes, task, timer, results,
                   strayed, twice,
                   faults>>

JobPushes(p) ==
    /\ runner[p] = "marked"
    /\ runner' = [runner EXCEPT ![p] = "pushed"]
    /\ \/ GroupReceives(p) /\ UNCHANGED faults
       \/ Fault /\ UNCHANGED results
    /\ UNCHANGED <<manager, messages, status, timed, votes, task, timer, closing,
                   strayed, twice>>

JobCommits(p) ==
    /\ runner[p] = "pushed"
    /\ runner' = [runner EXCEPT ![p] = "idle"]
    /\ status' = [status EXCEPT ![p] = "ended"]
    /\ UNCHANGED <<manager, messages, timed, votes, task, timer, history, faults>>

JobRaises(p) ==
    /\ runner[p] # "idle"
    /\ Fault
    /\ runner' = [runner EXCEPT ![p] = "idle"]
    /\ strayed' = strayed \cup {p} /\ twice' = twice \cup {p}
    /\ UNCHANGED <<manager, messages, status, timed, votes, task, timer, results,
                   closing>>

\* The web process dies and is started again: nothing sets the timers anew that it had
\* in its memory, nor those of polls that it was ending.
Crash ==
    /\ Fault
    /\ status' = [p \in Polls |-> IF Creating(p) THEN "void" ELSE status[p]]
    /\ task' = [t \in Tasks |-> Idle]
    /\ timer' = {} /\ runner' = [p \in Polls |-> "idle"]
    /\ strayed' = strayed \cup {p \in timed : WillEnd(p)}
    /\ twice' = twice \cup {p \in Polls : Ending(p)}
    /\ UNCHANGED <<manager, messages, timed, votes, results, closing>>

----------------------------------------------------------------------------
\* poll_node and the routes of PollAgent; to look at a result changes nothing.
Request(t) ==
    \/ \E p \in Polls : Create(t, p)
    \/ \E m \in Members, l \in Letters : Vote(t, m, l)
    \/ EndFinds(t)

TaskStep(t) ==
    \/ CreateCommits(t)
    \/ Answer(t) \/ VoteCommits(t) \/ VoteClashes(t)
    \/ EndMarks(t) \/ EndPushes(t) \/ EndCommits(t)

JobStep(p) == Fire(p) \/ JobMarks(p) \/ JobPushes(p) \/ JobCommits(p)

Next ==
    \/ Crash
    \/ \E t \in Tasks :
         Request(t) \/ TaskStep(t) \/ TaskFails(t)
    \/ \E p \in Polls : JobStep(p) \/ Missed(p) \/ JobRaises(p)

Spec == Init /\ [][Next]_vars

\* A task that began goes on, and the time of a timer comes; nobody has to write.
FairSpec ==
    /\ Spec
    /\ \A t \in Tasks : WF_vars(TaskStep(t))
    /\ \A p \in Polls : WF_vars(JobStep(p))

----------------------------------------------------------------------------
TypeOK ==
    /\ manager \in BOOLEAN
    /\ status \in [Polls -> {"absent", "active", "ended", "void"}]
    /\ timed \in SUBSET Polls
    /\ votes \in [Polls -> Ballots]
    /\ task \in [Tasks -> Task]
    /\ timer \in SUBSET Polls
    /\ runner \in [Polls -> {"idle", "open", "marked", "pushed"}]
    /\ results \in [Polls -> Seq(Ballots)]
    /\ closing \in [Polls -> Ballots \cup {None}]
    /\ strayed \in SUBSET Polls
    /\ twice \in SUBSET Polls
    /\ messages \in Nat /\ faults \in Nat

\* The group receives the result of a poll once, unless two transactions had both
\* read that it is open, or one that ended it did not commit: end_poll_node and
\* _push_poll_result ask for an open poll when they begin, not when they push.
ResultOnce == \A p \in Polls \ twice : Len(results[p]) <= 1

\* Every vote that was committed when the poll was first marked ended is in every
\* result the group receives, whoever counts, and however many votes change later.
ResultComplete == \A p \in Polls : \A i \in DOMAIN results[p], m \in Members :
    closing[p] # None /\ closing[p][m] # None => results[p][i][m] # None

\* An open poll with an end time has a timer, or a transaction that marked it ended,
\* unless its timer was not set (no scheduler, or it raised) or came to nothing in one
\* of the ways that are known: a crash while it was in memory, a job that went off
\* before the poll was committed, or too late, or an end that was rolled back after it
\* had cancelled the job.
TimerKept == \A p \in timed \ strayed : status[p] = "active" => WillEnd(p)

\* An open poll with an end time is ended, unless its timer comes to nothing in one of
\* those ways.
PollEnds == \A p \in Polls :
    (status[p] = "active" /\ p \in timed) ~> (status[p] = "ended" \/ p \in strayed)
=============================================================================
