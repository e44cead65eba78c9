---------------------------- MODULE Polls_proofs ----------------------------
(***************************************************************************)
(* Theorems about the polls of a group, for any number of polls, members,  *)
(* options, tasks at a time, messages and faults.                          *)
(***************************************************************************)
EXTENDS Polls, TLAPS

Creates(t, p) == task[t].kind = "create" /\ task[t].poll = p
Ends(t, p) == task[t].kind = "end" /\ task[t].poll = p

\* What a task can be about.
Shape == \A t \in Tasks :
    \/ task[t] = Idle
    \/ task[t].kind = "create" /\ task[t].at = "answered" /\ task[t].poll \in Polls
    \/ /\ task[t].kind = "vote" /\ task[t].at \in {"voting", "answered"}
       /\ task[t].poll \in Polls /\ task[t].member \in Members /\ task[t].letter \in Letters
    \/ /\ task[t].kind = "end" /\ task[t].at \in {"found", "marked", "answered"}
       /\ task[t].poll \in Polls

\* A poll is committed by the only task that creates it, and ended only afterwards.
Orderly ==
    /\ \A t \in Tasks, p \in Polls : Creates(t, p) =>
          status[p] = "absent" /\ \A u \in Tasks \ {t} : ~Creates(u, p)
    /\ \A p \in Polls : Ending(p) => status[p] \in {"active", "ended"}

\* The timer is set before the poll is committed, and stays.
Timed == \A p \in timed :
    /\ status[p] # "absent" \/ Creating(p)
    /\ p \notin strayed /\ Creating(p) => p \in timer

\* A poll that is ended once has no result before its push.
Single == \A p \in Polls \ twice :
    /\ \A t \in Tasks : Ends(t, p) =>
          runner[p] = "idle" /\ \A u \in Tasks \ {t} : ~Ends(u, p)
    /\ \/ \E t \in Tasks : Ends(t, p) /\ task[t].at # "answered"
       \/ runner[p] \in {"open", "marked"}
       \/ status[p] \in {"absent", "active"} /\ ~Ending(p)
       => results[p] = <<>>
    /\ Len(results[p]) <= 1

\* What is pushed was marked before; votes are changed afterwards, but not withdrawn.
Closed == \A p \in Polls :
    /\ \/ results[p] # <<>> \/ runner[p] = "marked"
       \/ \E t \in Tasks : Ends(t, p) /\ task[t].at = "marked"
       => closing[p] # None
    /\ closing[p] # None => \A m \in Members : closing[p][m] # None => votes[p][m] # None

IInv == TypeOK /\ Shape /\ Orderly /\ Timed /\ TimerKept /\ Single /\ Closed /\ ResultComplete

----------------------------------------------------------------------------
LEMMA IdleTask == /\ Idle \in Task /\ Idle.kind = "none" /\ Idle.at = "idle" /\ Idle.poll = None
                  /\ NoVotes \in Ballots
BY DEF Idle, Task, NoVotes, Ballots

LEMMA InitHolds == Init => IInv
<1> SUFFICES ASSUME Init PROVE IInv
    OBVIOUS
<1>1. \A t \in Tasks : task[t] = Idle
    BY DEF Init
<1>2. \A p \in Polls : /\ status[p] = "absent" /\ runner[p] = "idle"
                       /\ results[p] = <<>> /\ closing[p] = None
    BY DEF Init
<1>3. TypeOK
    BY IdleTask, BoundsAssumption DEF Init, TypeOK
<1>4. \A t \in Tasks, p \in Polls : ~Creates(t, p) /\ ~Ends(t, p)
    BY <1>1, IdleTask DEF Creates, Ends
<1>5. Shape /\ Orderly /\ Timed /\ TimerKept
    BY <1>1, <1>2, <1>4 DEF Init, Shape, Orderly, Timed, TimerKept, Ending, Ends
<1>6. Single /\ Closed /\ ResultComplete
    BY <1>2, <1>4 DEF Single, Closed, ResultComplete
<1>. QED
    BY <1>3, <1>5, <1>6 DEF IInv

\* A step of a task leaves the others alone.
LEMMA Frame ==
    ASSUME TypeOK, NEW t \in Tasks, NEW r, task' = [task EXCEPT ![t] = r]
    PROVE  task'[t] = r /\ \A u \in Tasks \ {t} : task'[u] = task[u]
BY DEF TypeOK

\* What the group has received when it receives the result of a poll.
LEMMA Received ==
    ASSUME TypeOK, NEW p \in Polls, GroupReceives(p)
    PROVE  /\ results' \in [Polls -> Seq(Ballots)]
           /\ \A q \in Polls \ {p} : results'[q] = results[q]
           /\ results'[p] # <<>> /\ (results[p] = <<>> => Len(results'[p]) <= 1)
           /\ \A i \in DOMAIN results'[p] :
                 \/ i \in DOMAIN results[p] /\ results'[p][i] = results[p][i]
                 \/ results'[p][i] = votes[p]
<1>1. results[p] \in Seq(Ballots) /\ votes[p] \in Ballots
    BY DEF TypeOK
<1>2. results' = [results EXCEPT ![p] = Append(results[p], votes[p])]
    BY DEF GroupReceives, Count
<1>3. results'[p] = Append(results[p], votes[p])
    BY <1>2 DEF TypeOK
<1>4. /\ Append(results[p], votes[p]) \in Seq(Ballots)
      /\ Append(results[p], votes[p]) # <<>>
      /\ results[p] = <<>> => Len(Append(results[p], votes[p])) <= 1
    BY <1>1
<1>5. \A i \in DOMAIN Append(results[p], votes[p]) :
          \/ i \in DOMAIN results[p] /\ Append(results[p], votes[p])[i] = results[p][i]
          \/ Append(results[p], votes[p])[i] = votes[p]
    BY <1>1
<1>6. results' \in [Polls -> Seq(Ballots)] /\ \A q \in Polls \ {p} : results'[q] = results[q]
    BY <1>2, <1>4 DEF TypeOK
<1>. QED
    BY <1>3, <1>4, <1>5, <1>6

LEMMA TypeStep == TypeOK /\ Shape /\ [Next]_vars => TypeOK'
<1> SUFFICES ASSUME TypeOK, Shape, [Next]_vars PROVE TypeOK'
    OBVIOUS
<1> USE IdleTask DEF TypeOK, Begin, TaskIdle, Fault, timers, history
<1>1. CASE UNCHANGED vars
    BY <1>1 DEF vars
<1>2. CASE Crash
    BY <1>2 DEF Crash
<1>3. ASSUME NEW t \in Tasks, Request(t) PROVE TypeOK'
    <2>1. ASSUME NEW p \in Polls, Create(t, p) PROVE TypeOK'
        <3>1. [Idle EXCEPT !.at = "answered", !.kind = "create", !.poll = p] \in Task
            BY DEF Idle, Task
        <3>. QED
            BY <2>1, <3>1 DEF Create, Schedule
    <2>2. ASSUME NEW m \in Members, NEW l \in Letters, Vote(t, m, l) PROVE TypeOK'
        <3>1. PICK p \in Polls : Begin(t, [Idle EXCEPT !.at = "voting", !.kind = "vote",
                                           !.poll = p, !.member = m, !.letter = l])
            BY <2>2 DEF Vote, VotedPolls, Active
        <3>2. [Idle EXCEPT !.at = "voting", !.kind = "vote", !.poll = p, !.member = m,
                           !.letter = l] \in Task
            BY DEF Idle, Task
        <3>. QED
            BY <2>2, <3>1, <3>2 DEF Vote
    <2>3. CASE EndFinds(t)
        <3>1. PICK p \in Polls :
                 /\ Begin(t, [Idle EXCEPT !.at = "found", !.kind = "end", !.poll = p])
                 /\ Overlaps(p)
            BY <2>3 DEF EndFinds, NewestActive, Active
        <3>2. [Idle EXCEPT !.at = "found", !.kind = "end", !.poll = p] \in Task
            BY DEF Idle, Task
        <3>. QED
            BY <2>3, <3>1, <3>2 DEF EndFinds, Overlaps
    <2>. QED
        BY <1>3, <2>1, <2>2, <2>3 DEF Request
<1>4. ASSUME NEW t \in Tasks, TaskStep(t) \/ TaskFails(t) PROVE TypeOK'
    <2>1. task[t] \in Task
        OBVIOUS
    <2>2. CASE CreateCommits(t) \/ VoteClashes(t) \/ EndCommits(t)
        BY <2>2 DEF CreateCommits, VoteClashes, EndCommits
    <2>7. CASE TaskFails(t)
        <3>1. task[t].poll \in Polls
            BY <2>7 DEF TaskFails, Shape
        <3>2. status' \in [Polls -> {"absent", "active", "ended", "void"}]
            BY <2>7, <3>1 DEF TaskFails
        <3>3. strayed' \in SUBSET Polls /\ twice' \in SUBSET Polls
            BY <2>7, <3>1 DEF TaskFails
        <3>. QED
            BY <2>7, <3>2, <3>3 DEF TaskFails
    <2>3. CASE Answer(t)
        <3>0. task[t].poll \in Polls /\ task[t].member \in Members
            BY <2>3, IdleTask DEF Answer, Shape
        <3>1. votes[task[t].poll][task[t].member] \in Letters \cup {None}
            BY <3>0 DEF Ballots
        <3>2. [task[t] EXCEPT !.at = "answered",
                              !.old = votes[task[t].poll][task[t].member]] \in Task
            BY <2>1, <3>1 DEF Task
        <3>. QED
            BY <2>3, <3>2 DEF Answer
    <2>4. CASE VoteCommits(t)
        <3>1. task[t].letter \in Letters \cup {None}
            BY <2>1 DEF Task
        <3>2. \A p \in Polls, m \in Members :
                [votes EXCEPT ![p][m] = task[t].letter] \in [Polls -> Ballots]
            BY <3>1 DEF Ballots
        <3>3. task[t].poll \in Polls /\ task[t].member \in Members
            BY <2>4, IdleTask DEF VoteCommits, Shape
        <3>. QED
            BY <2>4, <3>2, <3>3 DEF VoteCommits
    <2>5. CASE EndMarks(t)
        <3>1. task[t].poll \in Polls
            BY <2>5, IdleTask DEF EndMarks, Shape
        <3>. QED
            BY <2>1, <2>5, <3>1 DEF EndMarks, Task, Marks, Cancel
    <2>6. CASE EndPushes(t)
        <3>1. task[t].poll \in Polls
            BY <2>6, IdleTask DEF EndPushes, Shape
        <3>2. results' \in [Polls -> Seq(Ballots)]
            BY <2>6, <3>1, Received DEF EndPushes
        <3>3. task' \in [Tasks -> Task]
            BY <2>1, <2>6 DEF EndPushes, Task
        <3>4. faults' \in Nat
            BY <2>6 DEF EndPushes
        <3>. QED
            BY <2>6, <3>2, <3>3, <3>4 DEF EndPushes
    <2>. QED
        BY <1>4, <2>2, <2>3, <2>4, <2>5, <2>6, <2>7 DEF TaskStep
<1>5. ASSUME NEW p \in Polls, JobStep(p) \/ Missed(p) \/ JobRaises(p) PROVE TypeOK'
    <2>1. CASE Fire(p)
        BY <2>1 DEF Fire, Overlaps
    <2>4. CASE Missed(p)
        BY <2>4 DEF Missed
    <2>5. CASE JobRaises(p)
        BY <2>5 DEF JobRaises
    <2>6. CASE JobCommits(p)
        BY <2>6 DEF JobCommits
    <2>2. CASE JobMarks(p)
        BY <2>2 DEF JobMarks, Marks
    <2>3. CASE JobPushes(p)
        <3>1. results' \in [Polls -> Seq(Ballots)]
            BY <2>3, Received DEF JobPushes
        <3>2. faults' \in Nat
            BY <2>3 DEF JobPushes
        <3>. QED
            BY <2>3, <3>1, <3>2 DEF JobPushes
    <2>. QED
        BY <1>5, <2>1, <2>2, <2>3, <2>4, <2>5, <2>6 DEF JobStep
<1>. QED
    BY <1>1, <1>2, <1>3, <1>4, <1>5 DEF Next

----------------------------------------------------------------------------
(* What the steps of one kind have in common.                              *)

\* A task that ends no poll leaves the results alone.
LEMMA NoEnd ==
    ASSUME IInv, NEW t \in Tasks, \A u \in Tasks \ {t} : task'[u] = task[u],
           task[t].kind # "end", task'[t].kind # "end",
           UNCHANGED <<runner, results, closing, twice>>,
           \A q \in Polls : \/ status'[q] = status[q]
                            \/ status[q] = "absent" /\ status'[q] \in {"active", "void"},
           \A q \in Polls, m \in Members : votes[q][m] # None => votes'[q][m] # None
    PROVE  /\ Single' /\ Closed' /\ ResultComplete'
           /\ \A q \in Polls : /\ Ending(q)' <=> Ending(q)
                               /\ Ending(q)' => status'[q] \in {"active", "ended"}
                               /\ HeldByTask(q)' <=> HeldByTask(q)
<1> USE DEF IInv
<1>1. \A u \in Tasks, q \in Polls : /\ Ends(u, q)' <=> Ends(u, q)
                                    /\ Ends(u, q) => task'[u] = task[u]
    BY DEF Ends
<1>2. \A q \in Polls : Ending(q)' <=> Ending(q)
    BY <1>1 DEF Ending, Ends
<1>3. \A q \in Polls : Ending(q)' => status'[q] \in {"active", "ended"}
    BY <1>2 DEF Orderly
<1>4. Single'
    BY <1>1, <1>2 DEF Single, Orderly
<1>5. Closed'
    BY <1>1 DEF Closed
<1>6. ResultComplete'
    BY DEF ResultComplete
<1>7. \A q \in Polls : HeldByTask(q)' <=> HeldByTask(q)
    BY <1>1 DEF HeldByTask, Ends
<1>. QED
    BY <1>2, <1>3, <1>4, <1>5, <1>6, <1>7

\* A step that creates no poll, and takes a timer away only for a reason.
LEMMA NoCreate ==
    ASSUME IInv, timed' = timed, strayed \subseteq strayed',
           \A u \in Tasks, q \in Polls : Creates(u, q)' <=> Creates(u, q),
           \A q \in Polls : \/ status'[q] = status[q]
                            \/ Ending(q) /\ status'[q] = "ended",
           \A q \in Polls : Ending(q)' => Ending(q) \/ status[q] = "active",
           \A q \in Polls : WillEnd(q) =>
               WillEnd(q)' \/ q \in strayed' \/ status'[q] = "ended",
           \A q \in timer \ strayed' : q \in timer' \/ status[q] # "absent"
    PROVE  Orderly' /\ Timed' /\ TimerKept'
<1> USE DEF IInv
<1>1. \A q \in Polls : Creating(q)' <=> Creating(q)
    BY DEF Creating, Creates
<1>2. \A q \in Polls : Creating(q) => status[q] = "absent" /\ status'[q] = "absent"
    BY DEF Orderly, Creating, Creates
<1>3. Orderly'
    BY <1>2 DEF Orderly, Creating, Creates
<1>4. timed \subseteq Polls
    BY DEF TypeOK
<1>5. Timed'
    BY <1>1, <1>2, <1>4 DEF Timed
<1>6. TimerKept'
    BY <1>4 DEF TimerKept
<1>. QED
    BY <1>3, <1>5, <1>6

\* A poll is marked ended: from now on its ballots count.
LEMMA Marked ==
    ASSUME IInv, NEW p \in Polls, Marks(p), UNCHANGED <<votes, results>>
    PROVE  /\ closing'[p] # None
           /\ \A q \in Polls : closing[q] # None => closing'[q] # None
           /\ \A q \in Polls, m \in Members :
                 closing'[q] # None /\ closing'[q][m] # None => votes'[q][m] # None
           /\ ResultComplete'
<1> USE DEF IInv
<1>1. closing[p] = None => closing' = [closing EXCEPT ![p] = votes[p]]
    BY DEF Marks
<1>2. closing[p] # None => closing' = closing
    BY DEF Marks
<1>3. votes[p] # None
    BY NoneAssumption DEF TypeOK
<1>4. closing[p] = None => results[p] = <<>>
    BY DEF Closed
<1>5. closing[p] = None => closing'[p] = votes[p] /\ \A q \in Polls \ {p} : closing'[q] = closing[q]
    BY <1>1 DEF TypeOK
<1>6. \A q \in Polls, m \in Members :
          closing'[q] # None /\ closing'[q][m] # None => votes'[q][m] # None
    BY <1>2, <1>5 DEF Closed
<1>7. ResultComplete'
    <2>1. ASSUME NEW q \in Polls, NEW i \in DOMAIN results[q], NEW m \in Members,
                 closing'[q] # None, closing'[q][m] # None
          PROVE  results[q][i][m] # None
        <3>1. closing'[q] = closing[q]
            BY <1>2, <1>4, <1>5
        <3>. QED
            BY <2>1, <3>1 DEF ResultComplete
    <2>. QED
        BY <2>1 DEF ResultComplete
<1>. QED
    BY <1>2, <1>3, <1>5, <1>6, <1>7

\* A poll that was marked is pushed with all the ballots it had then.
LEMMA Pushed ==
    ASSUME IInv, NEW p \in Polls, GroupReceives(p), closing[p] # None,
           UNCHANGED <<closing, votes>>
    PROVE  ResultComplete'
<1> USE DEF IInv
<1> SUFFICES ASSUME NEW q \in Polls, NEW i \in DOMAIN results'[q], NEW m \in Members,
                    closing[q] # None, closing[q][m] # None
             PROVE  results'[q][i][m] # None
    BY DEF ResultComplete
<1>1. CASE q # p
    BY <1>1, Received DEF ResultComplete
<1>2. CASE q = p
    <2>1. CASE i \in DOMAIN results[p] /\ results'[p][i] = results[p][i]
        BY <1>2, <2>1 DEF ResultComplete
    <2>2. CASE results'[p][i] = votes[p]
        BY <1>2, <2>2 DEF Closed
    <2>. QED
        BY <1>2, <2>1, <2>2, Received
<1>. QED
    BY <1>1, <1>2

----------------------------------------------------------------------------
(* One lemma for each action or for those of a kind.                       *)

LEMMA CreateSafe ==
    ASSUME IInv, NEW t \in Tasks, NEW p \in Polls, Create(t, p) PROVE IInv'
<1> USE DEF IInv
<1>1. /\ task[t] = Idle /\ status[p] = "absent" /\ ~Creating(p)
      /\ task' = [task EXCEPT ![t] = [Idle EXCEPT !.at = "answered", !.kind = "create",
                                                  !.poll = p]]
      /\ UNCHANGED <<status, votes, runner, results, closing, twice>>
    BY DEF Create, Begin
<1>2. /\ task'[t].kind = "create" /\ task'[t].at = "answered" /\ task'[t].poll = p
      /\ \A u \in Tasks \ {t} : task'[u] = task[u]
    <2> DEFINE r == [Idle EXCEPT !.at = "answered", !.kind = "create", !.poll = p]
    <2>1. r.kind = "create" /\ r.at = "answered" /\ r.poll = p
        BY DEF Idle
    <2>2. task' = [task EXCEPT ![t] = r]
        BY <1>1
    <2> HIDE DEF r
    <2>. QED
        BY <2>1, <2>2, Frame
<1>3. \A u \in Tasks, q \in Polls : Creates(u, q)' <=> Creates(u, q) \/ (u = t /\ q = p)
    BY <1>1, <1>2, IdleTask DEF Creates
<1>4. \A q \in Polls : Creating(q)' <=> Creating(q) \/ q = p
    BY <1>3 DEF Creating, Creates
<1>5. /\ timed \subseteq timed' /\ timer \subseteq timer' /\ timed' \subseteq timed \cup {p}
      /\ strayed \subseteq strayed'
      /\ p \in timed' \ timed => p \in timer' \/ p \in strayed'
    BY DEF Create, Schedule
<1>6. /\ Single' /\ Closed' /\ ResultComplete'
      /\ \A q \in Polls : /\ Ending(q)' <=> Ending(q)
                          /\ Ending(q)' => status'[q] \in {"active", "ended"}
                          /\ HeldByTask(q)' <=> HeldByTask(q)
    BY <1>1, <1>2, IdleTask, NoEnd
<1>7. p \notin timed
    BY <1>1 DEF Timed
<1>8. TypeOK'
    BY TypeStep DEF Next, Request
<1>9. Shape'
    BY <1>2 DEF Shape
<1>10. Orderly'
    BY <1>1, <1>3, <1>6 DEF Orderly, Creating, Creates
<1>11. Timed' /\ TimerKept'
    BY <1>1, <1>4, <1>5, <1>6, <1>7 DEF Timed, TimerKept, WillEnd, TypeOK
<1>. QED
    BY <1>6, <1>8, <1>9, <1>10, <1>11

LEMMA CreateCommitsSafe ==
    ASSUME IInv, NEW t \in Tasks, CreateCommits(t) PROVE IInv'
<1> USE DEF IInv
<1>1. PICK p \in Polls : p = task[t].poll
    BY IdleTask DEF CreateCommits, Shape
<1>2. /\ Creates(t, p) /\ task' = [task EXCEPT ![t] = Idle]
      /\ status' = [status EXCEPT ![p] = "active"]
      /\ UNCHANGED <<timed, votes, timer, runner, results, closing, strayed, twice>>
    BY <1>1 DEF CreateCommits, Creates, TaskIdle, timers, history
<1>3. task'[t] = Idle /\ \A u \in Tasks \ {t} : task'[u] = task[u]
    BY <1>2, Frame
<1>4. status[p] = "absent" /\ \A u \in Tasks \ {t} : ~Creates(u, p)
    BY <1>2 DEF Orderly
<1>5. \A u \in Tasks, q \in Polls : Creates(u, q)' <=> Creates(u, q) /\ q # p
    BY <1>2, <1>3, <1>4, IdleTask DEF Creates
<1>6. \A q \in Polls : Creating(q)' <=> Creating(q) /\ q # p
    BY <1>5 DEF Creating, Creates
<1>7. status'[p] = "active" /\ \A q \in Polls \ {p} : status'[q] = status[q]
    BY <1>2 DEF TypeOK
<1>8. /\ Single' /\ Closed' /\ ResultComplete'
      /\ \A q \in Polls : /\ Ending(q)' <=> Ending(q)
                          /\ Ending(q)' => status'[q] \in {"active", "ended"}
                          /\ HeldByTask(q)' <=> HeldByTask(q)
    BY <1>2, <1>3, <1>4, <1>7, IdleTask, NoEnd DEF Creates
<1>9. TypeOK'
    BY TypeStep DEF Next, TaskStep
<1>10. Shape'
    BY <1>3 DEF Shape
<1>11. Orderly'
    BY <1>5, <1>7, <1>8 DEF Orderly
<1>12. Creating(p)
    BY <1>2 DEF Creating, Creates
<1>13. Timed' /\ TimerKept'
    BY <1>2, <1>6, <1>7, <1>8, <1>12 DEF Timed, TimerKept, WillEnd, TypeOK
<1>. QED
    BY <1>8, <1>9, <1>10, <1>11, <1>13

\* A message that votes: only the ballots change, and a vote stays one.
LEMMA VoteSafe ==
    ASSUME IInv, NEW t \in Tasks,
           \/ \E m \in Members, l \in Letters : Vote(t, m, l)
           \/ Answer(t) \/ VoteCommits(t) \/ VoteClashes(t)
    PROVE  IInv'
<1> USE DEF IInv
<1>1. UNCHANGED <<status, timed, timer, runner, results, closing, strayed, twice>>
    BY DEF Vote, Answer, VoteCommits, VoteClashes, timers, history
<1>2. /\ task[t].kind \in {"none", "vote"} /\ task'[t].kind \in {"none", "vote"}
      /\ \A u \in Tasks \ {t} : task'[u] = task[u]
      /\ Shape'
    <2>1. ASSUME NEW m \in Members, NEW l \in Letters, Vote(t, m, l)
          PROVE  /\ task[t].kind \in {"none", "vote"} /\ task'[t].kind \in {"none", "vote"}
                 /\ \A u \in Tasks \ {t} : task'[u] = task[u]
                 /\ Shape'
        <3>1. PICK p \in Polls : Begin(t, [Idle EXCEPT !.at = "voting", !.kind = "vote",
                                           !.poll = p, !.member = m, !.letter = l])
            BY <2>1 DEF Vote, VotedPolls, Active
        <3>2. task[t] = Idle /\ task' = [task EXCEPT ![t] =
                  [Idle EXCEPT !.at = "voting", !.kind = "vote", !.poll = p, !.member = m,
                               !.letter = l]]
            BY <3>1 DEF Begin
        <3>3. /\ task'[t].kind = "vote" /\ task'[t].at = "voting" /\ task'[t].poll = p
              /\ task'[t].member = m /\ task'[t].letter = l
              /\ \A u \in Tasks \ {t} : task'[u] = task[u]
            <4> DEFINE r == [Idle EXCEPT !.at = "voting", !.kind = "vote", !.poll = p,
                                         !.member = m, !.letter = l]
            <4>1. /\ r.kind = "vote" /\ r.at = "voting" /\ r.poll = p
                  /\ r.member = m /\ r.letter = l
                BY DEF Idle
            <4>2. task' = [task EXCEPT ![t] = r]
                BY <3>2
            <4> HIDE DEF r
            <4>. QED
                BY <4>1, <4>2, Frame
        <3>. QED
            BY <3>2, <3>3, IdleTask DEF Shape
    <2>2. CASE Answer(t)
        <3>1. /\ task[t].kind = "vote" /\ task[t].poll \in Polls
              /\ task[t].member \in Members /\ task[t].letter \in Letters
            BY <2>2, IdleTask DEF Answer, Shape
        <3>2. task[t] \in Task
            BY DEF TypeOK
        <3>3. /\ task'[t].kind = "vote" /\ task'[t].at = "answered"
              /\ task'[t].poll = task[t].poll /\ task'[t].member = task[t].member
              /\ task'[t].letter = task[t].letter
              /\ \A u \in Tasks \ {t} : task'[u] = task[u]
            BY <2>2, <3>1, <3>2 DEF Answer, TypeOK, Task
        <3>. QED
            BY <3>1, <3>3 DEF Shape
    <2>3. CASE VoteCommits(t) \/ VoteClashes(t)
        <3>1. task[t].kind = "vote" /\ task' = [task EXCEPT ![t] = Idle]
            BY <2>3 DEF VoteCommits, VoteClashes, TaskIdle
        <3>2. task'[t] = Idle /\ \A u \in Tasks \ {t} : task'[u] = task[u]
            BY <3>1, Frame
        <3>. QED
            BY <3>1, <3>2, IdleTask DEF Shape
    <2>. QED
        BY <2>1, <2>2, <2>3
<1>3. \A q \in Polls, m \in Members : votes[q][m] # None => votes'[q][m] # None
    <2>1. CASE VoteCommits(t)
        <3>1. task[t].letter \in Letters
            BY <2>1, IdleTask DEF VoteCommits, Shape
        <3>2. votes' = [votes EXCEPT ![task[t].poll][task[t].member] = task[t].letter]
            BY <2>1 DEF VoteCommits
        <3>3. votes \in [Polls -> [Members -> Letters \cup {None}]]
            BY DEF TypeOK, Ballots
        <3>. QED
            BY <3>1, <3>2, <3>3, NoneAssumption
    <2>2. CASE ~VoteCommits(t)
        BY <2>2 DEF Vote, Answer, VoteClashes
    <2>. QED
        BY <2>1, <2>2
<1>4. /\ Single' /\ Closed' /\ ResultComplete'
      /\ \A q \in Polls : (Ending(q)' <=> Ending(q)) /\ (HeldByTask(q)' <=> HeldByTask(q))
    BY <1>1, <1>2, <1>3, NoEnd
<1>5. \A u \in Tasks, q \in Polls : Creates(u, q)' <=> Creates(u, q)
    BY <1>2 DEF Creates
<1>6. Orderly' /\ Timed' /\ TimerKept'
    BY <1>1, <1>4, <1>5, NoCreate DEF Orderly, WillEnd
<1>7. TypeOK'
    BY TypeStep DEF Next, Request, TaskStep
<1>. QED
    BY <1>2, <1>4, <1>6, <1>7

\* A member ends the poll: the query, the flush, the push, the commit.
LEMMA EndFindsSafe ==
    ASSUME IInv, NEW t \in Tasks, EndFinds(t) PROVE IInv'
<1> USE DEF IInv
<1>1. PICK p \in NewestActive :
         /\ Begin(t, [Idle EXCEPT !.at = "found", !.kind = "end", !.poll = p])
         /\ Overlaps(p)
    BY DEF EndFinds
<1>2. p \in Polls /\ status[p] = "active" /\ task[t] = Idle
    BY <1>1 DEF NewestActive, Active, Begin
<1>3. UNCHANGED <<status, timed, votes, timer, runner, results, closing, strayed>>
    BY DEF EndFinds, timers
<1>4. /\ task'[t].kind = "end" /\ task'[t].at = "found" /\ task'[t].poll = p
      /\ \A u \in Tasks \ {t} : task'[u] = task[u]
    <2> DEFINE r == [Idle EXCEPT !.at = "found", !.kind = "end", !.poll = p]
    <2>1. r.kind = "end" /\ r.at = "found" /\ r.poll = p
        BY DEF Idle
    <2>2. task' = [task EXCEPT ![t] = r]
        BY <1>1 DEF Begin
    <2> HIDE DEF r
    <2>. QED
        BY <2>1, <2>2, Frame
<1>5. \A u \in Tasks, q \in Polls :
         /\ Ends(u, q)' <=> Ends(u, q) \/ (u = t /\ q = p)
         /\ Creates(u, q)' <=> Creates(u, q)
    BY <1>2, <1>4, IdleTask DEF Ends, Creates
<1>6. \A q \in Polls : Ending(q)' <=> Ending(q) \/ q = p
    BY <1>3, <1>5 DEF Ending, Ends
<1>7. IF Ending(p) THEN twice' = twice \cup {p} ELSE twice' = twice
    BY <1>1 DEF Overlaps
<1>8. TypeOK'
    BY TypeStep DEF Next, Request
<1>9. Shape'
    BY <1>2, <1>4 DEF Shape
<1>14. \A q \in Polls : HeldByTask(q) => HeldByTask(q)'
    BY <1>2, <1>4, <1>5, IdleTask DEF HeldByTask, Ends
<1>10. Orderly' /\ Timed' /\ TimerKept'
    BY <1>2, <1>3, <1>5, <1>6, <1>14, NoCreate DEF WillEnd
<1>11. Single'
    <2> SUFFICES ASSUME NEW q \in Polls \ twice'
                 PROVE  /\ \A u \in Tasks : Ends(u, q)' =>
                             runner'[q] = "idle" /\ \A v \in Tasks \ {u} : ~Ends(v, q)'
                        /\ Len(results'[q]) <= 1
                        /\ results'[q] = <<>> \/
                             /\ \A u \in Tasks : Ends(u, q)' => task'[u].at = "answered"
                             /\ runner'[q] \notin {"open", "marked"}
                             /\ status'[q] \notin {"absent", "active"} \/ Ending(q)'
        BY DEF Single
    <2>1. q \notin twice
        BY <1>7
    <2>2. CASE q = p
        <3>1. ~Ending(p)
            BY <1>7, <2>2
        <3>. QED
            BY <1>2, <1>3, <1>5, <2>1, <2>2, <3>1 DEF Single, Ending, Ends
    <2>3. CASE q # p
        BY <1>3, <1>4, <1>5, <1>6, <2>1, <2>3 DEF Single, Ends
    <2>. QED
        BY <2>2, <2>3
<1>12. Closed'
    BY <1>3, <1>4, <1>5 DEF Closed, Ends
<1>13. ResultComplete'
    BY <1>3 DEF ResultComplete
<1>. QED
    BY <1>8, <1>9, <1>10, <1>11, <1>12, <1>13

\* What a task that goes on with ending its poll has in hand.
LEMMA EndMoves ==
    ASSUME IInv, NEW t \in Tasks, NEW at, task[t].kind = "end",
           task' = [task EXCEPT ![t].at = at], at \in {"marked", "answered"}
    PROVE  /\ task[t].poll \in Polls /\ Ends(t, task[t].poll)
           /\ task'[t].at = at /\ \A u \in Tasks \ {t} : task'[u] = task[u]
           /\ \A u \in Tasks, q \in Polls : /\ Ends(u, q)' <=> Ends(u, q)
                                            /\ Creates(u, q)' <=> Creates(u, q)
           /\ Shape'
<1> USE DEF IInv
<1>1. task[t] \in Task /\ task[t].poll \in Polls
    BY IdleTask DEF TypeOK, Shape
<1>2. /\ task'[t].at = at /\ task'[t].kind = "end" /\ task'[t].poll = task[t].poll
      /\ \A u \in Tasks \ {t} : task'[u] = task[u]
    BY <1>1 DEF TypeOK, Task
<1>3. \A u \in Tasks, q \in Polls : /\ Ends(u, q)' <=> Ends(u, q)
                                    /\ Creates(u, q)' <=> Creates(u, q)
    BY <1>2 DEF Ends, Creates
<1>4. Shape'
    BY <1>1, <1>2 DEF Shape
<1>. QED
    BY <1>1, <1>2, <1>3, <1>4 DEF Ends

LEMMA EndMarksSafe ==
    ASSUME IInv, NEW t \in Tasks, EndMarks(t) PROVE IInv'
<1> USE DEF IInv
<1>1. /\ task[t].kind = "end" /\ task[t].at = "found"
      /\ task' = [task EXCEPT ![t].at = "marked"]
    BY IdleTask DEF EndMarks, Shape
<1>2. PICK p \in Polls : p = task[t].poll
    BY <1>1, EndMoves
<1>3. /\ Ends(t, p) /\ task'[t].at = "marked" /\ \A u \in Tasks \ {t} : task'[u] = task[u]
      /\ \A u \in Tasks, q \in Polls : /\ Ends(u, q)' <=> Ends(u, q)
                                       /\ Creates(u, q)' <=> Creates(u, q)
      /\ Shape'
    BY <1>1, <1>2, EndMoves
<1>4. /\ UNCHANGED <<status, timed, votes, runner, results, strayed, twice>>
      /\ timer' = timer \ {p} /\ Marks(p)
    BY <1>2 DEF EndMarks, Cancel
<1>5. /\ closing'[p] # None
      /\ \A q \in Polls : closing[q] # None => closing'[q] # None
      /\ \A q \in Polls, m \in Members :
            closing'[q] # None /\ closing'[q][m] # None => votes'[q][m] # None
      /\ ResultComplete'
    BY <1>4, Marked
<1>6. \A q \in Polls : Ending(q)' <=> Ending(q)
    BY <1>3, <1>4 DEF Ending, Ends
<1>7. Ending(p)
    BY <1>3 DEF Ending, Ends
<1>12. HeldByTask(p)' /\ \A q \in Polls : HeldByTask(q) => HeldByTask(q)'
    BY <1>1, <1>3 DEF HeldByTask, Ends
<1>8. Orderly' /\ Timed' /\ TimerKept'
    BY <1>3, <1>4, <1>6, <1>7, <1>12, NoCreate DEF Orderly, WillEnd
<1>9. Single'
    BY <1>1, <1>3, <1>4, <1>6 DEF Single
<1>10. Closed'
    BY <1>3, <1>4, <1>5 DEF Closed, Ends
<1>11. TypeOK'
    BY TypeStep DEF Next, TaskStep
<1>. QED
    BY <1>3, <1>5, <1>8, <1>9, <1>10, <1>11

LEMMA EndPushesSafe ==
    ASSUME IInv, NEW t \in Tasks, EndPushes(t) PROVE IInv'
<1> USE DEF IInv
<1>1. /\ task[t].kind = "end" /\ task[t].at = "marked"
      /\ task' = [task EXCEPT ![t].at = "answered"]
    BY IdleTask DEF EndPushes, Shape
<1>2. PICK p \in Polls : p = task[t].poll
    BY <1>1, EndMoves
<1>3. /\ Ends(t, p) /\ task'[t].at = "answered" /\ \A u \in Tasks \ {t} : task'[u] = task[u]
      /\ \A u \in Tasks, q \in Polls : /\ Ends(u, q)' <=> Ends(u, q)
                                       /\ Creates(u, q)' <=> Creates(u, q)
      /\ Shape'
    BY <1>1, <1>2, EndMoves
<1>4. /\ UNCHANGED <<status, timed, votes, timer, runner, closing, strayed, twice>>
      /\ GroupReceives(p) \/ UNCHANGED results
    BY <1>2 DEF EndPushes, timers
<1>5. closing[p] # None
    BY <1>1, <1>3 DEF Closed
<1>6. \A q \in Polls : Ending(q)' <=> Ending(q)
    BY <1>3, <1>4 DEF Ending, Ends
<1>7. Ending(p)
    BY <1>3 DEF Ending, Ends
<1>14. \A q \in Polls : HeldByTask(q)' <=> HeldByTask(q)
    BY <1>1, <1>3 DEF HeldByTask, Ends
<1>8. Orderly' /\ Timed' /\ TimerKept'
    BY <1>3, <1>4, <1>6, <1>14, NoCreate DEF Orderly, WillEnd
<1>9. ResultComplete'
    <2>1. CASE GroupReceives(p)
        BY <1>4, <1>5, <2>1, Pushed
    <2>2. CASE UNCHANGED results
        BY <1>4, <2>2 DEF ResultComplete
    <2>. QED
        BY <1>4, <2>1, <2>2
<1>10. /\ \A q \in Polls \ {p} : results'[q] = results[q]
       /\ results[p] = <<>> => Len(results'[p]) <= 1
    BY <1>4, Received
<1>11. Closed'
    BY <1>3, <1>4, <1>5, <1>10 DEF Closed
<1>12. Single'
    <2> SUFFICES ASSUME NEW q \in Polls \ twice
                 PROVE  /\ \A u \in Tasks : Ends(u, q)' =>
                             runner'[q] = "idle" /\ \A v \in Tasks \ {u} : ~Ends(v, q)'
                        /\ Len(results'[q]) <= 1
                        /\ results'[q] = <<>> \/
                             /\ \A u \in Tasks : Ends(u, q)' => task'[u].at = "answered"
                             /\ runner'[q] \notin {"open", "marked"}
                             /\ status'[q] \notin {"absent", "active"} \/ Ending(q)'
        BY <1>4 DEF Single
    <2>1. CASE q = p
        <3>1. /\ runner[p] = "idle" /\ \A u \in Tasks \ {t} : ~Ends(u, p)
              /\ results[p] = <<>>
            BY <1>1, <1>3, <2>1 DEF Single
        <3>2. Len(results'[p]) <= 1
            BY <1>10, <3>1
        <3>. QED
            BY <1>3, <1>4, <1>6, <1>7, <2>1, <3>1, <3>2
    <2>2. CASE q # p
        BY <1>3, <1>4, <1>6, <1>10, <2>2 DEF Single, Ends
    <2>. QED
        BY <2>1, <2>2
<1>13. TypeOK'
    BY TypeStep DEF Next, TaskStep
<1>. QED
    BY <1>3, <1>8, <1>9, <1>11, <1>12, <1>13

LEMMA EndCommitsSafe ==
    ASSUME IInv, NEW t \in Tasks, EndCommits(t) PROVE IInv'
<1> USE DEF IInv
<1>1. PICK p \in Polls : p = task[t].poll
    BY IdleTask DEF EndCommits, Shape
<1>2. /\ Ends(t, p) /\ task' = [task EXCEPT ![t] = Idle]
      /\ status' = [status EXCEPT ![p] = "ended"]
      /\ UNCHANGED <<timed, votes, timer, runner, results, closing, strayed, twice>>
    BY <1>1 DEF EndCommits, Ends, TaskIdle, timers, history
<1>3. task'[t] = Idle /\ \A u \in Tasks \ {t} : task'[u] = task[u]
    BY <1>2, Frame
<1>4. \A u \in Tasks, q \in Polls : /\ Ends(u, q)' <=> Ends(u, q) /\ u # t
                                    /\ Creates(u, q)' <=> Creates(u, q)
    BY <1>2, <1>3, IdleTask DEF Ends, Creates
<1>5. Ending(p) /\ \A q \in Polls : (Ending(q)' => Ending(q)) /\ (q # p => (Ending(q)' <=> Ending(q)))
    BY <1>2, <1>3, <1>4 DEF Ending, Ends
<1>6. status'[p] = "ended" /\ \A q \in Polls \ {p} : status'[q] = status[q]
    BY <1>2 DEF TypeOK
<1>13. \A q \in Polls \ {p} : HeldByTask(q)' <=> HeldByTask(q)
    BY <1>2, <1>3, <1>4 DEF HeldByTask, Ends
<1>7. Orderly' /\ Timed' /\ TimerKept'
    BY <1>2, <1>4, <1>5, <1>6, <1>13, NoCreate DEF Orderly, TypeOK, WillEnd
<1>8. Single'
    BY <1>2, <1>3, <1>4, <1>5, <1>6 DEF Single
<1>9. Closed'
    BY <1>2, <1>3, <1>4 DEF Closed
<1>10. ResultComplete'
    BY <1>2 DEF ResultComplete
<1>11. Shape'
    BY <1>3 DEF Shape
<1>12. TypeOK'
    BY TypeStep DEF Next, TaskStep
<1>. QED
    BY <1>7, <1>8, <1>9, <1>10, <1>11, <1>12

LEMMA TaskFailsSafe ==
    ASSUME IInv, NEW t \in Tasks, TaskFails(t) PROVE IInv'
<1> USE DEF IInv
<1>1. PICK p \in Polls : p = task[t].poll
    BY DEF TaskFails, Shape
<1>2. /\ task[t] # Idle /\ task' = [task EXCEPT ![t] = Idle]
      /\ UNCHANGED <<timed, votes, timer, runner, results, closing>>
    BY DEF TaskFails, TaskIdle, timers
<1>3. task'[t] = Idle /\ \A u \in Tasks \ {t} : task'[u] = task[u]
    BY <1>2, Frame
<1>4. TypeOK' /\ Shape'
    BY <1>3, TypeStep DEF Next, Shape
<1>5. CASE task[t].kind = "end"
    <2>1. /\ Ends(t, p) /\ twice' = twice \cup {p}
          /\ strayed' = IF task[t].at # "found" THEN strayed \cup {p} ELSE strayed
        BY <1>1, <1>5 DEF TaskFails, Ends
    <2>2. \A q \in Polls : status'[q] = status[q]
        BY <1>1, <1>5 DEF TaskFails, TypeOK
    <2>3. \A u \in Tasks, q \in Polls : /\ Ends(u, q)' <=> Ends(u, q) /\ u # t
                                        /\ Creates(u, q)' <=> Creates(u, q)
        BY <1>3, <1>5, IdleTask DEF Ends, Creates
    <2>4. \A q \in Polls : (Ending(q)' => Ending(q)) /\ (q # p => (Ending(q)' <=> Ending(q)))
        BY <1>2, <1>3, <2>1, <2>3 DEF Ending, Ends
    <2>8. \A q \in Polls : HeldByTask(q) => HeldByTask(q)' \/ (q = p /\ task[t].at # "found")
        BY <1>3, <2>1, <2>3 DEF HeldByTask, Ends
    <2>5. Orderly' /\ Timed' /\ TimerKept'
        BY <1>2, <2>1, <2>2, <2>3, <2>4, <2>8, NoCreate DEF WillEnd
    <2>6. Single'
        BY <1>2, <1>3, <2>1, <2>2, <2>3, <2>4 DEF Single, Ends
    <2>7. Closed' /\ ResultComplete'
        BY <1>2, <1>3, <2>3 DEF Closed, ResultComplete
    <2>. QED
        BY <1>4, <2>5, <2>6, <2>7
<1>6. CASE task[t].kind # "end"
    <2>1. UNCHANGED <<strayed, twice>>
        BY <1>6 DEF TaskFails
    <2>2. \A q \in Polls : status'[q] = IF Creates(t, q) THEN "void" ELSE status[q]
        BY <1>1 DEF TaskFails, Creates, TypeOK
    <2>3. \A q \in Polls : Creates(t, q) => /\ status[q] = "absent"
                                            /\ \A u \in Tasks \ {t} : ~Creates(u, q)
        BY DEF Orderly
    <2>4. /\ Single' /\ Closed' /\ ResultComplete'
          /\ \A q \in Polls : /\ Ending(q)' <=> Ending(q)
                              /\ Ending(q)' => status'[q] \in {"active", "ended"}
                              /\ HeldByTask(q)' <=> HeldByTask(q)
        BY <1>2, <1>3, <1>6, <2>1, <2>2, <2>3, IdleTask, NoEnd
    <2>5. \A u \in Tasks, q \in Polls : Creates(u, q)' <=> Creates(u, q) /\ u # t
        BY <1>3, IdleTask DEF Creates
    <2>6. \A q \in Polls : Creating(q)' <=> \E u \in Tasks \ {t} : Creates(u, q)
        BY <2>5 DEF Creating, Creates
    <2>7. \A q \in Polls : Creating(q) <=> \E u \in Tasks : Creates(u, q)
        BY DEF Creating, Creates
    <2>8. Orderly'
        BY <2>2, <2>3, <2>4, <2>5 DEF Orderly
    <2>9. Timed' /\ TimerKept'
        BY <1>2, <2>1, <2>2, <2>3, <2>4, <2>6, <2>7
           DEF Timed, TimerKept, WillEnd, TypeOK
    <2>. QED
        BY <1>4, <2>4, <2>8, <2>9
<1>. QED
    BY <1>5, <1>6

----------------------------------------------------------------------------
(* The timer.                                                              *)

\* A step of the job of a poll: the tasks stay as they are.
LEMMA JobMoves ==
    ASSUME IInv, UNCHANGED task, NEW p \in Polls,
           \A q \in Polls \ {p} : runner'[q] = runner[q]
    PROVE  /\ \A u \in Tasks, q \in Polls : /\ Ends(u, q)' <=> Ends(u, q)
                                            /\ Creates(u, q)' <=> Creates(u, q)
           /\ \A q \in Polls \ {p} : Ending(q)' <=> Ending(q)
           /\ Ending(p)' <=> runner'[p] # "idle" \/ \E u \in Tasks : Ends(u, p)
           /\ Ending(p) <=> runner[p] # "idle" \/ \E u \in Tasks : Ends(u, p)
           /\ \A q \in Polls : HeldByTask(q)' <=> HeldByTask(q)
           /\ Shape'
BY DEF IInv, Ends, Creates, Ending, HeldByTask, Shape

LEMMA FireSafe == ASSUME IInv, NEW p \in Polls, Fire(p) PROVE IInv'
<1> USE DEF IInv
<1>1. /\ p \in timer /\ timer' = timer \ {p}
      /\ UNCHANGED <<status, timed, votes, task, results, closing>>
    BY DEF Fire
<1>2. /\ status[p] = "active" => runner' = [runner EXCEPT ![p] = "open"] /\ Overlaps(p)
      /\ status[p] = "active" => strayed' = strayed
      /\ status[p] # "active" => strayed' = strayed \cup {p} /\ UNCHANGED <<runner, twice>>
    BY DEF Fire
<1>3. /\ \A q \in Polls \ {p} : runner'[q] = runner[q]
      /\ runner'[p] = IF status[p] = "active" THEN "open" ELSE runner[p]
    BY <1>2 DEF TypeOK
<1>4. /\ \A u \in Tasks, q \in Polls : /\ Ends(u, q)' <=> Ends(u, q)
                                       /\ Creates(u, q)' <=> Creates(u, q)
      /\ \A q \in Polls \ {p} : Ending(q)' <=> Ending(q)
      /\ Ending(p)' <=> runner'[p] # "idle" \/ \E u \in Tasks : Ends(u, p)
      /\ Ending(p) <=> runner[p] # "idle" \/ \E u \in Tasks : Ends(u, p)
      /\ \A q \in Polls : HeldByTask(q)' <=> HeldByTask(q)
      /\ Shape'
    BY <1>1, <1>3, JobMoves
<1>5. /\ twice \subseteq twice' /\ twice' \subseteq twice \cup {p}
      /\ status[p] = "active" /\ Ending(p) => p \in twice'
    BY <1>2 DEF Overlaps
<1>6. Orderly' /\ Timed' /\ TimerKept'
    BY <1>1, <1>2, <1>3, <1>4, NoCreate DEF WillEnd
<1>7. Single'
    <2> SUFFICES ASSUME NEW q \in Polls \ twice'
                 PROVE  /\ \A u \in Tasks : Ends(u, q)' =>
                             runner'[q] = "idle" /\ \A v \in Tasks \ {u} : ~Ends(v, q)'
                        /\ Len(results'[q]) <= 1
                        /\ results'[q] = <<>> \/
                             /\ \A u \in Tasks : Ends(u, q)' => task'[u].at = "answered"
                             /\ runner'[q] \notin {"open", "marked"}
                             /\ status'[q] \notin {"absent", "active"} \/ Ending(q)'
        BY DEF Single
    <2>1. q \notin twice
        BY <1>5
    <2>2. CASE q = p /\ status[p] = "active"
        BY <1>1, <1>3, <1>4, <1>5, <2>1, <2>2 DEF Single
    <2>3. CASE q # p \/ status[p] # "active"
        <3>1. runner'[q] = runner[q] /\ (Ending(q)' <=> Ending(q))
            BY <1>3, <1>4, <2>3
        <3>. QED
            BY <1>1, <1>4, <2>1, <3>1 DEF Single
    <2>. QED
        BY <2>2, <2>3
<1>8. Closed' /\ ResultComplete'
    BY <1>1, <1>3, <1>4 DEF Closed, ResultComplete
<1>9. TypeOK'
    BY TypeStep DEF Next, JobStep
<1>. QED
    BY <1>4, <1>6, <1>7, <1>8, <1>9

LEMMA MissedSafe == ASSUME IInv, NEW p \in Polls, Missed(p) PROVE IInv'
<1> USE DEF IInv
<1>1. /\ timer' = timer \ {p} /\ strayed' = strayed \cup {p}
      /\ UNCHANGED <<status, timed, votes, task, runner, results, closing, twice>>
    BY DEF Missed
<1>2. /\ \A u \in Tasks, q \in Polls : /\ Ends(u, q)' <=> Ends(u, q)
                                       /\ Creates(u, q)' <=> Creates(u, q)
      /\ \A q \in Polls : Ending(q)' <=> Ending(q)
      /\ \A q \in Polls : HeldByTask(q)' <=> HeldByTask(q)
      /\ Shape'
    BY <1>1 DEF Ends, Creates, Ending, HeldByTask, Shape
<1>3. Orderly' /\ Timed' /\ TimerKept'
    BY <1>1, <1>2, NoCreate DEF WillEnd
<1>4. Single' /\ Closed' /\ ResultComplete'
    BY <1>1, <1>2 DEF Single, Closed, ResultComplete
<1>5. TypeOK'
    BY TypeStep DEF Next
<1>. QED
    BY <1>2, <1>3, <1>4, <1>5

LEMMA JobMarksSafe == ASSUME IInv, NEW p \in Polls, JobMarks(p) PROVE IInv'
<1> USE DEF IInv
<1>1. /\ runner[p] = "open" /\ runner' = [runner EXCEPT ![p] = "marked"] /\ Marks(p)
      /\ UNCHANGED <<status, timed, votes, task, timer, results, strayed, twice>>
    BY DEF JobMarks
<1>2. runner'[p] = "marked" /\ \A q \in Polls \ {p} : runner'[q] = runner[q]
    BY <1>1 DEF TypeOK
<1>3. /\ \A u \in Tasks, q \in Polls : /\ Ends(u, q)' <=> Ends(u, q)
                                       /\ Creates(u, q)' <=> Creates(u, q)
      /\ \A q \in Polls : Ending(q)' <=> Ending(q)
      /\ \A q \in Polls : HeldByTask(q)' <=> HeldByTask(q)
      /\ Shape'
    BY <1>1, <1>2, JobMoves
<1>4. /\ closing'[p] # None
      /\ \A q \in Polls : closing[q] # None => closing'[q] # None
      /\ \A q \in Polls, m \in Members :
            closing'[q] # None /\ closing'[q][m] # None => votes'[q][m] # None
      /\ ResultComplete'
    BY <1>1, Marked
<1>5. Orderly' /\ Timed' /\ TimerKept'
    BY <1>1, <1>3, NoCreate DEF WillEnd
<1>6. Single'
    BY <1>1, <1>2, <1>3 DEF Single
<1>7. Closed'
    BY <1>1, <1>2, <1>3, <1>4 DEF Closed
<1>8. TypeOK'
    BY TypeStep DEF Next, JobStep
<1>. QED
    BY <1>3, <1>4, <1>5, <1>6, <1>7, <1>8

LEMMA JobPushesSafe == ASSUME IInv, NEW p \in Polls, JobPushes(p) PROVE IInv'
<1> USE DEF IInv
<1>1. /\ runner[p] = "marked" /\ runner' = [runner EXCEPT ![p] = "pushed"]
      /\ GroupReceives(p) \/ UNCHANGED results
      /\ UNCHANGED <<status, timed, votes, task, timer, closing, strayed, twice>>
    BY DEF JobPushes
<1>2. runner'[p] = "pushed" /\ \A q \in Polls \ {p} : runner'[q] = runner[q]
    BY <1>1 DEF TypeOK
<1>3. /\ \A u \in Tasks, q \in Polls : /\ Ends(u, q)' <=> Ends(u, q)
                                       /\ Creates(u, q)' <=> Creates(u, q)
      /\ \A q \in Polls : Ending(q)' <=> Ending(q)
      /\ Ending(p)
      /\ \A q \in Polls : HeldByTask(q)' <=> HeldByTask(q)
      /\ Shape'
    BY <1>1, <1>2, JobMoves
<1>4. closing[p] # None
    BY <1>1 DEF Closed
<1>5. /\ \A q \in Polls \ {p} : results'[q] = results[q]
      /\ results[p] = <<>> => Len(results'[p]) <= 1
    BY <1>1, Received
<1>6. Orderly' /\ Timed' /\ TimerKept'
    BY <1>1, <1>3, NoCreate DEF WillEnd
<1>7. Single'
    <2> SUFFICES ASSUME NEW q \in Polls \ twice
                 PROVE  /\ \A u \in Tasks : Ends(u, q)' =>
                             runner'[q] = "idle" /\ \A v \in Tasks \ {u} : ~Ends(v, q)'
                        /\ Len(results'[q]) <= 1
                        /\ results'[q] = <<>> \/
                             /\ \A u \in Tasks : Ends(u, q)' => task'[u].at = "answered"
                             /\ runner'[q] \notin {"open", "marked"}
                             /\ status'[q] \notin {"absent", "active"} \/ Ending(q)'
        BY <1>1 DEF Single
    <2>1. CASE q = p
        <3>1. results[p] = <<>> /\ \A u \in Tasks : ~Ends(u, p)
            BY <1>1, <2>1 DEF Single
        <3>2. Len(results'[p]) <= 1
            BY <1>5, <3>1
        <3>. QED
            BY <1>2, <1>3, <2>1, <3>1, <3>2
    <2>2. CASE q # p
        BY <1>1, <1>2, <1>3, <1>5, <2>2 DEF Single
    <2>. QED
        BY <2>1, <2>2
<1>8. ResultComplete'
    <2>1. CASE GroupReceives(p)
        BY <1>1, <1>4, <2>1, Pushed
    <2>2. CASE UNCHANGED results
        BY <1>1, <2>2 DEF ResultComplete
    <2>. QED
        BY <1>1, <2>1, <2>2
<1>9. Closed'
    BY <1>1, <1>2, <1>3, <1>4, <1>5 DEF Closed
<1>10. TypeOK'
    BY TypeStep DEF Next, JobStep
<1>. QED
    BY <1>3, <1>6, <1>7, <1>8, <1>9, <1>10

\* The job ends, with its commit or without.
LEMMA JobEndsSafe ==
    ASSUME IInv, NEW p \in Polls, JobCommits(p) \/ JobRaises(p) PROVE IInv'
<1> USE DEF IInv
<1>1. /\ runner[p] # "idle" /\ runner' = [runner EXCEPT ![p] = "idle"]
      /\ UNCHANGED <<timed, votes, task, timer, results, closing>>
    BY DEF JobCommits, JobRaises, history
<1>2. runner'[p] = "idle" /\ \A q \in Polls \ {p} : runner'[q] = runner[q]
    BY <1>1 DEF TypeOK
<1>3. /\ \A u \in Tasks, q \in Polls : /\ Ends(u, q)' <=> Ends(u, q)
                                       /\ Creates(u, q)' <=> Creates(u, q)
      /\ \A q \in Polls \ {p} : Ending(q)' <=> Ending(q)
      /\ Ending(p)
      /\ \A q \in Polls : HeldByTask(q)' <=> HeldByTask(q)
      /\ Shape'
    BY <1>1, <1>2, JobMoves
<1>4. \/ /\ status'[p] = "ended" /\ \A q \in Polls \ {p} : status'[q] = status[q]
         /\ UNCHANGED <<strayed, twice>>
      \/ UNCHANGED status /\ strayed' = strayed \cup {p} /\ twice' = twice \cup {p}
    BY DEF JobCommits, JobRaises, history, TypeOK
<1>5. Orderly' /\ Timed' /\ TimerKept'
    BY <1>1, <1>3, <1>4, NoCreate DEF Orderly, TypeOK, WillEnd
<1>6. Single'
    BY <1>1, <1>2, <1>3, <1>4 DEF Single
<1>7. Closed' /\ ResultComplete'
    BY <1>1, <1>2, <1>3 DEF Closed, ResultComplete
<1>8. TypeOK'
    BY TypeStep DEF Next, JobStep
<1>. QED
    BY <1>3, <1>5, <1>6, <1>7, <1>8

----------------------------------------------------------------------------
\* A restart undoes what was under way, and loses every timer in the memory.
LEMMA CrashSafe == ASSUME IInv, Crash PROVE IInv'
<1> USE DEF IInv
<1>1. /\ \A t \in Tasks : task'[t] = Idle
      /\ \A p \in Polls : runner'[p] = "idle"
      /\ \A p \in Polls : status'[p] = IF Creating(p) THEN "void" ELSE status[p]
      /\ timer' = {}
      /\ strayed' = strayed \cup {p \in timed : WillEnd(p)}
      /\ twice' = twice \cup {p \in Polls : Ending(p)}
      /\ UNCHANGED <<timed, votes, results, closing>>
    BY DEF Crash
<1>2. \A t \in Tasks, p \in Polls : ~Creates(t, p)' /\ ~Ends(t, p)'
    BY <1>1, IdleTask DEF Creates, Ends
<1>3. \A p \in Polls : ~Ending(p)'
    BY <1>1, <1>2 DEF Ending, Ends
<1>4. timed \subseteq Polls
    BY DEF TypeOK
<1>5. Shape' /\ Orderly' /\ Timed'
    BY <1>1, <1>2, <1>3, <1>4 DEF Shape, Orderly, Timed, Creating, Creates
<1>9. TimerKept'
    BY <1>1, <1>4 DEF TimerKept
<1>6. Single'
    BY <1>1, <1>2, <1>3 DEF Single
<1>7. Closed' /\ ResultComplete'
    BY <1>1, <1>2 DEF Closed, ResultComplete
<1>8. TypeOK'
    BY TypeStep DEF Next
<1>. QED
    BY <1>5, <1>6, <1>7, <1>8, <1>9

LEMMA NextSafe == IInv /\ [Next]_vars => IInv'
<1> SUFFICES ASSUME IInv, [Next]_vars PROVE IInv'
    OBVIOUS
<1>1. CASE UNCHANGED vars
    BY <1>1 DEF vars, timers, history, IInv, TypeOK, Shape, Orderly, Timed, TimerKept, Single,
                Closed, ResultComplete, Creates, Ends, Creating, Ending, HeldByTask, WillEnd
<1>2. ASSUME NEW t \in Tasks, Request(t) \/ TaskStep(t) \/ TaskFails(t) PROVE IInv'
    BY <1>2, CreateSafe, CreateCommitsSafe, VoteSafe, EndFindsSafe, EndMarksSafe, EndPushesSafe,
       EndCommitsSafe, TaskFailsSafe DEF Request, TaskStep
<1>3. ASSUME NEW p \in Polls, JobStep(p) \/ Missed(p) \/ JobRaises(p) PROVE IInv'
    BY <1>3, FireSafe, MissedSafe, JobMarksSafe, JobPushesSafe, JobEndsSafe DEF JobStep
<1>. QED
    BY <1>1, <1>2, <1>3, CrashSafe DEF Next

LEMMA IInvHolds == Spec => []IInv
BY InitHolds, NextSafe, PTL DEF Spec

----------------------------------------------------------------------------
\* The result of a poll comes once, unless two transactions had both read that it is
\* open, or one that ended it came to nothing (end_poll_node, _push_poll_result).
THEOREM ResultOnceHolds == Spec => []ResultOnce
<1>1. IInv => ResultOnce
    BY DEF IInv, Single, ResultOnce
<1>. QED
    BY <1>1, IInvHolds, PTL

\* However votes, ends and timers interleave, a result counts every vote that was
\* committed when the poll was marked ended (_count_votes).
THEOREM ResultCompleteHolds == Spec => []ResultComplete
<1>1. IInv => ResultComplete
    BY DEF IInv
<1>. QED
    BY <1>1, IInvHolds, PTL

\* An open poll with an end time has its timer or is being ended, unless the timer
\* came to nothing in a known way (schedule_poll_end, cancel_poll_end).
THEOREM TimerKeptHolds == Spec => []TimerKept
<1>1. IInv => TimerKept
    BY DEF IInv
<1>. QED
    BY <1>1, IInvHolds, PTL
=============================================================================
