---------------------------- MODULE Inbox_proofs ----------------------------
(***************************************************************************)
(* Theorems about the inbox, for any number of messages, posts at a time   *)
(* and faults.                                                             *)
(***************************************************************************)
EXTENDS Inbox, TLAPS

Jobs == {"none", "queued", "checking", "creating", "sending", "replying", "handled",
         "failing", "done"}

Recorded(r, m) == request[r] = [at |-> "recorded", msg |-> m]
Inserted(r, m) == request[r] = [at |-> "inserted", msg |-> m]

\* A post under way is one of a message.
Posted == \A r \in Requests : request[r].at # "idle" => request[r].msg \in Messages

\* A message that is being recorded has no row until the commit, and no background
\* task until the answer.
Recording == \A r \in Requests, m \in Messages :
    /\ Inserted(r, m) => row[m] = "none"
    /\ Recorded(r, m) => row[m] # "none" /\ job[m] = "none"

\* One post of a message at most gets that far.
Alone == \A r, q \in Requests, m \in Messages : r # q =>
    /\ ~(Inserted(r, m) /\ Inserted(q, m))
    /\ ~(Recorded(r, m) /\ Recorded(q, m))

\* A background task has a row, and handling began when it was no longer queued.
Counted == \A m \in Messages :
    /\ row[m] = "none" => job[m] = "none"
    /\ job[m] \in {"none", "queued"} => handled[m] = 0
    /\ handled[m] \in {0, 1}

\* A row is settled or lost, or something is left to be done for it.
Kept == \A m \in Messages : row[m] # "none" =>
    \/ Settled(m) \/ m \in lost \/ job[m] \notin {"none", "done"}
    \/ \E r \in Requests : Recorded(r, m)

\* Who is about to create a task found no other, or will not be alone in raced.
Races == \A m, n \in Messages : m # n /\ job[m] = "creating" =>
    /\ research[n] = "active" => {m, n} \cap (raced \cup reopened) # {}
    /\ job[n] = "creating" => {m, n} \cap (raced \cup reopened) # {}

IInv ==
    /\ TypeOK /\ Posted
    /\ Recording /\ Alone /\ Counted
    /\ \A m \in acked : row[m] # "none"
    /\ Kept
    /\ Races /\ OneActiveTask

----------------------------------------------------------------------------
LEMMA InitHolds == Init => IInv
<1> SUFFICES ASSUME Init PROVE IInv
    OBVIOUS
<1>1. TypeOK
    BY BoundsAssumption, MixesAssumption DEF Init, TypeOK, NoRequest
<1>2. \A r \in Requests, m \in Messages : ~Inserted(r, m) /\ ~Recorded(r, m)
    BY DEF Init, NoRequest, Inserted, Recorded
<1>. QED
    BY <1>1, <1>2 DEF Init, NoRequest, IInv, Posted, Recording, Alone, Counted, Kept, Races, OneActiveTask

LEMMA TypeStep == TypeOK /\ Posted /\ [Next]_vars => TypeOK'
<1> SUFFICES ASSUME TypeOK, Posted, [Next]_vars PROVE TypeOK'
    OBVIOUS
<1> USE DEF TypeOK
<1>1. CASE UNCHANGED vars
    BY <1>1 DEF vars, history
<1>2. CASE Crash
    BY <1>2 DEF Crash, Fault, NoRequest
<1>3. ASSUME NEW r \in Requests, RequestStep(r) \/ RequestFails(r) PROVE TypeOK'
    <2>1. NoRequest \in [at : {"idle", "new", "inserted", "recorded"},
                         msg : Messages \cup {None}]
        BY DEF NoRequest
    <2>2. request[r].at # "idle" => request[r].msg \in Messages
        BY DEF Posted
    <2>3. CASE Insert(r)
        BY <2>1, <2>3 DEF Insert, Answered, history
    <2>4. CASE CommitRow(r)
        BY <2>2, <2>4 DEF CommitRow, history
    <2>5. CASE Respond(r)
        BY <2>1, <2>2, <2>5 DEF Respond, Answered, Fault
    <2>6. CASE RequestFails(r)
        BY <2>1, <2>6 DEF RequestFails, Answered, Fault, history
    <2>. QED
        BY <1>3, <2>3, <2>4, <2>5, <2>6 DEF RequestStep
<1>4. ASSUME NEW r \in Requests, NEW m \in Messages, Post(r, m) PROVE TypeOK'
    BY <1>4 DEF Post
<1>5. ASSUME NEW m \in Messages,
             JobStep(m) \/ JobFails(m) \/ ResearchEnds(m) \/ Reopens(m)
      PROVE  TypeOK'
    <2>1. CASE Begin(m)
        BY <2>1 DEF Begin, Goes, Kinds
    <2>2. CASE Check(m)
        BY <2>2 DEF Check, Goes, Checked
    <2>3. CASE Create(m) \/ Send(m) \/ Reply(m)
        BY <2>3 DEF Create, Send, Reply, Goes, Fault, history
    <2>4. CASE Finish(m) \/ MarkFailed(m) \/ JobFails(m) \/ ResearchEnds(m) \/ Reopens(m)
        BY <2>4 DEF Finish, MarkFailed, JobFails, ResearchEnds, Reopens, Goes, Fault, history
    <2>. QED
        BY <1>5, <2>1, <2>2, <2>3, <2>4 DEF JobStep
<1>. QED
    BY <1>1, <1>2, <1>3, <1>4, <1>5 DEF Next

----------------------------------------------------------------------------
\* What a post that was recorded, answered or given up leaves behind.
LEMMA RequestSafe ==
    ASSUME IInv, NEW r \in Requests, RequestStep(r) \/ RequestFails(r)
    PROVE  IInv'
<1> USE DEF IInv
<1>1. PICK m \in Messages : m = request[r].msg
    BY DEF RequestStep, Insert, CommitRow, Respond, RequestFails, Posted
<1> USE <1>1
<1>2. request \in [Requests -> [at : {"idle", "new", "inserted", "recorded"},
                               msg : Messages \cup {None}]]
    BY DEF TypeOK
<1>3. TypeOK'
    BY TypeStep DEF Next
<1>4. NoRequest.at = "idle" /\ \A n \in Messages : NoRequest # [at |-> "recorded", msg |-> n]
                                           /\ NoRequest # [at |-> "inserted", msg |-> n]
    BY DEF NoRequest
<1>5. \A q \in Requests \ {r} : request'[q] = request[q]
    BY <1>2 DEF RequestStep, Insert, CommitRow, Respond, RequestFails, Answered
<1>6. UNCHANGED <<research, raced, reopened>> /\ (job' = job \/ Respond(r))
    BY DEF RequestStep, Insert, CommitRow, Respond, RequestFails, history
<1>7. CASE Insert(r) \/ RequestFails(r)
    <2>1. UNCHANGED <<row, job, history>>
        BY <1>7 DEF Insert, RequestFails
    <2>2. \/ request'[r] = NoRequest
          \/ /\ request'[r] = [at |-> "inserted", msg |-> m]
             /\ row[m] = "none" /\ \A q \in Requests : ~Inserted(q, m)
        <3>1. CASE Insert(r)
            BY <1>2, <3>1 DEF Insert, Answered, Inserting, Inserted
        <3>2. CASE RequestFails(r)
            BY <1>2, <3>2 DEF RequestFails, Answered
        <3>. QED
            BY <1>7, <3>1, <3>2
    <2>3. request[r].at \in {"new", "inserted"}
        BY <1>7 DEF Insert, RequestFails
    <2>4. \A n \in Messages : ~Recorded(r, n) /\ ~Recorded(r, n)'
        BY <2>2, <2>3, <1>4 DEF Recorded
    <2>5. Posted' /\ Recording' /\ Alone'
        BY <1>1, <1>4, <1>5, <2>1, <2>2, <2>4
        DEF history, Posted, Recording, Alone, Inserted, Recorded
    <2>6. Kept'
        <3>1. ASSUME NEW n \in Messages, NEW q \in Requests, Recorded(q, n)
              PROVE  Recorded(q, n)'
            BY <1>5, <2>4, <3>1 DEF Recorded
        <3>. QED
            BY <2>1, <3>1 DEF history, Kept, Settled
    <2>7. Counted' /\ (\A n \in acked' : row'[n] # "none") /\ Races' /\ OneActiveTask'
        BY <2>1, <1>6 DEF history, Counted, Races, OneActiveTask
    <2>. QED
        BY <1>3, <2>5, <2>6, <2>7
<1>8. CASE CommitRow(r)
    <2>1. /\ request'[r] = [at |-> "recorded", msg |-> m] /\ Inserted(r, m)
          /\ row' = [row EXCEPT ![m] = "pending"]
          /\ UNCHANGED <<job, history>>
        BY <1>2, <1>8 DEF CommitRow, Inserted
    <2>2. row[m] = "none" /\ job[m] = "none"
        BY <1>1, <2>1 DEF Recording, Counted
    <2>3. row'[m] = "pending" /\ \A n \in Messages \ {m} : row'[n] = row[n]
        BY <1>1, <2>1 DEF TypeOK
    <2>4. Posted' /\ Recording' /\ Alone'
        <3>1. Posted'
            BY <1>5, <2>1 DEF Posted
        <3>2. Recording'
            <4> SUFFICES ASSUME NEW q \in Requests, NEW n \in Messages
                         PROVE  /\ Inserted(q, n)' => row'[n] = "none"
                                /\ Recorded(q, n)' => row'[n] # "none" /\ job'[n] = "none"
                BY DEF Recording
            <4>1. CASE q = r
                BY <2>1, <2>2, <2>3, <4>1 DEF Inserted, Recorded
            <4>2. CASE q # r
                <5>1. (Inserted(q, n)' <=> Inserted(q, n)) /\ (Recorded(q, n)' <=> Recorded(q, n))
                    BY <1>5, <4>2 DEF Inserted, Recorded
                <5>2. n = m => ~Inserted(q, n) /\ ~Recorded(q, n)
                    BY <2>1, <2>2, <4>2 DEF Alone, Recording
                <5>. QED
                    BY <2>1, <2>3, <5>1, <5>2 DEF Recording
            <4>. QED
                BY <4>1, <4>2
        <3>3. Alone'
            BY <1>5, <2>1, <2>2 DEF Alone, Recording, Inserted, Recorded
        <3>. QED
            BY <3>1, <3>2, <3>3
    <2>5. Kept'
        <3>1. Recorded(r, m)'
            BY <2>1 DEF Recorded
        <3>2. ASSUME NEW n \in Messages \ {m}, NEW q \in Requests, Recorded(q, n)
              PROVE  Recorded(q, n)'
            BY <1>5, <2>1, <3>2 DEF Recorded, Inserted
        <3>3. ASSUME NEW n \in Messages \ {m}, row'[n] # "none"
              PROVE  \/ Settled(n)' \/ n \in lost' \/ job'[n] \notin {"none", "done"}
                     \/ \E q \in Requests : Recorded(q, n)'
            BY <2>1, <2>3, <3>2, <3>3 DEF history, Kept, Settled
        <3>. QED
            BY <3>1, <3>3 DEF Kept
    <2>6. Counted' /\ (\A n \in acked' : row'[n] # "none")
        BY <1>1, <2>1, <2>2, <2>3 DEF history, Counted, TypeOK
    <2>7. Races' /\ OneActiveTask'
        BY <2>1, <1>6 DEF history, Races, OneActiveTask
    <2>. QED
        BY <1>3, <2>4, <2>5, <2>6, <2>7
<1>9. CASE Respond(r)
    <2>1. /\ request'[r] = NoRequest /\ Recorded(r, m)
          /\ job' = [job EXCEPT ![m] = "queued"]
          /\ acked' \in {acked, acked \cup {m}}
          /\ UNCHANGED <<row, handled, lost, raced, reopened>>
        BY <1>2, <1>9 DEF Respond, Answered, Recorded
    <2>2. row[m] # "none" /\ job[m] = "none"
        BY <1>1, <2>1 DEF Recording
    <2>3. job'[m] = "queued" /\ \A n \in Messages \ {m} : job'[n] = job[n]
        BY <1>1, <2>1 DEF TypeOK
    <2>4. Posted' /\ Recording' /\ Alone'
        <3>1. Posted'
            BY <1>4, <1>5, <2>1 DEF Posted
        <3>2. Recording'
            <4> SUFFICES ASSUME NEW q \in Requests, NEW n \in Messages
                         PROVE  /\ Inserted(q, n)' => row'[n] = "none"
                                /\ Recorded(q, n)' => row'[n] # "none" /\ job'[n] = "none"
                BY DEF Recording
            <4>1. CASE q = r
                BY <1>4, <2>1, <4>1 DEF Inserted, Recorded
            <4>2. CASE q # r
                <5>1. (Inserted(q, n)' <=> Inserted(q, n)) /\ (Recorded(q, n)' <=> Recorded(q, n))
                    BY <1>5, <4>2 DEF Inserted, Recorded
                <5>2. n = m => ~Recorded(q, n)
                    BY <2>1, <4>2 DEF Alone
                <5>. QED
                    BY <2>1, <2>3, <5>1, <5>2 DEF Recording
            <4>. QED
                BY <4>1, <4>2
        <3>3. Alone'
            BY <1>4, <1>5, <2>1 DEF Alone, Inserted, Recorded
        <3>. QED
            BY <3>1, <3>2, <3>3
    <2>5. Kept'
        <3>1. ASSUME NEW n \in Messages \ {m}, NEW q \in Requests, Recorded(q, n)
              PROVE  Recorded(q, n)'
            BY <1>5, <2>1, <3>1 DEF Recorded
        <3>2. ASSUME NEW n \in Messages \ {m}, row'[n] # "none"
              PROVE  \/ Settled(n)' \/ n \in lost' \/ job'[n] \notin {"none", "done"}
                     \/ \E q \in Requests : Recorded(q, n)'
            BY <2>1, <2>3, <3>1, <3>2 DEF Kept, Settled
        <3>. QED
            BY <2>3, <3>2 DEF Kept
    <2>6. Counted' /\ (\A n \in acked' : row'[n] # "none")
        BY <1>1, <2>1, <2>2, <2>3 DEF Counted
    <2>7. Races' /\ OneActiveTask'
        BY <1>6, <2>1, <2>3 DEF Races, OneActiveTask
    <2>. QED
        BY <1>3, <2>4, <2>5, <2>6, <2>7
<1>. QED
    BY <1>7, <1>8, <1>9 DEF RequestStep

\* A post that begins is of a message without a row, or ends at once.
LEMMA PostSafe ==
    ASSUME IInv, NEW r \in Requests, NEW m \in Messages, Post(r, m)
    PROVE  IInv'
<1> USE DEF IInv
<1>1. TypeOK'
    BY TypeStep DEF Next
<1>2. UNCHANGED <<row, job, research, handled, lost, raced, reopened>> /\ request[r] = NoRequest
    BY DEF Post
<1>3. /\ \A q \in Requests \ {r} : request'[q] = request[q]
      /\ request'[r] \in {NoRequest, [at |-> "new", msg |-> m]}
    BY DEF Post, TypeOK
<1>4. \A q \in Requests, n \in Messages :
          (Inserted(q, n)' <=> Inserted(q, n)) /\ (Recorded(q, n)' <=> Recorded(q, n))
    BY <1>2, <1>3 DEF Inserted, Recorded, NoRequest
<1>5. \A n \in acked' : row'[n] # "none"
    BY <1>2 DEF Post
<1>6. Posted'
    BY <1>3 DEF Posted, NoRequest
<1>7. Recording' /\ Alone' /\ Counted' /\ Kept'
    BY <1>2, <1>4 DEF Recording, Alone, Counted, Kept, Settled
<1>8. Races' /\ OneActiveTask'
    BY <1>2 DEF Races, OneActiveTask
<1>. QED
    BY <1>1, <1>5, <1>6, <1>7, <1>8

----------------------------------------------------------------------------
\* A step of a background task, or the end of a research task, touches one message.
LEMMA OneMessage ==
    ASSUME TypeOK, NEW m \in Messages, JobStep(m) \/ JobFails(m) \/ ResearchEnds(m) \/ Reopens(m)
    PROVE  /\ UNCHANGED <<request, acked>>
           /\ \A n \in Messages \ {m} :
                 /\ job'[n] = job[n] /\ row'[n] = row[n] /\ research'[n] = research[n]
                 /\ handled'[n] = handled[n]
           /\ raced \subseteq raced' /\ reopened \subseteq reopened' /\ lost \subseteq lost'
<1> USE DEF TypeOK, Goes, history
<1>1. CASE Begin(m) \/ Check(m)
    BY <1>1 DEF Begin, Check
<1>2. CASE Create(m) \/ Send(m) \/ Reply(m)
    BY <1>2 DEF Create, Send, Reply
<1>3. CASE Finish(m) \/ MarkFailed(m) \/ JobFails(m) \/ ResearchEnds(m) \/ Reopens(m)
    BY <1>3 DEF Finish, MarkFailed, JobFails, ResearchEnds, Reopens
<1>. QED
    BY <1>1, <1>2, <1>3 DEF JobStep

\* A task that handles a message goes on, or ends with a row that says how.
LEMMA JobGoes ==
    ASSUME IInv, NEW m \in Messages, JobStep(m) \/ JobFails(m)
    PROVE  /\ job[m] \notin {"none", "done"} /\ row[m] # "none" /\ row'[m] # "none"
           /\ job'[m] \notin {"none", "queued"}
           /\ job'[m] = "done" => Settled(m)' \/ m \in lost'
           /\ IF job[m] = "queued" THEN handled'[m] = handled[m] + 1
              ELSE handled'[m] = handled[m]
<1> USE DEF IInv, TypeOK, Goes, history
<1>1. CASE Begin(m)
    BY <1>1 DEF Begin, Counted, Kinds
<1>2. CASE Check(m) \/ Create(m) \/ Send(m) \/ Reply(m)
    BY <1>2 DEF Check, Create, Send, Reply, Counted
<1>3. CASE Finish(m) \/ MarkFailed(m) \/ JobFails(m)
    BY <1>3 DEF Finish, MarkFailed, JobFails, Counted, Settled
<1>. QED
    BY <1>1, <1>2, <1>3 DEF JobStep

\* Tasks are created by those that asked, and asking puts them in raced.
LEMMA RacesStep ==
    ASSUME IInv, NEW m \in Messages, JobStep(m) \/ JobFails(m) \/ ResearchEnds(m) \/ Reopens(m)
    PROVE  Races' /\ OneActiveTask'
<1> USE DEF IInv
<1>1. /\ \A n \in Messages \ {m} : job'[n] = job[n] /\ research'[n] = research[n]
      /\ raced \subseteq raced' /\ reopened \subseteq reopened'
    BY OneMessage
<1>2. CASE Check(m)
    <2>1. research' = research /\ job'[m] \in {"creating", "replying", "failing"}
        BY <1>2 DEF Check, Goes, TypeOK
    <2>2. job'[m] = "creating" => ActiveTasks = {}
        BY <1>2 DEF Check, Goes, TypeOK
    <2>3. \A n \in Messages \ {m} : job[n] = "creating" => m \in raced'
        BY <1>2 DEF Check, Checked
    <2>4. Races'
        BY <1>1, <2>1, <2>2, <2>3 DEF Races, ActiveTasks
    <2>. QED
        BY <1>1, <2>1, <2>4 DEF OneActiveTask
<1>3. CASE Create(m)
    <2>1. job[m] = "creating" /\ job'[m] = "sending"
        BY <1>3 DEF Create, Goes, TypeOK
    <2>2. Races'
        BY <1>1, <2>1 DEF Races
    <2>3. OneActiveTask'
        BY <1>1, <2>1 DEF Races, OneActiveTask
    <2>. QED
        BY <2>2, <2>3
<1>5. CASE Reopens(m)
    <2>1. /\ UNCHANGED <<job, raced>>
          /\ (ActiveTasks \cup Checked) \ {m} # {} => m \in reopened'
        BY <1>5 DEF Reopens
    <2>2. \A n \in Messages \ {m} :
             job[n] = "creating" \/ research[n] = "active" => m \in reopened'
        BY <2>1 DEF ActiveTasks, Checked
    <2>3. Races'
        BY <1>1, <2>1, <2>2 DEF Races
    <2>. QED
        BY <1>1, <2>2, <2>3 DEF OneActiveTask
<1>4. CASE ~Check(m) /\ ~Create(m) /\ ~Reopens(m)
    <2>1. /\ research'[m] = "active" => research[m] = "active"
          /\ job'[m] # "creating" \/ UNCHANGED job
        <3> USE DEF TypeOK, Goes, history
        <3>1. CASE Begin(m)
            BY <3>1 DEF Begin, Kinds
        <3>2. CASE Send(m) \/ Reply(m) \/ Finish(m) \/ MarkFailed(m) \/ JobFails(m)
            BY <3>2 DEF Send, Reply, Finish, MarkFailed, JobFails
        <3>3. CASE ResearchEnds(m)
            BY <3>3 DEF ResearchEnds
        <3>. QED
            BY <1>4, <3>1, <3>2, <3>3 DEF JobStep
    <2>2. Races'
        BY <1>1, <2>1 DEF Races
    <2>3. OneActiveTask'
        BY <1>1, <2>1 DEF OneActiveTask
    <2>. QED
        BY <2>2, <2>3
<1>. QED
    BY <1>2, <1>3, <1>4, <1>5

LEMMA JobSafe ==
    ASSUME IInv, NEW m \in Messages, JobStep(m) \/ JobFails(m) \/ ResearchEnds(m) \/ Reopens(m)
    PROVE  IInv'
<1> USE DEF IInv
<1>1. TypeOK'
    BY TypeStep DEF Next
<1>2. Races' /\ OneActiveTask'
    BY RacesStep
<1>3. /\ UNCHANGED <<request, acked>>
      /\ \A n \in Messages \ {m} :
            job'[n] = job[n] /\ row'[n] = row[n] /\ handled'[n] = handled[n]
      /\ lost \subseteq lost'
    BY OneMessage
<1>4. CASE ResearchEnds(m) \/ Reopens(m)
    <2>1. UNCHANGED <<request, row, job, acked, handled, lost>>
        BY <1>4 DEF ResearchEnds, Reopens, history
    <2>. QED
        BY <1>1, <1>2, <2>1 DEF Posted, Recording, Alone, Counted, Kept, Settled,
                                Inserted, Recorded
<1>5. CASE JobStep(m) \/ JobFails(m)
    <2>1. /\ job[m] \notin {"none", "done"} /\ row[m] # "none" /\ row'[m] # "none"
          /\ job'[m] \notin {"none", "queued"}
          /\ job'[m] = "done" => Settled(m)' \/ m \in lost'
          /\ IF job[m] = "queued" THEN handled'[m] = handled[m] + 1
             ELSE handled'[m] = handled[m]
        BY <1>5, JobGoes
    <2>2. \A r \in Requests : ~Inserted(r, m) /\ ~Recorded(r, m)
        BY <2>1 DEF Recording
    <2>3. Posted' /\ Alone' /\ Recording'
        BY <1>3, <2>2 DEF Posted, Alone, Recording, Inserted, Recorded
    <2>4. Counted'
        BY <1>3, <2>1 DEF Counted
    <2>5. Kept'
        BY <1>3, <2>1 DEF Kept, Settled, Recorded
    <2>6. \A n \in acked' : row'[n] # "none"
        BY <1>3, <2>1 DEF TypeOK
    <2>. QED
        BY <1>1, <1>2, <2>3, <2>4, <2>5, <2>6
<1>. QED
    BY <1>4, <1>5

----------------------------------------------------------------------------
\* A restart forgets what was under way, and calls it lost.
LEMMA CrashSafe == ASSUME IInv, Crash PROVE IInv'
<1> USE DEF IInv
<1>1. TypeOK'
    BY TypeStep DEF Next
<1>2. /\ \A r \in Requests : request'[r] = NoRequest
      /\ \A m \in Messages : job'[m] = IF job[m] = "none" THEN "none" ELSE "done"
      /\ \A m \in Messages : row[m] # "none" => Settled(m) \/ m \in lost'
      /\ UNCHANGED <<row, research, acked, handled, raced, reopened>>
    BY DEF Crash
<1>3. \A r \in Requests, m \in Messages : ~Inserted(r, m)' /\ ~Recorded(r, m)'
    BY <1>2 DEF Inserted, Recorded, NoRequest
<1>4. Posted' /\ Recording' /\ Alone'
    BY <1>2, <1>3 DEF Posted, Recording, Alone, NoRequest
<1>5. Counted' /\ (\A m \in acked' : row'[m] # "none")
    BY <1>2 DEF Counted
<1>6. Kept'
    BY <1>2 DEF Kept, Settled
<1>7. Races' /\ OneActiveTask'
    BY <1>2 DEF Races, OneActiveTask
<1>. QED
    BY <1>1, <1>4, <1>5, <1>6, <1>7

LEMMA NextSafe == IInv /\ [Next]_vars => IInv'
<1> SUFFICES ASSUME IInv, [Next]_vars PROVE IInv'
    OBVIOUS
<1>1. CASE UNCHANGED vars
    BY <1>1 DEF vars, history, IInv, TypeOK, Posted, Recording, Alone, Counted, Kept,
                Settled, Races, OneActiveTask, Inserted, Recorded
<1>. QED
    BY <1>1, RequestSafe, PostSafe, JobSafe, CrashSafe DEF Next

LEMMA IInvHolds == Spec => []IInv
BY InitHolds, NextSafe, PTL DEF Spec

----------------------------------------------------------------------------
\* However often and however many at a time a message is posted, it is handled once
\* (record_inbound_message and the unique msgid behind it).
THEOREM HandledOnceHolds == Spec => []HandledOnce
<1>1. IInv => HandledOnce
    BY DEF IInv, Counted, HandledOnce
<1>. QED
    BY <1>1, IInvHolds, PTL

\* What the platform will not post again is recorded, and settled, under way or lost
\* in a way that is known (post_wecom_callback, process_recorded_message).
THEOREM AckedIsKeptHolds == Spec => []AckedIsKept
<1>1. IInv => AckedIsKept
    BY DEF IInv, TypeOK, Kept, Recorded, AckedIsKept
<1>. QED
    BY <1>1, IInvHolds, PTL

\* A member has two active research tasks only if their submissions raced, or if an
\* approval made one of them active again (ResearchTaskService.create_task, approve).
THEOREM OneActiveTaskHolds == Spec => []OneActiveTask
<1>1. IInv => OneActiveTask
    BY DEF IInv
<1>. QED
    BY <1>1, IInvHolds, PTL
=============================================================================
