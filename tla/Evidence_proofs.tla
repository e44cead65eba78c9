--------------------------- MODULE Evidence_proofs ---------------------------
(***************************************************************************)
(* That a completed step keeps its evidence and that reports cite rows of  *)
(* their own task, for any tasks, steps, contents and workers, and with    *)
(* any number of runs that overlap.  Then, for the plan those steps come   *)
(* from and for any answer of the model: that an accepted plan can be      *)
(* worked off, and that the validator's verdicts on cycles and on depth    *)
(* are what the draft says.                                                *)
(***************************************************************************)
EXTENDS Evidence, Planning, FiniteSetTheorems, SequenceTheorems, WellFoundedInduction, TLAPS

\* What one worker's session relies on: the evidence it counts as kept is committed
\* or in its own transaction, and with what is still to do it is all that was found.
RunOK(w) ==
    /\ pc[w] \in {"tool", "store", "insert", "aborted"} => job[w] \in Steps
    /\ pc[w] \in {"idle", "tool"} => kept[w] = {}
    /\ pc[w] \in {"store", "insert"} => kept[w] \subseteq Stored \cup inserted[w]
    /\ pc[w] = "store" => found[w] = kept[w] \cup todo[w]
    /\ pc[w] = "insert" => /\ found[w] = kept[w] \cup todo[w] \cup {current[w]}
                           /\ current[w] \in Contents
    /\ pc[w] \notin {"store", "insert"} => inserted[w] = {}
    /\ inserted[w] \cap Stored = {}
    /\ pc[w] = "draft" => job[w] \in Tasks /\ basis[w] \subseteq RowsOf(job[w])

\* The unique index: two open transactions have not inserted the same content.
Unique == \A v, w \in Workers : v # w => inserted[v] \cap inserted[w] = {}

RefsKept == \A s \in Steps : ref[s] = answer[s] /\ ref[s] \subseteq Stored

IInv ==
    /\ TypeOK
    /\ \A w \in Workers : RunOK(w)
    /\ Unique
    /\ RefsKept
    /\ CitesItsTask

----------------------------------------------------------------------------
LEMMA InitHolds == Init => IInv
<1> SUFFICES ASSUME Init PROVE IInv
    OBVIOUS
<1> USE EvidenceAssumption DEF Init
<1>1. TypeOK
    BY DEF TypeOK, PCs
<1>2. \A w \in Workers : RunOK(w)
    BY DEF RunOK
<1>3. Unique /\ RefsKept
    BY DEF Unique, RefsKept
<1>4. CitesItsTask
    BY DEF CitesItsTask
<1>. QED
    BY <1>1, <1>2, <1>3, <1>4 DEF IInv

\* The types hold through every step.
LEMMA TypeStep == TypeOK /\ [Next]_vars /\ (\A w \in Workers : RunOK(w)) => TypeOK'
<1> SUFFICES ASSUME TypeOK, [Next]_vars, \A w \in Workers : RunOK(w) PROVE TypeOK'
    OBVIOUS
<1> USE EvidenceAssumption DEF TypeOK, PCs
<1>1. CASE UNCHANGED vars
    BY <1>1 DEF vars, rowVars, runVars
<1>2. ASSUME NEW w \in Workers, NEW s \in Steps, Start(w, s) PROVE TypeOK'
    BY <1>2 DEF Start, Goto, rowVars
<1>3. ASSUME NEW w \in Workers, NEW t \in Tasks, ReadEvidence(w, t) PROVE TypeOK'
    BY <1>3 DEF ReadEvidence, Goto, RowsOf, rowVars
<1>4. ASSUME NEW w \in Workers, Tool(w) PROVE TypeOK'
    <2>1. CASE ToolFinds(w)
        BY <1>4, <2>1 DEF ToolFinds, Goto, rowVars
    <2>2. CASE ToolFails(w) \/ ToolFailsRetryably(w)
        <3>1. job[w] \in Steps
            BY <2>2 DEF ToolFails, ToolFailsRetryably, RunOK
        <3>. QED
            BY <2>2, <3>1 DEF ToolFails, ToolFailsRetryably, Mark, End, Goto
    <2>. QED
        BY <1>4, <2>1, <2>2 DEF Tool
<1>5. ASSUME NEW w \in Workers, Store(w) PROVE TypeOK'
    <2>1. CASE Look(w)
        <3>1. PICK c \in todo[w] :
                 /\ todo' = [todo EXCEPT ![w] = @ \ {c}]
                 /\ \/ kept' = [kept EXCEPT ![w] = @ \cup {c}] /\ UNCHANGED <<pc, current>>
                    \/ /\ current' = [current EXCEPT ![w] = c]
                       /\ pc' = [pc EXCEPT ![w] = "insert"]
                       /\ UNCHANGED kept
            BY <2>1 DEF Look, Goto
        <3>2. c \in Contents
            OBVIOUS
        <3>3. /\ UNCHANGED <<owner, status, ref, answer, runs, queued, reports, job, found>>
              /\ UNCHANGED <<inserted, basis>>
            BY <2>1 DEF Look, rowVars
        <3>4. todo' \in [Workers -> SUBSET Contents]
            BY <3>1
        <3>5. CASE kept' = [kept EXCEPT ![w] = @ \cup {c}] /\ UNCHANGED <<pc, current>>
            <4>1. kept' \in [Workers -> SUBSET Contents]
                BY <3>2, <3>5
            <4>. QED
                BY <3>3, <3>4, <3>5, <4>1
        <3>6. CASE /\ current' = [current EXCEPT ![w] = c]
                   /\ pc' = [pc EXCEPT ![w] = "insert"]
                   /\ UNCHANGED kept
            <4>1. pc' \in [Workers -> PCs] /\ current' \in [Workers -> Contents \cup {None}]
                BY <3>2, <3>6
            <4>. QED
                BY <3>3, <3>4, <3>6, <4>1
        <3>. QED
            BY <3>1, <3>5, <3>6
    <2>2. CASE Insert(w)
        <3>1. current[w] \in Contents
            BY <2>2 DEF Insert, RunOK
        <3>. QED
            BY <2>2, <3>1 DEF Insert, Goto, rowVars
    <2>3. CASE InsertRaises(w)
        BY <2>3 DEF InsertRaises, Aborts, Goto, rowVars
    <2>4. CASE Complete(w)
        <3>1. job[w] \in Steps /\ TaskOf[job[w]] \in Tasks
            BY <2>4 DEF Complete, RunOK
        <3>. QED
            BY <2>4, <3>1 DEF Complete, Mark, End, Goto
    <2>5. CASE FailStep(w)
        <3>1. job[w] \in Steps
            BY <2>5 DEF FailStep, RunOK
        <3>. QED
            BY <2>5, <3>1 DEF FailStep, Mark, End, Goto
    <2>. QED
        BY <1>5, <2>1, <2>2, <2>3, <2>4, <2>5 DEF Store
<1>6. ASSUME NEW w \in Workers, Synthesize(w) PROVE TypeOK'
    <2>1. CASE WriteReport(w)
        <3>1. job[w] \in Tasks
            BY <2>1 DEF WriteReport, RunOK
        <3>2. PICK cites \in SUBSET Allowed(w) :
                  reports' = [reports EXCEPT ![job[w]] = Append(@, cites)]
            BY <2>1 DEF WriteReport
        <3>3. cites \in SUBSET Contents
            BY <3>2 DEF Allowed
        <3>4. Append(reports[job[w]], cites) \in Seq(SUBSET Contents)
            BY <3>1, <3>3
        <3>. QED
            BY <2>1, <3>2, <3>4 DEF WriteReport, End, Goto, rowVars
    <2>2. CASE DraftRaises(w)
        BY <2>2 DEF DraftRaises, End, Goto, rowVars
    <2>. QED
        BY <1>6, <2>1, <2>2 DEF Synthesize
<1>7. ASSUME NEW w \in Workers, Crash(w) PROVE TypeOK'
    BY <1>7 DEF Crash, End, Goto, rowVars
<1>8. ASSUME NEW t \in Tasks, QueueSynthesis(t) PROVE TypeOK'
    BY <1>8 DEF QueueSynthesis, rowVars, runVars
<1>. QED
    BY <1>1, <1>2, <1>3, <1>4, <1>5, <1>6, <1>7, <1>8 DEF Next, Work

----------------------------------------------------------------------------
(***************************************************************************)
(* Only Complete changes the rows, and only Complete of w those that w's   *)
(* own transaction inserted.                                               *)
(***************************************************************************)
LEMMA RowsGrow ==
    ASSUME IInv, NEW w \in Workers, Complete(w)
    PROVE  /\ job[w] \in Steps /\ TaskOf[job[w]] \in Tasks
           /\ \A c \in Stored : owner'[c] = owner[c]
           /\ \A t \in Tasks : RowsOf(t) \subseteq RowsOf(t)'
           /\ Stored' = Stored \cup inserted[w]
<1> USE EvidenceAssumption DEF IInv
<1>1. job[w] \in Steps /\ TaskOf[job[w]] \in Tasks /\ inserted[w] \cap Stored = {}
    BY DEF Complete, RunOK
<1>2. \A c \in Contents : owner'[c] = IF c \in inserted[w] THEN TaskOf[job[w]] ELSE owner[c]
    BY DEF Complete, TypeOK
<1>3. \A c \in Stored : owner'[c] = owner[c]
    BY <1>1, <1>2 DEF Stored
<1>4. \A t \in Tasks : RowsOf(t) \subseteq Stored
    BY DEF RowsOf, Stored
<1>5. \A t \in Tasks : RowsOf(t) \subseteq RowsOf(t)'
    BY <1>3, <1>4 DEF RowsOf
<1>6. Stored' = Stored \cup inserted[w]
    <2>1. inserted[w] \subseteq Contents
        BY DEF TypeOK
    <2>. QED
        BY <1>1, <1>2, <2>1 DEF Stored
<1>. QED
    BY <1>1, <1>3, <1>5, <1>6

\* The other workers' sessions stay as they are.
Others(w) == \A v \in Workers \ {w} :
    /\ pc'[v] = pc[v] /\ job'[v] = job[v] /\ found'[v] = found[v] /\ todo'[v] = todo[v]
    /\ kept'[v] = kept[v] /\ inserted'[v] = inserted[v] /\ current'[v] = current[v]
    /\ basis'[v] = basis[v]

LEMMA OtherRuns ==
    ASSUME IInv, NEW w \in Workers, Others(w),
           owner' = owner \/ Complete(w)
    PROVE  \A v \in Workers \ {w} : RunOK(v)'
<1> USE DEF IInv
<1> TAKE v \in Workers \ {w}
<1>1. RunOK(v) /\ inserted[v] \cap inserted[w] = {}
    BY DEF Unique
<1>2. CASE owner' = owner
    <2>1. Stored' = Stored /\ \A t : RowsOf(t)' = RowsOf(t)
        BY <1>2 DEF Stored, RowsOf
    <2>. QED
        BY <1>1, <2>1 DEF RunOK, Others
<1>3. CASE Complete(w)
    BY <1>1, <1>3, RowsGrow DEF RunOK, Others
<1>. QED
    BY <1>2, <1>3

\* A closed session satisfies its part.
LEMMA EndOK ==
    ASSUME TypeOK, NEW w \in Workers, End(w)
    PROVE  /\ RunOK(w)' /\ Others(w)
           /\ inserted'[w] = {}
BY DEF End, Goto, RunOK, Others, TypeOK

\* The part of each worker, and the unique index, through every step.
LEMMA RunStep == IInv /\ [Next]_vars => (\A w \in Workers : RunOK(w))' /\ Unique'
<1> SUFFICES ASSUME IInv, [Next]_vars PROVE (\A w \in Workers : RunOK(w))' /\ Unique'
    OBVIOUS
<1> USE DEF IInv
<1>0. ASSUME NEW w \in Workers, Others(w), RunOK(w)', owner' = owner \/ Complete(w),
             \A v \in Workers \ {w} : inserted'[w] \cap inserted[v] = {}
      PROVE  (\A v \in Workers : RunOK(v))' /\ Unique'
    <2>1. \A v \in Workers : RunOK(v)'
        BY <1>0, OtherRuns
    <2>2. Unique'
        BY <1>0 DEF Unique, Others
    <2>. QED
        BY <2>1, <2>2
<1>1. CASE UNCHANGED vars
    BY <1>1 DEF vars, rowVars, runVars, RunOK, Unique, Stored, RowsOf
<1>2. ASSUME NEW w \in Workers, NEW s \in Steps, Start(w, s)
      PROVE  (\A v \in Workers : RunOK(v))' /\ Unique'
    <2>1. Others(w) /\ RunOK(w)' /\ inserted' = inserted /\ owner' = owner
        BY <1>2 DEF Start, Goto, rowVars, Others, RunOK, TypeOK, Stored, RowsOf
    <2>. QED
        BY <1>0, <2>1 DEF Unique
<1>3. ASSUME NEW w \in Workers, NEW t \in Tasks, ReadEvidence(w, t)
      PROVE  (\A v \in Workers : RunOK(v))' /\ Unique'
    <2>1. /\ Others(w) /\ owner' = owner
          /\ UNCHANGED <<inserted, kept, found, todo, current>>
        BY <1>3 DEF ReadEvidence, Goto, rowVars, Others, TypeOK
    <2>2. pc'[w] = "draft" /\ job'[w] = t /\ basis'[w] = RowsOf(t)
        BY <1>3 DEF ReadEvidence, Goto, TypeOK
    <2>3. Stored' = Stored /\ RowsOf(t)' = RowsOf(t)
        BY <2>1 DEF Stored, RowsOf
    <2>4. inserted[w] = {}
        BY <1>3 DEF ReadEvidence, RunOK
    <2>5. RunOK(w)'
        BY <2>1, <2>2, <2>3, <2>4 DEF RunOK
    <2>. QED
        BY <1>0, <2>1, <2>5 DEF Unique
<1>4. ASSUME NEW w \in Workers, Work(w) \/ Crash(w)
      PROVE  (\A v \in Workers : RunOK(v))' /\ Unique'
    <2>1. CASE End(w)
        <3>1. owner' = owner \/ Complete(w)
            <4>1. CASE WriteReport(w) \/ DraftRaises(w) \/ Crash(w)
                BY <4>1 DEF WriteReport, DraftRaises, Crash, rowVars
            <4>2. CASE ToolFinds(w) \/ Look(w) \/ Insert(w) \/ InsertRaises(w)
                BY <4>2 DEF ToolFinds, Look, Insert, InsertRaises, rowVars
            <4>3. CASE ToolFails(w) \/ ToolFailsRetryably(w) \/ FailStep(w)
                BY <4>3 DEF ToolFails, ToolFailsRetryably, FailStep
            <4>. QED
                BY <1>4, <4>1, <4>2, <4>3 DEF Work, Tool, Store, Synthesize
        <3>. QED
            BY <1>0, <2>1, <3>1, EndOK
    <2>2. CASE ToolFinds(w)
        <3>1. Others(w) /\ inserted' = inserted /\ owner' = owner
            BY <2>2 DEF ToolFinds, Goto, rowVars, Others, TypeOK
        <3>2. RunOK(w)'
            BY <2>2 DEF ToolFinds, Goto, rowVars, RunOK, TypeOK, Stored
        <3>. QED
            BY <1>0, <3>1, <3>2 DEF Unique
    <2>3. CASE Look(w)
        <3>1. Others(w) /\ inserted' = inserted /\ owner' = owner
            BY <2>3 DEF Look, Goto, rowVars, Others, TypeOK
        <3>2. PICK c \in todo[w] :
                 /\ todo' = [todo EXCEPT ![w] = @ \ {c}]
                 /\ IF Sees(w, c)
                    THEN /\ kept' = [kept EXCEPT ![w] = @ \cup {c}]
                         /\ UNCHANGED <<pc, current>>
                    ELSE /\ current' = [current EXCEPT ![w] = c]
                         /\ Goto(w, "insert")
                         /\ UNCHANGED kept
            BY <2>3 DEF Look
        <3>3. pc[w] = "store" /\ job' = job /\ found' = found /\ c \in Contents
            BY <2>3 DEF Look, TypeOK
        <3>4. Stored' = Stored
            BY <3>1 DEF Stored
        <3>5. RunOK(w)'
            <4>1. CASE Sees(w, c)
                BY <3>1, <3>2, <3>3, <3>4, <4>1 DEF Sees, RunOK, TypeOK
            <4>2. CASE ~Sees(w, c)
                BY <3>1, <3>2, <3>3, <3>4, <4>2 DEF Goto, RunOK, TypeOK
            <4>. QED
                BY <4>1, <4>2
        <3>. QED
            BY <1>0, <3>1, <3>5 DEF Unique
    <2>4. CASE Insert(w)
        <3>1. Others(w) /\ owner' = owner
            BY <2>4 DEF Insert, Goto, rowVars, Others, TypeOK
        <3>2. inserted'[w] = inserted[w] \cup {current[w]}
            BY <2>4 DEF Insert, TypeOK
        <3>3. \A v \in Workers \ {w} : current[w] \notin inserted[v]
            BY <2>4 DEF Insert, WaitsFor
        <3>4. Stored' = Stored
            BY <3>1 DEF Stored
        <3>5. RunOK(w)'
            BY <2>4, <3>2, <3>4 DEF Insert, Goto, RunOK, TypeOK
        <3>. QED
            BY <1>0, <3>1, <3>2, <3>3, <3>5 DEF Unique
    <2>5. CASE InsertRaises(w)
        <3>1. Others(w) /\ owner' = owner /\ inserted'[w] = {}
            BY <2>5 DEF InsertRaises, Aborts, Goto, rowVars, Others, TypeOK
        <3>2. RunOK(w)'
            BY <2>5, <3>1 DEF InsertRaises, Aborts, Goto, RunOK, TypeOK
        <3>. QED
            BY <1>0, <3>1, <3>2
    <2>. QED
        BY <1>4, <2>1, <2>2, <2>3, <2>4, <2>5
           DEF Work, Tool, Store, Synthesize, Crash, ToolFails, ToolFailsRetryably,
               Complete, FailStep, WriteReport, DraftRaises
<1>5. ASSUME NEW t \in Tasks, QueueSynthesis(t)
      PROVE  (\A v \in Workers : RunOK(v))' /\ Unique'
    BY <1>5 DEF QueueSynthesis, rowVars, runVars, RunOK, Unique, Stored, RowsOf
<1>. QED
    BY <1>1, <1>2, <1>3, <1>4, <1>5 DEF Next

\* What result_ref names, and what reports cite, through every step.
LEMMA CommittedStep == IInv /\ [Next]_vars => RefsKept' /\ CitesItsTask'
<1> SUFFICES ASSUME IInv, [Next]_vars PROVE RefsKept' /\ CitesItsTask'
    OBVIOUS
<1> USE DEF IInv
<1>1. ASSUME NEW w \in Workers, Complete(w) PROVE RefsKept' /\ CitesItsTask'
    <2>1. kept[w] = found[w] /\ kept[w] \subseteq Stored \cup inserted[w]
        BY <1>1 DEF Complete, RunOK
    <2>2. /\ ref' = [ref EXCEPT ![job[w]] = kept[w]]
          /\ answer' = [answer EXCEPT ![job[w]] = found[w]]
          /\ reports' = reports
        BY <1>1 DEF Complete
    <2>3. RefsKept'
        BY <1>1, <2>1, <2>2, RowsGrow DEF RefsKept, TypeOK
    <2>4. CitesItsTask'
        BY <1>1, <2>2, RowsGrow DEF CitesItsTask
    <2>. QED
        BY <2>3, <2>4
<1>2. ASSUME NEW w \in Workers, WriteReport(w) PROVE RefsKept' /\ CitesItsTask'
    <2>1. job[w] \in Tasks /\ basis[w] \subseteq RowsOf(job[w])
        BY <1>2 DEF WriteReport, RunOK
    <2>2. PICK cites \in SUBSET basis[w] :
              reports' = [reports EXCEPT ![job[w]] = Append(@, cites)]
        BY <1>2 DEF WriteReport, Allowed
    <2>3. UNCHANGED rowVars
        BY <1>2 DEF WriteReport
    <2>4. CitesItsTask'
        <3> SUFFICES ASSUME NEW t \in Tasks, NEW v \in DOMAIN reports'[t]
                     PROVE  reports'[t][v] \subseteq RowsOf(t)
            BY <2>3 DEF CitesItsTask, RowsOf, rowVars
        <3>1. CASE t # job[w]
            BY <2>2, <3>1 DEF CitesItsTask, TypeOK
        <3>2. CASE t = job[w]
            <4>1. reports[t] \in Seq(SUBSET Contents) /\ cites \in SUBSET Contents
                BY <2>1, <2>2 DEF TypeOK
            <4>2. reports'[t] = Append(reports[t], cites)
                BY <2>1, <2>2, <3>2 DEF TypeOK
            <4>3. CASE v \in DOMAIN reports[t]
                <5>1. reports'[t][v] = reports[t][v]
                    BY <4>1, <4>2, <4>3
                <5>. QED
                    BY <4>3, <5>1 DEF CitesItsTask
            <4>4. CASE v \notin DOMAIN reports[t]
                <5>1. v = Len(reports[t]) + 1
                    BY <4>1, <4>2, <4>4
                <5>2. reports'[t][v] = cites
                    BY <4>1, <4>2, <5>1
                <5>. QED
                    BY <2>1, <2>2, <3>2, <5>2
            <4>. QED
                BY <4>3, <4>4
        <3>. QED
            BY <3>1, <3>2
    <2>. QED
        BY <2>3, <2>4 DEF RefsKept, Stored, rowVars
<1>3. ASSUME UNCHANGED <<owner, ref, answer, reports>> PROVE RefsKept' /\ CitesItsTask'
    BY <1>3 DEF RefsKept, CitesItsTask, Stored, RowsOf
<1>4. CASE UNCHANGED vars
    BY <1>3, <1>4 DEF vars, rowVars
<1>5. ASSUME NEW w \in Workers, NEW s \in Steps, Start(w, s)
      PROVE  RefsKept' /\ CitesItsTask'
    BY <1>3, <1>5 DEF Start, rowVars
<1>6. ASSUME NEW w \in Workers, NEW t \in Tasks, ReadEvidence(w, t)
      PROVE  RefsKept' /\ CitesItsTask'
    BY <1>3, <1>6 DEF ReadEvidence, rowVars
<1>7. ASSUME NEW w \in Workers,
             Tool(w) \/ Look(w) \/ Insert(w) \/ InsertRaises(w) \/ FailStep(w)
             \/ DraftRaises(w) \/ Crash(w)
      PROVE  RefsKept' /\ CitesItsTask'
    <2>1. UNCHANGED <<owner, ref, answer, reports>>
        BY <1>7 DEF Tool, ToolFinds, ToolFails, ToolFailsRetryably, Look, Insert,
                    InsertRaises, FailStep, DraftRaises, Crash, rowVars
    <2>. QED
        BY <1>3, <2>1
<1>8. ASSUME NEW t \in Tasks, QueueSynthesis(t) PROVE RefsKept' /\ CitesItsTask'
    BY <1>3, <1>8 DEF QueueSynthesis, rowVars
<1>. QED
    BY <1>1, <1>2, <1>4, <1>5, <1>6, <1>7, <1>8 DEF Next, Work, Store, Synthesize

----------------------------------------------------------------------------
LEMMA Inductive == Spec => []IInv
<1>1. Init => IInv
    BY InitHolds
<1>2. IInv /\ [Next]_vars => IInv'
    BY TypeStep, RunStep, CommittedStep DEF IInv
<1>. QED
    BY <1>1, <1>2, PTL DEF Spec

\* The variables keep their types.
THEOREM TypeHolds == Spec => []TypeOK
<1>1. IInv => TypeOK
    BY DEF IInv
<1>. QED
    BY <1>1, Inductive, PTL

\* A completed step has lost nothing of what its tool returned.
THEOREM EvidenceKeptHolds == Spec => []EvidenceKept
<1>1. IInv => EvidenceKept
    BY DEF IInv, RefsKept, EvidenceKept
<1>. QED
    BY <1>1, Inductive, PTL

\* Reports cite committed rows of their own task.
THEOREM CitesItsTaskHolds == Spec => []CitesItsTask
<1>1. IInv => CitesItsTask
    BY DEF IInv
<1>. QED
    BY <1>1, Inductive, PTL

----------------------------------------------------------------------------
(***************************************************************************)
(* The plan, module Planning.                                              *)
(*                                                                         *)
(* Kahn's sort is about sets that are "grown": they hold a step whenever   *)
(* they hold all it depends on.  While the sort runs, every grown set      *)
(* holds the steps that are free; when all are free, the only grown set is *)
(* that of all steps, and that is what running the plan needs.             *)
(***************************************************************************)
K == KeysOf(steps)

\* Every step that is still there is one of the answer, in its place.
Drawn ==
    /\ drafted \in Drafts
    /\ DOMAIN steps \subseteq DOMAIN drafted.steps
    /\ \A i \in DOMAIN steps : steps[i] = drafted.steps[i]

\* A step that is not there any more shares its key with a step of the pipeline, and no
\* step that is left has that key.
Removals ==
    /\ at = "normalize" => steps = drafted.steps
    /\ \A i \in DOMAIN drafted.steps : i \notin DOMAIN steps =>
         /\ drafted.steps[i].key \notin K
         /\ \E j \in DOMAIN drafted.steps :
               /\ drafted.steps[j].key = drafted.steps[i].key
               /\ ForPipeline(drafted.steps[j])

\* The keys that depend on nothing that is left, and those of them that left the queue.
Free == {k \in K : in_degree[k] = 0}
Popped == Free \ queue

\* A set that holds a key whenever it holds all that the key depends on.
Grown(X) == \A k \in K : DependsOn(k) \subseteq X => k \in X

Sorting ==
    at = "sort" =>
      /\ in_degree \in [K -> Nat]
      /\ queue \subseteq Free
      /\ \A o \in K : in_degree[o] = Cardinality(DependsOn(o) \ Popped)
      /\ \A X \in SUBSET K : Grown(X) => Free \subseteq X

After == {"tools", "budgets", "depth", "dfs", "persist", "activate", "planned"}

\* What the sort has established: it went through all keys.
Sorted == at \in After => \A X \in SUBSET K : Grown(X) => X = K

Written ==
    /\ at \in {"activate", "planned"} =>
         rows = K /\ links = {l \in K \X K : l[2] \in DependsOn(l[1])}
    /\ at = "planned" => ready = {k \in rows : \A d \in rows : <<k, d>> \notin links}

\* Only what the validator found stops a plan.
PlanInv == Drawn /\ Removals /\ Sorting /\ Sorted /\ Written

----------------------------------------------------------------------------
\* A sequence has finitely many places.
LEMMA DomainFinite ==
    ASSUME NEW S, NEW q \in Seq(S)
    PROVE  IsFiniteSet(DOMAIN q)
<1>1. DOMAIN q = 1..Len(q) /\ Len(q) \in Nat
    OBVIOUS
<1>2. IsFiniteSet(1..Len(q))
    BY <1>1, FS_Interval
<1>. QED
    BY <1>1, <1>2

\* What a key depends on is the list of a step that has the key, and finite.
LEMMA ListedFacts ==
    ASSUME Drawn, NEW k \in K
    PROVE  /\ \E i \in DOMAIN steps : /\ steps[i].key = k
                                      /\ Listed(k) = steps[i].depends_on
           /\ IsFiniteSet(DependsOn(k))
<1>1. PICK j \in DOMAIN steps : steps[j].key = k
    BY DEF K, KeysOf
<1>2. steps[j] \in Range(steps)
    BY DEF Range
<1>3. \E s \in Range(steps) : s.key = k
    BY <1>1, <1>2
<1> DEFINE c == CHOOSE s \in Range(steps) : s.key = k
<1>4. c \in Range(steps) /\ c.key = k
    BY <1>3
<1>5. PICK i \in DOMAIN steps : steps[i] = c
    BY <1>4 DEF Range
<1>6. Listed(k) = steps[i].depends_on
    BY <1>5 DEF Listed
<1>7. drafted.steps \in Seq(StepDraft) /\ i \in DOMAIN drafted.steps
    BY <1>5, PlanningAssumption DEF Drawn, Answers
<1> HIDE DEF c
<1>8. steps[i] \in StepDraft
  <2>1. drafted.steps[i] \in StepDraft
    BY <1>7
  <2> QED
    BY <2>1 DEF Drawn
<1>9. steps[i].depends_on \in Seq(Keys)
    BY <1>8 DEF StepDraft
<1> DEFINE l == steps[i].depends_on
<1>10. IsFiniteSet(DOMAIN l)
    BY <1>9, DomainFinite
<1>11. DependsOn(k) = {l[x] : x \in DOMAIN l}
    BY <1>6 DEF DependsOn, ToSet
<1> HIDE DEF l
<1>12. IsFiniteSet({l[x] : x \in DOMAIN l})
  <2> DEFINE T == {l[x] : x \in DOMAIN l}
             f == [x \in DOMAIN l |-> l[x]]
  <2>1. f \in Surjection(DOMAIN l, T)
    BY DEF Surjection
  <2> QED
    BY <2>1, <1>10, FS_Surjection
<1> QED
    BY <1>4, <1>5, <1>6, <1>11, <1>12

LEMMA PlanInitHolds == PlanInit => PlanInv
<1> SUFFICES ASSUME PlanInit PROVE PlanInv
    OBVIOUS
<1>1. drafted \in Drafts /\ steps = drafted.steps /\ at = "normalize"
    BY DEF PlanInit
<1>2. Drawn /\ Removals
    BY <1>1 DEF Drawn, Removals
<1>3. Sorting /\ Sorted /\ Written
    BY <1>1 DEF Sorting, Sorted, After, Written
<1>. QED
    BY <1>2, <1>3 DEF PlanInv

\* What the steps say does not change while they do not.
LEMMA SameSteps ==
    ASSUME UNCHANGED steps
    PROVE  K' = K /\ \A k : DependsOn(k)' = DependsOn(k)
    BY DEF K, KeysOf, DependsOn, Listed, Range, ToSet

\* Drawn and Removals outlast every step but the first.
LEMMA DrawnStays ==
    ASSUME PlanInv, UNCHANGED <<drafted, steps>>, at' # "normalize"
    PROVE  Drawn' /\ Removals'
<1>1. Drawn'
    BY DEF PlanInv, Drawn
<1>2. Removals'
    BY SameSteps DEF PlanInv, Removals, ForPipeline
<1>. QED
    BY <1>1, <1>2

\* A refusal.
LEMMA Refusals ==
    ASSUME PlanInv, NEW s, NEW r, Refuse(s, r)
    PROVE  PlanInv'
<1>1. at' = "raised" /\ UNCHANGED <<drafted, steps>>
    BY DEF Refuse
<1>2. Drawn' /\ Removals'
    BY <1>1, DrawnStays
<1>3. Sorting' /\ Sorted' /\ Written'
    BY <1>1 DEF Sorting, Sorted, After, Written
<1>. QED
    BY <1>2, <1>3 DEF PlanInv

\* _normalize_tool_steps: what it takes out goes with all steps that share its key.
LEMMA NormalizeStep ==
    ASSUME PlanInv, Pass("normalize", "keys"), steps' = Retained
    PROVE  PlanInv'
<1>1. at = "normalize" /\ at' = "keys" /\ UNCHANGED drafted
    BY DEF Pass
<1>2. steps = drafted.steps
    BY <1>1 DEF PlanInv, Removals
<1>3. /\ DOMAIN steps' = {j \in DOMAIN steps : steps[j].key \notin Removed}
      /\ \A i \in DOMAIN steps' : steps'[i] = steps[i]
    BY DEF Retained
<1>4. Drawn'
    BY <1>1, <1>2, <1>3 DEF PlanInv, Drawn
<1>5. Removals'
  <2> SUFFICES ASSUME NEW i \in DOMAIN drafted.steps, i \notin DOMAIN steps'
               PROVE  /\ drafted.steps[i].key \notin K'
                      /\ \E j \in DOMAIN drafted.steps :
                            /\ drafted.steps[j].key = drafted.steps[i].key
                            /\ ForPipeline(drafted.steps[j])
    BY <1>1 DEF Removals, ForPipeline
  <2>1. steps[i].key \in Removed
    BY <1>2, <1>3
  <2>2. K' \cap Removed = {}
    BY <1>3 DEF K, KeysOf
  <2>3. PICK t \in Range(steps) : /\ t.tool = "blank" /\ t.fixed
                                       /\ t.key = steps[i].key
    BY <2>1 DEF Removed
  <2>4. PICK j \in DOMAIN steps : steps[j] = t
    BY <2>3 DEF Range
  <2>. QED
    BY <1>2, <2>1, <2>2, <2>3, <2>4 DEF ForPipeline
<1>6. Sorting' /\ Sorted' /\ Written'
    BY <1>1 DEF Sorting, Sorted, After, Written
<1>. QED
    BY <1>4, <1>5, <1>6 DEF PlanInv

\* The sort begins: nothing was popped, and what depends on nothing is in every grown set.
LEMMA SortBegins ==
    ASSUME PlanInv, ValidateDependencies
    PROVE  PlanInv'
<1>1. CASE Refuse("dependencies", "no such step")
    BY <1>1, Refusals
<1>2. CASE ~Refuse("dependencies", "no such step")
  <2>1. /\ at' = "sort" /\ UNCHANGED <<drafted, steps>>
        /\ in_degree' = [k \in K |-> Degree(k)]
        /\ queue' = {k \in K : Degree(k) = 0}
    BY <1>2 DEF ValidateDependencies, Pass, K
  <2>2. K' = K /\ \A k : DependsOn(k)' = DependsOn(k)
    BY <2>1, SameSteps
  <2>3. ASSUME NEW k \in K
        PROVE  /\ Degree(k) = Cardinality(DependsOn(k))
               /\ Degree(k) \in Nat
               /\ Degree(k) = 0 => DependsOn(k) = {}
    <3>1. IsFiniteSet(DependsOn(k))
      BY ListedFacts DEF PlanInv
    <3>2. Degree(k) = Cardinality(DependsOn(k))
      BY DEF Degree
    <3>. QED
      BY <3>1, <3>2, FS_CardinalityType, FS_EmptySet
  <2>4. in_degree' \in [K -> Nat] /\ Free' = queue' /\ Popped' = {}
    BY <2>1, <2>2, <2>3 DEF Free, Popped
  <2>5. \A o \in K' : in_degree'[o] = Cardinality(DependsOn(o)' \ Popped')
    BY <2>1, <2>2, <2>3, <2>4
  <2>6. ASSUME NEW X \in SUBSET K', Grown(X)' PROVE Free' \subseteq X
    BY <2>1, <2>2, <2>3, <2>4, <2>6 DEF Grown
  <2>7. Sorting'
    BY <2>2, <2>4, <2>5, <2>6 DEF Sorting
  <2>8. Sorted' /\ Written'
    BY <2>1 DEF Sorted, After, Written
  <2>9. Drawn' /\ Removals'
    BY <2>1, DrawnStays
  <2>. QED
    BY <2>7, <2>8, <2>9 DEF PlanInv
<1>. QED
    BY <1>1, <1>2

\* One pass of the sort: k goes over to the popped keys, and the keys that depended on
\* nothing else that was left become free.
LEMMA PopStep ==
    ASSUME PlanInv, NEW k \in Keys, Pop(k)
    PROVE  PlanInv'
<1> DEFINE Dep(o) == DependsOn(o)
           New == {o \in K : k \in Dep(o) /\ in_degree'[o] = 0}
<1>1. /\ at = "sort" /\ at' = "sort" /\ k \in queue /\ UNCHANGED <<drafted, steps>>
      /\ in_degree \in [K -> Nat] /\ queue \subseteq Free
      /\ \A o \in K : in_degree[o] = Cardinality(Dep(o) \ Popped)
      /\ \A X \in SUBSET K : Grown(X) => Free \subseteq X
    BY DEF Pop, PlanInv, Sorting
<1>2. in_degree' = [o \in K |-> in_degree[o] - IF k \in Dep(o) THEN 1 ELSE 0]
    BY <1>1 DEF Pop
<1>3. queue' = (queue \ {k}) \cup New
    BY <1>1 DEF Pop
<1>4. K' = K /\ \A o : Dep(o)' = Dep(o)
    BY <1>1, SameSteps
<1>5. k \in Free /\ k \notin Popped
    BY <1>1 DEF Popped
<1>6. ASSUME NEW o \in K
      PROVE  /\ IsFiniteSet(Dep(o) \ Popped)
             /\ in_degree[o] = 0 <=> Dep(o) \subseteq Popped
  <2>1. IsFiniteSet(Dep(o) \ Popped)
    BY ListedFacts, FS_Difference DEF PlanInv
  <2>. QED
    BY <2>1, <1>1, FS_EmptySet
<1>7. ASSUME NEW o \in K
      PROVE  /\ in_degree'[o] \in Nat
             /\ in_degree'[o] = Cardinality(Dep(o) \ (Popped \cup {k}))
  <2>1. Dep(o) \ (Popped \cup {k}) = (Dep(o) \ Popped) \ {k}
    OBVIOUS
  <2>2. /\ IsFiniteSet((Dep(o) \ Popped) \ {k})
        /\ Cardinality((Dep(o) \ Popped) \ {k}) =
             IF k \in Dep(o) \ Popped THEN Cardinality(Dep(o) \ Popped) - 1
             ELSE Cardinality(Dep(o) \ Popped)
    BY <1>6, FS_RemoveElement
  <2>3. Cardinality((Dep(o) \ Popped) \ {k}) \in Nat
    BY <2>2, FS_CardinalityType
  <2>4. in_degree'[o] = Cardinality(Dep(o) \ Popped) - IF k \in Dep(o) THEN 1 ELSE 0
    BY <1>1, <1>2
  <2>5. Cardinality(Dep(o) \ Popped) \in Nat
    BY <1>6, FS_CardinalityType
  <2> HIDE DEF Dep
  <2>6. in_degree'[o] = Cardinality((Dep(o) \ Popped) \ {k})
    BY <2>2, <2>4, <2>5, <1>5
  <2>. QED
    BY <2>1, <2>3, <2>6
<1>8. Free' = Free \cup New
  <2> SUFFICES ASSUME NEW o \in K PROVE in_degree'[o] = 0 <=> o \in Free \cup New
    BY <1>4 DEF Free
  <2>1. CASE k \in Dep(o)
    BY <2>1, <1>5, <1>6 DEF Free
  <2>2. CASE k \notin Dep(o)
    BY <2>2, <1>1, <1>2 DEF Free
  <2>. QED
    BY <2>1, <2>2
<1>9. Popped' = Popped \cup {k}
  <2>1. k \notin New
    BY <1>5, <1>6 DEF Free
  <2>2. New \cap Free = {}
    BY <1>5, <1>6 DEF Free
  <2>. QED
    BY <1>1, <1>3, <1>5, <1>8, <2>1, <2>2 DEF Popped
<1>10. ASSUME NEW X \in SUBSET K', Grown(X)' PROVE Free' \subseteq X
  <2>1. Grown(X)
    BY <1>4, <1>10 DEF Grown
  <2>2. Free \subseteq X
    BY <1>1, <1>4, <2>1
  <2>3. ASSUME NEW o \in New PROVE o \in X
    <3>1. Dep(o) \ (Popped \cup {k}) = {}
      <4>1. IsFiniteSet(Dep(o) \ (Popped \cup {k}))
        BY ListedFacts, FS_Difference DEF PlanInv
      <4>. QED
        BY <4>1, <1>7, FS_EmptySet
    <3>2. Dep(o) \subseteq X
      BY <3>1, <2>2, <1>5 DEF Popped
    <3>. QED
      BY <3>2, <2>1 DEF Grown
  <2>. QED
    BY <1>8, <2>2, <2>3
<1>11. Sorting'
  <2>1. in_degree' \in [K' -> Nat]
    BY <1>2, <1>4, <1>7
  <2>2. queue' \subseteq Free'
    BY <1>1, <1>3, <1>8
  <2>3. \A o \in K' : in_degree'[o] = Cardinality(DependsOn(o)' \ Popped')
    BY <1>4, <1>7, <1>9
  <2>. QED
    BY <1>10, <2>1, <2>2, <2>3 DEF Sorting
<1>12. Sorted' /\ Written'
    BY <1>1 DEF Sorted, After, Written
<1>13. Drawn' /\ Removals'
    BY <1>1, DrawnStays
<1>. QED
    BY <1>11, <1>12, <1>13 DEF PlanInv

\* _validate_no_cycle ends: when no key is left, every grown set holds all of them.
LEMMA SortEnds ==
    ASSUME PlanInv, ValidateNoCycle
    PROVE  PlanInv'
<1>1. CASE Refuse("sort", "cycle")
    BY <1>1, Refusals
<1>2. CASE ~Refuse("sort", "cycle")
  <2>1. /\ at = "sort" /\ at' = "tools" /\ UNCHANGED <<drafted, steps>>
        /\ ~Cyclic
    BY <1>2 DEF ValidateNoCycle, Pass
  <2>2. K' = K /\ \A k : DependsOn(k)' = DependsOn(k)
    BY <2>1, SameSteps
  <2>3. Free = K
    BY <2>1 DEF PlanInv, Sorting, Cyclic, Free
  <2>4. Sorted'
    <3> SUFFICES ASSUME NEW X \in SUBSET K', Grown(X)' PROVE X = K'
      BY DEF Sorted
    <3>1. Grown(X)
      BY <2>2 DEF Grown
    <3>. QED
      BY <2>1, <2>2, <2>3, <3>1 DEF PlanInv, Sorting
  <2>5. Sorting' /\ Written'
    BY <2>1 DEF Sorting, Written
  <2>6. Drawn' /\ Removals'
    BY <2>1, DrawnStays
  <2>. QED
    BY <2>4, <2>5, <2>6 DEF PlanInv
<1>. QED
    BY <1>1, <1>2

\* What the sort established stays true while the steps stay.
LEMMA SortedStays ==
    ASSUME PlanInv, UNCHANGED <<drafted, steps>>, at \in After, at' \in After
    PROVE  Drawn' /\ Removals' /\ Sorting' /\ Sorted'
<1>1. Drawn' /\ Removals'
    BY DrawnStays DEF After
<1>2. Sorting'
    BY DEF Sorting, After
<1>3. Sorted'
    BY SameSteps DEF PlanInv, Sorted, Grown
<1>. QED
    BY <1>1, <1>2, <1>3

\* Every step that passes on what the sort established.
LEMMA PassStep ==
    ASSUME PlanInv, NEW s \in {"keys", "tools", "budgets", "depth", "dfs"},
           NEW n \in {"dependencies", "budgets", "depth", "dfs", "persist"},
           Pass(s, n), s = "keys" <=> n = "dependencies", UNCHANGED <<steps>>
    PROVE  PlanInv'
<1>1. at = s /\ at' = n /\ UNCHANGED <<drafted, steps>>
    BY DEF Pass
<1>2. CASE s = "keys"
  <2>1. Drawn' /\ Removals'
    BY <1>1, <1>2, DrawnStays
  <2>. QED
    BY <2>1, <1>1, <1>2 DEF PlanInv, Sorting, Sorted, After, Written
<1>3. CASE s # "keys"
  <2>1. Drawn' /\ Removals' /\ Sorting' /\ Sorted'
    BY <1>1, <1>3, SortedStays DEF After
  <2>. QED
    BY <2>1, <1>1, <1>3 DEF PlanInv, Written
<1>. QED
    BY <1>2, <1>3

LEMMA PersistStep ==
    ASSUME PlanInv, Persist
    PROVE  PlanInv'
<1>1. CASE Refuse("persist", "dependency twice")
    BY <1>1, Refusals
<1>2. CASE ~Refuse("persist", "dependency twice")
  <2>1. /\ at = "persist" /\ at' = "activate" /\ UNCHANGED <<drafted, steps>>
        /\ rows' = K /\ links' = {l \in K \X K : l[2] \in DependsOn(l[1])}
    BY <1>2 DEF Persist, Pass, K
  <2>2. Written'
    BY <2>1, SameSteps DEF Written
  <2>. QED
    BY <2>1, <2>2, SortedStays DEF PlanInv, After
<1>. QED
    BY <1>1, <1>2

LEMMA ReadyStep ==
    ASSUME PlanInv, MarkRootStepsReady
    PROVE  PlanInv'
<1>1. /\ at = "activate" /\ at' = "planned" /\ UNCHANGED <<drafted, steps, rows, links>>
      /\ ready' = {k \in rows : \A d \in rows : <<k, d>> \notin links}
    BY DEF MarkRootStepsReady, Pass
<1>2. Written'
    BY <1>1, SameSteps DEF PlanInv, Written
<1>. QED
    BY <1>1, <1>2, SortedStays DEF PlanInv, After

LEMMA PlanInductive == PlanInv /\ [PlanNext]_planVars => PlanInv'
<1> SUFFICES ASSUME PlanInv, [PlanNext]_planVars PROVE PlanInv'
    OBVIOUS
<1>1. CASE Normalize
    BY <1>1, Refusals, NormalizeStep DEF Normalize
<1>2. CASE ValidateKeys
    BY <1>2, Refusals, PassStep DEF ValidateKeys
<1>3. CASE ValidateDependencies
    BY <1>3, SortBegins
<1>4. ASSUME NEW k \in Keys, Pop(k) PROVE PlanInv'
    BY <1>4, PopStep
<1>5. CASE ValidateNoCycle
    BY <1>5, SortEnds
<1>6. CASE ValidateTools
    BY <1>6, Refusals, PassStep DEF ValidateTools
<1>7. CASE ValidateBudgets
    BY <1>7, Refusals, PassStep DEF ValidateBudgets
<1>8. ASSUME NEW i \in left, DependencyDepth(i) PROVE PlanInv'
    BY <1>8, PassStep DEF DependencyDepth
<1>9. CASE ValidateDepth
    BY <1>9, Refusals, PassStep DEF ValidateDepth
<1>10. CASE Persist
    BY <1>10, PersistStep
<1>11. CASE MarkRootStepsReady
    BY <1>11, ReadyStep
<1>12. CASE Dfs \/ UNCHANGED planVars
  <2>1. /\ UNCHANGED <<drafted, steps, at, in_degree, queue, rows, links, ready>>
    BY <1>12 DEF Dfs, planVars, sort, table
  <2>. QED
    BY <2>1, SameSteps DEF PlanInv, Drawn, Removals, ForPipeline, Sorting, Sorted,
                           Written, Free, Popped, Grown
<1>. QED
    BY <1>1, <1>2, <1>3, <1>4, <1>5, <1>6, <1>7, <1>8, <1>9, <1>10, <1>11, <1>12
       DEF PlanNext, Stop

\* Any set of rows that holds the ready ones and is closed under "all it waits for is
\* there" is grown, so it holds all rows.
LEMMA PlanInvImplies == PlanInv => AcceptedRuns
<1> SUFFICES ASSUME PlanInv, at = "planned" PROVE AcceptedRuns
    BY DEF AcceptedRuns
<1>1. /\ rows = K /\ links = {l \in K \X K : l[2] \in DependsOn(l[1])}
      /\ ready = {k \in rows : \A d \in rows : <<k, d>> \notin links}
    BY DEF PlanInv, Written
<1>2. ASSUME NEW X \in SUBSET rows, ready \subseteq X,
             \A k \in rows : LET D == {d \in rows : <<k, d>> \in links}
                             IN  D # {} /\ D \subseteq X => k \in X
      PROVE  X = rows
  <2>1. ASSUME NEW k \in K, DependsOn(k) \subseteq X PROVE k \in X
    <3> DEFINE D == {d \in rows : <<k, d>> \in links}
    <3>1. D \subseteq X
      BY <1>1, <2>1
    <3>2. CASE D = {}
      BY <1>1, <1>2, <3>2
    <3>3. CASE D # {}
      BY <1>1, <1>2, <3>1, <3>3
    <3>. QED
      BY <3>2, <3>3
  <2>2. Grown(X)
    BY <2>1 DEF Grown
  <2>. QED
    BY <1>1, <1>2, <2>2 DEF PlanInv, Sorted, After
<1>3. ASSUME NEW s \in Range(drafted.steps)
      PROVE  \/ s.key \in rows \/ ForPipeline(s)
             \/ \E t \in Range(drafted.steps) : t.key = s.key /\ ForPipeline(t)
  <2>1. PICK i \in DOMAIN drafted.steps : drafted.steps[i] = s
    BY DEF Range
  <2>2. CASE i \in DOMAIN steps
    BY <1>1, <2>1, <2>2 DEF PlanInv, Drawn, K, KeysOf
  <2>3. CASE i \notin DOMAIN steps
    BY <2>1, <2>3 DEF PlanInv, Removals, Range
  <2>. QED
    BY <2>2, <2>3
<1>. QED
    BY <1>2, <1>3 DEF AcceptedRuns

\* A plan that was accepted can be worked off: every row is ready or becomes so once the
\* rows it depends on are completed, and no step of the answer is lost but those that the
\* pipeline performs.  For any answer of the model that fits the schema
\* (PlanValidator.validate, ResearchSupervisor._normalize_tool_steps,
\* ResearchStepService.mark_root_steps_ready).
THEOREM AcceptedPlansRun == PlanSpec => []AcceptedRuns
<1>1. PlanInv /\ [PlanNext]_planVars => PlanInv'
    BY PlanInductive
<1>. QED
    BY <1>1, PlanInitHolds, PlanInvImplies, PTL DEF PlanSpec

----------------------------------------------------------------------------
(***************************************************************************)
(* The verdict of the sort on a plan it refuses.                           *)
(***************************************************************************)
Distinct == \A i, j \in DOMAIN steps : steps[i].key = steps[j].key => i = j

CycleInv ==
    /\ at \in {"dependencies", "sort"} => Distinct
    /\ at = "sort" => DependenciesExist
    /\ refusal = "cycle" => HasCycle(drafted.steps)

LEMMA KeysDistinct ==
    ASSUME Drawn, KeysUnique
    PROVE  Distinct
<1> DEFINE f == [i \in DOMAIN steps |-> steps[i].key]
<1>1. f \in Surjection(DOMAIN steps, K)
    BY DEF Surjection, K, KeysOf
<1>2. IsFiniteSet(DOMAIN steps)
  <2>1. drafted.steps \in Seq(StepDraft)
    BY PlanningAssumption DEF Drawn, Answers
  <2>2. IsFiniteSet(DOMAIN drafted.steps)
    BY <2>1, DomainFinite
  <2>. QED
    BY <2>2, FS_Subset DEF Drawn
<1>3. Cardinality(DOMAIN steps) = Cardinality(K)
    BY DEF KeysUnique, K
<1>4. f \in Injection(DOMAIN steps, K)
    BY <1>1, <1>2, <1>3, FS_SurjSameCardinalityImpliesInj
<1>. QED
    BY <1>4 DEF Injection, IsInjective, Distinct

LEMMA SameVerdicts ==
    ASSUME UNCHANGED <<drafted, steps>>
    PROVE  /\ Distinct' <=> Distinct
           /\ DependenciesExist' <=> DependenciesExist
           /\ HasCycle(drafted.steps)' <=> HasCycle(drafted.steps)
<1>1. Distinct' <=> Distinct
    BY DEF Distinct
<1>2. DependenciesExist' <=> DependenciesExist
    BY DEF DependenciesExist, KeysOf, Range, ToSet
<1>3. HasCycle(drafted.steps)' <=> HasCycle(drafted.steps)
    BY DEF HasCycle, KeysOf, Range, ToSet
<1>. QED
    BY <1>1, <1>2, <1>3

\* The keys that are left when the queue is empty: each has one of them to wait for.
LEMMA LeftInCycle ==
    ASSUME PlanInv, CycleInv, at = "sort", queue = {},
           Cyclic
    PROVE  HasCycle(drafted.steps)
<1> DEFINE X == K \ Free
<1>1. /\ in_degree \in [K -> Nat] /\ Popped = Free
      /\ \A o \in K : in_degree[o] = Cardinality(DependsOn(o) \ Free)
    BY DEF PlanInv, Sorting, Popped
<1>2. X # {}
    BY <1>1 DEF Cyclic, Free
<1>3. X \subseteq KeysOf(drafted.steps)
    BY DEF PlanInv, Drawn, K, KeysOf
<1>4. ASSUME NEW s \in Range(drafted.steps), s.key \in X
      PROVE  ToSet(s.depends_on) \cap X # {}
  <2>1. PICK i \in DOMAIN drafted.steps : drafted.steps[i] = s
    BY DEF Range
  <2>2. i \in DOMAIN steps /\ steps[i] = s
    BY <1>4, <2>1 DEF PlanInv, Removals, Drawn
  <2>3. PICK j \in DOMAIN steps : /\ steps[j].key = s.key
                                  /\ Listed(s.key) = steps[j].depends_on
    BY <1>4, ListedFacts DEF PlanInv
  <2>4. j = i
    BY <2>2, <2>3 DEF CycleInv, Distinct
  <2>5. DependsOn(s.key) = ToSet(s.depends_on)
    BY <2>2, <2>3, <2>4 DEF DependsOn
  <2>6. ToSet(s.depends_on) \subseteq K
    BY <2>2 DEF CycleInv, DependenciesExist, Range, K
  <2>7. DependsOn(s.key) \ Free # {}
    BY <1>1, <1>4, FS_EmptySet DEF Free
  <2>. QED
    BY <2>5, <2>6, <2>7
<1> HIDE DEF X
<1>. QED
    BY <1>2, <1>3, <1>4 DEF HasCycle

LEMMA CycleInductive ==
    /\ PlanInit => CycleInv
    /\ PlanInv /\ CycleInv /\ [PlanNext]_planVars => CycleInv'
<1>1. PlanInit => CycleInv
    BY DEF PlanInit, CycleInv
<1>2. ASSUME PlanInv, CycleInv, [PlanNext]_planVars PROVE CycleInv'
  <2>1. ASSUME UNCHANGED <<drafted, refusal>>, at' \notin {"dependencies", "sort"}
        PROVE  CycleInv'
    BY <1>2, <2>1 DEF CycleInv, HasCycle, KeysOf, Range, ToSet
  <2>2. ASSUME NEW s, NEW r, Refuse(s, r), r # "cycle" PROVE CycleInv'
    BY <1>2, <2>2 DEF Refuse, CycleInv, HasCycle, KeysOf, Range, ToSet
  <2>3. CASE Normalize
    BY <2>1, <2>2, <2>3 DEF Normalize, Pass
  <2>4. CASE ValidateKeys
    <3>1. CASE Refuse("keys", "key twice")
      BY <2>2, <3>1
    <3>2. CASE ~Refuse("keys", "key twice")
      <4>1. /\ KeysUnique /\ at' = "dependencies"
            /\ UNCHANGED <<drafted, steps, refusal>>
        BY <2>4, <3>2 DEF ValidateKeys, Pass
      <4>2. Distinct'
        BY <1>2, <4>1, KeysDistinct DEF PlanInv, Distinct
      <4>. QED
        BY <1>2, <4>1, <4>2, SameVerdicts DEF CycleInv
    <3>. QED
      BY <3>1, <3>2
  <2>5. CASE ValidateDependencies
    <3>1. CASE Refuse("dependencies", "no such step")
      BY <2>2, <3>1
    <3>2. CASE ~Refuse("dependencies", "no such step")
      <4>1. /\ at = "dependencies" /\ at' = "sort" /\ DependenciesExist
            /\ UNCHANGED <<drafted, steps, refusal>>
        BY <2>5, <3>2 DEF ValidateDependencies, Pass
      <4>2. Distinct' /\ DependenciesExist'
        BY <1>2, <4>1, SameVerdicts DEF CycleInv
      <4>. QED
        BY <1>2, <4>1, <4>2, SameVerdicts DEF CycleInv
    <3>. QED
      BY <3>1, <3>2
  <2>6. CASE (\E k \in Keys : Pop(k)) \/ Dfs \/ UNCHANGED planVars
    <3>1. UNCHANGED <<drafted, steps, at, refusal>>
      BY <2>6 DEF Pop, Dfs, planVars, sort, table
    <3>. QED
      BY <1>2, <3>1, SameVerdicts DEF CycleInv
  <2>7. CASE ValidateNoCycle
    <3>1. CASE Refuse("sort", "cycle") /\ Cyclic
      <4>1. at = "sort" /\ queue = {} /\ at' = "raised" /\ UNCHANGED drafted
        BY <2>7, <3>1 DEF ValidateNoCycle, Refuse
      <4>2. HasCycle(drafted.steps)
        BY <1>2, <3>1, <4>1, LeftInCycle
      <4>. QED
        BY <4>1, <4>2 DEF CycleInv, HasCycle, KeysOf, Range, ToSet
    <3>2. CASE ~(Refuse("sort", "cycle") /\ Cyclic)
      BY <2>1, <2>7, <3>2 DEF ValidateNoCycle, Pass
    <3>. QED
      BY <3>1, <3>2
  <2>8. CASE ValidateTools \/ ValidateBudgets \/ ValidateDepth \/ Persist
    BY <2>1, <2>2, <2>8 DEF ValidateTools, ValidateBudgets, ValidateDepth, Persist, Pass
  <2>9. CASE (\E i \in left : DependencyDepth(i)) \/ MarkRootStepsReady
    BY <2>1, <2>9 DEF DependencyDepth, MarkRootStepsReady, Pass
  <2>. QED
    BY <1>2, <2>3, <2>4, <2>5, <2>6, <2>7, <2>8, <2>9 DEF PlanNext, Stop
<1>. QED
    BY <1>1, <1>2

\* A plan is refused for a cycle only when its steps do depend on each other in a circle:
\* the first half of VerdictsHonest (PlanValidator._validate_no_cycle).
THEOREM CyclesAreReal ==
    PlanSpec => [](refusal = "cycle" => HasCycle(drafted.steps))
<1>1. CycleInv => (refusal = "cycle" => HasCycle(drafted.steps))
    BY DEF CycleInv
<1>2. PlanInit => CycleInv
    BY CycleInductive
<1>3. PlanInv /\ CycleInv /\ [PlanNext]_planVars => CycleInv'
    BY CycleInductive
<1>4. PlanInv /\ [PlanNext]_planVars => PlanInv'
    BY PlanInductive
<1>. QED
    BY <1>1, <1>2, <1>3, <1>4, PlanInitHolds, PTL DEF PlanSpec


----------------------------------------------------------------------------
(***************************************************************************)
(* The verdict on the depth of a plan.                                     *)
(*                                                                         *)
(* A search only ever calls dfs along a chain from its root, so that the   *)
(* depth it reports is the length of one.  When it ends, what it visited   *)
(* holds all that its members depend on: a chain that begins there never   *)
(* leaves it, however long it is.                                          *)
(***************************************************************************)
Needs == {l \in K \X K : l[2] \in DependsOn(l[1])}

\* A chain of n links leads from j to k.
Way(j, k, n) == \E p \in Chains(K, Needs, n) : p[0] = j /\ p[n] = k

Closed(V) == \A k \in V : DependsOn(k) \subseteq V

\* All that j waits for, however indirectly, is in at most MaxDepth links from it.
Near(j) == \E V \in SUBSET K :
    /\ j \in V /\ Closed(V)
    /\ \A k \in V : \E n \in 0..MaxDepth : Way(j, k, n)

\* A search from j, with the calls that are to come, what was visited and the depth found.
SearchOK(j, cs, V, deep) ==
    /\ deep \in Nat /\ cs \in Seq(K \X Nat) /\ V \subseteq K
    /\ \A c \in ToSet(cs) : Way(j, c[1], c[2])
    /\ \A k \in V : \E n \in 0..deep : Way(j, k, n)
    /\ \E k \in K : Way(j, k, deep)
    /\ \A k \in {j} \cup UNION {DependsOn(v) : v \in V} :
          k \in V \/ \E c \in ToSet(cs) : c[1] = k

DepthInv ==
    /\ at \in {"sort"} \cup After => \A k \in K : DependsOn(k) \subseteq K
    /\ at \in {"depth", "dfs"} => left \subseteq DOMAIN steps
    /\ at = "dfs" => /\ root \in DOMAIN steps
                     /\ SearchOK(steps[root].key, calls, visited, deepest)
    /\ at \in {"depth", "dfs", "persist", "activate", "planned"} =>
         \A i \in DOMAIN steps : \/ Near(steps[i].key)
                                 \/ at \in {"depth", "dfs"} /\ i \in left
                                 \/ at = "dfs" /\ i = root
    /\ refusal = "too deep" =>
         Chains(Range(drafted.steps), Waits(drafted.steps), MaxDepth + 1) # {}

----------------------------------------------------------------------------
\* A set of numbers has a least one.
LEMMA LeastElement ==
    ASSUME NEW S \in SUBSET Nat, S # {}
    PROVE  \E m \in S : \A n \in S : m <= n
<1>1. \E m \in S : \A n \in S : <<n, m>> \notin OpToRel(<, Nat)
    BY NatLessThanWellFounded, WFMin, Zenon
<1>2. PICK m \in S : \A n \in S : <<n, m>> \notin OpToRel(<, Nat)
    BY <1>1
<1>3. \A n \in S : ~(n < m)
    BY <1>2, Zenon DEF OpToRel
<1>. QED
    BY <1>3

\* A chain never leaves a closed set.
LEMMA ChainsStay ==
    ASSUME NEW V \in SUBSET K, Closed(V), NEW n \in Nat, NEW p \in Chains(K, Needs, n), p[0] \in V
    PROVE  p[n] \in V
<1> DEFINE S == {i \in 0..n : p[i] \notin V}
<1>1. p \in [0..n -> K] /\ \A i \in 1..n : p[i] \in DependsOn(p[i-1])
    BY DEF Chains, Needs
<1>2. CASE S = {}
    BY <1>2
<1>3. CASE S # {}
  <2>1. S \in SUBSET Nat
    OBVIOUS
  <2>2. PICK m \in S : \A i \in S : m <= i
    BY <1>3, <2>1, LeastElement
  <2>3. m \in 0..n /\ p[m] \notin V
    BY <2>2
  <2>4. m # 0
    BY <2>3
  <2>5. m \in 1..n /\ m - 1 \in 0..n /\ ~(m <= m - 1)
    BY <2>3, <2>4
  <2>6. p[m-1] \in V
    BY <2>2, <2>5
  <2>7. p[m] \in DependsOn(p[m-1])
    BY <1>1, <2>5
  <2>. QED
    BY <2>3, <2>6, <2>7 DEF Closed
<1>. QED
    BY <1>2, <1>3

\* One link more.
LEMMA OneLinkMore ==
    ASSUME NEW j, NEW k, NEW n \in Nat, Way(j, k, n), NEW d \in DependsOn(k), d \in K
    PROVE  Way(j, d, n + 1)
<1>1. PICK p \in Chains(K, Needs, n) : p[0] = j /\ p[n] = k
    BY DEF Way
<1>2. p \in [0..n -> K] /\ \A i \in 1..n : <<p[i-1], p[i]>> \in Needs
    BY <1>1 DEF Chains
<1> DEFINE q == [i \in 0..(n+1) |-> IF i <= n THEN p[i] ELSE d]
<1>3. q \in [0..(n+1) -> K]
    BY <1>2
<1>4. ASSUME NEW i \in 1..(n+1) PROVE <<q[i-1], q[i]>> \in Needs
  <2>1. CASE i <= n
    <3>1. i \in 1..n /\ q[i] = p[i] /\ q[i-1] = p[i-1]
      BY <2>1
    <3>. QED
      BY <1>2, <3>1
  <2>2. CASE ~(i <= n)
    <3>1. q[i] = d /\ q[i-1] = p[n] /\ p[n] \in K
      BY <1>2, <2>2
    <3>. QED
      BY <1>1, <3>1 DEF Needs
  <2>. QED
    BY <2>1, <2>2
<1>5. q[0] = j /\ q[n+1] = d
    BY <1>1
<1> HIDE DEF q
<1>6. q \in Chains(K, Needs, n + 1)
    BY <1>3, <1>4 DEF Chains
<1>. QED
    BY <1>5, <1>6 DEF Way

\* A search begins.
LEMMA NoLinks ==
    ASSUME NEW j \in K
    PROVE  Way(j, j, 0)
<1> DEFINE p == [i \in 0..0 |-> j]
<1>1. p \in Chains(K, Needs, 0) /\ p[0] = j
    BY DEF Chains
<1>. QED
    BY <1>1 DEF Way

\* A chain that is long enough begins with one of exactly MaxDepth + 1 links, and is one of
\* the steps the model drafted.
LEMMA DeepChain ==
    ASSUME Drawn, NEW j, NEW k, NEW n \in Nat, n > MaxDepth, Way(j, k, n)
    PROVE  Chains(Range(drafted.steps), Waits(drafted.steps), MaxDepth + 1) # {}
<1>1. PICK p \in Chains(K, Needs, n) : TRUE
    BY DEF Way
<1>2. p \in [0..n -> K] /\ \A i \in 1..n : p[i] \in DependsOn(p[i-1])
    BY <1>1 DEF Chains, Needs
<1> DEFINE step(x) == CHOOSE s \in Range(steps) : s.key = x
           q == [i \in 0..(MaxDepth + 1) |-> step(p[i])]
<1>3. MaxDepth \in Nat /\ MaxDepth + 1 <= n
    BY PlanningAssumption
<1>4. ASSUME NEW x \in K
      PROVE  /\ step(x) \in Range(drafted.steps) /\ step(x).key = x
             /\ DependsOn(x) = ToSet(step(x).depends_on)
  <2>1. \E s \in Range(steps) : s.key = x
    BY DEF K, KeysOf, Range
  <2>2. step(x) \in Range(steps) /\ step(x).key = x
    BY <2>1
  <2>3. Range(steps) \subseteq Range(drafted.steps)
    BY DEF Drawn, Range
  <2>. QED
    BY <2>2, <2>3 DEF DependsOn, Listed
<1> HIDE DEF step
<1>5. \A i \in 0..(MaxDepth + 1) : p[i] \in K
    BY <1>2, <1>3
<1>6. q \in [0..(MaxDepth + 1) -> Range(drafted.steps)]
    BY <1>4, <1>5
<1>7. ASSUME NEW i \in 1..(MaxDepth + 1) PROVE <<q[i-1], q[i]>> \in Waits(drafted.steps)
  <2>1. i - 1 \in 0..(MaxDepth + 1) /\ i \in 0..(MaxDepth + 1) /\ i \in 1..n
    BY <1>3
  <2>2. q[i] = step(p[i]) /\ q[i-1] = step(p[i-1]) /\ p[i] \in DependsOn(p[i-1])
    BY <1>2, <2>1
  <2>3. q[i].key = p[i] /\ DependsOn(p[i-1]) = ToSet(q[i-1].depends_on)
    BY <1>4, <1>5, <2>1, <2>2
  <2>4. q[i] \in Range(drafted.steps) /\ q[i-1] \in Range(drafted.steps)
    BY <1>4, <1>5, <2>1, <2>2
  <2> HIDE DEF q
  <2>. QED
    BY <2>2, <2>3, <2>4 DEF Waits
<1> HIDE DEF q
<1>8. q \in Chains(Range(drafted.steps), Waits(drafted.steps), MaxDepth + 1)
    BY <1>6, <1>7 DEF Chains
<1>. QED
    BY <1>8


LEMMA Joined ==
    ASSUME NEW S, NEW s \in Seq(S), NEW t \in Seq(S)
    PROVE  s \o t \in Seq(S) /\ ToSet(s \o t) = ToSet(s) \cup ToSet(t)
<1>1. /\ s \o t \in Seq(S) /\ Len(s \o t) = Len(s) + Len(t)
      /\ \A i \in 1..(Len(s) + Len(t)) :
            (s \o t)[i] = IF i <= Len(s) THEN s[i] ELSE t[i - Len(s)]
    BY ConcatProperties
<1>2. /\ Len(s) \in Nat /\ Len(t) \in Nat /\ DOMAIN s = 1..Len(s) /\ DOMAIN t = 1..Len(t)
      /\ DOMAIN (s \o t) = 1..(Len(s) + Len(t))
    BY <1>1
<1>3. ASSUME NEW i \in DOMAIN (s \o t) PROVE (s \o t)[i] \in ToSet(s) \cup ToSet(t)
  <2>1. CASE i <= Len(s)
    BY <1>1, <1>2, <2>1 DEF ToSet
  <2>2. CASE ~(i <= Len(s))
    <3>1. i - Len(s) \in 1..Len(t) /\ (s \o t)[i] = t[i - Len(s)]
      BY <1>1, <1>2, <2>2
    <3>. QED
      BY <1>2, <3>1 DEF ToSet
  <2>. QED
    BY <2>1, <2>2
<1>4. ASSUME NEW i \in DOMAIN s PROVE s[i] \in ToSet(s \o t)
  <2>1. i \in DOMAIN (s \o t) /\ (s \o t)[i] = s[i]
    BY <1>1, <1>2
  <2>. QED
    BY <2>1 DEF ToSet
<1>5. ASSUME NEW i \in DOMAIN t PROVE t[i] \in ToSet(s \o t)
  <2>1. i + Len(s) \in DOMAIN (s \o t) /\ (s \o t)[i + Len(s)] = t[i]
    BY <1>1, <1>2
  <2>. QED
    BY <2>1 DEF ToSet
<1>. QED
    BY <1>1, <1>3, <1>4, <1>5 DEF ToSet

LEMMA FirstAndRest ==
    ASSUME NEW S, NEW s \in Seq(S), s # <<>>
    PROVE  Head(s) \in S /\ Tail(s) \in Seq(S) /\ ToSet(s) = {Head(s)} \cup ToSet(Tail(s))
<1>1. /\ Head(s) \in S /\ Tail(s) \in Seq(S) /\ Len(Tail(s)) = Len(s) - 1
      /\ \A i \in 1..Len(Tail(s)) : Tail(s)[i] = s[i+1]
    BY HeadTailProperties
<1>2. /\ Len(s) \in Nat /\ Len(s) # 0 /\ DOMAIN s = 1..Len(s) /\ Head(s) = s[1]
      /\ DOMAIN Tail(s) = 1..(Len(s) - 1)
    BY <1>1
<1>3. ASSUME NEW i \in DOMAIN s PROVE s[i] \in {Head(s)} \cup ToSet(Tail(s))
  <2>1. CASE i = 1
    BY <1>2, <2>1
  <2>2. CASE i # 1
    <3>1. i - 1 \in DOMAIN Tail(s) /\ Tail(s)[i-1] = s[i]
      BY <1>1, <1>2, <2>2
    <3>. QED
      BY <3>1 DEF ToSet
  <2>. QED
    BY <2>1, <2>2
<1>4. Head(s) \in ToSet(s)
    BY <1>2 DEF ToSet
<1>5. ASSUME NEW i \in DOMAIN Tail(s) PROVE Tail(s)[i] \in ToSet(s)
  <2>1. i + 1 \in DOMAIN s /\ Tail(s)[i] = s[i+1]
    BY <1>1, <1>2
  <2>. QED
    BY <2>1 DEF ToSet
<1>. QED
    BY <1>1, <1>3, <1>4, <1>5 DEF ToSet

\* The calls a call of dfs makes, one for each key that k depends on.
LEMMA DeeperFacts ==
    ASSUME Drawn, NEW k \in K, DependsOn(k) \subseteq K, NEW n \in Nat
    PROVE  /\ Deeper(k, n) \in Seq(K \X Nat)
           /\ \A c \in ToSet(Deeper(k, n)) : c[1] \in DependsOn(k) /\ c[2] = n + 1
           /\ \A d \in DependsOn(k) : \E c \in ToSet(Deeper(k, n)) : c[1] = d
<1> DEFINE l == Listed(k)
<1>1. l \in Seq(Keys)
  <2>1. PICK i \in DOMAIN steps : l = steps[i].depends_on
    BY ListedFacts
  <2>2. drafted.steps \in Seq(StepDraft) /\ steps[i] = drafted.steps[i] /\ i \in DOMAIN drafted.steps
    BY PlanningAssumption DEF Drawn, Answers
  <2>3. steps[i] \in StepDraft
    BY <2>2
  <2>. QED
    BY <2>1, <2>3 DEF StepDraft
<1>2. DOMAIN l = 1..Len(l) /\ Len(l) \in Nat
    BY <1>1
<1>3. \A i \in DOMAIN l : l[i] \in DependsOn(k)
    BY DEF DependsOn, ToSet
<1>4. Deeper(k, n) = [i \in 1..Len(l) |-> <<l[i], n + 1>>]
    BY <1>2 DEF Deeper
<1>5. \A i \in 1..Len(l) : <<l[i], n + 1>> \in K \X Nat
    BY <1>2, <1>3
<1>6. Deeper(k, n) \in Seq(K \X Nat)
    BY <1>2, <1>4, <1>5
<1>7. ToSet(Deeper(k, n)) = {<<l[i], n + 1>> : i \in 1..Len(l)}
    BY <1>4 DEF ToSet
<1>8. DependsOn(k) = {l[i] : i \in 1..Len(l)}
    BY <1>2 DEF DependsOn, ToSet
<1> HIDE DEF l
<1>9. \A d \in DependsOn(k) : \E c \in ToSet(Deeper(k, n)) : c[1] = d
  <2> SUFFICES ASSUME NEW i \in 1..Len(l) PROVE \E c \in ToSet(Deeper(k, n)) : c[1] = l[i]
    BY <1>8
  <2>1. <<l[i], n + 1>> \in ToSet(Deeper(k, n)) /\ <<l[i], n + 1>>[1] = l[i]
    BY <1>7
  <2>. QED
    BY <2>1
<1>10. \A c \in ToSet(Deeper(k, n)) : c[1] \in DependsOn(k) /\ c[2] = n + 1
    BY <1>7, <1>8
<1>. QED
    BY <1>6, <1>9, <1>10

\* What a search from j knows depends on the steps alone.
LEMMA SameWays ==
    ASSUME UNCHANGED steps
    PROVE  /\ K' = K /\ \A k : DependsOn(k)' = DependsOn(k)
           /\ \A j, cs, V, deep : SearchOK(j, cs, V, deep)' <=> SearchOK(j, cs, V, deep)
           /\ \A j : Near(j)' <=> Near(j)
<1>1. K' = K /\ \A k : DependsOn(k)' = DependsOn(k)
    BY SameSteps
<1>2. Needs' = Needs
    BY <1>1 DEF Needs
<1>3. \A j, k, n : Way(j, k, n)' <=> Way(j, k, n)
    BY <1>1, <1>2 DEF Way, Chains
<1>4. \A V : Closed(V)' <=> Closed(V)
    BY <1>1 DEF Closed
<1>5. \A j, cs, V, deep : SearchOK(j, cs, V, deep)' <=> SearchOK(j, cs, V, deep)
    BY <1>1, <1>3 DEF SearchOK
<1>6. \A j : Near(j)' <=> Near(j)
    BY <1>1, <1>3, <1>4 DEF Near
<1>. QED
    BY <1>1, <1>5, <1>6

\* A call of dfs keeps what a search knows.
LEMMA SearchGoesOn ==
    ASSUME Drawn, \A k \in K : DependsOn(k) \subseteq K, NEW j,
           SearchOK(j, calls, visited, deepest), Dfs
    PROVE  SearchOK(j, calls', visited', deepest')
<1> DEFINE k == Head(calls)[1]
           n == Head(calls)[2]
<1>1. /\ calls # <<>> /\ calls \in Seq(K \X Nat) /\ visited \subseteq K /\ deepest \in Nat
      /\ \A c \in ToSet(calls) : Way(j, c[1], c[2])
      /\ \A v \in visited : \E m \in 0..deepest : Way(j, v, m)
      /\ \E v \in K : Way(j, v, deepest)
      /\ \A d \in {j} \cup UNION {DependsOn(v) : v \in visited} :
            d \in visited \/ \E c \in ToSet(calls) : c[1] = d
    BY DEF Dfs, SearchOK
<1>2. /\ Head(calls) \in K \X Nat /\ Tail(calls) \in Seq(K \X Nat)
      /\ ToSet(calls) = {Head(calls)} \cup ToSet(Tail(calls))
    BY <1>1, FirstAndRest
<1>3. k \in K /\ n \in Nat /\ Way(j, k, n)
    BY <1>1, <1>2
<1>4. CASE k \in visited /\ calls' = Tail(calls) /\ UNCHANGED <<visited, deepest>>
  <2>1. ASSUME NEW d \in {j} \cup UNION {DependsOn(v) : v \in visited}
        PROVE  d \in visited \/ \E c \in ToSet(Tail(calls)) : c[1] = d
    BY <1>1, <1>2, <1>4
  <2>. QED
    BY <1>1, <1>2, <1>4, <2>1 DEF SearchOK
<1>5. CASE /\ k \notin visited
           /\ calls' = Deeper(k, n) \o Tail(calls)
           /\ visited' = visited \cup {k}
           /\ deepest' = IF n > deepest THEN n ELSE deepest
  <2>1. /\ Deeper(k, n) \in Seq(K \X Nat)
        /\ \A c \in ToSet(Deeper(k, n)) : c[1] \in DependsOn(k) /\ c[2] = n + 1
        /\ \A d \in DependsOn(k) : \E c \in ToSet(Deeper(k, n)) : c[1] = d
    BY <1>3, DeeperFacts
  <2> HIDE DEF k, n
  <2>2. calls' \in Seq(K \X Nat) /\ ToSet(calls') = ToSet(Deeper(k, n)) \cup ToSet(Tail(calls))
    <3>1. calls' = Deeper(k, n) \o Tail(calls)
      BY <1>5
    <3>2. Tail(calls) \in Seq(K \X Nat) /\ Deeper(k, n) \in Seq(K \X Nat)
      BY <1>2, <2>1
    <3> DEFINE s == Deeper(k, n)
               t == Tail(calls)
    <3> HIDE DEF s, t
    <3>3. s \o t \in Seq(K \X Nat) /\ ToSet(s \o t) = ToSet(s) \cup ToSet(t)
      BY <3>2, Joined DEF s, t
    <3>. QED
      BY <3>1, <3>3 DEF s, t
  <2>3. ASSUME NEW c \in ToSet(calls') PROVE Way(j, c[1], c[2])
    <3>1. CASE c \in ToSet(Tail(calls))
      BY <1>1, <1>2, <3>1
    <3>2. CASE c \in ToSet(Deeper(k, n))
      <4>1. c[1] \in DependsOn(k) /\ c[1] \in K /\ c[2] = n + 1
        BY <1>3, <2>1, <3>2
      <4>. QED
        BY <1>3, <4>1, OneLinkMore
    <3>. QED
      BY <2>2, <3>1, <3>2
  <2>4. deepest' \in Nat /\ deepest <= deepest' /\ n <= deepest'
    BY <1>1, <1>3, <1>5
  <2>5. ASSUME NEW v \in visited' PROVE \E m \in 0..deepest' : Way(j, v, m)
    <3>1. CASE v = k
      BY <1>3, <2>4, <3>1
    <3>2. CASE v # k
      <4>1. PICK m \in 0..deepest : Way(j, v, m)
        BY <1>1, <1>5, <3>2
      <4>2. m \in 0..deepest'
        BY <1>1, <2>4
      <4>. QED
        BY <4>1, <4>2
    <3>. QED
      BY <3>1, <3>2
  <2>6. \E v \in K : Way(j, v, deepest')
    BY <1>1, <1>3, <1>5
  <2>7. ASSUME NEW d \in {j} \cup UNION {DependsOn(v) : v \in visited'}
        PROVE  d \in visited' \/ \E c \in ToSet(calls') : c[1] = d
    <3>1. CASE d \in DependsOn(k)
      BY <2>1, <2>2, <3>1
    <3>2. CASE d \in {j} \cup UNION {DependsOn(v) : v \in visited}
      <4>1. d \in visited \/ \E c \in ToSet(calls) : c[1] = d
        BY <1>1, <3>2
      <4>2. d \in visited \/ d = k \/ \E c \in ToSet(Tail(calls)) : c[1] = d
        BY <1>2, <4>1 DEF k
      <4>. QED
        BY <1>5, <2>2, <4>2
    <3>. QED
      BY <1>5, <3>1, <3>2
  <2>8. visited' \subseteq K
    BY <1>1, <1>3, <1>5
  <2>. QED
    BY <2>2, <2>3, <2>4, <2>5, <2>6, <2>7, <2>8 DEF SearchOK
<1>. QED
    BY <1>4, <1>5 DEF Dfs

\* What was visited when it ends.
LEMMA SearchEnds ==
    ASSUME NEW j, SearchOK(j, <<>>, visited, deepest), deepest <= MaxDepth
    PROVE  Near(j)
<1>1. /\ visited \subseteq K /\ deepest \in Nat
      /\ \A v \in visited : \E m \in 0..deepest : Way(j, v, m)
      /\ \A d \in {j} \cup UNION {DependsOn(v) : v \in visited} :
            d \in visited \/ \E c \in ToSet(<<>>) : c[1] = d
    BY DEF SearchOK
<1>2. ToSet(<<>>) = {}
    BY DEF ToSet
<1>3. j \in visited /\ Closed(visited)
    BY <1>1, <1>2 DEF Closed
<1>4. MaxDepth \in Nat
    BY PlanningAssumption
<1>5. \A v \in visited : \E m \in 0..MaxDepth : Way(j, v, m)
  <2> SUFFICES ASSUME NEW v \in visited PROVE \E m \in 0..MaxDepth : Way(j, v, m)
    OBVIOUS
  <2>1. PICK m \in 0..deepest : Way(j, v, m)
    BY <1>1
  <2>2. m \in 0..MaxDepth
    BY <1>1, <1>4
  <2>. QED
    BY <2>1, <2>2
<1>. QED
    BY <1>1, <1>3, <1>5 DEF Near


\* A step outside the search and after it that keeps the steps of the plan.
LEMMA DepthStays ==
    ASSUME PlanInv, DepthInv, UNCHANGED <<drafted, steps, refusal>>,
           at' \in {"sort"} \cup After => at \in {"sort"} \cup After,
           at' \notin {"depth", "dfs"},
           at' \in {"persist", "activate", "planned"} =>
             \/ at \in {"persist", "activate", "planned"}
             \/ at = "depth" /\ left = {}
    PROVE  DepthInv'
<1>1. /\ K' = K /\ \A k : DependsOn(k)' = DependsOn(k) /\ \A j : Near(j)' <=> Near(j)
    BY SameWays
<1>2. at' \in {"sort"} \cup After => \A k \in K' : DependsOn(k)' \subseteq K'
    BY <1>1 DEF DepthInv
<1>3. at' \in {"persist", "activate", "planned"} =>
         \A i \in DOMAIN steps' : Near(steps[i].key)'
  <2> SUFFICES ASSUME at' \in {"persist", "activate", "planned"}, NEW i \in DOMAIN steps
               PROVE  Near(steps[i].key)'
    OBVIOUS
  <2>1. Near(steps[i].key)
    BY DEF DepthInv
  <2>. QED
    BY <2>1, <1>1
<1>. QED
    BY <1>2, <1>3 DEF DepthInv


\* Of the answer, only what is in it counts.
LEMMA SameAnswer ==
    ASSUME UNCHANGED drafted
    PROVE  Chains(Range(drafted.steps), Waits(drafted.steps), MaxDepth + 1)'
               = Chains(Range(drafted.steps), Waits(drafted.steps), MaxDepth + 1)
<1> DEFINE A(d) == Chains(Range(d.steps), Waits(d.steps), MaxDepth + 1)
<1>1. A(drafted)' = A(drafted')
    OBVIOUS
<1> HIDE DEF A
<1>2. A(drafted') = A(drafted)
    OBVIOUS
<1>. QED
    BY <1>1, <1>2 DEF A

LEMMA DepthRefusals ==
    ASSUME DepthInv, NEW s, NEW r, Refuse(s, r), r # "too deep"
    PROVE  DepthInv'
    BY DEF DepthInv, Refuse, After

\* The dependencies exist when the sort begins.
LEMMA KnownBegins ==
    ASSUME PlanInv, DepthInv, DependenciesExist, UNCHANGED <<drafted, steps, refusal>>, at' = "sort"
    PROVE  DepthInv'
<1>1. ASSUME NEW k \in K PROVE DependsOn(k) \subseteq K
  <2>1. PICK i \in DOMAIN steps : steps[i].key = k /\ Listed(k) = steps[i].depends_on
    BY ListedFacts DEF PlanInv
  <2>2. ToSet(steps[i].depends_on) \subseteq K
    BY DEF DependenciesExist, Range, K
  <2>. QED
    BY <2>1, <2>2 DEF DependsOn
<1>2. \A k \in K' : DependsOn(k)' \subseteq K'
    BY <1>1, SameSteps
<1>. QED
    BY <1>2 DEF DepthInv

\* The step whose turn it is.
LEMMA SearchBegins ==
    ASSUME PlanInv, DepthInv, NEW i \in left, DependencyDepth(i)
    PROVE  DepthInv'
<1>1. /\ at = "depth" /\ at' = "dfs" /\ UNCHANGED <<drafted, steps, refusal>>
      /\ left' = left \ {i} /\ root' = i /\ calls' = <<<<steps[i].key, 0>>>>
      /\ visited' = {} /\ deepest' = 0
    BY DEF DependencyDepth, Pass
<1> DEFINE j == steps[i].key
<1>2. i \in DOMAIN steps /\ left' \subseteq DOMAIN steps /\ j \in K
    BY <1>1 DEF DepthInv, K, KeysOf
<1> HIDE DEF j
<1>3. SearchOK(j, calls', visited', deepest')
  <2>1. calls' \in Seq(K \X Nat) /\ ToSet(calls') = {<<j, 0>>}
    <3>1. calls' = <<<<j, 0>>>> /\ <<j, 0>> \in K \X Nat
      BY <1>1, <1>2 DEF j
    <3>2. DOMAIN calls' = {1} /\ calls'[1] = <<j, 0>>
      BY <3>1
    <3>. QED
      BY <3>1, <3>2 DEF ToSet
  <2>2. Way(j, j, 0)
    BY <1>2, NoLinks
  <2>3. \A c \in ToSet(calls') : Way(j, c[1], c[2])
    BY <2>1, <2>2
  <2>4. \A k \in {j} \cup UNION {DependsOn(v) : v \in visited'} :
            k \in visited' \/ \E c \in ToSet(calls') : c[1] = k
    <3>1. UNION {DependsOn(v) : v \in {}} = {}
      OBVIOUS
    <3>2. <<j, 0>> \in ToSet(calls') /\ <<j, 0>>[1] = j
      BY <2>1
    <3>. QED
      BY <1>1, <3>1, <3>2
  <2>5. \A k \in visited' : \E n \in 0..deepest' : Way(j, k, n)
    BY <1>1
  <2>6. \E k \in K : Way(j, k, deepest')
    BY <1>1, <1>2, <2>2
  <2>. QED
    BY <1>1, <2>1, <2>3, <2>4, <2>5, <2>6 DEF SearchOK
<1>4. SearchOK(steps[root].key, calls, visited, deepest)'
  <2>1. SearchOK(j, calls', visited', deepest')
    BY <1>3
  <2>. QED
    BY <1>1, <1>3, SameWays DEF j
<1>5. \A k \in K' : DependsOn(k)' \subseteq K'
    BY <1>1, SameWays DEF DepthInv, After
<1>6. \A m \in DOMAIN steps' : Near(steps[m].key)' \/ m \in left' \/ m = root'
  <2> SUFFICES ASSUME NEW m \in DOMAIN steps, m \notin left, m # i
               PROVE  Near(steps[m].key)'
    BY <1>1
  <2>1. Near(steps[m].key)
    BY <1>1 DEF DepthInv
  <2>. QED
    BY <2>1, <1>1, SameWays
<1>. QED
    BY <1>1, <1>2, <1>4, <1>5, <1>6 DEF DepthInv

LEMMA DfsStep ==
    ASSUME PlanInv, DepthInv, Dfs
    PROVE  DepthInv'
<1>1. at = "dfs" /\ UNCHANGED <<drafted, steps, at, refusal, left, root>>
    BY DEF Dfs
<1>2. SearchOK(steps[root].key, calls', visited', deepest')
    BY <1>1, SearchGoesOn DEF PlanInv, DepthInv, After
<1>3. SearchOK(steps[root].key, calls, visited, deepest)'
    BY <1>1, <1>2, SameWays
<1>4. \A k \in K' : DependsOn(k)' \subseteq K'
    BY <1>1, SameWays DEF DepthInv, After
<1>5. \A m \in DOMAIN steps' : Near(steps[m].key)' \/ m \in left' \/ m = root'
  <2> SUFFICES ASSUME NEW m \in DOMAIN steps, m \notin left, m # root
               PROVE  Near(steps[m].key)'
    BY <1>1
  <2>1. Near(steps[m].key)
    BY <1>1 DEF DepthInv
  <2>. QED
    BY <2>1, <1>1, SameWays
<1>. QED
    BY <1>1, <1>3, <1>4, <1>5 DEF DepthInv

\* A search is over: either it found a chain that is too long, or its root is near all
\* that it waits for.
LEMMA DepthEnds ==
    ASSUME PlanInv, DepthInv, ValidateDepth
    PROVE  DepthInv'
<1>1. CASE Refuse("dfs", "too deep") /\ calls = <<>> /\ deepest > MaxDepth
  <2>1. at = "dfs" /\ at' = "raised" /\ UNCHANGED drafted
    BY <1>1 DEF Refuse
  <2>2. deepest \in Nat /\ \E k : Way(steps[root].key, k, deepest)
    BY <2>1 DEF DepthInv, SearchOK
  <2>3. Chains(Range(drafted.steps), Waits(drafted.steps), MaxDepth + 1) # {}
    BY <1>1, <2>2, DeepChain DEF PlanInv
  <2>. QED
    BY <2>1, <2>3, SameAnswer DEF DepthInv, After
<1>2. CASE Pass("dfs", "depth") /\ calls = <<>> /\ deepest <= MaxDepth /\ UNCHANGED <<steps, search>>
  <2>1. at = "dfs" /\ at' = "depth" /\ UNCHANGED <<drafted, steps, refusal, left>>
    BY <1>2 DEF Pass, search
  <2>2. SearchOK(steps[root].key, <<>>, visited, deepest)
    BY <1>2, <2>1 DEF DepthInv
  <2>3. Near(steps[root].key)
    BY <1>2, <2>2, SearchEnds
  <2>4. \A k \in K' : DependsOn(k)' \subseteq K'
    BY <2>1, SameWays DEF DepthInv, After
  <2>5. \A m \in DOMAIN steps' : Near(steps[m].key)' \/ m \in left'
    <3> SUFFICES ASSUME NEW m \in DOMAIN steps, m \notin left
                 PROVE  Near(steps[m].key)'
      BY <2>1
    <3>1. Near(steps[m].key)
      BY <2>1, <2>3 DEF DepthInv
    <3>. QED
      BY <2>1, <3>1, SameWays
  <2>. QED
    BY <2>1, <2>4, <2>5 DEF DepthInv
<1>3. CASE Pass("depth", "persist") /\ left = {} /\ UNCHANGED steps
  <2>1. at = "depth" /\ at' = "persist" /\ left = {} /\ UNCHANGED <<drafted, steps, refusal>>
    BY <1>3 DEF Pass
  <2>. QED
    BY <2>1, DepthStays DEF After
<1>. QED
    BY <1>1, <1>2, <1>3 DEF ValidateDepth

LEMMA DepthInductive ==
    /\ PlanInit => DepthInv
    /\ PlanInv /\ DepthInv /\ [PlanNext]_planVars => DepthInv'
<1>1. PlanInit => DepthInv
    BY DEF PlanInit, DepthInv, After
<1>2. ASSUME PlanInv, DepthInv, [PlanNext]_planVars PROVE DepthInv'
  <2>1. CASE Normalize
    <3>1. CASE Refuse("normalize", "needs a pipeline step")
      BY <1>2, <3>1, DepthRefusals
    <3>2. CASE ~Refuse("normalize", "needs a pipeline step")
      <4>1. at' = "keys" /\ UNCHANGED <<drafted, refusal>>
        BY <2>1, <3>2 DEF Normalize, Pass
      <4>. QED
        BY <1>2, <4>1, SameAnswer DEF DepthInv, After
    <3>. QED
      BY <3>1, <3>2
  <2>2. CASE ValidateKeys
    <3>1. CASE Refuse("keys", "key twice")
      BY <1>2, <3>1, DepthRefusals
    <3>2. CASE ~Refuse("keys", "key twice")
      <4>1. at' = "dependencies" /\ UNCHANGED <<drafted, steps, refusal>>
        BY <2>2, <3>2 DEF ValidateKeys, Pass
      <4>. QED
        BY <1>2, <4>1, DepthStays DEF After
    <3>. QED
      BY <3>1, <3>2
  <2>3. CASE ValidateDependencies
    <3>1. CASE Refuse("dependencies", "no such step")
      BY <1>2, <3>1, DepthRefusals
    <3>2. CASE ~Refuse("dependencies", "no such step")
      <4>1. at' = "sort" /\ DependenciesExist /\ UNCHANGED <<drafted, steps, refusal>>
        BY <2>3, <3>2 DEF ValidateDependencies, Pass
      <4>. QED
        BY <1>2, <4>1, KnownBegins
    <3>. QED
      BY <3>1, <3>2
  <2>4. CASE \E k \in Keys : Pop(k)
    <3>1. at = "sort" /\ at' = "sort" /\ UNCHANGED <<drafted, steps, refusal>>
      BY <2>4 DEF Pop
    <3>. QED
      BY <1>2, <3>1, DepthStays
  <2>5. CASE ValidateNoCycle
    <3>1. CASE Refuse("sort", "cycle")
      BY <1>2, <3>1, DepthRefusals
    <3>2. CASE ~Refuse("sort", "cycle")
      <4>1. at = "sort" /\ at' = "tools" /\ UNCHANGED <<drafted, steps, refusal>>
        BY <2>5, <3>2 DEF ValidateNoCycle, Pass
      <4>. QED
        BY <1>2, <4>1, DepthStays DEF After
    <3>. QED
      BY <3>1, <3>2
  <2>6. CASE ValidateTools
    <3>1. CASE Refuse("tools", "no such tool")
      BY <1>2, <3>1, DepthRefusals
    <3>2. CASE ~Refuse("tools", "no such tool")
      <4>1. at = "tools" /\ at' = "budgets" /\ UNCHANGED <<drafted, steps, refusal>>
        BY <2>6, <3>2 DEF ValidateTools, Pass
      <4>. QED
        BY <1>2, <4>1, DepthStays DEF After
    <3>. QED
      BY <3>1, <3>2
  <2>7. CASE ValidateBudgets
    <3>1. CASE Refuse("budgets", "over budget")
      BY <1>2, <3>1, DepthRefusals
    <3>2. CASE ~Refuse("budgets", "over budget")
      <4>1. /\ at = "budgets" /\ at' = "depth" /\ UNCHANGED <<drafted, steps, refusal>>
            /\ left' = DOMAIN steps
        BY <2>7, <3>2 DEF ValidateBudgets, Pass
      <4>2. \A k \in K' : DependsOn(k)' \subseteq K'
        BY <1>2, <4>1, SameWays DEF DepthInv, After
      <4>. QED
        BY <1>2, <4>1, <4>2 DEF DepthInv
    <3>. QED
      BY <3>1, <3>2
  <2>8. CASE (\E i \in left : DependencyDepth(i)) \/ Dfs \/ ValidateDepth
    BY <1>2, <2>8, SearchBegins, DfsStep, DepthEnds
  <2>9. CASE Persist
    <3>1. CASE Refuse("persist", "dependency twice")
      BY <1>2, <3>1, DepthRefusals
    <3>2. CASE ~Refuse("persist", "dependency twice")
      <4>1. at = "persist" /\ at' = "activate" /\ UNCHANGED <<drafted, steps, refusal>>
        BY <2>9, <3>2 DEF Persist, Pass
      <4>. QED
        BY <1>2, <4>1, DepthStays DEF After
    <3>. QED
      BY <3>1, <3>2
  <2>10. CASE MarkRootStepsReady
    <3>1. at = "activate" /\ at' = "planned" /\ UNCHANGED <<drafted, steps, refusal>>
      BY <2>10 DEF MarkRootStepsReady, Pass
    <3>. QED
      BY <1>2, <3>1, DepthStays DEF After
  <2>11. CASE UNCHANGED planVars
    <3>1. UNCHANGED <<drafted, steps, at, refusal, left, root, calls, visited, deepest>>
      BY <2>11 DEF planVars, search
    <3>2. \A k \in K' : at' \in {"sort"} \cup After => DependsOn(k)' \subseteq K'
      BY <1>2, <3>1, SameWays DEF DepthInv
    <3>3. at' = "dfs" => SearchOK(steps[root].key, calls, visited, deepest)'
      BY <1>2, <3>1, SameWays DEF DepthInv
    <3>4. \A m \in DOMAIN steps : Near(steps[m].key)' <=> Near(steps[m].key)
      BY <3>1, SameWays
    <3>. QED
      BY <1>2, <3>1, <3>2, <3>3, <3>4, SameAnswer DEF DepthInv
  <2>. QED
    BY <1>2, <2>1, <2>2, <2>3, <2>4, <2>5, <2>6, <2>7, <2>8, <2>9, <2>10, <2>11
       DEF PlanNext, Stop
<1>. QED
    BY <1>1, <1>2

\* A chain of an accepted plan stays in what is near its first step.
LEMMA AcceptedIsNear ==
    ASSUME PlanInv, DepthInv, at = "planned", NEW p \in Chains(rows, links, MaxDepth + 1)
    PROVE  \E n \in 0..MaxDepth : \E q \in Chains(rows, links, n) :
               q[0] = p[0] /\ q[n] = p[MaxDepth + 1]
<1>1. rows = K /\ links = Needs
    BY DEF PlanInv, Written, Needs
<1>2. MaxDepth \in Nat /\ MaxDepth + 1 \in Nat
    BY PlanningAssumption
<1>3. p[0] \in K
    BY <1>1, <1>2 DEF Chains
<1>4. PICK i \in DOMAIN steps : steps[i].key = p[0]
    BY <1>3 DEF K, KeysOf
<1>5. Near(p[0])
    BY <1>4 DEF DepthInv
<1>6. PICK V \in SUBSET K : /\ p[0] \in V /\ Closed(V)
                            /\ \A k \in V : \E n \in 0..MaxDepth : Way(p[0], k, n)
    BY <1>5 DEF Near
<1>7. p[MaxDepth + 1] \in V
    BY <1>1, <1>2, <1>6, ChainsStay
<1>. QED
    BY <1>1, <1>6, <1>7 DEF Way

\* For any answer of the model that fits the schema and any limits: what the validator
\* refuses a plan for is there, a cycle or a chain of more than max_dependency_depth links;
\* and an accepted plan has a chain of that many only between steps that a chain within
\* the limit connects too (PlanValidator._validate_no_cycle, _dependency_depth).
THEOREM VerdictsAreHonest == PlanSpec => []VerdictsHonest
<1>1. PlanInit => PlanInv /\ CycleInv /\ DepthInv
    BY PlanInitHolds, CycleInductive, DepthInductive
<1>2. PlanInv /\ CycleInv /\ DepthInv /\ [PlanNext]_planVars => PlanInv' /\ CycleInv' /\ DepthInv'
    BY PlanInductive, CycleInductive, DepthInductive
<1>3. PlanInv /\ CycleInv /\ DepthInv => VerdictsHonest
    BY AcceptedIsNear DEF CycleInv, DepthInv, VerdictsHonest
<1>. QED
    BY <1>1, <1>2, <1>3, PTL DEF PlanSpec

=============================================================================
