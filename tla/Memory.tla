------------------------------- MODULE Memory -------------------------------
(***************************************************************************)
(* What the butler knows about one user (agents/memory/service.py).        *)
(*                                                                         *)
(* After each answered message a side path extracts facts from it          *)
(* (agents/memory/extractor.py, _extract_fragments_side_path in            *)
(* agents/private_butler/graph.py) and counts them as fragments.  The      *)
(* third occurrence makes a profile of a fragment.  The user adds, changes *)
(* and deletes profiles through the tools of the butler, in the            *)
(* transaction of the message.  Side paths and messages of one user run at *)
(* the same time at READ COMMITTED; a flushed row is locked until its      *)
(* transaction ends, but what is written was read before.                  *)
(*                                                                         *)
(* Abstracted: a fact stands for texts of one meaning, a message holds     *)
(* one; confidence is counted in twentieths; importance only orders lists. *)
(* Texts of one meaning are compared by their vectors, and rows by type    *)
(* first.  The vector of a text is 0.0 similar to one of another length    *)
(* (knowledge/embedding.py), as when the API failed for one of them,       *)
(* and the two paths type a fact each in its own way: a row of the fact    *)
(* may be missed.                                                          *)
(***************************************************************************)
EXTENDS Integers, FiniteSets

CONSTANTS
    Facts,
    Opposite(_),    \* the similar fact of opposite polarity
    Txns,           \* transactions that may be open at the same time
    Nothing,        \* no row, no change
    MaxMentions,    \* bound: the number of messages that mention a fact
    MaxTools,       \* bound: the number of tool calls
    MaxFailures     \* bound: the number of failures

\* Rows of memory_fragments and of user_profiles.
Counts == Nat \ {0}
Rows == [id : Counts, fact : Facts, occurrences : Counts]
Known == [id : Counts, fact : Facts, source : {"explicit", "implicit"}, confidence : 1..20]

ASSUME BoundsAssumption == {MaxMentions, MaxTools, MaxFailures} \subseteq Nat
ASSUME FactsAssumption ==
    /\ Nothing \notin Facts \cup Rows \cup Known
    /\ \A f \in Facts : Opposite(f) \in Facts \cup {Nothing}

VARIABLES
    fragments,  \* committed rows of memory_fragments
    profiles,   \* committed rows of user_profiles
    txn,        \* what an open transaction has read and flushed
    nextId,     \* the next primary key
    heard,      \* the number of messages that mentioned a fact
    called,     \* the number of tool calls
    mentions,   \* history: side paths about a fact that were committed
    promoted,   \* history: occurrences of a fact that went into profiles
    raced,      \* history: facts of which two open side paths had read one fragment
    twinned,    \* history: facts of which two open transactions looked for a profile, or
                \* into which the user changed one
    missed,     \* history: facts that had a profile which was not found
    failures    \* history: the number of failures

history == <<mentions, promoted, raced, twinned, missed>>
memoryVars == <<fragments, profiles, txn, nextId, heard, called, history, failures>>

\* read and target are the rows that were loaded, frag, changes and gone what was flushed.
IdleTxn == [at |-> "idle", fact |-> Nothing, read |-> Nothing, target |-> Nothing,
            frag |-> {}, spent |-> FALSE, changes |-> {}, gone |-> {}]

MemoryInit ==
    /\ fragments = {} /\ profiles = {}
    /\ txn = [t \in Txns |-> IdleTxn]
    /\ nextId = 1 /\ heard = 0 /\ called = 0
    /\ mentions = [f \in Facts |-> 0] /\ promoted = [f \in Facts |-> 0]
    /\ raced = {} /\ twinned = {} /\ missed = {}
    /\ failures = 0

Failure == failures < MaxFailures /\ failures' = failures + 1

Ids(rows) == {r.id : r \in rows}
Least(a, b) == IF a < b THEN a ELSE b
Most(a, b) == IF a < b THEN b ELSE a

Flushed(t) == Ids(txn[t].frag) \cup Ids(txn[t].changes) \cup txn[t].gone

\* A row that another open transaction has flushed makes an UPDATE wait.
Locked(t, id) == \E u \in Txns \ {t} : id \in Flushed(u)

\* One column or more of a row, and a whole row.
Change(id) == [id |-> id, fact |-> Nothing, source |-> Nothing, confidence |-> 0]
Profile(id, f, s, c) == [id |-> id, fact |-> f, source |-> s, confidence |-> c]

\* What a transaction has read and flushed after a statement.
Becomes(t, T) == txn' = [txn EXCEPT ![t] = T]

Abort(t) == Becomes(t, IdleTxn)

----------------------------------------------------------------------------
(* The side path                                                           *)

\* Stages 1 and 2: the profiles are summarised and the model finds a fact.  When it
\* finds none, or fails, nothing is written.
Extract(t, f) ==
    /\ txn[t].at = "idle"
    /\ heard < MaxMentions
    /\ heard' = heard + 1
    /\ Becomes(t, [IdleTxn EXCEPT !.at = "extracted", !.fact = f])
    /\ UNCHANGED <<fragments, profiles, nextId, called, history, failures>>

Similar(f) == {r \in fragments : r.fact = f}

\* Two side paths that have read one row will both write its count.
Shares(t, r) == \E u \in Txns \ {t} : txn[u].read = r \/ r.id \in Flushed(u)

\* _find_similar_fragment: any of the similar rows may come first, or none.
Find(t) ==
    /\ txn[t].at = "extracted"
    /\ LET f == txn[t].fact IN
         \/ Becomes(t, [txn[t] EXCEPT !.at = "found"]) /\ UNCHANGED raced
         \/ \E r \in Similar(f) :
              /\ Becomes(t, [txn[t] EXCEPT !.at = "found", !.read = r])
              /\ raced' = IF Shares(t, r) THEN raced \cup {f} ELSE raced
    /\ UNCHANGED <<fragments, profiles, nextId, heard, called, mentions, promoted,
                   twinned, missed, failures>>

\* Variant: the row is written whether it is still there or not, as by a merge.
CountAnyway(t) ==
    /\ txn[t].at = "found" /\ txn[t].read # Nothing
    /\ ~Locked(t, txn[t].read.id)
    /\ Becomes(t, [txn[t] EXCEPT !.at = "counted", !.read = Nothing,
                               !.frag = {[txn[t].read EXCEPT !.occurrences = @ + 1]}])
    /\ UNCHANGED <<fragments, profiles, nextId, heard, called, history, failures>>

\* add_fragment, known: occurrences is written as it was read, plus one.
Count(t) ==
    /\ txn[t].at = "found" /\ txn[t].read # Nothing
    /\ ~Locked(t, txn[t].read.id)
    /\ txn[t].read.id \in Ids(fragments)
    /\ Becomes(t, [txn[t] EXCEPT !.at = "counted", !.read = Nothing,
                               !.frag = {[txn[t].read EXCEPT !.occurrences = @ + 1]}])
    /\ UNCHANGED <<fragments, profiles, nextId, heard, called, history, failures>>

\* add_fragment, new.
Note(t) ==
    /\ txn[t].at = "found" /\ txn[t].read = Nothing
    /\ Becomes(t, [txn[t] EXCEPT !.at = "counted",
         !.frag = {[id |-> nextId, fact |-> txn[t].fact, occurrences |-> 1]}])
    /\ nextId' = nextId + 1
    /\ UNCHANGED <<fragments, profiles, heard, called, history, failures>>

\* The row was promoted and deleted meanwhile: the UPDATE matches nothing and raises,
\* which ends the side path with a line in the log.
Stale(t) ==
    /\ txn[t].at = "found" /\ txn[t].read # Nothing
    /\ ~Locked(t, txn[t].read.id)
    /\ txn[t].read.id \notin Ids(fragments)
    /\ Abort(t)
    /\ UNCHANGED <<fragments, profiles, nextId, heard, called, history, failures>>

\* detect_contradiction: the profiles that are sure enough, 0.6, and say the opposite.
\* Its vector may be of another length here as well.
Contradicted(f) == {p \in profiles : p.confidence >= 12 /\ p.fact = Opposite(f)}

Doubt(t) ==
    /\ txn[t].at = "counted"
    /\ \/ Becomes(t, [txn[t] EXCEPT !.at = "checked"])
       \/ \E p \in Contradicted(txn[t].fact) :
            Becomes(t, [txn[t] EXCEPT !.at = "doubting", !.target = p])
    /\ UNCHANGED <<fragments, profiles, nextId, heard, called, history, failures>>

\* Its confidence loses 0.15 of what was read, down to 0.3.  A profile that was
\* deleted meanwhile raises.
Lower(t) ==
    /\ txn[t].at = "doubting"
    /\ LET p == txn[t].target IN
         /\ ~Locked(t, p.id)
         /\ \/ /\ p.id \in Ids(profiles)
               /\ Becomes(t, [txn[t] EXCEPT !.at = "checked", !.target = Nothing, !.changes =
                    {[Change(p.id) EXCEPT !.confidence = Most(6, p.confidence - 3)]}])
            \/ p.id \notin Ids(profiles) /\ Abort(t)
    /\ UNCHANGED <<fragments, profiles, nextId, heard, called, history, failures>>

\* aggregate_fragments with nothing to promote.
NotYet(t) ==
    /\ txn[t].at = "checked"
    /\ \A r \in txn[t].frag : r.occurrences < 3
    /\ Becomes(t, [txn[t] EXCEPT !.at = "done"])
    /\ UNCHANGED <<fragments, profiles, nextId, heard, called, history, failures>>

\* Variant: only profiles that were inferred are looked for.
FoundImplicit(f) == {p \in profiles : p.fact = f /\ p.source = "implicit"}

\* _find_profile_by_content, when vectors and types can be compared.
Found(f) == {p \in profiles : p.fact = f}

\* Transactions that have looked for, or are about to insert, a profile of f.
Looking(f) == {t \in Txns : txn[t].fact = f /\ txn[t].at \in {"promoting", "adding", "done"}}

\* A transaction looks for a profile of f.  The first that is similar enough is taken, and
\* one may be missed.
Look(t, f, T) ==
    /\ \/ Found(f) = {} /\ Becomes(t, T) /\ UNCHANGED missed
       \/ \E p \in Found(f) : Becomes(t, [T EXCEPT !.target = p]) /\ UNCHANGED missed
       \/ Found(f) # {} /\ Becomes(t, T) /\ missed' = missed \cup {f}
    /\ twinned' = IF Looking(f) \ {t} = {} THEN twinned ELSE twinned \cup {f}

\* aggregate_fragments finds its own fragment: the others have fewer occurrences.
Ripe(t) ==
    /\ txn[t].at = "checked"
    /\ \E r \in txn[t].frag : r.occurrences >= 3
    /\ Look(t, txn[t].fact, [txn[t] EXCEPT !.at = "promoting"])
    /\ UNCHANGED <<fragments, profiles, nextId, heard, called, mentions, promoted,
                   raced, failures>>

\* A profile gains 0.15, or a new one gets 0.2 per occurrence; the fragment is deleted.
Promote(t) ==
    /\ txn[t].at = "promoting"
    /\ LET p == txn[t].target
           n == (CHOOSE r \in txn[t].frag : TRUE).occurrences IN
         \/ /\ p = Nothing
            /\ Becomes(t, [txn[t] EXCEPT !.at = "done", !.spent = TRUE, !.changes =
                 @ \cup {Profile(nextId, txn[t].fact, "implicit", Least(20, 4 * n))}])
            /\ nextId' = nextId + 1
         \/ /\ p # Nothing /\ ~Locked(t, p.id) /\ p.id \in Ids(profiles)
            /\ Becomes(t, [txn[t] EXCEPT !.at = "done", !.spent = TRUE, !.target = Nothing,
                 !.changes = @ \cup
                     {[Change(p.id) EXCEPT !.confidence = Least(20, p.confidence + 3)]}])
            /\ UNCHANGED nextId
         \/ /\ p # Nothing /\ ~Locked(t, p.id) /\ p.id \notin Ids(profiles)
            /\ Abort(t)
            /\ UNCHANGED nextId
    /\ UNCHANGED <<fragments, profiles, heard, called, history, failures>>

----------------------------------------------------------------------------
(* The tools of the butler                                                 *)

ToolCall == called < MaxTools /\ called' = called + 1

\* add_memory: upsert_profile looks for the fact,
AddMemory(t, f) ==
    /\ txn[t].at = "idle"
    /\ ToolCall
    /\ Look(t, f, [IdleTxn EXCEPT !.at = "adding", !.fact = f])
    /\ UNCHANGED <<fragments, profiles, nextId, heard, mentions, promoted, raced, failures>>

\* and writes it as explicit and sure.  The error of a deleted row goes to the model.
Upsert(t) ==
    /\ txn[t].at = "adding"
    /\ LET p == txn[t].target IN
         \/ /\ p = Nothing
            /\ Becomes(t, [txn[t] EXCEPT !.at = "done",
                 !.changes = {Profile(nextId, txn[t].fact, "explicit", 20)}])
            /\ nextId' = nextId + 1
         \/ /\ p # Nothing /\ ~Locked(t, p.id) /\ p.id \in Ids(profiles)
            /\ Becomes(t, [txn[t] EXCEPT !.at = "done", !.target = Nothing,
                 !.changes = {Profile(p.id, txn[t].fact, "explicit", 20)}])
            /\ UNCHANGED nextId
         \/ /\ p # Nothing /\ ~Locked(t, p.id) /\ p.id \notin Ids(profiles)
            /\ Abort(t)
            /\ UNCHANGED nextId
    /\ UNCHANGED <<fragments, profiles, heard, called, history, failures>>

\* delete_memory, by the primary key.
DeleteMemory(t, p) ==
    /\ txn[t].at = "idle"
    /\ ToolCall
    /\ ~Locked(t, p.id)
    /\ Becomes(t, [txn[t] EXCEPT !.at = "done", !.gone = {p.id}])
    /\ UNCHANGED <<fragments, profiles, nextId, heard, history, failures>>

\* update_memory, by the primary key: only the text of the profile changes.
ChangeMemory(t, p, f) ==
    /\ txn[t].at = "idle"
    /\ ToolCall
    /\ ~Locked(t, p.id)
    /\ Becomes(t, [txn[t] EXCEPT !.at = "done", !.changes = {[Change(p.id) EXCEPT !.fact = f]}])
    /\ twinned' = twinned \cup {f}
    /\ UNCHANGED <<fragments, profiles, nextId, heard, mentions, promoted, raced, missed,
                   failures>>

----------------------------------------------------------------------------
\* A row stands for as many mentions as it has occurrences.
Occurrences(rows) == UNION {{r.id} \X (1..r.occurrences) : r \in rows}

\* A changed row keeps the columns that were not written.
Applied(p, C) ==
    LET c == CHOOSE x \in C : x.id = p.id IN
    IF p.id \notin Ids(C) THEN p
    ELSE Profile(p.id, IF c.fact = Nothing THEN p.fact ELSE c.fact,
                 IF c.source = Nothing THEN p.source ELSE c.source,
                 IF c.confidence = 0 THEN p.confidence ELSE c.confidence)

CommitTxn(t) ==
    /\ txn[t].at = "done"
    /\ LET T == txn[t]
           kept == {r \in fragments : r.id \notin Ids(T.frag)} IN
         /\ fragments' = IF T.spent THEN kept ELSE kept \cup T.frag
         /\ profiles' = {Applied(p, T.changes) : p \in {q \in profiles : q.id \notin T.gone}}
                \cup {c \in T.changes : c.id \notin Ids(profiles)}
         /\ mentions' = [f \in Facts |-> mentions[f] + Cardinality({r \in T.frag : r.fact = f})]
         /\ promoted' = [f \in Facts |-> promoted[f] +
                IF T.spent THEN Cardinality(Occurrences({r \in T.frag : r.fact = f})) ELSE 0]
    /\ Becomes(t, IdleTxn)
    /\ UNCHANGED <<nextId, heard, called, raced, twinned, missed, failures>>

\* A statement or the commit raises, or the process dies.
TxnFails(t) ==
    /\ txn[t].at # "idle"
    /\ Failure
    /\ Abort(t)
    /\ UNCHANGED <<fragments, profiles, nextId, heard, called, history>>

MemoryNext == \E t \in Txns :
    \/ \E f \in Facts : Extract(t, f) \/ AddMemory(t, f)
    \/ Find(t) \/ Count(t) \/ Note(t) \/ Stale(t) \/ Doubt(t) \/ Lower(t)
    \/ NotYet(t) \/ Ripe(t) \/ Promote(t) \/ Upsert(t)
    \/ \E p \in profiles : DeleteMemory(t, p) \/ \E f \in Facts : ChangeMemory(t, p, f)
    \/ CommitTxn(t) \/ TxnFails(t)

MemorySpec == MemoryInit /\ [][MemoryNext]_memoryVars

----------------------------------------------------------------------------
MemoryTypeOK ==
    /\ \A r \in fragments : r \in Rows
    /\ \A p \in profiles : p \in Known
    /\ nextId \in Counts

\* The evidence for a fact is counted once: what the fragments hold and what became
\* profiles add up to the mentions that were committed.  Two side paths that write one
\* row may lose a mention, and nothing ever counts one twice, so that no profile comes
\* of fewer than three.
MentionsCounted == \A f \in Facts :
    LET held == Cardinality(Occurrences(Similar(f))) + promoted[f] IN
    /\ held <= mentions[f]
    /\ f \notin raced => held = mentions[f]

\* A fact has one profile, whether the user told it, it was inferred, or both, unless two
\* transactions looked for it at the same time, the user changed another into it, or a
\* lookup missed the one there was.
OneProfile == \A f \in Facts \ (twinned \cup missed) :
    Cardinality({p \in profiles : p.fact = f}) <= 1
=============================================================================
