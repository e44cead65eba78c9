---------------------------- MODULE Conversation ----------------------------
(***************************************************************************)
(* The memory of one user's private conversation (memory/conversation.py)  *)
(* as the turns of PrivateButlerAgent.handle use it                        *)
(* (agents/private_butler/graph.py): a turn reads the summary and the last *)
(* exchanges, lets the model answer, saves the exchange, and when more     *)
(* than Keep exchanges are stored has the model merge the oldest Batch of  *)
(* them into the summary.  Messages of one user are handled at the same    *)
(* time, each in a transaction of its own at READ COMMITTED, which the     *)
(* callback commits after the reply was sent.                              *)
(*                                                                         *)
(* An exchange is the two messages of a turn, numbered in the order of     *)
(* their created_at; a summary is the set of exchanges it covers.          *)
(* Commands about research tasks are answered without an exchange.         *)
(***************************************************************************)
EXTENDS Naturals, FiniteSets

CONSTANTS
    Workers,        \* turns that may be handled at the same time
    None,           \* no worker
    Keep,           \* MAX_MESSAGES, in exchanges
    Window,         \* WINDOW_SIZE
    Batch,          \* COMPRESS_BATCH
    MaxExchanges,   \* bound: exchanges are numbered 1..MaxExchanges
    MaxFaults       \* bound: the number of faults

Exchanges == 1..MaxExchanges

\* 12 + 12 <= 24 messages
ASSUME SizesAssumption ==
    /\ {Keep, Window, MaxExchanges, MaxFaults} \subseteq Nat
    /\ Batch \in Nat \ {0}
    /\ Window + Batch <= Keep
ASSUME NoneAssumption == None \notin Workers

VARIABLES
    rows,       \* committed exchanges in conversation_messages
    summary,    \* the exchanges that the summary covers; none while it has no row
    turn,       \* what a worker's turn has done
    locker,     \* the worker whose uncommitted write locks the summary's row, or None
    clock,      \* the last exchange that was numbered
    committed,  \* history: exchanges that were ever committed
    crossed,    \* history: a summary was merged from one that was not the last
    faults      \* history: the number of faults

vars == <<rows, summary, turn, locker, clock, committed, crossed, faults>>

Idle == [at |-> "idle", own |-> 0, old |-> {}, base |-> {}, merged |-> {}]

Init ==
    /\ rows = {} /\ summary = {}
    /\ turn = [w \in Workers |-> Idle]
    /\ locker = None
    /\ clock = 0
    /\ committed = {} /\ crossed = FALSE
    /\ faults = 0

Fault == faults < MaxFaults /\ faults' = faults + 1

\* What the statements of a turn see: what is committed and its own exchange.
Visible(w) == rows \cup {turn[w].own}

\* Variant: descending, as get_context orders them.
Newest(S) == {e \in S : Cardinality({f \in S : f > e}) < Batch}

\* order_by(created_at.asc()).limit(COMPRESS_BATCH)
Oldest(S) == {e \in S : Cardinality({f \in S : f < e}) < Batch}

\* The last exchanges, as get_context reads them for the model.
Recent(S) == {e \in S : Cardinality({f \in S : f > e}) < Window}

\* What call_model shows to the model besides the new message.
Prompt == [conversation_summary |-> summary, recent_messages |-> Recent(rows)]

----------------------------------------------------------------------------
\* The turn is answered, by the tools and the model or by the reminder agent alone,
\* and save_exchange flushes its two messages.
Save(w) ==
    /\ turn[w] = Idle
    /\ clock < MaxExchanges
    /\ clock' = clock + 1
    /\ turn' = [turn EXCEPT ![w] = [Idle EXCEPT !.at = "saved", !.own = clock + 1]]
    /\ UNCHANGED <<rows, summary, locker, committed, crossed, faults>>

\* Few messages: nothing to compress.
Enough(w) ==
    /\ turn[w].at = "saved"
    /\ Cardinality(Visible(w)) <= Keep
    /\ turn' = [turn EXCEPT ![w].at = "done"]
    /\ UNCHANGED <<rows, summary, locker, clock, committed, crossed, faults>>

\* The oldest messages are selected,
SelectOld(w) ==
    /\ turn[w].at = "saved"
    /\ Cardinality(Visible(w)) > Keep
    /\ turn' = [turn EXCEPT ![w] = [@ EXCEPT !.at = "selected", !.old = Oldest(Visible(w))]]
    /\ UNCHANGED <<rows, summary, locker, clock, committed, crossed, faults>>

\* then the summary, and the model is asked to merge them.
SelectSummary(w) ==
    /\ turn[w].at = "selected"
    /\ turn' = [turn EXCEPT ![w] = [@ EXCEPT !.at = "merging", !.base = summary]]
    /\ UNCHANGED <<rows, summary, locker, clock, committed, crossed, faults>>

\* The model fails, or answers nothing: the messages stay.
NoSummary(w) ==
    /\ turn[w].at = "merging"
    /\ Fault
    /\ turn' = [turn EXCEPT ![w] = [@ EXCEPT !.at = "done", !.old = {}]]
    /\ UNCHANGED <<rows, summary, locker, clock, committed, crossed>>

\* Variant: the new summary is of the old messages alone.
SummaryOfOld(w) == turn[w].old

\* The prompt holds the summary that was read and the old messages.
Merged(w) == turn[w].old \cup turn[w].base

\* The row of the summary is written, which waits for whoever wrote it before, and the
\* old messages are deleted by their ids.
Compress(w) ==
    /\ turn[w].at = "merging"
    /\ locker = None
    /\ turn[w].base # {} \/ summary = {}
    /\ turn' = [turn EXCEPT ![w] = [@ EXCEPT !.at = "done", !.merged = Merged(w)]]
    /\ locker' = w
    /\ crossed' = (crossed \/ turn[w].base # summary)
    /\ UNCHANGED <<rows, summary, clock, committed, faults>>

\* Two first summaries: user_id is unique, the INSERT raises.  _maybe_compress logs it,
\* but the session's transaction is gone and its commit will raise.
Collide(w) ==
    /\ turn[w].at = "merging"
    /\ locker = None
    /\ turn[w].base = {} /\ summary # {}
    /\ turn' = [turn EXCEPT ![w] = Idle]
    /\ UNCHANGED <<rows, summary, locker, clock, committed, crossed, faults>>

Unlocked(w) == IF locker = w THEN None ELSE locker

Commit(w) ==
    /\ turn[w].at = "done"
    /\ LET wrote == turn[w].merged # {} IN
         /\ rows' = IF wrote THEN Visible(w) \ turn[w].old ELSE Visible(w)
         /\ summary' = IF wrote THEN turn[w].merged ELSE summary
    /\ committed' = committed \cup {turn[w].own}
    /\ turn' = [turn EXCEPT ![w] = Idle]
    /\ locker' = Unlocked(w)
    /\ UNCHANGED <<clock, crossed, faults>>

\* The message fails later on, its commit raises or the process dies.
Fails(w) ==
    /\ turn[w].at # "idle"
    /\ Fault
    /\ turn' = [turn EXCEPT ![w] = Idle]
    /\ locker' = Unlocked(w)
    /\ UNCHANGED <<rows, summary, clock, committed, crossed>>

----------------------------------------------------------------------------
Turn(w) == \/ Save(w) \/ Enough(w) \/ SelectOld(w) \/ SelectSummary(w) \/ NoSummary(w)
           \/ Compress(w) \/ Collide(w) \/ Commit(w) \/ Fails(w)

Next == \E w \in Workers : Turn(w)

Spec == Init /\ [][Next]_vars

----------------------------------------------------------------------------
TypeOK ==
    /\ rows \in SUBSET Exchanges /\ committed \in SUBSET Exchanges
    /\ summary \in SUBSET Exchanges
    /\ turn \in [Workers -> [at : {"idle", "saved", "selected", "merging", "done"},
                             own : Exchanges \cup {0}, old : SUBSET Exchanges,
                             base : SUBSET Exchanges, merged : SUBSET Exchanges]]
    /\ locker \in Workers \cup {None}
    /\ clock \in Exchanges \cup {0}
    /\ crossed \in BOOLEAN /\ faults \in Nat

\* Nothing that was said is forgotten: an exchange is in its row until a summary
\* covers it, although it is selected, merged and deleted in three steps.  Only a
\* summary merged from one that another turn has replaced meanwhile may lose some.
NothingForgotten == ~crossed => committed \subseteq rows \cup summary

\* Compression never reaches into what the next turn is to read (get_context): the
\* last Window rows are the last Window exchanges there were, also when two turns
\* compress at once, and when the model fails.
WindowKept == Prompt.recent_messages = Recent(committed)
=============================================================================
