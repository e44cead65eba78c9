------------------------------ MODULE Knowledge ------------------------------
(***************************************************************************)
(* The knowledge base: documents are added by members of a chat through a  *)
(* tool of its agent (agents/private_butler/tools.py,                      *)
(* agents/group_mention/tools.py) or on the command line                   *)
(* (cli/ingest_knowledge.py), and searched for chats and research tasks    *)
(* (knowledge/service.py).  A document is rows in the database and vectors *)
(* in Chroma, a store without transactions (knowledge/chroma_store.py).    *)
(*                                                                         *)
(* A tool works in the transaction of the message it serves, which goes on *)
(* and commits although the tool failed; the command line has its own.     *)
(*                                                                         *)
(* Abstracted: a document is one chunk, since all of its chunks are written*)
(* and indexed together, or none; embeddings, scores and the ranking by an *)
(* LLM, so that a search may return any of its candidates; domains; titles.*)
(***************************************************************************)
EXTENDS Naturals, FiniteSets

CONSTANTS
    Users, Groups,   \* who owns private documents
    Public,          \* the scope that all may read
    Nobody,          \* no scope_id, which Chroma keeps as ""
    Contents,        \* texts, as their checksums tell them apart
    Blank,           \* texts without a paragraph, which have no chunk
    Adders,          \* transactions that may be adding at the same time
    Limit,           \* how many documents a search returns at most
    MaxDocs,         \* bound: documents are numbered 1..MaxDocs
    MaxFaults        \* bound: the number of faults

Owners == Users \cup Groups
Scopes == Owners \cup {Public}
Docs == 1..MaxDocs

ASSUME BoundsAssumption == {MaxDocs, MaxFaults, Limit} \subseteq Nat
ASSUME BlankAssumption == Blank \subseteq Contents
ASSUME ScopesAssumption ==
    /\ Users \cap Groups = {}
    /\ Public \notin Owners /\ Nobody \notin Scopes

VARIABLES
    text,       \* the text of a document, once its row is written
    scope,      \* its scope
    stored,     \* documents whose rows are committed
    vectors,    \* documents that are in Chroma
    adder,      \* what an adding transaction is about
    fresh,      \* the next number of a document
    undone,     \* history: documents rolled back after they were indexed
    disowned,   \* history: documents whose adding was reported as failed
    raced,      \* history: documents that were not known to each other's check
    faults      \* history: the number of faults

history == <<undone, disowned, raced>>
vars == <<text, scope, stored, vectors, adder, fresh, history, faults>>

Idle == [at |-> "idle", doc |-> 0]

Init ==
    /\ text \in [Docs -> Contents] /\ scope \in [Docs -> Scopes]
    /\ stored = {} /\ vectors = {}
    /\ adder = [a \in Adders |-> Idle]
    /\ fresh = 1
    /\ undone = {} /\ disowned = {} /\ raced = {}
    /\ faults = 0

Fault == faults < MaxFaults /\ faults' = faults + 1

----------------------------------------------------------------------------
(* Searching                                                               *)

\* The tools of a chat ask with its type, and in a group with its id.
ChatAsks ==
    [chat_type : {"single"}, user : Users, chat_id : {Nobody}]
        \cup [chat_type : {"group"}, user : Users, chat_id : Groups]

\* A research task asks as its user, without a chat (ResearchAccessScope).
ResearchAsks == [chat_type : {"single"}, user : Users, chat_id : {Nobody}]

Asks == ChatAsks \cup ResearchAsks

\* KnowledgeService._build_scope_filter
SqlFilter(d, ask) ==
    \/ scope[d] = Public
    \/ ask.chat_type = "group" /\ scope[d] = ask.chat_id
    \/ ask.chat_type = "single" /\ scope[d] = ask.user

\* Variant: the kind of the scope is compared, and not whose it is.
KindFilter(d, ask) ==
    \/ scope[d] = Public
    \/ ask.chat_type = "group" /\ scope[d] \in Groups

\* chroma_store._build_scope_filter.  It compares a user's scope with the chat's id,
\* the only id that search passes on.
VectorFilter(d, ask) ==
    \/ scope[d] = Public
    \/ ask.chat_type = "group" /\ scope[d] \in Groups /\ scope[d] = ask.chat_id
    \/ ask.chat_type = "single" /\ scope[d] \in Users /\ scope[d] = ask.chat_id

VectorHits(ask) == {d \in vectors : VectorFilter(d, ask)}

\* Rows of knowledge_chunks.
Chunked == {d \in stored : text[d] \notin Blank}

\* What the full text search goes over: PostgreSQL indexes the rows themselves, and
\* for SQLite ingest writes its table with them.
Indexed == Chunked

\* _keyword_search, which looks for substrings in the rows.
KeywordHits(ask) == {d \in Chunked : SqlFilter(d, ask)}

\* _coarse_retrieval: the rows behind the full text hits are filtered like the
\* others, the vectors by Chroma.  Nobody asks whether a vector still has its row.
Candidates(ask) ==
    VectorHits(ask) \cup {d \in Indexed : SqlFilter(d, ask)} \cup KeywordHits(ask)

\* The model rewrites the query and grades what was found: any choice may remain.
Shortlists(candidates) == {r \in SUBSET candidates : Cardinality(r) <= Limit}

\* KnowledgeService.search, and search_research with the user of the task.
Results(ask) == Shortlists(Candidates(ask))

----------------------------------------------------------------------------
(* Adding: KnowledgeService.ingest.                                        *)

\* Variant: the documents of the same scope.
KnownInScope(c, s) == {d \in stored : text[d] = c /\ scope[d] = s}

\* The documents with this checksum, in whatever scope.
Known(c, s) == {d \in stored : text[d] = c}

Adding == {adder[a].doc : a \in {b \in Adders : adder[b].at # "idle"}}

\* The check.  A number is used up even if the transaction fails.  With one known
\* document the answer is that it exists, with several scalar_one_or_none raises:
\* both times nothing is written.
Check(a) ==
    /\ adder[a] = Idle
    /\ fresh \in Docs
    /\ Known(text[fresh], scope[fresh]) = {}
    /\ adder' = [adder EXCEPT ![a] = [at |-> "checked", doc |-> fresh]]
    /\ fresh' = fresh + 1
    /\ LET rivals == {d \in Adding : text[d] = text[fresh]} IN
         raced' = IF rivals = {} THEN raced ELSE raced \cup rivals \cup {fresh}
    /\ UNCHANGED <<text, scope, stored, vectors, undone, disowned, faults>>

\* The request is answered without a write.
Refuse ==
    /\ fresh \in Docs
    /\ Known(text[fresh], scope[fresh]) # {}
    /\ fresh' = fresh + 1
    /\ UNCHANGED <<text, scope, stored, vectors, adder, history, faults>>

HasChunks(a) == text[adder[a].doc] \notin Blank

\* Variant: an error of Chroma is logged, as it is when searching.
IndexQuietly(a) ==
    /\ adder[a].at = "checked"
    /\ adder' = [adder EXCEPT ![a].at = "answered"]
    /\ \/ HasChunks(a) /\ vectors' = vectors \cup {adder[a].doc} /\ UNCHANGED faults
       \/ HasChunks(a) /\ Fault /\ UNCHANGED vectors
       \/ ~HasChunks(a) /\ UNCHANGED <<vectors, faults>>
    /\ UNCHANGED <<text, scope, stored, fresh, history>>

\* Embedding or Chroma raises, the vectors of another dimension that the fallback
\* computes included.  The tool answers that adding failed and leaves the rows in the
\* transaction; the command line ends without a commit.
Unindexed(a) ==
    /\ Fault
    /\ \/ /\ disowned' = disowned \cup {adder[a].doc}
          /\ adder' = [adder EXCEPT ![a].at = "answered"]
       \/ /\ adder' = [adder EXCEPT ![a] = Idle]
          /\ UNCHANGED disowned
    /\ UNCHANGED vectors

\* The rows are flushed, the texts embedded and the vectors put into Chroma, unless
\* there is no chunk.
Index(a) ==
    /\ adder[a].at = "checked"
    /\ \/ /\ HasChunks(a)
          /\ vectors' = vectors \cup {adder[a].doc}
          /\ adder' = [adder EXCEPT ![a].at = "answered"]
          /\ UNCHANGED <<disowned, faults>>
       \/ HasChunks(a) /\ Unindexed(a)
       \/ /\ ~HasChunks(a)
          /\ adder' = [adder EXCEPT ![a].at = "answered"]
          /\ UNCHANGED <<vectors, disowned, faults>>
    /\ UNCHANGED <<text, scope, stored, fresh, undone, raced>>

Commit(a) ==
    /\ adder[a].at = "answered"
    /\ stored' = stored \cup {adder[a].doc}
    /\ adder' = [adder EXCEPT ![a] = Idle]
    /\ UNCHANGED <<text, scope, vectors, fresh, history, faults>>

\* Anything raises after the tool, or the process dies: Chroma keeps what it has.
Fails(a) ==
    /\ adder[a].at # "idle"
    /\ Fault
    /\ adder' = [adder EXCEPT ![a] = Idle]
    /\ undone' = IF adder[a].at = "answered" THEN undone \cup {adder[a].doc} ELSE undone
    /\ UNCHANGED <<text, scope, stored, vectors, fresh, disowned, raced>>

----------------------------------------------------------------------------
Next == \/ Refuse
        \/ \E a \in Adders : Check(a) \/ Index(a) \/ Commit(a) \/ Fails(a)

Spec == Init /\ [][Next]_vars

----------------------------------------------------------------------------
TypeOK ==
    /\ text \in [Docs -> Contents] /\ scope \in [Docs -> Scopes]
    /\ stored \in SUBSET Docs /\ vectors \in SUBSET Docs
    /\ adder \in [Adders -> [at : {"idle", "checked", "answered"}, doc : Docs \cup {0}]]
    /\ fresh \in 1..(MaxDocs + 1)
    /\ {undone, disowned, raced} \subseteq SUBSET Docs
    /\ faults \in Nat

\* A search returns what is public or belongs to the chat that asks, on each of its paths: the
\* vectors carry a copy of the scope and are filtered by another query language
\* than the rows, and with the chat in the place of the user.
SearchScoped == \A ask \in Asks : \A result \in Results(ask) : \A d \in result :
    scope[d] \in {Public, IF ask.chat_type = "group" THEN ask.chat_id ELSE ask.user}

\* The two stores agree, but for what failed between them: a document with chunks and
\* without a vector was reported as not added (although it was), and a vector without a
\* document is of a transaction that is open or was rolled back.
StoresAgree ==
    /\ Chunked \ vectors \subseteq disowned
    /\ vectors \ stored \subseteq undone \cup Adding

\* A text is stored once, unless two transactions looked for it before either had
\* committed; from then on every ingest of it raises.
StoredOnce == \A d, e \in stored : d # e /\ text[d] = text[e] => {d, e} \subseteq raced
=============================================================================
