-------------------------- MODULE Knowledge_proofs --------------------------
(***************************************************************************)
(* Theorems about the knowledge base, for any users, groups, texts,        *)
(* transactions and bounds.                                                *)
(***************************************************************************)
EXTENDS Knowledge, TLAPS

Busy(a) == adder[a].at # "idle"

\* What is in Chroma without a row: what was rolled back, and what a transaction
\* that has indexed it is about to commit.
Unbacked == vectors \ stored \subseteq
                undone \cup {adder[a].doc : a \in {b \in Adders : adder[b].at = "answered"}}

\* What has or is about to have chunks without a vector was reported as failed.
Accounted(d) == d \in vectors \cup disowned \/ text[d] \in Blank
Unindexable ==
    /\ \A d \in stored : Accounted(d)
    /\ \A a \in Adders : adder[a].at = "answered" => Accounted(adder[a].doc)

\* A busy transaction is about a document that has a number.
Numbered == /\ \A d \in stored : d < fresh
            /\ \A a \in Adders : Busy(a) => adder[a].doc \in Docs /\ adder[a].doc < fresh

\* Documents with one text that are stored or may be were not known to each other.
Rivals(d, e) == d # e /\ text[d] = text[e] => d \in raced /\ e \in raced
Apart ==
    /\ \A d, e \in stored : Rivals(d, e)
    /\ \A d \in stored, a \in Adders : Busy(a) => Rivals(d, adder[a].doc)
    /\ \A a, b \in Adders : Busy(a) /\ Busy(b) => Rivals(adder[a].doc, adder[b].doc)

IInv == TypeOK /\ Unbacked /\ Unindexable /\ Numbered /\ Apart

----------------------------------------------------------------------------
\* What a search may return never depends on how the state came about: the two
\* filters agree with the scopes in every state (chroma_store._build_scope_filter,
\* KnowledgeService._build_scope_filter).
LEMMA FiltersScope == SearchScoped
<1> SUFFICES ASSUME NEW ask \in Asks, NEW result \in Results(ask), NEW d \in result
             PROVE  scope[d] \in {Public, IF ask.chat_type = "group" THEN ask.chat_id
                                                                     ELSE ask.user}
    BY DEF SearchScoped
<1>1. d \in Candidates(ask)
    BY DEF Results, Shortlists
<1>2. VectorFilter(d, ask) \/ SqlFilter(d, ask)
    BY <1>1 DEF Candidates, VectorHits, KeywordHits
<1>3. ask.chat_type = "single" => ask.chat_id = Nobody
    BY DEF Asks, ChatAsks, ResearchAsks
<1>4. scope[d] \in Users => scope[d] # Nobody
    BY ScopesAssumption DEF Scopes, Owners
<1>. QED
    BY <1>2, <1>3, <1>4 DEF VectorFilter, SqlFilter

\* A search of a user, a group or a research task returns public documents and its
\* own, whatever was added and whatever failed.
THEOREM SearchScopedHolds == Spec => []SearchScoped
<1>1. SearchScoped
    BY FiltersScope
<1>. QED
    BY <1>1, PTL

----------------------------------------------------------------------------
LEMMA InitHolds == Init => IInv
<1> SUFFICES ASSUME Init PROVE IInv
    OBVIOUS
<1>1. \A a \in Adders : adder[a] = Idle /\ ~Busy(a) /\ adder[a].at # "answered"
    BY DEF Init, Idle, Busy
<1>2. TypeOK
    BY BoundsAssumption DEF Init, TypeOK, Idle, Docs
<1>. QED
    BY <1>1, <1>2 DEF Init, IInv, Unbacked, Unindexable, Numbered, Apart

\* A step of a transaction leaves the others alone.
LEMMA Frame ==
    ASSUME TypeOK, NEW a \in Adders, NEW r, adder' = [adder EXCEPT ![a] = r]
    PROVE  adder'[a] = r /\ \A b \in Adders \ {a} : adder'[b] = adder[b]
BY DEF TypeOK

LEMMA CheckShape ==
    ASSUME TypeOK, Numbered, NEW a \in Adders, Check(a) PROVE TypeOK' /\ Numbered'
<1> DEFINE r == [at |-> "checked", doc |-> fresh]
<1>1. fresh \in Docs /\ fresh \in Nat /\ fresh' = fresh + 1 /\ fresh' \in 1..(MaxDocs + 1)
    BY BoundsAssumption DEF Check, TypeOK, Docs
<1>2. adder' = [adder EXCEPT ![a] = r]
    BY DEF Check
<1>3. adder'[a] = r /\ \A b \in Adders \ {a} : adder'[b] = adder[b]
    BY <1>2, Frame, Zenon
<1>4. adder' \in [Adders -> [at : {"idle", "checked", "answered"}, doc : Docs \cup {0}]]
    BY <1>1, <1>2 DEF TypeOK
<1>5. Adding \subseteq Docs
    BY DEF Adding, Numbered, Busy
<1>6. raced' \subseteq Docs
    BY <1>1, <1>5 DEF Check, TypeOK
<1>7. TypeOK'
    BY <1>1, <1>4, <1>6 DEF Check, TypeOK
<1>8. \A d \in stored' : d < fresh'
    BY <1>1, BoundsAssumption DEF Check, Numbered, TypeOK, Docs
<1>9. ASSUME NEW b \in Adders, Busy(b)' PROVE adder'[b].doc \in Docs /\ adder'[b].doc < fresh'
    <2>1. CASE b = a
        BY <2>1, <1>1, <1>3
    <2>2. CASE b # a
        <3>1. adder'[b] = adder[b] /\ Busy(b)
            BY <2>2, <1>3, <1>9 DEF Busy
        <3>. QED
            BY <3>1, <1>1, BoundsAssumption DEF Numbered, Docs
    <2>. QED
        BY <2>1, <2>2
<1>. QED
    BY <1>7, <1>8, <1>9 DEF Numbered

\* The steps that number no document and make no transaction busy.
LEMMA QuietShape ==
    ASSUME TypeOK, Numbered, NEW a \in Adders, Index(a) \/ Commit(a) \/ Fails(a)
    PROVE  TypeOK' /\ Numbered'
<1>1. Busy(a) /\ adder[a].doc \in Docs /\ adder[a].doc < fresh
    BY DEF Index, Commit, Fails, Numbered, Busy, Idle, TypeOK
<1>2. /\ adder' \in [Adders -> [at : {"idle", "checked", "answered"}, doc : Docs \cup {0}]]
      /\ \A b \in Adders : Busy(b)' => Busy(b) /\ adder'[b].doc = adder[b].doc
    <2>1. CASE adder' = [adder EXCEPT ![a] = Idle]
        BY <2>1 DEF TypeOK, Busy, Idle
    <2>2. CASE adder' = [adder EXCEPT ![a].at = "answered"]
        BY <2>2, <1>1 DEF TypeOK, Busy
    <2>. QED
        BY <2>1, <2>2 DEF Index, Unindexed, Commit, Fails
<1>3. /\ text' = text /\ scope' = scope /\ fresh' = fresh
      /\ stored' \subseteq stored \cup {adder[a].doc}
      /\ vectors' \subseteq vectors \cup {adder[a].doc}
      /\ undone' \subseteq undone \cup {adder[a].doc}
      /\ disowned' \subseteq disowned \cup {adder[a].doc} /\ raced' = raced
    BY DEF Index, Unindexed, Commit, Fails, history
<1>4. faults' \in Nat
    BY DEF Index, Unindexed, Commit, Fails, Fault, TypeOK
<1>5. TypeOK'
    BY <1>1, <1>2, <1>3, <1>4 DEF TypeOK
<1>. QED
    BY <1>1, <1>2, <1>3, <1>5 DEF Numbered

LEMMA ShapeStep == TypeOK /\ Numbered /\ [Next]_vars => TypeOK' /\ Numbered'
<1> SUFFICES ASSUME TypeOK, Numbered, [Next]_vars PROVE TypeOK' /\ Numbered'
    OBVIOUS
<1>1. CASE Refuse
    <2>1. fresh' \in 1..(MaxDocs + 1) /\ fresh' = fresh + 1 /\ fresh \in Nat
        BY <1>1, BoundsAssumption DEF Refuse, TypeOK, Docs
    <2>2. UNCHANGED <<text, scope, stored, vectors, adder, undone, disowned, raced, faults>>
        BY <1>1 DEF Refuse, history
    <2>. QED
        BY <2>1, <2>2, BoundsAssumption DEF TypeOK, Numbered, Busy, Docs
<1>2. CASE UNCHANGED vars
    BY <1>2 DEF vars, history, TypeOK, Numbered, Busy
<1>. QED
    BY <1>1, <1>2, CheckShape, QuietShape DEF Next

\* The types of the state of the knowledge base.
THEOREM TypeHolds == Spec => []TypeOK
<1>1. Init => TypeOK /\ Numbered
    BY InitHolds DEF IInv
<1>. QED
    BY <1>1, ShapeStep, PTL DEF Spec

----------------------------------------------------------------------------
\* What a step writes to the stores, and to the history about them.
LEMMA StoresStep == TypeOK /\ Unbacked /\ Unindexable /\ [Next]_vars => Unbacked' /\ Unindexable'
<1> SUFFICES ASSUME TypeOK, Unbacked, Unindexable, [Next]_vars PROVE Unbacked' /\ Unindexable'
    OBVIOUS
<1>1. CASE Refuse \/ UNCHANGED vars
    BY <1>1 DEF Refuse, vars, history, Unbacked, Unindexable, Accounted
<1>2. ASSUME NEW a \in Adders, Check(a) PROVE Unbacked' /\ Unindexable'
    <2>1. adder'[a].at # "answered" /\ adder[a].at # "answered"
          /\ \A b \in Adders \ {a} : adder'[b] = adder[b]
        BY <1>2 DEF Check, Idle, TypeOK
    <2>2. UNCHANGED <<text, stored, vectors, undone, disowned>>
        BY <1>2 DEF Check
    <2>. QED
        BY <2>1, <2>2 DEF Unbacked, Unindexable, Accounted
<1>3. ASSUME NEW a \in Adders, Index(a) PROVE Unbacked' /\ Unindexable'
    <2>1. adder[a].at = "checked" /\ UNCHANGED <<text, stored, undone>>
        BY <1>3 DEF Index
    <2>2. \/ /\ adder' = [adder EXCEPT ![a].at = "answered"]
             /\ \/ vectors' = vectors \cup {adder[a].doc} /\ disowned' = disowned
                \/ vectors' = vectors /\ disowned' = disowned \cup {adder[a].doc}
                \/ vectors' = vectors /\ disowned' = disowned /\ text[adder[a].doc] \in Blank
          \/ /\ adder' = [adder EXCEPT ![a] = Idle]
             /\ vectors' = vectors /\ disowned' = disowned
        BY <1>3 DEF Index, Unindexed, HasChunks
    <2>3. \A b \in Adders \ {a} : adder'[b] = adder[b]
        BY <2>2 DEF TypeOK
    <2>4. CASE adder' = [adder EXCEPT ![a].at = "answered"]
        <3>1. adder'[a].at = "answered" /\ adder'[a].doc = adder[a].doc
            BY <2>4 DEF TypeOK
        <3>2. adder[a] # Idle /\ adder' # [adder EXCEPT ![a] = Idle]
            BY <2>1, <3>1 DEF Idle, TypeOK
        <3>3. Unbacked'
            BY <2>1, <2>2, <2>3, <3>1, <3>2 DEF Unbacked
        <3>4. \A d : Accounted(d) => Accounted(d)'
            BY <2>1, <2>2, <3>2 DEF Accounted
        <3>5. Accounted(adder[a].doc)'
            BY <2>1, <2>2, <3>1, <3>2 DEF Accounted
        <3>. QED
            BY <2>1, <2>3, <3>1, <3>3, <3>4, <3>5 DEF Unindexable, Accounted
    <2>5. CASE adder' = [adder EXCEPT ![a] = Idle] /\ vectors' = vectors /\ disowned' = disowned
        <3>1. adder'[a].at # "answered"
            BY <2>5 DEF TypeOK, Idle
        <3>. QED
            BY <2>1, <2>3, <2>5, <3>1 DEF Unbacked, Unindexable, Accounted
    <2>. QED
        BY <2>2, <2>4, <2>5
<1>4. ASSUME NEW a \in Adders, Commit(a) PROVE Unbacked' /\ Unindexable'
    <2>1. /\ stored' = stored \cup {adder[a].doc} /\ adder[a].at = "answered"
          /\ UNCHANGED <<text, vectors, undone, disowned>>
        BY <1>4 DEF Commit, history
    <2>2. adder'[a].at # "answered" /\ \A b \in Adders \ {a} : adder'[b] = adder[b]
        BY <1>4 DEF Commit, Idle, TypeOK
    <2>. QED
        BY <2>1, <2>2 DEF Unbacked, Unindexable, Accounted
<1>5. ASSUME NEW a \in Adders, Fails(a) PROVE Unbacked' /\ Unindexable'
    <2>1. /\ undone' = IF adder[a].at = "answered" THEN undone \cup {adder[a].doc} ELSE undone
          /\ UNCHANGED <<text, stored, vectors, disowned>>
        BY <1>5 DEF Fails
    <2>2. adder'[a].at # "answered" /\ \A b \in Adders \ {a} : adder'[b] = adder[b]
        BY <1>5 DEF Fails, Idle, TypeOK
    <2>. QED
        BY <2>1, <2>2 DEF Unbacked, Unindexable, Accounted
<1>. QED
    BY <1>1, <1>2, <1>3, <1>4, <1>5 DEF Next

\* The database and Chroma differ only by what failed or is under way
\* (KnowledgeService.ingest and the transactions it is called in).
THEOREM StoresAgreeHolds == Spec => []StoresAgree
<1>1. Init => TypeOK /\ Numbered /\ Unbacked /\ Unindexable
    BY InitHolds DEF IInv
<1>2. TypeOK /\ Unbacked /\ Unindexable => StoresAgree
    BY DEF Unbacked, Unindexable, Accounted, StoresAgree, Chunked, Adding
<1>. QED
    BY <1>1, <1>2, ShapeStep, StoresStep, PTL DEF Spec

----------------------------------------------------------------------------
\* The new document of a check has no stored rival; its open rivals are recorded.
LEMMA CheckApart ==
    ASSUME TypeOK, Numbered, Apart, NEW a \in Adders, Check(a) PROVE Apart'
<1>1. /\ UNCHANGED <<text, stored>> /\ Known(text[fresh], scope[fresh]) = {}
      /\ adder[a] = Idle /\ raced \subseteq raced'
    BY DEF Check
<1>2. adder'[a].doc = fresh /\ \A b \in Adders \ {a} : adder'[b] = adder[b]
    BY DEF Check, TypeOK
<1>3. \A d \in stored : text[d] # text[fresh]
    BY <1>1 DEF Known
<1>4. ASSUME NEW b \in Adders \ {a}, Busy(b), text[adder[b].doc] = text[fresh]
      PROVE  adder[b].doc \in raced' /\ fresh \in raced'
    <2>1. adder[b].doc \in {d \in Adding : text[d] = text[fresh]}
        BY <1>4 DEF Adding, Busy
    <2>. QED
        BY <2>1 DEF Check
<1>5. \A b \in Adders \ {a} : Busy(b)' => Busy(b)
    BY <1>2 DEF Busy
<1>6. \A d, e \in stored' : Rivals(d, e)'
    BY <1>1 DEF Apart, Rivals
<1>7. \A d \in stored', b \in Adders : Busy(b)' => Rivals(d, adder[b].doc)'
    BY <1>1, <1>2, <1>3, <1>5 DEF Apart, Rivals
<1>8. ASSUME NEW b \in Adders, NEW c \in Adders, Busy(b)', Busy(c)'
      PROVE  Rivals(adder[b].doc, adder[c].doc)'
    <2>1. CASE b = a /\ c = a
        BY <2>1 DEF Rivals
    <2>2. CASE b = a /\ c # a
        BY <2>2, <1>1, <1>2, <1>4, <1>5, <1>8 DEF Rivals
    <2>3. CASE b # a /\ c = a
        BY <2>3, <1>1, <1>2, <1>4, <1>5, <1>8 DEF Rivals
    <2>4. CASE b # a /\ c # a
        BY <2>4, <1>1, <1>2, <1>5, <1>8 DEF Apart, Rivals
    <2>. QED
        BY <2>1, <2>2, <2>3, <2>4
<1>. QED
    BY <1>6, <1>7, <1>8 DEF Apart

\* The other steps of a transaction make nobody busy and store only its document.
LEMMA QuietApart ==
    ASSUME TypeOK, Apart, NEW a \in Adders, Index(a) \/ Commit(a) \/ Fails(a) PROVE Apart'
<1>1. /\ UNCHANGED <<text, raced>> /\ Busy(a)
      /\ stored' \subseteq stored \cup {adder[a].doc}
    BY DEF Index, Commit, Fails, history, Busy
<1>2. \A b \in Adders : Busy(b)' => Busy(b) /\ adder'[b].doc = adder[b].doc
    <2>1. CASE adder' = [adder EXCEPT ![a] = Idle]
        BY <2>1 DEF TypeOK, Busy, Idle
    <2>2. CASE adder' = [adder EXCEPT ![a].at = "answered"]
        BY <2>2, <1>1 DEF TypeOK, Busy
    <2>. QED
        BY <2>1, <2>2 DEF Index, Unindexed, Commit, Fails
<1>3. \A d, e : Rivals(d, e)' <=> Rivals(d, e)
    BY <1>1 DEF Rivals
<1>4. \A d, e \in stored' : Rivals(d, e)
    BY <1>1 DEF Apart, Rivals
<1>5. \A d \in stored', b \in Adders : Busy(b) => Rivals(d, adder[b].doc)
    BY <1>1 DEF Apart, Rivals
<1>. QED
    BY <1>1, <1>2, <1>3, <1>4, <1>5 DEF Apart, Rivals

LEMMA ApartStep == TypeOK /\ Numbered /\ Apart /\ [Next]_vars => Apart'
<1> SUFFICES ASSUME TypeOK, Numbered, Apart, [Next]_vars PROVE Apart'
    OBVIOUS
<1>1. CASE Refuse \/ UNCHANGED vars
    BY <1>1 DEF Refuse, vars, history, Apart, Rivals, Busy
<1>. QED
    BY <1>1, CheckApart, QuietApart DEF Next

\* A text is stored twice only by transactions that looked for it while another was
\* open: the SELECT by checksum in KnowledgeService.ingest, without a constraint.
THEOREM StoredOnceHolds == Spec => []StoredOnce
<1>1. Init => TypeOK /\ Numbered /\ Apart
    BY InitHolds DEF IInv
<1>2. Apart => StoredOnce
    BY DEF Apart, Rivals, StoredOnce
<1>. QED
    BY <1>1, <1>2, ShapeStep, ApartStep, PTL DEF Spec
=============================================================================
