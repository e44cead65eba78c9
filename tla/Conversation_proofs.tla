------------------------ MODULE Conversation_proofs ------------------------
(***************************************************************************)
(* That nothing of a conversation is forgotten, and that compression       *)
(* leaves the window of the next turn alone, for any number of turns at a  *)
(* time, any sizes and any number of exchanges.  Then, for what the side   *)
(* path of a turn notes about the user: that a fact has one profile, and   *)
(* that its mentions are counted once.                                     *)
(***************************************************************************)
EXTENDS Conversation, Memory, FiniteSetTheorems, TLAPS

Stages == {"idle", "saved", "selected", "merging", "done"}

Numbers == Exchanges \cup {0}

\* What the argument needs of the types.
Shape ==
    /\ turn \in [Workers -> [at : Stages, own : Numbers, old : SUBSET Numbers,
                             base : SUBSET Numbers, merged : SUBSET Numbers]]
    /\ summary \in SUBSET Numbers /\ rows \in SUBSET Numbers
    /\ clock \in Numbers

\* Who has written a summary holds the lock of its row until the turn is over, and
\* what it wrote covers the committed summary and the messages it deleted.
Writing == \A w \in Workers : turn[w].merged # {} =>
    /\ turn[w].at = "done" /\ locker = w
    /\ ~crossed => summary \cup turn[w].old \subseteq turn[w].merged

IInv == Shape /\ Writing /\ NothingForgotten

----------------------------------------------------------------------------
LEMMA InitHolds == Init => IInv
<1> SUFFICES ASSUME Init PROVE IInv
    OBVIOUS
<1>1. turn = [w \in Workers |-> Idle] /\ Idle \in
          [at : Stages, own : Numbers, old : SUBSET Numbers,
           base : SUBSET Numbers, merged : SUBSET Numbers]
    BY DEF Init, Idle, Stages, Numbers
<1>2. Shape
    BY <1>1 DEF Init, Shape, Numbers
<1>3. Writing
    BY <1>1 DEF Writing, Idle
<1>. QED
    BY <1>2, <1>3 DEF Init, IInv, NothingForgotten

LEMMA ShapeStep == Shape /\ [Next]_vars => Shape'
<1> SUFFICES ASSUME Shape, [Next]_vars PROVE Shape'
    OBVIOUS
<1> USE DEF Shape, Stages
<1>1. CASE UNCHANGED vars
    BY <1>1 DEF vars
<1>2. ASSUME NEW w \in Workers, Turn(w) PROVE Shape'
    <2>1. /\ turn[w].own \in Numbers /\ turn[w].old \in SUBSET Numbers
          /\ turn[w].base \in SUBSET Numbers /\ turn[w].merged \in SUBSET Numbers
          /\ Visible(w) \in SUBSET Numbers
        BY DEF Visible
    <2>2. CASE Save(w)
        <3>1. clock' \in Numbers /\ clock + 1 \in Numbers
            BY <2>2, SizesAssumption DEF Save, Exchanges, Numbers
        <3>2. [Idle EXCEPT !.at = "saved", !.own = clock + 1] \in
                  [at : Stages, own : Numbers, old : SUBSET Numbers,
                   base : SUBSET Numbers, merged : SUBSET Numbers]
            BY <3>1 DEF Idle
        <3>. QED
            BY <2>2, <3>1, <3>2 DEF Save
    <2>3. CASE Enough(w) \/ SelectSummary(w) \/ NoSummary(w)
        <3>1. /\ [turn[w] EXCEPT !.at = "merging", !.base = summary] \in
                   [at : Stages, own : Numbers, old : SUBSET Numbers,
                    base : SUBSET Numbers, merged : SUBSET Numbers]
              /\ [turn[w] EXCEPT !.at = "done", !.old = {}] \in
                   [at : Stages, own : Numbers, old : SUBSET Numbers,
                    base : SUBSET Numbers, merged : SUBSET Numbers]
            OBVIOUS
        <3>2. CASE Enough(w)
            BY <3>2 DEF Enough
        <3>3. CASE SelectSummary(w)
            BY <3>1, <3>3 DEF SelectSummary
        <3>4. CASE NoSummary(w)
            BY <3>1, <3>4 DEF NoSummary
        <3>. QED
            BY <2>3, <3>2, <3>3, <3>4
    <2>4. CASE SelectOld(w)
        BY <2>1, <2>4 DEF SelectOld, Oldest
    <2>5. CASE Compress(w)
        BY <2>1, <2>5 DEF Compress, Merged
    <2>6. Idle \in [at : Stages, own : Numbers, old : SUBSET Numbers,
                    base : SUBSET Numbers, merged : SUBSET Numbers]
        BY DEF Idle, Numbers
    <2>7. CASE Collide(w) \/ Fails(w)
        BY <2>6, <2>7 DEF Collide, Fails
    <2>8. CASE Commit(w)
        BY <2>1, <2>6, <2>8 DEF Commit
    <2>. QED
        BY <1>2, <2>2, <2>3, <2>4, <2>5, <2>7, <2>8 DEF Turn
<1>. QED
    BY <1>1, <1>2 DEF Next

\* A step of one turn leaves the others alone.
LEMMA OneTurn ==
    ASSUME Shape, NEW w \in Workers, Turn(w)
    PROVE  \A v \in Workers \ {w} : turn'[v] = turn[v]
BY DEF Turn, Save, Enough, SelectOld, SelectSummary, NoSummary, Compress, Collide,
       Commit, Fails, Shape

LEMMA WritingStep == IInv /\ [Next]_vars => Writing'
<1> SUFFICES ASSUME IInv, [Next]_vars PROVE Writing'
    OBVIOUS
<1> USE DEF IInv
<1>1. CASE UNCHANGED vars
    BY <1>1 DEF vars, Writing
<1>2. ASSUME NEW w \in Workers, Turn(w) PROVE Writing'
    <2>1. \A v \in Workers \ {w} : turn'[v] = turn[v]
        BY <1>2, OneTurn
    \* Steps before anything is written: the turn has merged nothing.
    <2>2. CASE Save(w) \/ Enough(w) \/ SelectOld(w) \/ SelectSummary(w) \/ NoSummary(w)
        <3>0. turn[w].merged = {}
            <4>1. turn[w].at # "done"
                BY <2>2 DEF Save, Enough, SelectOld, SelectSummary, NoSummary, Idle
            <4>. QED
                BY <4>1 DEF Writing
        <3>1. turn'[w].merged = {}
            <4>1. CASE Save(w)
                BY <4>1 DEF Save, Shape, Idle
            <4>2. CASE Enough(w) \/ SelectOld(w) \/ SelectSummary(w) \/ NoSummary(w)
                BY <3>0, <4>2 DEF Enough, SelectOld, SelectSummary, NoSummary, Shape
            <4>. QED
                BY <2>2, <4>1, <4>2
        <3>2. UNCHANGED <<locker, crossed, summary>>
            BY <2>2 DEF Save, Enough, SelectOld, SelectSummary, NoSummary
        <3>. QED
            BY <2>1, <3>1, <3>2 DEF Writing
    <2>3. CASE Compress(w)
        <3>1. \A v \in Workers \ {w} : turn[v].merged = {}
            BY <2>3, NoneAssumption DEF Compress, Writing
        <3>2. /\ turn'[w].at = "done" /\ turn'[w].old = turn[w].old
              /\ turn'[w].merged = turn[w].old \cup turn[w].base
            BY <2>3 DEF Compress, Merged, Shape
        <3>3. locker' = w /\ summary' = summary /\ (~crossed' => turn[w].base = summary)
            BY <2>3 DEF Compress
        <3>. QED
            BY <2>1, <3>1, <3>2, <3>3 DEF Writing
    <2>4. CASE Commit(w) \/ Collide(w) \/ Fails(w)
        <3>1. turn'[w].merged = {}
            BY <2>4 DEF Commit, Collide, Fails, Idle, Shape
        <3>2. crossed' = crossed
            BY <2>4 DEF Commit, Collide, Fails
        <3>3. ASSUME NEW v \in Workers \ {w}, turn[v].merged # {}
              PROVE  locker' = v /\ summary' = summary
            <4>1. locker = v
                BY <3>3 DEF Writing
            <4>2. turn[w].merged = {}
                BY <4>1 DEF Writing
            <4>. QED
                BY <2>4, <4>1, <4>2 DEF Commit, Collide, Fails, Unlocked
        <3>. QED
            BY <2>1, <3>1, <3>2, <3>3 DEF Writing
    <2>. QED
        BY <1>2, <2>2, <2>3, <2>4 DEF Turn
<1>. QED
    BY <1>1, <1>2 DEF Next

LEMMA ForgottenStep == IInv /\ [Next]_vars => NothingForgotten'
<1> SUFFICES ASSUME IInv, [Next]_vars PROVE NothingForgotten'
    OBVIOUS
<1> USE DEF IInv
<1>1. CASE UNCHANGED vars
    BY <1>1 DEF vars, NothingForgotten
<1>2. ASSUME NEW w \in Workers, Turn(w) PROVE NothingForgotten'
    <2>1. CASE Commit(w)
        <3>1. committed' = committed \cup {turn[w].own} /\ crossed' = crossed
            BY <2>1 DEF Commit
        <3>2. CASE turn[w].merged = {}
            BY <2>1, <3>1, <3>2 DEF Commit, Visible, NothingForgotten
        <3>3. CASE turn[w].merged # {}
            <4>1. rows' = (rows \cup {turn[w].own}) \ turn[w].old /\ summary' = turn[w].merged
                BY <2>1, <3>3 DEF Commit, Visible
            <4>2. ~crossed => summary \cup turn[w].old \subseteq turn[w].merged
                BY <3>3 DEF Writing
            <4>. QED
                BY <3>1, <4>1, <4>2 DEF NothingForgotten
        <3>. QED
            BY <3>2, <3>3
    <2>2. CASE ~Commit(w)
        <3>1. UNCHANGED <<rows, summary, committed>> /\ (crossed => crossed')
            <4>1. CASE Compress(w)
                BY <4>1, Zenon DEF Compress
            <4>2. CASE ~Compress(w)
                BY <1>2, <2>2, <4>2 DEF Turn, Save, Enough, SelectOld, SelectSummary,
                                        NoSummary, Collide, Fails
            <4>. QED
                BY <4>1, <4>2
        <3>. QED
            BY <3>1 DEF NothingForgotten
    <2>. QED
        BY <2>1, <2>2
<1>. QED
    BY <1>1, <1>2 DEF Next

----------------------------------------------------------------------------
\* As long as no summary replaces one it was not merged from, every exchange is in
\* its row or covered by the summary (ConversationMemory._maybe_compress).
THEOREM NothingForgottenHolds == Spec => []NothingForgotten
<1>1. IInv /\ [Next]_vars => IInv'
    BY ShapeStep, WritingStep, ForgottenStep DEF IInv
<1>2. IInv => NothingForgotten
    BY DEF IInv
<1>. QED
    BY InitHolds, <1>1, <1>2, PTL DEF Spec


----------------------------------------------------------------------------
(***************************************************************************)
(* What a compression leaves alone.                                        *)
(***************************************************************************)

\* The rows newer than everything in S.
NewerThan(S, R) == {e \in R : \A d \in S : e > d}

\* Behind whatever was deleted, or is about to be, there is a whole window of rows.
WindowSafe ==
    /\ rows \subseteq committed /\ committed \subseteq Numbers
    /\ \A w \in Workers : turn[w].old # {} =>
          Cardinality(NewerThan(turn[w].old, rows)) >= Window
    /\ \A d \in committed \ rows : Cardinality(NewerThan({d}, rows)) >= Window

LEMMA NumbersFinite ==
  /\ Numbers \in SUBSET Nat
  /\ \A S \in SUBSET Numbers : IsFiniteSet(S) /\ Cardinality(S) \in Nat
<1>1. MaxExchanges \in Nat
  BY SizesAssumption
<1>2. IsFiniteSet(Exchanges)
  BY <1>1, FS_Interval DEF Exchanges
<1>3. IsFiniteSet(Numbers)
  BY <1>2, FS_AddElement DEF Numbers
<1>4. \A S \in SUBSET Numbers : IsFiniteSet(S)
  BY <1>3, FS_Subset
<1>5. \A S \in SUBSET Numbers : Cardinality(S) \in Nat
  BY <1>4, FS_CardinalityType
<1> QED
  BY <1>1, <1>4, <1>5 DEF Numbers, Exchanges

\* Of two sets of numbers closed upwards in R one contains the other.
LEMMA Nested ==
  ASSUME NEW R \in SUBSET Nat, NEW S \in SUBSET Nat, NEW T \in SUBSET Nat
  PROVE  \/ NewerThan(S, R) \subseteq NewerThan(T, R)
         \/ NewerThan(T, R) \subseteq NewerThan(S, R)
<1> SUFFICES ASSUME NEW a \in NewerThan(S, R), a \notin NewerThan(T, R)
             PROVE  NewerThan(T, R) \subseteq NewerThan(S, R)
  OBVIOUS
<1>1. PICK t \in T : ~(a > t)
  BY DEF NewerThan
<1>2. ASSUME NEW b \in NewerThan(T, R), NEW s \in S PROVE b > s
  <2>1. a \in Nat /\ b \in Nat /\ s \in Nat /\ t \in Nat
    BY <1>1 DEF NewerThan
  <2>2. b > t /\ a > s
    BY <1>1, <1>2 DEF NewerThan
  <2> QED
    BY <1>1, <2>1, <2>2
<1> QED
  BY <1>2 DEF NewerThan

\* The oldest of V are Batch at most, and older than the others.
LEMMA OldestFacts ==
  ASSUME NEW V \in SUBSET Nat, IsFiniteSet(V)
  PROVE  /\ IsFiniteSet(Oldest(V)) /\ Cardinality(Oldest(V)) <= Batch
         /\ \A e \in V \ Oldest(V), o \in Oldest(V) : e > o
<1> DEFINE Below(e) == {f \in V : f < e}
           count == [e \in Oldest(V) |-> Cardinality(Below(e))]
<1>1. \A e \in V : IsFiniteSet(Below(e)) /\ Cardinality(Below(e)) \in Nat
  BY FS_Subset, FS_CardinalityType
<1>2. ASSUME NEW e \in V, NEW g \in V, e < g
      PROVE  Cardinality(Below(e)) < Cardinality(Below(g))
  <2>0. \A f \in V : f \in Nat
    OBVIOUS
  <2>1. e \notin Below(e) /\ Below(e) \cup {e} \subseteq Below(g)
    <3>1. ASSUME NEW f \in Below(e) PROVE f \in Below(g)
      <4>1. f \in Nat /\ e \in Nat /\ g \in Nat /\ f < e
        BY <2>0, <3>1
      <4>2. f < g
        BY <1>2, <4>1
      <4> QED
        BY <3>1, <4>2
    <3>2. e \in Nat /\ ~(e < e) /\ e \in Below(g)
      BY <1>2, <2>0
    <3> QED
      BY <3>1, <3>2
  <2>2. Cardinality(Below(e) \cup {e}) = Cardinality(Below(e)) + 1
    BY <1>1, <2>1, FS_AddElement
  <2>3. Cardinality(Below(e) \cup {e}) <= Cardinality(Below(g))
    BY <1>1, <2>1, FS_Subset
  <2> QED
    BY <1>1, <2>2, <2>3
<1>3. Batch \in Nat \ {0}
  BY SizesAssumption
<1>4. Oldest(V) = {e \in V : Cardinality(Below(e)) < Batch}
  BY DEF Oldest
<1> HIDE DEF Below
<1>5. count \in Injection(Oldest(V), 0..(Batch - 1))
  <2>1. ASSUME NEW e \in Oldest(V) PROVE Cardinality(Below(e)) \in 0..(Batch - 1)
    <3>1. e \in V /\ Cardinality(Below(e)) < Batch
      BY <1>4
    <3>2. Cardinality(Below(e)) \in Nat
      BY <1>1, <3>1
    <3> QED
      BY <1>3, <3>1, <3>2
  <2>2. count \in [Oldest(V) -> 0..(Batch - 1)]
    BY <2>1
  <2>3. ASSUME NEW e \in Oldest(V), NEW g \in Oldest(V), count[e] = count[g]
        PROVE  e = g
    <3>1. e \in V /\ g \in V /\ e \in Nat /\ g \in Nat
      BY <1>4
    <3>2. ~(e < g) /\ ~(g < e)
      BY <1>1, <1>2, <2>3, <3>1
    <3> QED
      BY <3>1, <3>2
  <2> QED
    BY <2>2, <2>3 DEF Injection, IsInjective
<1>6. IsFiniteSet(0..(Batch - 1)) /\ Cardinality(0..(Batch - 1)) = Batch
  BY <1>3, FS_Interval
<1>7. IsFiniteSet(Oldest(V)) /\ Cardinality(Oldest(V)) <= Batch
  BY <1>5, <1>6, FS_Injection
<1>8. ASSUME NEW e \in V \ Oldest(V), NEW o \in Oldest(V) PROVE e > o
  <2>1. e \in V /\ o \in V /\ e \in Nat /\ o \in Nat
    BY <1>4
  <2>2. Cardinality(Below(o)) < Cardinality(Below(e))
    BY <1>1, <1>3, <1>4, <1>8, <2>1
  <2>3. e # o /\ ~(e < o)
    BY <1>1, <1>2, <2>1, <2>2
  <2> QED
    BY <2>1, <2>3
<1> QED
  BY <1>7, <1>8

\* Who selects the oldest messages leaves a window of committed ones, its own not counted.
LEMMA SelectionLeavesWindow ==
  ASSUME NEW R \in SUBSET Numbers, NEW own \in Numbers, Cardinality(R \cup {own}) > Keep
  PROVE  Cardinality(NewerThan(Oldest(R \cup {own}), R)) >= Window
<1> DEFINE V == R \cup {own}
           Rest == V \ Oldest(V)
<1>1. V \in SUBSET Numbers
  OBVIOUS
<1>2. V \in SUBSET Nat /\ IsFiniteSet(V) /\ Cardinality(V) \in Nat
  BY <1>1, NumbersFinite
<1>3. Oldest(V) \subseteq V
  BY DEF Oldest
<1>o. IsFiniteSet(Oldest(V)) /\ Cardinality(Oldest(V)) <= Batch
      /\ \A e \in Rest, o \in Oldest(V) : e > o
  BY <1>2, OldestFacts
<1>c. Cardinality(V) > Keep
  OBVIOUS
<1> HIDE DEF V
<1>4. Cardinality(Oldest(V)) \in Nat /\ IsFiniteSet(Rest) /\ Cardinality(Rest) \in Nat
  BY <1>o, <1>2, <1>3, FS_CardinalityType, FS_Subset
<1>5. Cardinality(V) = Cardinality(Oldest(V)) + Cardinality(Rest)
  <2>1. V = Oldest(V) \cup Rest /\ Oldest(V) \cap Rest = {}
    BY <1>3
  <2>2. Cardinality(Oldest(V) \cup Rest) =
          Cardinality(Oldest(V)) + Cardinality(Rest) - Cardinality(Oldest(V) \cap Rest)
    BY <1>o, <1>4, FS_Union
  <2>3. Cardinality(Oldest(V) \cap Rest) = 0
    BY <2>1, FS_EmptySet
  <2>4. Cardinality(V) = Cardinality(Oldest(V) \cup Rest)
    BY <2>1
  <2>5. Cardinality(Oldest(V) \cup Rest) = Cardinality(Oldest(V)) + Cardinality(Rest) - 0
    BY <2>2, <2>3
  <2> HIDE DEF Rest
  <2> QED
    BY <1>o, <1>4, <2>4, <2>5
<1>6. Cardinality(Rest) >= Window + 1
  <2> HIDE DEF Rest
  <2> QED
    BY <1>2, <1>4, <1>5, <1>o, <1>c, SizesAssumption
<1>7. /\ IsFiniteSet(Rest \ {own})
      /\ Cardinality(Rest \ {own}) =
           IF own \in Rest THEN Cardinality(Rest) - 1 ELSE Cardinality(Rest)
  BY <1>4, FS_RemoveElement
<1>8. Rest \ {own} \subseteq NewerThan(Oldest(V), R)
  BY <1>o DEF NewerThan, V
<1>9. IsFiniteSet(NewerThan(Oldest(V), R)) /\ Cardinality(NewerThan(Oldest(V), R)) \in Nat
  <2>1. NewerThan(Oldest(V), R) \in SUBSET Numbers
    BY DEF NewerThan
  <2> QED
    BY <2>1, NumbersFinite
<1>10. Cardinality(Rest \ {own}) <= Cardinality(NewerThan(Oldest(V), R))
  BY <1>8, <1>9, FS_Subset
<1>11. Window \in Nat
  BY SizesAssumption
<1> HIDE DEF Rest
<1>12. Cardinality(NewerThan(Oldest(V), R)) >= Window
  BY <1>4, <1>6, <1>7, <1>9, <1>10, <1>11
<1> QED
  BY <1>12 DEF V

\* A deletion of what has a window behind it leaves one behind everything else that had one.
LEMMA DeletionLeavesWindow ==
  ASSUME NEW R \in SUBSET Numbers, NEW own \in Numbers,
         NEW O \in SUBSET Numbers, O = {} \/ Cardinality(NewerThan(O, R)) >= Window,
         NEW S \in SUBSET Numbers, Cardinality(NewerThan(S, R)) >= Window
  PROVE  Cardinality(NewerThan(S, (R \cup {own}) \ O)) >= Window
<1> DEFINE Q == (R \cup {own}) \ O
           Both == NewerThan(S, R) \cap NewerThan(O, R)
<1>1. R \in SUBSET Nat /\ S \in SUBSET Nat /\ O \in SUBSET Nat
  BY NumbersFinite
<1>2. Both \subseteq NewerThan(S, Q)
  <2>1. ASSUME NEW e \in Both PROVE e \notin O
    <3>1. e \in Nat /\ \A d \in O : e > d
      BY <1>1, <2>1 DEF NewerThan
    <3> QED
      BY <3>1
  <2> QED
    BY <2>1 DEF NewerThan
<1>3. NewerThan(S, Q) \in SUBSET Numbers /\ NewerThan(S, R) \in SUBSET Numbers
      /\ NewerThan(O, R) \in SUBSET Numbers
  BY DEF NewerThan
<1>4. Both = NewerThan(S, R) \/ Both = NewerThan(O, R)
  BY <1>1, Nested
<1>5. Cardinality(Both) >= Window
  <2>1. CASE O = {}
    BY <2>1 DEF NewerThan
  <2>2. CASE O # {}
    BY <1>4, <2>2
  <2> QED
    BY <2>1, <2>2
<1>6. IsFiniteSet(NewerThan(S, Q)) /\ Cardinality(NewerThan(S, Q)) \in Nat
      /\ Cardinality(Both) \in Nat
  BY <1>3, NumbersFinite
<1>7. Cardinality(Both) <= Cardinality(NewerThan(S, Q))
  BY <1>2, <1>6, FS_Subset
<1>8. Window \in Nat
  BY SizesAssumption
<1> HIDE DEF Both, Q
<1>9. Cardinality(NewerThan(S, Q)) >= Window
  BY <1>5, <1>6, <1>7, <1>8
<1> QED
  BY <1>9 DEF Q

\* What a step does to the rows and to what turns have selected.
LEMMA WindowStep == Shape /\ WindowSafe /\ [Next]_vars => WindowSafe'
<1> SUFFICES ASSUME Shape, WindowSafe, [Next]_vars PROVE WindowSafe'
  OBVIOUS
<1>1. CASE UNCHANGED vars
  BY <1>1 DEF vars, WindowSafe
<1>2. ASSUME NEW w \in Workers, Turn(w) PROVE WindowSafe'
  <2>1. \A v \in Workers \ {w} : turn'[v] = turn[v]
    BY <1>2, OneTurn
  <2>2. turn[w].own \in Numbers /\ turn[w].old \in SUBSET Numbers /\ rows \in SUBSET Numbers
    BY DEF Shape
  \* Nothing is committed; the turn selects nothing, or a window of rows is left.
  <2>3. CASE UNCHANGED <<rows, committed>>
    <3>1. \/ turn'[w].old = {}
          \/ turn'[w].old = turn[w].old
          \/ Cardinality(NewerThan(turn'[w].old, rows)) >= Window
      <4>1. CASE SelectOld(w)
        <5>1. turn'[w].old = Oldest(rows \cup {turn[w].own})
          BY <4>1 DEF SelectOld, Visible, Shape
        <5>2. Cardinality(rows \cup {turn[w].own}) > Keep
          BY <4>1 DEF SelectOld, Visible
        <5> QED
          BY <2>2, <5>1, <5>2, SelectionLeavesWindow
      <4>2. CASE Save(w) \/ Collide(w) \/ Commit(w) \/ Fails(w)
        <5>1. CASE Save(w)
          BY <5>1 DEF Save, Shape, Idle
        <5>2. CASE Collide(w) \/ Commit(w) \/ Fails(w)
          <6>1. turn' = [turn EXCEPT ![w] = Idle]
            BY <5>2 DEF Collide, Commit, Fails
          <6> QED
            BY <6>1 DEF Shape, Idle
        <5> QED
          BY <4>2, <5>1, <5>2
      <4>3. CASE Enough(w) \/ SelectSummary(w) \/ Compress(w)
        BY <4>3 DEF Enough, SelectSummary, Compress, Shape
      <4>4. CASE NoSummary(w)
        BY <4>4 DEF NoSummary, Shape
      <4> QED
        BY <1>2, <4>1, <4>2, <4>3, <4>4 DEF Turn
    <3>2. ASSUME NEW v \in Workers, turn'[v].old # {}
          PROVE  Cardinality(NewerThan(turn'[v].old, rows)) >= Window
      <4>1. CASE v = w
        BY <3>1, <3>2, <4>1 DEF WindowSafe
      <4>2. CASE v # w
        BY <2>1, <3>2, <4>2 DEF WindowSafe
      <4> QED
        BY <4>1, <4>2
    <3> QED
      BY <2>3, <3>2 DEF WindowSafe
  <2>4. CASE Commit(w)
    <3> DEFINE Gone == IF turn[w].merged # {} THEN turn[w].old ELSE {}
    <3>1. /\ rows' = (rows \cup {turn[w].own}) \ Gone
          /\ committed' = committed \cup {turn[w].own}
          /\ turn'[w].old = {}
      <4>1. turn'[w].old = {}
        BY <2>4 DEF Commit, Idle, Shape
      <4>2. rows' = IF turn[w].merged # {} THEN (rows \cup {turn[w].own}) \ turn[w].old
                                         ELSE rows \cup {turn[w].own}
        BY <2>4 DEF Commit, Visible
      <4> QED
        BY <2>4, <4>1, <4>2 DEF Commit
    <3>2. Gone \in SUBSET Numbers
      BY <2>2
    <3>3. Gone = {} \/ Cardinality(NewerThan(Gone, rows)) >= Window
      BY DEF WindowSafe
    <3> HIDE DEF Gone
    <3>4. \A S \in SUBSET Numbers : Cardinality(NewerThan(S, rows)) >= Window =>
             Cardinality(NewerThan(S, rows')) >= Window
      BY <2>2, <3>1, <3>2, <3>3, DeletionLeavesWindow
    <3>5. rows' \subseteq committed' /\ committed' \subseteq Numbers
      BY <2>2, <3>1 DEF WindowSafe
    <3>6. ASSUME NEW v \in Workers, turn'[v].old # {}
          PROVE  Cardinality(NewerThan(turn'[v].old, rows')) >= Window
      <4>1. v # w /\ turn'[v] = turn[v]
        BY <2>1, <3>1, <3>6
      <4>2. turn[v].old \in SUBSET Numbers
        BY DEF Shape
      <4> QED
        BY <3>4, <3>6, <4>1, <4>2 DEF WindowSafe
    <3>7. ASSUME NEW d \in committed' \ rows'
          PROVE  Cardinality(NewerThan({d}, rows')) >= Window
      <4>1. {d} \in SUBSET Numbers
        BY <3>5
      <4>2. CASE d \in committed \ rows
        BY <3>4, <4>1, <4>2 DEF WindowSafe
      <4>3. CASE d \in Gone
        <5>1. NewerThan(Gone, rows') \subseteq NewerThan({d}, rows')
          BY <4>3 DEF NewerThan
        <5>2. Cardinality(NewerThan(Gone, rows')) >= Window
          BY <3>2, <3>3, <3>4, <4>3
        <5>3. NewerThan({d}, rows') \in SUBSET Numbers
                /\ NewerThan(Gone, rows') \in SUBSET Numbers
          BY <3>5 DEF NewerThan
        <5>4. /\ IsFiniteSet(NewerThan({d}, rows'))
              /\ Cardinality(NewerThan({d}, rows')) \in Nat
              /\ Cardinality(NewerThan(Gone, rows')) \in Nat
          BY <5>3, NumbersFinite
        <5>5. Cardinality(NewerThan(Gone, rows')) <= Cardinality(NewerThan({d}, rows'))
          BY <5>1, <5>4, FS_Subset
        <5>6. Window \in Nat
          BY SizesAssumption
        <5> QED
          BY <5>2, <5>4, <5>5, <5>6
      <4> QED
        BY <3>1, <4>2, <4>3
    <3> QED
      BY <3>5, <3>6, <3>7 DEF WindowSafe
  <2>5. Commit(w) \/ UNCHANGED <<rows, committed>>
    BY <1>2 DEF Turn, Save, Enough, SelectOld, SelectSummary, NoSummary, Compress, Collide,
                Fails
  <2> QED
    BY <2>3, <2>4, <2>5
<1> QED
  BY <1>1, <1>2 DEF Next

\* What lies behind a whole window of rows is in no window, neither of the rows nor of all
\* exchanges.
LEMMA WindowSafeImplies == Shape /\ WindowSafe => WindowKept
<1> SUFFICES ASSUME Shape, WindowSafe PROVE Recent(rows) = Recent(committed)
  BY DEF WindowKept, Prompt
<1> DEFINE After(e, S) == {f \in S : f > e}
<1>1. \A S \in SUBSET Numbers : Recent(S) = {e \in S : Cardinality(After(e, S)) < Window}
  BY DEF Recent
<1>2. rows \in SUBSET Numbers /\ committed \in SUBSET Numbers /\ rows \subseteq committed
  BY DEF Shape, WindowSafe
<1>3. \A e, S : S \in SUBSET Numbers => After(e, S) \in SUBSET Numbers
  OBVIOUS
<1>4. \A e : /\ IsFiniteSet(After(e, committed)) /\ After(e, rows) \subseteq After(e, committed)
             /\ Cardinality(After(e, committed)) \in Nat /\ Cardinality(After(e, rows)) \in Nat
  BY <1>2, <1>3, NumbersFinite
<1>5. \A e : Cardinality(After(e, rows)) <= Cardinality(After(e, committed))
  BY <1>4, FS_Subset
<1>6. ASSUME NEW d \in committed \ rows PROVE Cardinality(After(d, rows)) >= Window
  <2>1. NewerThan({d}, rows) = After(d, rows)
    BY DEF NewerThan
  <2> QED
    BY <2>1 DEF WindowSafe
<1>7. Window \in Nat
  BY SizesAssumption
<1>8. ASSUME NEW e \in committed, Cardinality(After(e, committed)) < Window
      PROVE  e \in rows /\ Cardinality(After(e, rows)) < Window
  <2> HIDE DEF After
  <2> QED
    BY <1>4, <1>5, <1>6, <1>7, <1>8
<1>9. ASSUME NEW e \in rows, Cardinality(After(e, rows)) < Window
      PROVE  Cardinality(After(e, committed)) < Window
  <2>1. ASSUME NEW d \in After(e, committed), d \notin rows PROVE FALSE
    <3>1. d \in committed \ rows /\ d \in Nat /\ e \in Nat /\ d > e
      BY <1>2, <2>1, NumbersFinite
    <3>2. After(d, rows) \subseteq After(e, rows)
      <4>1. ASSUME NEW f \in rows, f > d PROVE f > e
        <5>1. f \in Nat
          BY <1>2, NumbersFinite
        <5> QED
          BY <3>1, <4>1, <5>1
      <4> QED
        BY <4>1
    <3>3. IsFiniteSet(After(e, rows))
      BY <1>2, <1>3, NumbersFinite
    <3>4. Cardinality(After(d, rows)) <= Cardinality(After(e, rows))
      BY <3>2, <3>3, FS_Subset
    <3> HIDE DEF After
    <3> QED
      BY <1>4, <1>6, <1>7, <1>9, <3>1, <3>4
  <2>2. After(e, committed) = After(e, rows)
    BY <1>2, <2>1
  <2> QED
    BY <1>9, <2>2
<1> HIDE DEF After
<1>10. \A e : e \in Recent(rows) <=> e \in Recent(committed)
  BY <1>1, <1>2, <1>8, <1>9
<1>11. Recent(rows) \subseteq Recent(committed) /\ Recent(committed) \subseteq Recent(rows)
  BY <1>10
<1> QED
  BY <1>11

\* The prompt of a turn shows the last exchanges there were, whatever _maybe_compress has
\* deleted meanwhile, in however many turns at once: a compression of COMPRESS_BATCH leaves
\* WINDOW_SIZE behind it because it begins above MAX_MESSAGES.
THEOREM WindowKeptHolds == Spec => []WindowKept
<1>1. Init => Shape /\ WindowSafe
  <2> SUFFICES ASSUME Init PROVE WindowSafe
    BY InitHolds DEF IInv
  <2>1. \A w \in Workers : turn[w].old = {}
    BY DEF Init, Idle
  <2> QED
    BY <2>1 DEF Init, WindowSafe
<1>2. Shape /\ WindowSafe /\ [Next]_vars => (Shape /\ WindowSafe)'
  BY ShapeStep, WindowStep
<1> QED
  BY <1>1, <1>2, WindowSafeImplies, PTL DEF Spec

----------------------------------------------------------------------------
(***************************************************************************)
(* The memory of a user, module Memory.                                    *)
(*                                                                         *)
(* A transaction that is about to write a profile of a fact is the only    *)
(* one, and aims at the profile there is (Alone), or the fact is twinned   *)
(* or its profile was missed.                                              *)
(* That its row is still the one when it commits takes the row locks: what *)
(* it has flushed is flushed by nobody else, and new keys are unused       *)
(* (Isolated).                                                             *)
(***************************************************************************)
Columns == {"explicit", "implicit"}

\* A row of user_profiles, or some columns of one.
Changes == [id : Counts, fact : Facts \cup {Nothing}, source : Columns \cup {Nothing},
            confidence : 0..20]

Transactions ==
    [at : {"idle", "extracted", "found", "counted", "doubting", "checked", "promoting",
           "adding", "done"},
     fact : Facts \cup {Nothing}, read : Rows \cup {Nothing}, target : Known \cup {Nothing},
     frag : SUBSET Rows, spent : BOOLEAN, changes : SUBSET Changes,
     gone : SUBSET Counts]

MemoryTypes == MemoryTypeOK /\ txn \in [Txns -> Transactions]

\* What a transaction holds at each of its stages.
TxnShape(r) ==
    /\ r.at = "idle" => r = IdleTxn
    /\ r.at \notin {"idle", "done"} => r.fact \in Facts
    /\ r.at \in {"extracted", "found", "counted", "doubting", "adding"} => r.changes = {}
    /\ r.at # "done" => r.gone = {} /\ \A c \in r.changes : c.fact = Nothing
    /\ r.at \in {"extracted", "found", "counted", "checked"} => r.target = Nothing
    /\ r.at = "doubting" => r.target # Nothing
    /\ r.at = "promoting" => r.frag # {}
    /\ r.gone # {} => r.changes = {}
    /\ \A c, d \in r.changes : c.fact # Nothing /\ (d.fact # Nothing \/ d.id = c.id) => c = d

\* A change is about a row that is there and that nobody else changes or deletes, or it
\* is a new row.
Isolated ==
    /\ \A p, q \in profiles : p.id = q.id => p = q
    /\ \A p \in profiles : p.id < nextId
    /\ \A t \in Txns :
         /\ \A c \in txn[t].changes : /\ c.id < nextId
                                      /\ c.id \in Ids(profiles) \/ c \in Known
         /\ \A g \in txn[t].gone : g < nextId
         /\ \A u \in Txns \ {t} :
              \A c \in txn[t].changes :
                 c.id \notin Ids(txn[u].changes) \cup txn[u].gone

\* A transaction that is about to write a profile of f, or has written it.
Writes(r, f) ==
    \/ r.fact = f /\ r.at \in {"promoting", "adding"}
    \/ \E c \in r.changes : c.fact = f

\* What it writes replaces the profiles of f there are.
Aims(r, f) == \A p \in {q \in profiles : q.fact = f} :
    /\ r.fact = f /\ r.at \in {"promoting", "adding"} => r.target # Nothing /\ r.target.id = p.id
    /\ \A c \in r.changes : c.fact = f => c.id = p.id

Alone == \A f \in Facts \ (twinned \cup missed) :
    /\ \A p, q \in profiles : p.fact = f /\ q.fact = f => p = q
    /\ \A t \in Txns :
         Writes(txn[t], f) => /\ Aims(txn[t], f)
                              /\ txn[t].fact = f
                              /\ \A u \in Txns : Writes(txn[u], f) => u = t

MemoryInv == MemoryTypes /\ (\A t \in Txns : TxnShape(txn[t])) /\ Isolated /\ Alone

----------------------------------------------------------------------------
\* The absence of a row or of a change is told apart from all of them.
LEMMA NothingApart == Nothing \notin Facts \cup Known
    BY FactsAssumption

USE NothingApart

LEMMA MemoryInitHolds == MemoryInit => MemoryInv
<1> SUFFICES ASSUME MemoryInit PROVE MemoryInv
    OBVIOUS
<1>1. IdleTxn \in Transactions
    BY DEF IdleTxn, Transactions
<1>2. MemoryTypes
    BY <1>1 DEF MemoryInit, MemoryTypes, MemoryTypeOK, Counts
<1>3. TxnShape(IdleTxn) /\ IdleTxn.changes = {} /\ IdleTxn.gone = {} /\ IdleTxn.at = "idle"
    BY DEF TxnShape, IdleTxn
<1>4. \A t \in Txns : TxnShape(txn[t])
    BY <1>3 DEF MemoryInit
<1>5. Isolated
    BY <1>3 DEF MemoryInit, Isolated
<1>6. Alone
    BY <1>3 DEF MemoryInit, Alone, Writes
<1>. QED
    BY <1>2, <1>4, <1>5, <1>6 DEF MemoryInv

\* Another transaction has not flushed the row.
LEMMA NotFlushed ==
    ASSUME NEW t \in Txns, NEW id, ~Locked(t, id), NEW u \in Txns \ {t}
    PROVE  id \notin Ids(txn[u].changes) \cup txn[u].gone
    BY DEF Locked, Flushed

\* A step of one transaction, before it commits: it keeps what it has flushed, and adds a
\* row with a new key or changes or deletes one that nobody holds.
LEMMA OwnStep ==
    ASSUME MemoryInv, NEW t \in Txns, NEW r \in Transactions,
           Becomes(t, r),
           profiles' = profiles, fragments' = fragments,
           nextId' \in Counts, nextId <= nextId',
           twinned \subseteq twinned', missed \subseteq missed',
           TxnShape(r),
           \A c \in r.changes :
              \/ c \in txn[t].changes
              \/ c.id = nextId /\ c \in Known /\ nextId < nextId'
              \/ c.id \in Ids(profiles) /\ ~Locked(t, c.id),
           \A g \in r.gone :
              \/ g \in txn[t].gone
              \/ g \in Ids(profiles) /\ ~Locked(t, g),
           \A f \in Facts \ (twinned' \cup missed') :
              Writes(r, f) => /\ Aims(r, f) /\ r.fact = f
                              /\ Writes(txn[t], f) \/ Looking(f) \ {t} = {}
    PROVE  MemoryInv'
<1>1. /\ txn \in [Txns -> Transactions] /\ txn' \in [Txns -> Transactions]
      /\ txn'[t] = r /\ \A u \in Txns \ {t} : txn'[u] = txn[u]
    BY DEF MemoryInv, MemoryTypes, Becomes
<1>2. MemoryTypes'
    BY <1>1 DEF MemoryInv, MemoryTypes, MemoryTypeOK
<1>3. \A u \in Txns : TxnShape(txn'[u])
    BY <1>1 DEF MemoryInv
<1>4. nextId \in Nat /\ nextId' \in Nat /\ \A p \in profiles : p.id \in Nat
    BY DEF MemoryInv, MemoryTypes, MemoryTypeOK, Counts, Known
<1>5. \A p \in profiles : p.id < nextId'
    BY <1>4 DEF MemoryInv, Isolated
<1>6. ASSUME NEW c \in r.changes
      PROVE  /\ c.id \in Nat /\ c.id < nextId'
             /\ c.id \in Ids(profiles) \/ c \in Known
             /\ \A u \in Txns \ {t} : c.id \notin Ids(txn[u].changes) \cup txn[u].gone
  <2>1. CASE c \in txn[t].changes
    <3>1. c.id \in Nat
      BY <2>1, <1>1 DEF Transactions, Changes, Counts
    <3>. QED
      BY <3>1, <2>1, <1>4 DEF MemoryInv, Isolated
  <2>2. CASE c.id = nextId /\ c \in Known /\ nextId < nextId'
    <3>1. ASSUME NEW u \in Txns \ {t}
          PROVE  c.id \notin Ids(txn[u].changes) \cup txn[u].gone
      BY <2>2, <1>4 DEF MemoryInv, Isolated, Ids
    <3>. QED
      BY <2>2, <3>1, <1>4
  <2>3. CASE c.id \in Ids(profiles) /\ ~Locked(t, c.id)
    <3>1. c.id \in Nat /\ c.id < nextId'
      BY <2>3, <1>4, <1>5 DEF Ids
    <3>. QED
      BY <2>3, <3>1, NotFlushed
  <2>. QED
    BY <1>6, <2>1, <2>2, <2>3
<1>7. ASSUME NEW g \in r.gone
      PROVE  g < nextId' /\ \A u \in Txns \ {t} : g \notin Ids(txn[u].changes)
  <2>1. CASE g \in txn[t].gone
    <3>1. g \in Nat /\ g < nextId
      BY <2>1, <1>1 DEF MemoryInv, Isolated, Transactions, Counts
    <3>2. \A u \in Txns \ {t} : g \notin Ids(txn[u].changes)
      BY <2>1 DEF MemoryInv, Isolated, Ids
    <3>. QED
      BY <3>1, <3>2, <1>4
  <2>2. CASE g \in Ids(profiles) /\ ~Locked(t, g)
    BY <2>2, <1>5, NotFlushed DEF Ids
  <2>. QED
    BY <2>1, <2>2
<1>8. Isolated'
  <2>1. \A p, q \in profiles' : p.id = q.id => p = q
    BY DEF MemoryInv, Isolated
  <2>2. ASSUME NEW u \in Txns
        PROVE  /\ \A c \in txn'[u].changes :
                     c.id < nextId' /\ (c.id \in Ids(profiles) \/ c \in Known)
               /\ \A g \in txn'[u].gone : g < nextId'
    <3>1. CASE u = t
      BY <3>1, <1>1, <1>6, <1>7
    <3>2. CASE u # t
      <4>1. /\ \A c \in txn[u].changes : c.id \in Nat
            /\ \A g \in txn[u].gone : g \in Nat
        BY <1>1 DEF Transactions, Changes, Counts
      <4>. QED
        BY <3>2, <4>1, <1>1, <1>4 DEF MemoryInv, Isolated
    <3>. QED
      BY <3>1, <3>2
  <2>3. ASSUME NEW u \in Txns, NEW v \in Txns \ {u}, NEW c \in txn'[u].changes
        PROVE  c.id \notin Ids(txn'[v].changes) \cup txn'[v].gone
    <3>1. CASE u = t
      BY <2>3, <3>1, <1>1, <1>6
    <3>2. CASE u # t /\ v = t
      <4>1. c.id \notin Ids(r.changes)
        BY <2>3, <3>2, <1>1, <1>6 DEF Ids
      <4>2. c.id \notin r.gone
        BY <2>3, <3>2, <1>1, <1>7 DEF Ids
      <4>. QED
        BY <3>2, <4>1, <4>2, <1>1
    <3>3. CASE u # t /\ v # t
      BY <2>3, <3>3, <1>1 DEF MemoryInv, Isolated
    <3>. QED
      BY <2>3, <3>1, <3>2, <3>3
  <2>. QED
    BY <1>5, <2>1, <2>2, <2>3 DEF Isolated, Ids
<1>9. Alone'
  <2> SUFFICES ASSUME NEW f \in Facts, f \notin twinned' \cup missed'
               PROVE  /\ \A p, q \in profiles : p.fact = f /\ q.fact = f => p = q
                      /\ \A u \in Txns : Writes(txn'[u], f) =>
                           /\ Aims(txn'[u], f) /\ txn'[u].fact = f
                           /\ \A v \in Txns : Writes(txn'[v], f) => v = u
    BY DEF Alone, Aims, Writes
  <2>1. f \notin twinned \cup missed
    OBVIOUS
  <2>2. ASSUME NEW u \in Txns \ {t}, Writes(txn[u], f)
        PROVE  u \in Looking(f)
    <3>1. txn[u].fact = f /\ txn[u].at \in {"promoting", "adding", "done"}
      BY <2>1, <2>2, <1>1 DEF MemoryInv, Alone, Writes, TxnShape, Transactions
    <3>. QED
      BY <3>1 DEF Looking
  <2>3. ASSUME NEW u \in Txns \ {t}, Writes(txn[u], f) PROVE ~Writes(r, f)
    BY <2>1, <2>2, <2>3 DEF MemoryInv, Alone
  <2>. QED
    BY <2>1, <2>3, <1>1 DEF MemoryInv, Alone
<1>. QED
    BY <1>2, <1>3, <1>8, <1>9 DEF MemoryInv

\* A step that adds nothing to what the transaction writes.
LEMMA QuietStep ==
    ASSUME MemoryInv, NEW t \in Txns, NEW r \in Transactions,
           Becomes(t, r),
           profiles' = profiles, fragments' = fragments,
           nextId' \in Counts, nextId <= nextId', UNCHANGED <<twinned, missed>>,
           TxnShape(r), r.at \notin {"promoting", "adding"},
           r.changes \subseteq txn[t].changes, \A c \in r.changes : c.fact = Nothing,
           r.gone = {}
    PROVE  MemoryInv'
<1>1. \A f \in Facts : ~Writes(r, f)
    BY DEF Writes
<1>. QED
    BY <1>1, OwnStep

\* The end of a transaction that changes nothing.
LEMMA AbortStep ==
    ASSUME MemoryInv, NEW t \in Txns, Abort(t),
           UNCHANGED <<fragments, profiles, nextId, twinned, missed>>
    PROVE  MemoryInv'
<1>1. /\ IdleTxn \in Transactions /\ IdleTxn.changes = {} /\ IdleTxn.gone = {}
      /\ IdleTxn.at = "idle" /\ TxnShape(IdleTxn)
    BY DEF IdleTxn, Transactions, TxnShape
<1>2. nextId \in Counts /\ nextId <= nextId
    BY DEF MemoryInv, MemoryTypes, MemoryTypeOK, Counts
<1>. QED
    BY <1>1, <1>2, QuietStep DEF Abort

\* What a step of a transaction starts from.
LEMMA Held ==
    ASSUME MemoryInv, NEW t \in Txns
    PROVE  /\ txn \in [Txns -> Transactions] /\ txn[t] \in Transactions /\ TxnShape(txn[t])
           /\ nextId \in Counts /\ nextId <= nextId
           /\ nextId + 1 \in Counts /\ nextId < nextId + 1 /\ nextId <= nextId + 1
           /\ fragments \subseteq Rows /\ profiles \subseteq Known
    BY DEF MemoryInv, MemoryTypes, MemoryTypeOK, Counts

LEMMA ExtractStep ==
    ASSUME MemoryInv, NEW t \in Txns, NEW f \in Facts, Extract(t, f)
    PROVE  MemoryInv'
<1> DEFINE r == [IdleTxn EXCEPT !.at = "extracted", !.fact = f]
<1>1. /\ Becomes(t, r)
      /\ UNCHANGED <<fragments, profiles, nextId, twinned, missed>>
    BY DEF Extract, history
<1>2. r \in Transactions /\ TxnShape(r) /\ r.at = "extracted" /\ r.changes = {} /\ r.gone = {}
    BY DEF IdleTxn, Transactions, TxnShape
<1>. QED
    BY <1>1, <1>2, Held, QuietStep

LEMMA FindStep ==
    ASSUME MemoryInv, NEW t \in Txns, Find(t)
    PROVE  MemoryInv'
<1>1. txn[t].at = "extracted" /\ UNCHANGED <<fragments, profiles, nextId, twinned, missed>>
    BY DEF Find
<1> DEFINE r(x) == [txn[t] EXCEPT !.at = "found", !.read = x]
<1>2. PICK x \in fragments \cup {txn[t].read} : Becomes(t, r(x))
  <2>1. [txn[t] EXCEPT !.at = "found"] = r(txn[t].read)
    BY Held DEF Transactions
  <2>. QED
    BY <2>1 DEF Find, Similar
<1> DEFINE rx == r(x)
<1>3. rx \in Transactions
    BY Held DEF Transactions
<1>4. TxnShape(rx) /\ rx.at = "found" /\ rx.changes = {} /\ rx.gone = {}
    BY <1>1, Held DEF Transactions, TxnShape
<1>. QED
    BY <1>1, <1>2, <1>3, <1>4, Held, QuietStep

LEMMA CountStep ==
    ASSUME MemoryInv, NEW t \in Txns, Count(t)
    PROVE  MemoryInv'
<1> DEFINE x == [txn[t].read EXCEPT !.occurrences = @ + 1]
           r == [txn[t] EXCEPT !.at = "counted", !.read = Nothing, !.frag = {x}]
<1>1. /\ txn[t].at = "found" /\ txn[t].read # Nothing
      /\ UNCHANGED <<fragments, profiles, nextId, twinned, missed>>
    BY DEF Count, history
<1>2. Becomes(t, r)
    BY DEF Count
<1>3. x \in Rows
    BY <1>1, Held DEF Transactions, Rows, Counts
<1>4. r \in Transactions
    BY <1>3, Held DEF Transactions
<1>5. TxnShape(r) /\ r.at = "counted" /\ r.changes = {} /\ r.gone = {}
    BY <1>1, Held DEF Transactions, TxnShape
<1>. QED
    BY <1>1, <1>2, <1>4, <1>5, Held, QuietStep

LEMMA NoteStep ==
    ASSUME MemoryInv, NEW t \in Txns, Note(t)
    PROVE  MemoryInv'
<1> DEFINE x == [id |-> nextId, fact |-> txn[t].fact, occurrences |-> 1]
           r == [txn[t] EXCEPT !.at = "counted", !.frag = {x}]
<1>1. /\ txn[t].at = "found" /\ nextId' = nextId + 1
      /\ UNCHANGED <<fragments, profiles, twinned, missed>>
    BY DEF Note, history
<1>2. Becomes(t, r)
    BY DEF Note
<1>3. x \in Rows
    BY <1>1, Held DEF TxnShape, Rows, Counts
<1>4. r \in Transactions
    BY <1>3, Held DEF Transactions
<1>5. TxnShape(r) /\ r.at = "counted" /\ r.changes = {} /\ r.gone = {}
    BY <1>1, Held DEF Transactions, TxnShape
<1>. QED
    BY <1>1, <1>2, <1>4, <1>5, Held, QuietStep

LEMMA DoubtStep ==
    ASSUME MemoryInv, NEW t \in Txns, Doubt(t)
    PROVE  MemoryInv'
<1>1. txn[t].at = "counted" /\ UNCHANGED <<fragments, profiles, nextId, twinned, missed>>
    BY DEF Doubt, history
<1>2. \/ Becomes(t, [txn[t] EXCEPT !.at = "checked"])
      \/ \E p \in profiles :
            Becomes(t, [txn[t] EXCEPT !.at = "doubting", !.target = p])
    BY DEF Doubt, Contradicted
<1>3. CASE Becomes(t, [txn[t] EXCEPT !.at = "checked"])
  <2> DEFINE r == [txn[t] EXCEPT !.at = "checked"]
  <2>1. r \in Transactions
    BY Held DEF Transactions
  <2>2. TxnShape(r) /\ r.at = "checked" /\ r.changes = txn[t].changes /\ r.gone = {}
        /\ \A c \in r.changes : c.fact = Nothing
    BY <1>1, Held DEF Transactions, TxnShape
  <2>. QED
    BY <1>1, <1>3, <2>1, <2>2, Held, QuietStep
<1>4. ASSUME NEW p \in profiles,
             Becomes(t, [txn[t] EXCEPT !.at = "doubting", !.target = p]),
             txn[t].changes = {}
      PROVE  MemoryInv'
  <2> DEFINE r == [txn[t] EXCEPT !.at = "doubting", !.target = p]
  <2>1. r \in Transactions /\ p # Nothing
    BY Held DEF Transactions
  <2>2. TxnShape(r) /\ r.at = "doubting" /\ r.changes = {} /\ r.gone = {}
    BY <1>1, <1>4, <2>1, Held DEF Transactions, TxnShape
  <2>. QED
    BY <1>1, <1>4, <2>1, <2>2, Held, QuietStep
<1>5. txn[t].changes = {}
    BY <1>1, Held DEF TxnShape
<1>. QED
    BY <1>2, <1>3, <1>4, <1>5

LEMMA LowerStep ==
    ASSUME MemoryInv, NEW t \in Txns, Lower(t)
    PROVE  MemoryInv'
<1> DEFINE p == txn[t].target
           c == [Change(p.id) EXCEPT !.confidence = Most(6, p.confidence - 3)]
           r == [txn[t] EXCEPT !.at = "checked", !.target = Nothing, !.changes = {c}]
<1>1. /\ txn[t].at = "doubting" /\ ~Locked(t, p.id)
      /\ UNCHANGED <<fragments, profiles, nextId, twinned, missed>>
    BY DEF Lower, history
<1>2. CASE p.id \in Ids(profiles) /\ Becomes(t, r)
  <2>1. p \in Known
    BY <1>1, Held DEF TxnShape, Transactions
  <2>2. p.id \in Counts /\ p.confidence \in 1..20
    BY <2>1 DEF Known
  <2>3. c = [id |-> p.id, fact |-> Nothing, source |-> Nothing,
             confidence |-> Most(6, p.confidence - 3)]
    BY DEF Change
  <2>4. Most(6, p.confidence - 3) \in 0..20
    BY <2>2 DEF Most
  <2> HIDE DEF c
  <2>5. c \in Changes /\ c.id = p.id /\ c.fact = Nothing
    BY <2>2, <2>3, <2>4 DEF Changes
  <2>6. r \in Transactions
    <3>1. txn[t] \in Transactions /\ {c} \in SUBSET Changes
      BY <2>5, Held
    <3>. QED
      BY <3>1 DEF Transactions
  <2>7. TxnShape(r) /\ r.at = "checked" /\ r.changes = {c} /\ r.gone = {}
    BY <1>1, <2>5, Held DEF Transactions, TxnShape
  <2>8. \A f \in Facts : ~Writes(r, f)
    BY <2>5, <2>7 DEF Writes
  <2>. QED
    BY <1>1, <1>2, <2>5, <2>6, <2>7, <2>8, Held, OwnStep
<1>3. CASE Abort(t)
    BY <1>1, <1>3, AbortStep
<1>4. \/ p.id \in Ids(profiles) /\ Becomes(t, r)
      \/ Abort(t)
    BY DEF Lower
<1>. QED
    BY <1>2, <1>3, <1>4

LEMMA NotYetStep ==
    ASSUME MemoryInv, NEW t \in Txns, NotYet(t)
    PROVE  MemoryInv'
<1> DEFINE r == [txn[t] EXCEPT !.at = "done"]
<1>1. /\ txn[t].at = "checked" /\ Becomes(t, r)
      /\ UNCHANGED <<fragments, profiles, nextId, twinned, missed>>
    BY DEF NotYet, history
<1>2. r \in Transactions
    BY Held DEF Transactions
<1>3. /\ TxnShape(r) /\ r.at = "done" /\ r.changes = txn[t].changes /\ r.gone = {}
      /\ \A c \in r.changes : c.fact = Nothing
    BY <1>1, Held DEF Transactions, TxnShape
<1>. QED
    BY <1>1, <1>2, <1>3, Held, QuietStep

\* Whoever looks for a profile of f aims at the one there is.
LEMMA LookAims ==
    ASSUME MemoryInv, NEW f \in Facts, f \notin twinned \cup missed, NEW r,
           \A c \in r.changes : c.fact = Nothing,
           \/ Found(f) = {}
           \/ r.target \in Found(f)
    PROVE  Aims(r, f)
<1>1. \A c \in r.changes : c.fact # f
    OBVIOUS
<1>2. ASSUME NEW p \in profiles, p.fact = f
      PROVE  r.target # Nothing /\ r.target.id = p.id
  <2>1. r.target \in profiles /\ r.target.fact = f
    BY <1>2 DEF Found
  <2>2. r.target = p
    BY <1>2, <2>1 DEF MemoryInv, Alone
  <2>. QED
    BY <2>1, <2>2, Held DEF MemoryInv, MemoryTypes, MemoryTypeOK
<1>. QED
    BY <1>1, <1>2 DEF Aims

\* A transaction looks for a profile and goes on with what it found.
LEMMA LookStep ==
    ASSUME MemoryInv, NEW t \in Txns, NEW f \in Facts, NEW T \in Transactions, Look(t, f, T),
           UNCHANGED <<fragments, profiles, nextId>>,
           T.at \in {"promoting", "adding"}, T.fact = f, T.target = Nothing,
           T.at = "promoting" => T.frag # {},
           T.changes \subseteq txn[t].changes, T.gone = {},
           T.at = "adding" => T.changes = {}, \A c \in T.changes : c.fact = Nothing
    PROVE  MemoryInv'
<1> DEFINE r(p) == [T EXCEPT !.target = p]
<1>1. PICK p \in Known \cup {Nothing} :
         /\ Becomes(t, r(p))
         /\ \/ (Found(f) = {} \/ p \in Found(f)) /\ missed' = missed
            \/ missed' = missed \cup {f}
  <2>1. T = r(Nothing)
    BY DEF Transactions
  <2>2. Found(f) \subseteq Known
    BY Held DEF Found
  <2>. QED
    BY <2>1, <2>2 DEF Look
<1>2. twinned' = IF Looking(f) \ {t} = {} THEN twinned ELSE twinned \cup {f}
    BY DEF Look
<1> DEFINE rp == r(p)
<1>3. /\ rp \in Transactions /\ rp.at = T.at /\ rp.changes = T.changes /\ rp.gone = {}
      /\ rp.fact = f /\ rp.target = p /\ rp.frag = T.frag
    BY <1>1 DEF Transactions
<1>4. Becomes(t, rp)
    BY <1>1
<1> HIDE DEF rp
<1>5. TxnShape(rp)
    BY <1>3 DEF TxnShape
<1>6. ASSUME NEW g \in Facts \ (twinned' \cup missed'), Writes(rp, g)
      PROVE  Aims(rp, g) /\ rp.fact = g /\ Looking(g) \ {t} = {}
  <2>1. g = f
    BY <1>3, <1>6 DEF Writes
  <2>2. Looking(f) \ {t} = {} /\ f \notin twinned \cup missed
    BY <1>1, <1>2, <1>6, <2>1
  <2>3. Found(f) = {} \/ p \in Found(f)
    BY <1>1, <1>6, <2>1
  <2>4. Aims(rp, f)
    BY <1>3, <2>2, <2>3, LookAims
  <2>. QED
    BY <1>3, <2>1, <2>2, <2>4
<1>7. twinned \subseteq twinned' /\ missed \subseteq missed'
    BY <1>1, <1>2
<1>. QED
    BY <1>3, <1>4, <1>5, <1>6, <1>7, Held, OwnStep

LEMMA RipeStep ==
    ASSUME MemoryInv, NEW t \in Txns, Ripe(t)
    PROVE  MemoryInv'
<1> DEFINE T == [txn[t] EXCEPT !.at = "promoting"]
<1>1. /\ txn[t].at = "checked" /\ txn[t].frag # {} /\ Look(t, txn[t].fact, T)
      /\ UNCHANGED <<fragments, profiles, nextId>>
    BY DEF Ripe
<1>2. /\ txn[t].fact \in Facts /\ txn[t].gone = {} /\ txn[t].target = Nothing
      /\ \A c \in txn[t].changes : c.fact = Nothing
    BY <1>1, Held DEF TxnShape
<1>3. /\ T \in Transactions /\ T.at = "promoting" /\ T.fact = txn[t].fact
      /\ T.target = Nothing /\ T.frag # {} /\ T.changes = txn[t].changes /\ T.gone = {}
    BY <1>1, <1>2, Held DEF Transactions
<1> HIDE DEF T
<1>. QED
    BY <1>1, <1>2, <1>3, LookStep

LEMMA AddMemoryStep ==
    ASSUME MemoryInv, NEW t \in Txns, NEW f \in Facts,
           AddMemory(t, f)
    PROVE  MemoryInv'
<1> DEFINE T == [IdleTxn EXCEPT !.at = "adding", !.fact = f]
<1>1. Look(t, f, T) /\ UNCHANGED <<fragments, profiles, nextId>>
    BY DEF AddMemory
<1>2. /\ T \in Transactions /\ T.at = "adding" /\ T.fact = f
      /\ T.target = Nothing /\ T.changes = {} /\ T.gone = {}
    BY DEF IdleTxn, Transactions
<1> HIDE DEF T
<1>. QED
    BY <1>1, <1>2, LookStep

LEMMA PromoteStep ==
    ASSUME MemoryInv, NEW t \in Txns, Promote(t)
    PROVE  MemoryInv'
<1> DEFINE T == txn[t]
           p == T.target
           n == (CHOOSE x \in T.frag : TRUE).occurrences
           new == Profile(nextId, T.fact, "implicit", Least(20, 4 * n))
           more == [Change(p.id) EXCEPT !.confidence = Least(20, p.confidence + 3)]
           r1 == [T EXCEPT !.at = "done", !.spent = TRUE, !.changes = @ \cup {new}]
           r2 == [T EXCEPT !.at = "done", !.spent = TRUE, !.target = Nothing,
                           !.changes = @ \cup {more}]
<1>1. T.at = "promoting" /\ UNCHANGED <<fragments, profiles, twinned, missed>>
    BY DEF Promote, history
<1>2. /\ T \in Transactions /\ TxnShape(T) /\ T.fact \in Facts /\ T.gone = {} /\ T.frag # {}
      /\ \A c \in T.changes : c.fact = Nothing
    BY <1>1, Held DEF TxnShape
<1>3. \/ p = Nothing /\ nextId' = nextId + 1 /\ Becomes(t, r1)
      \/ /\ p # Nothing /\ ~Locked(t, p.id) /\ p.id \in Ids(profiles)
         /\ nextId' = nextId /\ Becomes(t, r2)
      \/ nextId' = nextId /\ Abort(t)
    BY DEF Promote
<1>4. CASE p = Nothing /\ nextId' = nextId + 1 /\ Becomes(t, r1)
  <2>1. n \in Counts
    <3>1. \E x \in T.frag : TRUE
      BY <1>2
    <3>2. (CHOOSE x \in T.frag : TRUE) \in T.frag
      BY <3>1
    <3>. QED
      BY <1>2, <3>2 DEF Transactions, Rows
  <2> HIDE DEF n
  <2>2. Least(20, 4 * n) \in 1..20
    BY <2>1 DEF Least, Counts
  <2>3. new \in Known /\ new.id = nextId /\ new.fact = T.fact
    BY <1>2, <2>2, Held DEF Profile, Known
  <2>4. new \in Changes
    BY <1>2, <2>2, Held DEF Profile, Changes, Columns
  <2> HIDE DEF new
  <2>5. /\ r1 \in Transactions /\ r1.at = "done" /\ r1.changes = T.changes \cup {new}
        /\ r1.gone = {} /\ r1.fact = T.fact /\ r1.target = Nothing
    BY <1>2, <1>4, <2>4 DEF Transactions
  <2>6. \A c \in T.changes : c.id # new.id
    BY <2>3, <1>2, Held DEF MemoryInv, Isolated, Counts, Transactions, Changes
  <2>7. TxnShape(r1)
    BY <1>2, <2>3, <2>5, <2>6 DEF TxnShape
  <2>8. ASSUME NEW f \in Facts \ (twinned' \cup missed'), Writes(r1, f)
        PROVE  Aims(r1, f) /\ r1.fact = f /\ Writes(T, f)
    <3>1. f = T.fact
      BY <1>2, <2>3, <2>5, <2>8 DEF Writes
    <3>2. Writes(T, f)
      BY <1>1, <3>1 DEF Writes
    <3>3. ~\E q \in profiles : q.fact = f
      BY <1>1, <1>4, <2>8, <3>1, <3>2 DEF MemoryInv, Alone, Aims
    <3>. QED
      BY <2>5, <3>1, <3>2, <3>3 DEF Aims
  <2> HIDE DEF r1
  <2>9. \A c \in r1.changes : \/ c \in T.changes
                              \/ c.id = nextId /\ c \in Known /\ nextId < nextId'
    BY <1>4, <2>3, <2>5, Held
  <2>10. /\ nextId' \in Counts /\ nextId <= nextId'
         /\ twinned \subseteq twinned' /\ missed \subseteq missed'
    BY <1>1, <1>4, Held
  <2>. QED
    BY <1>1, <1>4, <2>5, <2>7, <2>8, <2>9, <2>10, OwnStep
<1>5. CASE /\ p # Nothing /\ ~Locked(t, p.id) /\ p.id \in Ids(profiles)
           /\ nextId' = nextId /\ Becomes(t, r2)
  <2>1. p \in Known
    BY <1>2, <1>5 DEF Transactions
  <2>2. p.id \in Counts /\ p.confidence \in 1..20
    BY <2>1 DEF Known
  <2>3. more = [id |-> p.id, fact |-> Nothing, source |-> Nothing,
                confidence |-> Least(20, p.confidence + 3)]
    BY DEF Change
  <2>4. Least(20, p.confidence + 3) \in 0..20
    BY <2>2 DEF Least
  <2> HIDE DEF more
  <2>5. more \in Changes /\ more.id = p.id /\ more.fact = Nothing
    BY <2>2, <2>3, <2>4 DEF Changes
  <2>6. /\ r2 \in Transactions /\ r2.at = "done" /\ r2.changes = T.changes \cup {more}
        /\ r2.gone = {} /\ r2.fact = T.fact /\ r2.target = Nothing
    BY <1>2, <1>5, <2>5 DEF Transactions
  <2>7. TxnShape(r2)
    BY <1>2, <2>5, <2>6 DEF TxnShape
  <2>8. \A f \in Facts : ~Writes(r2, f)
    BY <1>2, <2>5, <2>6 DEF Writes
  <2> HIDE DEF r2
  <2>. QED
    BY <1>1, <1>5, <2>5, <2>6, <2>7, <2>8, Held, OwnStep
<1>6. CASE nextId' = nextId /\ Abort(t)
    BY <1>1, <1>6, AbortStep
<1>. QED
    BY <1>3, <1>4, <1>5, <1>6

LEMMA UpsertStep ==
    ASSUME MemoryInv, NEW t \in Txns, Upsert(t)
    PROVE  MemoryInv'
<1> DEFINE T == txn[t]
           p == T.target
           row(i) == Profile(i, T.fact, "explicit", 20)
           r(i) == [T EXCEPT !.at = "done", !.target = Nothing, !.changes = {row(i)}]
<1>1. T.at = "adding" /\ UNCHANGED <<fragments, profiles, twinned, missed>>
    BY DEF Upsert, history
<1>2. /\ T \in Transactions /\ TxnShape(T) /\ T.fact \in Facts /\ T.gone = {} /\ T.changes = {}
    BY <1>1, Held DEF TxnShape
<1>3. \/ p = Nothing /\ nextId' = nextId + 1 /\ Becomes(t, r(nextId))
      \/ /\ p # Nothing /\ ~Locked(t, p.id) /\ p.id \in Ids(profiles)
         /\ nextId' = nextId /\ Becomes(t, r(p.id))
      \/ nextId' = nextId /\ Abort(t)
  <2>1. p = Nothing => [T EXCEPT !.at = "done", !.changes = {row(nextId)}] = r(nextId)
    BY <1>2 DEF Transactions
  <2>. QED
    BY <2>1 DEF Upsert
<1>4. ASSUME NEW i \in Counts, Becomes(t, r(i)),
             nextId' = nextId \/ nextId' = nextId + 1,
             \/ p = Nothing /\ i = nextId /\ nextId < nextId'
             \/ p # Nothing /\ i = p.id /\ i \in Ids(profiles) /\ ~Locked(t, i)
      PROVE  MemoryInv'
  <2> DEFINE c == row(i)
             ri == r(i)
  <2>1. c \in Known /\ c \in Changes /\ c.id = i /\ c.fact = T.fact
    BY <1>2 DEF Profile, Known, Changes, Columns
  <2> HIDE DEF c
  <2>2. /\ ri \in Transactions /\ ri.at = "done" /\ ri.changes = {c}
        /\ ri.gone = {} /\ ri.fact = T.fact /\ ri.target = Nothing
    BY <1>2, <2>1 DEF Transactions, c
  <2>3. Becomes(t, ri)
    BY <1>4
  <2> HIDE DEF ri
  <2>4. TxnShape(ri)
    BY <1>2, <2>2 DEF TxnShape
  <2>5. ASSUME NEW f \in Facts \ (twinned' \cup missed'), Writes(ri, f)
        PROVE  Aims(ri, f) /\ ri.fact = f /\ Writes(T, f)
    <3>1. f = T.fact
      BY <2>1, <2>2, <2>5 DEF Writes
    <3>2. Writes(T, f)
      BY <1>1, <3>1 DEF Writes
    <3>3. \A q \in profiles : q.fact = f => p # Nothing /\ p.id = q.id
      BY <1>1, <2>5, <3>1, <3>2 DEF MemoryInv, Alone, Aims
    <3>. QED
      BY <1>4, <2>1, <2>2, <3>1, <3>2, <3>3 DEF Aims
  <2>6. \A x \in ri.changes : \/ x.id = nextId /\ x \in Known /\ nextId < nextId'
                              \/ x.id \in Ids(profiles) /\ ~Locked(t, x.id)
    BY <1>4, <2>1, <2>2
  <2>7. /\ nextId' \in Counts /\ nextId <= nextId'
        /\ twinned \subseteq twinned' /\ missed \subseteq missed'
    BY <1>1, <1>4, Held
  <2>. QED
    BY <1>1, <2>2, <2>3, <2>4, <2>5, <2>6, <2>7, OwnStep
<1>5. p # Nothing => p.id \in Counts
    BY <1>2 DEF Transactions, Known
<1>6. CASE nextId' = nextId /\ Abort(t)
    BY <1>1, <1>6, AbortStep
<1>. QED
    BY <1>3, <1>4, <1>5, <1>6, Held

LEMMA DeleteMemoryStep ==
    ASSUME MemoryInv, NEW t \in Txns, NEW p \in profiles,
           DeleteMemory(t, p)
    PROVE  MemoryInv'
<1> DEFINE r == [IdleTxn EXCEPT !.at = "done", !.gone = {p.id}]
<1>1. /\ txn[t].at = "idle" /\ ~Locked(t, p.id)
      /\ UNCHANGED <<fragments, profiles, nextId, twinned, missed>>
    BY DEF DeleteMemory, history
<1>2. txn[t] = IdleTxn
    BY <1>1, Held DEF TxnShape
<1>3. Becomes(t, r)
    BY <1>2 DEF DeleteMemory
<1>4. p.id \in Counts /\ p.id \in Ids(profiles)
    BY Held DEF Known, Ids
<1>5. r \in Transactions /\ TxnShape(r) /\ r.at = "done" /\ r.changes = {} /\ r.gone = {p.id}
    BY <1>4 DEF IdleTxn, Transactions, TxnShape
<1> HIDE DEF r
<1>6. \A f \in Facts : ~Writes(r, f)
    BY <1>5 DEF Writes
<1>7. \A g \in r.gone : g \in Ids(profiles) /\ ~Locked(t, g)
    BY <1>1, <1>4, <1>5
<1>8. /\ nextId' \in Counts /\ nextId <= nextId'
      /\ twinned \subseteq twinned' /\ missed \subseteq missed'
    BY <1>1, Held
<1>. QED
    BY <1>1, <1>3, <1>5, <1>6, <1>7, <1>8, OwnStep

LEMMA ChangeMemoryStep ==
    ASSUME MemoryInv, NEW t \in Txns, NEW p \in profiles, NEW f \in Facts, ChangeMemory(t, p, f)
    PROVE  MemoryInv'
<1> DEFINE c == [Change(p.id) EXCEPT !.fact = f]
           r == [IdleTxn EXCEPT !.at = "done", !.changes = {c}]
<1>1. /\ txn[t].at = "idle" /\ ~Locked(t, p.id) /\ twinned' = twinned \cup {f}
      /\ UNCHANGED <<fragments, profiles, nextId, missed>>
    BY DEF ChangeMemory
<1>2. txn[t] = IdleTxn
    BY <1>1, Held DEF TxnShape
<1>3. Becomes(t, r)
    BY <1>2 DEF ChangeMemory
<1>4. p.id \in Counts /\ p.id \in Ids(profiles)
    BY Held DEF Known, Ids
<1>5. c \in Changes /\ c.id = p.id /\ c.fact = f
    BY <1>4 DEF Change, Changes
<1> HIDE DEF c
<1>6. r \in Transactions /\ TxnShape(r) /\ r.at = "done" /\ r.changes = {c} /\ r.gone = {}
    BY <1>5 DEF IdleTxn, Transactions, TxnShape
<1> HIDE DEF r
<1>7. \A g \in Facts \ (twinned' \cup missed') : ~Writes(r, g)
    BY <1>1, <1>5, <1>6 DEF Writes
<1>. QED
    BY <1>1, <1>3, <1>4, <1>5, <1>6, <1>7, Held, OwnStep

\* What a commit makes of the profiles: rows that keep their keys, and new ones.
LEMMA Rewritten ==
    ASSUME MemoryInv, NEW t \in Txns, CommitTxn(t), NEW q \in profiles'
    PROVE  /\ q \in Known
           /\ \/ \E p \in profiles :
                   /\ q.id = p.id /\ p.id \notin txn[t].gone
                   /\ q = Applied(p, txn[t].changes)
                   /\ \/ q.fact = p.fact
                      \/ \E c \in txn[t].changes : c.id = p.id /\ c.fact = q.fact
              \/ q \in txn[t].changes /\ q.id \notin Ids(profiles)
<1> DEFINE T == txn[t]
           C == T.changes
<1>1. \/ \E p \in profiles : p.id \notin T.gone /\ q = Applied(p, C)
      \/ q \in C /\ q.id \notin Ids(profiles)
    BY DEF CommitTxn
<1>2. C \subseteq Changes
    BY Held DEF Transactions
<1>3. ASSUME NEW p \in profiles, p.id \notin T.gone, q = Applied(p, C)
      PROVE  /\ q \in Known /\ q.id = p.id
             /\ \/ q.fact = p.fact
                \/ \E c \in C : c.id = p.id /\ c.fact = q.fact
  <2>1. p \in Known
    BY Held
  <2>2. CASE p.id \notin Ids(C)
    BY <1>3, <2>1, <2>2 DEF Applied
  <2>3. CASE p.id \in Ids(C)
    <3> DEFINE c == CHOOSE x \in C : x.id = p.id
    <3>1. \E x \in C : x.id = p.id
      BY <2>3 DEF Ids
    <3>2. c \in C /\ c.id = p.id
      BY <3>1
    <3>3. q = Profile(p.id, IF c.fact = Nothing THEN p.fact ELSE c.fact,
                          IF c.source = Nothing THEN p.source ELSE c.source,
                          IF c.confidence = 0 THEN p.confidence ELSE c.confidence)
      BY <1>3, <2>3 DEF Applied
    <3> HIDE DEF c
    <3>4. c \in Changes
      BY <1>2, <3>2
    <3>5. q \in Known /\ q.id = p.id
      BY <2>1, <3>3, <3>4 DEF Profile, Known, Changes, Columns
    <3>6. q.fact = p.fact \/ q.fact = c.fact
      BY <3>3 DEF Profile
    <3>. QED
      BY <3>2, <3>5, <3>6
  <2>. QED
    BY <2>2, <2>3
<1>4. CASE q \in C /\ q.id \notin Ids(profiles)
    BY <1>4 DEF MemoryInv, Isolated
<1>. QED
    BY <1>1, <1>3, <1>4

LEMMA CommitStep ==
    ASSUME MemoryInv, NEW t \in Txns, CommitTxn(t)
    PROVE  MemoryInv'
<1> DEFINE T == txn[t]
<1>1. /\ T.at = "done" /\ Becomes(t, IdleTxn)
      /\ nextId' = nextId /\ UNCHANGED <<twinned, missed>>
      /\ fragments' \subseteq fragments \cup T.frag
    BY DEF CommitTxn
<1>2. /\ IdleTxn \in Transactions /\ IdleTxn.changes = {} /\ IdleTxn.gone = {}
      /\ IdleTxn.at = "idle" /\ TxnShape(IdleTxn)
    BY DEF IdleTxn, Transactions, TxnShape
<1>3. /\ txn' \in [Txns -> Transactions] /\ txn'[t] = IdleTxn
      /\ \A u \in Txns \ {t} : txn'[u] = txn[u]
    BY <1>1, <1>2, Held DEF Becomes
<1>4. MemoryTypes'
  <2>1. fragments' \subseteq Rows
    BY <1>1, Held DEF Transactions
  <2>2. \A q \in profiles' : q \in Known
    BY Rewritten
  <2>. QED
    BY <1>1, <1>3, <2>1, <2>2, Held DEF MemoryTypes, MemoryTypeOK
<1>5. \A u \in Txns : TxnShape(txn'[u])
    BY <1>2, <1>3 DEF MemoryInv
<1>6. \A p \in profiles : p.id \notin T.gone => p.id \in Ids(profiles')
  <2> SUFFICES ASSUME NEW p \in profiles, p.id \notin T.gone
               PROVE  p.id \in Ids(profiles')
    OBVIOUS
  <2>1. Applied(p, T.changes) \in profiles'
    BY DEF CommitTxn
  <2>2. Applied(p, T.changes).id = p.id
    BY DEF Applied, Profile
  <2>. QED
    BY <2>1, <2>2 DEF Ids
<1>7. Isolated'
  <2>1. ASSUME NEW p \in profiles', NEW q \in profiles', p.id = q.id PROVE p = q
    <3>1. CASE \E x \in profiles : p.id = x.id /\ p = Applied(x, T.changes)
      <4>1. PICK x \in profiles : p.id = x.id /\ p = Applied(x, T.changes)
        BY <3>1
      <4>2. q.id \in Ids(profiles)
        BY <2>1, <4>1 DEF Ids
      <4>3. PICK y \in profiles : q.id = y.id /\ q = Applied(y, T.changes)
        BY <4>2, Rewritten
      <4>4. x = y
        BY <2>1, <4>1, <4>3 DEF MemoryInv, Isolated
      <4>. QED
        BY <4>1, <4>3, <4>4
    <3>2. CASE p \in T.changes /\ p.id \notin Ids(profiles)
      <4>1. q \in T.changes
        BY <2>1, <3>2, Rewritten DEF Ids
      <4>2. p.fact # Nothing /\ q.fact # Nothing
        BY Rewritten DEF Known
      <4>. QED
        BY <3>2, <4>1, <4>2, Held DEF TxnShape
    <3>. QED
      BY <3>1, <3>2, Rewritten
  <2>2. \A q \in profiles' : q.id < nextId'
    <3> SUFFICES ASSUME NEW q \in profiles' PROVE q.id < nextId
      BY <1>1
    <3>. QED
      BY Rewritten DEF MemoryInv, Isolated
  <2>3. ASSUME NEW u \in Txns
        PROVE  /\ \A c \in txn'[u].changes :
                     c.id < nextId' /\ (c.id \in Ids(profiles') \/ c \in Known)
               /\ \A g \in txn'[u].gone : g < nextId'
               /\ \A v \in Txns \ {u} : \A c \in txn'[u].changes :
                     c.id \notin Ids(txn'[v].changes) \cup txn'[v].gone
    <3>1. CASE u = t
      BY <1>2, <1>3, <3>1
    <3>2. CASE u # t
      <4>1. ASSUME NEW c \in txn[u].changes
            PROVE  /\ c.id < nextId
                   /\ c.id \in Ids(profiles') \/ c \in Known
                   /\ \A v \in Txns \ {u} :
                         c.id \notin Ids(txn'[v].changes) \cup txn'[v].gone
        <5>1. /\ c.id < nextId
              /\ c.id \in Ids(profiles) \/ c \in Known
              /\ \A v \in Txns \ {u} :
                    c.id \notin Ids(txn[v].changes) \cup txn[v].gone
          BY DEF MemoryInv, Isolated
        <5>2. c.id \notin T.gone
          BY <3>2, <5>1
        <5>3. c.id \in Ids(profiles) => c.id \in Ids(profiles')
          BY <1>6, <5>2 DEF Ids
        <5>4. \A v \in Txns \ {u} : c.id \notin Ids(txn'[v].changes) \cup txn'[v].gone
          <6> SUFFICES ASSUME NEW v \in Txns \ {u}
                       PROVE  c.id \notin Ids(txn'[v].changes) \cup txn'[v].gone
            OBVIOUS
          <6>1. CASE v = t
            BY <1>2, <1>3, <6>1 DEF Ids
          <6>2. CASE v # t
            BY <1>3, <5>1, <6>2
          <6>. QED
            BY <6>1, <6>2
        <5>. QED
          BY <5>1, <5>3, <5>4 DEF MemoryInv, Isolated
      <4>2. \A g \in txn[u].gone : g < nextId
        BY DEF MemoryInv, Isolated
      <4>. QED
        BY <1>1, <1>3, <3>2, <4>1, <4>2
    <3>. QED
      BY <3>1, <3>2
  <2>. QED
    BY <2>1, <2>2, <2>3 DEF Isolated, Ids
<1>8. Alone'
  <2> SUFFICES ASSUME NEW f \in Facts, f \notin twinned \cup missed
               PROVE  /\ \A p, q \in profiles' : p.fact = f /\ q.fact = f => p = q
                      /\ \A u \in Txns : Writes(txn'[u], f) =>
                           /\ Aims(txn[u], f)' /\ txn'[u].fact = f
                           /\ \A v \in Txns : Writes(txn'[v], f) => v = u
    BY <1>1 DEF Alone, Aims, Writes
  <2>1. ~Writes(IdleTxn, f)
    BY <1>2 DEF Writes
  <2>2. CASE Writes(T, f)
    <3>1. \A u \in Txns : ~Writes(txn'[u], f)
      BY <1>3, <2>1, <2>2 DEF MemoryInv, Alone
    <3>2. PICK c \in T.changes : c.fact = f
      BY <1>1, <2>2 DEF Writes
    <3>3. \A p \in profiles : p.fact = f => p.id = c.id
      BY <2>2, <3>2 DEF MemoryInv, Alone, Aims
    <3>4. \A d \in T.changes : d.fact = f => d = c
      BY <3>2, Held DEF TxnShape
    <3>5. \A q \in profiles' : q.fact = f => q.id = c.id
      BY <3>3, <3>4, Rewritten
    <3>. QED
      BY <1>7, <3>1, <3>5 DEF Isolated
  <2>3. CASE ~Writes(T, f)
    <3>1. \A c \in T.changes : c.fact # f
      BY <2>3 DEF Writes
    <3>2. \A q \in profiles' : q.fact = f => \E p \in profiles : p.fact = f /\ p.id = q.id
      BY <3>1, Rewritten
    <3>3. \A p, q \in profiles' : p.fact = f /\ q.fact = f => p = q
      BY <1>7, <3>2 DEF MemoryInv, Alone, Isolated
    <3>4. ASSUME NEW u \in Txns, Writes(txn'[u], f)
          PROVE  /\ Aims(txn[u], f)' /\ txn'[u].fact = f
                 /\ \A v \in Txns : Writes(txn'[v], f) => v = u
      <4>1. u # t /\ txn'[u] = txn[u] /\ Writes(txn[u], f)
        BY <1>3, <2>1, <3>4
      <4>2. /\ Aims(txn[u], f) /\ txn[u].fact = f
            /\ \A v \in Txns : Writes(txn[v], f) => v = u
        BY <4>1 DEF MemoryInv, Alone
      <4>3. \A v \in Txns : Writes(txn'[v], f) => v = u
        BY <1>3, <2>1, <4>2
      <4>4. \A q \in profiles' : q.fact = f =>
               /\ txn[u].fact = f /\ txn[u].at \in {"promoting", "adding"} =>
                     txn[u].target # Nothing /\ txn[u].target.id = q.id
               /\ \A c \in txn[u].changes : c.fact = f => c.id = q.id
        BY <3>2, <4>2 DEF Aims
      <4>. QED
        BY <4>1, <4>2, <4>3, <4>4 DEF Aims
    <3>. QED
      BY <3>3, <3>4
  <2>. QED
    BY <2>2, <2>3
<1>. QED
    BY <1>4, <1>5, <1>7, <1>8 DEF MemoryInv

LEMMA MemoryInductive == MemoryInv /\ [MemoryNext]_memoryVars => MemoryInv'
<1> SUFFICES ASSUME MemoryInv, [MemoryNext]_memoryVars PROVE MemoryInv'
    OBVIOUS
<1>1. CASE UNCHANGED memoryVars
    BY <1>1 DEF memoryVars, history, MemoryInv, MemoryTypes, MemoryTypeOK, Isolated,
                Alone, Writes, Aims
<1>2. ASSUME NEW t \in Txns,
             \/ \E f \in Facts : Extract(t, f) \/ AddMemory(t, f)
             \/ Find(t) \/ Count(t) \/ Note(t) \/ Doubt(t) \/ Lower(t)
             \/ NotYet(t) \/ Ripe(t) \/ Promote(t) \/ Upsert(t)
      PROVE  MemoryInv'
    BY <1>2, ExtractStep, AddMemoryStep, FindStep, CountStep, NoteStep, DoubtStep, LowerStep,
       NotYetStep, RipeStep, PromoteStep, UpsertStep
<1>3. ASSUME NEW t \in Txns, NEW p \in profiles,
             DeleteMemory(t, p) \/ \E f \in Facts : ChangeMemory(t, p, f)
      PROVE  MemoryInv'
    BY <1>3, DeleteMemoryStep, ChangeMemoryStep
<1>4. ASSUME NEW t \in Txns, Stale(t) \/ TxnFails(t) PROVE MemoryInv'
    BY <1>4, AbortStep DEF Stale, TxnFails, history
<1>5. ASSUME NEW t \in Txns, CommitTxn(t) PROVE MemoryInv'
    BY <1>5, CommitStep
<1>. QED
    BY <1>1, <1>2, <1>3, <1>4, <1>5 DEF MemoryNext

LEMMA MemoryInvImplies == MemoryInv => OneProfile
<1> SUFFICES ASSUME MemoryInv, NEW f \in Facts \ (twinned \cup missed)
             PROVE  Cardinality({p \in profiles : p.fact = f}) <= 1
    BY DEF OneProfile
<1> DEFINE S == {p \in profiles : p.fact = f}
<1>1. \A p, q \in S : p = q
    BY DEF MemoryInv, Alone
<1>2. S = {} \/ \E p : S = {p}
    BY <1>1
<1>3. Cardinality(S) \in {0, 1}
    BY <1>2, FS_EmptySet, FS_Singleton
<1>. QED
    BY <1>3

\* Rows have the columns the tables declare, confidence between 0.05 and 1 among them, for
\* any facts and any number of transactions (agents/memory/models.py).
THEOREM MemoryTypesHold == MemorySpec => []MemoryTypeOK
<1>1. MemoryInv /\ [MemoryNext]_memoryVars => MemoryInv'
    BY MemoryInductive
<1>2. MemoryInv => MemoryTypeOK
    BY DEF MemoryInv, MemoryTypes
<1>. QED
    BY <1>1, <1>2, MemoryInitHolds, PTL DEF MemorySpec

\* A fact has one profile unless two transactions looked for it at the same time, the user
\* changed another profile into it, or a lookup missed the one there was: for any facts,
\* any number of transactions, messages and tool calls (MemoryService.upsert_profile, aggregate_fragments, update_profile).
THEOREM OneProfileHolds == MemorySpec => []OneProfile
<1>1. MemoryInv /\ [MemoryNext]_memoryVars => MemoryInv'
    BY MemoryInductive
<1>. QED
    BY <1>1, MemoryInitHolds, MemoryInvImplies, PTL DEF MemorySpec

----------------------------------------------------------------------------
(* Mentions are counted once.  A row may be read, written and committed by several side  *)
(* paths: whatever row is written last, Evident has the occurrences it stands for, and   *)
(* there are no more of them than mentions that were committed.                          *)

\* What a transaction has of the fragments: a row it has read, or one it has written, and
\* not both.
FragmentShape(r) ==
    /\ \A x, y \in r.frag : x = y
    /\ \A x \in r.frag : x.fact = r.fact
    /\ r.read # Nothing => r.read.fact = r.fact /\ r.at = "found" /\ r.frag = {}
    /\ r.frag # {} => r.at \in {"counted", "doubting", "checked", "promoting", "done"}
    /\ r.spent => r.frag # {}

\* A row that was written is there, with the fact it had, or it is new and known to
\* its transaction alone.
Anchored ==
    /\ \A r, s \in fragments : r.id = s.id => r = s
    /\ \A r \in fragments : r.id < nextId
    /\ \A t \in Txns :
         /\ txn[t].read # Nothing =>
              /\ txn[t].read.id < nextId
              /\ \A s \in fragments : s.id = txn[t].read.id => s.fact = txn[t].read.fact
         /\ \A x \in txn[t].frag :
              /\ x.id < nextId
              /\ \A s \in fragments : s.id = x.id => s.fact = x.fact
              /\ x.id \in Ids(fragments) \/ x.occurrences = 1
              /\ \A u \in Txns \ {t} :
                   /\ x.id \notin Ids(txn[u].frag)
                   /\ x.id \notin Ids(fragments) =>
                        ~(txn[u].read # Nothing /\ txn[u].read.id = x.id)

\* Occurrences that a row of fragments has, or had when a transaction read it.
Had(i, n) ==
    \/ \E s \in fragments : s.id = i /\ n <= s.occurrences
    \/ \E t \in Txns : /\ txn[t].read # Nothing /\ txn[t].read.id = i
                       /\ n <= txn[t].read.occurrences
    \/ \E t \in Txns : \E x \in txn[t].frag : x.id = i /\ n < x.occurrences

Evident(f) == {p \in Ids(Similar(f)) \X Counts : Had(p[1], p[2])}

\* Whatever row a transaction goes back to, the mentions it stands for were committed.
Backed == \A f \in Facts :
    /\ IsFiniteSet(Evident(f))
    /\ Cardinality(Evident(f)) + promoted[f] <= mentions[f]

\* Outside raced, a row is as it was read, and nobody else has it.
Exact == \A f \in Facts \ raced :
    /\ Cardinality(Occurrences(Similar(f))) + promoted[f] = mentions[f]
    /\ \A t \in Txns :
         /\ txn[t].read # Nothing /\ txn[t].fact = f =>
              /\ txn[t].read \in fragments
              /\ \A u \in Txns \ {t} :
                   /\ txn[u].read # Nothing => txn[u].read.id # txn[t].read.id
                   /\ txn[t].read.id \notin Ids(txn[u].frag)
         /\ txn[t].fact = f =>
              \A x \in txn[t].frag : \A s \in fragments :
                 s.id = x.id => x.occurrences = s.occurrences + 1

Counted ==
    /\ mentions \in [Facts -> Nat] /\ promoted \in [Facts -> Nat]
    /\ Backed /\ Exact

MentionInv == (\A t \in Txns : FragmentShape(txn[t])) /\ Anchored /\ Counted

\* A row that was read or written is not Nothing, and has an id and a count.
LEMMA RowIsRow ==
    ASSUME NEW x \in Rows
    PROVE  x # Nothing /\ x.id \in Counts /\ x.fact \in Facts /\ x.occurrences \in Counts
    BY FactsAssumption DEF Rows

\* What the fragments hold is evident.
LEMMA OccurrencesEvident ==
    ASSUME MemoryInv, NEW f \in Facts
    PROVE  Occurrences(Similar(f)) \subseteq Evident(f)
<1>1. ASSUME NEW r \in Similar(f), NEW n \in 1..r.occurrences PROVE <<r.id, n>> \in Evident(f)
  <2>1. r \in fragments /\ n \in Counts /\ n <= r.occurrences
    BY RowIsRow DEF MemoryInv, MemoryTypes, MemoryTypeOK, Similar, Counts
  <2>. QED
    BY <2>1 DEF Evident, Had, Ids
<1>. QED
    BY <1>1 DEF Occurrences

\* A step that leaves the fragments alone, and after which nothing new is evident.
LEMMA StillBacked ==
    ASSUME Counted, UNCHANGED <<fragments, mentions, promoted>>,
           \A i \in Ids(fragments), n \in Counts : Had(i, n)' => Had(i, n)
    PROVE  Backed'
<1> SUFFICES ASSUME NEW f \in Facts
             PROVE  /\ IsFiniteSet(Evident(f)')
                    /\ Cardinality(Evident(f)') + promoted[f] <= mentions[f]
    BY DEF Backed
<1>1. Evident(f)' \subseteq Evident(f)
    BY DEF Evident, Ids, Similar
<1>2. IsFiniteSet(Evident(f)) /\ Cardinality(Evident(f)) + promoted[f] <= mentions[f]
    BY DEF Counted, Backed
<1>3. /\ IsFiniteSet(Evident(f)') /\ Cardinality(Evident(f)') <= Cardinality(Evident(f))
      /\ Cardinality(Evident(f)') \in Nat /\ Cardinality(Evident(f)) \in Nat
    BY <1>1, <1>2, FS_Subset, FS_CardinalityType
<1>4. promoted[f] \in Nat /\ mentions[f] \in Nat
    BY DEF Counted
<1>. QED
    BY <1>2, <1>3, <1>4

\* A step that leaves the fragments alone, and what its transaction has of them, or gives
\* it up.
LEMMA SameRowsStep ==
    ASSUME MemoryInv, MentionInv, NEW t \in Txns, NEW r, Becomes(t, r),
           txn' \in [Txns -> Transactions], UNCHANGED <<fragments, mentions, promoted>>,
           nextId' \in Counts, nextId <= nextId', raced \subseteq raced',
           FragmentShape(r),
           r.read # Nothing => r.read = txn[t].read /\ r.fact = txn[t].fact,
           r.frag # {} => r.frag = txn[t].frag /\ r.fact = txn[t].fact
    PROVE  MentionInv'
<1>1. /\ txn' \in [Txns -> Transactions] /\ txn'[t] = r
      /\ \A u \in Txns \ {t} : txn'[u] = txn[u]
    BY Held DEF Becomes
<1>2. /\ \A u \in Txns : txn'[u].read # Nothing =>
            txn[u].read = txn'[u].read /\ txn[u].fact = txn'[u].fact
      /\ \A u \in Txns : \A x \in txn'[u].frag :
            x \in txn[u].frag /\ txn[u].fact = txn'[u].fact
    BY <1>1
<1>3. \A u \in Txns : FragmentShape(txn'[u])
    BY <1>1 DEF MentionInv
<1>4. Anchored'
  <2>1. \A x \in fragments : x.id < nextId'
    BY Held, RowIsRow DEF MentionInv, Anchored, Counts
  <2>2. ASSUME NEW u \in Txns, txn'[u].read # Nothing
        PROVE  /\ txn'[u].read.id < nextId'
               /\ \A s \in fragments : s.id = txn'[u].read.id => s.fact = txn'[u].read.fact
    <3>1. txn[u].read = txn'[u].read
      BY <1>2, <2>2
    <3>2. txn[u].read \in Rows
      BY <2>2, <3>1, Held DEF Transactions
    <3>. QED
      BY <2>2, <3>1, <3>2, Held, RowIsRow DEF MentionInv, Anchored, Counts
  <2>3. ASSUME NEW u \in Txns, NEW x \in txn'[u].frag
        PROVE  /\ x.id < nextId'
               /\ \A s \in fragments : s.id = x.id => s.fact = x.fact
               /\ x.id \in Ids(fragments) \/ x.occurrences = 1
               /\ \A v \in Txns \ {u} :
                    /\ x.id \notin Ids(txn'[v].frag)
                    /\ x.id \notin Ids(fragments) =>
                         ~(txn'[v].read # Nothing /\ txn'[v].read.id = x.id)
    <3>1. x \in txn[u].frag
      BY <1>2
    <3>2. x \in Rows
      BY <3>1, Held DEF Transactions
    <3>3. x.id < nextId'
      BY <3>1, <3>2, Held, RowIsRow DEF MentionInv, Anchored, Counts
    <3>4. \A v \in Txns \ {u} :
             /\ x.id \notin Ids(txn'[v].frag)
             /\ x.id \notin Ids(fragments) =>
                  ~(txn'[v].read # Nothing /\ txn'[v].read.id = x.id)
      BY <1>2, <3>1 DEF MentionInv, Anchored, Ids
    <3>. QED
      BY <3>1, <3>3, <3>4 DEF MentionInv, Anchored
  <2>. QED
    BY <2>1, <2>2, <2>3 DEF MentionInv, Anchored, Ids
<1>5. Backed'
  <2>1. \A i \in Ids(fragments), n \in Counts : Had(i, n)' => Had(i, n)
    BY <1>2 DEF Had
  <2>. QED
    BY <2>1, StillBacked DEF MentionInv
<1>6. Exact'
  <2> SUFFICES ASSUME NEW f \in Facts, f \notin raced'
               PROVE  /\ Cardinality(Occurrences(Similar(f))') + promoted[f] = mentions[f]
                      /\ \A u \in Txns :
                           /\ txn'[u].read # Nothing /\ txn'[u].fact = f =>
                                /\ txn'[u].read \in fragments
                                /\ \A v \in Txns \ {u} :
                                     /\ txn'[v].read # Nothing => txn'[v].read.id # txn'[u].read.id
                                     /\ txn'[u].read.id \notin Ids(txn'[v].frag)
                           /\ txn'[u].fact = f =>
                                \A x \in txn'[u].frag : \A s \in fragments :
                                   s.id = x.id => x.occurrences = s.occurrences + 1
    BY DEF Exact, Ids
  <2>1. f \notin raced
    OBVIOUS
  <2>2. Occurrences(Similar(f))' = Occurrences(Similar(f))
    BY DEF Occurrences, Similar
  <2>3. ASSUME NEW u \in Txns, txn'[u].read # Nothing, txn'[u].fact = f
        PROVE  /\ txn'[u].read \in fragments
               /\ \A v \in Txns \ {u} :
                    /\ txn'[v].read # Nothing => txn'[v].read.id # txn'[u].read.id
                    /\ txn'[u].read.id \notin Ids(txn'[v].frag)
    BY <1>2, <2>1, <2>3 DEF MentionInv, Counted, Exact, Ids
  <2>4. ASSUME NEW u \in Txns, txn'[u].fact = f, NEW x \in txn'[u].frag, NEW s \in fragments,
               s.id = x.id
        PROVE  x.occurrences = s.occurrences + 1
    BY <1>2, <2>1, <2>4 DEF MentionInv, Counted, Exact
  <2>. QED
    BY <2>1, <2>2, <2>3, <2>4 DEF MentionInv, Counted, Exact
<1>. QED
    BY <1>3, <1>4, <1>5, <1>6 DEF MentionInv, Counted

\* _find_similar_fragment finds a row: it has all the occurrences that are read.
LEMMA FindRowStep ==
    ASSUME MemoryInv, MentionInv, NEW t \in Txns, NEW q \in fragments,
           txn[t].at = "extracted", q.fact = txn[t].fact,
           Becomes(t, [txn[t] EXCEPT !.at = "found", !.read = q]),
           UNCHANGED <<fragments, mentions, promoted, nextId>>,
           raced' = IF Shares(t, q) THEN raced \cup {txn[t].fact} ELSE raced
    PROVE  MentionInv'
<1> DEFINE r == [txn[t] EXCEPT !.at = "found", !.read = q]
<1>1. /\ q \in Rows /\ q # Nothing /\ r \in Transactions
      /\ txn[t].fact \in Facts
    BY Held, RowIsRow DEF Transactions
<1>2. txn[t].frag = {} /\ ~txn[t].spent
    BY DEF MentionInv, FragmentShape
<1>3. /\ txn' \in [Txns -> Transactions] /\ txn'[t] = r
      /\ \A u \in Txns \ {t} : txn'[u] = txn[u]
    BY <1>1, Held DEF Becomes
<1>4. r.read = q /\ r.frag = {} /\ r.fact = txn[t].fact /\ r.at = "found" /\ ~r.spent
    BY <1>1, <1>2, Held DEF Transactions
<1> HIDE DEF r
<1>5. \A u \in Txns : FragmentShape(txn'[u])
  <2>1. FragmentShape(r)
    BY <1>1, <1>4 DEF FragmentShape
  <2>. QED
    BY <1>3, <2>1 DEF MentionInv
<1>6. Anchored'
  <2>1. ASSUME NEW u \in Txns, txn'[u].read # Nothing
        PROVE  /\ txn'[u].read.id < nextId
               /\ \A s \in fragments : s.id = txn'[u].read.id => s.fact = txn'[u].read.fact
    <3>1. CASE u = t
      BY <1>3, <1>4, <3>1 DEF MentionInv, Anchored
    <3>2. CASE u # t
      BY <1>3, <2>1, <3>2 DEF MentionInv, Anchored
    <3>. QED
      BY <3>1, <3>2
  <2>2. ASSUME NEW u \in Txns, NEW x \in txn'[u].frag
        PROVE  /\ x.id < nextId
               /\ \A s \in fragments : s.id = x.id => s.fact = x.fact
               /\ x.id \in Ids(fragments) \/ x.occurrences = 1
               /\ \A v \in Txns \ {u} :
                    /\ x.id \notin Ids(txn'[v].frag)
                    /\ x.id \notin Ids(fragments) =>
                         ~(txn'[v].read # Nothing /\ txn'[v].read.id = x.id)
    <3>1. u # t /\ x \in txn[u].frag
      BY <1>3, <1>4
    <3>2. /\ x.id < nextId
          /\ \A s \in fragments : s.id = x.id => s.fact = x.fact
          /\ x.id \in Ids(fragments) \/ x.occurrences = 1
      BY <3>1 DEF MentionInv, Anchored
    <3>3. ASSUME NEW v \in Txns \ {u}
          PROVE  /\ x.id \notin Ids(txn'[v].frag)
                 /\ x.id \notin Ids(fragments) =>
                       ~(txn'[v].read # Nothing /\ txn'[v].read.id = x.id)
      <4>1. CASE v = t
        BY <1>3, <1>4, <4>1 DEF Ids
      <4>2. CASE v # t
        BY <1>3, <3>1, <4>2 DEF MentionInv, Anchored
      <4>. QED
        BY <4>1, <4>2
    <3>. QED
      BY <3>2, <3>3
  <2>. QED
    BY <2>1, <2>2 DEF MentionInv, Anchored, Ids
<1>7. Backed'
  <2>1. ASSUME NEW i \in Ids(fragments), NEW n \in Counts, Had(i, n)' PROVE Had(i, n)
    <3>1. CASE \E s \in fragments : s.id = i /\ n <= s.occurrences
      BY <3>1 DEF Had
    <3>2. CASE \E u \in Txns : /\ txn'[u].read # Nothing /\ txn'[u].read.id = i
                               /\ n <= txn'[u].read.occurrences
      BY <1>3, <1>4, <3>2 DEF Had
    <3>3. CASE \E u \in Txns : \E x \in txn'[u].frag : x.id = i /\ n < x.occurrences
      BY <1>3, <1>4, <3>3 DEF Had
    <3>. QED
      BY <2>1, <3>1, <3>2, <3>3 DEF Had
  <2>. QED
    BY <2>1, StillBacked DEF MentionInv
<1>8. Exact'
  <2> SUFFICES ASSUME NEW f \in Facts, f \notin raced'
               PROVE  /\ Cardinality(Occurrences(Similar(f))') + promoted[f] = mentions[f]
                      /\ \A u \in Txns :
                           /\ txn'[u].read # Nothing /\ txn'[u].fact = f =>
                                /\ txn'[u].read \in fragments
                                /\ \A v \in Txns \ {u} :
                                     /\ txn'[v].read # Nothing => txn'[v].read.id # txn'[u].read.id
                                     /\ txn'[u].read.id \notin Ids(txn'[v].frag)
                           /\ txn'[u].fact = f =>
                                \A x \in txn'[u].frag : \A s \in fragments :
                                   s.id = x.id => x.occurrences = s.occurrences + 1
    BY DEF Exact, Ids
  <2>1. f \notin raced
    OBVIOUS
  <2>2. Occurrences(Similar(f))' = Occurrences(Similar(f))
    BY DEF Occurrences, Similar
  <2>3. ASSUME txn[t].fact = f, NEW v \in Txns \ {t}
        PROVE  /\ txn[v].read # Nothing => txn[v].read.id # q.id
               /\ q.id \notin Ids(txn[v].frag)
    <3>1. ~Shares(t, q)
      BY <2>1, <2>3
    <3>2. q.id \notin Ids(txn[v].frag) /\ txn[v].read # q
      BY <3>1 DEF Shares, Flushed
    <3>3. ASSUME txn[v].read # Nothing, txn[v].read.id = q.id PROVE FALSE
      <4>1. txn[v].read.fact = f /\ txn[v].fact = f
        BY <2>3, <3>3 DEF MentionInv, Anchored, FragmentShape
      <4>2. txn[v].read \in fragments
        BY <2>1, <3>3, <4>1 DEF MentionInv, Counted, Exact
      <4>. QED
        BY <3>2, <3>3, <4>2 DEF MentionInv, Anchored
    <3>. QED
      BY <3>2, <3>3
  <2>4. ASSUME NEW u \in Txns, txn'[u].read # Nothing, txn'[u].fact = f
        PROVE  /\ txn'[u].read \in fragments
               /\ \A v \in Txns \ {u} :
                    /\ txn'[v].read # Nothing => txn'[v].read.id # txn'[u].read.id
                    /\ txn'[u].read.id \notin Ids(txn'[v].frag)
    <3>1. CASE u = t
      BY <1>3, <1>4, <2>3, <2>4, <3>1
    <3>2. CASE u # t
      <4>1. /\ txn'[u] = txn[u] /\ txn[u].read \in fragments
            /\ \A v \in Txns \ {u} :
                 /\ txn[v].read # Nothing => txn[v].read.id # txn[u].read.id
                 /\ txn[u].read.id \notin Ids(txn[v].frag)
        BY <1>3, <2>1, <2>4, <3>2 DEF MentionInv, Counted, Exact
      <4>2. q.id # txn[u].read.id
        <5> SUFFICES ASSUME q.id = txn[u].read.id PROVE FALSE
          OBVIOUS
        <5>1. txn[u].read = q /\ txn[u].fact = q.fact
          BY <1>3, <2>4, <3>2, <4>1 DEF MentionInv, Anchored, FragmentShape
        <5>. QED
          BY <1>3, <2>3, <2>4, <3>2, <5>1
      <4>3. txn'[t].read = q /\ txn'[t].frag = {}
        BY <1>3, <1>4
      <4>4. ASSUME NEW v \in Txns \ {u}
            PROVE  /\ txn'[v].read # Nothing => txn'[v].read.id # txn'[u].read.id
                   /\ txn'[u].read.id \notin Ids(txn'[v].frag)
        <5>1. CASE v = t
          BY <4>1, <4>2, <4>3, <5>1 DEF Ids
        <5>2. CASE v # t
          BY <1>3, <4>1, <5>2
        <5>. QED
          BY <5>1, <5>2
      <4>. QED
        BY <4>1, <4>4
    <3>. QED
      BY <3>1, <3>2
  <2>5. ASSUME NEW u \in Txns, txn'[u].fact = f, NEW x \in txn'[u].frag, NEW s \in fragments,
               s.id = x.id
        PROVE  x.occurrences = s.occurrences + 1
    <3>1. u # t /\ txn'[u] = txn[u]
      BY <1>3, <1>4
    <3>. QED
      BY <2>1, <2>5, <3>1 DEF MentionInv, Counted, Exact
  <2>. QED
    BY <2>1, <2>2, <2>4, <2>5 DEF MentionInv, Counted, Exact
<1>. QED
    BY <1>5, <1>6, <1>7, <1>8 DEF MentionInv, Counted

\* A transaction has written a row: what changes in the invariant is about that row.
LEMMA WrittenStep ==
    ASSUME MemoryInv, MentionInv, NEW t \in Txns, NEW x \in Rows, NEW r \in Transactions,
           Becomes(t, r), r.read = Nothing, r.frag = {x}, r.fact = txn[t].fact,
           FragmentShape(r), UNCHANGED <<fragments, mentions, promoted, raced>>,
           nextId' \in Counts, nextId <= nextId', x.id < nextId',
           \A s \in fragments : s.id = x.id => s.fact = x.fact,
           x.id \in Ids(fragments) \/ x.occurrences = 1,
           \A v \in Txns \ {t} : /\ x.id \notin Ids(txn[v].frag)
                                 /\ x.id \notin Ids(fragments) =>
                                      ~(txn[v].read # Nothing /\ txn[v].read.id = x.id),
           \A n \in Counts : n < x.occurrences => Had(x.id, n) \/ x.id \notin Ids(fragments),
           txn[t].fact \notin raced =>
              \A s \in fragments : s.id = x.id => x.occurrences = s.occurrences + 1,
           \A v \in Txns \ {t} :
              txn[v].fact \notin raced /\ txn[v].read # Nothing => txn[v].read.id # x.id
    PROVE  MentionInv'
<1>1. /\ txn' \in [Txns -> Transactions] /\ txn'[t] = r
      /\ \A u \in Txns \ {t} : txn'[u] = txn[u]
    BY Held DEF Becomes
<1>2. \A u \in Txns : FragmentShape(txn'[u])
    BY <1>1 DEF MentionInv
<1>3. Anchored'
  <2>1. \A y \in fragments : y.id < nextId'
    BY Held, RowIsRow DEF MentionInv, Anchored, Counts
  <2>2. ASSUME NEW u \in Txns, txn'[u].read # Nothing
        PROVE  /\ txn'[u].read.id < nextId'
               /\ \A s \in fragments : s.id = txn'[u].read.id => s.fact = txn'[u].read.fact
    <3>1. u # t /\ txn[u].read = txn'[u].read
      BY <1>1, <2>2
    <3>2. txn[u].read \in Rows
      BY <2>2, <3>1, Held DEF Transactions
    <3>. QED
      BY <2>2, <3>1, <3>2, Held, RowIsRow DEF MentionInv, Anchored, Counts
  <2>3. ASSUME NEW u \in Txns, NEW y \in txn'[u].frag
        PROVE  /\ y.id < nextId'
               /\ \A s \in fragments : s.id = y.id => s.fact = y.fact
               /\ y.id \in Ids(fragments) \/ y.occurrences = 1
               /\ \A v \in Txns \ {u} :
                    /\ y.id \notin Ids(txn'[v].frag)
                    /\ y.id \notin Ids(fragments) =>
                         ~(txn'[v].read # Nothing /\ txn'[v].read.id = y.id)
    <3>1. CASE u = t
      BY <1>1, <3>1
    <3>2. CASE u # t
      <4>1. y \in txn[u].frag /\ y \in Rows
        BY <1>1, <3>2, Held DEF Transactions
      <4>2. y.id < nextId'
        BY <4>1, Held, RowIsRow DEF MentionInv, Anchored, Counts
      <4>3. y.id # x.id
        BY <3>2, <4>1 DEF Ids
      <4>4. ASSUME NEW v \in Txns \ {u}
            PROVE  /\ y.id \notin Ids(txn'[v].frag)
                   /\ y.id \notin Ids(fragments) =>
                         ~(txn'[v].read # Nothing /\ txn'[v].read.id = y.id)
        <5>1. CASE v = t
          BY <1>1, <4>3, <5>1 DEF Ids
        <5>2. CASE v # t
          BY <1>1, <4>1, <5>2 DEF MentionInv, Anchored
        <5>. QED
          BY <5>1, <5>2
      <4>. QED
        BY <4>1, <4>2, <4>4 DEF MentionInv, Anchored
    <3>. QED
      BY <3>1, <3>2
  <2>. QED
    BY <2>1, <2>2, <2>3 DEF MentionInv, Anchored, Ids
<1>4. Backed'
  <2>1. ASSUME NEW i \in Ids(fragments), NEW n \in Counts, Had(i, n)' PROVE Had(i, n)
    <3>1. CASE \E s \in fragments : s.id = i /\ n <= s.occurrences
      BY <3>1 DEF Had
    <3>2. CASE \E u \in Txns : /\ txn'[u].read # Nothing /\ txn'[u].read.id = i
                               /\ n <= txn'[u].read.occurrences
      BY <1>1, <3>2 DEF Had
    <3>3. CASE \E u \in Txns : \E y \in txn'[u].frag : y.id = i /\ n < y.occurrences
      <4>1. PICK u \in Txns : \E y \in txn'[u].frag : y.id = i /\ n < y.occurrences
        BY <3>3
      <4>2. CASE u = t
        BY <1>1, <4>1, <4>2
      <4>3. CASE u # t
        BY <1>1, <4>1, <4>3 DEF Had
      <4>. QED
        BY <4>2, <4>3
    <3>. QED
      BY <2>1, <3>1, <3>2, <3>3 DEF Had
  <2>. QED
    BY <2>1, StillBacked DEF MentionInv
<1>5. Exact'
  <2> SUFFICES ASSUME NEW f \in Facts, f \notin raced
               PROVE  /\ Cardinality(Occurrences(Similar(f))') + promoted[f] = mentions[f]
                      /\ \A u \in Txns :
                           /\ txn'[u].read # Nothing /\ txn'[u].fact = f =>
                                /\ txn'[u].read \in fragments
                                /\ \A v \in Txns \ {u} :
                                     /\ txn'[v].read # Nothing => txn'[v].read.id # txn'[u].read.id
                                     /\ txn'[u].read.id \notin Ids(txn'[v].frag)
                           /\ txn'[u].fact = f =>
                                \A y \in txn'[u].frag : \A s \in fragments :
                                   s.id = y.id => y.occurrences = s.occurrences + 1
    BY DEF Exact, Ids
  <2>1. Occurrences(Similar(f))' = Occurrences(Similar(f))
    BY DEF Occurrences, Similar
  <2>2. ASSUME NEW u \in Txns, txn'[u].read # Nothing, txn'[u].fact = f
        PROVE  /\ txn'[u].read \in fragments
               /\ \A v \in Txns \ {u} :
                    /\ txn'[v].read # Nothing => txn'[v].read.id # txn'[u].read.id
                    /\ txn'[u].read.id \notin Ids(txn'[v].frag)
    <3>1. /\ u # t /\ txn'[u] = txn[u] /\ txn[u].read \in fragments
          /\ \A v \in Txns \ {u} :
               /\ txn[v].read # Nothing => txn[v].read.id # txn[u].read.id
               /\ txn[u].read.id \notin Ids(txn[v].frag)
      BY <1>1, <2>2 DEF MentionInv, Counted, Exact
    <3>2. txn[u].read.id # x.id
      BY <2>2, <3>1
    <3>3. ASSUME NEW v \in Txns \ {u}
          PROVE  /\ txn'[v].read # Nothing => txn'[v].read.id # txn'[u].read.id
                 /\ txn'[u].read.id \notin Ids(txn'[v].frag)
      <4>1. CASE v = t
        BY <1>1, <3>1, <3>2, <4>1 DEF Ids
      <4>2. CASE v # t
        BY <1>1, <3>1, <4>2
      <4>. QED
        BY <4>1, <4>2
    <3>. QED
      BY <3>1, <3>3
  <2>3. ASSUME NEW u \in Txns, txn'[u].fact = f, NEW y \in txn'[u].frag, NEW s \in fragments,
               s.id = y.id
        PROVE  y.occurrences = s.occurrences + 1
    <3>1. CASE u = t
      BY <1>1, <2>3, <3>1
    <3>2. CASE u # t
      BY <1>1, <2>3, <3>2 DEF MentionInv, Counted, Exact
    <3>. QED
      BY <3>1, <3>2
  <2>. QED
    BY <2>1, <2>2, <2>3 DEF MentionInv, Counted, Exact
<1>. QED
    BY <1>2, <1>3, <1>4, <1>5 DEF MentionInv, Counted

\* The row that is counted once more is there, and locked from now on.
LEMMA CountMentions ==
    ASSUME MemoryInv, MentionInv, NEW t \in Txns, Count(t)
    PROVE  MentionInv'
<1> DEFINE q == txn[t].read
           x == [q EXCEPT !.occurrences = @ + 1]
           r == [txn[t] EXCEPT !.at = "counted", !.read = Nothing, !.frag = {x}]
<1>1. /\ txn[t].at = "found" /\ q # Nothing /\ ~Locked(t, q.id) /\ q.id \in Ids(fragments)
      /\ UNCHANGED <<fragments, mentions, promoted, raced, nextId>>
      /\ Becomes(t, r)
    BY DEF Count, history
<1>2. q \in Rows /\ q.fact = txn[t].fact /\ txn[t].frag = {} /\ ~txn[t].spent
    BY <1>1, Held DEF MentionInv, FragmentShape, Transactions
<1>3. /\ x \in Rows /\ x.id = q.id /\ x.fact = q.fact /\ x.occurrences = q.occurrences + 1
      /\ q.occurrences \in Nat
    BY <1>2 DEF Rows, Counts
<1> HIDE DEF x, q
<1>4. /\ r \in Transactions /\ r.read = Nothing /\ r.frag = {x} /\ r.fact = txn[t].fact
      /\ r.at = "counted" /\ ~r.spent
    BY <1>2, <1>3, Held DEF Transactions
<1> HIDE DEF r
<1>5. FragmentShape(r)
    BY <1>2, <1>3, <1>4 DEF FragmentShape
<1>6. /\ x.id < nextId' /\ \A s \in fragments : s.id = x.id => s.fact = x.fact
      /\ x.id \in Ids(fragments)
    BY <1>1, <1>3 DEF MentionInv, Anchored, q
<1>7. \A v \in Txns \ {t} : x.id \notin Ids(txn[v].frag)
    BY <1>1, <1>3 DEF Locked, Flushed
<1>8. \A n \in Counts : n < x.occurrences => Had(x.id, n)
  <2> SUFFICES ASSUME NEW n \in Counts, n < x.occurrences PROVE Had(x.id, n)
    OBVIOUS
  <2>1. n <= q.occurrences
    BY <1>3 DEF Counts
  <2>. QED
    BY <1>1, <1>3, <2>1 DEF Had, q
<1>9. ASSUME txn[t].fact \notin raced, NEW s \in fragments, s.id = x.id
      PROVE  x.occurrences = s.occurrences + 1
  <2>1. txn[t].fact \in Facts /\ q \in fragments
    BY <1>1, <1>2, <1>9, RowIsRow DEF MentionInv, Counted, Exact, q
  <2>. QED
    BY <1>3, <1>9, <2>1 DEF MentionInv, Anchored
<1>10. ASSUME NEW v \in Txns \ {t}, txn[v].fact \notin raced, txn[v].read # Nothing
       PROVE  txn[v].read.id # x.id
  <2>1. txn[v].fact \in Facts
    BY <1>10, Held, RowIsRow DEF MentionInv, FragmentShape, Transactions
  <2>. QED
    BY <1>1, <1>3, <1>10, <2>1 DEF MentionInv, Counted, Exact, q
<1>. QED
    BY <1>1, <1>3, <1>4, <1>5, <1>6, <1>7, <1>8, <1>9, <1>10, Held, WrittenStep

\* Nobody knows the new row.
LEMMA NoteMentions ==
    ASSUME MemoryInv, MentionInv, NEW t \in Txns, Note(t)
    PROVE  MentionInv'
<1> DEFINE x == [id |-> nextId, fact |-> txn[t].fact, occurrences |-> 1]
           r == [txn[t] EXCEPT !.at = "counted", !.frag = {x}]
<1>1. /\ txn[t].at = "found" /\ txn[t].read = Nothing /\ nextId' = nextId + 1
      /\ UNCHANGED <<fragments, mentions, promoted, raced>>
      /\ Becomes(t, r)
    BY DEF Note, history
<1>2. txn[t].frag = {} /\ ~txn[t].spent /\ txn[t].fact \in Facts
    BY <1>1, Held DEF MentionInv, FragmentShape, TxnShape
<1>3. x \in Rows /\ x.id = nextId /\ x.fact = txn[t].fact /\ x.occurrences = 1
    BY <1>2, Held DEF Rows, Counts
<1> HIDE DEF x
<1>4. /\ r \in Transactions /\ r.read = Nothing /\ r.frag = {x} /\ r.fact = txn[t].fact
      /\ r.at = "counted" /\ ~r.spent
  <2>1. txn[t] \in Transactions /\ {x} \in SUBSET Rows
    BY <1>3, Held
  <2>2. r \in Transactions
    BY <2>1 DEF Transactions
  <2>3. /\ r.read = txn[t].read /\ r.frag = {x} /\ r.fact = txn[t].fact
        /\ r.at = "counted" /\ r.spent = txn[t].spent
    BY <2>1 DEF Transactions
  <2>. QED
    BY <1>1, <1>2, <2>2, <2>3
<1> HIDE DEF r
<1>5. FragmentShape(r)
    BY <1>2, <1>3, <1>4 DEF FragmentShape
<1>6. \A s \in fragments : s.id # x.id
    BY <1>3, Held, RowIsRow DEF MentionInv, Anchored, Counts
<1>7. ASSUME NEW v \in Txns
      PROVE  /\ x.id \notin Ids(txn[v].frag)
             /\ txn[v].read # Nothing => txn[v].read.id # x.id
  <2>1. \A y \in txn[v].frag : y.id # x.id
    BY <1>3, Held, RowIsRow DEF MentionInv, Anchored, Counts, Transactions
  <2>2. txn[v].read # Nothing => txn[v].read.id # x.id
    BY <1>3, Held, RowIsRow DEF MentionInv, Anchored, Counts, Transactions
  <2>. QED
    BY <2>1, <2>2 DEF Ids
<1>8. x.id \notin Ids(fragments)
    BY <1>6 DEF Ids
<1>. QED
    BY <1>1, <1>3, <1>4, <1>5, <1>6, <1>7, <1>8, Held, WrittenStep DEF Counts

\* The occurrences of one row.
LEMMA OneColumn ==
    ASSUME NEW i, NEW n \in Nat
    PROVE  IsFiniteSet({i} \X (1..n)) /\ Cardinality({i} \X (1..n)) = n
<1>1. IsFiniteSet({i}) /\ Cardinality({i}) = 1
    BY FS_Singleton
<1>2. IsFiniteSet(1..n) /\ Cardinality(1..n) = n
    BY FS_Interval
<1>3. Cardinality({i} \X (1..n)) = 1 * n /\ IsFiniteSet({i} \X (1..n))
  <2> DEFINE S == {i}
             R == 1..n
  <2> HIDE DEF S, R
  <2>1. IsFiniteSet(S) /\ IsFiniteSet(R) /\ Cardinality(S) = 1 /\ Cardinality(R) = n
    BY <1>1, <1>2 DEF S, R
  <2>2. IsFiniteSet(S \X R) /\ Cardinality(S \X R) = Cardinality(S) * Cardinality(R)
    BY <2>1, FS_Product
  <2>3. Cardinality(S \X R) = 1 * n
    BY <2>1, <2>2
  <2>. QED
    BY <2>2, <2>3 DEF S, R
<1>. QED
    BY <1>3

\* A transaction that wrote no fragment commits.
LEMMA CommitNoRow ==
    ASSUME MemoryInv, MentionInv, NEW t \in Txns, CommitTxn(t), txn[t].frag = {}
    PROVE  MentionInv'
<1>1. ~txn[t].spent
    BY DEF MentionInv, FragmentShape
<1>2. fragments' = fragments
    BY <1>1 DEF CommitTxn, Ids
<1>3. \A f \in Facts : {x \in txn[t].frag : x.fact = f} = {}
    OBVIOUS
<1>4. mentions' = mentions /\ promoted' = promoted
    BY <1>1, <1>3, FS_EmptySet DEF CommitTxn, MentionInv, Counted
<1>5. /\ Becomes(t, IdleTxn) /\ nextId' = nextId /\ raced' = raced
      /\ IdleTxn \in Transactions /\ IdleTxn.read = Nothing /\ IdleTxn.frag = {}
      /\ FragmentShape(IdleTxn)
    BY DEF CommitTxn, IdleTxn, Transactions, FragmentShape
<1>6. /\ nextId' \in Counts /\ nextId <= nextId' /\ raced \subseteq raced'
      /\ txn' \in [Txns -> Transactions]
    BY <1>5, Held DEF Becomes
<1>7. UNCHANGED <<fragments, mentions, promoted>>
    BY <1>2, <1>4
<1>. HIDE DEF CommitTxn, IdleTxn
<1>. QED
    BY <1>5, <1>6, <1>7, SameRowsStep

\* A transaction that wrote one commits.  What was evident of the fact gains at most the
\* occurrence that was counted, or loses all that goes into the profile but this one.
LEMMA CommitRow ==
    ASSUME MemoryInv, MentionInv, NEW t \in Txns, CommitTxn(t), NEW x \in txn[t].frag
    PROVE  MentionInv'
<1> DEFINE T == txn[t]
           g == x.fact
           new == IF T.spent THEN {} ELSE {x}
<1>1. /\ x \in Rows /\ T.frag = {x} /\ T.fact = g /\ g \in Facts
      /\ x.id \in Counts /\ x.occurrences \in Counts /\ x.occurrences - 1 \in Nat
    BY Held, RowIsRow DEF MentionInv, FragmentShape, Transactions, Counts
<1>2. /\ fragments' = {r \in fragments : r.id # x.id} \cup new
      /\ nextId' = nextId /\ raced' = raced /\ Becomes(t, IdleTxn)
    BY <1>1 DEF CommitTxn, Ids
<1>3. /\ txn' \in [Txns -> Transactions] /\ txn'[t] = IdleTxn
      /\ \A u \in Txns \ {t} : txn'[u] = txn[u]
    BY <1>2, Held DEF Becomes, IdleTxn, Transactions
<1>4. /\ IdleTxn.read = Nothing /\ IdleTxn.frag = {} /\ IdleTxn.fact = Nothing
      /\ FragmentShape(IdleTxn)
    BY DEF IdleTxn, FragmentShape
<1>5. /\ mentions' \in [Facts -> Nat] /\ promoted' \in [Facts -> Nat]
      /\ \A f \in Facts \ {g} : mentions'[f] = mentions[f] /\ promoted'[f] = promoted[f]
      /\ mentions'[g] = mentions[g] + 1
      /\ promoted'[g] = promoted[g] + IF T.spent THEN x.occurrences ELSE 0
  <2>1. \A f \in Facts : {r \in T.frag : r.fact = f} = IF f = g THEN {x} ELSE {}
    BY <1>1
  <2>2. Cardinality({x}) = 1 /\ Cardinality({}) = 0
    BY FS_Singleton, FS_EmptySet
  <2>3. Occurrences({x}) = {x.id} \X (1..x.occurrences) /\ Occurrences({}) = {}
    BY DEF Occurrences
  <2>4. Cardinality(Occurrences({x})) = x.occurrences /\ Cardinality(Occurrences({})) = 0
    <3>1. x.occurrences \in Nat
      BY <1>1 DEF Counts
    <3>2. Cardinality({x.id} \X (1..x.occurrences)) = x.occurrences
      BY <3>1, OneColumn
    <3>. QED
      BY <2>2, <2>3, <3>2
  <2>5. \A f \in Facts : mentions'[f] = mentions[f] + IF f = g THEN 1 ELSE 0
    BY <2>1, <2>2 DEF CommitTxn
  <2>6. \A f \in Facts : promoted'[f] = promoted[f] +
             IF T.spent THEN (IF f = g THEN x.occurrences ELSE 0) ELSE 0
    BY <2>1, <2>4 DEF CommitTxn
  <2>7. DOMAIN mentions' = Facts /\ DOMAIN promoted' = Facts
    BY DEF CommitTxn
  <2>8. mentions' = [f \in Facts |-> mentions'[f]] /\ promoted' = [f \in Facts |-> promoted'[f]]
    BY DEF CommitTxn
  <2>9. \A f \in Facts : mentions[f] \in Nat /\ promoted[f] \in Nat
    BY DEF MentionInv, Counted
  <2>10. \A f \in Facts : mentions'[f] \in Nat /\ promoted'[f] \in Nat
    BY <1>1, <2>5, <2>6, <2>9 DEF Counts
  <2>. QED
    BY <1>1, <2>5, <2>6, <2>8, <2>9, <2>10
<1>6. /\ \A s \in fragments : s.id = x.id => s.fact = g
      /\ x.id \in Ids(fragments) \/ x.occurrences = 1
      /\ x.id < nextId
      /\ \A u \in Txns \ {t} :
           /\ x.id \notin Ids(txn[u].frag)
           /\ x.id \notin Ids(fragments) =>
                ~(txn[u].read # Nothing /\ txn[u].read.id = x.id)
    BY <1>1 DEF MentionInv, Anchored
<1>7. \A f \in Facts \ {g} : Similar(f)' = Similar(f)
    BY <1>1, <1>2, <1>6 DEF Similar
<1>8. Similar(g)' = {r \in Similar(g) : r.id # x.id} \cup new
    BY <1>1, <1>2 DEF Similar
<1> HIDE DEF new
<1>9. \A u \in Txns : FragmentShape(txn'[u])
    BY <1>3, <1>4 DEF MentionInv
<1>10. Anchored'
  <2>1. \A r, s \in fragments' : r.id = s.id => r = s
    BY <1>2 DEF MentionInv, Anchored, new
  <2>2. \A r \in fragments' : r.id < nextId'
    BY <1>2, <1>6 DEF MentionInv, Anchored, new
  <2>3. ASSUME NEW u \in Txns, txn'[u].read # Nothing
        PROVE  /\ txn'[u].read.id < nextId'
               /\ \A s \in fragments' : s.id = txn'[u].read.id => s.fact = txn'[u].read.fact
    <3>1. u # t /\ txn'[u] = txn[u]
      BY <1>3, <1>4, <2>3
    <3>2. /\ txn[u].read.id < nextId
          /\ \A s \in fragments : s.id = txn[u].read.id => s.fact = txn[u].read.fact
      BY <2>3, <3>1 DEF MentionInv, Anchored
    <3>3. x.id = txn[u].read.id => x.fact = txn[u].read.fact
      BY <1>1, <1>6, <2>3, <3>1, <3>2 DEF Ids
    <3>. QED
      BY <1>2, <3>1, <3>2, <3>3 DEF new
  <2>4. ASSUME NEW u \in Txns, NEW y \in txn'[u].frag
        PROVE  /\ y.id < nextId'
               /\ \A s \in fragments' : s.id = y.id => s.fact = y.fact
               /\ y.id \in Ids(fragments') \/ y.occurrences = 1
               /\ \A v \in Txns \ {u} :
                    /\ y.id \notin Ids(txn'[v].frag)
                    /\ y.id \notin Ids(fragments') =>
                         ~(txn'[v].read # Nothing /\ txn'[v].read.id = y.id)
    <3>1. u # t /\ txn'[u] = txn[u] /\ y \in txn[u].frag
      BY <1>3, <1>4
    <3>2. y.id # x.id
      BY <1>6, <3>1 DEF Ids
    <3>3. y.id \in Ids(fragments') <=> y.id \in Ids(fragments)
      BY <1>2, <3>2 DEF Ids, new
    <3>4. /\ y.id < nextId
          /\ \A s \in fragments : s.id = y.id => s.fact = y.fact
          /\ y.id \in Ids(fragments) \/ y.occurrences = 1
      BY <3>1 DEF MentionInv, Anchored
    <3>5. ASSUME NEW v \in Txns \ {u}
          PROVE  /\ y.id \notin Ids(txn'[v].frag)
                 /\ y.id \notin Ids(fragments') =>
                      ~(txn'[v].read # Nothing /\ txn'[v].read.id = y.id)
      <4>1. CASE v = t
        BY <1>3, <1>4, <4>1 DEF Ids
      <4>2. CASE v # t
        BY <1>3, <3>1, <3>3, <4>2 DEF MentionInv, Anchored
      <4>. QED
        BY <4>1, <4>2
    <3>6. \A s \in fragments' : s.id = y.id => s.fact = y.fact
      BY <1>2, <3>2, <3>4 DEF new
    <3>. QED
      BY <1>2, <3>3, <3>4, <3>5, <3>6
  <2>. QED
    BY <2>1, <2>2, <2>3, <2>4 DEF Anchored, Ids
<1>. DEFINE last == <<x.id, x.occurrences>>
            before == {x.id} \X (1..(x.occurrences - 1))
\* What was not evident before is the occurrence that was counted.
<1>11. \A i, n \in Counts : Had(i, n)' =>
          Had(i, n) \/ (~T.spent /\ i = x.id /\ n = x.occurrences)
  <2> SUFFICES ASSUME NEW i \in Counts, NEW n \in Counts, Had(i, n)',
                      ~(~T.spent /\ i = x.id /\ n = x.occurrences)
               PROVE  Had(i, n)
    OBVIOUS
  <2>1. ASSUME NEW s \in fragments', s.id = i, n <= s.occurrences PROVE Had(i, n)
    <3>1. CASE s \in fragments
      BY <2>1, <3>1 DEF Had
    <3>2. CASE s \in new
      <4>1. s = x /\ ~T.spent
        BY <3>2 DEF new
      <4>2. x.id = i /\ n < x.occurrences
        BY <1>1, <2>1, <4>1 DEF Counts
      <4>3. t \in Txns /\ x \in txn[t].frag
        OBVIOUS
      <4>. QED
        BY <4>2, <4>3 DEF Had
    <3>. QED
      BY <1>2, <2>1, <3>1, <3>2
  <2>2. ASSUME NEW u \in Txns, txn'[u].read # Nothing, txn'[u].read.id = i,
               n <= txn'[u].read.occurrences
        PROVE  Had(i, n)
    <3>1. txn'[u] = txn[u]
      BY <1>3, <1>4, <2>2
    <3>. QED
      BY <2>2, <3>1 DEF Had
  <2>3. ASSUME NEW u \in Txns, NEW y \in txn'[u].frag, y.id = i, n < y.occurrences
        PROVE  Had(i, n)
    <3>1. txn'[u] = txn[u]
      BY <1>3, <1>4, <2>3
    <3>. QED
      BY <2>3, <3>1 DEF Had
  <2>. QED
    BY <2>1, <2>2, <2>3 DEF Had
<1>12. Backed'
  <2> SUFFICES ASSUME NEW f \in Facts
               PROVE  /\ IsFiniteSet(Evident(f)')
                      /\ Cardinality(Evident(f)') + promoted'[f] <= mentions'[f]
    BY DEF Backed
  <2> DEFINE E == Evident(f)
             F == Evident(f)'
  <2>1. /\ IsFiniteSet(E) /\ Cardinality(E) + promoted[f] <= mentions[f]
        /\ Cardinality(E) \in Nat /\ promoted[f] \in Nat /\ mentions[f] \in Nat
    BY FS_CardinalityType DEF MentionInv, Counted, Backed
  <2>2. F \subseteq {p \in Ids(Similar(f)') \X Counts : Had(p[1], p[2])'}
    BY DEF Evident, Ids, Similar
  <2>3. Ids(Similar(f)') \subseteq Counts
    <3>1. \A r \in fragments' : r.id \in Counts
      BY <1>1, <1>2, Held, RowIsRow DEF new
    <3>. QED
      BY <3>1 DEF Ids, Similar
  <2>4. CASE f # g
    <3>1. F \subseteq E
      <4> SUFFICES ASSUME NEW p \in F PROVE p \in E
        OBVIOUS
      <4>1. p \in Ids(Similar(f)') \X Counts /\ Had(p[1], p[2])'
        BY <2>2
      <4>2. p[1] \in Counts /\ p[2] \in Counts /\ p = <<p[1], p[2]>>
        BY <2>3, <4>1
      <4>3. p[1] \in Ids(Similar(f))
        BY <1>7, <2>4, <4>1
      <4>4. p[1] # x.id
        BY <1>6, <2>4, <4>3 DEF Ids, Similar
      <4>5. Had(p[1], p[2])
        BY <1>11, <4>1, <4>2, <4>4
      <4>. QED
        BY <4>2, <4>3, <4>5 DEF Evident
    <3>. HIDE DEF E, F
    <3>2. IsFiniteSet(F) /\ Cardinality(F) <= Cardinality(E) /\ Cardinality(F) \in Nat
      BY <2>1, <3>1, FS_Subset, FS_CardinalityType
    <3>. QED
      BY <1>5, <2>1, <2>4, <3>2 DEF E, F
  <2>5. CASE f = g /\ ~T.spent
    <3>1. F \subseteq E \cup {last}
      <4> SUFFICES ASSUME NEW p \in F, p # last PROVE p \in E
        OBVIOUS
      <4>1. p \in Ids(Similar(g)') \X Counts /\ Had(p[1], p[2])'
        BY <2>2, <2>5
      <4>2. p[1] \in Counts /\ p[2] \in Counts /\ p = <<p[1], p[2]>>
        BY <2>3, <2>5, <4>1
      <4>3. Had(p[1], p[2])
        BY <1>11, <4>1, <4>2
      <4>4. p[1] \in Ids(Similar(g))
        <5>1. CASE p[1] = x.id
          <6>1. CASE x.id \in Ids(fragments)
            BY <1>6, <5>1, <6>1 DEF Ids, Similar
          <6>2. CASE x.id \notin Ids(fragments)
            <7>1. x.occurrences = 1
              BY <1>6, <6>2
            <7>2. \A s \in fragments : s.id # x.id
              BY <6>2 DEF Ids
            <7>3. \A u \in Txns : \A y \in txn[u].frag : y.id = x.id => y = x
              BY <1>1, <1>6 DEF Ids
            <7>4. \A u \in Txns : ~(txn[u].read # Nothing /\ txn[u].read.id = x.id)
              BY <1>6, <6>2 DEF MentionInv, FragmentShape
            <7>5. ~Had(x.id, p[2])
              BY <4>2, <7>1, <7>2, <7>3, <7>4 DEF Had, Counts
            <7>. QED
              BY <4>3, <5>1, <7>5
          <6>. QED
            BY <6>1, <6>2
        <5>2. CASE p[1] # x.id
          BY <1>8, <4>1, <5>2 DEF Ids, new
        <5>. QED
          BY <5>1, <5>2
      <4>. QED
        BY <2>5, <4>2, <4>3, <4>4 DEF Evident
    <3>. HIDE DEF E, F, last, before
    <3>2. /\ IsFiniteSet(E \cup {last}) /\ Cardinality(E \cup {last}) <= Cardinality(E) + 1
          /\ Cardinality(E \cup {last}) \in Nat
      <4>1. /\ IsFiniteSet(E \cup {last})
            /\ Cardinality(E \cup {last}) = IF last \in E THEN Cardinality(E) ELSE Cardinality(E) + 1
        BY <2>1, FS_AddElement
      <4>2. Cardinality(E \cup {last}) = Cardinality(E) \/ Cardinality(E \cup {last}) = Cardinality(E) + 1
        BY <4>1
      <4>. QED
        BY <2>1, <4>1, <4>2
    <3>3. /\ IsFiniteSet(F) /\ Cardinality(F) <= Cardinality(E \cup {last})
          /\ Cardinality(F) \in Nat
      BY <3>1, <3>2, FS_Subset, FS_CardinalityType
    <3>. QED
      BY <1>5, <2>1, <2>5, <3>2, <3>3 DEF E, F
  <2>6. CASE f = g /\ T.spent
    <3>1. F \subseteq E \ before
      <4> SUFFICES ASSUME NEW p \in F PROVE p \in E /\ p[1] # x.id
        BY DEF before
      <4>1. p \in Ids(Similar(g)') \X Counts /\ Had(p[1], p[2])'
        BY <2>2, <2>6
      <4>2. p[1] \in Counts /\ p[2] \in Counts /\ p = <<p[1], p[2]>>
        BY <2>3, <2>6, <4>1
      <4>3. Had(p[1], p[2])
        BY <1>11, <2>6, <4>1, <4>2
      <4>4. p[1] \in Ids(Similar(g)) /\ p[1] # x.id
        BY <1>8, <2>6, <4>1 DEF Ids, new
      <4>. QED
        BY <2>6, <4>2, <4>3, <4>4 DEF Evident
    <3>2. before \subseteq E
      <4> SUFFICES ASSUME NEW n \in 1..(x.occurrences - 1) PROVE <<x.id, n>> \in E
        BY DEF before
      <4>1. n \in Counts /\ n < x.occurrences /\ x.occurrences # 1
        BY <1>1 DEF Counts
      <4>2. Had(x.id, n)
        BY <4>1 DEF Had
      <4>3. x.id \in Ids(Similar(g))
        BY <1>6, <4>1 DEF Ids, Similar
      <4>. QED
        BY <2>6, <4>1, <4>2, <4>3 DEF Evident
    <3>3. IsFiniteSet(before) /\ Cardinality(before) = x.occurrences - 1
      BY <1>1, OneColumn
    <3>4. E \cap before = before
      BY <3>2
    <3>. HIDE DEF E, F, last, before
    <3>5. /\ IsFiniteSet(E \ before) /\ Cardinality(E \ before) \in Nat
          /\ Cardinality(E \ before) = Cardinality(E) - (x.occurrences - 1)
      <4>1. /\ IsFiniteSet(E \ before)
            /\ Cardinality(E \ before) = Cardinality(E) - Cardinality(E \cap before)
        BY <2>1, FS_Difference
      <4>2. Cardinality(E \ before) \in Nat
        BY <4>1, FS_CardinalityType
      <4>. QED
        BY <3>3, <3>4, <4>1, <4>2
    <3>6. IsFiniteSet(F) /\ Cardinality(F) <= Cardinality(E \ before) /\ Cardinality(F) \in Nat
      BY <3>1, <3>5, FS_Subset, FS_CardinalityType
    <3>. QED
      BY <1>1, <1>5, <2>1, <2>6, <3>5, <3>6 DEF Counts, E, F
  <2>. QED
    BY <2>4, <2>5, <2>6
<1>13. Exact'
  <2> SUFFICES ASSUME NEW f \in Facts, f \notin raced
               PROVE  /\ Cardinality(Occurrences(Similar(f))') + promoted'[f] = mentions'[f]
                      /\ \A u \in Txns :
                           /\ txn'[u].read # Nothing /\ txn'[u].fact = f =>
                                /\ txn'[u].read \in fragments'
                                /\ \A v \in Txns \ {u} :
                                     /\ txn'[v].read # Nothing => txn'[v].read.id # txn'[u].read.id
                                     /\ txn'[u].read.id \notin Ids(txn'[v].frag)
                           /\ txn'[u].fact = f =>
                                \A y \in txn'[u].frag : \A s \in fragments' :
                                   s.id = y.id => y.occurrences = s.occurrences + 1
    BY <1>2 DEF Exact, Ids
  <2> DEFINE O == Occurrences(Similar(f))
             P == Occurrences(Similar(f)')
  <2>1. Occurrences(Similar(f))' = P
    BY DEF Occurrences, Similar
  <2>2. O \subseteq Evident(f)
    BY OccurrencesEvident
  <2>3. /\ IsFiniteSet(O) /\ Cardinality(O) \in Nat /\ Cardinality(O) + promoted[f] = mentions[f]
        /\ promoted[f] \in Nat /\ mentions[f] \in Nat
    BY <2>2, FS_Subset, FS_CardinalityType DEF MentionInv, Counted, Backed, Exact
  <2>4. Cardinality(P) + promoted'[f] = mentions'[f]
    <3>1. CASE f # g
      BY <1>5, <1>7, <2>3, <3>1
    <3>2. CASE f = g
      \* The row of fragments, if there is one, is the one that was read.
      <4>1. \A s \in fragments : s.id = x.id => x.occurrences = s.occurrences + 1
        BY <1>1, <3>2 DEF MentionInv, Counted, Exact
      <4>2. before \subseteq O
        <5>1. CASE x.id \in Ids(fragments)
          <6>1. PICK s \in fragments : s.id = x.id
            BY <5>1 DEF Ids
          <6>2. s \in Similar(f) /\ 1..s.occurrences = 1..(x.occurrences - 1)
            BY <1>6, <3>2, <4>1, <6>1, Held, RowIsRow DEF Similar, Counts
          <6>. QED
            BY <6>1, <6>2 DEF Occurrences
        <5>2. CASE x.id \notin Ids(fragments)
          <6>1. 1..(x.occurrences - 1) = {}
            BY <1>6, <5>2
          <6>. QED
            BY <6>1
        <5>. QED
          BY <5>1, <5>2
      <4>3. \A p \in O : p[1] = x.id => p \in before
        <5> SUFFICES ASSUME NEW s \in Similar(f), NEW n \in 1..s.occurrences, s.id = x.id
                     PROVE  n \in 1..(x.occurrences - 1)
          BY DEF Occurrences
        <5>1. x.occurrences = s.occurrences + 1 /\ s.occurrences \in Counts
          BY <4>1, Held, RowIsRow DEF Similar
        <5>. QED
          BY <5>1 DEF Counts
      <4>4. Occurrences({r \in Similar(g) : r.id # x.id}) = O \ before
        <5>1. ASSUME NEW p \in O, p \notin before
              PROVE  p \in Occurrences({r \in Similar(g) : r.id # x.id})
          BY <3>2, <4>3, <5>1 DEF Occurrences
        <5>2. ASSUME NEW p \in Occurrences({r \in Similar(g) : r.id # x.id})
              PROVE  p \in O /\ p \notin before
          BY <3>2 DEF Occurrences
        <5>. QED
          BY <5>1, <5>2
      <4>5. IsFiniteSet(before) /\ Cardinality(before) = x.occurrences - 1
        BY <1>1, OneColumn
      <4> HIDE DEF O, before
      <4>6. CASE T.spent
        <5>1. P = O \ before
          BY <1>8, <3>2, <4>4, <4>6 DEF new
        <5>2. O \cap before = before
          BY <4>2
        <5>3. Cardinality(O \ before) = Cardinality(O) - Cardinality(O \cap before)
          BY <2>3, FS_Difference
        <5>4. Cardinality(P) = Cardinality(O) - (x.occurrences - 1)
          BY <4>5, <5>1, <5>2, <5>3
        <5>. QED
          BY <1>1, <1>5, <2>3, <3>2, <4>6, <5>4 DEF Counts
      <4>7. CASE ~T.spent
        <5>1. P = (O \ before) \cup ({x.id} \X (1..x.occurrences))
          <6>1. Similar(f)' = {r \in Similar(g) : r.id # x.id} \cup {x}
            BY <1>8, <3>2, <4>7 DEF new
          <6>. QED
            BY <4>4, <6>1 DEF Occurrences
        <5>2. {x.id} \X (1..x.occurrences) = before \cup {last}
          BY <1>1 DEF before, Counts
        <5>3. P = O \cup {last}
          BY <4>2, <5>1, <5>2
        <5>4. last \notin O
          <6>1. last \notin before
            BY <1>1 DEF before, Counts
          <6>. QED
            BY <4>3, <6>1
        <5>5. Cardinality(P) = Cardinality(O) + 1
          BY <2>3, <5>3, <5>4, FS_AddElement
        <5>. QED
          BY <1>5, <2>3, <3>2, <4>7, <5>5
      <4>. QED
        BY <4>6, <4>7
    <3>. QED
      BY <3>1, <3>2
  <2>5. ASSUME NEW u \in Txns, txn'[u].read # Nothing, txn'[u].fact = f
        PROVE  /\ txn'[u].read \in fragments'
               /\ \A v \in Txns \ {u} :
                    /\ txn'[v].read # Nothing => txn'[v].read.id # txn'[u].read.id
                    /\ txn'[u].read.id \notin Ids(txn'[v].frag)
    <3>1. u # t /\ txn'[u] = txn[u]
      BY <1>3, <1>4, <2>5
    <3>2. /\ txn[u].read \in fragments
          /\ \A v \in Txns \ {u} :
               /\ txn[v].read # Nothing => txn[v].read.id # txn[u].read.id
               /\ txn[u].read.id \notin Ids(txn[v].frag)
      BY <2>5, <3>1 DEF MentionInv, Counted, Exact
    <3>3. txn[u].read.id # x.id
      BY <3>1, <3>2 DEF Ids
    <3>4. txn[u].read \in fragments'
      BY <1>2, <3>2, <3>3
    <3>5. ASSUME NEW v \in Txns \ {u}
          PROVE  /\ txn'[v].read # Nothing => txn'[v].read.id # txn'[u].read.id
                 /\ txn'[u].read.id \notin Ids(txn'[v].frag)
      <4>1. CASE v = t
        BY <1>3, <1>4, <4>1 DEF Ids
      <4>2. CASE v # t
        BY <1>3, <3>1, <3>2, <4>2
      <4>. QED
        BY <4>1, <4>2
    <3>. QED
      BY <3>1, <3>4, <3>5
  <2>6. ASSUME NEW u \in Txns, txn'[u].fact = f, NEW y \in txn'[u].frag, NEW s \in fragments',
               s.id = y.id
        PROVE  y.occurrences = s.occurrences + 1
    <3>1. u # t /\ txn'[u] = txn[u] /\ y \in txn[u].frag
      BY <1>3, <1>4
    <3>2. y.id # x.id
      BY <1>6, <3>1 DEF Ids
    <3>3. s \in fragments
      BY <1>2, <2>6, <3>2 DEF new
    <3>. QED
      BY <2>6, <3>1, <3>3 DEF MentionInv, Counted, Exact
  <2>. QED
    BY <2>1, <2>4, <2>5, <2>6
<1>. QED
    BY <1>5, <1>9, <1>10, <1>12, <1>13 DEF MentionInv, Counted

\* A step that writes no fragment, and after which its transaction has read none.
LEMMA NoRowWritten ==
    ASSUME MemoryInv, MemoryInv', MentionInv, NEW t \in Txns, NEW r, Becomes(t, r),
           UNCHANGED <<fragments, mentions, promoted, raced>>, nextId <= nextId',
           r.read = Nothing, r.spent => r.frag # {},
           r.frag # {} => /\ r.frag = txn[t].frag /\ r.fact = txn[t].fact
                          /\ r.at \in {"counted", "doubting", "checked", "promoting", "done"}
    PROVE  MentionInv'
<1>1. txn' \in [Txns -> Transactions] /\ nextId' \in Counts
    BY DEF MemoryInv, MemoryTypes, MemoryTypeOK
<1>2. FragmentShape(r)
    BY DEF MentionInv, FragmentShape
<1>3. r.read # Nothing => r.read = txn[t].read /\ r.fact = txn[t].fact
    OBVIOUS
<1>4. r.frag # {} => r.frag = txn[t].frag /\ r.fact = txn[t].fact
    OBVIOUS
<1>. QED
    BY <1>1, <1>2, <1>3, <1>4, SameRowsStep

\* The end of a transaction that changes nothing.
LEMMA AbortMentions ==
    ASSUME MemoryInv, MemoryInv', MentionInv, NEW t \in Txns, Abort(t),
           UNCHANGED <<fragments, mentions, promoted, raced, nextId>>
    PROVE  MentionInv'
<1>1. IdleTxn.read = Nothing /\ ~IdleTxn.spent /\ IdleTxn.frag = {}
    BY DEF IdleTxn
<1>2. nextId <= nextId'
    BY Held
<1>. QED
    BY <1>1, <1>2, NoRowWritten DEF Abort

\* A step of a transaction that keeps its fragment, from one stage to another.
LEMMA KeptMentions ==
    ASSUME MemoryInv, MemoryInv', MentionInv, NEW t \in Txns, NEW r, Becomes(t, r),
           UNCHANGED <<fragments, mentions, promoted, raced>>, nextId <= nextId',
           txn[t].at # "found", r.read = txn[t].read,
           r.frag = txn[t].frag, r.spent => r.frag # {},
           r.frag # {} => /\ r.fact = txn[t].fact
                          /\ r.at \in {"counted", "doubting", "checked", "promoting", "done"}
    PROVE  MentionInv'
<1>1. r.read = Nothing
    BY DEF MentionInv, FragmentShape
<1>. QED
    BY <1>1, NoRowWritten

LEMMA FindMentions ==
    ASSUME MemoryInv, MemoryInv', MentionInv, NEW t \in Txns, Find(t)
    PROVE  MentionInv'
<1>1. CASE Becomes(t, [txn[t] EXCEPT !.at = "found"]) /\ UNCHANGED raced
  <2> DEFINE r == [txn[t] EXCEPT !.at = "found"]
  <2>1. txn[t].frag = {} /\ ~txn[t].spent /\ txn[t].at = "extracted"
    BY DEF Find, MentionInv, FragmentShape
  <2>2. r.read = txn[t].read /\ r.frag = txn[t].frag /\ ~r.spent
    BY <2>1, Held DEF Transactions
  <2>3. UNCHANGED <<fragments, mentions, promoted, raced>> /\ nextId <= nextId'
    BY <1>1, Held DEF Find
  <2> HIDE DEF r
  <2>. QED
    BY <1>1, <2>1, <2>2, <2>3, KeptMentions DEF r
<1>2. ASSUME NEW q \in Similar(txn[t].fact),
             Becomes(t, [txn[t] EXCEPT !.at = "found", !.read = q]),
             raced' = IF Shares(t, q) THEN raced \cup {txn[t].fact} ELSE raced
      PROVE  MentionInv'
  <2>1. q \in fragments /\ q.fact = txn[t].fact
    BY DEF Similar
  <2>2. txn[t].at = "extracted" /\ UNCHANGED <<fragments, mentions, promoted, nextId>>
    BY DEF Find
  <2>. QED
    BY <1>2, <2>1, <2>2, FindRowStep
<1>. QED
    BY <1>1, <1>2 DEF Find

LEMMA DoubtMentions ==
    ASSUME MemoryInv, MemoryInv', MentionInv, NEW t \in Txns, Doubt(t) \/ Lower(t) \/ NotYet(t)
    PROVE  MentionInv'
<1>1. /\ UNCHANGED <<fragments, mentions, promoted, raced, nextId>> /\ nextId <= nextId'
      /\ txn[t].at # "found"
    BY Held DEF Doubt, Lower, NotYet, history
<1>2. CASE Abort(t)
    BY <1>1, <1>2, AbortMentions
<1>3. CASE ~Abort(t)
  <2> DEFINE Kept == /\ Becomes(t, txn'[t]) /\ txn'[t].at \in {"doubting", "checked", "done"}
                     /\ txn'[t].read = txn[t].read /\ txn'[t].frag = txn[t].frag
                     /\ txn'[t].spent = txn[t].spent /\ txn'[t].fact = txn[t].fact
  <2>1. Kept
    <3>1. ASSUME NEW p, Becomes(t, [txn[t] EXCEPT !.at = "doubting", !.target = p])
          PROVE  Kept
      BY <3>1, Held DEF Becomes, Transactions
    <3>2. CASE Becomes(t, [txn[t] EXCEPT !.at = "checked"])
      BY <3>2, Held DEF Becomes, Transactions
    <3>3. ASSUME NEW p, NEW C,
                 Becomes(t, [txn[t] EXCEPT !.at = "checked", !.target = p, !.changes = C])
          PROVE  Kept
      BY <3>3, Held DEF Becomes, Transactions
    <3>4. CASE NotYet(t)
      BY <3>4, Held DEF NotYet, Becomes, Transactions
    <3>. HIDE DEF Kept
    <3>5. CASE Doubt(t)
      BY <3>1, <3>2, <3>5 DEF Doubt
    <3>6. CASE Lower(t)
      BY <1>3, <3>3, <3>6 DEF Lower
    <3>. QED
      BY <3>4, <3>5, <3>6
  <2>2. txn'[t].spent => txn'[t].frag # {}
    BY <2>1 DEF MentionInv, FragmentShape
  <2>. QED
    BY <1>1, <2>1, <2>2, KeptMentions
<1>. QED
    BY <1>2, <1>3

LEMMA PromoteMentions ==
    ASSUME MemoryInv, MemoryInv', MentionInv, NEW t \in Txns, Ripe(t) \/ Promote(t)
    PROVE  MentionInv'
<1>1. /\ UNCHANGED <<fragments, mentions, promoted, raced>> /\ nextId <= nextId'
      /\ txn[t].at # "found"
    BY Held DEF Ripe, Promote, history
<1>2. txn[t].frag # {}
    BY Held DEF Ripe, Promote, TxnShape
<1>3. CASE Abort(t) /\ UNCHANGED nextId
    BY <1>1, <1>3, AbortMentions
<1>4. CASE ~(Abort(t) /\ UNCHANGED nextId)
  <2> DEFINE Kept == /\ Becomes(t, txn'[t]) /\ txn'[t].at \in {"promoting", "done"}
                     /\ txn'[t].read = txn[t].read /\ txn'[t].frag = txn[t].frag
                     /\ txn'[t].fact = txn[t].fact
  <2>1. Kept
    <3>1. CASE Becomes(t, [txn[t] EXCEPT !.at = "promoting"])
      BY <3>1, Held DEF Becomes, Transactions
    <3>2. ASSUME NEW p, Becomes(t, [txn[t] EXCEPT !.at = "promoting", !.target = p])
          PROVE  Kept
      BY <3>2, Held DEF Becomes, Transactions
    <3>3. ASSUME NEW C, Becomes(t, [txn[t] EXCEPT !.at = "done", !.spent = TRUE, !.changes = C])
          PROVE  Kept
      BY <3>3, Held DEF Becomes, Transactions
    <3>4. ASSUME NEW C, Becomes(t, [txn[t] EXCEPT !.at = "done", !.spent = TRUE,
                                                  !.target = Nothing, !.changes = C])
          PROVE  Kept
      BY <3>4, Held DEF Becomes, Transactions
    <3>. HIDE DEF Kept
    <3>5. CASE Ripe(t)
      BY <3>1, <3>2, <3>5 DEF Ripe, Look
    <3>6. CASE Promote(t)
      BY <1>4, <3>3, <3>4, <3>6 DEF Promote
    <3>. QED
      BY <3>5, <3>6
  <2>. QED
    BY <1>1, <1>2, <2>1, KeptMentions
<1>. QED
    BY <1>3, <1>4

\* The tools write no fragment.
LEMMA ToolMentions ==
    ASSUME MemoryInv, MemoryInv', MentionInv, NEW t \in Txns,
           \/ \E f \in Facts : Extract(t, f) \/ AddMemory(t, f)
           \/ Upsert(t)
           \/ \E p \in profiles : DeleteMemory(t, p) \/ \E f \in Facts : ChangeMemory(t, p, f)
    PROVE  MentionInv'
<1>1. /\ txn[t].read = Nothing /\ txn[t].frag = {} /\ ~txn[t].spent
    BY DEF Extract, AddMemory, Upsert, DeleteMemory, ChangeMemory, MentionInv, FragmentShape
<1>2. UNCHANGED <<fragments, mentions, promoted, raced>> /\ nextId <= nextId'
    BY Held DEF Extract, AddMemory, Upsert, DeleteMemory, ChangeMemory, history
<1>3. CASE Abort(t) /\ UNCHANGED nextId
    BY <1>2, <1>3, AbortMentions
<1>4. CASE ~(Abort(t) /\ UNCHANGED nextId)
  <2> DEFINE OwnFree == /\ Becomes(t, txn'[t])
                        /\ txn'[t].read = Nothing /\ txn'[t].frag = {} /\ ~txn'[t].spent
  <2>1. OwnFree
    <3>1. ASSUME NEW f \in Facts, Extract(t, f) PROVE OwnFree
      BY <3>1, Held DEF Extract, Becomes, IdleTxn
    <3>2. ASSUME NEW f \in Facts, NEW T, T = [IdleTxn EXCEPT !.at = "adding", !.fact = f],
                 Becomes(t, T) \/ \E p : Becomes(t, [T EXCEPT !.target = p])
          PROVE  OwnFree
      BY <3>2, Held DEF Becomes, IdleTxn
    <3>3. ASSUME NEW C, Becomes(t, [txn[t] EXCEPT !.at = "done", !.changes = C]) PROVE OwnFree
      BY <1>1, <3>3, Held DEF Becomes, Transactions
    <3>4. ASSUME NEW C,
                 Becomes(t, [txn[t] EXCEPT !.at = "done", !.target = Nothing, !.changes = C])
          PROVE  OwnFree
      BY <1>1, <3>4, Held DEF Becomes, Transactions
    <3>5. ASSUME NEW p \in profiles, DeleteMemory(t, p) PROVE OwnFree
      BY <1>1, <3>5, Held DEF DeleteMemory, Becomes, Transactions
    <3>. HIDE DEF OwnFree
    <3>6. ASSUME NEW f \in Facts, AddMemory(t, f) PROVE OwnFree
      BY <3>2, <3>6 DEF AddMemory, Look
    <3>7. CASE Upsert(t)
      BY <1>4, <3>3, <3>4, <3>7 DEF Upsert
    <3>8. ASSUME NEW p \in profiles, NEW f \in Facts, ChangeMemory(t, p, f) PROVE OwnFree
      BY <3>3, <3>8 DEF ChangeMemory
    <3>. QED
      BY <3>1, <3>5, <3>6, <3>7, <3>8
  <2>. QED
    BY <1>2, <2>1, NoRowWritten
<1>. QED
    BY <1>3, <1>4

LEMMA MentionInitHolds == MemoryInit => MentionInv
<1> SUFFICES ASSUME MemoryInit PROVE MentionInv
    OBVIOUS
<1>1. IdleTxn.read = Nothing /\ IdleTxn.frag = {} /\ ~IdleTxn.spent /\ FragmentShape(IdleTxn)
    BY DEF IdleTxn, FragmentShape
<1>2. /\ fragments = {} /\ \A t \in Txns : txn[t] = IdleTxn
      /\ mentions = [f \in Facts |-> 0] /\ promoted = [f \in Facts |-> 0]
    BY DEF MemoryInit
<1>3. \A f \in Facts : Evident(f) = {} /\ Occurrences(Similar(f)) = {}
    BY <1>2 DEF Evident, Occurrences, Similar, Ids
<1>4. Backed
    BY <1>2, <1>3, FS_EmptySet DEF Backed
<1>5. Exact
    BY <1>1, <1>2, <1>3, FS_EmptySet DEF Exact
<1>6. Anchored
    BY <1>1, <1>2 DEF Anchored
<1>. QED
    BY <1>1, <1>2, <1>4, <1>5, <1>6 DEF MentionInv, Counted

LEMMA MentionInductive == MemoryInv /\ MentionInv /\ [MemoryNext]_memoryVars => MentionInv'
<1> SUFFICES ASSUME MemoryInv, MentionInv, [MemoryNext]_memoryVars PROVE MentionInv'
    OBVIOUS
<1>1. MemoryInv'
    BY MemoryInductive
<1>2. CASE UNCHANGED memoryVars
  <2>1. UNCHANGED <<fragments, txn, nextId, mentions, promoted, raced>>
    BY <1>2 DEF memoryVars, history
  <2>2. Anchored'
    BY <2>1 DEF MentionInv, Anchored, Ids
  <2>3. \A f \in Facts : UNCHANGED <<Evident(f), Occurrences(Similar(f))>>
    BY <2>1 DEF Evident, Had, Similar, Occurrences, Ids
  <2>4. Backed'
    BY <2>1, <2>3 DEF MentionInv, Counted, Backed
  <2>5. Exact'
    BY <2>1, <2>3 DEF MentionInv, Counted, Exact, Ids
  <2>. QED
    BY <2>1, <2>2, <2>4, <2>5 DEF MentionInv, Counted
<1>3. ASSUME NEW t \in Txns, Find(t) \/ Count(t) \/ Note(t) PROVE MentionInv'
    BY <1>1, <1>3, FindMentions, CountMentions, NoteMentions
<1>4. ASSUME NEW t \in Txns, Doubt(t) \/ Lower(t) \/ NotYet(t) \/ Ripe(t) \/ Promote(t)
      PROVE  MentionInv'
    BY <1>1, <1>4, DoubtMentions, PromoteMentions
<1>5. ASSUME NEW t \in Txns,
             \/ \E f \in Facts : Extract(t, f) \/ AddMemory(t, f)
             \/ Upsert(t)
             \/ \E p \in profiles : DeleteMemory(t, p) \/ \E f \in Facts : ChangeMemory(t, p, f)
      PROVE  MentionInv'
    BY <1>1, <1>5, ToolMentions
<1>6. ASSUME NEW t \in Txns, Stale(t) \/ TxnFails(t) PROVE MentionInv'
    BY <1>1, <1>6, AbortMentions DEF Stale, TxnFails, history
<1>7. ASSUME NEW t \in Txns, CommitTxn(t) PROVE MentionInv'
  <2>1. CASE txn[t].frag = {}
    BY <1>7, <2>1, CommitNoRow
  <2>2. CASE txn[t].frag # {}
    BY <1>7, <2>2, CommitRow
  <2>. QED
    BY <2>1, <2>2
<1>. QED
    BY <1>2, <1>3, <1>4, <1>5, <1>6, <1>7 DEF MemoryNext

LEMMA MentionInvImplies == MemoryInv /\ MentionInv => MentionsCounted
<1> SUFFICES ASSUME MemoryInv, MentionInv, NEW f \in Facts
             PROVE  LET held == Cardinality(Occurrences(Similar(f))) + promoted[f] IN
                    held <= mentions[f] /\ (f \notin raced => held = mentions[f])
    BY DEF MentionsCounted
<1> DEFINE O == Occurrences(Similar(f))
           E == Evident(f)
<1>1. O \subseteq E
    BY OccurrencesEvident
<1>2. IsFiniteSet(E) /\ Cardinality(E) + promoted[f] <= mentions[f]
    BY DEF MentionInv, Counted, Backed
<1>3. f \notin raced => Cardinality(O) + promoted[f] = mentions[f]
    BY DEF MentionInv, Counted, Exact
<1>4. promoted[f] \in Nat /\ mentions[f] \in Nat
    BY DEF MentionInv, Counted
<1> HIDE DEF O, E
<1>5. Cardinality(O) <= Cardinality(E) /\ Cardinality(O) \in Nat /\ Cardinality(E) \in Nat
    BY <1>1, <1>2, FS_Subset, FS_CardinalityType
<1>. QED
    BY <1>2, <1>3, <1>4, <1>5 DEF O

\* For any facts, any number of transactions, messages, tool calls and failures: what the
\* fragments of a fact hold and what became profiles add up to at most the mentions of it
\* that were committed, and to all of them when no two side paths had read one fragment
\* (MemoryService.add_fragment, aggregate_fragments).
THEOREM MentionsCountedHolds == MemorySpec => []MentionsCounted
<1>1. MemoryInit => MemoryInv /\ MentionInv
    BY MemoryInitHolds, MentionInitHolds
<1>2. MemoryInv /\ MentionInv /\ [MemoryNext]_memoryVars => MemoryInv' /\ MentionInv'
    BY MemoryInductive, MentionInductive
<1>3. MemoryInv /\ MentionInv => MentionsCounted
    BY MentionInvImplies
<1>. QED
    BY <1>1, <1>2, <1>3, PTL DEF MemorySpec
=============================================================================
