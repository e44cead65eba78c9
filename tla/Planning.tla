------------------------------ MODULE Planning ------------------------------
(***************************************************************************)
(* From the plan a language model drafts to the rows of its steps.         *)
(*                                                                         *)
(* The draft is a list of steps; each has a key, a kind, a tool and a list *)
(* of the keys it depends on, and the schema asks no more of it.  The      *)
(* supervisor takes out the steps that the pipeline performs by itself, the*)
(* validator looks for what would make the plan unfit to run, the rows are *)
(* inserted, and the steps without dependencies are made ready.            *)
(*                                                                         *)
(* A refusal is an exception: the transaction is rolled back, and what     *)
(* becomes of the task is in ResearchPipeline, as is its approval.  The    *)
(* order in which Python visits a set is left open.                        *)
(***************************************************************************)
EXTENDS Naturals, Sequences, SequencesExt, FiniteSets

CONSTANTS
    Keys,      \* names of steps
    Drafts,    \* what the model may answer
    MaxSteps,  \* limits.max_steps
    MaxDepth   \* limits.max_dependency_depth

StepDraft == [key    : Keys,
              tool   : {"registered", "unregistered", "blank"},
              fixed  : BOOLEAN,    \* kind is one of _PIPELINE_ONLY_KINDS
              depends_on : Seq(Keys)]

Answers == [steps : Seq(StepDraft), dear : BOOLEAN]

ASSUME PlanningAssumption ==
    /\ Drafts \subseteq Answers
    /\ MaxSteps \in Nat /\ MaxDepth \in Nat

VARIABLES
    drafted,   \* what the model answered: steps, and whether its estimates are too high
    steps,     \* draft.steps, by their places in the answer
    at,        \* what planning does next
    refusal,   \* why it raised
    in_degree, \* of the topological sort: dependencies not yet taken from the queue
    queue,     \* of the topological sort
    left,      \* of the loop over depths: places of the steps it has not come to
    root,      \* of _dependency_depth: the place of the step it was called for
    calls,     \* of _dependency_depth: calls of dfs to come, each a key and a depth
    visited,   \* of _dependency_depth
    deepest,   \* of _dependency_depth: max_depth
    rows,      \* research_steps of the plan
    links,     \* research_step_dependencies of the plan
    ready      \* those of rows that are READY

sort == <<in_degree, queue>>
search == <<left, root, calls, visited, deepest>>
table == <<rows, links, ready>>
planVars == <<drafted, steps, at, refusal, sort, search, table>>

KeysOf(ss) == {ss[i].key : i \in DOMAIN ss}

\* deps: a dictionary by key.  When it is made, no key is there twice.
Listed(k) == (CHOOSE s \in Range(steps) : s.key = k).depends_on
DependsOn(k) == ToSet(Listed(k))

----------------------------------------------------------------------------
PlanInit ==
    /\ drafted \in Drafts
    /\ steps = drafted.steps
    /\ at = "normalize"
    /\ refusal = "none"
    /\ in_degree = [k \in {} |-> 0]
    /\ queue = {}
    /\ left = {} /\ root = 0 /\ calls = <<>> /\ visited = {} /\ deepest = 0
    /\ rows = {} /\ links = {} /\ ready = {}

Refuse(stage, reason) ==
    /\ at = stage
    /\ at' = "raised"
    /\ refusal' = reason
    /\ UNCHANGED <<drafted, steps, sort, search, table>>

Pass(stage, next) ==
    /\ at = stage
    /\ at' = next
    /\ UNCHANGED <<drafted, refusal>>

(***************************************************************************)
(* _normalize_tool_steps                                                   *)
(***************************************************************************)
Removed == {s.key : s \in {t \in Range(steps) : t.tool = "blank" /\ t.fixed}}

\* The others keep their places.
Retained == [i \in {j \in DOMAIN steps : steps[j].key \notin Removed} |-> steps[i]]

NeedsRemoved == \E s \in Range(Retained) : ToSet(s.depends_on) \cap Removed # {}

Normalize ==
    \/ Refuse("normalize", "needs a pipeline step") /\ NeedsRemoved
    \/ /\ Pass("normalize", "keys")
       /\ ~NeedsRemoved
       /\ steps' = Retained
       /\ UNCHANGED <<sort, search, table>>

(***************************************************************************)
(* validate: keys, dependencies, cycles, tools, budgets, in this order     *)
(***************************************************************************)
KeysUnique == Cardinality(KeysOf(steps)) = Cardinality(DOMAIN steps)

ValidateKeys ==
    \/ Refuse("keys", "key twice") /\ ~KeysUnique
    \/ Pass("keys", "dependencies") /\ KeysUnique /\ UNCHANGED <<steps, sort, search, table>>

DependenciesExist ==
    \A s \in Range(steps) : ToSet(s.depends_on) \subseteq KeysOf(steps) \ {s.key}

Degree(k) == Cardinality(DependsOn(k))

\* The sort begins with the keys that depend on nothing.
ValidateDependencies ==
    \/ Refuse("dependencies", "no such step") /\ ~DependenciesExist
    \/ /\ Pass("dependencies", "sort")
       /\ DependenciesExist
       /\ in_degree' = [k \in KeysOf(steps) |-> Degree(k)]
       /\ queue' = {k \in KeysOf(steps) : Degree(k) = 0}
       /\ UNCHANGED <<steps, search, table>>

\* One pass of the loop: a key leaves the queue, and those that depended on nothing
\* else that is left enter it.
Pop(k) ==
    /\ at = "sort" /\ k \in queue
    /\ in_degree' = [o \in DOMAIN in_degree |->
                        in_degree[o] - IF k \in DependsOn(o) THEN 1 ELSE 0]
    /\ queue' = (queue \ {k}) \cup {o \in DOMAIN in_degree : k \in DependsOn(o) /\ in_degree'[o] = 0}
    /\ UNCHANGED <<drafted, steps, at, refusal, search, table>>

\* Variant: nothing at all came out of the queue.
NothingSorted == \A k \in DOMAIN in_degree : in_degree[k] > 0

Cyclic == \E k \in DOMAIN in_degree : in_degree[k] > 0

ValidateNoCycle ==
    /\ queue = {}
    /\ \/ Refuse("sort", "cycle") /\ Cyclic
       \/ Pass("sort", "tools") /\ ~Cyclic /\ UNCHANGED <<steps, sort, search, table>>

ToolsKnown == \A s \in Range(steps) : s.tool = "registered"

ValidateTools ==
    \/ Refuse("tools", "no such tool") /\ ~ToolsKnown
    \/ Pass("tools", "budgets") /\ ToolsKnown /\ UNCHANGED <<steps, sort, search, table>>

TooDear == Cardinality(DOMAIN steps) > MaxSteps \/ drafted.dear

ValidateBudgets ==
    \/ Refuse("budgets", "over budget") /\ TooDear
    \/ /\ Pass("budgets", "depth")
       /\ ~TooDear
       /\ left' = DOMAIN steps
       /\ UNCHANGED <<steps, sort, root, calls, visited, deepest, table>>

\* _dependency_depth is called for the next step.
DependencyDepth(i) ==
    /\ Pass("depth", "dfs")
    /\ i \in left /\ \A j \in left : i <= j
    /\ left' = left \ {i}
    /\ root' = i
    /\ calls' = <<<<steps[i].key, 0>>>>
    /\ visited' = {} /\ deepest' = 0
    /\ UNCHANGED <<steps, sort, table>>

\* Variant: the depth is handed on as it is.
SameLevel(k, depth) == [i \in DOMAIN Listed(k) |-> <<Listed(k)[i], depth>>]

\* The calls that a call of dfs makes.
Deeper(k, depth) == [i \in DOMAIN Listed(k) |-> <<Listed(k)[i], depth + 1>>]

\* A call of dfs: those it makes come before those that wait for it to return.  A key is
\* counted where the search meets it first.
Dfs ==
    /\ at = "dfs" /\ calls # <<>>
    /\ LET k == Head(calls)[1]
           depth == Head(calls)[2] IN
         \/ /\ k \in visited
            /\ calls' = Tail(calls)
            /\ UNCHANGED <<visited, deepest>>
         \/ /\ k \notin visited
            /\ calls' = Deeper(k, depth) \o Tail(calls)
            /\ visited' = visited \cup {k}
            /\ deepest' = IF depth > deepest THEN depth ELSE deepest
    /\ UNCHANGED <<drafted, steps, at, refusal, sort, left, root, table>>

\* The search is over, and in the end the loop.
ValidateDepth ==
    \/ Refuse("dfs", "too deep") /\ calls = <<>> /\ deepest > MaxDepth
    \/ /\ Pass("dfs", "depth")
       /\ calls = <<>> /\ deepest <= MaxDepth
       /\ UNCHANGED <<steps, sort, search, table>>
    \/ Pass("depth", "persist") /\ left = {} /\ UNCHANGED <<steps, sort, search, table>>

(***************************************************************************)
(* persist, and mark_root_steps_ready                                      *)
(***************************************************************************)
\* step_id and depends_on_step_id are the primary key of a dependency.
LinkTwice == \E s \in Range(steps) : Cardinality(ToSet(s.depends_on)) < Len(s.depends_on)

Persist ==
    \/ Refuse("persist", "dependency twice") /\ LinkTwice
    \/ /\ Pass("persist", "activate")
       /\ ~LinkTwice
       /\ rows' = KeysOf(steps)
       /\ links' = {l \in KeysOf(steps) \X KeysOf(steps) : l[2] \in DependsOn(l[1])}
       /\ UNCHANGED <<steps, sort, search, ready>>

MarkRootStepsReady ==
    /\ Pass("activate", "planned")
    /\ ready' = {k \in rows : \A d \in rows : <<k, d>> \notin links}
    /\ UNCHANGED <<steps, sort, search, rows, links>>

\* Planning is over.
Stop == at \in {"raised", "planned"} /\ UNCHANGED planVars

PlanNext ==
    \/ Normalize
    \/ ValidateKeys \/ ValidateDependencies \/ (\E k \in Keys : Pop(k)) \/ ValidateNoCycle
    \/ ValidateTools \/ ValidateBudgets
    \/ (\E i \in left : DependencyDepth(i)) \/ Dfs \/ ValidateDepth
    \/ Persist \/ MarkRootStepsReady
    \/ Stop

PlanSpec == PlanInit /\ [][PlanNext]_planVars

----------------------------------------------------------------------------
(***************************************************************************)
(* Reference definitions, over the rows and over what the model answered.  *)
(***************************************************************************)
\* Chains of n links, each of which is in L, between members of S.
Chains(S, L, n) == {p \in [0..n -> S] : \A i \in 1..n : <<p[i-1], p[i]>> \in L}

\* Pairs of steps of ss of which the first depends on the second.
Waits(ss) == {w \in Range(ss) \X Range(ss) : w[2].key \in ToSet(w[1].depends_on)}

\* Steps of ss that all wait for one of them.
HasCycle(ss) ==
    \E X \in SUBSET KeysOf(ss) \ {{}} :
        \A s \in Range(ss) : s.key \in X => ToSet(s.depends_on) \cap X # {}

ForPipeline(s) == s.tool = "blank" /\ s.fixed

\* When a plan is planned, everything in it can run, and nothing was left out of it:
\* starting from the steps that are ready, and taking up those that have dependencies when
\* these are done, every row is reached (the sort of _validate_no_cycle, persist,
\* mark_root_steps_ready); and every step with work for a tool has a row, unless a step of
\* the pipeline had its key: _normalize_tool_steps removes keys, before anything looks
\* whether they are unique.
AcceptedRuns ==
    at = "planned" =>
        /\ \A X \in SUBSET rows :
               /\ ready \subseteq X
               /\ \A k \in rows : LET D == {d \in rows : <<k, d>> \in links}
                                  IN  D # {} /\ D \subseteq X => k \in X
               => X = rows
        /\ \A s \in Range(drafted.steps) :
               \/ s.key \in rows \/ ForPipeline(s)
               \/ \E t \in Range(drafted.steps) : t.key = s.key /\ ForPipeline(t)

\* What the searches of the validator find is there: a plan refused for a cycle has one
\* (_validate_no_cycle), and one refused for its depth has a chain of more than MaxDepth
\* links.  One that was accepted may have such a chain too, as _dependency_depth counts a
\* step where it meets it first, but not without a way of at most MaxDepth links between
\* the same two steps.
VerdictsHonest ==
    /\ refusal = "cycle" => HasCycle(drafted.steps)
    /\ refusal = "too deep" =>
           Chains(Range(drafted.steps), Waits(drafted.steps), MaxDepth + 1) # {}
    /\ at = "planned" =>
           \A p \in Chains(rows, links, MaxDepth + 1) :
               \E n \in 0..MaxDepth : \E q \in Chains(rows, links, n) :
                   q[0] = p[0] /\ q[n] = p[MaxDepth + 1]

=============================================================================
