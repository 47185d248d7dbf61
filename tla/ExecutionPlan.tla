---------------------------- MODULE ExecutionPlan ----------------------------
(***************************************************************************)
(* The life of the memory annotations of a graph: ComputeContext writes    *)
(* them on the nodes, rewrites move them around, the constructor of        *)
(* ExecutionPlan turns nodes and annotations into a list of actions or     *)
(* refuses them, and RuntimeSession::Run replays that list.  Annotations   *)
(* may be absent, fresh, or stale: older than the last rewrite.  Value i   *)
(* is the one output of node i; a subgraph's captures count as inputs.     *)
(***************************************************************************)
EXTENDS Naturals, Sequences, FiniteSets, SequencesExt

CONSTANTS
    NumNodes,
    Inputs,         \* declared graph inputs
    Initializers,
    FirstGraphs,    \* input lists of the nodes of the graphs to start from
    OutputSets,     \* sets of declared graph outputs
    Sizes,          \* byte sizes of the values 1..NumNodes, per graph
    MaxRewrites,
    MaxArity        \* bound on the inputs a rewrite gives to a node

Nodes == 1..NumNodes
Sources == Inputs \cup Initializers
Values == Sources \cup Nodes

\* Nodes are in topological order, and an input has not the name of a result.
ASSUME PlanAssumption ==
    /\ NumNodes \in Nat /\ MaxRewrites \in Nat /\ MaxArity \in Nat
    /\ IsFiniteSet(Inputs) /\ IsFiniteSet(Initializers)
    /\ Sources \cap 0..NumNodes = {}
    /\ \A g \in FirstGraphs :
        /\ g \in [Nodes -> Seq(Values)]
        /\ \A i \in Nodes : Range(g[i]) \subseteq Sources \cup 1..(i - 1)
    /\ \A o \in OutputSets : o \subseteq Values

VARIABLES
    graph,    \* input list of every node
    outputs,  \* declared outputs
    size,     \* byte size of every intermediate
    meta,     \* the annotations of every node
    fresh,    \* no rewrite since the annotations were written
    rewrites, \* number of rewrites so far
    plan,     \* actions of the plan
    verdict,  \* "none", "built", or why the constructor threw
    pc,       \* action the replay is at
    releases, \* release_intermediates of the context
    held,     \* values the RuntimeContext holds
    spoilt,   \* values whose buffer another value was written to
    locked    \* inputs and initializers that are locked

vars == <<graph, outputs, size, meta, fresh, rewrites, plan, verdict, pc, releases, held, spoilt, locked>>
graphVars == <<graph, outputs, size, meta, fresh, rewrites>>

NoReuse == 0
Blank == [reuse |-> NoReuse, release |-> <<>>, unused |-> <<>>]

Init ==
    /\ graph \in FirstGraphs
    /\ outputs \in OutputSets
    /\ size \in Sizes
    /\ meta = [i \in Nodes |-> Blank]
    /\ fresh = FALSE
    /\ rewrites = 0
    /\ plan = <<>> /\ verdict = "none" /\ pc = 0
    /\ releases \in BOOLEAN
    /\ held = Sources /\ spoilt = {} /\ locked = {}

----------------------------------------------------------------------------
(* Annotations (result_lifetime.cc, inplace_reuse.cc, compute_context.cc).  *)

Used(i) == Range(graph[i])
Users(v) == {i \in Nodes : v \in Used(i)}
LastUse(v) == CHOOSE i \in Users(v) : \A j \in Users(v) : j <= i

\* The elements of s at the positions P, in order.
Ascending(P) ==
    CHOOSE s \in [1..Cardinality(P) -> P] : \A i, j \in DOMAIN s : i < j => s[i] < s[j]
At(s, P) == LET places == Ascending(P) IN [k \in 1..Len(places) |-> s[places[k]]]

\* A loop over the names of s that skips those not in S.
Select(s, S) == At(s, {k \in DOMAIN s : s[k] \in S})

\* CollectNodeInputs: the names of a node's inputs, each once, in order.
NodeInputs(i) ==
    At(graph[i], {k \in DOMAIN graph[i] : \A l \in 1..(k - 1) : graph[i][l] # graph[i][k]})

\* last_use of the lifetime pass: an output nobody uses dies at its producer.
Dies(v) == IF Users(v) = {} THEN v ELSE LastUse(v)

Candidates(i) == Select(Append(NodeInputs(i), i), {v \in Values : Dies(v) = i})

ReleaseAfter(i) == Select(Candidates(i), Nodes \ outputs)

NotUsedAfter(i) == Select(Candidates(i), Sources)

\* ClassifyReuse: the buffer of input v has the kind for the output of node i.
Fits(i, v, kind) == IF kind = "equal" THEN size[v] = size[i] ELSE size[v] > size[i]

\* The inputs whose buffer node i may take, by position.
Reusable(i, kind) ==
    {k \in DOMAIN graph[i] :
        LET v == graph[i][k] IN
        /\ v \notin Sources \cup outputs
        /\ Cardinality({l \in DOMAIN graph[i] : graph[i][l] = v}) = 1
        /\ LastUse(v) = i
        /\ Fits(i, v, kind)}

\* ComputeSingleNodeReuse: an equal buffer before a larger one, else NoReuse.
SingleNodeReuse(i) ==
    LET of(kind) == Reusable(i, kind)
        first(S) == CHOOSE k \in S : \A l \in S : k <= l
    IN IF of("equal") # {} THEN first(of("equal"))
       ELSE IF of("greater") # {} THEN first(of("greater"))
       ELSE NoReuse

\* GraphBuilder::Finalize drops the old annotations, then writes the new ones.
Annotate ==
    /\ verdict = "none" /\ ~fresh
    /\ meta' = [i \in Nodes |-> [reuse |-> SingleNodeReuse(i), release |-> ReleaseAfter(i),
                                 unused |-> NotUsedAfter(i)]]
    /\ fresh' = TRUE
    /\ UNCHANGED <<graph, outputs, size, rewrites, plan, verdict, pc, releases, held, spoilt, locked>>

\* A rewrite adds a use of a value to a node and leaves the annotations as
\* they are: the case BuildActions provides for.
Rewrite ==
    /\ verdict = "none" /\ rewrites < MaxRewrites
    /\ \E i \in Nodes : \E v \in Sources \cup 1..(i - 1) :
          /\ Len(graph[i]) < MaxArity
          /\ graph' = [graph EXCEPT ![i] = Append(@, v)]
    /\ fresh' = FALSE
    /\ rewrites' = rewrites + 1
    /\ UNCHANGED <<outputs, size, meta, plan, verdict, pc, releases, held, spoilt, locked>>

----------------------------------------------------------------------------
(* BuildActions (execution_plan.cc).                                        *)

Act(kind, name, node) == [kind |-> kind, name |-> name, node |-> node]
Lock(v) == Act("lock", v, 0)
Unlock(v) == Act("unlock", v, 0)
Delete(v, i) == Act("delete", v, i)
Execute(i) == Act("execute", 0, i)
\* The allocation of the output of node i carries the input it reuses.
Allocate(i) ==
    LET k == meta[i].reuse
    IN [kind |-> "allocate", name |-> i, node |-> 0,
        target |-> IF k \in DOMAIN graph[i] THEN graph[i][k] ELSE 0]

Keep == Sources \cup outputs
Strict == \E i \in Nodes : meta[i].unused # <<>>
Explicit == UNION {Range(meta[i].release) : i \in Nodes}

\* Whether an annotation at node i does not precede the last use of v.
Timely(v, i) == Users(v) = {} \/ i >= LastUse(v)

\* Mutant: an explicit annotation counts even before the last use.
ValidUnlocksAny == {v \in Sources : \E i \in Nodes : v \in Range(meta[i].unused)}

ValidUnlocks == {v \in Sources : \E i \in Nodes : v \in Range(meta[i].unused) /\ Timely(v, i)}

LastReads(i) == {v \in Used(i) : LastUse(v) = i}

TopologyReleases(i) == Select(NodeInputs(i), LastReads(i) \ (Keep \cup Explicit))

\* Mutant: derives an unlock also for names with a valid annotation.
TopologyUnlocksAlways(i) == Select(NodeInputs(i), (LastReads(i) \cap Sources) \ outputs)

TopologyUnlocks(i) ==
    Select(NodeInputs(i), (LastReads(i) \cap Sources) \ (outputs \cup ValidUnlocks))

Unlocks(i) == Select(meta[i].unused, {v \in Sources : Timely(v, i)}) \o TopologyUnlocks(i)

Releases(i) == Select(meta[i].release, Values \ Keep) \o TopologyReleases(i)

Each(names, act(_)) == [k \in DOMAIN names |-> act(names[k])]

\* One round of the loop over the nodes, from the names locked so far.
NodeActions(before, i) ==
    LET news == Select(NodeInputs(i), Sources \ before.locked)
        deletes == Each(Releases(i), LAMBDA v : Delete(v, i))
    IN [acts |-> before.acts \o Each(news, Lock) \o <<Allocate(i), Execute(i)>> \o deletes
                     \o Each(Unlocks(i), Unlock),
        locked |-> (before.locked \cup Range(news)) \ Range(Unlocks(i))]

\* The loop after n nodes.
After[n \in 0..NumNodes] ==
    IF n = 0 THEN [acts |-> <<>>, locked |-> {}] ELSE NodeActions(After[n - 1], n)
Loop == After[NumNodes]

\* Mutant: tolerates a release one node before the last use.
StaleReleaseByTwo ==
    \E i \in Nodes : \E v \in Range(meta[i].release) : Users(v) # {} /\ i + 1 < LastUse(v)

StaleRelease == \E i \in Nodes : \E v \in Range(meta[i].release) : ~Timely(v, i)

Released == UNION {Range(Releases(i)) : i \in Nodes}

Unreleased == {v \in Nodes \ outputs : Users(v) # {}} \ Released

\* Everything still locked is unlocked at the end when nothing was annotated.
Remaining(names) == Each(SetToSeq(names), Unlock)

Build ==
    /\ verdict = "none"
    /\ verdict' = IF StaleRelease THEN "stale release"
                  ELSE IF Strict /\ Unreleased # {} THEN "never released"
                  ELSE IF Strict /\ ~(Loop.locked \subseteq outputs) THEN "never unlocked"
                  ELSE "built"
    /\ plan' = IF verdict' # "built" THEN <<>>
               ELSE IF Strict THEN Loop.acts ELSE Loop.acts \o Remaining(Loop.locked)
    /\ pc' = 1
    /\ UNCHANGED <<graphVars, releases, held, spoilt, locked>>

----------------------------------------------------------------------------
(* The replay in RuntimeSession::Run, and what lock, unlock and an in-place *)
(* allocation tell an executor that performs them.                          *)

Current == plan[pc]
Ended == verdict = "built" /\ pc > Len(plan)

Advance ==
    /\ verdict = "built" /\ pc <= Len(plan)
    /\ pc' = pc + 1
    /\ UNCHANGED <<graphVars, plan, verdict, releases>>

ReplayLock ==
    /\ Advance
    /\ Current.kind \in {"lock", "unlock"}
    /\ locked' = IF Current.kind = "lock" THEN locked \cup {Current.name} ELSE locked \ {Current.name}
    /\ UNCHANGED <<held, spoilt>>

\* The buffer of the target is the output's as soon as the node runs.
ReplayAllocate ==
    /\ Advance
    /\ Current.kind = "allocate"
    /\ UNCHANGED <<held, spoilt, locked>>

ReplayExecute ==
    /\ Advance
    /\ Current.kind = "execute"
    /\ held' = held \cup {Current.node}
    /\ spoilt' = spoilt \cup {plan[pc - 1].target}
    /\ UNCHANGED locked

\* Run skips the deletions unless the context releases intermediates.
ReplayDelete ==
    /\ Advance
    /\ Current.kind = "delete"
    /\ held' = IF releases THEN held \ {Current.name} ELSE held
    /\ UNCHANGED <<spoilt, locked>>

Next == Annotate \/ Rewrite \/ Build \/ ReplayLock \/ ReplayAllocate \/ ReplayExecute \/ ReplayDelete

Spec == Init /\ [][Next]_vars

----------------------------------------------------------------------------

\* Every value a node reads was computed, is not deleted and still has its
\* contents, and every input or initializer it reads is locked: whatever uses
\* rewrites added, the plan is refused or reads nothing stale.
ReadsIntact ==
    verdict = "built" /\ ~Ended /\ Current.kind = "execute"
        => /\ Used(Current.node) \subseteq held \ spoilt
           /\ Used(Current.node) \cap Sources \subseteq locked

\* Locks are balanced: no action locks what is locked or unlocks what is not,
\* and the end of the run leaves locked at most what the caller gets back.
LocksBalanced ==
    /\ verdict = "built" /\ ~Ended
        => /\ Current.kind = "lock" => Current.name \notin locked
           /\ Current.kind = "unlock" => Current.name \in locked
    /\ Ended => locked \subseteq outputs

\* Nothing leaks and nothing is lost: a run that releases intermediates ends
\* with the outputs and no consumed intermediate; with annotations of the graph as
\* it is not even an unused result is left, which the lifetime analysis releases at
\* its producer (result_lifetime.h says so, a comment in BuildActions the opposite);
\* such annotations are never refused, and the strict completeness checks never
\* fire, stale annotations included.
RunsClean ==
    /\ Ended => outputs \subseteq held \ spoilt
    /\ Ended /\ releases => {v \in held \ Keep : Users(v) # {}} = {}
    /\ Ended /\ releases /\ fresh => held \subseteq Keep
    /\ fresh => verdict \in {"none", "built"}
    /\ verdict \notin {"never released", "never unlocked"}
==============================================================================
