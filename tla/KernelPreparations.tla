-------------------------- MODULE KernelPreparations --------------------------
(***************************************************************************)
(* The preparations of a RuntimeSession and its run loop                   *)
(* (runtime_session.cc).  A kernel declares preparations: work on constant *)
(* operands that is done once, under a memory limit, as soon as its sources*)
(* are there and its tuning is known, and that may consume the             *)
(* initializers it read.  Run completes what is left before the node that  *)
(* needs it.  One thread uses a session; the loop over the candidates is   *)
(* one step per candidate.                                                 *)
(***************************************************************************)
EXTENDS Naturals, Sequences, FiniteSets, SequencesExt

CONSTANTS
    NumNodes, NodeInputs, NodeOutputs, \* the nodes of the plan, in order
    TuningInputs,   \* inputs of a node whose element type selects its tuning
    Deleted,        \* values the plan deletes after a node
    NumPreps, NodeOf, Sources, Dependencies, \* declared preparations
    Consumed,       \* consumed_inputs of a preparation
    Memory,         \* estimate_memory: source, temporary and prepared bytes
    SharedBytes,    \* bytes that other sessions left in the value store
    Initializers,   \* immutable initializers of the graph
    Consumable,     \* the ones whose bytes a session that owns the model may drop
    RequiredInputs, \* CollectExternalInputs
    Untyped,        \* nodes whose element type may be undeclared
    Unlimited       \* std::numeric_limits<size_t>::max()

Nodes == 1..NumNodes
Preps == 1..NumPreps
SourceSet(p) == Range(Sources[p])
Produced == UNION {NodeOutputs[n] : n \in Nodes}
PrepsOf(n) == {p \in Preps : NodeOf[p] = n}
Names == Range(RequiredInputs) \cup Initializers \cup Produced
\* The bytes the preparations of S leave in the value store.
PreparedBytes(S) == SumFunction([p \in S |-> Memory[p].prepared])

\* The plan: a node reads external inputs and outputs of earlier nodes, and a value
\* is deleted after its last reader.  Consumable initializers are external inputs.
ASSUME PlanAssumption ==
    /\ NumNodes \in Nat \ {0}
    /\ \A m \in Nodes :
        /\ NodeInputs[m] \subseteq
               Range(RequiredInputs) \cup UNION {NodeOutputs[k] : k \in 1..(m - 1)}
        /\ \A n \in 1..(m - 1) : Deleted[n] \cap NodeInputs[m] = {}
    /\ RequiredInputs \in Seq(Range(RequiredInputs)) /\ IsInjective(RequiredInputs)
    /\ IsFiniteSet(Initializers)
    /\ Produced \cap (Initializers \cup Range(RequiredInputs)) = {}
    /\ Consumable \subseteq Initializers \cap Range(RequiredInputs)

\* The preparations: they belong to nodes, and the largest size is enough for each
\* of them after any others.
ASSUME PreparationAssumption ==
    /\ NumPreps \in Nat
    /\ NodeOf \in [Preps -> Nodes]
    /\ Sources \in [Preps -> Seq(Names)]
    /\ Memory \in [Preps -> [source : Nat, temporary : Nat, prepared : Nat]]
    /\ SharedBytes \in Nat /\ Unlimited \in Nat
    /\ \A S \in SUBSET Preps, p \in Preps :
        SharedBytes + PreparedBytes(S)
            + Memory[p].source + Memory[p].temporary + Memory[p].prepared <= Unlimited

VARIABLES
    consumable, \* consumable_initializer_names_
    untyped,  \* nodes without a declared type; then the ones deferred at declaration
    prep,     \* queue and completion state of the preparations
    store,    \* prepared_bytes of the value store
    deferred, \* nodes with tuning_deferred
    required, \* required_inputs_, and the index of consumables in it
    consumed, \* consumed_initializer_names_
    failed,   \* preparation_failure_
    values,   \* names the RuntimeContext holds
    foreign,  \* the initializers among them under which it holds a value of the client
    outputs,  \* available_preparation_outputs of the current run
    releases, \* release_intermediates of the context
    at,       \* where the thread is
    caller,   \* where ExecutePreparationsImpl returns to
    node      \* the node Run is at

sessionVars == <<consumable, untyped, foreign, prep, store, deferred, required, consumed, failed, values,
                 outputs, releases, caller, node>>

NoPreparations == [complete |-> {}, queue |-> <<>>, queued |-> {}, blocked |-> {},
                   pending |-> 0, limit |-> 0, mark |-> 0]

\* The session before DeclarePreparations.
SessionInit ==
    /\ consumable \in {{}, Consumable}
    /\ untyped \in SUBSET Untyped
    /\ prep = NoPreparations
    /\ store = SharedBytes
    /\ deferred = {}
    /\ required = [names |-> <<>>, index |-> [w \in Consumable |-> 0]]
    /\ consumed = {}
    /\ failed = FALSE
    /\ foreign = {}
    /\ outputs = {}
    /\ releases \in BOOLEAN
    /\ caller = "none"
    /\ node = 0
-----------------------------------------------------------------------------
\* The members of a set of numbers in ascending order.
Ascending(S) ==
    CHOOSE s \in [1..Cardinality(S) -> S] : \A i, j \in DOMAIN s : i < j => s[i] < s[j]

\* QueuePreparation for every member of S, by index.
Queue(p, S) ==
    LET new == S \ (p.complete \cup p.queued)
    IN  [p EXCEPT !.queue = @ \o Ascending(new), !.queued = @ \cup new]

\* preparation_source_consumers_.
Consumers(w) ==
    {p \in Preps : w \in SourceSet(p) \/ (NodeOf[p] \in untyped /\ w \in TuningInputs[NodeOf[p]])}

\* InitializeKernels: preparations, deferred tuning and required inputs.
Declared ==
    /\ deferred' = {n \in untyped : TuningInputs[n] \cap (values \ Produced) = {}}
    /\ untyped' = deferred'
    /\ required' = [names |-> RequiredInputs,
                    index |-> [w \in Consumable |->
                        CHOOSE j \in 1..Len(RequiredInputs) : RequiredInputs[j] = w]]

\* Mutant of Call: what the memory limit blocked is not tried again.
CallKeepsBlocked(p, limit, S, back) ==
    IF p.pending = 0
    THEN at' = back /\ UNCHANGED <<prep, caller>>
    ELSE /\ prep' = [Queue(p, S) EXCEPT !.limit = limit]
         /\ caller' = back
         /\ at' = "loop"

\* A call of ExecutePreparationsImpl after S was queued: it returns at once when
\* nothing is pending, and tries again what an earlier limit blocked when the
\* limit rose or the store shrank.
Call(p, limit, S, back) ==
    IF p.pending = 0
    THEN at' = back /\ UNCHANGED <<prep, caller>>
    ELSE LET retry == IF limit > p.limit \/ store < p.mark THEN p.blocked ELSE {}
         IN  /\ prep' = [Queue(Queue(p, S), retry) EXCEPT !.limit = limit]
             /\ caller' = back
             /\ at' = "loop"

Candidate == Head(prep.queue)
Popped == [prep EXCEPT !.queue = Tail(@), !.queued = @ \ {Candidate}]

Visible(w) == w \in values /\ (w \in Produced => w \in outputs)
\* ResolveDeferredTuning leaves a node deferred without a typed input.
StillDeferred(n) == n \in deferred /\ \A w \in TuningInputs[n] : ~Visible(w)
Ready(p) ==
    /\ ~StillDeferred(NodeOf[p])
    /\ \A w \in SourceSet(p) : Visible(w)
    /\ Dependencies[p] \subseteq prep.complete

\* Mutant of Fits: the bytes already prepared are not counted.
FitsWithoutStore(p, limit) ==
    Memory[p].source + Memory[p].temporary + Memory[p].prepared <= limit

Fits(p, limit) ==
    store + Memory[p].source + Memory[p].temporary + Memory[p].prepared <= limit

Resolved == IF StillDeferred(NodeOf[Candidate]) THEN deferred ELSE deferred \ {NodeOf[Candidate]}

SkipCandidate ==
    /\ at = "loop" /\ prep.queue # <<>>
    /\ ~Ready(Candidate)
    /\ prep' = Popped
    /\ deferred' = Resolved
    /\ UNCHANGED <<consumable, untyped, foreign, store, required, consumed, failed, values, outputs, releases,
                   at, caller, node>>

BlockCandidate ==
    /\ at = "loop" /\ prep.queue # <<>>
    /\ Ready(Candidate) /\ ~Fits(Candidate, prep.limit)
    /\ prep' = [Popped EXCEPT !.blocked = @ \cup {Candidate}]
    /\ deferred' = Resolved
    /\ UNCHANGED <<consumable, untyped, foreign, store, required, consumed, failed, values, outputs, releases,
                   at, caller, node>>

\* Mutant of Consumption: the first preparation that claims a source drops it.
ConsumptionEager(p) ==
    {w \in SourceSet(p) : w \in consumable \ consumed /\ w \in Consumed[p]}

\* ConsumePreparationSources: the sources that preparation p is the last to read
\* and that one of their readers claims (sources_consumed holds once a
\* preparation is complete).
Consumption(p) ==
    {w \in SourceSet(p) :
        /\ w \in consumable \ consumed
        /\ \E q \in Consumers(w) : w \in Consumed[q]
        /\ Consumers(w) \subseteq prep.complete \cup {p}}

\* The last required input takes the place of a consumed one.
WithoutRequired(r, w) ==
    LET j == r.index[w]
        moved == Last(r.names)
    IN  [names |-> Front([r.names EXCEPT ![j] = moved]),
         index |-> IF moved \in consumable THEN [r.index EXCEPT ![moved] = j] ELSE r.index]

\* The required inputs after the sources in gone were consumed, in the order in
\* which the preparation lists them.
RequiredWithout(sources, gone) ==
    LET after[k \in 0..Len(sources)] ==
            IF k = 0 THEN required
            ELSE IF sources[k] \in gone \ {sources[j] : j \in 1..(k - 1)}
                 THEN WithoutRequired(after[k - 1], sources[k])
                 ELSE after[k - 1]
    IN  after[Len(sources)]

\* A preparation that fits runs, adds at most its estimate to the value store and
\* drops the sources in gone.
Execute(gone) ==
    /\ at = "loop" /\ prep.queue # <<>>
    /\ Ready(Candidate) /\ Fits(Candidate, prep.limit)
    /\ store' \in store..(store + Memory[Candidate].prepared)
    /\ consumed' = consumed \cup gone
    /\ values' = values \ gone
    /\ required' = RequiredWithout(Sources[Candidate], gone)
    /\ deferred' = Resolved
    /\ UNCHANGED <<consumable, untyped, foreign, outputs, releases, caller, node>>

ExecuteCandidate ==
    /\ Execute(Consumption(Candidate))
    /\ Consumption(Candidate) \cap foreign = {}
    /\ LET done == [Popped EXCEPT !.complete = @ \cup {Candidate}, !.pending = @ - 1,
                                  !.blocked = @ \ {Candidate}]
       IN  prep' = Queue(done, {q \in Preps : Candidate \in Dependencies[q]})
    /\ UNCHANGED <<failed, at>>

\* The sources that are dropped before ConsumePreparationSources meets a value
\* that is not the owned initializer.
DroppedBefore(p) ==
    {w \in Consumption(p) : \E k \in 1..Len(Sources[p]) :
        Sources[p][k] = w /\ \A j \in 1..k : Sources[p][j] \notin Consumption(p) \cap foreign}

\* ConsumePreparationSources throws: the preparation is complete, but it is
\* neither counted nor are its dependents queued.
ConsumeThrows ==
    /\ Execute(DroppedBefore(Candidate))
    /\ Consumption(Candidate) \cap foreign # {}
    /\ prep' = [Popped EXCEPT !.complete = @ \cup {Candidate}]
    /\ failed' = TRUE
    /\ at' = "threw"

\* Its tuning, its memory estimate or the preparation itself throws: the session
\* keeps the failure.
CandidateThrows ==
    /\ at = "loop" /\ prep.queue # <<>>
    /\ \/ NodeOf[Candidate] \in deferred /\ ~StillDeferred(NodeOf[Candidate]) /\ UNCHANGED deferred
       \/ Ready(Candidate) /\ deferred' = Resolved
    /\ prep' = Popped
    /\ failed' = TRUE
    /\ at' = "threw"
    /\ UNCHANGED <<consumable, untyped, foreign, store, required, consumed, values, outputs, releases, caller, node>>

LoopDone ==
    /\ at = "loop" /\ prep.queue = <<>>
    /\ prep' = [prep EXCEPT !.mark = store]
    /\ at' = caller
    /\ UNCHANGED <<consumable, untyped, foreign, store, deferred, required, consumed, failed, values, outputs,
                   releases, caller, node>>

Preparing ==
    \/ SkipCandidate \/ BlockCandidate \/ ExecuteCandidate \/ ConsumeThrows \/ CandidateThrows
    \/ LoopDone
-----------------------------------------------------------------------------
\* SeedInitializers: a value of the client is left alone.
Seed ==
    /\ values' = values \cup (Initializers \ consumed)
    /\ foreign' = foreign \cap values

\* RuntimeSession::Prepare, and the start of Run: everything that is pending is
\* tried without a limit.
Enter(back) ==
    /\ at = "idle" /\ ~failed
    /\ Seed
    /\ outputs' = {}
    /\ Call(prep, Unlimited, Preps, back)
    /\ UNCHANGED <<consumable, untyped, store, deferred, required, consumed, failed, releases, node>>

Prepare == Enter("idle")
BeginRun == Enter("inputs")

\* A Run after a failure rethrows it, once the initializers are seeded.
RethrowRun ==
    /\ at = "idle" /\ failed
    /\ Seed
    /\ UNCHANGED <<consumable, untyped, prep, store, deferred, required, consumed, failed, outputs,
                   releases, at, caller, node>>

\* Every required input must be there before the first kernel runs.
CheckInputs ==
    /\ at = "inputs"
    /\ \/ Range(required.names) \subseteq values /\ at' = "node" /\ node' = 1
       \/ ~(Range(required.names) \subseteq values) /\ at' = "idle" /\ UNCHANGED node
    /\ UNCHANGED <<consumable, untyped, foreign, prep, store, deferred, required, consumed, failed, values,
                   outputs, releases, caller>>

\* Mutant of ReachNode: a node with pending preparations of its own only waits
\* for them when its tuning was not deferred.
ReachNodeUnprepared ==
    /\ at = "node"
    /\ deferred' = deferred \ {node}
    /\ IF prep.pending # 0 /\ node \notin deferred /\ PrepsOf(node) # {}
       THEN Call(prep, Unlimited, PrepsOf(node), "enforce")
       ELSE at' = "execute" /\ UNCHANGED <<prep, caller>>
    /\ UNCHANGED <<consumable, untyped, foreign, store, required, consumed, failed, values, outputs, releases, node>>

\* A node resolves its tuning at the latest now, and completes its preparations.
ReachNode ==
    /\ at = "node"
    /\ deferred' = deferred \ {node}
    /\ IF prep.pending # 0 /\ PrepsOf(node) # {}
       THEN Call(prep, Unlimited, PrepsOf(node), "enforce")
       ELSE at' = "execute" /\ UNCHANGED <<prep, caller>>
    /\ UNCHANGED <<consumable, untyped, foreign, store, required, consumed, failed, values, outputs, releases, node>>

\* The tuning of a node whose turn has come throws.
TuningThrows ==
    /\ at = "node" /\ node \in deferred
    /\ failed' = TRUE
    /\ at' = "idle"
    /\ UNCHANGED <<consumable, untyped, foreign, prep, store, deferred, required, consumed, values,
                   outputs, releases, caller, node>>

Enforce ==
    /\ at = "enforce"
    /\ at' = IF PrepsOf(node) \subseteq prep.complete THEN "execute" ELSE "idle"
    /\ UNCHANGED sessionVars

\* The kernel runs, its outputs wake preparations, and the delete actions up to
\* the next node are replayed.
ExecuteNode ==
    /\ at = "execute"
    /\ values' = (values \cup NodeOutputs[node]) \ IF releases THEN Deleted[node] ELSE {}
    /\ IF prep.pending # 0 \/ deferred # {}
       THEN /\ outputs' = outputs \cup NodeOutputs[node]
            /\ prep' = Queue(prep, UNION {Consumers(w) : w \in NodeOutputs[node]})
       ELSE UNCHANGED <<outputs, prep>>
    /\ node' = IF node = NumNodes THEN 0 ELSE node + 1
    /\ at' = IF node = NumNodes THEN "idle" ELSE "node"
    /\ UNCHANGED <<consumable, untyped, foreign, store, deferred, required, consumed, failed, releases, caller>>

\* A kernel throws; the context keeps what it holds.
KernelThrows ==
    /\ at = "execute"
    /\ at' = "idle"
    /\ UNCHANGED sessionVars

\* The exception of a preparation leaves Run or Prepare.
Unwind ==
    /\ at = "threw" /\ caller \in {"idle", "inputs", "enforce"}
    /\ at' = "idle"
    /\ UNCHANGED sessionVars

\* Between calls the client feeds an input, which may have the name of an
\* initializer, or takes another context.
Feed ==
    /\ at = "idle"
    /\ \/ \E w \in Range(RequiredInputs) :
            values' = values \cup {w} /\ foreign' = foreign \cup ({w} \cap Initializers)
       \/ values' = {} /\ foreign' = {}
    /\ UNCHANGED <<consumable, untyped, prep, store, deferred, required, consumed, failed, outputs,
                   releases, at, caller, node>>

Running ==
    \/ CheckInputs \/ ReachNode \/ TuningThrows \/ Enforce \/ ExecuteNode \/ KernelThrows \/ Unwind
-----------------------------------------------------------------------------
\* Nothing that could be prepared is left behind: when Run checks its inputs, no
\* pending preparation has its sources, its dependencies and its tuning at hand.
NothingForgottenByRun ==
    at = "inputs" => \A p \in Preps \ prep.complete : ~Ready(p)

\* Consuming initializers keeps the books: a consumed initializer has no reader
\* left that still needs it and is no longer required, every other external input
\* stays required exactly once, at the index recorded for it although removals
\* move the last one.  The count of pending preparations is what is pending, and
\* a failure in the middle of a preparation can only leave it one too high, never
\* at zero with a preparation undone.
SourcesAccounted ==
    at # "declare" =>
        /\ \A w \in consumed : Consumers(w) \subseteq prep.complete /\ w \notin values \ foreign
        /\ IsInjective(required.names)
        /\ Range(required.names) = Range(RequiredInputs) \ consumed
        /\ \A w \in consumable \ consumed : required.names[required.index[w]] = w
        /\ prep.pending - Cardinality(Preps \ prep.complete) \in IF failed THEN 0..1 ELSE {0}

\* A kernel runs with all its preparations done and with every input in the
\* context or consumed (after all preparations that need it, SourcesAccounted),
\* whatever was released, deferred or blocked before, in this run or an earlier one.
NodeReady ==
    at = "execute" =>
        /\ PrepsOf(node) \subseteq prep.complete
        /\ NodeInputs[node] \subseteq values \cup consumed
=============================================================================
