---------------------------- MODULE RuntimeLoader ----------------------------
(***************************************************************************)
(* LoadSessions of runtime_session_loader.cc on one model, followed by the *)
(* life of the loaded session.  The loader prepares one initializer after  *)
(* the other while a Reader thread reads external payloads one ahead, and  *)
(* charges sources, conversions and prepared bytes to one memory limit.    *)
(* Steps of the Reader interleave with those of the loading thread.        *)
(***************************************************************************)
EXTENDS KernelPreparations

CONSTANTS
    InitializerOrder, \* the initializers, in the order of the graph
    Externals,        \* the sets of external initializers to check
    Bytes,            \* bytes of an initializer
    Reservation,      \* bytes reserved for sources, conversion and catalogues
    Limits            \* memory limits to check

\* The bytes of the initializers in S.
BytesOf(S) == SumFunction([w \in S |-> Bytes[w]])

ASSUME LoaderAssumption ==
    /\ InitializerOrder \in Seq(Initializers) /\ IsInjective(InitializerOrder)
    /\ Range(InitializerOrder) = Initializers
    /\ Externals \subseteq SUBSET Initializers
    /\ Bytes \in [Initializers -> Nat]
    /\ Reservation \in Nat /\ BytesOf(Initializers) <= Reservation
    /\ Limits \subseteq Nat

VARIABLES
    overlap,     \* overlap_preparation
    external,    \* initializers with external payload
    limit,       \* memory_limit
    reservation, \* source_reservation
    seeded,      \* SeedCleanup::names
    item,        \* the prepare call the loader is at
    before,      \* initializers that were consumed when the call was made
    reader,      \* the Reader: its thread, ready_, consumed_, stopped_, error_
    asleep       \* threads that wait on changed_

loaderVars == <<overlap, external, limit, reservation, seeded, item, before>>
vars == <<sessionVars, at, loaderVars, reader, asleep>>

\* The initializers of S in the order of the graph.
InOrder(S) ==
    LET places == Ascending({k \in 1..Len(InitializerOrder) : InitializerOrder[k] \in S})
    IN  [k \in 1..Len(places) |-> InitializerOrder[places[k]]]
Queued == InOrder(external)
\* Inline initializers first, then external ones, then prepare(nullptr).
Calls == InOrder(Initializers \ external) \o Queued
NumInline == Len(Calls) - Len(Queued)
\* The external tensor of the current call.
Current == item - NumInline

Init ==
    /\ SessionInit
    /\ values \in SUBSET (Range(RequiredInputs) \ Initializers)
    /\ at = "declare"
    /\ overlap \in BOOLEAN
    /\ external \in Externals
    /\ limit \in Limits /\ limit >= Reservation + SharedBytes
    /\ reservation = Reservation
    /\ seeded = {}
    /\ item = 0
    /\ before = {}
    /\ reader = [pc |-> "none", i |-> 0, ready |-> 0, taken |-> 0, stopped |-> FALSE,
                 error |-> FALSE]
    /\ asleep = {}

Overlapped == overlap /\ external # {}

\* The session is declared, and the Reader starts or all payloads are read now.
Declare ==
    /\ at = "declare"
    /\ Declared
    /\ prep' = Queue([prep EXCEPT !.pending = NumPreps], Preps)
    /\ item' = 1
    /\ at' \in {"prepare"} \cup IF Overlapped \/ external = {} THEN {} ELSE {"abandon"}
    /\ reader' = [reader EXCEPT !.pc = IF Overlapped THEN "wait" ELSE @,
                                !.i = 1]
    /\ UNCHANGED <<consumable, foreign, store, consumed, failed, values, outputs, releases, caller, node, overlap,
                   external, limit, reservation, seeded, before, asleep>>
-----------------------------------------------------------------------------
\* Mutant of Take: it returns while the payload is being read.
TakeEarly ==
    /\ at = "prepare" /\ Overlapped /\ Current \in 1..Len(Queued) /\ reader.taken < Current
    /\ "loader" \notin asleep
    /\ IF reader.ready + 1 >= Current \/ reader.error
       THEN IF reader.error
            THEN at' = "stop" /\ UNCHANGED <<reader, asleep>>
            ELSE /\ reader' = [reader EXCEPT !.taken = Current]
                 /\ asleep' = asleep \ {"reader"}
                 /\ UNCHANGED at
       ELSE asleep' = asleep \cup {"loader"} /\ UNCHANGED <<at, reader>>
    /\ UNCHANGED <<sessionVars, loaderVars>>

\* Reader::Take, with its notification under the mutex.
Take ==
    /\ at = "prepare" /\ Overlapped /\ Current \in 1..Len(Queued) /\ reader.taken < Current
    /\ "loader" \notin asleep
    /\ IF reader.ready >= Current \/ reader.error
       THEN IF reader.error
            THEN at' = "stop" /\ UNCHANGED <<reader, asleep>>
            ELSE /\ reader' = [reader EXCEPT !.taken = Current]
                 /\ asleep' = asleep \ {"reader"}
                 /\ UNCHANGED at
       ELSE asleep' = asleep \cup {"loader"} /\ UNCHANGED <<at, reader>>
    /\ UNCHANGED <<sessionVars, loaderVars>>

\* Reader::Work: wait for the slot, read, publish, notify.
ReaderWaits ==
    /\ reader.pc = "wait" /\ "reader" \notin asleep
    /\ IF reader.stopped \/ reader.i > Len(Queued)
       THEN reader' = [reader EXCEPT !.pc = "done"] /\ UNCHANGED asleep
       ELSE IF reader.i <= reader.taken + 1
            THEN reader' = [reader EXCEPT !.pc = "read"] /\ UNCHANGED asleep
            ELSE asleep' = asleep \cup {"reader"} /\ UNCHANGED reader
    /\ UNCHANGED <<sessionVars, at, loaderVars>>

ReaderReads ==
    /\ reader.pc = "read"
    /\ \/ reader' = [reader EXCEPT !.pc = "notify", !.ready = reader.i, !.i = @ + 1]
       \/ reader' = [reader EXCEPT !.pc = "notifyError", !.error = TRUE]
    /\ UNCHANGED <<sessionVars, at, loaderVars, asleep>>

\* Mutant of ReaderNotifies: the error path does not notify.
ReaderNotifiesReady ==
    /\ reader.pc \in {"notify", "notifyError"}
    /\ reader' = [reader EXCEPT !.pc = IF @ = "notify" THEN "wait" ELSE "done"]
    /\ asleep' = IF reader.pc = "notify" THEN {} ELSE asleep
    /\ UNCHANGED <<sessionVars, at, loaderVars>>

ReaderNotifies ==
    /\ reader.pc \in {"notify", "notifyError"}
    /\ reader' = [reader EXCEPT !.pc = IF @ = "notify" THEN "wait" ELSE "done"]
    /\ asleep' = {}
    /\ UNCHANGED <<sessionVars, at, loaderVars>>

ReaderStep == ReaderWaits \/ ReaderReads \/ ReaderNotifies
-----------------------------------------------------------------------------
Arrived == Overlapped /\ Current \in 1..Len(Queued) => reader.taken >= Current
Named == item <= Len(Calls)

\* prepare(tensor): the initializer is seeded and its preparations are queued.
PrepareItem ==
    /\ at = "prepare" /\ Arrived
    /\ values' = IF Named THEN values \cup {Calls[item]} ELSE values
    /\ seeded' = IF Named /\ Calls[item] \notin values THEN seeded \cup {Calls[item]} ELSE seeded
    /\ before' = consumed
    /\ Call(prep, limit - reservation, IF Named THEN Consumers(Calls[item]) ELSE {}, "prepared")
    /\ UNCHANGED <<consumable, untyped, foreign, store, deferred, required, consumed, failed, outputs, releases, node,
                   overlap, external, limit, reservation, item, reader, asleep>>

\* The bytes of consumed initializers are released, and the call is repeated with
\* the larger limit until it releases nothing.
PreparedItem ==
    /\ at = "prepared"
    /\ reservation' = reservation - BytesOf(consumed \ before)
    /\ before' = consumed
    /\ IF BytesOf(consumed \ before) # 0
       THEN /\ Call(prep, limit - reservation',
                    IF Named THEN Consumers(Calls[item]) ELSE {}, "prepared")
            /\ UNCHANGED item
       ELSE /\ at' = IF item > Len(Calls) THEN "check"
                     ELSE IF Overlapped /\ item = Len(Calls) THEN "stop" ELSE "prepare"
            /\ item' = item + 1
            /\ UNCHANGED <<prep, caller>>
    /\ UNCHANGED <<consumable, untyped, foreign, store, deferred, required, consumed, failed, values, outputs, releases,
                   node, overlap, external, limit, seeded, reader, asleep>>

\* A preparation throws while the Reader may be at work.
LoadThrows ==
    /\ at = "threw" /\ caller = "prepared"
    /\ at' = IF Overlapped /\ item <= Len(Calls) THEN "stop" ELSE "abandon"
    /\ UNCHANGED <<sessionVars, loaderVars, reader, asleep>>

\* ~Reader: the thread is stopped and joined, after the last tensor or when an
\* exception leaves the block.
StopReader ==
    /\ at = "stop"
    /\ reader' = [reader EXCEPT !.stopped = TRUE]
    /\ at' = "notifyStop"
    /\ UNCHANGED <<sessionVars, loaderVars, asleep>>

NotifyStop ==
    /\ at = "notifyStop"
    /\ asleep' = {}
    /\ at' = "join"
    /\ UNCHANGED <<sessionVars, loaderVars, reader>>

JoinReader ==
    /\ at = "join" /\ reader.pc = "done"
    /\ at' = IF failed \/ reader.error THEN "abandon" ELSE "prepare"
    /\ UNCHANGED <<sessionVars, loaderVars, reader, asleep>>

\* Pending preparations that wait for the run: an input, a node output or the
\* element type is missing, for them or for one they depend on.
Awaiting ==
    LET waits[p \in Preps] ==
            \/ NodeOf[p] \in deferred
            \/ ~(SourceSet(p) \subseteq values \ Produced)
            \/ \E q \in Dependencies[p] \ prep.complete : waits[q]
    IN  {p \in Preps : waits[p]}
Unknown == Initializers \ values

\* The loader refuses a model when a pending preparation could run now or lacks a
\* source that no run supplies.
CheckPending ==
    /\ at = "check"
    /\ at' = IF \A p \in Preps \ prep.complete : p \in Awaiting /\ SourceSet(p) \cap Unknown = {}
             THEN "leave" ELSE "abandon"
    /\ UNCHANGED <<sessionVars, loaderVars, reader, asleep>>

\* SeedCleanup takes the initializers out of the context on every way out.
Cleanup ==
    /\ at \in {"leave", "abandon"}
    /\ at' = IF at = "leave" THEN "idle" ELSE "failed"
    /\ values' = values \ seeded
    /\ UNCHANGED <<consumable, untyped, foreign, prep, store, deferred, required, consumed, failed, outputs, releases,
                   caller, node, loaderVars, reader, asleep>>
-----------------------------------------------------------------------------
Loading ==
    \/ Declare \/ Take \/ PrepareItem \/ PreparedItem \/ LoadThrows
    \/ StopReader \/ NotifyStop \/ JoinReader \/ CheckPending \/ Cleanup
Session == Preparing \/ Running
Client == BeginRun \/ Prepare \/ RethrowRun \/ Feed

Next ==
    \/ Loading
    \/ ReaderStep
    \/ Session /\ UNCHANGED <<loaderVars, reader, asleep>>
    \/ Client /\ UNCHANGED <<loaderVars, reader, asleep>>

\* The two threads continue; a client need not call again.
Spec ==
    /\ Init /\ [][Next]_vars
    /\ WF_vars(Loading \/ (Session /\ UNCHANGED <<loaderVars, reader, asleep>>))
    /\ WF_vars(ReaderStep)
-----------------------------------------------------------------------------
Loader == at \in {"declare", "prepare", "loop", "prepared", "threw", "stop", "notifyStop", "join",
                  "check", "leave", "abandon"} /\ caller \in {"none", "prepared"}

\* Loading stays within memory_limit: the sources still reserved and the prepared
\* bytes never exceed it, although consumed sources are released on the way, and
\* source_reservation, which is unsigned, never wraps when they are.
AdmittedBytes == Loader => 0 <= reservation /\ reservation + store <= limit

\* The loader leaves nothing behind that the memory it has left admits: at its
\* last check, and when Run checks its inputs, every pending preparation lacks a
\* source, a dependency or its tuning, or does not fit.
NothingForgotten ==
    /\ at = "check" => \A p \in Preps \ prep.complete : Ready(p) => ~Fits(p, limit - reservation)
    /\ NothingForgottenByRun

\* The Reader never touches a tensor the loader works on, stays at most one
\* tensor ahead, and is joined before the session is used.
ReaderHandoff ==
    /\ reader.pc = "read" => Queued[reader.i] \notin values \cup consumed
    /\ reader.ready <= reader.taken + 1
    /\ at \in {"check", "leave", "abandon", "failed", "idle"} => reader.pc \in {"none", "done"}

\* A load and a run always return or throw, also when a read fails while the
\* loader sleeps, or a preparation throws while the Reader sleeps.
CallReturns == at # "idle" ~> at \in {"idle", "failed"}
=============================================================================
