--------------------------- MODULE FeedbackService ---------------------------
(***************************************************************************)
(* What a session with persistent values promises: one retained value that *)
(* calls replace atomically.  A call either takes effect once, at the      *)
(* moment its completion succeeds, or leaves the value alone; nothing else *)
(* changes the value before the call has returned.  Reset replaces it      *)
(* between calls.  FeedbackSession implements it.                          *)
(***************************************************************************)
EXTENDS Naturals, Sequences

CONSTANTS
    Threads, \* threads that use the session
    Tasks,   \* completions passed to calls
    Rows,    \* rows of the retained tensor
    None,
    NoCall,  \* a thread outside a call
    Done,    \* a call that took effect and has not returned
    Plain    \* a call without a completion

VARIABLES
    value,   \* the retained value, a sequence of rows
    status,  \* what every completion reports
    active   \* the call of every thread, or Done once it took effect

serviceVars == <<value, status, active>>

Terminal == {"succeeded", "failed", "cancelled", "suppressed"}

ServiceInit ==
    /\ value = <<>>
    /\ status = [k \in Tasks |-> "pending"]
    /\ active = [t \in Threads |-> NoCall]

Idle == \A t \in Threads : active[t] = NoCall

Start(t, k) ==
    /\ Idle
    /\ k \in Tasks => status[k] = "pending"
    /\ active' = [active EXCEPT ![t] = k]
    /\ UNCHANGED <<value, status>>

\* A call appends to the value or computes a new one, and its task succeeds in
\* the same instant.
TakeEffect(t) ==
    /\ active[t] \notin {NoCall, Done}
    /\ \E r \in Rows : value' \in {Append(value, r), <<r>>}
    /\ active' = [active EXCEPT ![t] = Done]
    /\ \/ active[t] = Plain /\ UNCHANGED status
       \/ /\ active[t] \in Tasks
          /\ status[active[t]] \notin Terminal
          /\ status' = [status EXCEPT ![active[t]] = "succeeded"]

\* A call ends; one that did not take effect leaves the value as it was.
Leave(t) ==
    /\ active[t] # NoCall
    /\ active' = [active EXCEPT ![t] = NoCall]
    /\ UNCHANGED <<value, status>>

\* A scheduler settles a task that has not ended.
Settle(k) ==
    /\ status[k] \notin Terminal
    /\ \E s \in {"running", "failed", "cancelled", "suppressed"} :
           /\ s # "failed" => status[k] = "pending"
           /\ status' = [status EXCEPT ![k] = s]
    /\ UNCHANGED <<value, active>>

\* Reset of the value, while no thread is inside a call.
Replace ==
    /\ Idle
    /\ value' \in Seq(Rows)
    /\ UNCHANGED <<status, active>>

ServiceNext ==
    \/ \E t \in Threads : \/ \E k \in Tasks \cup {Plain} : Start(t, k)
                          \/ TakeEffect(t)
                          \/ Leave(t)
    \/ \E k \in Tasks : Settle(k)
    \/ Replace

ServiceSpec == ServiceInit /\ [][ServiceNext]_serviceVars
=============================================================================
