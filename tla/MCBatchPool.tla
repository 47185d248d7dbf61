----------------------------- MODULE MCBatchPool -----------------------------
(* An instance for TLC: a worker pool whose clients use it directly, or one *)
(* that belongs to a batch adapter.  Which of the two never changes.        *)
EXTENDS BatchPool, TLC

VARIABLE adapted

UseInit == BatchInit /\ adapted \in BOOLEAN

UseNext ==
    /\ UNCHANGED adapted
    /\ \/ adapted /\ BatchNext
       \/ ~adapted /\ Next /\ UNCHANGED adapter

UseVars == <<vars, adapter, adapted>>

\* The fairness of WorkerPool or that of BatchPool.
UseStep(t) ==
    /\ ThreadStep(t)
    /\ UNCHANGED adapted
    /\ \/ adapted /\ PoolStep(t)
       \/ ~adapted /\ UNCHANGED adapter
UseEnd == adapted /\ (SubmitEnqueue \/ WaitEnd) /\ UNCHANGED adapted

UseSpec ==
    /\ UseInit /\ [][UseNext]_UseVars
    /\ \A t \in Threads : WF_UseVars(UseStep(t))
    /\ WF_UseVars(UseEnd)
=============================================================================
