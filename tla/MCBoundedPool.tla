---------------------------- MODULE MCBoundedPool ----------------------------
(* Instances of BoundedPool for TLC. *)
EXTENDS BoundedPool, TLC

CONSTANTS p1, p2

\* One pool with two workers, for safety.
OnePool == {p1}
TwoWorkers == [p \in OnePool |-> 2]
Symmetric == Permutations(Callers)

\* Two pools of different sizes, for liveness.
TwoPools == {p1, p2}
UnequalWorkers == [p \in TwoPools |-> IF p = p1 THEN 2 ELSE 0]
=============================================================================
