--------------------------- MODULE MCExecutionPlan ---------------------------
(* Instance of ExecutionPlan for TLC: three nodes of one or two inputs.    *)
EXTENDS ExecutionPlan

CONSTANTS x, w

\* Every list of two earlier names; the first node also reads x alone.
Pairs(S) == {<<a, b>> : a \in S, b \in S}
ThreeNodes == {<<a, b, c>> : a \in {<<x>>, <<x, w>>}, b \in Pairs({x, w, 1}) \cup {<<1>>},
                             c \in Pairs({x, 1, 2})}

\* Declared outputs: the last value, an inner one too, or a passed-through input.
SomeOutputs == {{3}, {2, 3}, {3, x}}

\* Equal buffers, a larger first one, a larger second one.
SomeSizes == {<<1, 1, 1>>, <<2, 1, 1>>, <<1, 2, 2>>}
==============================================================================
