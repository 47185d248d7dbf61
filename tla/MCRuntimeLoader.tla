--------------------------- MODULE MCRuntimeLoader ---------------------------
(* An instance of RuntimeLoader for TLC: two nodes, h = f(x, W1) and          *)
(* y = g(h, W2, W3), and four preparations.  The second node prepares W2, then *)
(* W3, and then something from W2, W3 and h, which only a run supplies and     *)
(* which is the last to need W2 and W3.  W1 is large: consuming it makes room  *)
(* for the preparations of W2 and W3, which are read before.                   *)
EXTENDS RuntimeLoader

TwoNodeInputs == <<{"x", "W1"}, {"h", "W2", "W3"}>>
TwoNodeOutputs == <<{"h"}, {"y"}>>
TwoNodeTuning == <<{"x"}, {"h"}>>
TwoNodeDeleted == <<{}, {"h"}>>
PrepNode == <<1, 2, 2, 2>>
PrepSources == <<<<"W1">>, <<"W2">>, <<"W3">>, <<"W2", "h", "W3">>>>
PrepDependencies == <<{}, {}, {2}, {}>>
PrepConsumed == <<{"W1"}, {"W2"}, {"W3"}, {}>>
Mem(s, t, p) == [source |-> s, temporary |-> t, prepared |-> p]
PrepMemory == <<Mem(2, 0, 1), Mem(1, 1, 2), Mem(1, 0, 1), Mem(2, 0, 1)>>
External == <<"x", "W1", "W2", "W3">>
Order == <<"W2", "W3", "W1">>
Weights == {"W1", "W2", "W3"}
SomeExternals == {{}, {"W1", "W2"}, Weights}
WeightBytes == [w \in Weights |-> IF w = "W1" THEN 2 ELSE 1]
=============================================================================
