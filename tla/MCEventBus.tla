------------------------------ MODULE MCEventBus ------------------------------
(* Two handlers for EventBus: h1 of every event, h2 of all but e2. *)
EXTENDS EventBus, TLC

CONSTANTS e1, e2, h1, h2

MCHandlers == {h1, h2}
MCCatchAll == {h1}
MCWants == [h \in MCHandlers |-> IF h = h1 THEN Events ELSE Events \ {e2}]

LiveWants == [h \in {h1} |-> {e1, e2}]

\* The goroutines of the worker pool run the same code.
Symmetry == Permutations(Workers)
=============================================================================
