---------------------------- MODULE MCDAGExecutor ----------------------------
(* Small plans for DAGExecutor: three tasks, and "x", the id of no task. *)
EXTENDS DAGExecutor, TLC

CONSTANTS a, b, c, x

MCTasks == {a, b, c}
MCIds == {a, b, c, x}

None == [t \in MCTasks |-> {}]

\* Three independent tasks; a's argument is computed.
Parallel == [dependsOn |-> None, reads |-> None, computed |-> {a}, hasTool |-> MCTasks]

\* b reads a's result without depending on it, c has no tool.
Racing == [dependsOn |-> None, reads |-> b :> {a} @@ None,
           computed |-> {}, hasTool |-> {a, b}]

\* c joins a and b, and reads both.
Join3 == [dependsOn |-> c :> {a, b} @@ None, reads |-> c :> {a, b} @@ None,
          computed |-> {}, hasTool |-> MCTasks]

\* a and b are a chain, c waits for a task the plan does not have.
Dangling == [dependsOn |-> b :> {a} @@ c :> {x} @@ None, reads |-> None,
             computed |-> {}, hasTool |-> MCTasks]

\* b and c wait for each other and for a, whose path length is undefined.
Cyclic == [dependsOn |-> b :> {a, c} @@ c :> {b} @@ None, reads |-> None,
           computed |-> {}, hasTool |-> MCTasks]

\* a is more urgent than b: c comes after it. b reads a task that is not there.
Urgent == [dependsOn |-> c :> {a} @@ None, reads |-> c :> {a} @@ b :> {x} @@ None,
           computed |-> {}, hasTool |-> MCTasks]

MCPlans == {Parallel, Racing, Join3, Dangling, Cyclic, Urgent}
JoinOnly == {Join3}
=============================================================================
