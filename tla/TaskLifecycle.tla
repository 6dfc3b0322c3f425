----------------------------- MODULE TaskLifecycle -----------------------------
(***************************************************************************)
(* What an execution plan promises about its tasks, whoever executes it:   *)
(* the statuses of types.go and the moves between them, when a result may  *)
(* be read, and when the rest of a plan may be given up.                   *)
(***************************************************************************)
CONSTANTS Tasks, Ids
VARIABLES dependsOn, status, results

vars == <<dependsOn, status, results>>

Ended == {"Completed", "Failed", "Cancelled"}

Init ==
    /\ dependsOn \in [Tasks -> SUBSET Ids]
    /\ status = [t \in Tasks |-> "Pending"]
    /\ results = {}

Move(ts, from, to) ==
    /\ \A t \in ts : status[t] \in from
    /\ status' = [t \in Tasks |-> IF t \in ts THEN to ELSE status[t]]
    /\ UNCHANGED dependsOn

\* Pending tasks become ready only once all they depend on has completed.
Queue == \E ts \in SUBSET Tasks :
    /\ \A t \in ts : \A d \in dependsOn[t] : d \in Tasks /\ status[d] = "Completed"
    /\ Move(ts, {"Pending"}, "Ready")
    /\ UNCHANGED results

Run(t) == Move({t}, {"Ready"}, "Running") /\ UNCHANGED results

\* The result of a running task is stored before it is said to be completed.
Publish(t) ==
    /\ status[t] = "Running"
    /\ results' = results \cup {t}
    /\ UNCHANGED <<dependsOn, status>>

Complete(t) == t \in results /\ Move({t}, {"Running"}, "Completed") /\ UNCHANGED results

\* A task that stored a result does not fail.
FailTask(t) == t \notin results /\ Move({t}, {"Running"}, "Failed") /\ UNCHANGED results

\* A task that waits for a worker is dropped.
Drop(t) == Move({t}, {"Ready"}, "Cancelled") /\ UNCHANGED results

\* All that has not ended is given up, which takes a failed task and that
\* nothing runs any more.
GiveUp ==
    /\ \E t \in Tasks : status[t] = "Failed"
    /\ Move({t \in Tasks : status[t] \notin Ended}, {"Pending", "Ready"}, "Cancelled")
    /\ UNCHANGED results

Next ==
    \/ Queue \/ GiveUp
    \/ \E t \in Tasks : Run(t) \/ Publish(t) \/ Complete(t) \/ FailTask(t) \/ Drop(t)

Spec == Init /\ [][Next]_vars
=============================================================================
