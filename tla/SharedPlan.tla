------------------------------- MODULE SharedPlan -------------------------------
(***************************************************************************)
(* Executions of one query through GenkitPlannerAdapter.GeneratePlan       *)
(* (internal/adapters/planner_adapter.go) and ExecutePlan                  *)
(* (internal/executor/executor.go).  A cached plan lends its task array to *)
(* every execution that hits the cache; NewExecutionPlan (types.go) makes  *)
(* the tasks of that array pending again without taking their mutexes, and *)
(* gives each execution a result map of its own.                           *)
(*                                                                         *)
(* Tasks have no dependencies and no arguments that fail, there are enough *)
(* workers, and the callers' contexts are never done: what DAGExecutor has *)
(* in detail is kept here as far as executions meet in it.                 *)
(***************************************************************************)
EXTENDS Naturals, FiniteSets

CONSTANTS
    Execs,   \* the executions
    Tasks    \* the ids of the tasks the planner returns for the query

VARIABLES
    cached,    \* the task array the cache holds for the query, if any
    array,     \* the task array an execution's plan is built over, if any
    status,    \* Task.status, of each array
    closed,    \* the tasks of an array whose current ResultChannel is closed
    pc,        \* where GeneratePlan or ExecutePlan of an execution is
    todo,      \* tasks a loop of it still has to visit
    hand,      \* the task it is about to change, or those it found ready
    queue,     \* priorityQueue
    wpc,       \* where its worker for a task is
    results,   \* the keys of its plan.Results
    failing,   \* executions with an error in execErrChan, so cancelled
    outcome,   \* what it returned
    panicked,  \* executions that closed a closed channel
    met        \* history: executions whose array another one used meanwhile

planVars   == <<cached, array, met>>
taskVars   == <<status, closed, panicked>>
mainVars   == <<pc, todo, hand, queue, outcome>>
workerVars == <<wpc, results, failing>>
vars == <<planVars, taskVars, mainVars, workerVars>>

\* An array is named after the execution whose planner run made it.
Arrays   == Execs
Terminal == {"Completed", "Failed", "Cancelled"}
Status   == {"Pending", "Ready", "Running"} \cup Terminal
Pc == {"idle", "lookup", "flow", "set", "reset", "channel", "find", "mark",
       "dispatch", "join", "sweep", "cancel", "check", "done"}

TypeOK ==
    /\ cached \subseteq Arrays /\ Cardinality(cached) \leq 1
    /\ array \in [Execs -> {{}} \cup {{a} : a \in Arrays}]
    /\ status \in [Arrays -> [Tasks -> Status]]
    /\ closed \in [Arrays -> SUBSET Tasks]
    /\ pc \in [Execs -> Pc]
    /\ todo \in [Execs -> SUBSET Tasks]
    /\ hand \in [Execs -> SUBSET Tasks]
    /\ queue \in [Execs -> SUBSET Tasks]
    /\ wpc \in [Execs -> [Tasks -> {"none", "enter", "tool", "store", "complete", "fail", "send"}]]
    /\ results \in [Execs -> SUBSET Tasks]
    /\ failing \subseteq Execs /\ panicked \subseteq Execs /\ met \subseteq Execs
    /\ outcome \in [Execs -> {"none", "noPlan", "ok", "error", "incomplete"}]

Init ==
    /\ cached = {} /\ array = [e \in Execs |-> {}] /\ met = {}
    /\ status = [a \in Arrays |-> [t \in Tasks |-> "Pending"]]
    /\ closed = [a \in Arrays |-> {}] /\ panicked = {}
    /\ pc = [e \in Execs |-> "idle"]
    /\ todo = [e \in Execs |-> {}] /\ hand = [e \in Execs |-> {}]
    /\ queue = [e \in Execs |-> {}]
    /\ outcome = [e \in Execs |-> "none"]
    /\ wpc = [e \in Execs |-> [t \in Tasks |-> "none"]]
    /\ results = [e \in Execs |-> {}] /\ failing = {}

Goto(e, from, to) == pc[e] = from /\ pc' = [pc EXCEPT ![e] = to]

InPlan(e, s) == {t \in Tasks : \E a \in array[e] : status[a][t] \in s}
LastRound(e) == todo[e] = {}

\* t.status of the array of e becomes s, by UpdateStatus unless it is a reset.
SetStatus(e, t, s) ==
    status' = [a \in Arrays |-> IF a \in array[e] THEN [status[a] EXCEPT ![t] = s] ELSE status[a]]

\* Task.UpdateStatus: a terminal status closes the channel the task has now.
UpdateStatus(e, t, s) ==
    /\ SetStatus(e, t, s)
    /\ IF s \notin Terminal THEN UNCHANGED <<closed, panicked>>
       ELSE /\ closed' = [a \in Arrays |-> IF a \in array[e] THEN closed[a] \cup {t} ELSE closed[a]]
            /\ panicked' = IF \E a \in array[e] : t \in closed[a] THEN panicked \cup {e} ELSE panicked

-----------------------------------------------------------------------------
(* GeneratePlan(e) *)

Start(e) == Goto(e, "idle", "lookup") /\ UNCHANGED <<planVars, taskVars, workerVars, todo, hand, queue, outcome>>

\* A hit: the plan is built over the array of the cached plan.
CacheHit(e) ==
    /\ cached # {}
    /\ Goto(e, "lookup", "reset")
    /\ array' = [array EXCEPT ![e] = cached]
    /\ LET users == {u \in Execs \ {e} : array[u] = cached /\ pc[u] # "done"}
       IN  met' = IF users = {} THEN met ELSE met \cup users \cup {e}
    /\ todo' = [todo EXCEPT ![e] = Tasks]
    /\ UNCHANGED <<cached, taskVars, hand, queue, outcome, workerVars>>

CacheMiss(e) ==
    /\ cached = {}
    /\ Goto(e, "lookup", "flow")
    /\ UNCHANGED <<planVars, taskVars, todo, hand, queue, outcome, workerVars>>

\* The planner flow returns a plan with tasks of its own...
FlowReturns(e) ==
    /\ Goto(e, "flow", "set")
    /\ array' = [array EXCEPT ![e] = {e}]
    /\ UNCHANGED <<cached, met, taskVars, todo, hand, queue, outcome, workerVars>>

\* ...or an error, or no tasks.
FlowFails(e) ==
    /\ Goto(e, "flow", "done")
    /\ outcome' = [outcome EXCEPT ![e] = "noPlan"]
    /\ UNCHANGED <<planVars, taskVars, todo, hand, queue, workerVars>>

\* Mutant of CacheSet: the plans of several misses pile up in the cache.
CacheAdd(e) ==
    /\ Goto(e, "set", "reset")
    /\ cached' = cached \cup array[e]
    /\ todo' = [todo EXCEPT ![e] = Tasks]
    /\ UNCHANGED <<array, met, taskVars, hand, queue, outcome, workerVars>>

\* cache.Set, whatever another miss stored meanwhile.
CacheSet(e) ==
    /\ Goto(e, "set", "reset")
    /\ cached' = array[e]
    /\ todo' = [todo EXCEPT ![e] = Tasks]
    /\ UNCHANGED <<array, met, taskVars, hand, queue, outcome, workerVars>>

\* The cache drops the entry.
Expire ==
    /\ cached # {} /\ cached' = {}
    /\ UNCHANGED <<array, met, taskVars, mainVars, workerVars>>

\* Mutant of ResetStatus: a task keeps its status.
StatusKept(e) ==
    /\ Goto(e, "reset", "channel")
    /\ \E t \in todo[e] : hand' = [hand EXCEPT ![e] = {t}]
    /\ UNCHANGED <<planVars, taskVars, todo, queue, outcome, workerVars>>

\* NewExecutionPlan: each task is pending again...
ResetStatus(e) ==
    /\ Goto(e, "reset", "channel")
    /\ \E t \in todo[e] : SetStatus(e, t, "Pending") /\ hand' = [hand EXCEPT ![e] = {t}]
    /\ UNCHANGED <<planVars, closed, panicked, todo, queue, outcome, workerVars>>

\* Mutant of ResetChannel: it keeps its channel.
ChannelKept(e) ==
    /\ Goto(e, "channel", "reset")
    /\ todo' = [todo EXCEPT ![e] = @ \ hand[e]] /\ hand' = [hand EXCEPT ![e] = {}]
    /\ UNCHANGED <<planVars, taskVars, queue, outcome, workerVars>>

\* ...and has a new channel; the result map is new as well.
ResetChannel(e) ==
    /\ Goto(e, "channel", "reset")
    /\ closed' = [a \in Arrays |-> IF a \in array[e] THEN closed[a] \ hand[e] ELSE closed[a]]
    /\ todo' = [todo EXCEPT ![e] = @ \ hand[e]] /\ hand' = [hand EXCEPT ![e] = {}]
    /\ UNCHANGED <<planVars, status, panicked, queue, outcome, workerVars>>

Built(e) ==
    /\ LastRound(e)
    /\ Goto(e, "reset", "find")
    /\ todo' = [todo EXCEPT ![e] = Tasks]
    /\ UNCHANGED <<planVars, taskVars, hand, queue, outcome, workerVars>>

GeneratePlan(e) ==
    \/ Start(e) \/ CacheHit(e) \/ CacheMiss(e) \/ FlowReturns(e) \/ FlowFails(e)
    \/ CacheSet(e) \/ ResetStatus(e) \/ ResetChannel(e) \/ Built(e)

-----------------------------------------------------------------------------
(* ExecutePlan(e) *)

\* Tasks are looked at one by one; those that are pending are ready...
FindReadyTasks(e) ==
    /\ pc[e] = "find"
    /\ \E t \in todo[e] :
         /\ todo' = [todo EXCEPT ![e] = @ \ {t}]
         /\ hand' = [hand EXCEPT ![e] = @ \cup ({t} \cap InPlan(e, {"Pending"}))]
    /\ UNCHANGED <<planVars, taskVars, pc, queue, outcome, workerVars>>

Found(e) ==
    /\ LastRound(e)
    /\ Goto(e, "find", "mark")
    /\ todo' = [todo EXCEPT ![e] = hand[e]] /\ hand' = [hand EXCEPT ![e] = {}]
    /\ UNCHANGED <<planVars, taskVars, queue, outcome, workerVars>>

\* ...and queued.
Enqueue(e) ==
    /\ pc[e] = "mark"
    /\ \E t \in todo[e] : /\ todo' = [todo EXCEPT ![e] = @ \ {t}]
                          /\ queue' = [queue EXCEPT ![e] = @ \cup {t}]
                          /\ UpdateStatus(e, t, "Ready")
    /\ UNCHANGED <<planVars, pc, hand, outcome, workerVars>>

Enqueued(e) ==
    /\ LastRound(e)
    /\ Goto(e, "mark", "dispatch")
    /\ UNCHANGED <<planVars, taskVars, todo, hand, queue, outcome, workerVars>>

\* A task that is no longer ready is passed over.
Dispatch(e) ==
    /\ pc[e] = "dispatch" /\ e \notin failing
    /\ \E t \in queue[e] :
         /\ queue' = [queue EXCEPT ![e] = @ \ {t}]
         /\ wpc' = IF t \in InPlan(e, {"Ready"}) THEN [wpc EXCEPT ![e][t] = "enter"] ELSE wpc
    /\ UNCHANGED <<planVars, taskVars, pc, todo, hand, outcome, results, failing>>

StopDispatch(e) ==
    /\ queue[e] = {} \/ e \in failing
    /\ Goto(e, "dispatch", "join")
    /\ UNCHANGED <<planVars, taskVars, todo, hand, queue, outcome, workerVars>>

Join(e) ==
    /\ \A t \in Tasks : wpc[e][t] = "none"
    /\ Goto(e, "join", IF e \in failing THEN "sweep" ELSE "check")
    /\ todo' = [todo EXCEPT ![e] = Tasks]
    /\ UNCHANGED <<planVars, taskVars, hand, queue, outcome, workerVars>>

\* After an error each task is looked at, and cancelled in a second step. The
\* reads of a status in the condition are taken as one.
Sweep(e) ==
    /\ \E t \in todo[e] :
         /\ todo' = [todo EXCEPT ![e] = @ \ {t}]
         /\ IF t \in InPlan(e, Terminal) THEN pc[e] = "sweep" /\ UNCHANGED <<pc, hand>>
            ELSE Goto(e, "sweep", "cancel") /\ hand' = [hand EXCEPT ![e] = {t}]
    /\ UNCHANGED <<planVars, taskVars, queue, outcome, workerVars>>

CancelTask(e) ==
    /\ Goto(e, "cancel", "sweep")
    /\ \E t \in hand[e] : UpdateStatus(e, t, "Cancelled")
    /\ hand' = [hand EXCEPT ![e] = {}]
    /\ UNCHANGED <<planVars, todo, queue, outcome, workerVars>>

Return(e, from, with) ==
    /\ Goto(e, from, "done")
    /\ outcome' = [outcome EXCEPT ![e] = with]
    /\ UNCHANGED <<planVars, taskVars, todo, hand, queue, workerVars>>

\* Without an error every task is looked at: the result map is returned unless
\* one has not completed.
CheckCompleted(e) ==
    /\ pc[e] = "check"
    /\ \E t \in todo[e] \cap InPlan(e, {"Completed"}) : todo' = [todo EXCEPT ![e] = @ \ {t}]
    /\ UNCHANGED <<planVars, taskVars, pc, hand, queue, outcome, workerVars>>

Conclude(e) ==
    \/ LastRound(e) /\ (Return(e, "sweep", "error") \/ Return(e, "check", "ok"))
    \/ ~(todo[e] \subseteq InPlan(e, {"Completed"})) /\ Return(e, "check", "incomplete")

ExecutePlan(e) ==
    \/ FindReadyTasks(e) \/ Found(e) \/ Enqueue(e) \/ Enqueued(e) \/ Dispatch(e) \/ StopDispatch(e)
    \/ Join(e) \/ Sweep(e) \/ CancelTask(e) \/ CheckCompleted(e) \/ Conclude(e)

-----------------------------------------------------------------------------
(* executeTaskWithCancel(t), on behalf of e *)

WorkerStep(e, t, from, to) == wpc[e][t] = from /\ wpc' = [wpc EXCEPT ![e][t] = to]

\* A worker of an execution that failed cancels its task.
Enter(e, t) ==
    /\ IF e \in failing
         THEN WorkerStep(e, t, "enter", "none") /\ UpdateStatus(e, t, "Cancelled")
         ELSE WorkerStep(e, t, "enter", "tool") /\ UpdateStatus(e, t, "Running")
    /\ UNCHANGED <<planVars, mainVars, results, failing>>

ToolReturns(e, t) ==
    /\ WorkerStep(e, t, "tool", "store") \/ WorkerStep(e, t, "tool", "fail")
    /\ UNCHANGED <<planVars, taskVars, mainVars, results, failing>>

\* Mutant of SetResult: the result is stored elsewhere.
ResultDropped(e, t) ==
    /\ WorkerStep(e, t, "store", "complete")
    /\ UNCHANGED <<planVars, taskVars, mainVars, results, failing>>

\* The result goes into the plan of e.
SetResult(e, t) ==
    /\ WorkerStep(e, t, "store", "complete")
    /\ results' = [results EXCEPT ![e] = @ \cup {t}]
    /\ UNCHANGED <<planVars, taskVars, mainVars, failing>>

MarkCompleted(e, t) ==
    /\ WorkerStep(e, t, "complete", "none")
    /\ UpdateStatus(e, t, "Completed")
    /\ UNCHANGED <<planVars, mainVars, results, failing>>

MarkFailed(e, t) ==
    /\ WorkerStep(e, t, "fail", "send")
    /\ UpdateStatus(e, t, "Failed")
    /\ UNCHANGED <<planVars, mainVars, results, failing>>

\* The error is sent and the context of e cancelled.
SendErr(e, t) ==
    /\ WorkerStep(e, t, "send", "none")
    /\ failing' = failing \cup {e}
    /\ UNCHANGED <<planVars, taskVars, mainVars, results>>

Worker(e, t) ==
    \/ Enter(e, t) \/ ToolReturns(e, t) \/ SetResult(e, t) \/ MarkCompleted(e, t)
    \/ MarkFailed(e, t) \/ SendErr(e, t)

-----------------------------------------------------------------------------
\* A panic kills the process.
Stopped == (panicked # {} \/ \A e \in Execs : pc[e] = "done") /\ UNCHANGED vars

Next ==
    \/ /\ panicked = {}
       /\ \/ \E e \in Execs : GeneratePlan(e) \/ ExecutePlan(e) \/ \E t \in Tasks : Worker(e, t)
          \/ Expire
    \/ Stopped

Spec == Init /\ [][Next]_vars

-----------------------------------------------------------------------------
(* Properties *)

\* An execution closes a channel twice only if it shared its tasks with another
\* one that ran at the same time: to use a cached plan again later is safe.
PanicNeedsOverlap == panicked \subseteq met

\* So is what it returns: an execution that shared its tasks with no other at the
\* time finds all of them to run, and has a result for every one if none failed.
AloneIsComplete ==
    \A e \in Execs \ met :
        /\ outcome[e] = "ok" => results[e] = Tasks
        /\ outcome[e] # "incomplete"

\* However executions overlap, a task that is completed has been run: one of the
\* executions that use the array has its result, though it may not be the one
\* that returns without error.
CompletedWasRun ==
    \A a \in Arrays, t \in Tasks : status[a][t] = "Completed" =>
        \E e \in Execs : array[e] = {a} /\ t \in results[e]
=============================================================================
