------------------------------ MODULE DAGExecutor ------------------------------
(***************************************************************************)
(* DAGExecutor.ExecutePlan of internal/executor/executor.go: one goroutine *)
(* (the caller) scans the plan, pops ready tasks by priority and hands     *)
(* them to a bounded worker pool; each task runs executeTaskWithCancel in  *)
(* a goroutine of the pool.  They share the task statuses, the result map, *)
(* a one-slot error channel and a cancellable context.                     *)
(*                                                                         *)
(* Data (argument values, results, error texts, durations) is abstracted   *)
(* to what the control flow tells apart.  The counters of ExecutorMetrics  *)
(* are left out; what its broken mutex does to the process is kept, as     *)
(* MetricsFatal.                                                           *)
(***************************************************************************)
EXTENDS Integers, FiniteSets

CONSTANTS
    Tasks,        \* the keys of plan.TaskMap
    Ids,          \* every id a task may name, those of no task included
    Plans,        \* the plans ExecutePlan may be given
    MaxWorkers,   \* e.maxWorkers
    MaxRetries,   \* e.maxRetries (any int: WithMaxRetries checks nothing)
    MaxCalls      \* bound: how often the caller executes the same plan

(* The part of a plan that never changes: DependsOn, the required          *)
(* arguments of type dependencyOutput (ids whose result a task reads), the *)
(* tasks with an argument that is computed (expression, merged, unknown    *)
(* type) and may fail to resolve, and the tasks whose tool is registered.  *)
(* Literals never fail, an optional argument is skipped when it does.      *)
PlanType == [dependsOn : [Tasks -> SUBSET Ids],
             reads     : [Tasks -> SUBSET Ids],
             computed  : SUBSET Tasks,
             hasTool   : SUBSET Tasks]

ASSUME TasksAssumption == IsFiniteSet(Tasks) /\ Tasks \subseteq Ids
ASSUME PlansAssumption == Plans \subseteq PlanType
\* the pool panics on fewer than one goroutine
ASSUME BoundsAssumption ==
    MaxWorkers \in Nat \ {0} /\ MaxRetries \in Int /\ MaxCalls \in Nat

VARIABLES
    plan,      \* the immutable part of the plan
    status,    \* Task.status
    closes,    \* how often Task.ResultChannel was closed (twice panics)
    results,   \* the keys of plan.Results
    phase,     \* where ExecutePlan is
    queue,     \* priorityQueue
    held,      \* the task popped and not yet accepted by a worker
    pc,        \* where executeTaskWithCancel(task) is
    toRead,    \* arguments of the task that are still to be resolved
    attempt,   \* retryAttempt
    failure,   \* err / toolErr of the task
    errChan,   \* execErrChan, which holds one error
    ctx,       \* gctx: live, or who cancelled it first
    panicked,  \* the pool caught a panic of a tool
    proc,      \* the process: up, or dead by a fatal error or a panic
    outcome,   \* what the last ExecutePlan returned
    calls      \* calls of ExecutePlan so far

planVars   == <<plan, calls>>
taskVars   == <<status, closes, results>>
mainVars   == <<phase, queue, held, outcome>>
workerVars == <<pc, toRead, attempt, failure>>
sharedVars == <<errChan, ctx, panicked, proc>>
vars == <<planVars, taskVars, mainVars, workerVars, sharedVars>>

Status   == {"Pending", "Ready", "Running", "Completed", "Failed", "Cancelled"}
Terminal == {"Completed", "Failed", "Cancelled"}

\* Why a task fails. "interrupted" is the context's own error; "lost" is the
\* internal error "failed to find result map for completed task".
Cause == {"noTool", "badArgument", "lost", "toolError", "interrupted", "nilResult"}

Phase == {"idle", "reset", "scan", "dispatch", "offer", "join", "conclude"}
Pc == {"idle", "enter", "begin", "args", "fetch", "loop", "tool", "backoff",
       "fail", "send", "cancel", "store", "complete", "leave", "done"}

TypeOK ==
    /\ plan \in PlanType
    /\ status \in [Tasks -> Status]
    /\ closes \in [Tasks -> Nat]
    /\ results \subseteq Tasks
    /\ phase \in Phase
    /\ queue \subseteq Tasks
    /\ held \subseteq Tasks
    /\ pc \in [Tasks -> Pc]
    /\ toRead \in [Tasks -> SUBSET Ids]
    /\ attempt \in [Tasks -> Nat]
    /\ failure \in [Tasks -> Cause \cup {"none"}]
    /\ errChan \in Cause \cup {"none"}
    /\ ctx \in {"live", "self", "parent"}
    /\ panicked \in BOOLEAN
    /\ proc \in {"up", "fatal", "panic"}
    /\ outcome \in {"none", "ok", "error", "incomplete"}
    /\ calls \in 0..MaxCalls

\* NewExecutionPlan: every task pending, no results.
Init ==
    /\ plan \in Plans
    /\ status = [t \in Tasks |-> "Pending"]
    /\ closes = [t \in Tasks |-> 0]
    /\ results = {}
    /\ phase = "idle" /\ queue = {} /\ held = {} /\ outcome = "none"
    /\ pc = [t \in Tasks |-> "idle"]
    /\ toRead = [t \in Tasks |-> {}]
    /\ attempt = [t \in Tasks |-> 0]
    /\ failure = [t \in Tasks |-> "none"]
    /\ errChan = "none" /\ ctx = "live" /\ panicked = FALSE
    /\ proc = "up" /\ calls = 0

-----------------------------------------------------------------------------
(* Task.UpdateStatus *)

\* Task.UpdateStatus(s) of the tasks ts: a terminal status also closes the
\* result channel, whatever the old status was.
UpdateStatus(ts, s) ==
    /\ status' = [t \in Tasks |-> IF t \in ts THEN s ELSE status[t]]
    /\ closes' = [t \in Tasks |->
                    IF t \in ts /\ s \in Terminal THEN closes[t] + 1 ELSE closes[t]]

(* findReadyTasks and calculatePriority *)

\* Mutant: a dependency that ended in any way counts as met.
EndedIsEnough ==
    {t \in Tasks : /\ status[t] = "Pending"
                   /\ \A d \in plan.dependsOn[t] : d \in Tasks /\ status[d] \in Terminal}

\* Mutant: dependencies are not looked at.
AllPending == {t \in Tasks : status[t] = "Pending"}

\* Pending tasks whose dependencies all exist and are completed.
FindReadyTasks ==
    {t \in Tasks : /\ status[t] = "Pending"
                   /\ \A d \in plan.dependsOn[t] : d \in Tasks /\ status[d] = "Completed"}

\* HavePath[n]: the tasks from which n edges lead towards dependents.
HavePath ==
    LET have[n \in 0..Cardinality(Tasks)] ==
          IF n = 0 THEN Tasks
          ELSE {t \in Tasks : \E d \in have[n - 1] : t \in plan.dependsOn[d]}
    IN have

\* calculatePriority fails iff its search from t runs into a cycle: a path
\* with as many edges as there are tasks repeats one of them.
OnCycle(t) == t \in HavePath[Cardinality(Tasks)]

\* t is at least as urgent as u: its longest path to a leaf is no shorter.
AsUrgent(t, u) ==
    \A n \in 0..Cardinality(Tasks) : u \in HavePath[n] => t \in HavePath[n]

Active == {t \in Tasks : pc[t] \notin {"idle", "done"}}

-----------------------------------------------------------------------------
(* The goroutine that calls ExecutePlan *)

\* The caller executes the plan, with a context of its own, from whatever an
\* earlier call left in the tasks; all else is local to the call.
Call ==
    /\ phase = "idle" /\ calls < MaxCalls
    /\ calls' = calls + 1
    /\ phase' = "reset" /\ queue' = {} /\ held' = {} /\ outcome' = "none"
    /\ pc' = [t \in Tasks |-> "idle"]
    /\ toRead' = [t \in Tasks |-> {}]
    /\ attempt' = [t \in Tasks |-> 0]
    /\ failure' = [t \in Tasks |-> "none"]
    /\ errChan' = "none" /\ ctx' = "live" /\ panicked' = FALSE
    /\ UNCHANGED <<plan, taskVars, proc>>

\* resetMetrics returns: it overwrites the mutex it holds, so this takes
\* another goroutine that locked it in between (otherwise: MetricsFatal).
\* It may also wait for the mutex for ever, as Leave (WaitsForMetrics).
ResetMetrics ==
    /\ phase = "reset"
    /\ phase' = "scan"
    /\ UNCHANGED <<planVars, taskVars, queue, held, outcome, workerVars, sharedVars>>

\* Queue the ready tasks; one with no priority is passed over, still pending.
Scan ==
    /\ phase = "scan"
    /\ queue' = {t \in FindReadyTasks : ~OnCycle(t)}
    /\ UpdateStatus(queue', "Ready")
    /\ phase' = "dispatch"
    /\ UNCHANGED <<planVars, results, held, outcome, workerVars, sharedVars>>

\* The loop over the queue: leave it when it is empty or the context is done.
StopDispatch ==
    /\ phase = "dispatch"
    /\ queue = {} \/ ctx # "live"
    /\ phase' = "join"
    /\ UNCHANGED <<planVars, taskVars, queue, held, outcome, workerVars, sharedVars>>

\* Pop a most urgent task, and skip it unless it is still ready.
Pop ==
    /\ phase = "dispatch" /\ ctx = "live"
    /\ \E t \in queue :
         /\ \A u \in queue : AsUrgent(t, u)
         /\ queue' = queue \ {t}
         /\ IF status[t] = "Ready"
              THEN phase' = "offer" /\ held' = {t}
              ELSE UNCHANGED <<phase, held>>
    /\ UNCHANGED <<planVars, taskVars, outcome, workerVars, sharedVars>>

\* Mutant: an unbounded pool.
OfferUnbounded ==
    /\ phase = "offer"
    /\ pc' = [t \in Tasks |-> IF t \in held THEN "enter" ELSE pc[t]]
    /\ held' = {} /\ phase' = "dispatch"
    /\ UNCHANGED <<planVars, taskVars, queue, outcome, toRead, attempt, failure, sharedVars>>

\* workerPool.Go blocks until one of the workers can take the task.
Offer ==
    /\ phase = "offer" /\ Cardinality(Active) < MaxWorkers
    /\ pc' = [t \in Tasks |-> IF t \in held THEN "enter" ELSE pc[t]]
    /\ held' = {} /\ phase' = "dispatch"
    /\ UNCHANGED <<planVars, taskVars, queue, outcome, toRead, attempt, failure, sharedVars>>

\* Mutant: no Wait.
JoinEarly ==
    /\ phase = "join" /\ phase' = "conclude"
    /\ UNCHANGED <<planVars, taskVars, queue, held, outcome, workerVars, sharedVars>>

\* workerPool.Wait: a panic the pool caught is raised again here.
Join ==
    /\ phase = "join" /\ Active = {}
    /\ IF panicked THEN proc' = "panic" /\ UNCHANGED phase
                   ELSE phase' = "conclude" /\ UNCHANGED proc
    /\ UNCHANGED <<planVars, taskVars, queue, held, outcome, workerVars,
                   errChan, ctx, panicked>>

\* Mutants: the sweep takes every task; the sweep forgets ready tasks.
SweepAll ==
    /\ phase = "conclude" /\ errChan # "none"
    /\ UpdateStatus(Tasks, "Cancelled")
    /\ phase' = "idle" /\ outcome' = "error"
    /\ UNCHANGED <<planVars, results, queue, held, workerVars, sharedVars>>
SweepForgetsReady ==
    /\ phase = "conclude" /\ errChan # "none"
    /\ UpdateStatus({t \in Tasks : status[t] \in {"Pending", "Running"}}, "Cancelled")
    /\ phase' = "idle" /\ outcome' = "error"
    /\ UNCHANGED <<planVars, results, queue, held, workerVars, sharedVars>>

\* An error was sent: cancel what has not ended, return the error.
ReturnError ==
    /\ phase = "conclude" /\ errChan # "none"
    /\ UpdateStatus({t \in Tasks : status[t] \notin Terminal}, "Cancelled")
    /\ phase' = "idle" /\ outcome' = "error"
    /\ UNCHANGED <<planVars, results, queue, held, workerVars, sharedVars>>

\* No error was sent: the result map if every task completed, else an error
\* that names a task which did not.
ReturnPlain ==
    /\ phase = "conclude" /\ errChan = "none"
    /\ phase' = "idle"
    /\ outcome' = IF \A t \in Tasks : status[t] = "Completed" THEN "ok" ELSE "incomplete"
    /\ UNCHANGED <<planVars, taskVars, queue, held, workerVars, sharedVars>>

Main == Call \/ ResetMetrics \/ Scan \/ StopDispatch \/ Pop \/ Offer \/ Join
             \/ ReturnError \/ ReturnPlain

-----------------------------------------------------------------------------
(* executeTaskWithCancel(t), in a goroutine of the pool *)

Goto(t, from, to) == pc[t] = from /\ pc' = [pc EXCEPT ![t] = to]

Fail(t, from, cause) ==
    /\ Goto(t, from, "fail")
    /\ failure' = [failure EXCEPT ![t] = cause]

\* Both checks at the start: a task of a cancelled plan is not begun.
Skip(t) ==
    /\ ctx # "live"
    /\ Goto(t, "enter", "leave")
    /\ UpdateStatus({t}, "Cancelled")
    /\ UNCHANGED <<planVars, results, mainVars, toRead, attempt, failure, sharedVars>>

Enter(t) ==
    /\ ctx = "live"
    /\ Goto(t, "enter", "begin")
    /\ UNCHANGED <<planVars, taskVars, mainVars, toRead, attempt, failure, sharedVars>>

\* Running; then the tool is looked up and the arguments' turn comes.
Begin(t) ==
    /\ UpdateStatus({t}, "Running")
    /\ IF t \in plan.hasTool
         THEN /\ Goto(t, "begin", "args")
              /\ toRead' = [toRead EXCEPT ![t] = plan.reads[t]]
              /\ UNCHANGED failure
         ELSE /\ Fail(t, "begin", "noTool")
              /\ UNCHANGED toRead
    /\ UNCHANGED <<planVars, results, mainVars, attempt, sharedVars>>

\* resolveDependencyOutput, first half: only a completed task is read.
CheckArgument(t) ==
    /\ \E d \in toRead[t] :
         IF d \in Tasks /\ status[d] = "Completed"
           THEN Goto(t, "args", "fetch") /\ UNCHANGED failure
           ELSE Fail(t, "args", "badArgument")
    /\ UNCHANGED <<planVars, taskVars, mainVars, toRead, attempt, sharedVars>>

\* resolveDependencyOutput, second half: its result is fetched from the plan,
\* and may not have the field or the index the argument names. The id is one
\* whose check passed; a completed task stays completed.
FetchArgument(t) ==
    /\ \E d \in toRead[t] :
         /\ d \in Tasks /\ status[d] = "Completed"
         /\ \/ /\ d \in results
               /\ Goto(t, "fetch", "args")
               /\ toRead' = [toRead EXCEPT ![t] = @ \ {d}]
               /\ UNCHANGED failure
            \/ /\ Fail(t, "fetch", IF d \in results THEN "badArgument" ELSE "lost")
               /\ UNCHANGED toRead
    /\ UNCHANGED <<planVars, taskVars, mainVars, attempt, sharedVars>>

\* A computed argument fails to resolve.
ArgumentFails(t) ==
    /\ t \in plan.computed
    /\ Fail(t, "args", "badArgument")
    /\ UNCHANGED <<planVars, taskVars, mainVars, toRead, attempt, sharedVars>>

ArgumentsResolved(t) ==
    /\ toRead[t] = {}
    /\ Goto(t, "args", "loop")
    /\ UNCHANGED <<planVars, taskVars, mainVars, toRead, attempt, failure, sharedVars>>

\* The head of the retry loop. With a negative maxRetries the tool is never
\* called and the nil result ends the task.
TryTool(t) ==
    /\ IF attempt[t] > MaxRetries THEN Fail(t, "loop", "nilResult")
       ELSE IF ctx # "live"       THEN Fail(t, "loop", "interrupted")
       ELSE Goto(t, "loop", "tool") /\ UNCHANGED failure
    /\ UNCHANGED <<planVars, taskVars, mainVars, toRead, attempt, sharedVars>>

ToolSucceeds(t) ==
    /\ Goto(t, "tool", "store")
    /\ failure' = [failure EXCEPT ![t] = "none"]
    /\ UNCHANGED <<planVars, taskVars, mainVars, toRead, attempt, sharedVars>>

ToolReturnsNil(t) ==
    /\ Fail(t, "tool", "nilResult")
    /\ UNCHANGED <<planVars, taskVars, mainVars, toRead, attempt, sharedVars>>

\* The tool reports the context's error: no retry.
ToolInterrupted(t) ==
    /\ ctx # "live"
    /\ Fail(t, "tool", "interrupted")
    /\ UNCHANGED <<planVars, taskVars, mainVars, toRead, attempt, sharedVars>>

\* Any other error, a timeout of the attempt included: retried up to MaxRetries.
ToolFails(t) ==
    /\ Goto(t, "tool", IF attempt[t] + 1 > MaxRetries THEN "fail" ELSE "backoff")
    /\ failure' = [failure EXCEPT ![t] = "toolError"]
    /\ attempt' = [attempt EXCEPT ![t] = @ + 1]
    /\ UNCHANGED <<planVars, taskVars, mainVars, toRead, sharedVars>>

\* The tool panics: the deferred calls run, the pool keeps the panic for Join,
\* and the task stays as it is.
ToolPanics(t) ==
    /\ Goto(t, "tool", "leave")
    /\ panicked' = TRUE
    /\ UNCHANGED <<planVars, taskVars, mainVars, toRead, attempt, failure,
                   errChan, ctx, proc>>

\* The wait before a retry ends because the context is done.
BackoffInterrupted(t) ==
    /\ ctx # "live"
    /\ Fail(t, "backoff", "interrupted")
    /\ UNCHANGED <<planVars, taskVars, mainVars, toRead, attempt, sharedVars>>

\* It ends because retryDelay passed; a context done by now keeps the last error.
BackoffElapsed(t) ==
    /\ Goto(t, "backoff", IF ctx = "live" THEN "loop" ELSE "fail")
    /\ UNCHANGED <<planVars, taskVars, mainVars, toRead, attempt, failure, sharedVars>>

\* Mutant: a path that marks the failure and returns without sendErr.
MarkFailedOnly(t) ==
    /\ Goto(t, "fail", "leave")
    /\ UpdateStatus({t}, "Failed")
    /\ UNCHANGED <<planVars, results, mainVars, toRead, attempt, failure, sharedVars>>

MarkFailed(t) ==
    /\ Goto(t, "fail", "send")
    /\ UpdateStatus({t}, "Failed")
    /\ UNCHANGED <<planVars, results, mainVars, toRead, attempt, failure, sharedVars>>

\* Mutants: the last error wins; the send has no default branch.
SendLast(t) ==
    /\ Goto(t, "send", "cancel") /\ errChan' = failure[t]
    /\ UNCHANGED <<planVars, taskVars, mainVars, toRead, attempt, failure,
                   ctx, panicked, proc>>
SendBlocking(t) ==
    /\ errChan = "none"
    /\ Goto(t, "send", "cancel") /\ errChan' = failure[t]
    /\ UNCHANGED <<planVars, taskVars, mainVars, toRead, attempt, failure,
                   ctx, panicked, proc>>

\* sendErr: only the first error fits, and only its sender cancels the plan.
SendErr(t) ==
    /\ IF errChan = "none"
         THEN Goto(t, "send", "cancel") /\ errChan' = failure[t]
         ELSE Goto(t, "send", "leave") /\ UNCHANGED errChan
    /\ UNCHANGED <<planVars, taskVars, mainVars, toRead, attempt, failure,
                   ctx, panicked, proc>>

Cancel(t) ==
    /\ Goto(t, "cancel", "leave")
    /\ ctx' = IF ctx = "live" THEN "self" ELSE ctx
    /\ UNCHANGED <<planVars, taskVars, mainVars, toRead, attempt, failure,
                   errChan, panicked, proc>>

\* Mutant: completed first.
CompleteFirst(t) ==
    /\ Goto(t, "store", "complete")
    /\ UpdateStatus({t}, "Completed")
    /\ UNCHANGED <<planVars, results, mainVars, toRead, attempt, failure, sharedVars>>

\* plan.SetResult, and only then the completed status.
SetResult(t) ==
    /\ Goto(t, "store", "complete")
    /\ results' = results \cup {t}
    /\ UNCHANGED <<planVars, status, closes, mainVars, toRead, attempt, failure, sharedVars>>

\* Mutant: a status that is none of the constants.
MarkMisspelt(t) ==
    /\ Goto(t, "complete", "leave")
    /\ UpdateStatus({t}, "complete")
    /\ UNCHANGED <<planVars, results, mainVars, toRead, attempt, failure, sharedVars>>

MarkCompleted(t) ==
    /\ Goto(t, "complete", "leave")
    /\ UpdateStatus({t}, "Completed")
    /\ UNCHANGED <<planVars, results, mainVars, toRead, attempt, failure, sharedVars>>

\* The deferred calls (nobody reads completionChan); the worker is free again.
\* updateTaskMetrics may wait for its mutex for ever (WaitsForMetrics).
Leave(t) ==
    /\ Goto(t, "leave", "done")
    /\ UNCHANGED <<planVars, taskVars, mainVars, toRead, attempt, failure, sharedVars>>

Resolve(t) == CheckArgument(t) \/ FetchArgument(t) \/ ArgumentFails(t) \/ ArgumentsResolved(t)
ToolReturns(t) == ToolSucceeds(t) \/ ToolReturnsNil(t) \/ ToolInterrupted(t)
                     \/ ToolFails(t) \/ ToolPanics(t)

Worker(t) ==
    \/ Skip(t) \/ Enter(t) \/ Begin(t) \/ Resolve(t)
    \/ TryTool(t) \/ ToolReturns(t) \/ BackoffInterrupted(t) \/ BackoffElapsed(t)
    \/ MarkFailed(t) \/ SendErr(t) \/ Cancel(t)
    \/ SetResult(t) \/ MarkCompleted(t) \/ Leave(t)

-----------------------------------------------------------------------------
(* The environment, and the specification *)

\* The caller's context is cancelled or its deadline passes.
ParentDone ==
    /\ phase # "idle" /\ ctx = "live"
    /\ ctx' = "parent"
    /\ UNCHANGED <<planVars, taskVars, mainVars, workerVars, errChan, panicked, proc>>

\* A mutex that resetMetrics overwrote is unlocked once too often: by
\* resetMetrics itself, or later by whoever lost the lock to it.
MetricsFatal ==
    /\ calls > 0
    /\ proc' = "fatal"
    /\ UNCHANGED <<planVars, taskVars, mainVars, workerVars, errChan, ctx, panicked>>

\* The process is dead, or the caller is through.
Stopped ==
    /\ proc # "up" \/ (phase = "idle" /\ calls = MaxCalls)
    /\ UNCHANGED vars

Next ==
    \/ proc = "up" /\ (Main \/ (\E t \in Tasks : Worker(t)) \/ ParentDone \/ MetricsFatal)
    \/ Stopped

\* Where the mutex of the metrics is locked. A GetMetrics that locked it twice
\* never unlocks it (ExecutorMetrics), and whoever comes later waits for ever.
WaitsForMetrics == phase = "reset" \/ \E t \in Tasks : pc[t] = "leave"

\* Go's scheduler is fair, and a tool returns: it is called with a context
\* that expires after execTimeout. The metrics' mutex need not be fair to anyone.
Fairness ==
    /\ WF_vars(proc = "up" /\ Main /\ phase \notin {"idle", "reset"})
    /\ \A t \in Tasks : WF_vars(proc = "up" /\ Worker(t) /\ pc[t] # "leave")

Spec == Init /\ [][Next]_vars
FairSpec == Spec /\ Fairness

-----------------------------------------------------------------------------
(* Properties *)

\* No task's ResultChannel is closed twice, by a worker and the final sweep
\* or by two workers: UpdateStatus would panic.
ClosedOnce == \A t \in Tasks : closes[t] \leq 1

\* A task that was ever queued had all its dependencies completed, and they
\* stay so, through cancellation and repeated calls.
DependenciesFirst ==
    \A t \in Tasks : status[t] \in {"Ready", "Running", "Completed", "Failed"} =>
        \A d \in plan.dependsOn[t] : d \in Tasks /\ status[d] = "Completed"

\* Whoever sees a task completed finds its result: the internal error "failed
\* to find result map for completed task" never happens.
ResultsPublished ==
    \A t \in Tasks : /\ status[t] = "Completed" => t \in results
                     /\ failure[t] # "lost"

\* The error ExecutePlan returns is a cause, not an effect: it is an
\* interruption only if the caller's own context was done first.
RootCause == errChan = "interrupted" => ctx = "parent"

\* When the workers are joined, a task that failed in this call has an error
\* in the channel: no failure is returned as a mere "not all completed".
FailureReported ==
    phase = "conclude" =>
        \A t \in Tasks : pc[t] = "done" /\ status[t] = "Failed" => errChan # "none"

\* At most MaxWorkers tasks run, and none outlives the call.
WorkersBounded ==
    /\ Cardinality(Active) \leq MaxWorkers
    /\ phase \in {"idle", "conclude"} => Active = {}

\* After an error return every task has ended: nothing waits for a worker,
\* a dependency or a tool that will never come.
CleanErrorReturn == outcome = "error" => \A t \in Tasks : status[t] \in Terminal

\* No later call, sweep or worker changes how a task ended.
TerminalIsFinal ==
    [][\A t \in Tasks : status[t] \in Terminal => status'[t] = status[t]]_vars

\* ExecutePlan returns unless the process dies or the metrics' mutex is not to
\* be had any more: neither the pool, nor the error channel, nor a retry, nor a
\* cancelled context makes it wait for ever.
Termination ==
    (phase # "idle") ~> (phase = "idle" \/ proc # "up" \/ []WaitsForMetrics)

\* The executor moves the tasks as TaskLifecycle allows.
Lifecycle == INSTANCE TaskLifecycle WITH dependsOn <- plan.dependsOn
LifecycleSpec == Lifecycle!Spec

\* What the README says ("Tools are executed according to the plan in a
\* DAG"): if nothing failed or was cancelled and the plan is a DAG of its own
\* tasks, ExecutePlan does not give up with tasks that were never started.
RunsWholeDAG ==
    outcome = "incomplete" =>
        \/ ctx = "parent"
        \/ \E t \in Tasks : \/ status[t] \in {"Failed", "Cancelled"}
                            \/ OnCycle(t) \/ ~(plan.dependsOn[t] \subseteq Tasks)

-----------------------------------------------------------------------------
(* The inductive invariant: what ties the shared state to the place where  *)
(* each goroutine is.                                                      *)

\* The status of a task follows from where its worker is. Only a tool that
\* panicked leaves a running task behind.
StatusFollowsPc == \A t \in Tasks :
    /\ pc[t] = "idle" => status[t] # "Running"
    /\ pc[t] \in {"enter", "begin"} => status[t] = "Ready"
    /\ pc[t] \in {"args", "fetch", "loop", "tool", "backoff", "fail", "store", "complete"}
         => status[t] = "Running"
    /\ pc[t] \in {"send", "cancel"} => status[t] = "Failed"
    /\ pc[t] \in {"leave", "done"} =>
         status[t] \in Terminal \/ (panicked /\ status[t] = "Running")

\* What waits for a worker is ready and in no worker's hands.
QueueWaits ==
    /\ phase \in {"dispatch", "offer"} =>
         \A t \in queue \cup held : status[t] = "Ready" /\ pc[t] = "idle"
    /\ phase = "offer" => \E t \in Tasks : held = {t} /\ t \notin queue
    /\ phase # "offer" => held = {}

\* Outside the loop and its Wait no worker is at work.
Joined ==
    /\ phase \in {"idle", "reset", "scan", "conclude"} => Active = {}
    /\ phase \in {"reset", "scan"} => \A t \in Tasks : pc[t] = "idle"
    /\ phase \in {"idle", "conclude"} => ~panicked

ClosedIffEnded == \A t \in Tasks : closes[t] = IF status[t] \in Terminal THEN 1 ELSE 0

ResultsFollowPc ==
    /\ \A t \in Tasks : t \in results <=> status[t] = "Completed" \/ pc[t] = "complete"
    /\ \A t \in Tasks : failure[t] # "lost"

\* The error channel is filled before the context is cancelled, by a task that
\* failed, and only a done context interrupts a task.
ErrorBeforeCancel ==
    /\ ctx = "self" => errChan # "none"
    /\ errChan # "none" => \E t \in Tasks : status[t] = "Failed"
    /\ RootCause
    /\ \A t \in Tasks :
         /\ pc[t] = "cancel" => errChan # "none"
         /\ pc[t] = "backoff" => failure[t] = "toolError"
         /\ pc[t] \in {"fail", "send"} =>
              failure[t] # "none" /\ (failure[t] = "interrupted" => ctx # "live")
         /\ pc[t] \in {"leave", "done"} /\ status[t] = "Failed" => errChan # "none"

ErrorReturned ==
    outcome = "error" => phase = "idle" /\ \A t \in Tasks : status[t] \in Terminal

IInv ==
    /\ TypeOK
    /\ StatusFollowsPc
    /\ QueueWaits
    /\ Joined
    /\ ClosedIffEnded
    /\ ResultsFollowPc
    /\ DependenciesFirst
    /\ ErrorBeforeCancel
    /\ ErrorReturned
=============================================================================
