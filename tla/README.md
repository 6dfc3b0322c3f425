# DragonScale GenKit in TLA+

DragonScale is a Go library that runs an agent workflow: a planner turns a query
into a DAG of tool calls, an executor runs the DAG, a solver writes the answer. This
directory holds TLA+ models of its concurrent core, TLC configurations that check them
on small instances, and TLAPS proofs. Paths below are relative to the
repository root, and `PROJECT.json` maps every definition to the lines it models.

- [1. The system](#1-the-system)
- [2. The modules](#2-the-modules)
- [3. The runs](#3-the-runs)
- [4. Fairness](#4-fairness)
- [5. The proofs](#5-the-proofs)
- [6. Where code and documentation disagree](#6-where-code-and-documentation-disagree)
- [7. Other observations](#7-other-observations)
- [8. What is not modelled](#8-what-is-not-modelled)
- [9. The plan](#9-the-plan)

## 1. The system

```
 ProcessAsync / CancelAsyncProcess / GetAsyncResult / Cleanup...     (dragonscale.go, async_utils.go)
        |  asyncExecutions, asyncExecutionsMutex
        v
 StateMachine.Execute, one goroutine per execution                   (process_state.go)
        |  transitions: plan -> execute -> [retrieve] -> synthesize  (dragon_transitions.go)
        |-- Planner adapter (plan cache) ----> ExecutionPlan         (internal/adapters, types.go)
        |-- DAGExecutor.ExecutePlan ---------> pool of task goroutines (internal/executor)
        |-- Retriever, Solver adapters
        `-- EventBus.Publish ----------------> bounded channel -> workers -> handlers (internal/eventbus)
```

| Component | State | Operations | What is hard | What makes it correct |
|---|---|---|---|---|
| **DAG executor** `internal/executor/executor.go`, `priority_queu.go` | priority queue, worker pool, one-slot error channel, cancellable context, all local to one call | `ExecutePlan`, `executeTaskWithCancel`, `findReadyTasks`, `calculatePriority`, `resolveArguments` | task goroutines race with the dispatcher, with each other's failures and with the caller's cancellation; retries race the context; a plan may be executed again | dependencies first; no channel closed twice; the error returned is the cause; pool bound; the call returns; everything ended after an error |
| **Task, plan** `types.go` | per task: status, result, error, `ResultChannel`, its lock; per plan: result map | `UpdateStatus`, `GetStatus`, `SetResult`, `GetResult`, `NewExecutionPlan` | status and result are two writes under two locks; a terminal status closes a channel | terminal statuses are final; whoever sees `completed` finds a result |
| **Executor metrics** `internal/executor/metrics.go` | counters and a mutex, per executor, shared by calls | `resetMetrics`, `updateTaskMetrics`, `GetMetrics`, `Copy` | the mutex is overwritten while held and locked twice | no caller dies or blocks (they do; what holds is how) |
| **State machine** `process_state.go`, `dragon_transitions.go` | `ProcessContext`: current state, last error, answer, times, history | `Execute`, `SetError`, `SetCancelled`, `PushState`, the transition functions | its context is written by the API at the same time, and only the API locks | terminal states are respected; a failed stage never ends in `complete` |
| **Asynchronous executions** `dragonscale.go`, `async_utils.go` | map of contexts, its `RWMutex` | `ProcessAsync`, `CancelAsyncProcess`, `GetAsyncStatus`, `GetAsyncResult`, `ListAsyncExecutions`, `CleanupCompletedExecutions` | cancellation, timeout, completion, polling and cleanup in any order | a cancelled execution gives no answer; an answer given stays; each execution ends |
| **Event bus** `internal/eventbus` | subscriber maps, bounded channel, `done`, `closed`, workers | `Publish`, `Subscribe`, `SubscribeAll`, `Unsubscribe`, `Close`, workers with retries | publish against close, full buffer, retries against cancellation, shutdown | one worker per event; bounded retries; publishers and `Close` return, handlers that call back included |
| **Caches** `internal/cache` | map with expirations, lock, cleanup ticker, file | `Get`, `Set`, `Delete`, `Clear`, cleanup, load and save | expired items against cleanup; the file after a crash; lock order | an expired item is never returned; what was stored is found after a restart |
| **Planner adapter** `internal/adapters/planner_adapter.go` | a `sync.Map` of plans by query | `GeneratePlan` | cached plans share their `Task` structs | executions do not disturb each other |
| **DAG files** `internal/executor/dagfile.go` | none | decode, `Validate`, `ToExecutionPlan` | cycle detection | accepts exactly the DAGs |
| **Expressions** `internal/executor/expression.go` | a function registry (plain map) | register, evaluate | registration during evaluation | as the library |
| **Tool, solver, retriever adapters**, `internal/tools`, `internal/prompt`, `errors.go`, options | none or write-once fields | wrappers | none of their own | - |

How they interact: `ProcessAsync` registers a `ProcessContext` and starts a goroutine
that runs the state machine on it. A stage calls the planner, the executor, the
retriever or the solver and publishes events. The executor's calls share the metrics of
their executor, and the tasks of a plan that the planner adapter took from its cache. The API functions reach the context through the map and its
mutex, and the cancel function they find in the context ends the asynchronous
context. The event bus calls handlers in its own workers; handlers may call the API, whose mutex
`CancelAsyncProcess` holds while it publishes, or publish themselves.

## 2. The modules

| Module | Models | Kind |
|---|---|---|
| `DAGExecutor` | executor, tasks, plan | detailed specification |
| `TaskLifecycle` | what a plan promises about its tasks | abstract specification, implemented by `DAGExecutor` |
| `DAGExecutor_proofs` | - | theorems about `DAGExecutor` |
| `MCDAGExecutor` | six plans of three tasks | instance for TLC |
| `AsyncProcess` | asynchronous API and state machine | detailed specification |
| `EventBus`, `MCEventBus` | event bus; two handlers for it | detailed specification, instance |
| `AsyncEvents`, `MCAsyncEvents` | `EventBus` with the API's mutex and with handlers that call the API and the bus | composition (extends `EventBus`), instance |
| `SharedPlan` | planner adapter with its cache, and executions over shared tasks | detailed specification |
| `ExecutorMetrics` | the metrics' mutex and its users | detailed specification |
| `DAGFile`, `MCDAGFile` | validation of DAG files, and the executor's priorities over the same graphs | two searches, call by call; instance |
| `AsyncProcess_proofs`, `EventBus_proofs`, `AsyncEvents_proofs`, `SharedPlan_proofs`, `ExecutorMetrics_proofs`, `DAGFile_proofs` | - | theorems about the module of that name |

In all of them a step is one access to something another goroutine can
touch at the same time, or a critical section; what only one goroutine sees is
folded into the step before or after. Operators under a comment "Mutant" are faulty variants of
the definition that follows; they belong to no specification and show that a
property can fail (`PROJECT.json`, "mutants").

### DAGExecutor

The caller is the control state `phase`:

| Action | Code |
|---|---|
| `Call` | entry of `ExecutePlan`: fresh queue, channel, context. Statuses, results and channels of the plan stay as they are, so a second call starts from what the first left |
| `ResetMetrics`, `MetricsFatal` | `resetMetrics` (see ExecutorMetrics). The first continues; the second is the death of the process by unlocking an unlocked mutex, possible from the first call on, because a goroutine may hold the lost lock. It may also wait for the mutex for ever, as `Leave` may, and nothing obliges these two to happen (section 4) |
| `Scan` | `findReadyTasks`, `calculatePriority`, `UpdateStatus(Ready)`, push |
| `StopDispatch`, `Pop`, `Offer` | the loop over the priority queue; `Offer` is `workerPool.Go`, which blocks on a full pool |
| `Join` | `workerPool.Wait`; a panic of a tool is raised again here |
| `ReturnError`, `ReturnPlain` | the end of `ExecutePlan`, with and without an error in `execErrChan` |

A task goroutine is `pc[t]`: `Skip` or `Enter` (context at the start), `Begin`
(running, tool lookup), `CheckArgument`, `FetchArgument`, `ArgumentFails`,
`ArgumentsResolved` (argument resolution; the status check and the read of the
result are two steps, and the second fails if a field or an index is not in it), `TryTool`, `Tool...`, `Backoff...` (the retry loop),
`MarkFailed`, `SendErr`, `Cancel` (failure: status, non-blocking send, cancel, three
steps), `SetResult`, `MarkCompleted` (success: two steps), `Leave` (deferred calls).

A plan is a record of sets: dependencies, ids whose results are read, tasks with
an argument whose evaluation can fail, tasks whose tool exists. It need not be a DAG
nor closed: dependencies on unknown tasks, cycles and reads without a
dependency are plans the code accepts, since nothing validates what a planner
returns. Priorities are path lengths, taken as the sets `HavePath[n]`;
`AsUrgent` compares two tasks by them. Bound: `MaxCalls`, how often a plan is executed.
`MaxRetries` may be any integer, as in the code.

`TaskLifecycle` knows only dependencies, statuses and stored results. It
says when a task may become ready, run, store its result, complete, fail, be dropped or
given up. `LifecycleSpec` is that specification under the obvious mapping.

### AsyncProcess

`caller[e]` is `ProcessAsync` for execution `e`, `pc[e]` the goroutine, `mutex` and `cancelPc` a
`CancelAsyncProcess` in progress: it holds the mutex while it fires the context,
writes `CurrentState`, writes `LastError` and publishes (`CancelPublish`), and the goroutine may take steps between these,
because `Execute` does not lock. The other API functions are one step under the
mutex. The state machine is modelled access by access: the test of the loop head,
the context check, the lookup of the transition, the test after the transition
and the assignment are separate steps, since a cancellation may come between any
two. The assignment and the recording of its time (`process_state.go:234-235`) are one step, because only
cleanup reads times. `Start` records the time of the state `Execute` begins in. `Finish` is the
locked epilogue of the goroutine, `Leave` its completion event and the deferred `cancel`. A stage
succeeds or fails; retrieval and init do not fail.

Of the event bus one bit is kept. `Jam` sets `jammed`: from then on a `Publish` returns only when its
context is done, which is the jam of `AsyncEvents` as seen from here. The stages and the start event publish with contexts that can
be done (`Published`, the caller value `interrupted`), a cancellation and the completion event with a
background context, so that they wait for ever, the cancellation with the mutex in its hands.

That the process dies, by concurrent access to the maps of a `ProcessContext` or by a publisher's panic, is left out.

`stamped` keeps which terminal states have an entry in `StateStartTimes`, which is all that cleanup's age test depends on;
how old an entry is, is a choice.

History variables (`cancelled`, `failed`, `given`) record what callers were told. They are
read by properties only.

### EventBus

Each event is published once by a goroutine of its own (`pubPc`): the unlocked
test of `closed`, then a select between the send and the caller's context. A worker (`wpc`)
receives, tests the context and copies the handlers under the read lock, takes type
handlers before catch-all handlers in any order, and runs the retry loop of
`executeHandler`, where the context may be done between its test and the call.
`Watch` is the goroutine `Publish` starts. `Close` is three steps: mark, signal, and
closing the channel after the workers left. Subscribing is a test and a locked change of
the maps, so a handler may be added after `Close`.

`copied`, `tries`, `succeeded` and `late` are history variables.

### AsyncEvents

`EventBus` has handlers that call nobody. `AsyncEvents` keeps its variables and actions and adds
`mutex`, the event for which `asyncExecutionsMutex` is held. `CancelPublish` takes it and starts a
`Publish` with a background context (no `CallerDone` for such an event), `PublishReturn` releases it when that
`Publish` returns. A handler in `Asking` waits for the mutex (`GetAsyncStatus` takes it for reading), one
with a `FollowUp` publishes that event with the context it was given, and does not return before
(`WaitsForMutex`, `WaitsForSend`). `Jammed` is the state in which the channel is full and all
workers that are left wait in such handlers; it is a self-loop of the specification, because
the system can really stop there.

### SharedPlan

An execution `e` asks the planner adapter for a plan (`CacheHit`, `CacheMiss`, `FlowReturns`,
`FlowFails`, `CacheSet`), has `NewExecutionPlan` reset its tasks (`ResetStatus` and `ResetChannel`, one task after the
other, because another execution may use them) and runs them. `array[e]` is the task array its plan is built
over, named after the planner run that made it; `status` and `closed` (of the current
`ResultChannel`) belong to the array, `results`, the queue and the errors to the
execution. The executor is that of `DAGExecutor` without dependencies, retries, arguments and
cancellation by the caller: tasks are found and queued one by one, dispatched unless no longer
ready, run, and swept or checked. A double close stops the model at once; in the code a worker's panic is caught
by the pool and raised again at `Wait`, when the other workers are done. The status test of the sweep and the update that follows it
are two steps. `Expire` drops the entry. `met` is a history variable.

### ExecutorMetrics

Go's mutex is modelled by its word, since `resetMetrics` assigns over it: a locked bit, which
belongs to nobody, and the number of sleepers the word counts. `Unlock` clears the bit whoever set
it, is fatal if it is clear, and wakes a sleeper if one is counted. `Overwrite` clears
both, so that those asleep are forgotten until somebody else sleeps and is counted. The
goroutines are calls of `ExecutePlan` (`ResetMetrics`, `Return`), their tasks (`EndTask`, `UpdateTaskMetrics`) and readers
(`GetMetrics`, with the second lock in `Copy`). `forged` counts the locks that were overwritten while
set. Go's own check for an inconsistent word, one more way to die, is left out; the properties
allow for death.

### DAGFile

The state is one file on its way to a plan. A step is a call of a searching function or a
return from it, and `path` is the stack of the calls that have not returned:

| Action | Code |
|---|---|
| `CheckIds` | the first two loops of `Validate`: duplicate ids, then unknown dependencies |
| `SearchFrom`, `FollowDependency`, `ReturnFalse` | the third loop, the call `hasCycle` makes for the next dependency, and its return. An id of `visited` that is on `path` is one of the code's `stack`; meeting it makes every call return true |
| `Accept` | the search found nothing: the file becomes a plan (`NewTaskMap`: of two tasks with one id the later one is kept) |
| `ToExecutionPlan` | the same for a file nobody validated |
| `CalculatePriority`, `FollowDependent`, `ReturnLength` | `calculatePriority`, its `dfs` for a dependent, and the return, which caches a length or gives the priority |

Calls that return at once (an id visited before, a length in the cache) are left out. `hasCycle`
takes dependencies in the order of the file; `dfs` takes dependents in any order, since the
code builds that list from a map. The calls of `calculatePriority` are independent and come in the order of the file.
An instance of `DAGExecutor` is there for its definitions `OnCycle` and `AsUrgent`, by which it
replaces `calculatePriority`: `PriorityIsByPaths` says that the replacement is right.

## 3. The runs

| Run | Checks | Instance | States |
|---|---|---|---|
| `exec` | 9 invariants, 3 temporal properties of `DAGExecutor` | 6 plans, 3 tasks, 2 workers, 1 retry, 2 calls | 435 000 |
| `exec_dependents` | expected violation of `RunsWholeDAG` | one plan, 1 call | counterexample |
| `async` | 5 invariants, `RemovedRunsNoStage`, `CleanupIsPatient`, `EveryExecutionEnds` of `AsyncProcess` | 2 executions, with retrieval | 799 000 |
| `async_complete` | expected violation of `CompleteHasNoError` | 1 execution | counterexample |
| `bus_safety` | 4 invariants, `NoCallAfterClose` of `EventBus` | 2 events, 2 workers, 2 handlers, buffer 1, 1 retry | 2 560 000 |
| `bus_liveness` | 4 temporal properties of `AsyncEvents` | 3 events, 1 worker, 1 handler, buffer 1, 1 retry | 25 900 |
| `bus_panic` | expected violation of `PublishNeverPanics` | 2 events, 1 worker, 1 handler | counterexample |
| `shared_plan` | 4 invariants of `SharedPlan` | 2 executions, 2 tasks | 1 500 000 |
| `dag_files` | 4 invariants of `DAGFile` | files of 1 to 4 tasks, up to 2 dependencies each | 533 000 |
| `metrics` | 2 invariants, `ResetIsPaid` of `ExecutorMetrics` | 2 calls with 2 tasks each, 2 readers | 116 000 |
| `metrics_alone` | expected violation of `ExecutePlanReturns` | 1 call, 1 task | counterexample |
| `metrics_get` | expected violation of `GetMetricsReturns` | 1 reader | counterexample |

### exec

- `ClosedOnce`: no `ResultChannel` is closed twice (Go would panic). A task
  is given a terminal status at three places: its goroutine, the start of its
  goroutine when the context is done, the sweep after an error. `workerPool.Wait` and the
  status tests keep them apart, across repeated calls too.
- `DependenciesFirst`: a task that was ever queued has all dependencies completed.
- `ResultsPublished`: completed implies stored, so the internal error "failed to find
  result map for completed task" cannot occur, even for a task that reads a result it
  does not depend on while the other task runs.
- `RootCause`: several tasks fail, one slot keeps one error; it is never the
  interruption that the first failure caused.
- `FailureReported`: a failed task of this call implies an error is returned.
- `WorkersBounded`, `CleanErrorReturn`, `TerminalIsFinal`.
- `LifecycleSpec`: refinement of `TaskLifecycle`.
- `Termination`: the call returns unless the process died, or the caller or a task that ended waits for the metrics'
  mutex for ever (`WaitsForMetrics`, see `metrics_get`). Neither the pool, nor the error channel, a retry or the
  context can keep it: a send that blocks violates the property, the exceptions notwithstanding.
- `IInv`: the inductive invariant of section 5. Those of the other modules were checked on the
  instances of this section too, before they were proved.

Three tasks are enough for the conflicts the code distinguishes: two tasks
running (two workers) and a third waiting for a worker, or for both. The plans are
chosen so that each branch is taken: independent tasks with an argument that may
fail; a task without a tool and a read that races its producer; a join; a chain
plus an unknown dependency; a cycle; tasks of different priority and a read of an unknown
task. Two calls suffice to start from every state a call can leave; one
retry gives a first, a repeated and an exhausted attempt. The theorems of section
5 remove these bounds.

### async

- `AnswerIsSynthesised`: an answer given was produced by synthesis.
- `CancelPrevails`: an execution that `CancelAsyncProcess` reported cancelled
  gives no answer, and one that gave an answer is not reported cancelled. This holds
  although the state may go back from error to a stage, or end as `complete`: in that case
  `LastError` is what stops the answer.
- `FailureIsNotComplete`: no failed stage ends in `complete`.
- `AnswerIsStable`: an answer, once given, is given again until it is cleaned up.
- `RemovedRunsNoStage`: an execution that a cleanup removed, which may be one whose goroutine is
  still busy, begins no further stage, even if the goroutine overwrites the error state by the next one.
- `CleanupIsPatient`: what a cleanup removes has the time recorded that it is judged by, or was cancelled. The
  exception is what the code does: a cancellation leaves no time (section 7).
- `EveryExecutionEnds`: each execution reaches a terminal state and stays there, unless `ExecutePlan` does not
  return (`InExecutePlan`), or the bus is jammed and it waits for room with a context that lives, or for the
  mutex that a cancellation took into the jam (`WaitsForRoom`). Each exception is needed:
  without any one of them TLC finds a counterexample.

Executions share only the map and the mutex: two give every interaction (one holds the mutex
while the other wants it). With retrieval there are all five stages.

### bus_safety, bus_liveness

- `EveryHandlerServed`: when the bus is through with an event whose context
  lived, each copied handler returned nil or failed `MaxRetries + 1` times.
- `NoDuplicateDelivery`: no call after success, no more calls than allowed.
- `OneLateCall`: once the context of an event is done, at most one call begins.
- `NoCallAfterClose`: after `Close` has returned no worker takes a step, in a handler, a retry wait or between two
  handlers; a `Close` that does not wait for them violates it.
- `PublishReturns`, `CloseReturns`: no publisher and no `Close` blocks for ever...
- `AcceptedIsProcessed`: ...an accepted event is seen through unless the bus is closed...
- `MutexIsReleased`: ...and a cancellation gives the API back; each unless the system is `Jammed`
  for good. The jam is reachable, so the exception is needed; that it is the only one is what the
  run shows.

Two events on a buffer of one give a full buffer with a blocked publisher. Two
workers give parallel processing (symmetric, hence symmetry in the safety run only). One
catch-all handler for every event and one for only the first event give order, disjoint
subscriptions and one handler's failure before another's turn.

The instance of `bus_liveness` has one handler of two published events that asks for a status and publishes
the third, and the second is published by a cancellation: while the one worker handles the first
event, the third fills the channel and the second waits for room, which is the jam. With more
workers it takes an event more for each; one worker leaves room for retries in a
graph that the liveness check can handle, and what several workers do to each other is in `bus_safety`.

### shared_plan

- `PanicNeedsOverlap`: a channel is closed twice, which kills the process, only by an execution whose tasks
  another one used before it had returned. Reusing a cached plan later is safe.
- `AloneIsComplete`: an execution that met no other on its tasks finds all of them to run,
  and returns a result for each unless one failed.
- `CompletedWasRun`: however executions overlap, a task that is completed has its result in the map of one that uses the array.

The exceptions are real: TLC finds both the double close and an execution that returns without
error and without a result as soon as two executions overlap (section 7). Two tasks
let one execution be between two resets while the other runs, two executions are two users of an
array, and either may be the one that filled the cache.

### dag_files

- `ValidateIsExact`: accepted are the files with different ids, known dependencies and no cycle, where
  acyclic means that of any tasks there is one that depends on none of them; a file is rejected with the
  cycle error only for a cycle, and with the others only for what they say.
- `ValidatedCanStart`: every task of an accepted file gets a priority, and one has no dependencies.
- `PriorityIsByPaths`: over any plan, accepted or not, once every task has its priority,
  `calculatePriority` has failed exactly for the tasks `OnCycle`, and ordered the others as `AsUrgent` does.
- Deadlock is checked, and `Stopped` allows an end only with a verdict or with all priorities: a
  search is never stuck between two calls.

The searches differ in direction, in what they keep and in when they fail; the graphs of up to
four tasks have diamonds, cycles beside the task asked about, duplicate edges and self-loops.

### metrics, metrics_alone, metrics_get

- `LockDebt`: the Unlocks still to come are as many as locks that are set or were overwritten.
- `ResetIsPaid`: a reset that overwrote its lock ends with a dead process or with a reader that sleeps
  on the mutex and owes an Unlock: nothing else can take up the surplus.

Two calls with two tasks each, and two readers, let a lock be overwritten twice while others
sleep, are woken, or hold it. The two expected violations need no other goroutine: one `ExecutePlan` dies, one
`GetMetrics` sleeps on the lock it holds.

## 4. Fairness

- `DAGExecutor`: weak fairness of the caller inside a call and of each task goroutine.
  Go schedules every runnable goroutine; `Offer` and `Join`, once enabled, stay
  enabled, because only the caller adds to the pool. A tool is assumed to return: it
  gets a context that expires after `execTimeout`, which is never zero. A tool that
  ignores its context is outside the assumption. No fairness is put on the
  steps that lock the metrics' mutex (`ResetMetrics`, `Leave`): after a `GetMetrics` it may be locked for good,
  with the process alive. None either on the caller's cancellation, on a new call, or on which way a tool ends.
- `AsyncProcess`: weak fairness of each execution's path (`ProcessAsync` after
  registration and the goroutine) and of a cancellation that holds the mutex. Stages
  return, because the components they call do, except for the executor: none on a goroutine that is in
  `ExecutePlan`. A `Publish` is not enabled on a jammed bus, so that fairness does not push it through. `Finish` needs the
  mutex, and weak fairness is enough for it, because without a jam the mutex comes to rest: a
  cancellation leaves the state at error, where the next one is refused until the
  goroutine overwrites it, which happens finitely often. No fairness on cancellation, polling, cleanup or `Jam`.
- `EventBus`: weak fairness of each worker (handlers return), of a publisher that
  can give up or panics, and of `Close` after it was called. Strong fairness of a send: room in
  the channel comes and goes, and Go's runtime serves blocked senders in
  the order they came, so that a blocked sender is not passed over for ever. Nobody
  has to call `Close` or end a context.
- `AsyncEvents`: the same for the combined actions, and weak fairness of what a handler
  publishes and of `Watch`, the goroutine that passes the end of the bus on: both are goroutines with
  nothing to wait for. Nobody has to cancel.
- `ExecutorMetrics`: weak fairness of each goroutine; it may still sleep for ever. Tasks end, as above. Nobody
  has to call `ExecutePlan`; a call of `GetMetrics` comes sooner or later, which only adds readers.

## 5. The proofs

### DAGExecutor

`DAGExecutor_proofs` holds for every finite set of tasks, every set of plans, any
number of workers from one on, every integer `MaxRetries` and any number of calls. The
assumptions are `TasksAssumption` (finitely many tasks, their names among the ids),
`PlansAssumption` (plans are records of the right type, acyclic or not) and
`BoundsAssumption` (at least one worker; the pool panics otherwise).

The properties are not inductive: `ClosedOnce`, for instance, needs that a task
in a worker's hands has not ended, which depends on where the worker is. `IInv` is the
conjunction of

| Conjunct | Ties | Needed for |
|---|---|---|
| `TypeOK` | | all |
| `StatusFollowsPc` | a task's status to where its goroutine is | no terminal status is overwritten |
| `QueueWaits` | queued and held tasks to `Ready` and to no goroutine | a task is started once |
| `Joined` | the caller's phase to an idle pool | the sweep meets no running task |
| `ClosedIffEnded` | channel closed once to terminal status | `ClosedOnce` |
| `ResultsFollowPc` | stored results to status and place | `ResultsPublished` |
| `DependenciesFirst` | | itself: completed dependencies stay so |
| `ErrorBeforeCancel` | context, error channel and causes | `RootCause`, `FailureReported` |
| `ErrorReturned` | an error outcome to ended tasks | `CleanErrorReturn` |

The proof takes each conjunct through the caller's actions and those of a task
goroutine separately (a lemma each), then combines them. A running task meets the sweep only if
its tool panicked, and then `Join` kills the process: that is why `Joined` says
`~panicked` and `StatusFollowsPc` has its exception.

`WorkersBounded` needs a second argument: the number of active goroutines grows only in
`Offer`, which tests it, and every other step's set of active tasks is a
subset of the one before (`FS_Subset` of the library, finiteness from `TasksAssumption`).

`ImplementsLifecycle` maps each step to a step of `TaskLifecycle` or to a stutter,
under `IInv`. `TerminalIsFinal` follows from the refinement: no abstract action
leaves a terminal status.

### ExecutorMetrics

`ExecutorMetrics_proofs` holds for any finite numbers of calls and readers and any `Width`
(`MetricsAssumption`); `ReadersAssumption` says that a reader is not one of the executor's own goroutines.
`LockDebt` is inductive given the types: the steps are sorted by what they do to the mutex (`StepKinds`),
and for each kind a lemma says how the set `Owed` changes (by one element or not at all), so that its cardinality follows from
the library's facts about adding and removing one. `CopyNeedsAReset`, that no reader gets past `Copy`'s lock before a
reset overwrote a lock, is the general form of what `metrics_get` shows, and follows from it: a reader at
`Copy`'s lock owes an Unlock, so if nothing was overwritten the bit is set and it cannot pass
(`CopyIsLocked`). The inductive form, `PastCopy`, also covers the reader between the two Unlocks.

### EventBus

`EventBus_proofs` holds for any events and handlers, any subscriptions (`WantsAssumption`: a catch-all
handler wants every event), any finite number of workers from one on, any buffer from one on
and any number of retries (`BoundsAssumption`). `BusInv` is the conjunction of

| Conjunct | Ties | Needed for |
|---|---|---|
| `TypeOK`, `RetriesLeft` | a worker that waits has an attempt left | the attempt stays in range |
| `OwnerInv` | the events in the channel and with workers to each other and to their publishers | one worker's step is no other's |
| `WorkerInv` | where a worker is to what it holds: event, turn, handlers left | all about handlers |
| `LateInv` | calls after the end of the context to the event's worker being past its next test | `OneLateCall` |
| `FreshInv` | what is not yet with a worker has no calls, no copied handlers | a count starts at zero |
| `TriesInv` | the calls made to the attempt of the worker that makes them | `NoDuplicateDelivery` |
| `ServedInv` | a copied handler is served, or left, or has its turn | `EveryHandlerServed` |
| `CloseInv` | the phases of `Close` to its flags and to workers that left | the theorems about closing |

An event that is never in two places is what everything else rests on: without `OwnerInv` a second worker
could make calls that the first one's attempt does not count. `SendOnClosed`, the panic, is a step like the others, so nothing
is assumed of the order of publishers and `Close`.

Three more theorems say what `Close` promises: when it has returned no event is with
a worker (`QuietWhenClosed`), no worker takes a step any more (`NoCallAfterClose`), and a panic needs a
publisher that passed the test of `closed` before (`PanicNeedsClose`).

`AsyncEvents_proofs` (with `CallBackAssumption`: the events of cancellations are published by no handler)
shows that the composition is an implementation of the bus: every step of `AsyncNext` is one
of `Next` or leaves the bus alone (`ImplementsBus`), so that `BusInv` and with it the guarantees hold with
handlers that publish and wait (`GuaranteesHoldHere`). `MutexInv` ties the mutex to the one publisher that has
it: whoever holds it waits for room in the channel (`MutexMeansSending`), and only room makes it give the mutex
up (`OnlyRoomReleases`), neither a deadline nor `Close`. This is the half of the jam that holds in every state.

### AsyncProcess

`AsyncProcess_proofs` holds for any executions, with or without retrieval (`RetrievalAssumption`). The
properties are about what `Execute` does without the mutex, so each needs to know how far behind the
goroutine's view of its context may be. `AsyncInv` has, for each execution,

| Conjunct | Ties | Needed for |
|---|---|---|
| `Started` | the goroutine to a `ProcessAsync` that is through | the others, before the goroutine runs |
| `CompleteInv` | `complete` to an answer, to no failed stage and to the end of the loop | `AnswerIsSynthesised`, `AnswerIsStable` |
| `EndInv` | the end of the goroutine and a failed stage to terminal states | `FailureIsNotComplete` |
| `BlameInv` | `cancelled` to an error that stays, `given` to none | `CancelPrevails` |
| `CtxInv` | a cancellation under way, and the states it can write, to the context | the next one |
| `RemovedInv` | removal from the map to a context that is done or a goroutine past its stages | `RemovedRunsNoStage` |
| `TimeInv` | an ended state to its recorded time, or to a cancellation that is over or past its write | `CleanupIsPatient` |

`CancelPrevails` does not rest on the state, which the goroutine may overwrite, but on
`LastError`, which nothing takes back; `RemovedRunsNoStage` on the order in which `CancelAsyncProcess` writes: it ends the
context before it writes the error state, so a goroutine that overwrites the state is stopped by its next look at
the context.

### SharedPlan

`SharedPlan_proofs` holds for any executions and tasks, with no assumption at all. `PlanInv` has the
types, what holds of an execution whatever the others do (`ExecInv`: where it has an array, workers, errors), which arrays can be
named (`NamedInv`), and the life of a task whose array nobody else uses: `AloneInv` says that
an execution without an entry in `met` is the only one at work on its array, `LifeInv` that then each of its tasks goes
its way once, from the reset to a terminal status, with its channel closed exactly when it has one. The three
properties are conjuncts. A step of another execution changes neither what is this one's (`OthersMine`) nor
the array of one that met nobody (`OthersArray`).

### DAGFile

`DAGFile_proofs` holds for any finite set of ids and any files (`FilesAssumption`). `FileInv` is `TypeOK` and

| Conjunct | Says |
|---|---|
| `ModeInv` | which variables are in use: the search, the plan, the priorities |
| `SearchInv` | the calls on `path` are different and each a dependency of the one before; the ids `hasCycle` returned for are closed under dependencies and acyclic |
| `VerdictInv` | a verdict is right |
| `PriorityInv` | the calls of `dfs` are different, none is cached, each a dependent of the one before; the cache is a ranking; a priority comes from a ranking or from a cycle |

A ranking gives tasks the length of their longest path and contains their dependents. When
`hasCycle` meets an id of `path`, the calls since then are a cycle; when it returns, its id can be added to an
acyclic set because all its dependencies are in there. `Accept` then finds every task in that set. For `dfs`, a length that is returned extends the ranking by one task.

That a ranking and a cycle exclude each other, that two rankings agree (so
that the order of the calls and of the dependents does not matter), and that a ranking is the length of the longest path of `DAGExecutor` are
facts one would prove by induction. The provers cannot use the library's induction theorems, whose hypothesis is an
operator; the proofs take a smallest counterexample instead (`Least`, `Greatest`, and `SmallestSet` for sets, from
the well-foundedness of strict subsets of a finite set).

`ValidatedCanStart` joins the two searches: one follows dependencies, the other dependents, and `CycleEitherWay` shows
that a finite cycle in one direction gives one in the other. Besides the four properties of the run,
`PriorityIsExact` is proved of every moment and not just of the end: a priority fails exactly for tasks from which a
cycle is in reach, and a task is more urgent than those that depend on it.

### What is only model-checked

Every invariant and every action property that a passing run checks is now a theorem, the refinement of
`TaskLifecycle` included. TLC alone has the liveness: `Termination`, `EveryExecutionEnds`, `PublishReturns`, `CloseReturns`, `AcceptedIsProcessed`,
`MutexIsReleased` and `ResetIsPaid`, since the prover has no rules for fairness and ENABLED. The properties of the runs
that expect a violation are refuted by a counterexample, and need no proof.

## 6. Where code and documentation disagree

1. **A dependent task never runs** (`exec_dependents`). `ExecutePlan` looks for ready
   tasks once. `findNewlyReadyTasks`, meant to continue, is reached only from
   `handleTaskCompletion`, which nobody calls. A plan with any dependency ends
   with "not all tasks completed successfully" and the dependents pending. This also means
   that what the executor proves about dependencies is exercised by repeated
   calls: executing the same plan again runs its next layer.
2. **A complete execution with an error** (`async_complete`). `GetAsyncResult` has a branch that
   "shouldn't happen with current logic": it does, when a cancellation falls between
   the last test and the assignment. It is this branch that keeps `CancelPrevails` true.
3. **Publish on a closing bus panics** (`bus_panic`), instead of returning "event bus is closed".
4. **A single ExecutePlan dies** (`metrics_alone`). The tests expect it to return; `resetMetrics`
   unlocks the fresh mutex it has just put in place of the locked one, a fatal error. What is
   said elsewhere about the executor is about executions the process survives, which takes
   another goroutine that locks the mutex in between, and is what it does once the reset is repaired.
5. **GetMetrics never returns** (`metrics_get`). It is said to return a copy, and a test goes on with it; it calls `Copy`
   with the mutex locked, and `Copy` locks it again. Only a reset that overwrites the lock meanwhile lets it
   pass (`CopyNeedsAReset`, proved).

## 7. Other observations

Met while reading; not all are modelled.

- After a `GetMetrics` the metrics' mutex stays locked (section 6): tasks that end and calls of `ExecutePlan` sleep
  on it too, with the process alive, so the executor is lost. This is the exception of `Termination`. `TotalRetries` is the sum of
  `RetryCount`, which only `Task.Retry`, without a caller, would increase.
- Plans from the planner's cache share their tasks with every other user of the entry. If executions
  overlap, one may close a channel the other has closed (a panic), be told that tasks are not
  completed, or return `nil` as error with results missing, since the other's goroutines completed its tasks
  and stored the results in the other's plan. Several misses each run the planner and the last one's plan stays.
- A cancelled execution has no age: `CancelAsyncProcess` sets `CurrentState` to `StateError` without recording a time,
  and `CleanupCompletedExecutions`, which "removes completed or errored executions older than the specified
  duration", computes the age from the zero time and removes it at once. `CleanupIsPatient` says that only these are.
- If the channel is full and every worker is in a handler that calls the API, while a cancellation
  publishes, nothing moves any more: the cancellation waits for room in the channel and
  holds the mutex, the handlers wait for the mutex (`Jammed`). Handlers that publish can do the same to
  each other without the mutex.
- In a DAG file `$task.output` arguments are optional sources and add no dependency: `Validate` does not
  see them, and a value that is not there yet is skipped without an error.
- `MaxConcurrentExecutions` is validated and used nowhere: `ProcessAsync` starts as many executions as it is asked for.
- Nothing validates a planner's plan; only DAG files are validated.
- A caller's cancellation leaves tasks of the queue `Ready`: the sweep runs only if an
  error was sent. A later call does not pick them up, since only pending tasks are looked at.
- An execution whose context was done can still be cancelled: its state changes from
  cancelled to error, and true is returned. `GetAsyncResult` says of a cancelled
  execution that it is in progress. Cleanup never removes one.
- A stage's context error arrives wrapped, so it ends in error, not in cancelled.
- `StateStartTimes` and `StateData` are written without the mutex under which
  others read them: concurrent map access can kill the process.
- The goroutine of `Publish` lives until the caller's context or the bus ends.
  Events still in the channel at `Close` are dropped after their `Publish` returned nil.
- The persistent cache takes its read lock under its write lock, so that the first `Set` never
  returns, and encodes a struct whose fields are unexported, so that a file it wrote
  would have no values in it.
- Neither cache implements `dragonscale.Cache`: their `Get` returns an error instead of a bool. Nothing in the
  repository uses them.

## 8. What is not modelled

The caches: no component uses them, or could, and of the persistent one no operation but `Get` ends. The
in-memory cache is a map under one lock. What the planner adapter needs of a cache is in `SharedPlan`.
Handlers that subscribe, unsubscribe or close the bus. The counters of the metrics. The arguments of
DAG files, YAML decoding and the loader registry. Left out for good: argument values and the
expression library (only that evaluation may fail), prompts, example tools, the thin
adapters and the wording of errors (no state, no protocol); functions without a
caller (`handleTaskCompletion`, `findNewlyReadyTasks`, `Task.Retry`,
`PopState`); the history stack of the state machine, which nothing reads; memory-model
effects beyond interleavings (the races on `CurrentState` and `LastError` are taken as
atomic reads and writes of a word, and a read of an interface value torn by a
race is left out).

## 9. The plan

Modules: `DAGExecutor` with `TaskLifecycle`, `AsyncProcess`, `EventBus`, `SharedPlan`, `ExecutorMetrics`,
`DAGFile` and `AsyncEvents` are done. What is left to model is small: a handler that calls `Close`
(it waits for its own worker), and the in-memory cache.

Abstract specifications: `TaskLifecycle` (done); an execution as its callers see it (running, then
one of answer, failure, cancelled), implemented by `AsyncProcess`; a bus as a set of accepted
events, each with one owner, implemented by `EventBus`.

Theorems: every safety property the runs check is proved (section 5), and that `AsyncEvents` implements
`EventBus`. Left are the two abstract specifications above with their refinements, `CompletedWasRun`'s counterpart for
an execution that met others (which of its results can be missing), and a model of the in-memory cache with
the proof that an expired item is never returned.
