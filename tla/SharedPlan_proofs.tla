--------------------------- MODULE SharedPlan_proofs ---------------------------
(* Theorems about SharedPlan, for any number of executions and tasks. *)
EXTENDS SharedPlan, FiniteSetTheorems, TLAPS

-----------------------------------------------------------------------------
(* TypeOK *)

One(S) == \A a, b \in S : a = b

\* TypeOK, with its bounds on the cache and on arrays as what they mean.
Types ==
    /\ cached \in SUBSET Arrays
    /\ array \in [Execs -> SUBSET Arrays]
    /\ One(cached) /\ \A e \in Execs : One(array[e])
    /\ status \in [Arrays -> [Tasks -> Status]]
    /\ closed \in [Arrays -> SUBSET Tasks]
    /\ pc \in [Execs -> Pc]
    /\ todo \in [Execs -> SUBSET Tasks]
    /\ hand \in [Execs -> SUBSET Tasks]
    /\ queue \in [Execs -> SUBSET Tasks]
    /\ wpc \in [Execs -> [Tasks -> {"none", "enter", "tool", "store", "complete", "fail", "send"}]]
    /\ results \in [Execs -> SUBSET Tasks]
    /\ failing \subseteq Execs /\ panicked \subseteq Execs /\ met \subseteq Execs
    /\ outcome \in [Execs -> {"none", "noPlan", "ok", "error", "incomplete"}]

\* A set of at most one array is empty or holds that one.
LEMMA TypesAreTypeOK == Types => TypeOK
<1> SUFFICES ASSUME Types PROVE TypeOK
    OBVIOUS
<1>1. ASSUME NEW S \in SUBSET Arrays, One(S) PROVE S = {} \/ \E a \in Arrays : S = {a}
  <2>1. ASSUME NEW a \in S PROVE S = {a}
        BY <1>1, <2>1 DEF One
  <2>2. QED
        BY <2>1
<1>2. Cardinality(cached) \leq 1
  <2>1. CASE cached = {}
        BY <2>1, FS_EmptySet
  <2>2. ASSUME NEW a \in Arrays, cached = {a} PROVE Cardinality(cached) \leq 1
    <3>1. Cardinality({a}) = 1
          BY FS_Singleton
    <3>2. QED
          BY <2>2, <3>1
  <2>3. QED
        BY <1>1, <2>1, <2>2, cached \in SUBSET Arrays, One(cached) DEF Types
<1>3. array \in [Execs -> {{}} \cup {{a} : a \in Arrays}]
  <2>1. \A e \in Execs : array[e] \in {{}} \cup {{a} : a \in Arrays}
        BY <1>1 DEF Types
  <2>2. QED
        BY <2>1 DEF Types
<1>4. QED
      BY <1>2, <1>3 DEF Types, TypeOK

\* A status is set, and a channel closed, within the types.
LEMMA StatusTypes ==
    ASSUME Types, NEW e \in Execs, NEW t \in Tasks, NEW s \in Status, SetStatus(e, t, s)
    PROVE  status' \in [Arrays -> [Tasks -> Status]]
BY DEF Types, SetStatus

LEMMA UpdateTypes ==
    ASSUME Types, NEW e \in Execs, NEW t \in Tasks, NEW s \in Status, UpdateStatus(e, t, s)
    PROVE  /\ status' \in [Arrays -> [Tasks -> Status]]
           /\ closed' \in [Arrays -> SUBSET Tasks] /\ panicked' \subseteq Execs
<1>1. status' \in [Arrays -> [Tasks -> Status]]
      BY StatusTypes DEF UpdateStatus
<1>2. closed' \in [Arrays -> SUBSET Tasks]
  <2>1. \A a \in Arrays : closed[a] \in SUBSET Tasks /\ closed[a] \cup {t} \in SUBSET Tasks
        BY DEF Types
  <2>2. QED
        BY <2>1 DEF Types, UpdateStatus
<1>3. panicked' \subseteq Execs
      BY DEF Types, UpdateStatus
<1>4. QED
      BY <1>1, <1>2, <1>3

LEMMA TypeInit == Init => Types
<1> SUFFICES ASSUME Init PROVE Types
    OBVIOUS
<1>1. One(cached) /\ \A e \in Execs : One(array[e])
      BY DEF Init, One
<1>2. wpc \in [Execs -> [Tasks -> {"none", "enter", "tool", "store", "complete", "fail", "send"}]]
      BY DEF Init
<1>3. status \in [Arrays -> [Tasks -> Status]] /\ closed \in [Arrays -> SUBSET Tasks]
      BY DEF Init, Status
<1>4. QED
      BY <1>1, <1>2, <1>3 DEF Init, Types, Pc

\* The planner's half keeps the types...
LEMMA TypeGenerate ==
    ASSUME Types, NEW e \in Execs, GeneratePlan(e) PROVE Types'
<1> USE DEF Types, planVars, taskVars, mainVars, workerVars, Goto, Pc
<1>1. CASE Start(e)
      BY <1>1 DEF Start
<1>2. CASE CacheHit(e)
      BY <1>2 DEF CacheHit
<1>3. CASE CacheMiss(e)
      BY <1>3 DEF CacheMiss
<1>4. CASE FlowReturns(e)
  <2>1. array' \in [Execs -> SUBSET Arrays] /\ \A x \in Execs : One(array'[x])
        BY <1>4 DEF FlowReturns, Arrays, One
  <2>2. QED
        BY <1>4, <2>1 DEF FlowReturns
<1>5. CASE FlowFails(e)
      BY <1>5 DEF FlowFails
<1>6. CASE CacheSet(e)
      BY <1>6 DEF CacheSet
<1>7. CASE ResetStatus(e)
  <2>1. PICK t \in todo[e] : SetStatus(e, t, "Pending") /\ hand' = [hand EXCEPT ![e] = {t}]
        BY <1>7 DEF ResetStatus
  <2>2. status' \in [Arrays -> [Tasks -> Status]]
        BY <2>1, StatusTypes DEF Status
  <2>3. QED
        BY <1>7, <2>1, <2>2 DEF ResetStatus
<1>8. CASE ResetChannel(e)
      BY <1>8 DEF ResetChannel
<1>9. CASE Built(e)
      BY <1>9 DEF Built
<1>10. QED
      BY <1>1, <1>2, <1>3, <1>4, <1>5, <1>6, <1>7, <1>8, <1>9 DEF GeneratePlan

\* ...the executor's...
LEMMA TypeExecute ==
    ASSUME Types, NEW e \in Execs, ExecutePlan(e) PROVE Types'
<1> USE DEF Types, planVars, taskVars, mainVars, workerVars, Goto, Pc
<1>1. CASE FindReadyTasks(e)
      BY <1>1 DEF FindReadyTasks
<1>2. CASE Found(e)
      BY <1>2 DEF Found
<1>3. CASE Enqueue(e)
  <2>1. PICK t \in Tasks : /\ todo' = [todo EXCEPT ![e] = @ \ {t}]
                           /\ queue' = [queue EXCEPT ![e] = @ \cup {t}]
                           /\ UpdateStatus(e, t, "Ready")
        BY <1>3 DEF Enqueue
  <2>2. /\ status' \in [Arrays -> [Tasks -> Status]]
        /\ closed' \in [Arrays -> SUBSET Tasks] /\ panicked' \subseteq Execs
        BY <2>1, UpdateTypes DEF Status
  <2>3. QED
        BY <1>3, <2>1, <2>2 DEF Enqueue
<1>4. CASE Enqueued(e)
      BY <1>4 DEF Enqueued
<1>5. CASE Dispatch(e)
      BY <1>5 DEF Dispatch
<1>6. CASE StopDispatch(e)
      BY <1>6 DEF StopDispatch
<1>7. CASE Join(e)
      BY <1>7 DEF Join
<1>8. CASE Sweep(e)
  <2>1. PICK t \in Tasks : todo' = [todo EXCEPT ![e] = @ \ {t}]
                           /\ (hand' = hand \/ hand' = [hand EXCEPT ![e] = {t}])
        BY <1>8 DEF Sweep
  <2>2. pc' \in [Execs -> Pc]
        BY <1>8 DEF Sweep
  <2>3. UNCHANGED <<planVars, taskVars, queue, outcome, workerVars>>
        BY <1>8 DEF Sweep
  <2>4. todo' \in [Execs -> SUBSET Tasks]
        BY <2>1
  <2>5. hand' \in [Execs -> SUBSET Tasks]
    <3>1. {t} \in SUBSET Tasks
          OBVIOUS
    <3>2. QED
          BY <2>1, <3>1
  <2>6. QED
        BY <2>2, <2>3, <2>4, <2>5
<1>9. CASE CancelTask(e)
  <2>1. PICK t \in Tasks : UpdateStatus(e, t, "Cancelled")
        BY <1>9 DEF CancelTask
  <2>2. /\ status' \in [Arrays -> [Tasks -> Status]]
        /\ closed' \in [Arrays -> SUBSET Tasks] /\ panicked' \subseteq Execs
        BY <2>1, UpdateTypes DEF Status, Terminal
  <2>3. QED
        BY <1>9, <2>2 DEF CancelTask
<1>10. CASE CheckCompleted(e)
      BY <1>10 DEF CheckCompleted
<1>11. CASE Conclude(e)
      BY <1>11 DEF Conclude, Return
<1>12. QED
      BY <1>1, <1>2, <1>3, <1>4, <1>5, <1>6, <1>7, <1>8, <1>9, <1>10, <1>11 DEF ExecutePlan

\* ...and the workers'.
LEMMA TypeWorker ==
    ASSUME Types, NEW e \in Execs, NEW t \in Tasks, Worker(e, t) PROVE Types'
<1> USE DEF planVars, taskVars, mainVars, workerVars
<1>1. wpc' \in [Execs -> [Tasks -> {"none", "enter", "tool", "store", "complete", "fail", "send"}]]
  <2>1. \E to \in {"none", "tool", "store", "complete", "fail", "send"} : wpc' = [wpc EXCEPT ![e][t] = to]
        BY DEF Worker, WorkerStep, Enter, ToolReturns, SetResult, MarkCompleted, MarkFailed, SendErr
  <2>2. QED
        BY <2>1 DEF Types
<1>2. CASE Enter(e, t) \/ MarkCompleted(e, t) \/ MarkFailed(e, t)
  <2>1. /\ status' \in [Arrays -> [Tasks -> Status]]
        /\ closed' \in [Arrays -> SUBSET Tasks] /\ panicked' \subseteq Execs
        BY <1>2, UpdateTypes DEF Enter, MarkCompleted, MarkFailed, Status, Terminal
  <2>2. QED
        BY <1>1, <1>2, <2>1 DEF Types, Enter, MarkCompleted, MarkFailed
<1>3. CASE ToolReturns(e, t) \/ SetResult(e, t) \/ SendErr(e, t)
      BY <1>1, <1>3 DEF Types, ToolReturns, SetResult, SendErr
<1>4. QED
      BY <1>2, <1>3 DEF Worker

Step(e) == GeneratePlan(e) \/ ExecutePlan(e) \/ \E t \in Tasks : Worker(e, t)

\* Every step is one of an execution, or the cache drops its entry.
LEMMA StepKinds ==
    [Next]_vars => (\E e \in Execs : Step(e)) \/ Expire \/ UNCHANGED vars
BY DEF Next, Stopped, Step

LEMMA TypeNext ==
    ASSUME Types, [Next]_vars PROVE Types'
<1>1. CASE Expire
      BY <1>1 DEF Expire, Types, One, taskVars, mainVars, workerVars
<1>2. CASE UNCHANGED vars
      BY <1>2 DEF Types, vars, planVars, taskVars, mainVars, workerVars
<1>3. QED
      BY <1>1, <1>2, StepKinds, TypeGenerate, TypeExecute, TypeWorker DEF Step

\* Every reachable state has the types; the cache holds one plan for the query at most.
THEOREM TypeHolds == Spec => []TypeOK
BY TypeInit, TypeNext, TypesAreTypeOK, PTL DEF Spec

-----------------------------------------------------------------------------
(* What a step leaves alone *)

Mine(e) ==
    /\ pc'[e] = pc[e] /\ array'[e] = array[e] /\ todo'[e] = todo[e] /\ hand'[e] = hand[e]
    /\ queue'[e] = queue[e] /\ wpc'[e] = wpc[e] /\ results'[e] = results[e]
    /\ outcome'[e] = outcome[e] /\ (e \in failing' <=> e \in failing)

SameArray(a) == status'[a] = status[a] /\ closed'[a] = closed[a]

\* Executions share their arrays, and nothing else but the cache.
LEMMA OthersMine ==
    ASSUME Types, NEW u \in Execs, NEW e \in Execs \ {u}, Step(u)
    PROVE  Mine(e) /\ (e \in panicked' <=> e \in panicked)
<1> USE DEF Types, Mine, planVars, taskVars, mainVars, workerVars, Goto
<1>1. CASE GeneratePlan(u)
      BY <1>1 DEF GeneratePlan, Start, CacheHit, CacheMiss, FlowReturns, FlowFails, CacheSet,
                  ResetStatus, ResetChannel, Built
<1>2. CASE ExecutePlan(u)
      BY <1>2 DEF ExecutePlan, FindReadyTasks, Found, Enqueue, Enqueued, Dispatch, StopDispatch,
                  Join, Sweep, CancelTask, CheckCompleted, Conclude, Return, UpdateStatus
<1>3. ASSUME NEW t \in Tasks, Worker(u, t) PROVE Mine(e) /\ (e \in panicked' <=> e \in panicked)
      BY <1>3 DEF Worker, WorkerStep, Enter, ToolReturns, SetResult, MarkCompleted, MarkFailed,
                  SendErr, UpdateStatus
<1>4. QED
      BY <1>1, <1>2, <1>3 DEF Step

\* An array that an execution does not use is not changed by it.
LEMMA OthersArray ==
    ASSUME Types, NEW u \in Execs, NEW a \in Arrays, a \notin array[u], Step(u)
    PROVE  SameArray(a)
<1> USE DEF SameArray, planVars, taskVars, mainVars, workerVars, SetStatus, UpdateStatus
<1>1. CASE GeneratePlan(u)
      BY <1>1 DEF GeneratePlan, Start, CacheHit, CacheMiss, FlowReturns, FlowFails, CacheSet,
                  ResetStatus, ResetChannel, Built
<1>2. CASE ExecutePlan(u)
      BY <1>2 DEF ExecutePlan, FindReadyTasks, Found, Enqueue, Enqueued, Dispatch, StopDispatch,
                  Join, Sweep, CancelTask, CheckCompleted, Conclude, Return
<1>3. ASSUME NEW t \in Tasks, Worker(u, t) PROVE SameArray(a)
      BY <1>3 DEF Worker, Enter, ToolReturns, SetResult, MarkCompleted, MarkFailed, SendErr
<1>4. QED
      BY <1>1, <1>2, <1>3 DEF Step

-----------------------------------------------------------------------------
(* What holds of an execution by itself *)

Before  == {"idle", "lookup", "flow"}
Working == {"dispatch", "join"}
After   == {"dispatch", "join", "sweep", "cancel", "check"}

\* It has an array from the end of GeneratePlan's first half on, workers only while it
\* dispatches and joins, and an error only from then on.
ExecInv(e) ==
    /\ pc[e] \in Before => array[e] = {}
    /\ pc[e] \notin Before \cup {"done"} => array[e] # {}
    /\ pc[e] \notin Working => \A t \in Tasks : wpc[e][t] = "none"
    /\ \A t \in Tasks : wpc[e][t] = "complete" => t \in results[e]
    /\ e \in failing => pc[e] \in (After \ {"check"}) \cup {"done"}
    /\ pc[e] \in Before \cup {"set", "reset", "channel", "find"} => queue[e] = {}
    /\ pc[e] = "join" => queue[e] = {} \/ e \in failing
    /\ pc[e] = "check" => queue[e] = {}
    /\ pc[e] \notin {"channel", "find", "cancel"} => hand[e] = {}
    /\ pc[e] = "channel" => hand[e] \subseteq todo[e]
    /\ outcome[e] # "none" => pc[e] = "done"

\* An array is in use only after the execution it is named after has made it.
NamedInv ==
    \A a \in Arrays : (a \in cached \/ \E e \in Execs : a \in array[e]) => pc[a] \notin Before

-----------------------------------------------------------------------------
(* What holds of one that met no other *)

\* Nobody else uses its array while it runs.
AloneInv ==
    \A e \in Execs \ met, u \in Execs, a \in Arrays :
        pc[e] # "done" /\ u # e /\ a \in array[e] \cap array[u] => pc[u] = "done"

\* Its tasks go their way once.
TaskInv(e, a, t) ==
    LET s == status[a][t] IN
    /\ pc[e] \in {"reset", "channel"} /\ t \notin todo[e] => s = "Pending" /\ t \notin closed[a]
    /\ pc[e] = "channel" /\ t \in hand[e] => s = "Pending"
    /\ pc[e] \in {"find", "mark"} \cup After => (t \in closed[a] <=> s \in Terminal)
    /\ pc[e] = "find" => s = "Pending" /\ t \in todo[e] \cup hand[e]
    /\ pc[e] = "mark" => IF t \in todo[e] THEN s = "Pending" /\ t \notin queue[e]
                                          ELSE s = "Ready" /\ t \in queue[e]
    /\ pc[e] \in Working /\ t \in queue[e] => s = "Ready" /\ wpc[e][t] = "none"
    /\ pc[e] \in After /\ t \notin queue[e] /\ wpc[e][t] = "none" =>
         e \in failing \/ (s = "Completed" /\ t \in results[e])
    /\ wpc[e][t] = "enter" => s = "Ready"
    /\ wpc[e][t] \in {"tool", "store", "complete", "fail"} => s = "Running"
    /\ wpc[e][t] = "send" => s = "Failed"
    /\ pc[e] = "cancel" /\ t \in hand[e] => s \notin Terminal

LifeInv ==
    \A e \in Execs \ met, a \in Arrays, t \in Tasks :
        pc[e] # "done" /\ a \in array[e] => TaskInv(e, a, t)

-----------------------------------------------------------------------------
(* ExecInv is kept *)

\* By the step of another execution...
LEMMA ExecInvOthers ==
    ASSUME NEW e \in Execs, ExecInv(e), Mine(e) PROVE ExecInv(e)'
BY DEF ExecInv, Mine

\* ...by the planner's half...
LEMMA ExecInvGenerate ==
    ASSUME Types, NEW e \in Execs, ExecInv(e), GeneratePlan(e) PROVE ExecInv(e)'
<1> USE DEF Types, ExecInv, planVars, taskVars, mainVars, workerVars, Goto, Before, Working, After
<1>1. CASE Start(e) \/ CacheMiss(e) \/ FlowFails(e) \/ Built(e)
      BY <1>1 DEF Start, CacheMiss, FlowFails, Built, LastRound
<1>2. CASE CacheHit(e)
      BY <1>2 DEF CacheHit
<1>3. CASE FlowReturns(e)
      BY <1>3 DEF FlowReturns
<1>4. CASE CacheSet(e)
      BY <1>4 DEF CacheSet
<1>5. CASE ResetStatus(e)
      BY <1>5 DEF ResetStatus
<1>6. CASE ResetChannel(e)
      BY <1>6 DEF ResetChannel
<1>7. QED
      BY <1>1, <1>2, <1>3, <1>4, <1>5, <1>6 DEF GeneratePlan

\* ...the executor's...
LEMMA ExecInvExecute ==
    ASSUME Types, NEW e \in Execs, ExecInv(e), ExecutePlan(e) PROVE ExecInv(e)'
<1> USE DEF Types, ExecInv, planVars, taskVars, mainVars, workerVars, Goto, Before, Working, After
<1>1. CASE FindReadyTasks(e) \/ Found(e)
      BY <1>1 DEF FindReadyTasks, Found
<1>2. CASE Enqueue(e)
      BY <1>2 DEF Enqueue
<1>3. CASE Enqueued(e)
      BY <1>3 DEF Enqueued
<1>4. CASE Dispatch(e)
  <2>1. /\ pc[e] = "dispatch" /\ UNCHANGED <<planVars, pc, todo, hand, outcome, results, failing>>
        /\ \A d \in Tasks : wpc'[e][d] = wpc[e][d] \/ wpc'[e][d] = "enter"
        BY <1>4 DEF Dispatch
  <2>2. QED
        BY <2>1
<1>5. CASE StopDispatch(e)
      BY <1>5 DEF StopDispatch
<1>6. CASE Join(e)
  <2>1. /\ pc[e] = "join" /\ pc'[e] \in {"sweep", "check"} /\ (pc'[e] = "check" => e \notin failing)
        /\ \A d \in Tasks : wpc[e][d] = "none"
        BY <1>6 DEF Join
  <2>2. hand[e] = {} /\ (queue[e] = {} \/ e \in failing)
        BY <2>1
  <2>3. UNCHANGED <<planVars, hand, queue, outcome, workerVars>>
        BY <1>6 DEF Join
  <2>4. QED
        BY <2>1, <2>2, <2>3
<1>7. CASE Sweep(e)
      BY <1>7 DEF Sweep
<1>8. CASE CancelTask(e)
      BY <1>8 DEF CancelTask
<1>9. CASE CheckCompleted(e) \/ Conclude(e)
      BY <1>9 DEF CheckCompleted, Conclude, Return
<1>10. QED
      BY <1>1, <1>2, <1>4, <1>5, <1>7, <1>8, <1>9, <1>6, <1>3 DEF ExecutePlan

\* ...and the workers'.
LEMMA ExecInvWorker ==
    ASSUME Types, NEW e \in Execs, NEW t \in Tasks, ExecInv(e), Worker(e, t) PROVE ExecInv(e)'
<1> USE DEF Types, ExecInv, planVars, taskVars, mainVars, workerVars, Before, Working, After
<1>1. CASE Enter(e, t) \/ ToolReturns(e, t)
      BY <1>1 DEF Enter, ToolReturns, WorkerStep
<1>2. CASE SetResult(e, t) \/ MarkCompleted(e, t)
  <2>1. /\ pc[e] \in Working /\ results[e] \subseteq results'[e]
        /\ \A d \in Tasks : wpc'[e][d] # wpc[e][d] =>
              wpc'[e][d] = "none" \/ (wpc'[e][d] = "complete" /\ d \in results'[e])
        BY <1>2 DEF SetResult, MarkCompleted, WorkerStep
  <2>2. UNCHANGED <<planVars, mainVars, failing>>
        BY <1>2 DEF SetResult, MarkCompleted
  <2>3. QED
        BY <2>1, <2>2
<1>3. CASE MarkFailed(e, t) \/ SendErr(e, t)
      BY <1>3 DEF MarkFailed, SendErr, WorkerStep
<1>4. QED
      BY <1>1, <1>2, <1>3 DEF Worker

\* So it is by every step.
LEMMA ExecInvNext ==
    ASSUME Types, \A e \in Execs : ExecInv(e), [Next]_vars PROVE \A e \in Execs : ExecInv(e)'
<1>1. ASSUME NEW u \in Execs, Step(u) PROVE \A e \in Execs : ExecInv(e)'
      BY <1>1, ExecInvGenerate, ExecInvExecute, ExecInvWorker, ExecInvOthers, OthersMine DEF Step
<1>2. CASE Expire \/ UNCHANGED vars
      BY <1>2, ExecInvOthers DEF Mine, Expire, vars, planVars, mainVars, workerVars
<1>3. QED
      BY <1>1, <1>2, StepKinds

-----------------------------------------------------------------------------
(* NamedInv and AloneInv are kept *)

\* How a step changes who uses which array.
LEMMA StepArrays ==
    ASSUME Types, NEW u \in Execs, ExecInv(u), Step(u)
    PROVE  /\ pc[u] # "done" /\ (pc[u] \notin Before => pc'[u] \notin Before)
           /\ cached' \subseteq cached \cup array[u] /\ met \subseteq met'
           /\ \/ array'[u] = array[u]
              \/ CacheHit(u) /\ array'[u] = cached
              \/ pc[u] = "flow" /\ pc'[u] = "set" /\ array'[u] = {u} /\ met' = met
<1> USE DEF Types, planVars, taskVars, mainVars, workerVars, Goto, Before
<1>1. CASE GeneratePlan(u)
  <2>1. CASE CacheHit(u)
        BY <2>1 DEF CacheHit
  <2>2. CASE FlowReturns(u)
        BY <2>2 DEF FlowReturns
  <2>3. CASE CacheSet(u) \/ Start(u) \/ CacheMiss(u) \/ FlowFails(u)
        BY <2>3 DEF CacheSet, Start, CacheMiss, FlowFails
  <2>4. CASE ResetStatus(u) \/ ResetChannel(u) \/ Built(u)
        BY <2>4 DEF ResetStatus, ResetChannel, Built
  <2>5. QED
        BY <1>1, <2>1, <2>2, <2>3, <2>4 DEF GeneratePlan
<1>2. CASE ExecutePlan(u)
      BY <1>2 DEF ExecutePlan, FindReadyTasks, Found, Enqueue, Enqueued, Dispatch, StopDispatch,
                  Join, Sweep, CancelTask, CheckCompleted, Conclude, Return
<1>3. ASSUME NEW t \in Tasks, Worker(u, t) PROVE wpc[u][t] # "none" /\ UNCHANGED <<planVars, mainVars>>
      BY <1>3 DEF Worker, WorkerStep, Enter, ToolReturns, SetResult, MarkCompleted, MarkFailed, SendErr
<1>4. QED
      BY <1>1, <1>2, <1>3 DEF Step, ExecInv, Working

LEMMA NamedNext ==
    ASSUME Types, \A e \in Execs : ExecInv(e), NamedInv, [Next]_vars PROVE NamedInv'
<1>1. ASSUME NEW u \in Execs, Step(u) PROVE NamedInv'
  <2>1. /\ \A x \in Execs : pc[x] \notin Before => pc'[x] \notin Before
        /\ cached' \subseteq cached \cup array[u]
        BY <1>1, StepArrays, OthersMine DEF Mine
  <2>2. \A x \in Execs : \A a \in array'[x] : a \in array[x] \/ a \in cached \/ pc'[a] \notin Before
        BY <1>1, StepArrays, OthersMine DEF Mine, Before
  <2>3. QED
        BY <1>1, <2>1, <2>2 DEF NamedInv, Arrays
<1>2. CASE Expire
      BY <1>2 DEF Expire, NamedInv, mainVars
<1>3. CASE UNCHANGED vars
      BY <1>3 DEF NamedInv, vars, planVars, mainVars
<1>4. QED
      BY <1>1, <1>2, <1>3, StepKinds

LEMMA AloneNext ==
    ASSUME Types, \A e \in Execs : ExecInv(e), NamedInv, AloneInv, [Next]_vars PROVE AloneInv'
<1>1. ASSUME NEW u \in Execs, Step(u) PROVE AloneInv'
  <2> SUFFICES ASSUME NEW e \in Execs \ met', NEW v \in Execs, NEW a \in Arrays,
                      pc'[e] # "done", v # e, a \in array'[e], a \in array'[v]
               PROVE  pc'[v] = "done"
      BY DEF AloneInv
  <2>1. e \notin met /\ pc[e] # "done" /\ pc[u] # "done"
        BY <1>1, StepArrays, OthersMine DEF Mine
  <2>2. \A x \in Execs \ {u} : pc'[x] = pc[x] /\ array'[x] = array[x]
        BY <1>1, OthersMine DEF Mine
  <2>3. CASE array'[u] = array[u]
        BY <2>1, <2>2, <2>3 DEF AloneInv
  <2>4. CASE CacheHit(u) /\ array'[u] = cached
    <3> DEFINE users == {x \in Execs \ {u} : array[x] = cached /\ pc[x] # "done"}
    <3>1. \A x \in users : x \in met' /\ u \in met'
          BY <2>4 DEF CacheHit
    <3>2. CASE e = u
      <4>1. a \in cached /\ a \in array[v]
            BY <2>2, <2>4, <3>2
      <4>2. array[v] = cached
        <5>1. One(cached) /\ One(array[v])
              BY DEF Types
        <5>2. QED
              BY <4>1, <5>1 DEF One
      <4>3. QED
            BY <2>2, <3>1, <3>2, <4>2
    <3>3. CASE v = u
      <4>1. a \in cached /\ a \in array[e]
            BY <2>2, <2>4, <3>3
      <4>2. array[e] = cached
        <5>1. One(cached) /\ One(array[e])
              BY DEF Types
        <5>2. QED
              BY <4>1, <5>1 DEF One
      <4>3. QED
            BY <2>1, <3>1, <3>3, <4>2
    <3>4. CASE e # u /\ v # u
          BY <2>1, <2>2, <3>4 DEF AloneInv
    <3>5. QED
          BY <3>2, <3>3, <3>4
  <2>5. CASE pc[u] = "flow" /\ array'[u] = {u}
    <3>1. \A x \in Execs : u \notin array[x]
          BY <2>5 DEF NamedInv, Before, Arrays
    <3>2. QED
          BY <2>1, <2>2, <2>5, <3>1 DEF AloneInv
  <2>6. QED
        BY <1>1, <2>3, <2>4, <2>5, StepArrays
<1>2. CASE Expire
      BY <1>2 DEF Expire, AloneInv, mainVars
<1>3. CASE UNCHANGED vars
      BY <1>3 DEF AloneInv, vars, planVars, mainVars
<1>4. QED
      BY <1>1, <1>2, <1>3, StepKinds

-----------------------------------------------------------------------------
(* LifeInv is kept *)

\* What is done to a task by an execution that uses its array.
LEMMA UpdateMine ==
    ASSUME Types, NEW e \in Execs, NEW a \in array[e], NEW t \in Tasks,
           NEW s \in {"Ready", "Running", "Completed", "Failed", "Cancelled"}, UpdateStatus(e, t, s)
    PROVE  /\ status'[a][t] = s /\ \A d \in Tasks \ {t} : status'[a][d] = status[a][d]
           /\ s \in {"Ready", "Running"} => closed'[a] = closed[a]
           /\ s \in {"Completed", "Failed", "Cancelled"} => closed'[a] = closed[a] \cup {t}
BY DEF UpdateStatus, SetStatus, Types, Terminal

LEMMA InPlanMine ==
    ASSUME Types, NEW e \in Execs, NEW a \in array[e], NEW S, NEW t \in Tasks
    PROVE  t \in InPlan(e, S) <=> status[a][t] \in S
<1>1. One(array[e])
      BY DEF Types
<1>2. QED
      BY <1>1 DEF InPlan, One

\* TaskInv speaks of e and its array.
LEMMA TaskInvSame ==
    ASSUME NEW e \in Execs, NEW a \in Arrays, NEW t \in Tasks, TaskInv(e, a, t), Mine(e), SameArray(a)
    PROVE  TaskInv(e, a, t)'
BY DEF TaskInv, Mine, SameArray

\* A new plan: every task has still to be reset.
LEMMA LifeBegins ==
    ASSUME Types, NEW e \in Execs, NEW a \in Arrays, NEW t \in Tasks, ExecInv(e),
           CacheHit(e) \/ FlowReturns(e) \/ CacheSet(e)
    PROVE  TaskInv(e, a, t)'
<1>1. CASE CacheHit(e) \/ CacheSet(e)
  <2>1. pc'[e] = "reset" /\ todo'[e] = Tasks /\ wpc[e][t] = "none" /\ wpc' = wpc
        BY <1>1 DEF CacheHit, CacheSet, Goto, Types, ExecInv, Working, workerVars
  <2>2. QED
        BY <2>1 DEF TaskInv, After, Working
<1>2. CASE FlowReturns(e)
  <2>1. pc'[e] = "set" /\ wpc[e][t] = "none" /\ wpc' = wpc
        BY <1>2 DEF FlowReturns, Goto, Types, ExecInv, Working, workerVars
  <2>2. QED
        BY <2>1 DEF TaskInv, After, Working
<1>3. QED
      BY <1>1, <1>2

\* NewExecutionPlan makes every task pending, with an open channel.
LEMMA LifeBuilds ==
    ASSUME Types, NEW e \in Execs, NEW a \in array[e], NEW t \in Tasks, ExecInv(e), TaskInv(e, a, t),
           ResetStatus(e) \/ ResetChannel(e) \/ Built(e)
    PROVE  TaskInv(e, a, t)'
<1>1. CASE ResetStatus(e)
  <2>1. PICK r \in todo[e] : SetStatus(e, r, "Pending") /\ hand' = [hand EXCEPT ![e] = {r}]
        BY <1>1 DEF ResetStatus
  <2>2. status'[a] = [status[a] EXCEPT ![r] = "Pending"] /\ r \in Tasks /\ hand'[e] = {r}
        BY <2>1 DEF SetStatus, Types
  <2>3. pc[e] = "reset" /\ pc'[e] = "channel" /\ UNCHANGED <<closed, todo, queue, workerVars>>
        BY <1>1 DEF ResetStatus, Goto, Types
  <2>4. wpc[e][t] = "none" /\ status[a] \in [Tasks -> Status]
        BY <2>3 DEF ExecInv, Working, Types
  <2>5. QED
        BY <2>2, <2>3, <2>4 DEF TaskInv, After, Working, workerVars
<1>2. CASE ResetChannel(e)
  <2>1. /\ closed'[a] = closed[a] \ hand[e] /\ todo'[e] = todo[e] \ hand[e]
        /\ pc[e] = "channel" /\ pc'[e] = "reset" /\ UNCHANGED <<status, queue, workerVars>>
        BY <1>2 DEF ResetChannel, Goto, Types
  <2>2. wpc[e][t] = "none"
        BY <2>1 DEF ExecInv, Working
  <2>3. QED
        BY <2>1, <2>2 DEF TaskInv, After, Working, workerVars
<1>3. CASE Built(e)
  <2>1. /\ todo[e] = {} /\ todo'[e] = Tasks /\ pc[e] = "reset" /\ pc'[e] = "find"
        /\ UNCHANGED <<status, closed, hand, queue, workerVars>>
        BY <1>3 DEF Built, LastRound, Goto, Types, taskVars
  <2>2. wpc[e][t] = "none"
        BY <2>1 DEF ExecInv, Working
  <2>3. QED
        BY <2>1, <2>2 DEF TaskInv, After, Working, workerVars, Terminal
<1>4. QED
      BY <1>1, <1>2, <1>3

\* findReadyTasks sees all of them pending, and all are queued.
LEMMA LifeFinds ==
    ASSUME Types, NEW e \in Execs, NEW a \in array[e], NEW t \in Tasks, ExecInv(e), TaskInv(e, a, t),
           FindReadyTasks(e) \/ Found(e) \/ Enqueue(e) \/ Enqueued(e)
    PROVE  TaskInv(e, a, t)'
<1>1. wpc[e][t] = "none" /\ pc[e] \in {"find", "mark"}
      BY DEF ExecInv, Working, FindReadyTasks, Found, Enqueue, Enqueued, Goto
<1>2. CASE FindReadyTasks(e)
  <2>1. PICK r \in todo[e] : /\ todo' = [todo EXCEPT ![e] = @ \ {r}]
                             /\ hand' = [hand EXCEPT ![e] = @ \cup ({r} \cap InPlan(e, {"Pending"}))]
        BY <1>2 DEF FindReadyTasks
  <2>2. /\ todo'[e] = todo[e] \ {r}
        /\ hand'[e] = hand[e] \cup ({r} \cap InPlan(e, {"Pending"}))
        BY <2>1 DEF Types
  <2>3. pc[e] = "find" /\ UNCHANGED <<status, closed, pc, queue, workerVars>>
        BY <1>2 DEF FindReadyTasks, taskVars
  <2>4. t \in InPlan(e, {"Pending"})
        BY <2>3, InPlanMine DEF TaskInv
  <2>5. QED
        BY <1>1, <2>2, <2>3, <2>4 DEF TaskInv, After, Working, workerVars
<1>3. CASE Found(e)
  <2>1. /\ pc[e] = "find" /\ pc'[e] = "mark" /\ todo[e] = {} /\ todo'[e] = hand[e]
        /\ UNCHANGED <<status, closed, queue, workerVars>>
        BY <1>3 DEF Found, LastRound, Goto, Types, taskVars
  <2>2. queue[e] = {}
        BY <2>1 DEF ExecInv
  <2>3. QED
        BY <1>1, <2>1, <2>2 DEF TaskInv, After, Working, workerVars
<1>4. CASE Enqueue(e)
  <2>1. PICK r \in todo[e] : /\ todo' = [todo EXCEPT ![e] = @ \ {r}]
                             /\ queue' = [queue EXCEPT ![e] = @ \cup {r}]
                             /\ UpdateStatus(e, r, "Ready")
        BY <1>4 DEF Enqueue
  <2>2. r \in Tasks /\ todo'[e] = todo[e] \ {r} /\ queue'[e] = queue[e] \cup {r}
        BY <2>1 DEF Types
  <2>3. /\ status'[a][r] = "Ready" /\ \A d \in Tasks \ {r} : status'[a][d] = status[a][d]
        /\ closed'[a] = closed[a]
        BY <2>1, <2>2, UpdateMine
  <2>4. pc[e] = "mark" /\ UNCHANGED <<pc, hand, workerVars>> /\ status[a] \in [Tasks -> Status]
        BY <1>4 DEF Enqueue, Types
  <2>5. QED
        BY <1>1, <2>1, <2>2, <2>3, <2>4 DEF TaskInv, After, Working, workerVars, Terminal
<1>5. CASE Enqueued(e)
  <2>1. /\ pc[e] = "mark" /\ pc'[e] = "dispatch" /\ todo[e] = {}
        /\ UNCHANGED <<status, closed, hand, queue, workerVars>>
        BY <1>5 DEF Enqueued, LastRound, Goto, Types, taskVars
  <2>2. QED
        BY <1>1, <2>1 DEF TaskInv, After, Working, workerVars
<1>6. QED
      BY <1>2, <1>3, <1>4, <1>5

\* Each is dispatched unless the execution fails; what it left is cancelled then.
LEMMA LifeExecutes ==
    ASSUME Types, NEW e \in Execs, NEW a \in array[e], NEW t \in Tasks, ExecInv(e), TaskInv(e, a, t),
           \/ Dispatch(e) \/ StopDispatch(e) \/ Join(e) \/ Sweep(e) \/ CancelTask(e)
           \/ CheckCompleted(e)
    PROVE  TaskInv(e, a, t)'
<1>1. CASE Dispatch(e)
  <2>1. PICK r \in queue[e] :
             /\ queue' = [queue EXCEPT ![e] = @ \ {r}]
             /\ wpc' = IF r \in InPlan(e, {"Ready"}) THEN [wpc EXCEPT ![e][r] = "enter"] ELSE wpc
        BY <1>1 DEF Dispatch
  <2>2. r \in Tasks /\ queue'[e] = queue[e] \ {r}
        BY <2>1 DEF Types
  <2>3. pc[e] = "dispatch" /\ UNCHANGED <<status, closed, pc, todo, hand, results, failing>>
        BY <1>1 DEF Dispatch, taskVars
  <2>4. t # r => wpc'[e][t] = wpc[e][t]
        BY <2>1, <2>2 DEF Types
  <2>5. t = r => status[a][t] = "Ready" /\ wpc'[e][t] = "enter"
    <3>1. t = r => status[a][t] = "Ready"
          BY <2>1, <2>3 DEF TaskInv, Working
    <3>2. t = r => t \in InPlan(e, {"Ready"})
          BY <3>1, InPlanMine
    <3>3. QED
          BY <2>1, <3>1, <3>2 DEF Types
  <2>6. QED
        BY <2>2, <2>3, <2>4, <2>5 DEF TaskInv, After, Working
<1>2. CASE StopDispatch(e) \/ Join(e)
  <2>1. /\ pc[e] \in Working /\ pc'[e] \in {"join", "sweep", "check"}
        /\ UNCHANGED <<status, closed, hand, queue, workerVars>>
        BY <1>2 DEF StopDispatch, Join, Goto, Types, taskVars, Working
  <2>2. QED
        BY <2>1 DEF TaskInv, After, Working, workerVars
<1>3. CASE Sweep(e)
  <2>1. PICK r \in todo[e] :
             IF r \in InPlan(e, Terminal) THEN pc[e] = "sweep" /\ UNCHANGED <<pc, hand>>
             ELSE Goto(e, "sweep", "cancel") /\ hand' = [hand EXCEPT ![e] = {r}]
        BY <1>3 DEF Sweep
  <2>2. UNCHANGED <<status, closed, queue, workerVars>>
        BY <1>3 DEF Sweep, taskVars
  <2>3. CASE r \in InPlan(e, Terminal)
        BY <2>1, <2>2, <2>3 DEF TaskInv, After, Working, workerVars
  <2>4. CASE r \notin InPlan(e, Terminal)
    <3>1. pc[e] = "sweep" /\ pc'[e] = "cancel" /\ hand'[e] = {r}
          BY <2>1, <2>4 DEF Goto, Types
    <3>2. r = t => status[a][t] \notin Terminal
          BY <2>4, InPlanMine
    <3>3. QED
          BY <2>2, <3>1, <3>2 DEF TaskInv, After, Working, workerVars
  <2>5. QED
        BY <2>3, <2>4
<1>4. CASE CancelTask(e)
  <2>1. PICK r \in hand[e] : UpdateStatus(e, r, "Cancelled")
        BY <1>4 DEF CancelTask
  <2>2. r \in Tasks
        BY DEF Types
  <2>3. /\ status'[a][r] = "Cancelled" /\ \A d \in Tasks \ {r} : status'[a][d] = status[a][d]
        /\ closed'[a] = closed[a] \cup {r}
        BY <2>1, <2>2, UpdateMine
  <2>4. /\ pc[e] = "cancel" /\ pc'[e] = "sweep" /\ UNCHANGED <<queue, workerVars>>
        /\ status[a] \in [Tasks -> Status]
        BY <1>4 DEF CancelTask, Goto, Types
  <2>5. wpc[e][t] = "none"
        BY <2>4 DEF ExecInv, Working
  <2>6. QED
        BY <2>3, <2>4, <2>5 DEF TaskInv, After, Working, workerVars, Terminal
<1>5. CASE CheckCompleted(e)
  <2>1. pc[e] = "check" /\ UNCHANGED <<status, closed, pc, hand, queue, workerVars>>
        BY <1>5 DEF CheckCompleted, taskVars
  <2>2. QED
        BY <2>1 DEF TaskInv, After, Working, workerVars
<1>6. QED
      BY <1>1, <1>2, <1>3, <1>4, <1>5

\* A worker takes its own task from ready to its end.
LEMMA LifeWorks ==
    ASSUME Types, NEW e \in Execs, NEW a \in array[e], NEW t \in Tasks, NEW r \in Tasks, ExecInv(e),
           TaskInv(e, a, t), TaskInv(e, a, r), Worker(e, r)
    PROVE  TaskInv(e, a, t)'
<1>1. pc[e] \in Working /\ UNCHANGED mainVars
      BY DEF Worker, WorkerStep, Enter, ToolReturns, SetResult, MarkCompleted, MarkFailed, SendErr, ExecInv
<1>2. \A d \in Tasks \ {r} : wpc'[e][d] = wpc[e][d]
      BY DEF Worker, WorkerStep, Enter, ToolReturns, SetResult, MarkCompleted, MarkFailed, SendErr, Types
<1>3. results[e] \subseteq results'[e] /\ failing \subseteq failing'
      BY DEF Worker, Enter, ToolReturns, SetResult, MarkCompleted, MarkFailed, SendErr, Types
<1>4. /\ \A d \in Tasks \ {r} : status'[a][d] = status[a][d]
      /\ closed'[a] \ {r} = closed[a] \ {r}
      BY DEF Worker, Enter, ToolReturns, SetResult, MarkCompleted, MarkFailed, SendErr,
             UpdateStatus, SetStatus, Types, taskVars
<1>5. CASE t # r
      BY <1>1, <1>2, <1>3, <1>4, <1>5 DEF TaskInv, mainVars, Working, After
<1>6. CASE t = r
  <2> USE <1>1, <1>6 DEF TaskInv, mainVars, Working, After, Types, WorkerStep
  <2>1. CASE Enter(e, t)
    <3>1. \/ /\ e \in failing /\ wpc'[e][t] = "none" /\ status'[a][t] = "Cancelled" /\ t \in closed'[a]
          \/ /\ wpc'[e][t] = "tool" /\ status'[a][t] = "Running" /\ closed'[a] = closed[a]
          BY <2>1, UpdateMine DEF Enter
    <3>2. failing' = failing /\ wpc[e][t] = "enter"
          BY <2>1 DEF Enter
    <3>3. QED
          BY <3>1, <3>2 DEF Terminal
  <2>2. CASE ToolReturns(e, t) \/ SetResult(e, t)
    <3>1. /\ wpc[e][t] \in {"tool", "store"} /\ wpc'[e][t] \in {"store", "fail", "complete"}
          /\ UNCHANGED <<status, closed>>
          BY <2>2 DEF ToolReturns, SetResult, taskVars
    <3>2. QED
          BY <3>1
  <2>3. CASE MarkCompleted(e, t)
    <3>1. /\ wpc[e][t] = "complete" /\ wpc'[e][t] = "none" /\ t \in results'[e]
          /\ status'[a][t] = "Completed" /\ t \in closed'[a]
          BY <2>3, UpdateMine DEF MarkCompleted, ExecInv
    <3>2. QED
          BY <3>1 DEF Terminal
  <2>4. CASE MarkFailed(e, t)
    <3>1. wpc[e][t] = "fail" /\ wpc'[e][t] = "send" /\ status'[a][t] = "Failed" /\ t \in closed'[a]
          BY <2>4, UpdateMine DEF MarkFailed
    <3>2. QED
          BY <3>1 DEF Terminal
  <2>5. CASE SendErr(e, t)
    <3>1. wpc[e][t] = "send" /\ wpc'[e][t] = "none" /\ e \in failing' /\ UNCHANGED <<status, closed>>
          BY <2>5 DEF SendErr, taskVars
    <3>2. QED
          BY <3>1
  <2>6. QED
        BY <2>1, <2>2, <2>3, <2>4, <2>5 DEF Worker
<1>7. QED
      BY <1>5, <1>6

LEMMA LifeNext ==
    ASSUME Types, \A e \in Execs : ExecInv(e), AloneInv, LifeInv, [Next]_vars PROVE LifeInv'
<1>1. ASSUME NEW u \in Execs, Step(u) PROVE LifeInv'
  <2> SUFFICES ASSUME NEW e \in Execs \ met', NEW a \in Arrays, NEW t \in Tasks,
                      pc'[e] # "done", a \in array'[e]
               PROVE  TaskInv(e, a, t)'
      BY DEF LifeInv
  <2>1. pc[u] # "done" /\ e \notin met
        BY <1>1, StepArrays
  <2>2. CASE e # u
    <3>1. Mine(e) /\ TaskInv(e, a, t)
          BY <1>1, <2>1, <2>2, OthersMine DEF Mine, LifeInv
    <3>2. a \notin array[u]
          BY <2>1, <2>2, <3>1 DEF AloneInv, Mine
    <3>3. QED
          BY <1>1, <3>1, <3>2, OthersArray, TaskInvSame
  <2>3. CASE e = u /\ (CacheHit(e) \/ FlowReturns(e) \/ CacheSet(e))
        BY <2>3, LifeBegins
  <2>4. CASE e = u /\ ~(CacheHit(e) \/ FlowReturns(e) \/ CacheSet(e))
    <3>1. a \in array[e]
          BY <1>1, <2>4 DEF Step, GeneratePlan, Start, CacheMiss, FlowFails, ResetStatus, ResetChannel,
                  Built, ExecutePlan, FindReadyTasks, Found, Enqueue, Enqueued, Dispatch, StopDispatch,
                  Join, Sweep, CancelTask, CheckCompleted, Conclude, Return, Worker, Enter,
                  ToolReturns, SetResult, MarkCompleted, MarkFailed, SendErr, planVars
    <3>2. \A d \in Tasks : TaskInv(e, a, d)
          BY <2>1, <2>4, <3>1 DEF LifeInv
    <3>3. CASE Start(e) \/ CacheMiss(e)
      <4>1. array[e] = {}
            BY <3>3 DEF Start, CacheMiss, Goto, ExecInv, Before
      <4>2. QED
            BY <3>1, <4>1
    <3>4. ~FlowFails(e) /\ ~Conclude(e)
          BY DEF FlowFails, Conclude, Return, Goto, Types
    <3>5. ASSUME NEW r \in Tasks, Worker(e, r) PROVE TaskInv(e, a, t)'
          BY <3>1, <3>2, <3>5, LifeWorks
    <3>6. QED
          BY <1>1, <2>4, <3>1, <3>2, <3>3, <3>4, <3>5, LifeBuilds, LifeFinds, LifeExecutes
          DEF Step, GeneratePlan, ExecutePlan
  <2>5. QED
        BY <2>2, <2>3, <2>4
<1>2. CASE Expire
      BY <1>2, TaskInvSame DEF Expire, LifeInv, Mine, SameArray, taskVars, mainVars, workerVars
<1>3. CASE UNCHANGED vars
      BY <1>3, TaskInvSame DEF LifeInv, vars, planVars, taskVars, mainVars, workerVars, Mine, SameArray
<1>4. QED
      BY <1>1, <1>2, <1>3, StepKinds

-----------------------------------------------------------------------------
(* The properties *)

\* Only the execution that steps can panic, and it does not unless another one
\* has closed the channel.
LEMMA PanicNext ==
    ASSUME Types, \A e \in Execs : ExecInv(e), LifeInv, PanicNeedsOverlap, [Next]_vars
    PROVE  PanicNeedsOverlap'
<1>1. ASSUME NEW u \in Execs, Step(u) PROVE PanicNeedsOverlap'
  <2>1. met \subseteq met' /\ pc[u] # "done"
        BY <1>1, StepArrays
  <2>2. panicked' \subseteq panicked \cup {u}
        BY <1>1, OthersMine DEF Types, Step, GeneratePlan, Start, CacheHit, CacheMiss, FlowReturns,
                FlowFails, CacheSet, ResetStatus, ResetChannel, Built, ExecutePlan, FindReadyTasks,
                Found, Enqueue, Enqueued, Dispatch, StopDispatch, Join, Sweep, CancelTask,
                CheckCompleted, Conclude, Return, Worker, Enter, ToolReturns, SetResult,
                MarkCompleted, MarkFailed, SendErr, UpdateStatus, taskVars
  <2>3. ASSUME u \notin met PROVE panicked' = panicked
    <3>1. \A a \in array[u], t \in Tasks : TaskInv(u, a, t)
          BY <2>1, <2>3 DEF LifeInv, Types
    <3>2. CASE CancelTask(u)
      <4>1. PICK t \in hand[u] : UpdateStatus(u, t, "Cancelled")
            BY <3>2 DEF CancelTask
      <4>2. pc[u] = "cancel" /\ t \in Tasks
            BY <3>2 DEF CancelTask, Goto, Types
      <4>3. \A a \in array[u] : t \notin closed[a]
            BY <3>1, <4>1, <4>2 DEF TaskInv, After
      <4>4. QED
            BY <4>1, <4>3 DEF UpdateStatus
    <3>3. ASSUME NEW t \in Tasks, Enter(u, t) \/ MarkCompleted(u, t) \/ MarkFailed(u, t)
          PROVE  panicked' = panicked
      <4>1. wpc[u][t] \in {"enter", "complete", "fail"} /\ pc[u] \in After
            BY <3>3 DEF Enter, MarkCompleted, MarkFailed, WorkerStep, ExecInv, Working, After
      <4>2. \A a \in array[u] : t \notin closed[a]
            BY <3>1, <4>1 DEF TaskInv, Terminal
      <4>3. QED
            BY <3>3, <4>2 DEF Enter, MarkCompleted, MarkFailed, UpdateStatus
    <3>4. CASE GeneratePlan(u)
          BY <3>4 DEF GeneratePlan, Start, CacheHit, CacheMiss, FlowReturns, FlowFails, CacheSet,
                  ResetStatus, ResetChannel, Built, taskVars
    <3>5. CASE ExecutePlan(u) /\ ~CancelTask(u)
          BY <3>5 DEF ExecutePlan, FindReadyTasks, Found, Enqueue, Enqueued, Dispatch, StopDispatch,
                  Join, Sweep, CheckCompleted, Conclude, Return, UpdateStatus, Terminal, taskVars
    <3>6. ASSUME NEW t \in Tasks, ToolReturns(u, t) \/ SetResult(u, t) \/ SendErr(u, t)
          PROVE  panicked' = panicked
          BY <3>6 DEF ToolReturns, SetResult, SendErr, taskVars
    <3>7. QED
          BY <1>1, <3>2, <3>3, <3>4, <3>5, <3>6 DEF Step, Worker
  <2>4. QED
        BY <2>1, <2>2, <2>3 DEF PanicNeedsOverlap
<1>2. CASE Expire \/ UNCHANGED vars
      BY <1>2 DEF Expire, PanicNeedsOverlap, vars, planVars, taskVars
<1>3. QED
      BY <1>1, <1>2, StepKinds

\* Results are kept, and only the worker that has stored one completes a task.
LEMMA CompletedNext ==
    ASSUME Types, \A e \in Execs : ExecInv(e), CompletedWasRun, [Next]_vars PROVE CompletedWasRun'
<1>1. ASSUME NEW u \in Execs, Step(u) PROVE CompletedWasRun'
  <2>1. \A x \in Execs : results[x] \subseteq results'[x]
        BY <1>1 DEF Types, Step, GeneratePlan, Start, CacheHit, CacheMiss, FlowReturns, FlowFails,
                CacheSet, ResetStatus, ResetChannel, Built, ExecutePlan, FindReadyTasks, Found,
                Enqueue, Enqueued, Dispatch, StopDispatch, Join, Sweep, CancelTask, CheckCompleted,
                Conclude, Return, Worker, Enter, ToolReturns, SetResult, MarkCompleted, MarkFailed,
                SendErr, workerVars
  <2>2. \A x \in Execs : array[x] # {} => array'[x] = array[x]
    <3>1. array[u] # {} => array'[u] = array[u]
          BY <1>1, StepArrays DEF CacheHit, Goto, ExecInv, Before
    <3>2. QED
          BY <1>1, <3>1, OthersMine DEF Mine
  <2>3. ASSUME NEW a \in Arrays, NEW t \in Tasks, status'[a][t] = "Completed"
        PROVE  status[a][t] = "Completed" \/ (MarkCompleted(u, t) /\ a \in array[u])
    <3>1. CASE GeneratePlan(u)
          BY <2>3, <3>1 DEF Types, GeneratePlan, Start, CacheHit, CacheMiss, FlowReturns, FlowFails,
                  CacheSet, ResetStatus, ResetChannel, Built, SetStatus, taskVars
    <3>2. CASE ExecutePlan(u)
          BY <2>3, <3>2 DEF Types, ExecutePlan, FindReadyTasks, Found, Enqueue, Enqueued, Dispatch,
                  StopDispatch, Join, Sweep, CancelTask, CheckCompleted, Conclude, Return,
                  UpdateStatus, SetStatus, taskVars
    <3>3. ASSUME NEW r \in Tasks, Worker(u, r)
          PROVE  status[a][t] = "Completed" \/ (MarkCompleted(u, t) /\ a \in array[u])
      <4>1. CASE MarkCompleted(u, r)
            BY <2>3, <4>1 DEF Types, MarkCompleted, UpdateStatus, SetStatus
      <4>2. CASE ~MarkCompleted(u, r)
            BY <2>3, <3>3, <4>2 DEF Types, Worker, Enter, ToolReturns, SetResult, MarkFailed,
                    SendErr, UpdateStatus, SetStatus, taskVars
      <4>3. QED
            BY <4>1, <4>2
    <3>4. QED
          BY <1>1, <3>1, <3>2, <3>3 DEF Step
  <2> SUFFICES ASSUME NEW a \in Arrays, NEW t \in Tasks, status'[a][t] = "Completed"
               PROVE  \E e \in Execs : array'[e] = {a} /\ t \in results'[e]
      BY DEF CompletedWasRun
  <2>4. \E e \in Execs : array[e] = {a} /\ t \in results[e]
    <3>1. CASE MarkCompleted(u, t) /\ a \in array[u]
      <4>1. t \in results[u]
            BY <3>1 DEF MarkCompleted, WorkerStep, ExecInv
      <4>2. array[u] = {a}
        <5>1. One(array[u])
              BY DEF Types
        <5>2. QED
              BY <3>1, <5>1 DEF One
      <4>3. QED
            BY <4>1, <4>2
    <3>2. QED
          BY <2>3, <3>1 DEF CompletedWasRun
  <2>5. QED
        BY <2>1, <2>2, <2>4
<1>2. CASE Expire \/ UNCHANGED vars
      BY <1>2 DEF Expire, CompletedWasRun, vars, planVars, taskVars, workerVars
<1>3. QED
      BY <1>1, <1>2, StepKinds

\* An execution concludes that all is well only when it has looked at every task, and
\* at that point one that met no other has completed them all.
LEMMA CompleteNext ==
    ASSUME Types, \A e \in Execs : ExecInv(e), LifeInv, AloneIsComplete, [Next]_vars
    PROVE  AloneIsComplete'
<1>1. ASSUME NEW u \in Execs, Step(u) PROVE AloneIsComplete'
  <2> SUFFICES ASSUME NEW e \in Execs \ met'
               PROVE  (outcome'[e] = "ok" => results'[e] = Tasks) /\ outcome'[e] # "incomplete"
      BY DEF AloneIsComplete
  <2>1. e \notin met /\ pc[u] # "done"
        BY <1>1, StepArrays
  <2>2. CASE e # u
        BY <1>1, <2>1, <2>2, OthersMine DEF Mine, AloneIsComplete
  <2>3. CASE e = u
    <3>1. outcome[e] = "none"
          BY <2>1, <2>3 DEF ExecInv
    <3>2. CASE Conclude(e)
      <4>1. UNCHANGED workerVars
            BY <3>2 DEF Conclude, Return
      <4>2. CASE Return(e, "sweep", "error")
            BY <4>2 DEF Return, Types
      <4>3. ASSUME pc[e] = "check"
            PROVE  results[e] = Tasks /\ \A t \in Tasks : t \in InPlan(e, {"Completed"})
        <5>1. PICK a \in array[e] : a \in Arrays
          <6>1. array[e] # {}
                BY <4>3 DEF ExecInv, Before
          <6>2. array[e] \subseteq Arrays
                BY DEF Types
          <6>3. QED
                BY <6>1, <6>2
        <5>2. e \notin failing /\ queue[e] = {} /\ \A t \in Tasks : wpc[e][t] = "none"
              BY <4>3 DEF ExecInv, After, Working
        <5>3. \A t \in Tasks : status[a][t] = "Completed" /\ t \in results[e]
              BY <2>1, <2>3, <4>3, <5>1, <5>2 DEF LifeInv, TaskInv, After
        <5>4. QED
              BY <5>1, <5>3, InPlanMine DEF Types
      <4>4. CASE Return(e, "check", "ok")
            BY <4>1, <4>3, <4>4 DEF Return, Goto, Types, workerVars
      <4>5. ~Return(e, "check", "incomplete") \/ todo[e] \subseteq InPlan(e, {"Completed"})
            BY <4>3 DEF Return, Goto, Types
      <4>6. QED
            BY <3>2, <4>2, <4>4, <4>5 DEF Conclude
    <3>3. CASE ~Conclude(e)
      <4>1. outcome'[e] = outcome[e] \/ outcome'[e] = "noPlan"
            BY <1>1, <2>3, <3>3 DEF Types, Step, GeneratePlan, Start, CacheHit, CacheMiss, FlowReturns,
                FlowFails, CacheSet, ResetStatus, ResetChannel, Built, ExecutePlan, FindReadyTasks,
                Found, Enqueue, Enqueued, Dispatch, StopDispatch, Join, Sweep, CancelTask,
                CheckCompleted, Worker, Enter, ToolReturns, SetResult, MarkCompleted, MarkFailed,
                SendErr, mainVars
      <4>2. QED
            BY <3>1, <4>1
    <3>4. QED
          BY <3>2, <3>3
  <2>4. QED
        BY <2>2, <2>3
<1>2. CASE Expire \/ UNCHANGED vars
      BY <1>2 DEF Expire, AloneIsComplete, vars, planVars, mainVars, workerVars
<1>3. QED
      BY <1>1, <1>2, StepKinds

-----------------------------------------------------------------------------
(* The theorems *)

PlanInv ==
    /\ Types
    /\ \A e \in Execs : ExecInv(e)
    /\ NamedInv /\ AloneInv /\ LifeInv
    /\ PanicNeedsOverlap /\ AloneIsComplete /\ CompletedWasRun

LEMMA PlanInit == Init => PlanInv
<1> SUFFICES ASSUME Init PROVE PlanInv
    OBVIOUS
<1>1. \A e \in Execs : ExecInv(e)
      BY DEF Init, ExecInv, Before, Working, After
<1>2. NamedInv /\ AloneInv /\ LifeInv
      BY DEF Init, NamedInv, AloneInv, LifeInv
<1>3. PanicNeedsOverlap /\ AloneIsComplete /\ CompletedWasRun
      BY DEF Init, PanicNeedsOverlap, AloneIsComplete, CompletedWasRun
<1>4. QED
      BY <1>1, <1>2, <1>3, TypeInit DEF PlanInv

LEMMA PlanNext == PlanInv /\ [Next]_vars => PlanInv'
BY TypeNext, ExecInvNext, NamedNext, AloneNext, LifeNext, PanicNext, CompleteNext, CompletedNext DEF PlanInv

\* PlanInv holds in every reachable state.
THEOREM PlanInvHolds == Spec => []PlanInv
BY PlanInit, PlanNext, PTL DEF Spec

\* A ResultChannel is closed twice only by an execution whose task array another one
\* used at the same time.
THEOREM PanicNeedsOverlapHolds == Spec => []PanicNeedsOverlap
<1>1. PlanInv => PanicNeedsOverlap
      BY DEF PlanInv
<1>2. QED
      BY <1>1, PlanInvHolds, PTL

\* An execution that shared its array with no other at the time does not return
\* "some tasks did not complete", and has every result when it returns no error.
THEOREM AloneIsCompleteHolds == Spec => []AloneIsComplete
<1>1. PlanInv => AloneIsComplete
      BY DEF PlanInv
<1>2. QED
      BY <1>1, PlanInvHolds, PTL

\* A task that is completed has a result in the plan of an execution over its array.
THEOREM CompletedWasRunHolds == Spec => []CompletedWasRun
<1>1. PlanInv => CompletedWasRun
      BY DEF PlanInv
<1>2. QED
      BY <1>1, PlanInvHolds, PTL
=============================================================================
