-------------------------- MODULE DAGExecutor_proofs --------------------------
(* Theorems about DAGExecutor, for every plan, pool size and retry limit. *)
EXTENDS DAGExecutor, FiniteSetTheorems, TLAPS

\* The tuples of variables and the small helpers, expanded by every step.
USE DEF vars, planVars, taskVars, mainVars, workerVars, sharedVars,
        Goto, Fail, Status, Terminal, Cause, Phase, Pc

-----------------------------------------------------------------------------
(* TypeOK *)

\* The initial states of ExecutePlan's callers have the declared types.
LEMMA TypeInit == Init => TypeOK
<1> SUFFICES ASSUME Init PROVE TypeOK
    OBVIOUS
<1> USE DEF Init
<1>1. plan \in PlanType
      BY PlansAssumption
<1>2. calls \in 0..MaxCalls
      BY BoundsAssumption
<1>3. /\ status \in [Tasks -> Status] /\ closes \in [Tasks -> Nat]
      /\ pc \in [Tasks -> Pc] /\ toRead \in [Tasks -> SUBSET Ids]
      /\ attempt \in [Tasks -> Nat] /\ failure \in [Tasks -> Cause \cup {"none"}]
      OBVIOUS
<1>4. QED
      BY <1>1, <1>2, <1>3 DEF TypeOK

\* Every step of the calling goroutine keeps the types.
LEMMA TypeMain == TypeOK /\ Main => TypeOK'
<1> SUFFICES ASSUME TypeOK, Main PROVE TypeOK'
    OBVIOUS
<1> USE DEF TypeOK
<1>1. CASE Call
  <2>1. calls' \in 0..MaxCalls
        BY <1>1, BoundsAssumption DEF Call
  <2>2. /\ pc' \in [Tasks -> Pc] /\ toRead' \in [Tasks -> SUBSET Ids]
        /\ attempt' \in [Tasks -> Nat] /\ failure' \in [Tasks -> Cause \cup {"none"}]
        BY <1>1 DEF Call
  <2>3. QED
        BY <1>1, <2>1, <2>2 DEF Call
<1>2. CASE ResetMetrics
      BY <1>2 DEF ResetMetrics
<1>3. CASE Scan
      BY <1>3 DEF Scan, UpdateStatus, FindReadyTasks
<1>4. CASE StopDispatch
      BY <1>4 DEF StopDispatch
<1>5. CASE Pop
      BY <1>5 DEF Pop
<1>6. CASE Offer
      BY <1>6 DEF Offer
<1>7. CASE Join
      BY <1>7 DEF Join
<1>8. CASE ReturnError
      BY <1>8 DEF ReturnError, UpdateStatus
<1>9. CASE ReturnPlain
      BY <1>9 DEF ReturnPlain
<1>10. QED
      BY <1>1, <1>2, <1>3, <1>4, <1>5, <1>6, <1>7, <1>8, <1>9 DEF Main

\* So does every step of a goroutine of the pool.
LEMMA TypeWorker ==
    ASSUME NEW t \in Tasks, TypeOK, Worker(t) PROVE TypeOK'
<1> USE DEF TypeOK
<1>1. CASE Skip(t) \/ Enter(t)
      BY <1>1 DEF Skip, Enter, UpdateStatus
<1>9. CASE Begin(t)
  <2>1. plan.reads[t] \in SUBSET Ids
        BY DEF PlanType
  <2>2. QED
        BY <1>9, <2>1 DEF Begin, UpdateStatus
<1>2. CASE Resolve(t)
      BY <1>2 DEF Resolve, CheckArgument, FetchArgument, ArgumentFails, ArgumentsResolved
<1>3. CASE TryTool(t)
      BY <1>3 DEF TryTool
<1>4. CASE ToolReturns(t)
  <2>1. CASE ToolSucceeds(t) \/ ToolReturnsNil(t) \/ ToolInterrupted(t)
        BY <2>1 DEF ToolSucceeds, ToolReturnsNil, ToolInterrupted
  <2>2. CASE ToolFails(t)
        BY <2>2 DEF ToolFails
  <2>3. CASE ToolPanics(t)
        BY <2>3 DEF ToolPanics
  <2>4. QED
        BY <1>4, <2>1, <2>2, <2>3 DEF ToolReturns
<1>5. CASE BackoffInterrupted(t) \/ BackoffElapsed(t)
      BY <1>5 DEF BackoffInterrupted, BackoffElapsed
<1>6. CASE MarkFailed(t) \/ MarkCompleted(t)
      BY <1>6 DEF MarkFailed, MarkCompleted, UpdateStatus
<1>7. CASE SendErr(t) \/ Cancel(t) \/ SetResult(t) \/ Leave(t)
      BY <1>7 DEF SendErr, Cancel, SetResult, Leave
<1>8. QED
      BY <1>1, <1>9, <1>2, <1>3, <1>4, <1>5, <1>6, <1>7 DEF Worker

\* Every state the executor reaches has the declared types.
THEOREM TypeCorrect == Spec => []TypeOK
<1>1. TypeOK /\ [Next]_vars => TypeOK'
  <2> SUFFICES ASSUME TypeOK, [Next]_vars PROVE TypeOK'
      OBVIOUS
  <2>1. CASE Main
        BY <2>1, TypeMain
  <2>2. CASE \E t \in Tasks : Worker(t)
        BY <2>2, TypeWorker
  <2>3. CASE ParentDone \/ MetricsFatal \/ Stopped \/ UNCHANGED vars
        BY <2>3 DEF ParentDone, MetricsFatal, Stopped, TypeOK
  <2>4. QED
        BY <2>1, <2>2, <2>3 DEF Next
<1>2. QED
      BY TypeInit, <1>1, PTL DEF Spec

-----------------------------------------------------------------------------
(* The inductive invariant *)

\* What IInv says besides TypeOK, one conjunct for each piece of shared state.
Parts == /\ StatusFollowsPc /\ QueueWaits /\ Joined /\ ClosedIffEnded
         /\ ResultsFollowPc /\ DependenciesFirst /\ ErrorBeforeCancel /\ ErrorReturned

\* The calling goroutine keeps the parts of IInv: what it queues, sweeps or
\* returns fits where the workers are.
LEMMA PartsMain ==
    ASSUME IInv, Main PROVE Parts'
<1> USE DEF TypeOK, Parts, UpdateStatus, IInv, StatusFollowsPc, QueueWaits, Joined, ClosedIffEnded, ResultsFollowPc,
                DependenciesFirst, ErrorBeforeCancel, ErrorReturned, RootCause, Active
<1>1. CASE Call
      BY <1>1 DEF Call
<1>2. CASE ResetMetrics
      BY <1>2 DEF ResetMetrics
<1>3. CASE Scan
      BY <1>3 DEF Scan, FindReadyTasks
<1>4. CASE StopDispatch
      BY <1>4 DEF StopDispatch
<1>5. CASE Pop
      BY <1>5 DEF Pop
<1>6. CASE Offer
      BY <1>6 DEF Offer
<1>7. CASE Join
      BY <1>7 DEF Join
<1>8. CASE ReturnError
      BY <1>8 DEF ReturnError
<1>9. CASE ReturnPlain
      BY <1>9 DEF ReturnPlain
<1>10. QED
      BY <1>1, <1>2, <1>3, <1>4, <1>5, <1>6, <1>7, <1>8, <1>9 DEF Main

\* A goroutine of the pool keeps them, whatever its siblings and the context do.
LEMMA PartsWorker ==
    ASSUME IInv, NEW w \in Tasks, Worker(w) PROVE Parts'
<1> USE DEF TypeOK, Parts, UpdateStatus, IInv, StatusFollowsPc, QueueWaits, Joined, ClosedIffEnded, ResultsFollowPc,
                DependenciesFirst, ErrorBeforeCancel, ErrorReturned, RootCause, Active
<1>1. CASE Skip(w)
      BY <1>1 DEF Skip
<1>2. CASE Enter(w)
      BY <1>2 DEF Enter
<1>3. CASE Begin(w)
      BY <1>3 DEF Begin
<1>4. CASE CheckArgument(w)
      BY <1>4 DEF CheckArgument
<1>5. CASE FetchArgument(w)
      BY <1>5 DEF FetchArgument
<1>6. CASE ArgumentFails(w)
      BY <1>6 DEF ArgumentFails
<1>7. CASE ArgumentsResolved(w)
      BY <1>7 DEF ArgumentsResolved
<1>8. CASE TryTool(w)
      BY <1>8 DEF TryTool
<1>9. CASE ToolSucceeds(w)
      BY <1>9 DEF ToolSucceeds
<1>10. CASE ToolReturnsNil(w)
      BY <1>10 DEF ToolReturnsNil
<1>11. CASE ToolInterrupted(w)
      BY <1>11 DEF ToolInterrupted
<1>12. CASE ToolFails(w)
      BY <1>12 DEF ToolFails
<1>13. CASE ToolPanics(w)
      BY <1>13 DEF ToolPanics
<1>14. CASE BackoffInterrupted(w)
      BY <1>14 DEF BackoffInterrupted
<1>15. CASE BackoffElapsed(w)
      BY <1>15 DEF BackoffElapsed
<1>16. CASE MarkFailed(w)
      BY <1>16 DEF MarkFailed
<1>17. CASE SendErr(w)
      BY <1>17 DEF SendErr
<1>18. CASE Cancel(w)
      BY <1>18 DEF Cancel
<1>19. CASE SetResult(w)
      BY <1>19 DEF SetResult
<1>20. CASE MarkCompleted(w)
      BY <1>20 DEF MarkCompleted
<1>21. CASE Leave(w)
      BY <1>21 DEF Leave
<1>22. QED
      BY <1>1, <1>2, <1>3, <1>4, <1>5, <1>6, <1>7, <1>8, <1>9, <1>10, <1>11, <1>12, <1>13, <1>14, <1>15, <1>16, <1>17, <1>18, <1>19, <1>20, <1>21 DEF Worker, Resolve, ToolReturns

\* The caller's context, a fatal error and stuttering keep them.
LEMMA PartsOther ==
    ASSUME IInv, ParentDone \/ MetricsFatal \/ UNCHANGED vars PROVE Parts'
<1> USE DEF TypeOK, Parts, IInv, StatusFollowsPc, QueueWaits, Joined, ClosedIffEnded, ResultsFollowPc,
                DependenciesFirst, ErrorBeforeCancel, ErrorReturned, RootCause, Active
<1>1. CASE ParentDone
      BY <1>1 DEF ParentDone
<1>2. CASE MetricsFatal \/ UNCHANGED vars
      BY <1>2 DEF MetricsFatal
<1>3. QED
      BY <1>1, <1>2

\* They hold of a fresh plan.
LEMMA PartsInit == Init => Parts
<1> SUFFICES ASSUME Init PROVE Parts
    OBVIOUS
<1> USE DEF Init
<1>1. StatusFollowsPc /\ QueueWaits /\ Joined /\ ClosedIffEnded
      BY DEF StatusFollowsPc, QueueWaits, Joined, ClosedIffEnded, Active
<1>2. ResultsFollowPc /\ DependenciesFirst /\ ErrorBeforeCancel /\ ErrorReturned
      BY DEF ResultsFollowPc, DependenciesFirst, ErrorBeforeCancel, ErrorReturned, RootCause
<1>3. QED
      BY <1>1, <1>2 DEF Parts

\* The inductive invariant holds in every reachable state.
THEOREM Invariant == Spec => []IInv
<1>1. Init => IInv
      BY TypeInit, PartsInit DEF IInv, Parts
<1>2. IInv /\ [Next]_vars => Parts'
  <2> SUFFICES ASSUME IInv, [Next]_vars PROVE Parts'
      OBVIOUS
  <2>1. CASE Main
        BY <2>1, PartsMain
  <2>2. CASE \E t \in Tasks : Worker(t)
        BY <2>2, PartsWorker
  <2>3. CASE ParentDone \/ MetricsFatal \/ UNCHANGED vars
        BY <2>3, PartsOther
  <2>4. QED
        BY <2>1, <2>2, <2>3 DEF Next, Stopped
<1>3. IInv /\ TypeOK' /\ Parts' => IInv'
      BY DEF IInv, Parts
<1>4. QED
      BY <1>1, <1>2, <1>3, TypeCorrect, PTL DEF Spec

-----------------------------------------------------------------------------
(* What follows from it *)

\* No ResultChannel is closed twice, so UpdateStatus never panics.
THEOREM ClosedOnceHolds == Spec => []ClosedOnce
<1>1. IInv => ClosedOnce
      BY DEF IInv, TypeOK, ClosedIffEnded, ClosedOnce
<1>2. QED
      BY <1>1, Invariant, PTL

\* A task is never queued, let alone run, before all it depends on completed.
THEOREM DependenciesFirstHolds == Spec => []DependenciesFirst
<1>1. IInv => DependenciesFirst
      BY DEF IInv
<1>2. QED
      BY <1>1, Invariant, PTL

\* A completed task's result is always there for those that read it.
THEOREM ResultsPublishedHolds == Spec => []ResultsPublished
<1>1. IInv => ResultsPublished
      BY DEF IInv, ResultsFollowPc, ResultsPublished
<1>2. QED
      BY <1>1, Invariant, PTL

\* The executor's own cancellation is never what ExecutePlan reports.
THEOREM RootCauseHolds == Spec => []RootCause
<1>1. IInv => RootCause
      BY DEF IInv, ErrorBeforeCancel
<1>2. QED
      BY <1>1, Invariant, PTL

\* A failure of this call is always reported as an error that was sent.
THEOREM FailureReportedHolds == Spec => []FailureReported
<1>1. IInv => FailureReported
      BY DEF IInv, ErrorBeforeCancel, FailureReported
<1>2. QED
      BY <1>1, Invariant, PTL

\* After an error return no task is left waiting or running.
THEOREM CleanErrorReturnHolds == Spec => []CleanErrorReturn
<1>1. IInv => CleanErrorReturn
      BY DEF IInv, ErrorReturned, CleanErrorReturn
<1>2. QED
      BY <1>1, Invariant, PTL

-----------------------------------------------------------------------------
(* The pool *)

\* No step but Offer puts a task into a worker's hands.
LEMMA ActiveShrinks ==
    ASSUME IInv, Next, ~Offer PROVE Active' \subseteq Active
<1> USE DEF IInv, TypeOK, Active
<1>1. CASE Main
      BY <1>1 DEF Main, Call, ResetMetrics, Scan, StopDispatch, Pop, Join, ReturnError, ReturnPlain
<1>2. ASSUME NEW w \in Tasks, Worker(w) PROVE Active' \subseteq Active
  <2>1. /\ pc[w] \notin {"idle", "done"}
        /\ \E p : pc' = [pc EXCEPT ![w] = p]
    <3>1. CASE Skip(w) \/ Enter(w) \/ Begin(w) \/ Resolve(w) \/ TryTool(w)
          BY <3>1 DEF Skip, Enter, Begin, Resolve, CheckArgument, FetchArgument,
                      ArgumentFails, ArgumentsResolved, TryTool
    <3>2. CASE ToolReturns(w) \/ BackoffInterrupted(w) \/ BackoffElapsed(w)
          BY <3>2 DEF ToolReturns, ToolSucceeds, ToolReturnsNil, ToolInterrupted, ToolFails,
                      ToolPanics, BackoffInterrupted, BackoffElapsed
    <3>3. CASE MarkFailed(w) \/ SendErr(w) \/ Cancel(w) \/ SetResult(w) \/ MarkCompleted(w) \/ Leave(w)
          BY <3>3 DEF MarkFailed, SendErr, Cancel, SetResult, MarkCompleted, Leave
    <3>4. QED
          BY <1>2, <3>1, <3>2, <3>3 DEF Worker
  <2>2. QED
        BY <2>1
<1>3. CASE ParentDone \/ MetricsFatal \/ Stopped
      BY <1>3 DEF ParentDone, MetricsFatal, Stopped
<1>4. QED
      BY <1>1, <1>2, <1>3 DEF Next

\* The pool never runs more than MaxWorkers tasks, and none outlives the call.
THEOREM WorkersBoundedHolds == Spec => []WorkersBounded
<1>1. Init => WorkersBounded
  <2>1. Init => Active = {}
        BY DEF Init, Active
  <2>2. QED
        BY <2>1, FS_EmptySet, BoundsAssumption DEF WorkersBounded
<1>2. IInv /\ IInv' /\ WorkersBounded /\ [Next]_vars => WorkersBounded'
  <2> SUFFICES ASSUME IInv, IInv', WorkersBounded, [Next]_vars
               PROVE Cardinality(Active') \leq MaxWorkers
      BY DEF IInv, Joined, WorkersBounded
  <2>1. IsFiniteSet(Active) /\ Cardinality(Active) \in Nat
        BY TasksAssumption, FS_Subset, FS_CardinalityType DEF Active
  <2>2. CASE Offer
    <3>1. PICK t \in Tasks : held = {t}
          BY <2>2 DEF Offer, IInv, QueueWaits
    <3>2. Active' = Active \cup {t}
          BY <2>2, <3>1 DEF Offer, Active, IInv, TypeOK
    <3>3. t \notin Active
          BY <2>2, <3>1 DEF Offer, Active, IInv, QueueWaits
    <3>4. Cardinality(Active') = Cardinality(Active) + 1
          BY <3>2, <3>3, <2>1, FS_AddElement
    <3>5. QED
          BY <2>1, <2>2, <3>4, BoundsAssumption DEF Offer
  <2>3. CASE Active' \subseteq Active
        BY <2>1, <2>3, FS_Subset, FS_CardinalityType, BoundsAssumption DEF WorkersBounded
  <2>4. CASE UNCHANGED vars
        BY <2>3, <2>4 DEF Active
  <2>5. QED
        BY <2>2, <2>3, <2>4, ActiveShrinks
<1>3. QED
      BY <1>1, <1>2, Invariant, PTL DEF Spec

-----------------------------------------------------------------------------
(* The executor implements TaskLifecycle *)

\* A fresh plan is one TaskLifecycle starts from.
LEMMA LifecycleInit == Init => Lifecycle!Init
BY TypeInit DEF Init, Lifecycle!Init, TypeOK, PlanType

\* The calling goroutine queues and gives up tasks as TaskLifecycle allows.
LEMMA LifecycleMain ==
    ASSUME IInv, Main PROVE [Lifecycle!Next]_(Lifecycle!vars)
<1> USE DEF IInv, TypeOK, UpdateStatus, Lifecycle!vars, Lifecycle!Next, Lifecycle!Move, Lifecycle!Ended
<1>1. CASE Call \/ ResetMetrics \/ StopDispatch \/ Pop \/ Offer \/ Join \/ ReturnPlain
      BY <1>1 DEF Call, ResetMetrics, StopDispatch, Pop, Offer, Join, ReturnPlain
<1>2. CASE Scan
  <2>1. queue' \in SUBSET Tasks
        BY <1>2 DEF Scan, FindReadyTasks
  <2>2. \A t \in queue' : /\ status[t] = "Pending"
                          /\ \A d \in plan.dependsOn[t] : d \in Tasks /\ status[d] = "Completed"
        BY <1>2 DEF Scan, FindReadyTasks
  <2>3. Lifecycle!Queue
        BY <1>2, <2>1, <2>2 DEF Scan, Lifecycle!Queue
  <2>4. QED
        BY <2>3
<1>3. CASE ReturnError
  <2>1. \A t \in Tasks : status[t] \notin Terminal => status[t] \in {"Pending", "Ready"}
        BY <1>3 DEF ReturnError, StatusFollowsPc, Joined, Active
  <2>2. Lifecycle!GiveUp
        BY <1>3, <2>1 DEF ReturnError, ErrorBeforeCancel, Lifecycle!GiveUp
  <2>3. QED
        BY <2>2
<1>4. QED
      BY <1>1, <1>2, <1>3 DEF Main

\* A goroutine of the pool runs, publishes, completes, fails or drops its task,
\* or does nothing TaskLifecycle sees.
LEMMA LifecycleWorker ==
    ASSUME IInv, NEW w \in Tasks, Worker(w) PROVE [Lifecycle!Next]_(Lifecycle!vars)
<1> USE DEF IInv, TypeOK, UpdateStatus, Lifecycle!vars, Lifecycle!Move, StatusFollowsPc
<1>1. CASE Enter(w) \/ Resolve(w) \/ TryTool(w) \/ ToolReturns(w)
           \/ BackoffInterrupted(w) \/ BackoffElapsed(w)
      BY <1>1 DEF Enter, Resolve, CheckArgument, FetchArgument, ArgumentFails, ArgumentsResolved,
                  TryTool, ToolReturns, ToolSucceeds, ToolReturnsNil, ToolInterrupted, ToolFails,
                  ToolPanics, BackoffInterrupted, BackoffElapsed
<1>2. CASE SendErr(w) \/ Cancel(w) \/ Leave(w)
      BY <1>2 DEF SendErr, Cancel, Leave
<1>3. CASE Skip(w)
  <2>1. Lifecycle!Drop(w)
        BY <1>3 DEF Skip, Lifecycle!Drop
  <2>2. QED
        BY <2>1 DEF Lifecycle!Next
<1>4. CASE Begin(w)
  <2>1. Lifecycle!Run(w)
        BY <1>4 DEF Begin, Lifecycle!Run
  <2>2. QED
        BY <2>1 DEF Lifecycle!Next
<1>5. CASE MarkFailed(w)
  <2>1. Lifecycle!FailTask(w)
        BY <1>5 DEF MarkFailed, ResultsFollowPc, Lifecycle!FailTask
  <2>2. QED
        BY <2>1 DEF Lifecycle!Next
<1>6. CASE SetResult(w)
  <2>1. Lifecycle!Publish(w)
        BY <1>6 DEF SetResult, Lifecycle!Publish
  <2>2. QED
        BY <2>1 DEF Lifecycle!Next
<1>7. CASE MarkCompleted(w)
  <2>1. Lifecycle!Complete(w)
        BY <1>7 DEF MarkCompleted, ResultsFollowPc, Lifecycle!Complete
  <2>2. QED
        BY <2>1 DEF Lifecycle!Next
<1>8. QED
      BY <1>1, <1>2, <1>3, <1>4, <1>5, <1>6, <1>7 DEF Worker

\* So every step is a step of TaskLifecycle or stutters.
LEMMA LifecycleStep == IInv /\ [Next]_vars => [Lifecycle!Next]_(Lifecycle!vars)
<1> SUFFICES ASSUME IInv, [Next]_vars PROVE [Lifecycle!Next]_(Lifecycle!vars)
    OBVIOUS
<1>1. CASE Main
      BY <1>1, LifecycleMain
<1>2. CASE \E t \in Tasks : Worker(t)
      BY <1>2, LifecycleWorker
<1>3. CASE ParentDone \/ MetricsFatal \/ UNCHANGED vars
      BY <1>3 DEF ParentDone, MetricsFatal, Lifecycle!vars
<1>4. QED
      BY <1>1, <1>2, <1>3 DEF Next, Stopped

\* Whatever the plan, the pool and the retries, the executor moves tasks and
\* results only as TaskLifecycle says.
THEOREM ImplementsLifecycle == Spec => LifecycleSpec
<1>1. QED
      BY LifecycleInit, LifecycleStep, Invariant, PTL DEF Spec, LifecycleSpec, Lifecycle!Spec

\* How a task ended never changes.
THEOREM TerminalIsFinalHolds == Spec => TerminalIsFinal
<1>1. [Lifecycle!Next]_(Lifecycle!vars) /\ TypeOK =>
        \A t \in Tasks : status[t] \in Terminal => status'[t] = status[t]
      BY DEF Lifecycle!Next, Lifecycle!vars, Lifecycle!Queue, Lifecycle!Run, Lifecycle!Publish,
             Lifecycle!Complete, Lifecycle!FailTask, Lifecycle!Drop, Lifecycle!GiveUp,
             Lifecycle!Move, TypeOK
<1>2. IInv /\ [Next]_vars =>
        [\A t \in Tasks : status[t] \in Terminal => status'[t] = status[t]]_vars
      BY <1>1, LifecycleStep DEF IInv
<1>3. QED
      BY <1>2, Invariant, PTL DEF Spec, TerminalIsFinal
=============================================================================
