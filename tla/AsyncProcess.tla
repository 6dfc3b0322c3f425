----------------------------- MODULE AsyncProcess -----------------------------
(***************************************************************************)
(* Asynchronous executions: ProcessAsync and the API over its map          *)
(* (dragonscale.go, async_utils.go), and the state machine each execution  *)
(* runs in a goroutine of its own (process_state.go,                       *)
(* dragon_transitions.go).                                                 *)
(*                                                                         *)
(* The map is guarded by asyncExecutionsMutex; the ProcessContext it holds *)
(* is not: StateMachine.Execute reads and writes it without the mutex that *)
(* CancelAsyncProcess writes it under.  A step here is therefore one read  *)
(* or one write of a shared field, except where both sides hold the mutex. *)
(* Queries, plans, answers and events are abstracted away, and so is the   *)
(* history stack, which nothing reads.  Of the event bus is kept whether   *)
(* it still takes events.  The process lives: that concurrent access to    *)
(* StateStartTimes and StateData, which are Go maps, or a Publish on a     *)
(* closing bus may kill it is left out.                                    *)
(***************************************************************************)

CONSTANTS
    Execs,      \* the executions ProcessAsync may be asked for
    Retrieval   \* whether retrieval is enabled and a retriever configured

ASSUME RetrievalAssumption == Retrieval \in BOOLEAN

VARIABLES
    caller,     \* where ProcessAsync is
    listed,     \* the keys of d.asyncExecutions
    armed,      \* executions with StateData["cancel"]
    mutex,      \* who holds asyncExecutionsMutex: nobody, or a cancellation
    cancelPc,   \* where that CancelAsyncProcess is
    ctxDone,    \* executions whose asyncCtx is done
    state,      \* CurrentState
    lastError,  \* LastError, by origin
    answer,     \* executions with a FinalAnswer
    stamped,    \* the keys of StateStartTimes that are terminal states
    pc,         \* where the goroutine is
    local,      \* its variables: the transition, nextState, err and result
    jammed,     \* the bus takes no more events, for good (AsyncEvents!Jammed)
    cancelled,  \* history: CancelAsyncProcess returned true
    failed,     \* history: a stage returned an error
    given       \* history: GetAsyncResult returned the answer

callerVars == <<caller, listed, armed>>
apiVars    == <<mutex, cancelPc, cancelled, given>>
fieldVars  == <<state, lastError, answer, stamped>>
runVars    == <<pc, local, failed>>
vars == <<callerVars, apiVars, ctxDone, jammed, fieldVars, runVars>>

Stage         == {"init", "planning", "execution", "retrieval", "synthesis"}
TerminalState == {"complete", "error", "cancelled"}
ProcessState  == Stage \cup TerminalState

\* cancelled by the user, by the context, or an error of a stage
Err == {"none", "user", "ctx", "stage"}

Local == [at : ProcessState, next : ProcessState, err : Err, result : BOOLEAN]
Fresh == [at |-> "init", next |-> "init", err |-> "none", result |-> FALSE]
Pc == {"idle", "start", "head", "check", "lookup", "run", "failed", "errored", "error",
       "interrupted", "guard", "assign", "return", "finish", "publish", "done"}

TypeOK ==
    /\ caller \in [Execs -> {"new", "listed", "armed", "interrupted", "returned"}]
    /\ listed \subseteq Execs /\ armed \subseteq Execs
    /\ mutex \in {{}} \cup {{e} : e \in Execs}
    /\ cancelPc \in {"idle", "fire", "mark", "blame", "publish"}
    /\ ctxDone \subseteq Execs /\ jammed \in BOOLEAN
    /\ state \in [Execs -> ProcessState]
    /\ lastError \in [Execs -> Err]
    /\ answer \subseteq Execs
    /\ stamped \in [Execs -> SUBSET TerminalState]
    /\ pc \in [Execs -> Pc]
    /\ local \in [Execs -> Local]
    /\ cancelled \subseteq Execs /\ given \subseteq Execs /\ failed \subseteq Execs

Init ==
    /\ caller = [e \in Execs |-> "new"] /\ listed = {} /\ armed = {}
    /\ mutex = {} /\ cancelPc = "idle" /\ cancelled = {} /\ given = {}
    /\ ctxDone = {} /\ jammed = FALSE
    /\ state = [e \in Execs |-> "init"]
    /\ lastError = [e \in Execs |-> "none"]
    /\ answer = {}
    /\ stamped = [e \in Execs |-> {}]
    /\ pc = [e \in Execs |-> "idle"]
    /\ local = [e \in Execs |-> Fresh]
    /\ failed = {}

IsTerminal(e) == state[e] \in TerminalState

\* The event bus gets stuck: every Publish from now on waits for its context.
Jam ==
    /\ ~jammed /\ jammed' = TRUE
    /\ UNCHANGED <<callerVars, apiVars, ctxDone, fieldVars, runVars>>

-----------------------------------------------------------------------------
(* ProcessAsync *)

CallerStep(e, from, to) == caller[e] = from /\ caller' = [caller EXCEPT ![e] = to]

\* The execution is in the map before it can be cancelled.
Register(e) ==
    /\ CallerStep(e, "new", "listed") /\ mutex = {}
    /\ listed' = listed \cup {e}
    /\ UNCHANGED <<armed, apiVars, ctxDone, jammed, fieldVars, runVars>>

StoreCancel(e) ==
    /\ CallerStep(e, "listed", "armed")
    /\ armed' = armed \cup {e}
    /\ UNCHANGED <<listed, apiVars, ctxDone, jammed, fieldVars, runVars>>

\* The start event is published with the caller's own context, and then the
\* goroutine is started.
Spawn(e) ==
    /\ \/ CallerStep(e, "armed", "returned") /\ ~jammed
       \/ CallerStep(e, "interrupted", "returned")
    /\ pc' = [pc EXCEPT ![e] = "start"]
    /\ UNCHANGED <<listed, armed, apiVars, ctxDone, jammed, fieldVars, local, failed>>

\* The context ProcessAsync was given is cancelled or expires, and asyncCtx
\* with it.
ParentDone(e) ==
    /\ \/ CallerStep(e, "armed", "interrupted")
       \/ caller[e] = "returned" /\ UNCHANGED caller
    /\ ctxDone' = ctxDone \cup {e}
    /\ UNCHANGED <<listed, armed, apiVars, jammed, fieldVars, runVars>>

-----------------------------------------------------------------------------
(* StateMachine.Execute(e), without the mutex *)

Goto(e, from, to) == pc[e] = from /\ pc' = [pc EXCEPT ![e] = to]

\* The variables of the loop's body and of the goroutine, set and out of scope.
Remember(e, field, value) == local' = [local EXCEPT ![e] = [@ EXCEPT ![field] = value]]
Forget(e) == local' = [local EXCEPT ![e] = Fresh]

\* The time of a terminal state is recorded. This comes right after the state
\* is assigned and is read by cleanup only: one step with the assignment.
Stamp(e, s) == stamped' = [stamped EXCEPT ![e] = @ \cup {s}]

\* Execute records the time of the state it finds, which may be one that a
\* cancellation has set by now.
Start(e) ==
    /\ Goto(e, "start", "head")
    /\ IF IsTerminal(e) THEN Stamp(e, state[e]) ELSE UNCHANGED stamped
    /\ UNCHANGED <<callerVars, apiVars, ctxDone, jammed, state, lastError, answer, local, failed>>

Head(e) ==
    /\ Goto(e, "head", IF IsTerminal(e) THEN "return" ELSE "check")
    /\ UNCHANGED <<callerVars, apiVars, ctxDone, jammed, fieldVars, local, failed>>

\* Mutant of CheckCtx: the context is left to the stages.
CtxIgnored(e) ==
    /\ Goto(e, "check", "lookup")
    /\ UNCHANGED <<callerVars, apiVars, ctxDone, jammed, fieldVars, local, failed>>

\* A done context ends the execution: SetCancelled, first half (LastError).
CheckCtx(e) ==
    /\ IF e \in ctxDone
         THEN /\ Goto(e, "check", "interrupted")
              /\ lastError' = [lastError EXCEPT ![e] = "ctx"]
         ELSE Goto(e, "check", "lookup") /\ UNCHANGED lastError
    /\ UNCHANGED <<callerVars, apiVars, ctxDone, jammed, state, answer, stamped, local, failed>>

\* SetCancelled, second half (CurrentState); Execute returns "" and ctx.Err().
SetCancelled(e) ==
    /\ Goto(e, "interrupted", "finish")
    /\ state' = [state EXCEPT ![e] = "cancelled"]
    /\ Stamp(e, "cancelled")
    /\ local' = [local EXCEPT ![e] = [@ EXCEPT !.err = "ctx", !.result = FALSE]]
    /\ UNCHANGED <<callerVars, apiVars, ctxDone, jammed, lastError, answer, failed>>

\* The transition is looked up by the state of now, not by that of Head.
Lookup(e) ==
    /\ Goto(e, "lookup", "run")
    /\ Remember(e, "at", state[e])
    /\ UNCHANGED <<callerVars, apiVars, ctxDone, jammed, fieldVars, failed>>

NextState(s) ==
    CASE s = "init"      -> "planning"
      [] s = "planning"  -> "execution"
      [] s = "execution" -> IF Retrieval THEN "retrieval" ELSE "synthesis"
      [] s = "retrieval" -> "synthesis"
      [] s = "synthesis" -> "complete"

\* Mutant of StageSucceeds: synthesis forgets the answer.
AnswerForgotten(e) ==
    /\ local[e].at \in Stage
    /\ Goto(e, "run", "guard")
    /\ Remember(e, "next", NextState(local[e].at))
    /\ UNCHANGED <<callerVars, apiVars, ctxDone, jammed, fieldVars, failed>>

\* A stage publishes what it does with asyncCtx, and waits for room that long.
Published(e) == ~jammed \/ e \in ctxDone

\* The transition of a stage succeeds; synthesis stores the answer.
StageSucceeds(e) ==
    /\ local[e].at \in Stage /\ Published(e)
    /\ Goto(e, "run", "guard")
    /\ Remember(e, "next", NextState(local[e].at))
    /\ answer' = IF local[e].at = "synthesis" THEN answer \cup {e} ELSE answer
    /\ UNCHANGED <<callerVars, apiVars, ctxDone, jammed, state, lastError, stamped, failed>>

\* Mutant of StageFails: the error is dropped on the way.
FailureDropped(e) ==
    /\ local[e].at \in {"planning", "execution", "synthesis"}
    /\ Goto(e, "run", "guard")
    /\ Remember(e, "next", NextState(local[e].at))
    /\ failed' = failed \cup {e}
    /\ UNCHANGED <<callerVars, apiVars, ctxDone, jammed, fieldVars>>

\* It fails; init cannot, retrieval goes on without a context. The error is
\* wrapped, so that a cancelled context is no longer recognised in it.
StageFails(e) ==
    /\ local[e].at \in {"planning", "execution", "synthesis"} /\ Published(e)
    /\ Goto(e, "run", "failed")
    /\ Remember(e, "err", "stage")
    /\ failed' = failed \cup {e}
    /\ UNCHANGED <<callerVars, apiVars, ctxDone, jammed, fieldVars>>

\* A cancellation slipped in before Lookup: the error transition runs, and
\* returns LastError if that is set by now. It publishes nothing.
ErrorTransition(e) ==
    /\ local[e].at = "error"
    /\ IF lastError[e] = "none"
         THEN Goto(e, "run", "guard") /\ Remember(e, "next", "error")
         ELSE Goto(e, "run", "failed") /\ Remember(e, "err", lastError[e])
    /\ UNCHANGED <<callerVars, apiVars, ctxDone, jammed, fieldVars, failed>>

\* After a failed transition the state is left alone if it is terminal.
AfterFailure(e) ==
    /\ IF IsTerminal(e) THEN Goto(e, "failed", "head") /\ Forget(e)
                        ELSE Goto(e, "failed", "errored") /\ UNCHANGED local
    /\ UNCHANGED <<callerVars, apiVars, ctxDone, jammed, fieldVars, failed>>

\* SetError: LastError first, then CurrentState.
SetLastError(e) ==
    /\ Goto(e, "errored", "error")
    /\ lastError' = [lastError EXCEPT ![e] = local[e].err]
    /\ UNCHANGED <<callerVars, apiVars, ctxDone, jammed, state, answer, stamped, local, failed>>

SetErrorState(e) ==
    /\ Goto(e, "error", "head")
    /\ state' = [state EXCEPT ![e] = "error"]
    /\ Stamp(e, "error") /\ Forget(e)
    /\ UNCHANGED <<callerVars, apiVars, ctxDone, jammed, lastError, answer, failed>>

\* After a successful one the same test guards the assignment of nextState...
Guard(e) ==
    /\ IF IsTerminal(e) THEN Goto(e, "guard", "head") /\ Forget(e)
                        ELSE Goto(e, "guard", "assign") /\ UNCHANGED local
    /\ UNCHANGED <<callerVars, apiVars, ctxDone, jammed, fieldVars, failed>>

\* Mutant of Assign: the time is not recorded.
AssignUntimed(e) ==
    /\ Goto(e, "assign", "head") /\ Forget(e)
    /\ state' = [state EXCEPT ![e] = local[e].next]
    /\ UNCHANGED <<callerVars, apiVars, ctxDone, jammed, lastError, answer, stamped, failed>>

\* ...which happens in a step of its own.
Assign(e) ==
    /\ Goto(e, "assign", "head") /\ Forget(e)
    /\ state' = [state EXCEPT ![e] = local[e].next]
    /\ IF local[e].next \in TerminalState THEN Stamp(e, local[e].next)
                                          ELSE UNCHANGED <<stamped>>
    /\ UNCHANGED <<callerVars, apiVars, ctxDone, jammed, lastError, answer, failed>>

\* Execute returns FinalAnswer and LastError.
Return(e) ==
    /\ Goto(e, "return", "finish")
    /\ local' = [local EXCEPT ![e] = [@ EXCEPT !.err = lastError[e], !.result = e \in answer]]
    /\ UNCHANGED <<callerVars, apiVars, ctxDone, jammed, fieldVars, failed>>

\* Back in the goroutine, under the mutex: the outcome is put into the context
\* if the execution is still in the map.
Finish(e) ==
    /\ Goto(e, "finish", "publish") /\ Forget(e) /\ mutex = {}
    /\ IF e \notin listed THEN UNCHANGED <<fieldVars>>
       ELSE /\ answer' = IF local[e].result THEN answer \cup {e} ELSE answer \ {e}
            /\ IF local[e].err = "ctx"
                 THEN /\ state' = [state EXCEPT ![e] = "cancelled"]
                      /\ lastError' = [lastError EXCEPT ![e] = "ctx"]
                      /\ Stamp(e, "cancelled")
               ELSE IF IsTerminal(e) THEN UNCHANGED <<state, lastError, stamped>>
               ELSE IF local[e].err # "none"
                 THEN /\ state' = [state EXCEPT ![e] = "error"]
                      /\ lastError' = [lastError EXCEPT ![e] = local[e].err]
                      /\ Stamp(e, "error")
                 ELSE /\ state' = [state EXCEPT ![e] = "complete"]
                      /\ Stamp(e, "complete")
                      /\ UNCHANGED lastError
    /\ UNCHANGED <<callerVars, apiVars, ctxDone, jammed, failed>>

\* The completion event has a background context; the deferred cancel follows.
Leave(e) ==
    /\ Goto(e, "publish", "done") /\ ~jammed
    /\ ctxDone' = ctxDone \cup {e}
    /\ UNCHANGED <<callerVars, apiVars, jammed, fieldVars, local, failed>>

Goroutine(e) ==
    \/ Start(e) \/ Head(e) \/ CheckCtx(e) \/ SetCancelled(e) \/ Lookup(e)
    \/ StageSucceeds(e) \/ StageFails(e) \/ ErrorTransition(e)
    \/ AfterFailure(e) \/ SetLastError(e) \/ SetErrorState(e)
    \/ Guard(e) \/ Assign(e) \/ Return(e) \/ Finish(e) \/ Leave(e)

-----------------------------------------------------------------------------
(* The API over the map, under the mutex *)

\* What GetAsyncResult(e) finds.
Outcome(e) ==
    IF e \notin listed THEN "notFound"
    ELSE IF state[e] = "error" THEN "failed"
    ELSE IF state[e] # "complete" THEN "inProgress"
    ELSE IF lastError[e] # "none" THEN "completeWithError"
    ELSE "answer"

\* It is called, and returns the answer.
GetAsyncResult(e) ==
    /\ mutex = {} /\ Outcome(e) = "answer"
    /\ given' = given \cup {e}
    /\ UNCHANGED <<callerVars, mutex, cancelPc, cancelled, ctxDone, jammed, fieldVars, runVars>>

\* Mutant of CancelStart: no execution is refused.
CancelAnything(e) ==
    /\ mutex = {} /\ e \in listed /\ e \in armed
    /\ mutex' = {e} /\ cancelPc' = "fire"
    /\ UNCHANGED <<callerVars, cancelled, given, ctxDone, jammed, fieldVars, runVars>>

\* Only a complete or failed execution is refused, a cancelled one is not; and
\* without a cancel function nothing happens.
CancelStart(e) ==
    /\ mutex = {} /\ e \in listed /\ e \in armed
    /\ state[e] \notin {"complete", "error"}
    /\ mutex' = {e} /\ cancelPc' = "fire"
    /\ UNCHANGED <<callerVars, cancelled, given, ctxDone, jammed, fieldVars, runVars>>

CancelFire(e) ==
    /\ mutex = {e} /\ cancelPc = "fire"
    /\ ctxDone' = ctxDone \cup {e}
    /\ cancelPc' = "mark"
    /\ UNCHANGED <<callerVars, mutex, cancelled, given, jammed, fieldVars, runVars>>

\* Mutant of CancelMark: the state is misspelt.
MarkMisspelt(e) ==
    /\ mutex = {e} /\ cancelPc = "mark"
    /\ state' = [state EXCEPT ![e] = "failed"]
    /\ cancelPc' = "blame"
    /\ UNCHANGED <<callerVars, mutex, cancelled, given, ctxDone, jammed, lastError, answer, stamped, runVars>>

\* The state becomes error, and its time is not recorded.
CancelMark(e) ==
    /\ mutex = {e} /\ cancelPc = "mark"
    /\ state' = [state EXCEPT ![e] = "error"]
    /\ cancelPc' = "blame"
    /\ UNCHANGED <<callerVars, mutex, cancelled, given, ctxDone, jammed, lastError, answer, stamped, runVars>>

\* Mutant of CancelBlame: LastError is left.
NobodyBlamed(e) ==
    /\ mutex = {e} /\ cancelPc = "blame"
    /\ cancelPc' = "publish"
    /\ UNCHANGED <<callerVars, mutex, cancelled, given, ctxDone, jammed, fieldVars, runVars>>

CancelBlame(e) ==
    /\ mutex = {e} /\ cancelPc = "blame"
    /\ lastError' = [lastError EXCEPT ![e] = "user"]
    /\ cancelPc' = "publish"
    /\ UNCHANGED <<callerVars, mutex, cancelled, given, ctxDone, jammed, state, answer, stamped, runVars>>

\* Mutant of CancelPublish: the mutex is not released.
MutexKept(e) ==
    /\ mutex = {e} /\ cancelPc = "publish" /\ ~jammed
    /\ cancelled' = cancelled \cup {e} /\ cancelPc' = "idle"
    /\ UNCHANGED <<callerVars, given, mutex, ctxDone, jammed, fieldVars, runVars>>

\* The cancellation is published with a background context, while the mutex is
\* held; it is released when Publish returned.
CancelPublish(e) ==
    /\ mutex = {e} /\ cancelPc = "publish" /\ ~jammed
    /\ cancelled' = cancelled \cup {e}
    /\ mutex' = {} /\ cancelPc' = "idle"
    /\ UNCHANGED <<callerVars, given, ctxDone, jammed, fieldVars, runVars>>

CancelGoesOn(e) == CancelFire(e) \/ CancelMark(e) \/ CancelBlame(e) \/ CancelPublish(e)
CancelAsyncProcess(e) == CancelStart(e) \/ CancelGoesOn(e)

\* Complete and failed executions go whose state was entered long enough ago:
\* any of those with a recorded time, and every one without, whose time is the
\* zero time.
CleanupCompletedExecutions ==
    /\ mutex = {}
    /\ \E old \in SUBSET listed :
         /\ {e \in listed : state[e] \in {"complete", "error"} /\ state[e] \notin stamped[e]}
              \subseteq old
         /\ \A e \in old : state[e] \in {"complete", "error"}
         /\ listed' = listed \ old
    /\ UNCHANGED <<caller, armed, apiVars, ctxDone, jammed, fieldVars, runVars>>

-----------------------------------------------------------------------------
(* The specification *)

\* e waits for room on the jammed bus, with a context that lives, or for the
\* mutex that a cancellation holds which waits for room.
WaitsForRoom(e) ==
    jammed /\ \/ mutex # {}
              \/ caller[e] = "armed"
              \/ pc[e] = "run" /\ local[e].at \in Stage /\ ~Published(e)

\* Every execution has come to its end, or the jam holds it.
Stopped ==
    /\ \A e \in Execs : pc[e] = "done" \/ (jammed /\ pc[e] = "publish") \/ WaitsForRoom(e)
    /\ UNCHANGED vars

Next ==
    \/ \E e \in Execs : \/ Register(e) \/ StoreCancel(e) \/ Spawn(e) \/ ParentDone(e)
                        \/ Goroutine(e) \/ CancelAsyncProcess(e) \/ GetAsyncResult(e)
    \/ CleanupCompletedExecutions \/ Jam \/ Stopped

\* ExecutePlan may wait for the mutex of its metrics for ever
\* (DAGExecutor!WaitsForMetrics).
InExecutePlan(e) == pc[e] = "run" /\ local[e].at = "execution"

\* Goroutines are scheduled (StoreCancel and Spawn come before all steps of
\* the goroutine), the components a stage calls return, except for the
\* executor, and so does a cancellation, except from Publish on a jammed bus.
Fairness ==
    /\ \A e \in Execs : WF_vars(StoreCancel(e) \/ Spawn(e) \/ (Goroutine(e) /\ ~InExecutePlan(e)))
    /\ WF_vars(\E e \in Execs : CancelGoesOn(e))

Spec == Init /\ [][Next]_vars
FairSpec == Spec /\ Fairness

-----------------------------------------------------------------------------
(* Properties *)

\* Whoever is given an answer is given the one synthesis produced.
AnswerIsSynthesised == given \subseteq answer

\* An execution CancelAsyncProcess said it cancelled never yields an answer, and
\* one whose answer was given is never reported cancelled, however the
\* cancellation, the goroutine's writes and the callers interleave.
CancelPrevails ==
    /\ cancelled \cap given = {}
    /\ \A e \in cancelled : Outcome(e) # "answer"

\* An execution in which a stage failed is never complete.
FailureIsNotComplete == \A e \in failed : state[e] # "complete"

\* An answer that was given once is given again until it is cleaned up.
AnswerIsStable ==
    \A e \in given : mutex = {} => Outcome(e) \in {"answer", "notFound"}

\* A cleanup takes no execution away that goes on: no stage is begun for one that
\* is no longer in the map, though the goroutine may overwrite the state that the
\* cancellation set and the cleanup judged it by.
RemovedRunsNoStage ==
    [][\A e \in Execs \ listed : Lookup(e) => state[e] \notin Stage]_vars

\* What a cleanup removes was judged by the time it entered its state, or its
\* cancellation had been accepted: the state that a cancellation leaves without
\* a time is never taken for the end of an execution nobody cancelled.
CleanupIsPatient ==
    [][\A e \in listed \ listed' : state[e] \in stamped[e] \/ e \in cancelled]_vars

\* Every execution that is started comes to a terminal state and stays in one:
\* neither a cancellation that holds the mutex nor one that lost the race for
\* CurrentState leaves a caller to poll for ever. It does not only if it never
\* comes back from ExecutePlan, or if the bus is jammed and its context lives,
\* or a cancellation took the mutex with it into the jam.
EveryExecutionEnds ==
    \A e \in Execs :
        (caller[e] # "new") ~> [](\/ pc[e] \in {"publish", "done"} /\ IsTerminal(e)
                                  \/ InExecutePlan(e) \/ WaitsForRoom(e))

\* The comment in GetAsyncResult: a complete execution has no LastError
\* ("shouldn't happen with current logic").
CompleteHasNoError ==
    \A e \in Execs : mutex = {} /\ state[e] = "complete" => lastError[e] = "none"
=============================================================================
