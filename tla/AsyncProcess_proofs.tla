-------------------------- MODULE AsyncProcess_proofs --------------------------
(* Theorems about AsyncProcess, for any executions, with and without retrieval. *)
EXTENDS AsyncProcess, TLAPS

-----------------------------------------------------------------------------
(* TypeOK *)

\* The variables of a goroutine keep their types, whichever of them it assigns.
LEMMA LocalType ==
    ASSUME NEW l \in Local, NEW s \in ProcessState, NEW x \in Err, NEW r \in BOOLEAN
    PROVE  /\ [l EXCEPT !["at"] = s] \in Local /\ [l EXCEPT !["next"] = s] \in Local
           /\ [l EXCEPT !["err"] = x] \in Local
           /\ [l EXCEPT !.err = x, !.result = r] \in Local
BY DEF Local

\* An assignment to one of them is read back, and leaves the others.
LEMMA LocalFields ==
    ASSUME NEW l \in Local, NEW s, NEW x, NEW r
    PROVE  /\ [l EXCEPT !["next"] = s].next = s
           /\ [l EXCEPT !["err"] = x].err = x
           /\ [l EXCEPT !.err = x, !.result = r].err = x
           /\ [l EXCEPT !.err = x, !.result = r].result = r
BY DEF Local

\* Before they are set they have the types too, and no error.
LEMMA FreshType == Fresh \in Local /\ Fresh.err = "none"
BY DEF Fresh, Local, ProcessState, Stage, Err

\* Every stage has a next state.
LEMMA NextStateType ==
    ASSUME NEW s \in Stage
    PROVE  /\ NextState(s) \in ProcessState
           /\ NextState(s) = "complete" <=> s = "synthesis"
           /\ NextState(s) \in TerminalState => NextState(s) = "complete"
BY DEF NextState, Stage, ProcessState, TerminalState

\* The types hold before anything is asked for.
LEMMA TypeInit == Init => TypeOK
<1> SUFFICES ASSUME Init PROVE TypeOK
    OBVIOUS
<1>1. local \in [Execs -> Local]
      BY FreshType DEF Init
<1>2. /\ state \in [Execs -> ProcessState] /\ lastError \in [Execs -> Err]
      /\ stamped \in [Execs -> SUBSET TerminalState]
      BY DEF Init, ProcessState, Stage, Err
<1>3. QED
      BY <1>1, <1>2 DEF Init, TypeOK, Pc

\* ProcessAsync, the parent context and the API keep them...
LEMMA TypeCallers ==
    ASSUME TypeOK, NEW e \in Execs,
           \/ Register(e) \/ StoreCancel(e) \/ Spawn(e) \/ ParentDone(e)
           \/ CancelAsyncProcess(e) \/ GetAsyncResult(e)
    PROVE  TypeOK'
<1> USE DEF TypeOK, callerVars, apiVars, fieldVars, runVars
<1>1. CASE Register(e) \/ StoreCancel(e) \/ Spawn(e) \/ ParentDone(e)
      BY <1>1 DEF Register, StoreCancel, Spawn, ParentDone, CallerStep, Pc
<1>2. CASE CancelStart(e) \/ CancelFire(e) \/ GetAsyncResult(e)
      BY <1>2 DEF CancelStart, CancelFire, GetAsyncResult
<1>3. CASE CancelMark(e) \/ CancelBlame(e) \/ CancelPublish(e)
      BY <1>3 DEF CancelMark, CancelBlame, CancelPublish, Err, ProcessState, TerminalState
<1>4. QED
      BY <1>1, <1>2, <1>3 DEF CancelAsyncProcess, CancelGoesOn

\* ...and so does the goroutine.
LEMMA TypeGoroutine ==
    ASSUME TypeOK, NEW e \in Execs, Goroutine(e) PROVE TypeOK'
<1> USE DEF TypeOK, callerVars, apiVars, fieldVars, runVars, Goto, Pc
<1> Fresh \in Local
      BY FreshType
<1>1. CASE Start(e) \/ Head(e) \/ CheckCtx(e) \/ AfterFailure(e) \/ Guard(e) \/ Leave(e)
      BY <1>1 DEF Start, Stamp, IsTerminal, Head, CheckCtx, AfterFailure, Guard, Leave, Forget, Err
<1>2. CASE SetCancelled(e)
  <2>1. local' \in [Execs -> Local]
        BY <1>2, LocalType DEF SetCancelled, Err
  <2>2. QED
        BY <1>2, <2>1 DEF SetCancelled, Stamp, ProcessState, TerminalState
<1>3. CASE Lookup(e)
  <2>1. local' \in [Execs -> Local]
        BY <1>3, LocalType DEF Lookup, Remember
  <2>2. QED
        BY <1>3, <2>1 DEF Lookup
<1>4. CASE StageSucceeds(e)
  <2>1. local' \in [Execs -> Local]
        BY <1>4, LocalType, NextStateType DEF StageSucceeds, Remember
  <2>2. QED
        BY <1>4, <2>1 DEF StageSucceeds
<1>5. CASE StageFails(e)
  <2>1. local' \in [Execs -> Local]
        BY <1>5, LocalType DEF StageFails, Remember, Err
  <2>2. QED
        BY <1>5, <2>1 DEF StageFails
<1>6. CASE ErrorTransition(e)
  <2>1. lastError[e] \in Err /\ "error" \in ProcessState /\ local[e] \in Local
        BY DEF ProcessState, TerminalState
  <2>2. /\ [local[e] EXCEPT !["next"] = "error"] \in Local
        /\ [local[e] EXCEPT !["err"] = lastError[e]] \in Local
        BY <2>1, LocalType
  <2>3. local' \in [Execs -> Local]
        BY <1>6, <2>2 DEF ErrorTransition, Remember
  <2>4. QED
        BY <1>6, <2>3 DEF ErrorTransition
<1>7. CASE SetLastError(e) \/ SetErrorState(e) \/ Assign(e)
  <2>1. local[e].err \in Err /\ local[e].next \in ProcessState
        BY DEF Local
  <2>2. QED
        BY <1>7, <2>1 DEF SetLastError, SetErrorState, Assign, Forget, Stamp, ProcessState, TerminalState
<1>8. CASE Return(e)
  <2>1. lastError[e] \in Err /\ (e \in answer) \in BOOLEAN /\ local[e] \in Local
        OBVIOUS
  <2>2. [local[e] EXCEPT !.err = lastError[e], !.result = e \in answer] \in Local
        BY <2>1, LocalType
  <2>3. local' \in [Execs -> Local]
        BY <1>8, <2>2 DEF Return
  <2>4. QED
        BY <1>8, <2>3 DEF Return
<1>9. CASE Finish(e)
  <2>1. local[e].err \in Err
        BY DEF Local
  <2>2. state' \in [Execs -> ProcessState]
        BY <1>9 DEF Finish, ProcessState, TerminalState
  <2>3. lastError' \in [Execs -> Err]
        BY <1>9, <2>1 DEF Finish, Err
  <2>4. stamped' \in [Execs -> SUBSET TerminalState]
        BY <1>9 DEF Finish, Stamp, TerminalState
  <2>5. answer' \subseteq Execs
        BY <1>9 DEF Finish
  <2>6. QED
        BY <1>9, <2>2, <2>3, <2>4, <2>5 DEF Finish, Forget
<1>10. QED
      BY <1>1, <1>2, <1>3, <1>4, <1>5, <1>6, <1>7, <1>8, <1>9 DEF Goroutine

\* So does every step.
LEMMA TypeNext ==
    ASSUME TypeOK, [Next]_vars PROVE TypeOK'
<1> USE DEF vars, callerVars, apiVars, fieldVars, runVars
<1>1. CASE CleanupCompletedExecutions
      BY <1>1 DEF TypeOK, CleanupCompletedExecutions
<1>2. CASE UNCHANGED vars \/ Jam
      BY <1>2 DEF TypeOK, Jam
<1>3. QED
      BY <1>1, <1>2, TypeCallers, TypeGoroutine DEF Next, Stopped

\* Every reachable state has the types.
THEOREM TypeHolds == Spec => []TypeOK
BY TypeInit, TypeNext, PTL DEF Spec

-----------------------------------------------------------------------------
(* The invariant of an execution *)

\* Where the goroutine is when it has written its last state, or may have.
Ended == {"head", "return", "finish", "publish", "done"}

\* ProcessAsync starts the goroutine last.
Started(e) == pc[e] # "idle" => caller[e] = "returned"

\* It is complete only with an answer, no failed stage, and the goroutine past its
\* assignment; an answer is there before complete is assigned, and comes back.
CompleteInv(e) ==
    /\ state[e] = "complete" => pc[e] \in Ended /\ e \in answer /\ e \notin failed
    /\ pc[e] \in {"guard", "assign"} /\ local[e].next = "complete" => e \in answer
    /\ pc[e] = "finish" /\ state[e] = "complete" => local[e].result

\* The loop is left in a terminal state, and never goes on to a stage after one failed.
EndInv(e) ==
    /\ pc[e] \in {"return", "finish", "publish", "done"} => IsTerminal(e)
    /\ e \in failed =>
         pc[e] \in {"failed", "errored", "error"} \/ (pc[e] \in Ended /\ IsTerminal(e))

\* LastError is never taken back, so a cancelled execution keeps one; whoever was given
\* the answer found none, and no cancellation holds the mutex for it.
BlameInv(e) ==
    /\ \/ pc[e] = "interrupted" \/ e \in cancelled \/ (mutex = {e} /\ cancelPc = "publish")
         => lastError[e] # "none"
    /\ pc[e] \in {"failed", "errored"} => local[e].err # "none"
    /\ pc[e] = "finish" /\ local[e].err # "none" => lastError[e] # "none"
    /\ e \in given => state[e] = "complete" /\ lastError[e] = "none" /\ mutex # {e}

\* A cancellation ends the context before it writes error, so that one the goroutine
\* does not see in CurrentState stops it at its next look at the context.
CtxInv(e) ==
    /\ mutex = {e} /\ cancelPc \in {"mark", "blame", "publish"} => e \in ctxDone
    /\ state[e] \in {"complete", "error"} => pc[e] \in Ended \/ e \in ctxDone

\* So one that was cleaned up comes to no stage.
RemovedInv(e) ==
    caller[e] # "new" /\ e \notin listed =>
        /\ e \in ctxDone \/ (IsTerminal(e) /\ pc[e] \in Ended)
        /\ pc[e] = "lookup" => state[e] \notin Stage

\* Only a cancellation leaves a last state without its time.
TimeInv(e) ==
    state[e] \in {"complete", "error"} =>
        \/ state[e] \in stamped[e] \/ e \in cancelled
        \/ mutex = {e} /\ cancelPc \in {"blame", "publish"}

ExecInv(e) == /\ Started(e) /\ CompleteInv(e) /\ EndInv(e) /\ BlameInv(e)
              /\ CtxInv(e) /\ RemovedInv(e) /\ TimeInv(e)
AsyncInv == \A e \in Execs : ExecInv(e)

\* What ExecInv speaks of, and what the steps of other executions leave alone.
Same(e) ==
    /\ caller'[e] = caller[e] /\ pc'[e] = pc[e] /\ local'[e] = local[e]
    /\ state'[e] = state[e] /\ lastError'[e] = lastError[e] /\ stamped'[e] = stamped[e]
    /\ e \in answer' <=> e \in answer
    /\ e \in failed' <=> e \in failed
    /\ e \in ctxDone' <=> e \in ctxDone
    /\ e \in given' <=> e \in given
    /\ e \in cancelled' <=> e \in cancelled
    /\ mutex' = {e} <=> mutex = {e}
    /\ mutex = {e} => cancelPc' = cancelPc

\* An execution nothing happened to keeps its invariant.
LEMMA SameKeeps ==
    ASSUME NEW e \in Execs, ExecInv(e), Same(e), e \in listed' <=> e \in listed
    PROVE  ExecInv(e)'
BY DEF ExecInv, Started, CompleteInv, EndInv, BlameInv, CtxInv, RemovedInv, TimeInv, Same, IsTerminal

ApiStep(e) == Register(e) \/ StoreCancel(e) \/ Spawn(e) \/ ParentDone(e)
              \/ CancelAsyncProcess(e) \/ GetAsyncResult(e)

\* Executions meet in the mutex only.
LEMMA OthersSame ==
    ASSUME TypeOK, NEW x \in Execs, NEW e \in Execs \ {x}, ApiStep(x) \/ Goroutine(x)
    PROVE  Same(e) /\ (e \in listed' <=> e \in listed)
<1> USE DEF TypeOK, Same, callerVars, apiVars, fieldVars, runVars
<1>1. CASE Register(x) \/ StoreCancel(x) \/ Spawn(x) \/ ParentDone(x)
      BY <1>1 DEF Register, StoreCancel, Spawn, ParentDone, CallerStep
<1>2. CASE CancelAsyncProcess(x) \/ GetAsyncResult(x)
      BY <1>2 DEF CancelAsyncProcess, CancelGoesOn, CancelStart, CancelFire, CancelMark,
                  CancelBlame, CancelPublish, GetAsyncResult
<1>3. CASE Goroutine(x)
      BY <1>3 DEF Goroutine, Goto, Remember, Forget, Stamp, Start, Head, CheckCtx, SetCancelled, Lookup, StageSucceeds,
                  StageFails, ErrorTransition, AfterFailure, SetLastError, SetErrorState, Guard,
                  Assign, Return, Finish, Leave
<1>4. QED
      BY <1>1, <1>2, <1>3 DEF ApiStep

\* The callers of an execution keep its invariant: a cancellation is refused once the
\* execution is complete, and one that was given its answer is.
LEMMA ApiKeeps ==
    ASSUME TypeOK, NEW e \in Execs, ExecInv(e), ApiStep(e) PROVE ExecInv(e)'
<1> USE DEF TypeOK, callerVars, apiVars, fieldVars, runVars
<1>1. CASE Register(e) \/ StoreCancel(e)
      BY <1>1 DEF Register, StoreCancel, CallerStep, ExecInv, Started, CompleteInv, EndInv,
                  BlameInv, CtxInv, RemovedInv, TimeInv, IsTerminal
<1>2. CASE Spawn(e)
      BY <1>2 DEF Spawn, CallerStep, ExecInv, Started, CompleteInv, EndInv, BlameInv, CtxInv,
                  RemovedInv, TimeInv, IsTerminal, Ended
<1>3. CASE ParentDone(e)
      BY <1>3 DEF ParentDone, CallerStep, ExecInv, Started, CompleteInv, EndInv, BlameInv, CtxInv,
                  RemovedInv, TimeInv, IsTerminal
<1>4. CASE GetAsyncResult(e)
      BY <1>4 DEF GetAsyncResult, Outcome, ExecInv, Started, CompleteInv, EndInv, BlameInv, CtxInv,
                  RemovedInv, TimeInv, IsTerminal
<1>5. CASE CancelStart(e)
      BY <1>5 DEF CancelStart, ExecInv, Started, CompleteInv, EndInv, BlameInv, CtxInv,
                  RemovedInv, TimeInv, IsTerminal
<1>6. CASE CancelFire(e)
      BY <1>6 DEF CancelFire, ExecInv, Started, CompleteInv, EndInv, BlameInv, CtxInv,
                  RemovedInv, TimeInv, IsTerminal
<1>7. CASE CancelMark(e)
      BY <1>7 DEF CancelMark, ExecInv, Started, CompleteInv, EndInv, BlameInv, CtxInv,
                  RemovedInv, TimeInv, IsTerminal, TerminalState, Stage
<1>8. CASE CancelBlame(e) \/ CancelPublish(e)
      BY <1>8 DEF CancelBlame, CancelPublish, ExecInv, Started, CompleteInv, EndInv, BlameInv, CtxInv,
                  RemovedInv, TimeInv, IsTerminal
<1>9. QED
      BY <1>1, <1>2, <1>3, <1>4, <1>5, <1>6, <1>7, <1>8 DEF ApiStep, CancelAsyncProcess, CancelGoesOn

\* So does its goroutine.
LEMMA GoroutineKeeps ==
    ASSUME TypeOK, NEW e \in Execs, ExecInv(e), Goroutine(e) PROVE ExecInv(e)'
<1> USE DEF TypeOK, callerVars, apiVars, fieldVars, runVars, Goto,
            ExecInv, Started, CompleteInv, EndInv, BlameInv, CtxInv, RemovedInv, TimeInv, IsTerminal,
            Ended, TerminalState, Stage, Stamp, Forget
<1> Fresh \in Local /\ Fresh.err = "none"
      BY FreshType
<1>1. CASE Start(e) \/ Head(e) \/ CheckCtx(e) \/ AfterFailure(e) \/ Guard(e) \/ Leave(e)
      BY <1>1 DEF Start, Head, CheckCtx, AfterFailure, Guard, Leave
<1>2. CASE SetCancelled(e)
      BY <1>2 DEF SetCancelled
<1>3. CASE Lookup(e)
      BY <1>3 DEF Lookup, Remember
<1>4. CASE StageSucceeds(e)
  <2>1. /\ pc[e] = "run" /\ pc'[e] = "guard" /\ local[e].at \in Stage
        /\ local'[e].next = NextState(local[e].at)
        /\ e \in answer' <=> local[e].at = "synthesis" \/ e \in answer
        BY <1>4, LocalFields DEF StageSucceeds, Remember
  <2>2. UNCHANGED <<callerVars, apiVars, ctxDone, state, lastError, stamped, failed>>
        BY <1>4 DEF StageSucceeds
  <2>3. QED
        BY <2>1, <2>2, NextStateType
<1>5. CASE StageFails(e)
  <2>1. local[e] \in Local
        OBVIOUS
  <2>2. [local[e] EXCEPT !["err"] = "stage"].err = "stage"
        BY <2>1, LocalFields
  <2>3. pc[e] = "run" /\ pc'[e] = "failed" /\ local'[e].err = "stage"
        BY <1>5, <2>2 DEF StageFails, Remember
  <2>4. UNCHANGED <<callerVars, apiVars, ctxDone, fieldVars>> /\ failed' = failed \cup {e}
        BY <1>5 DEF StageFails
  <2>5. QED
        BY <2>3, <2>4
<1>6. CASE ErrorTransition(e)
  <2>0. local[e] \in Local
        OBVIOUS
  <2>1. /\ pc[e] = "run"
        /\ \/ pc'[e] = "guard" /\ local'[e].next = "error"
           \/ pc'[e] = "failed" /\ local'[e].err # "none"
    <3>1. /\ [local[e] EXCEPT !["next"] = "error"].next = "error"
          /\ [local[e] EXCEPT !["err"] = lastError[e]].err = lastError[e]
          BY <2>0, LocalFields
    <3>2. QED
          BY <1>6, <3>1 DEF ErrorTransition, Remember
  <2>2. UNCHANGED <<callerVars, apiVars, ctxDone, fieldVars, failed>>
        BY <1>6 DEF ErrorTransition
  <2>3. QED
        BY <2>1, <2>2
<1>7. CASE SetLastError(e)
      BY <1>7 DEF SetLastError
<1>8. CASE SetErrorState(e)
      BY <1>8 DEF SetErrorState
<1>9. CASE Assign(e)
      BY <1>9 DEF Assign
<1>10. CASE Return(e)
  <2>1. /\ pc[e] = "return" /\ pc'[e] = "finish"
        /\ local'[e].err = lastError[e] /\ local'[e].result = (e \in answer)
        BY <1>10, LocalFields DEF Return
  <2>2. UNCHANGED <<callerVars, apiVars, ctxDone, fieldVars, failed>>
        BY <1>10 DEF Return
  <2>3. QED
        BY <2>1, <2>2
<1>11. CASE Finish(e)
      BY <1>11 DEF Finish
<1>12. QED
      BY <1>1, <1>2, <1>3, <1>4, <1>5, <1>6, <1>7, <1>8, <1>9, <1>10, <1>11 DEF Goroutine

\* A cleanup judges by a state that is the last, or stands for an ended context.
LEMMA CleanupKeeps ==
    ASSUME TypeOK, NEW e \in Execs, ExecInv(e), CleanupCompletedExecutions PROVE ExecInv(e)'
<1>1. UNCHANGED <<caller, armed, apiVars, ctxDone, fieldVars, runVars>>
      BY DEF CleanupCompletedExecutions
<1>2. e \notin listed' => e \notin listed \/ state[e] \in {"complete", "error"}
      BY DEF CleanupCompletedExecutions
<1>3. RemovedInv(e)'
      BY <1>1, <1>2 DEF ExecInv, CtxInv, RemovedInv, TimeInv, IsTerminal, Ended, TerminalState, Stage,
                        apiVars, fieldVars, runVars
<1>4. QED
      BY <1>1, <1>3 DEF ExecInv, Started, CompleteInv, EndInv, BlameInv, CtxInv, TimeInv, IsTerminal,
                        apiVars, fieldVars, runVars

\* The steps of an execution, those of others and a cleanup keep them all.
LEMMA AsyncNext ==
    ASSUME TypeOK, AsyncInv, [Next]_vars PROVE AsyncInv'
<1>1. ASSUME NEW x \in Execs, ApiStep(x) \/ Goroutine(x) PROVE AsyncInv'
      BY <1>1, ApiKeeps, GoroutineKeeps, OthersSame, SameKeeps DEF AsyncInv
<1>2. CASE CleanupCompletedExecutions
      BY <1>2, CleanupKeeps DEF AsyncInv
<1>3. CASE UNCHANGED vars \/ Jam
      BY <1>3, SameKeeps DEF AsyncInv, Same, Jam, vars, callerVars, apiVars, fieldVars, runVars
<1>4. QED
      BY <1>1, <1>2, <1>3 DEF Next, Stopped, ApiStep

\* It is invariant, given the types.
LEMMA AsyncInvHolds == Spec => []AsyncInv
<1>1. Init => AsyncInv
      BY DEF Init, AsyncInv, ExecInv, Started, CompleteInv, EndInv, BlameInv, CtxInv, RemovedInv, TimeInv
<1>2. TypeOK /\ AsyncInv /\ [Next]_vars => AsyncInv'
      BY AsyncNext
<1>3. QED
      BY <1>1, <1>2, TypeHolds, PTL DEF Spec

-----------------------------------------------------------------------------
(* The theorems *)

\* Whoever is given an answer is given the one synthesis produced.
THEOREM AnswerIsSynthesisedHolds == Spec => []AnswerIsSynthesised
<1>1. TypeOK /\ AsyncInv => AnswerIsSynthesised
      BY DEF TypeOK, AsyncInv, ExecInv, CompleteInv, BlameInv, AnswerIsSynthesised
<1>2. QED
      BY <1>1, TypeHolds, AsyncInvHolds, PTL

\* A cancelled execution yields no answer, and an answered one is not cancelled.
THEOREM CancelPrevailsHolds == Spec => []CancelPrevails
<1>1. TypeOK /\ AsyncInv => CancelPrevails
      BY DEF TypeOK, AsyncInv, ExecInv, BlameInv, CancelPrevails, Outcome
<1>2. QED
      BY <1>1, TypeHolds, AsyncInvHolds, PTL

\* An execution in which a stage failed is never complete.
THEOREM FailureIsNotCompleteHolds == Spec => []FailureIsNotComplete
<1>1. TypeOK /\ AsyncInv => FailureIsNotComplete
      BY DEF TypeOK, AsyncInv, ExecInv, CompleteInv, FailureIsNotComplete
<1>2. QED
      BY <1>1, TypeHolds, AsyncInvHolds, PTL

\* An answer that was given once is given again until it is cleaned up.
THEOREM AnswerIsStableHolds == Spec => []AnswerIsStable
<1>1. TypeOK /\ AsyncInv => AnswerIsStable
      BY DEF TypeOK, AsyncInv, ExecInv, BlameInv, AnswerIsStable, Outcome
<1>2. QED
      BY <1>1, TypeHolds, AsyncInvHolds, PTL

\* No stage is begun for an execution that a cleanup took away.
THEOREM RemovedRunsNoStageHolds == Spec => RemovedRunsNoStage
<1>1. TypeOK /\ AsyncInv =>
        [\A e \in Execs \ listed : Lookup(e) => state[e] \notin Stage]_vars
      BY DEF AsyncInv, ExecInv, Started, RemovedInv, Lookup, Goto
<1>2. QED
      BY <1>1, TypeHolds, AsyncInvHolds, PTL DEF RemovedRunsNoStage

\* A cleanup takes nobody's end for that of a cancelled execution.
THEOREM CleanupIsPatientHolds == Spec => CleanupIsPatient
<1>1. ASSUME TypeOK, AsyncInv, [Next]_vars, NEW e \in listed \ listed'
      PROVE  state[e] \in stamped[e] \/ e \in cancelled
  <2>1. listed' # listed /\ ~(listed \subseteq listed')
        BY <1>1
  <2>2. ASSUME NEW x \in Execs, ApiStep(x) PROVE listed \subseteq listed'
        BY <2>2 DEF ApiStep, Register, StoreCancel, Spawn, ParentDone, CancelAsyncProcess, CancelGoesOn,
                    CancelStart, CancelFire, CancelMark, CancelBlame, CancelPublish, GetAsyncResult,
                    callerVars
  <2>3. ASSUME NEW x \in Execs, Goroutine(x) PROVE listed \subseteq listed'
        BY <2>3 DEF Goroutine, Start, Head, CheckCtx, SetCancelled, Lookup, StageSucceeds, StageFails,
                    ErrorTransition, AfterFailure, SetLastError, SetErrorState, Guard, Assign, Return,
                    Finish, Leave, callerVars
  <2>4. ~Jam /\ ~UNCHANGED vars
        BY <2>1 DEF Jam, vars, callerVars
  <2>5. CleanupCompletedExecutions
        BY <1>1, <2>1, <2>2, <2>3, <2>4 DEF Next, Stopped, ApiStep
  <2>6. mutex = {} /\ state[e] \in {"complete", "error"}
        BY <1>1, <2>5 DEF CleanupCompletedExecutions
  <2>7. QED
        BY <1>1, <2>6 DEF TypeOK, AsyncInv, ExecInv, TimeInv
<1>2. TypeOK /\ AsyncInv /\ [Next]_vars =>
        [\A e \in listed \ listed' : state[e] \in stamped[e] \/ e \in cancelled]_vars
      BY <1>1
<1>3. QED
      BY <1>2, TypeHolds, AsyncInvHolds, PTL DEF Spec, CleanupIsPatient
=============================================================================
