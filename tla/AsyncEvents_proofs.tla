--------------------------- MODULE AsyncEvents_proofs ---------------------------
(* Theorems about AsyncEvents: the bus keeps what EventBus promises when    *)
(* handlers call back and events are published under a mutex, and how long  *)
(* that mutex is held.                                                      *)
EXTENDS AsyncEvents, EventBus_proofs

-----------------------------------------------------------------------------
(* The bus is the one of EventBus *)

LEMMA AsyncIsBus == [AsyncNext]_asyncVars => [Next]_vars
<1> SUFFICES ASSUME [AsyncNext]_asyncVars PROVE [Next]_vars
    OBVIOUS
<1>1. ASSUME NEW e \in Events, ~panicked,
             CancelPublish(e) \/ PublishReturn(e) \/ PublishFree(e) \/ HandlerPublishes(e)
      PROVE  Next
      BY <1>1 DEF CancelPublish, PublishReturn, PublishFree, HandlerPublishes, Next
<1>2. ASSUME NEW e \in Events, ~panicked, SendOnClosed(e) \/ Watch(e) PROVE Next
      BY <1>2 DEF Next
<1>3. ASSUME NEW w \in Workers, ~panicked, WorkerStep(w) PROVE Next
      BY <1>3 DEF WorkerStep, Next
<1>4. ASSUME ~panicked, Close PROVE Next
      BY <1>4 DEF Next
<1>5. CASE UNCHANGED asyncVars
      BY <1>5 DEF asyncVars
<1>6. QED
      BY <1>1, <1>2, <1>3, <1>4, <1>5 DEF AsyncNext

\* The API and the handlers that call back use the bus in no way that EventBus
\* does not have: with them, it still does what EventBus says.
THEOREM ImplementsBus == AsyncSpec => InitWith(Handlers) /\ [][Next]_vars
BY AsyncIsBus, PTL DEF AsyncSpec, AsyncInit

LEMMA BusInvHoldsHere == AsyncSpec => []BusInv
<1>1. AsyncInit => BusInv
      BY BusInit DEF AsyncInit
<1>2. BusInv /\ [AsyncNext]_asyncVars => BusInv'
      BY BusNext, AsyncIsBus
<1>3. QED
      BY <1>1, <1>2, PTL DEF AsyncSpec

\* Nor do they cost any of its guarantees: whatever handlers publish and wait for,
\* no call is repeated after a success or made late but one,
\* no copied handler is left out, and Close leaves no handler running.
THEOREM GuaranteesHoldHere ==
    AsyncSpec => [](OneLateCall /\ NoDuplicateDelivery /\ EveryHandlerServed
                    /\ QuietWhenClosed /\ PanicNeedsClose)
<1>1. BusInv => QuietWhenClosed /\ PanicNeedsClose
      BY DEF BusInv, CloseInv, WorkerInv, Busy, QuietWhenClosed, PanicNeedsClose, Processing
<1>2. QED
      BY <1>1, BusInvSays, BusInvHoldsHere, PTL

-----------------------------------------------------------------------------
(* The mutex *)

\* Handlers have their turn one at a time and as such are handlers, so the events
\* they publish are not those of CancelAsyncProcess.
LEMMA FollowUpsAreFree ==
    ASSUME BusInv, NEW e \in Events, Serving(e) # {} PROVE e \notin UnderMutex
<1>1. PICK w \in Workers : \E h \in turn[w] : e \in FollowUp[h]
      BY DEF Serving
<1>2. PICK h \in Handlers : e \in FollowUp[h]
      BY <1>1 DEF BusInv, TypeOK
<1>3. QED
      BY <1>1, <1>2, CallBackAssumption

\* The mutex is held for the one cancellation that is publishing, and its context
\* does not end.
MutexInv ==
    /\ mutex \subseteq UnderMutex
    /\ \A e \in UnderMutex :
         /\ e \in mutex <=> pubPc[e] = "send"
         /\ pubPc[e] # "gaveUp" /\ e \notin callerDone
    /\ \A d, e \in mutex : d = e

\* The steps that leave it alone.
LEMMA MutexFrame ==
    ASSUME MutexInv, UNCHANGED mutex,
           \A e \in UnderMutex : pubPc'[e] = pubPc[e] /\ (e \in callerDone' <=> e \in callerDone)
    PROVE  MutexInv'
BY DEF MutexInv

LEMMA MutexNext ==
    ASSUME BusInv, MutexInv, [AsyncNext]_asyncVars PROVE MutexInv'
<1> USE CallBackAssumption DEF PubStep
<1>1. pubPc \in [Events -> {"new", "send", "queued", "refused", "gaveUp"}]
      BY DEF BusInv, TypeOK
<1>2. ASSUME NEW e \in Events, CancelPublish(e) PROVE MutexInv'
  <2>1. /\ e \in UnderMutex /\ mutex = {} /\ pubPc[e] = "new" /\ callerDone' = callerDone
        /\ pubPc'[e] \in {"refused", "send"} /\ \A d \in Events \ {e} : pubPc'[d] = pubPc[d]
        /\ mutex' = IF pubPc'[e] = "send" THEN {e} ELSE {}
        BY <1>1, <1>2 DEF CancelPublish, Publish
  <2>2. QED
        BY <2>1 DEF MutexInv
<1>3. ASSUME NEW e \in Events, PublishReturn(e) PROVE MutexInv'
  <2>1. /\ pubPc[e] = "send" /\ pubPc'[e] \in {"queued", "gaveUp"} /\ mutex' = mutex \ {e}
        /\ callerDone' = callerDone /\ \A d \in Events \ {e} : pubPc'[d] = pubPc[d]
        /\ pubPc'[e] = "gaveUp" => e \in callerDone
        BY <1>1, <1>3 DEF PublishReturn, Send, GiveUp
  <2>2. CASE e \in UnderMutex
    <3>1. pubPc'[e] = "queued" /\ mutex = {e} /\ mutex' = {}
          BY <2>1, <2>2 DEF MutexInv
    <3>2. QED
          BY <2>1, <2>2, <3>1 DEF MutexInv
  <2>3. CASE e \notin UnderMutex
    <3>1. mutex' = mutex
          BY <2>1, <2>3 DEF MutexInv
    <3>2. QED
          BY <2>1, <2>3, <3>1 DEF MutexInv
  <2>4. QED
        BY <2>2, <2>3
<1>4. ASSUME NEW e \in Events, PublishFree(e) \/ HandlerPublishes(e) PROVE MutexInv'
  <2>1. e \notin UnderMutex /\ UNCHANGED mutex
        BY <1>4, FollowUpsAreFree DEF PublishFree, HandlerPublishes
  <2>2. \A d \in Events \ {e} : pubPc'[d] = pubPc[d] /\ (d \in callerDone' <=> d \in callerDone)
        BY <1>1, <1>4 DEF PublishFree, HandlerPublishes, Publish, CallerDone
  <2>3. QED
        BY <2>1, <2>2, MutexFrame
<1>5. ASSUME NEW e \in Events, SendOnClosed(e) \/ Watch(e), UNCHANGED mutex PROVE MutexInv'
      BY <1>5, MutexFrame DEF SendOnClosed, Watch, pubVars
<1>6. ASSUME NEW w \in Workers, WorkerStep(w) PROVE MutexInv'
      BY <1>6, MutexFrame DEF WorkerStep, Worker, Exit, Receive, Begin, EndEvent, ExecuteHandler,
              TryHandler, CallHandler, HandlerSucceeds, HandlerFails, WaitElapsed, WaitInterrupted,
              pubVars
<1>7. CASE Close /\ UNCHANGED mutex
      BY <1>7, MutexFrame DEF Close, MarkClosed, SignalDone, CloseChannel, pubVars
<1>8. CASE UNCHANGED asyncVars
      BY <1>8, MutexFrame DEF asyncVars, vars, pubVars
<1>9. QED
      BY <1>2, <1>3, <1>4, <1>5, <1>6, <1>7, <1>8 DEF AsyncNext

LEMMA MutexInvHolds == AsyncSpec => [](BusInv /\ MutexInv)
<1>1. AsyncInit => MutexInv
      BY CallBackAssumption DEF AsyncInit, InitWith, MutexInv
<1>2. QED
      BY <1>1, MutexNext, BusInvHoldsHere, PTL DEF AsyncSpec

\* While asyncExecutionsMutex is held an event of a cancellation waits for room in the
\* channel, and it is the only one of a cancellation that does.
MutexMeansSending ==
    /\ \A e \in mutex : pubPc[e] = "send"
    /\ \A d, e \in UnderMutex : pubPc[d] = "send" /\ pubPc[e] = "send" => d = e

\* CancelAsyncProcess unlocks whichever way Publish returns.
THEOREM MutexMeansSendingHolds == AsyncSpec => []MutexMeansSending
<1>1. MutexInv => MutexMeansSending
      BY DEF MutexInv, MutexMeansSending
<1>2. QED
      BY <1>1, MutexInvHolds, PTL

\* Nothing but room in the channel makes it give the mutex up: neither a deadline, as
\* it publishes with context.Background(), nor Close.
OnlyRoomReleases == [][\A e \in mutex : e \in mutex' \/ Send(e)]_asyncVars

\* This is what CancelAsyncProcess can hang on while all who need the mutex wait.
THEOREM OnlyRoomReleasesHolds == AsyncSpec => OnlyRoomReleases
<1>1. MutexInv /\ [AsyncNext]_asyncVars => [\A e \in mutex : e \in mutex' \/ Send(e)]_asyncVars
  <2> SUFFICES ASSUME MutexInv, AsyncNext, NEW e \in mutex, e \notin mutex' PROVE Send(e)
      BY DEF asyncVars
  <2>1. e \in UnderMutex /\ e \notin callerDone
        BY DEF MutexInv
  <2>2. PICK d \in Events : CancelPublish(d) \/ PublishReturn(d)
        BY DEF AsyncNext, PublishFree, HandlerPublishes, WorkerStep, asyncVars
  <2>3. PublishReturn(d) /\ d = e
        BY <2>2 DEF CancelPublish, PublishReturn
  <2>4. QED
        BY <2>1, <2>3 DEF PublishReturn, GiveUp
<1>2. QED
      BY <1>1, MutexInvHolds, PTL DEF AsyncSpec, OnlyRoomReleases
=============================================================================
