------------------------------ MODULE AsyncEvents ------------------------------
(***************************************************************************)
(* The event bus as the asynchronous API uses it (async_utils.go,          *)
(* dragonscale.go): CancelAsyncProcess publishes while it holds            *)
(* asyncExecutionsMutex, and handlers call back before they return, the    *)
(* API, which takes that mutex, or the bus, by publishing.                 *)
(*                                                                         *)
(* This adds the mutex to EventBus and the calls of handlers.  Handlers    *)
(* are subscribed from the start.                                          *)
(***************************************************************************)
EXTENDS EventBus

CONSTANTS
    UnderMutex,   \* the events CancelAsyncProcess publishes
    Asking,       \* the handlers that call GetAsyncStatus or the like
    FollowUp      \* the events a handler publishes

FollowUps == UNION {FollowUp[h] : h \in Handlers}

ASSUME CallBackAssumption ==
    /\ UnderMutex \subseteq Events /\ Asking \subseteq Handlers
    /\ FollowUp \in [Handlers -> SUBSET (Events \ UnderMutex)]

VARIABLE mutex   \* the event for which asyncExecutionsMutex is held, if any

asyncVars == <<vars, mutex>>

AsyncInit ==
    /\ InitWith(Handlers)
    /\ mutex = {}

\* Where handlers are called for e.
Serving(e) == {w \in Workers : wpc[w] = "call" /\ \E h \in turn[w] : e \in FollowUp[h]}

\* A handler in a call to the API or to Publish has not returned.
WaitsForMutex(w) == turn[w] \cap Asking # {} /\ mutex # {}
WaitsForSend(w)  == \E h \in turn[w] : \E e \in FollowUp[h] : pubPc[e] \in {"new", "send"}
MayReturn(w) == ~WaitsForMutex(w) /\ ~WaitsForSend(w)

-----------------------------------------------------------------------------
\* CancelAsyncProcess locks the mutex and publishes with context.Background(),
\* which never ends; what it does to the execution before is in AsyncProcess.
CancelPublish(e) ==
    /\ e \in UnderMutex /\ mutex = {}
    /\ Publish(e)
    /\ mutex' = IF pubPc'[e] = "send" THEN {e} ELSE {}

\* Mutant of PublishReturn: the mutex is not released.
KeepMutex(e) == (Send(e) \/ GiveUp(e)) /\ UNCHANGED mutex

\* Publish returns, and so does CancelAsyncProcess if it was its call.
PublishReturn(e) == (Send(e) \/ GiveUp(e)) /\ mutex' = mutex \ {e}

\* Others publish with a context of their own, which may end...
PublishFree(e) ==
    /\ e \notin UnderMutex \cup FollowUps
    /\ Publish(e) \/ CallerDone(e)
    /\ UNCHANGED mutex

\* ...and handlers with the one they were given: that of the event.
HandlerPublishes(e) ==
    /\ \/ Serving(e) # {} /\ Publish(e)
       \/ \E w \in Serving(e) : ~InContext(w) /\ CallerDone(e)
    /\ UNCHANGED mutex

WorkerStep(w) ==
    /\ Worker(w)
    /\ wpc[w] = "call" => MayReturn(w)
    /\ UNCHANGED mutex

\* Everyone waits for everyone: the channel is full, and the workers that have
\* not left are in handlers that wait for a sender.  The system may stop here.
Jammed ==
    /\ Len(eventChan) = BufferSize /\ ~panicked
    /\ \E w \in Workers : wpc[w] # "exit"
    /\ \A w \in Workers : wpc[w] = "exit" \/ (wpc[w] = "call" /\ ~MayReturn(w))

AsyncNext ==
    \/ /\ ~panicked
       /\ \/ \E e \in Events : \/ CancelPublish(e) \/ PublishReturn(e) \/ PublishFree(e)
                               \/ HandlerPublishes(e)
                               \/ (SendOnClosed(e) \/ Watch(e)) /\ UNCHANGED mutex
          \/ \E w \in Workers : WorkerStep(w)
          \/ Close /\ UNCHANGED mutex
    \/ (Stopped \/ Jammed) /\ UNCHANGED asyncVars

\* As in EventBus; a handler goes on with its calls as well, and so does the
\* goroutine that passes the end of the bus on to the contexts.
AsyncFairness ==
    /\ \A w \in Workers : WF_asyncVars(~panicked /\ WorkerStep(w))
    /\ \A e \in Events :
         /\ SF_asyncVars(~panicked /\ Send(e) /\ PublishReturn(e))
         /\ WF_asyncVars(~panicked /\ GiveUp(e) /\ PublishReturn(e))
         /\ WF_asyncVars(~panicked /\ (SendOnClosed(e) \/ Watch(e)) /\ UNCHANGED mutex)
         /\ WF_asyncVars(~panicked /\ HandlerPublishes(e))
    /\ WF_asyncVars(~panicked /\ (SignalDone \/ CloseChannel) /\ UNCHANGED mutex)

AsyncSpec == AsyncInit /\ [][AsyncNext]_asyncVars
FairAsyncSpec == AsyncSpec /\ AsyncFairness

-----------------------------------------------------------------------------
(* Properties *)

\* A cancellation comes back and gives up the mutex, unless it is stuck for good
\* in the one way there is: its event finds the channel full, while all workers
\* are in handlers that wait for the mutex or for room in the channel themselves.
MutexIsReleased == (mutex # {}) ~> (mutex = {} \/ panicked \/ []Jammed)

\* With the same exception a Publish comes back, whatever the handlers return and
\* whether or not the bus is closed meanwhile, unless the process dies...
PublishReturns ==
    \A e \in Events : (pubPc[e] = "send") ~> (pubPc[e] # "send" \/ panicked \/ []Jammed)

\* ...Close comes back once it is called...
CloseReturns == (closePc = "signal") ~> (closePc = "returned" \/ panicked \/ []Jammed)

\* ...and an accepted event is taken from the channel and seen through, unless
\* the bus is closed first.
AcceptedIsProcessed ==
    \A e \in Events :
        (pubPc[e] = "queued") ~> (closed \/ (Through(e) /\ ~Processing(e)) \/ []Jammed)
=============================================================================
