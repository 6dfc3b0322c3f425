---------------------------- MODULE EventBus_proofs ----------------------------
(* Theorems about EventBus, for any events, handlers, workers, buffer size and *)
(* number of retries.                                                          *)
EXTENDS EventBus, SequenceTheorems, TLAPS

-----------------------------------------------------------------------------
(* TypeOK. That attempt stays in its bounds needs to be known of the wait. *)

\* A worker waits for a retry only if there is one left.
RetriesLeft == \A w \in Workers : wpc[w] = "wait" => attempt[w] < MaxRetries

\* The types hold of a new bus, whoever has subscribed to it.
LEMMA TypeInit ==
    ASSUME NEW S \in SUBSET Handlers, InitWith(S) PROVE TypeOK /\ RetriesLeft
<1>1. eventChan \in Seq(Events) /\ Len(eventChan) \leq BufferSize
      BY BoundsAssumption DEF InitWith
<1>2. attempt \in [Workers -> 0..MaxRetries]
      BY BoundsAssumption DEF InitWith
<1>3. tries \in [Events -> [Handlers -> Nat]] /\ late \in [Events -> Nat]
      BY DEF InitWith
<1>4. QED
      BY <1>1, <1>2, <1>3 DEF InitWith, TypeOK, RetriesLeft

\* What steps that are not a worker's leave alone, and what they may change:
\* contexts end and do not come back, and only Send lets an event in.
Outside ==
    /\ UNCHANGED <<workVars, histVars, eventChan>>
    /\ eventDone \subseteq eventDone'
    /\ \A e \in Events : pubPc[e] = "queued" <=> pubPc'[e] = "queued"

\* Every step is one of a worker, puts an event into the channel or is outside.
LEMMA StepKinds ==
    ASSUME TypeOK, [Next]_vars
    PROVE  \/ TypeOK' /\ Outside
           \/ \E e \in Events : Send(e)
           \/ \E w \in Workers : Worker(w)
<1> USE DEF TypeOK, Outside, vars, subVars, pubVars, closeVars, PubStep, CloseStep
<1>1. ASSUME NEW h \in Handlers, Subscribe(h) \/ Unsubscribe(h) \/ ChangeMap(h)
      PROVE  TypeOK' /\ Outside
  <2>1. subscribed' \subseteq Handlers /\ subPc' \in [Handlers -> {"idle", "add", "remove"}]
        BY <1>1 DEF Subscribe, Unsubscribe, ChangeMap
  <2>2. QED
        BY <1>1, <2>1 DEF Subscribe, Unsubscribe, ChangeMap, workVars, histVars
<1>2. ASSUME NEW e \in Events, Publish(e) \/ GiveUp(e) PROVE TypeOK' /\ Outside
  <2>1. \A d \in Events : pubPc[d] = "queued" <=> pubPc'[d] = "queued"
        BY <1>2 DEF Publish, GiveUp
  <2>2. pubPc' \in [Events -> {"new", "send", "queued", "refused", "gaveUp"}]
        BY <1>2 DEF Publish, GiveUp
  <2>3. eventDone \subseteq eventDone' /\ eventDone' \subseteq Events
        BY <1>2 DEF Publish, GiveUp
  <2>4. QED
        BY <1>2, <2>1, <2>2, <2>3 DEF Publish, GiveUp, workVars, histVars
<1>3. CASE \E e \in Events : SendOnClosed(e) \/ CallerDone(e) \/ Watch(e)
      BY <1>3 DEF SendOnClosed, CallerDone, Watch, workVars, histVars
<1>4. CASE Close
      BY <1>4 DEF Close, MarkClosed, SignalDone, CloseChannel, workVars, histVars
<1>5. CASE UNCHANGED vars
      BY <1>5 DEF workVars, histVars
<1>6. QED
      BY <1>1, <1>2, <1>4, <1>5, <1>3 DEF Next, Stopped

\* To put an event into the channel keeps the types...
LEMMA TypeSend ==
    ASSUME TypeOK, NEW e \in Events, Send(e) PROVE TypeOK'
<1>1. eventChan' \in Seq(Events) /\ Len(eventChan') \leq BufferSize
      BY AppendProperties, BoundsAssumption DEF TypeOK, Send
<1>2. pubPc' \in [Events -> {"new", "send", "queued", "refused", "gaveUp"}]
      BY DEF TypeOK, Send, PubStep
<1>3. QED
      BY <1>1, <1>2 DEF TypeOK, Send, subVars, closeVars, workVars, histVars

\* ...and so do the workers.
LEMMA TypeWorker ==
    ASSUME TypeOK, RetriesLeft, NEW w \in Workers, Worker(w) PROVE TypeOK'
<1> USE DEF TypeOK, subVars, pubVars, closeVars, histVars, Goto, HandlerOver
<1>1. CASE Exit(w) \/ EndEvent(w) \/ TryHandler(w) \/ HandlerFails(w) \/ WaitInterrupted(w)
      BY <1>1 DEF Exit, EndEvent, TryHandler, HandlerFails, WaitInterrupted
<1>2. CASE Receive(w)
  <2>1. /\ Head(eventChan) \in Events /\ Tail(eventChan) \in Seq(Events)
        /\ Len(Tail(eventChan)) \leq BufferSize
        BY <1>2, HeadTailProperties, BoundsAssumption DEF Receive
  <2>2. QED
        BY <1>2, <2>1 DEF Receive
<1>3. CASE Begin(w)
  <2>1. todo' \in [Workers -> SUBSET Handlers]
        BY <1>3 DEF Begin
  <2>2. copied' \in [Events -> SUBSET Handlers]
        BY <1>3, <2>1 DEF Begin
  <2>3. QED
        BY <1>3, <2>1, <2>2 DEF Begin
<1>4. CASE ExecuteHandler(w)
      BY <1>4, BoundsAssumption DEF ExecuteHandler
<1>5. CASE CallHandler(w)
  <2>1. tries' \in [Events -> [Handlers -> Nat]]
        BY <1>5 DEF CallHandler
  <2>2. late' \in [Events -> Nat]
        BY <1>5 DEF CallHandler
  <2>3. QED
        BY <1>5, <2>1, <2>2 DEF CallHandler
<1>6. CASE HandlerSucceeds(w)
  <2>1. succeeded' \subseteq Events \X Handlers
        BY <1>6 DEF HandlerSucceeds
  <2>2. QED
        BY <1>6, <2>1 DEF HandlerSucceeds
<1>7. CASE WaitElapsed(w)
  <2>1. wpc[w] = "wait" /\ attempt[w] + 1 \in 0..MaxRetries
        BY <1>7, BoundsAssumption DEF WaitElapsed, RetriesLeft
  <2>2. QED
        BY <1>7, <2>1 DEF WaitElapsed
<1>8. QED
      BY <1>1, <1>2, <1>3, <1>4, <1>5, <1>6, <1>7 DEF Worker

\* A step keeps both: to wait is the choice after a failed attempt but the last.
LEMMA TypeNext ==
    ASSUME TypeOK, RetriesLeft, [Next]_vars PROVE TypeOK' /\ RetriesLeft'
<1>1. CASE Outside /\ TypeOK'
      BY <1>1 DEF Outside, workVars, RetriesLeft
<1>2. ASSUME NEW e \in Events, Send(e) PROVE TypeOK' /\ RetriesLeft'
      BY <1>2, TypeSend DEF Send, workVars, RetriesLeft
<1>3. ASSUME NEW w \in Workers, Worker(w) PROVE TypeOK' /\ RetriesLeft'
  <2>1. /\ \A v \in Workers \ {w} : wpc'[v] = wpc[v] /\ attempt'[v] = attempt[v]
        /\ wpc'[w] = "wait" => attempt'[w] = attempt[w] /\ attempt[w] # MaxRetries
        BY <1>3 DEF TypeOK, Worker, Goto, HandlerOver, Exit, Receive, Begin, EndEvent,
                    ExecuteHandler, TryHandler, CallHandler, HandlerSucceeds, HandlerFails,
                    WaitElapsed, WaitInterrupted
  <2>2. \A v \in Workers : attempt[v] \in 0..MaxRetries
        BY DEF TypeOK
  <2>3. RetriesLeft'
        BY <2>1, <2>2, BoundsAssumption DEF RetriesLeft
  <2>4. QED
        BY <1>3, <2>3, TypeWorker
<1>4. QED
      BY <1>1, <1>2, <1>3, StepKinds

-----------------------------------------------------------------------------
(* Where the events are *)

\* An event is in the channel once or with one worker, and what is in the channel
\* was put there by its publisher, who does so once.
OwnerInv ==
    /\ \A d \in Events, v \in Workers : d \in cur[v] =>
          pubPc[d] = "queued" /\ \A i \in 1..Len(eventChan) : eventChan[i] # d
    /\ \A i, j \in 1..Len(eventChan) : eventChan[i] = eventChan[j] => i = j
    /\ \A i \in 1..Len(eventChan) : pubPc[eventChan[i]] = "queued"
    /\ \A u, v \in Workers : u # v => cur[u] \cap cur[v] = {}

\* A sender puts its event where it was not before.
LEMMA OwnerSend ==
    ASSUME TypeOK, OwnerInv, NEW e \in Events, Send(e) PROVE OwnerInv'
<1>1. /\ Len(eventChan') = Len(eventChan) + 1
      /\ \A i \in 1..Len(eventChan) : eventChan'[i] = eventChan[i]
      /\ eventChan'[Len(eventChan) + 1] = e
      BY AppendProperties DEF Send, TypeOK
<1>2. Len(eventChan) \in Nat /\ \A i \in 1..Len(eventChan) : eventChan[i] \in Events
      BY ElementOfSeq, LenProperties DEF TypeOK
<1>3. /\ pubPc[e] = "send" /\ pubPc'[e] = "queued" /\ cur' = cur
      /\ \A d \in Events \ {e} : pubPc'[d] = pubPc[d]
      BY DEF Send, PubStep, workVars, TypeOK
<1>4. /\ \A i \in 1..Len(eventChan) : eventChan[i] # e
      /\ \A v \in Workers : e \notin cur[v]
      BY <1>3 DEF OwnerInv
<1>5. \A i \in 1..Len(eventChan') :
          \/ i = Len(eventChan) + 1 /\ eventChan'[i] = e
          \/ i \in 1..Len(eventChan) /\ eventChan'[i] = eventChan[i]
      BY <1>1, <1>2
<1>6. \A i \in 1..Len(eventChan') : pubPc'[eventChan'[i]] = "queued"
      BY <1>2, <1>3, <1>5 DEF OwnerInv
<1>7. \A i, j \in 1..Len(eventChan') : eventChan'[i] = eventChan'[j] => i = j
      BY <1>4, <1>5 DEF OwnerInv
<1>8. ASSUME NEW d \in Events, NEW v \in Workers, d \in cur'[v]
      PROVE  pubPc'[d] = "queued" /\ \A i \in 1..Len(eventChan') : eventChan'[i] # d
      BY <1>3, <1>4, <1>5, <1>8 DEF OwnerInv
<1>9. QED
      BY <1>3, <1>6, <1>7, <1>8 DEF OwnerInv

\* A worker that takes an event out takes the only one of its kind.
LEMMA OwnerReceive ==
    ASSUME TypeOK, OwnerInv, NEW w \in Workers, Receive(w) PROVE OwnerInv'
<1>1. PICK e \in Events :
         /\ e = eventChan[1] /\ cur'[w] = {e} /\ Len(eventChan') = Len(eventChan) - 1
         /\ \A i \in 1..Len(eventChan') : eventChan'[i] = eventChan[i + 1]
      BY HeadTailProperties DEF Receive, TypeOK
<1>2. /\ Len(eventChan) \in Nat \ {0} /\ \A i \in 1..Len(eventChan) : eventChan[i] \in Events
      BY ElementOfSeq, LenProperties, EmptySeq DEF Receive, TypeOK
<1>3. pubPc' = pubPc /\ \A v \in Workers \ {w} : cur'[v] = cur[v]
      BY DEF Receive, pubVars, TypeOK
<1>4. \A i \in 1..Len(eventChan') :
         i + 1 \in 1..Len(eventChan) /\ i + 1 # 1 /\ eventChan'[i] = eventChan[i + 1]
      BY <1>1, <1>2
<1>5. 1 \in 1..Len(eventChan)
      BY <1>2
<1>6. pubPc[e] = "queued" /\ \A v \in Workers : e \notin cur[v]
      BY <1>1, <1>5 DEF OwnerInv
<1>7. \A i \in 1..Len(eventChan') : pubPc'[eventChan'[i]] = "queued" /\ eventChan'[i] # e
      BY <1>1, <1>3, <1>4, <1>5 DEF OwnerInv
<1>8. ASSUME NEW i \in 1..Len(eventChan'), NEW j \in 1..Len(eventChan'),
             eventChan'[i] = eventChan'[j]
      PROVE  i = j
  <2>1. i + 1 = j + 1
        BY <1>4, <1>8 DEF OwnerInv
  <2>2. QED
        BY <2>1
<1>9. ASSUME NEW d \in Events, NEW v \in Workers, d \in cur'[v]
      PROVE  pubPc'[d] = "queued" /\ \A i \in 1..Len(eventChan') : eventChan'[i] # d
  <2>1. CASE d = e
        BY <2>1, <1>3, <1>6, <1>7
  <2>2. CASE d # e
        BY <2>2, <1>1, <1>3, <1>4, <1>9 DEF OwnerInv
  <2>3. QED
        BY <2>1, <2>2
<1>10. \A u, v \in Workers : u # v => cur'[u] \cap cur'[v] = {}
      BY <1>1, <1>3, <1>6 DEF OwnerInv
<1>11. QED
      BY <1>7, <1>8, <1>9, <1>10 DEF OwnerInv

\* Nothing else moves an event, but that a worker lets go of it at its end.
LEMMA OwnerNext ==
    ASSUME TypeOK, OwnerInv, [Next]_vars PROVE OwnerInv'
<1>1. CASE Outside
  <2>1. cur' = cur /\ eventChan' = eventChan
        BY <1>1 DEF Outside, workVars
  <2>2. \A i \in 1..Len(eventChan) : eventChan[i] \in Events
        BY ElementOfSeq DEF TypeOK
  <2>3. QED
        BY <1>1, <2>1, <2>2 DEF Outside, OwnerInv
<1>2. ASSUME NEW w \in Workers, Worker(w), ~Receive(w) PROVE OwnerInv'
  <2>1. /\ pubPc' = pubPc /\ eventChan' = eventChan
        /\ \A v \in Workers : cur'[v] \subseteq cur[v]
        BY <1>2 DEF TypeOK, Worker, Exit, Begin, EndEvent, ExecuteHandler, TryHandler, CallHandler,
                    HandlerSucceeds, HandlerFails, WaitElapsed, WaitInterrupted, pubVars
  <2>2. QED
        BY <2>1 DEF OwnerInv
<1>3. QED
      BY <1>1, <1>2, OwnerSend, OwnerReceive, StepKinds

\* A new bus holds no event.
LEMMA OwnerInit ==
    ASSUME NEW S \in SUBSET Handlers, InitWith(S) PROVE OwnerInv
BY EmptySeq DEF InitWith, OwnerInv

-----------------------------------------------------------------------------
(* What a worker is at *)

InHandler == {"try", "enter", "call", "wait"}

\* A worker has an event while it is busy, a handler while that has its turn, and
\* handlers left only after it has copied them.
Busy(w) ==
    /\ IF wpc[w] \in {"select", "exit"} THEN cur[w] = {} ELSE \E e \in Events : cur[w] = {e}
    /\ IF wpc[w] \in InHandler THEN \E h \in Handlers : turn[w] = {h} ELSE turn[w] = {}
    /\ wpc[w] \in {"select", "exit", "begin"} => todo[w] = {}
    /\ turn[w] \cap todo[w] = {}

WorkerInv == \A w \in Workers : Busy(w)

\* What the others are at, a step of a worker leaves alone.
LEMMA WorkerFrame ==
    ASSUME TypeOK, NEW w \in Workers, Worker(w)
    PROVE  /\ eventDone' = eventDone /\ pubPc' = pubPc
           /\ \A v \in Workers \ {w} :
                 /\ wpc'[v] = wpc[v] /\ cur'[v] = cur[v] /\ todo'[v] = todo[v]
                 /\ turn'[v] = turn[v] /\ attempt'[v] = attempt[v]
BY DEF TypeOK, Worker, Goto, HandlerOver, Exit, Receive, Begin, EndEvent, ExecuteHandler,
       TryHandler, CallHandler, HandlerSucceeds, HandlerFails, WaitElapsed, WaitInterrupted,
       pubVars

\* Its own step brings it from one such place to the next.
LEMMA BusyStep ==
    ASSUME TypeOK, NEW w \in Workers, Busy(w), Worker(w) PROVE Busy(w)'
<1> USE DEF Busy, InHandler, Goto
<1>1. CASE Exit(w) \/ EndEvent(w) \/ CallHandler(w) \/ WaitElapsed(w)
      BY <1>1 DEF TypeOK, Exit, EndEvent, CallHandler, WaitElapsed
<1>2. CASE Receive(w)
  <2>1. Head(eventChan) \in Events
        BY <1>2, HeadTailProperties DEF TypeOK, Receive
  <2>2. QED
        BY <1>2, <2>1 DEF TypeOK, Receive
<1>3. CASE Begin(w)
      BY <1>3 DEF TypeOK, Begin
<1>4. CASE ExecuteHandler(w)
  <2>1. PICK h \in todo[w] : todo' = [todo EXCEPT ![w] = @ \ {h}] /\ turn' = [turn EXCEPT ![w] = {h}]
        BY <1>4 DEF ExecuteHandler
  <2>2. h \in Handlers /\ todo'[w] = todo[w] \ {h} /\ turn'[w] = {h}
        BY <2>1 DEF TypeOK
  <2>3. wpc[w] = "next" /\ wpc'[w] = "try" /\ cur' = cur
        BY <1>4 DEF TypeOK, ExecuteHandler
  <2>4. QED
        BY <2>2, <2>3
<1>5. CASE TryHandler(w) \/ HandlerFails(w) \/ HandlerSucceeds(w) \/ WaitInterrupted(w)
  <2>1. cur' = cur /\ todo' = todo /\ wpc[w] \in InHandler
        BY <1>5 DEF TryHandler, HandlerFails, HandlerSucceeds, WaitInterrupted, HandlerOver
  <2>2. \/ wpc'[w] = "next" /\ turn'[w] = {}
        \/ wpc'[w] \in InHandler /\ turn'[w] = turn[w]
        BY <1>5 DEF TypeOK, TryHandler, HandlerFails, HandlerSucceeds, WaitInterrupted, HandlerOver
  <2>3. QED
        BY <2>1, <2>2
<1>6. QED
      BY <1>1, <1>2, <1>3, <1>4, <1>5 DEF Worker

\* So every worker is always at one.
LEMMA WorkerInvNext ==
    ASSUME TypeOK, WorkerInv, [Next]_vars PROVE WorkerInv'
<1> USE DEF WorkerInv
<1>1. CASE UNCHANGED workVars
      BY <1>1 DEF workVars, Busy
<1>2. ASSUME NEW w \in Workers, Worker(w) PROVE WorkerInv'
      BY <1>2, BusyStep, WorkerFrame DEF Busy
<1>3. QED
      BY <1>1, <1>2, StepKinds DEF Outside, Send

-----------------------------------------------------------------------------
(* OneLateCall *)

\* After the one late call the worker that made it does not come to another.
LateInv ==
    \A e \in Events :
        /\ late[e] \leq 1
        /\ late[e] # 0 =>
             e \in eventDone /\ \A w \in Workers : e \in cur[w] => wpc[w] # "enter"

\* No worker but the one that has the event can be about to call a handler for it,
\* and that one comes there only while the context is not done.
LEMMA LateNext ==
    ASSUME TypeOK, OwnerInv, WorkerInv, LateInv, [Next]_vars PROVE LateInv'
<1>1. CASE UNCHANGED <<workVars, histVars>> /\ eventDone \subseteq eventDone'
      BY <1>1 DEF workVars, histVars, LateInv
<1>2. ASSUME NEW w \in Workers, CallHandler(w) PROVE LateInv'
  <2>1. /\ wpc[w] = "enter" /\ wpc'[w] = "call" /\ cur' = cur /\ eventDone' = eventDone
        /\ \A v \in Workers \ {w} : wpc'[v] = wpc[v]
        /\ \A e \in Events : late'[e] = late[e] + IF e \in cur[w] \cap eventDone THEN 1 ELSE 0
        BY <1>2 DEF CallHandler, Goto, pubVars, TypeOK
  <2>2. \A e \in Events : late[e] \in Nat
        BY DEF TypeOK
  <2>3. ASSUME NEW e \in Events, e \in cur[w]
        PROVE  late[e] = 0 /\ \A v \in Workers : e \in cur[v] => v = w
        BY <2>1, <2>3 DEF LateInv, OwnerInv
  <2>4. QED
        BY <2>1, <2>2, <2>3 DEF LateInv
<1>3. ASSUME NEW w \in Workers, Receive(w) \/ TryHandler(w) PROVE LateInv'
  <2>1. /\ late' = late /\ eventDone' = eventDone
        /\ \A v \in Workers \ {w} : wpc'[v] = wpc[v] /\ cur'[v] = cur[v]
        /\ wpc'[w] = "enter" => cur'[w] = cur[w] /\ cur[w] \cap eventDone = {}
        BY <1>3 DEF Receive, TryHandler, HandlerOver, InContext, Goto, pubVars, histVars, TypeOK
  <2>2. QED
        BY <2>1 DEF LateInv
<1>4. ASSUME NEW w \in Workers, Worker(w), ~Receive(w), ~TryHandler(w), ~CallHandler(w)
      PROVE  LateInv'
  <2>1. /\ late' = late /\ eventDone' = eventDone
        /\ \A v \in Workers : cur'[v] \subseteq cur[v] /\ (wpc'[v] = wpc[v] \/ wpc'[v] # "enter")
        BY <1>4 DEF Worker, Exit, Begin, EndEvent, ExecuteHandler, HandlerSucceeds, HandlerFails,
                    WaitElapsed, WaitInterrupted, HandlerOver, Goto, pubVars, histVars, TypeOK
  <2>2. QED
        BY <2>1 DEF LateInv
<1>5. QED
      BY <1>1, <1>2, <1>3, <1>4, StepKinds DEF Outside, Send

-----------------------------------------------------------------------------
(* NoDuplicateDelivery *)

Untouched(e) ==
    copied[e] = {} /\ \A h \in Handlers : tries[e][h] = 0 /\ <<e, h>> \notin succeeded

\* No handler was called for an event that no worker has begun.
FreshInv ==
    /\ \A e \in Events : ~Through(e) => Untouched(e)
    /\ \A w \in Workers : wpc[w] = "begin" => \A e \in Events : e \in cur[w] => Untouched(e)

\* An event the bus is through with, or has handed to a worker, does not return.
LEMMA ThroughStays ==
    ASSUME TypeOK, [Next]_vars, NEW e \in Events, Through(e) PROVE Through(e)'
<1>1. ASSUME NEW d \in Events, Send(d) PROVE Through(e)'
  <2>1. /\ eventChan' \in Seq(Events) /\ Len(eventChan') = Len(eventChan) + 1
        /\ Len(eventChan) \in Nat
        /\ \A i \in 1..Len(eventChan) : eventChan'[i] = eventChan[i]
        /\ eventChan'[Len(eventChan) + 1] = d
        BY <1>1, AppendProperties DEF TypeOK, Send
  <2>2. d # e /\ pubPc'[e] = pubPc[e]
        BY <1>1 DEF TypeOK, Send, PubStep, Through
  <2>3. \A i \in 1..Len(eventChan') : i \in 1..Len(eventChan) \/ i = Len(eventChan) + 1
        BY <2>1
  <2>4. QED
        BY <2>1, <2>2, <2>3 DEF Through
<1>2. ASSUME NEW w \in Workers, Worker(w) PROVE Through(e)'
  <2>1. CASE Receive(w)
    <3>1. /\ Len(eventChan') = Len(eventChan) - 1 /\ Len(eventChan) \in Nat
          /\ \A i \in 1..Len(eventChan') : eventChan'[i] = eventChan[i + 1]
          BY <2>1, HeadTailProperties, LenProperties DEF TypeOK, Receive
    <3>2. \A i \in 1..Len(eventChan') : i + 1 \in 1..Len(eventChan)
          BY <3>1
    <3>3. QED
          BY <3>1, <3>2, <1>2, WorkerFrame DEF Through
  <2>2. CASE ~Receive(w)
    <3>1. eventChan' = eventChan /\ pubPc' = pubPc
          BY <1>2, <2>2 DEF Worker, Exit, Begin, EndEvent, ExecuteHandler, TryHandler, CallHandler,
                  HandlerSucceeds, HandlerFails, WaitElapsed, WaitInterrupted, pubVars
    <3>2. QED
          BY <3>1 DEF Through
  <2>3. QED
        BY <2>1, <2>2
<1>3. QED
      BY <1>1, <1>2, StepKinds DEF Outside, Through

\* A worker's step is on record only for the event it has.
LEMMA HistoryFrame ==
    ASSUME TypeOK, NEW w \in Workers, Worker(w), NEW e \in Events \ cur[w]
    PROVE  /\ copied'[e] = copied[e]
           /\ \A h \in Handlers : /\ tries'[e][h] = tries[e][h]
                                  /\ <<e, h>> \in succeeded' <=> <<e, h>> \in succeeded
<1>1. CASE Begin(w)
      BY <1>1 DEF Begin, TypeOK
<1>2. CASE CallHandler(w)
      BY <1>2 DEF CallHandler, TypeOK
<1>3. CASE HandlerSucceeds(w)
      BY <1>3 DEF HandlerSucceeds, TypeOK
<1>4. CASE UNCHANGED histVars
      BY <1>4 DEF histVars
<1>5. QED
      BY <1>1, <1>2, <1>3, <1>4 DEF Worker, Exit, Receive, EndEvent, ExecuteHandler, TryHandler,
                                    HandlerFails, WaitElapsed, WaitInterrupted

\* The event a worker takes out of the channel was begun by none.
LEMMA FreshNext ==
    ASSUME TypeOK, OwnerInv, FreshInv, [Next]_vars PROVE FreshInv'
<1>1. CASE UNCHANGED <<workVars, histVars>>
      BY <1>1, ThroughStays DEF workVars, histVars, FreshInv, Untouched
<1>2. ASSUME NEW w \in Workers, Worker(w) PROVE FreshInv'
  <2>1. \A e \in Events \ cur[w] : Untouched(e) => Untouched(e)'
        BY <1>2, HistoryFrame DEF Untouched
  <2>2. \A e \in Events : e \in cur[w] => Through(e)
        BY DEF OwnerInv, Through
  <2>3. \A e \in Events : ~Through(e)' => Untouched(e)'
        BY <2>1, <2>2, ThroughStays DEF FreshInv
  <2>4. ASSUME NEW e \in Events, NEW v \in Workers \ {w}, wpc'[v] = "begin", e \in cur'[v]
        PROVE  Untouched(e)'
    <3>1. wpc[v] = "begin" /\ e \in cur[v] /\ e \notin cur[w]
          BY <1>2, <2>4, WorkerFrame DEF OwnerInv
    <3>2. QED
          BY <2>1, <3>1 DEF FreshInv
  <2>5. ASSUME NEW e \in Events, wpc'[w] = "begin", e \in cur'[w] PROVE Untouched(e)'
    <3>1. Receive(w)
          BY <1>2, <2>5 DEF TypeOK, Worker, Goto, HandlerOver, Exit, Begin, EndEvent, ExecuteHandler,
                            TryHandler, CallHandler, HandlerSucceeds, HandlerFails, WaitElapsed,
                            WaitInterrupted
    <3>2. e = Head(eventChan) /\ eventChan # <<>>
          BY <2>5, <3>1 DEF Receive, TypeOK
    <3>3. 1 \in 1..Len(eventChan) /\ eventChan[1] = e
          BY <3>2, EmptySeq, HeadTailProperties DEF TypeOK
    <3>4. Untouched(e)
          BY <3>3 DEF FreshInv, Through
    <3>5. QED
          BY <3>1, <3>4 DEF Receive, histVars, Untouched
  <2>6. QED
        BY <2>3, <2>4, <2>5 DEF FreshInv
<1>3. QED
      BY <1>1, <1>2, StepKinds DEF Outside, Send

\* The calls made in this turn.
Made(w) == attempt[w] + IF wpc[w] \in {"call", "wait"} THEN 1 ELSE 0

\* Handlers that are left have not been called, and the one whose turn it is as often
\* as the loop says, without success.
TriesInv ==
    /\ \A e \in Events, h \in Handlers : tries[e][h] \leq MaxRetries + 1
    /\ \A w \in Workers, e \in Events, h \in Handlers : e \in cur[w] =>
         /\ h \in todo[w] => tries[e][h] = 0 /\ <<e, h>> \notin succeeded
         /\ h \in turn[w] => tries[e][h] = Made(w) /\ <<e, h>> \notin succeeded

\* A call is counted when it is made, a success ends the turn, and what is left or has
\* its turn is never the same handler.
LEMMA TriesNext ==
    ASSUME TypeOK, OwnerInv, WorkerInv, FreshInv, TriesInv, [Next]_vars PROVE TriesInv'
<1>1. CASE UNCHANGED <<workVars, histVars>>
      BY <1>1 DEF workVars, histVars, TriesInv, Made
<1>2. ASSUME NEW w \in Workers, Worker(w), NEW e \in Events, NEW h \in Handlers
      PROVE  /\ tries'[e][h] \leq MaxRetries + 1
             /\ \A v \in Workers : e \in cur'[v] =>
                  /\ h \in todo'[v] => tries'[e][h] = 0 /\ <<e, h>> \notin succeeded'
                  /\ h \in turn'[v] => tries'[e][h] = Made(v)' /\ <<e, h>> \notin succeeded'
  <2> DEFINE Own(v) == e \in cur[v] =>
                  /\ h \in todo[v] => tries[e][h] = 0 /\ <<e, h>> \notin succeeded
                  /\ h \in turn[v] => tries[e][h] = Made(v) /\ <<e, h>> \notin succeeded
  <2>1. tries[e][h] \leq MaxRetries + 1 /\ \A v \in Workers : Own(v)
        BY DEF TriesInv
  <2>2. ASSUME NEW v \in Workers \ {w}, e \in cur[w] => e \notin cur[v]
        PROVE  Own(v)'
        BY <1>2, <2>1, <2>2, WorkerFrame, HistoryFrame DEF Made
  <2>3. \A v \in Workers \ {w} : Own(v)'
        BY <2>2 DEF OwnerInv
  <2>4. /\ attempt[w] \in 0..MaxRetries /\ tries[e][h] \in Nat /\ MaxRetries \in Nat
        /\ turn[w] \cap todo[w] = {}
        BY BoundsAssumption DEF TypeOK, WorkerInv, Busy
  <2>5. CASE CallHandler(w)
    <3>1. /\ wpc[w] = "enter" /\ wpc'[w] = "call"
          /\ UNCHANGED <<cur, todo, turn, attempt, succeeded>>
          /\ tries'[e][h] = tries[e][h] + IF e \in cur[w] /\ h \in turn[w] THEN 1 ELSE 0
          BY <2>5 DEF CallHandler, Goto, TypeOK
    <3>2. Own(w)' /\ tries'[e][h] \leq MaxRetries + 1
          BY <2>1, <2>4, <3>1 DEF Made
    <3>3. QED
          BY <2>3, <3>2
  <2>6. CASE HandlerSucceeds(w)
    <3>1. /\ UNCHANGED <<cur, todo, attempt, tries>> /\ turn'[w] = {}
          /\ <<e, h>> \in succeeded' => <<e, h>> \in succeeded \/ h \in turn[w]
          BY <2>6 DEF HandlerSucceeds, HandlerOver, TypeOK
    <3>2. QED
          BY <2>1, <2>3, <2>4, <3>1
  <2>7. CASE Begin(w)
    <3>1. /\ wpc[w] = "begin" /\ wpc'[w] = "next" /\ UNCHANGED <<cur, turn, tries, succeeded>>
          BY <2>7 DEF Begin, Goto, TypeOK
    <3>2. turn[w] = {} /\ (e \in cur[w] => Untouched(e))
          BY <3>1 DEF WorkerInv, Busy, InHandler, FreshInv
    <3>3. QED
          BY <2>1, <2>3, <3>1, <3>2 DEF Untouched
  <2>8. CASE ExecuteHandler(w)
    <3>1. PICK g \in todo[w] : /\ todo' = [todo EXCEPT ![w] = @ \ {g}]
                               /\ turn' = [turn EXCEPT ![w] = {g}]
          BY <2>8 DEF ExecuteHandler
    <3>2. /\ todo'[w] = todo[w] \ {g} /\ turn'[w] = {g} /\ attempt'[w] = 0 /\ wpc'[w] = "try"
          /\ UNCHANGED <<cur, tries, succeeded>>
          BY <2>8, <3>1 DEF ExecuteHandler, Goto, histVars, TypeOK
    <3>3. QED
          BY <2>1, <2>3, <3>2 DEF Made
  <2>9. CASE TryHandler(w) \/ HandlerFails(w) \/ WaitElapsed(w) \/ WaitInterrupted(w)
    <3>1. UNCHANGED <<cur, todo, tries, succeeded>>
          BY <2>9 DEF TryHandler, HandlerFails, WaitElapsed, WaitInterrupted, HandlerOver, histVars
    <3>2. turn'[w] = {} \/ (turn'[w] = turn[w] /\ Made(w)' = Made(w))
          BY <2>9, <2>4 DEF TryHandler, HandlerFails, WaitElapsed, WaitInterrupted, HandlerOver,
                            Goto, Made, TypeOK
    <3>3. QED
          BY <2>1, <2>3, <3>1, <3>2
  <2>10. CASE Exit(w) \/ EndEvent(w) \/ Receive(w)
    <3>1. UNCHANGED <<tries, succeeded, todo, turn>> /\ wpc'[w] \in {"exit", "select", "begin"}
          BY <2>10 DEF Exit, EndEvent, Receive, Goto, histVars, TypeOK
    <3>2. Busy(w)'
          BY <1>2, BusyStep DEF WorkerInv
    <3>3. todo'[w] = {} /\ turn'[w] = {}
          BY <3>1, <3>2 DEF Busy, InHandler
    <3>4. QED
          BY <2>1, <2>3, <3>1, <3>3
  <2>11. QED
        BY <1>2, <2>5, <2>6, <2>7, <2>8, <2>9, <2>10 DEF Worker
<1>3. QED
      BY <1>1, <1>2, StepKinds DEF Outside, Send, TriesInv

-----------------------------------------------------------------------------
(* EveryHandlerServed *)

Served(e, h) == <<e, h>> \in succeeded \/ tries[e][h] = MaxRetries + 1

\* A copied handler was served, has its turn, or is still to have it.
ServedInv ==
    \A e \in Events \ eventDone : \A h \in copied[e] :
        Served(e, h) \/ \E w \in Workers : e \in cur[w] /\ h \in todo[w] \cup turn[w]

\* A handler's turn ends with a success, with the last attempt, or because the event's
\* context is done.
LEMMA ServedNext ==
    ASSUME TypeOK, TypeOK', OwnerInv, WorkerInv, TriesInv, ServedInv, [Next]_vars
    PROVE  ServedInv'
<1>1. CASE UNCHANGED <<workVars, histVars>> /\ eventDone \subseteq eventDone'
      BY <1>1 DEF workVars, histVars, ServedInv, Served
<1>2. ASSUME NEW w \in Workers, Worker(w),
             NEW e \in Events \ eventDone, NEW h \in Handlers, h \in copied'[e]
      PROVE  Served(e, h)' \/ \E v \in Workers : e \in cur'[v] /\ h \in todo'[v] \cup turn'[v]
  <2>1. CASE e \notin cur[w]
    <3>1. h \in copied[e] /\ (Served(e, h) => Served(e, h)')
          BY <1>2, <2>1, HistoryFrame DEF Served
    <3>2. \A v \in Workers : e \in cur[v] =>
              e \in cur'[v] /\ todo'[v] = todo[v] /\ turn'[v] = turn[v]
          BY <1>2, <2>1, WorkerFrame
    <3>3. QED
          BY <3>1, <3>2 DEF ServedInv
  <2>2. CASE e \in cur[w] /\ Begin(w)
    <3>1. cur' = cur /\ copied'[e] = todo'[w]
          BY <2>2 DEF Begin
    <3>2. QED
          BY <1>2, <2>2, <3>1
  <2>3. CASE e \in cur[w] /\ ~Begin(w)
    <3>1. h \in copied[e]
          BY <1>2, <2>3 DEF Worker, Exit, Receive, EndEvent, ExecuteHandler, TryHandler, CallHandler,
                            HandlerSucceeds, HandlerFails, WaitElapsed, WaitInterrupted, histVars
    <3>2. Served(e, h) \/ h \in todo[w] \cup turn[w]
          BY <2>3, <3>1 DEF ServedInv, OwnerInv
    <3>3. /\ tries[e][h] \in Nat /\ attempt[w] \in 0..MaxRetries /\ MaxRetries \in Nat
          /\ h \in turn[w] => tries[e][h] = Made(w)
          BY <2>3, BoundsAssumption DEF TypeOK, TriesInv
    <3>4. Busy(w)
          BY DEF WorkerInv
    <3>5. CASE CallHandler(w)
      <4>1. /\ UNCHANGED <<cur, todo, turn, succeeded>>
            /\ h \notin turn[w] => tries'[e][h] = tries[e][h]
            BY <3>5 DEF CallHandler, TypeOK
      <4>2. QED
            BY <2>3, <3>2, <4>1 DEF Served
    <3>6. CASE HandlerSucceeds(w)
      <4>1. /\ UNCHANGED <<cur, todo, tries>> /\ succeeded \subseteq succeeded'
            /\ h \in turn[w] => <<e, h>> \in succeeded'
            BY <2>3, <3>6 DEF HandlerSucceeds
      <4>2. QED
            BY <2>3, <3>2, <4>1 DEF Served
    <3>7. CASE HandlerFails(w)
      <4>1. wpc[w] = "call" /\ UNCHANGED <<cur, todo, tries, succeeded>>
            BY <3>7 DEF HandlerFails, HandlerOver, Goto, histVars
      <4>2. turn'[w] = turn[w] \/ attempt[w] = MaxRetries
            BY <3>7 DEF HandlerFails
      <4>3. attempt[w] = MaxRetries /\ h \in turn[w] => Served(e, h)
            BY <3>3, <4>1 DEF Made, Served
      <4>4. QED
            BY <2>3, <3>2, <4>1, <4>2, <4>3 DEF Served
    <3>8. CASE TryHandler(w) \/ WaitElapsed(w) \/ WaitInterrupted(w)
      <4>1. InContext(w)
            BY <2>3, <3>4 DEF Busy, InContext
      <4>2. UNCHANGED <<cur, todo, turn, tries, succeeded>>
            BY <3>8, <4>1 DEF TryHandler, WaitElapsed, WaitInterrupted, histVars
      <4>3. QED
            BY <2>3, <3>2, <4>2 DEF Served
    <3>9. CASE ExecuteHandler(w)
      <4>1. wpc[w] = "next" /\ UNCHANGED <<cur, tries, succeeded>>
            BY <3>9 DEF ExecuteHandler, Goto, histVars
      <4>2. turn[w] = {}
            BY <3>4, <4>1 DEF Busy, InHandler
      <4>3. todo[w] \subseteq todo'[w] \cup turn'[w]
            BY <3>9 DEF ExecuteHandler, TypeOK
      <4>4. QED
            BY <2>3, <3>2, <4>1, <4>2, <4>3 DEF Served
    <3>10. CASE EndEvent(w)
      <4>1. wpc[w] = "next" /\ todo[w] = {} /\ UNCHANGED <<tries, succeeded>>
            BY <3>10 DEF EndEvent, Goto, histVars
      <4>2. turn[w] = {}
            BY <3>4, <4>1 DEF Busy, InHandler
      <4>3. QED
            BY <3>2, <4>1, <4>2 DEF Served
    <3>11. CASE Exit(w) \/ Receive(w)
      <4>1. wpc[w] = "select"
            BY <3>11 DEF Exit, Receive, Goto
      <4>2. QED
            BY <2>3, <3>4, <4>1 DEF Busy
    <3>12. QED
          BY <1>2, <2>3, <3>5, <3>6, <3>7, <3>8, <3>9, <3>10, <3>11 DEF Worker
  <2>4. QED
        BY <2>1, <2>2, <2>3
<1>3. ASSUME NEW w \in Workers, Worker(w) PROVE ServedInv'
  <2>1. eventDone' = eventDone
        BY <1>3, WorkerFrame
  <2>2. \A e \in Events : copied'[e] \subseteq Handlers
        BY DEF TypeOK
  <2>3. QED
        BY <1>2, <1>3, <2>1, <2>2 DEF ServedInv
<1>4. QED
      BY <1>1, <1>3, StepKinds DEF Outside, Send

-----------------------------------------------------------------------------
(* Close *)

\* What Close has done by when, and that a send can only kill the process after it.
CloseInv ==
    /\ closed <=> closePc # "idle"
    /\ done <=> closePc \in {"wait", "returned"}
    /\ chanClosed <=> closePc = "returned"
    /\ chanClosed => \A w \in Workers : wpc[w] = "exit"
    /\ panicked => chanClosed /\ \E e \in Events : pubPc[e] = "send"
    /\ \A w \in Workers : wpc[w] = "exit" => done

\* Workers leave only when told to, and none comes back.
LEMMA CloseNext ==
    ASSUME TypeOK, CloseInv, [Next]_vars PROVE CloseInv'
<1> USE DEF CloseInv
<1>1. CASE UNCHANGED vars
      BY <1>1 DEF vars, pubVars, closeVars, workVars
<1>2. ASSUME ~panicked, NEW h \in Handlers, Subscribe(h) \/ Unsubscribe(h) \/ ChangeMap(h)
      PROVE  CloseInv'
      BY <1>2 DEF Subscribe, Unsubscribe, ChangeMap, pubVars, closeVars, workVars
<1>3. ASSUME ~panicked, NEW e \in Events,
             Publish(e) \/ Send(e) \/ GiveUp(e) \/ CallerDone(e) \/ Watch(e)
      PROVE  CloseInv'
      BY <1>3 DEF Publish, Send, GiveUp, CallerDone, Watch, pubVars, closeVars, workVars
<1>4. ASSUME NEW e \in Events, SendOnClosed(e) PROVE CloseInv'
      BY <1>4 DEF SendOnClosed, pubVars, closeVars, workVars
<1>5. ASSUME ~panicked, NEW w \in Workers, Worker(w) PROVE CloseInv'
  <2>1. wpc[w] # "exit" /\ (wpc'[w] = "exit" => done) /\ \A v \in Workers \ {w} : wpc'[v] = wpc[v]
        BY <1>5 DEF TypeOK, Worker, Exit, Receive, Begin, EndEvent, ExecuteHandler, TryHandler,
                CallHandler, HandlerSucceeds, HandlerFails, WaitElapsed, WaitInterrupted,
                Goto, HandlerOver
  <2>2. UNCHANGED <<closeVars, panicked>>
        BY <1>5 DEF Worker, Exit, Receive, Begin, EndEvent, ExecuteHandler, TryHandler,
                CallHandler, HandlerSucceeds, HandlerFails, WaitElapsed, WaitInterrupted
  <2>3. QED
        BY <1>5, <2>1, <2>2 DEF closeVars
<1>6. CASE ~panicked /\ Close
      BY <1>6 DEF Close, MarkClosed, SignalDone, CloseChannel, CloseStep, pubVars, workVars
<1>7. QED
      BY <1>1, <1>2, <1>3, <1>4, <1>5, <1>6 DEF Next, Stopped

-----------------------------------------------------------------------------
(* The invariant of the bus, and the theorems *)

BusInv ==
    /\ TypeOK /\ RetriesLeft /\ OwnerInv /\ WorkerInv
    /\ LateInv /\ FreshInv /\ TriesInv /\ ServedInv /\ CloseInv

\* It holds of a new bus, whoever has subscribed to it...
LEMMA BusInit ==
    ASSUME NEW S \in SUBSET Handlers, InitWith(S) PROVE BusInv
<1>1. TypeOK /\ RetriesLeft
      BY TypeInit
<1>2. OwnerInv
      BY OwnerInit
<1>3. WorkerInv
      BY DEF InitWith, WorkerInv, Busy, InHandler
<1>4. LateInv /\ FreshInv
      BY DEF InitWith, LateInv, FreshInv, Untouched
<1>5. TriesInv
      BY BoundsAssumption DEF InitWith, TriesInv
<1>6. ServedInv /\ CloseInv
      BY BoundsAssumption DEF InitWith, ServedInv, CloseInv
<1>7. QED
      BY <1>1, <1>2, <1>3, <1>4, <1>5, <1>6 DEF BusInv

\* ...and every step keeps it.
LEMMA BusNext ==
    ASSUME BusInv, [Next]_vars PROVE BusInv'
BY TypeNext, OwnerNext, WorkerInvNext, LateNext, FreshNext, TriesNext, ServedNext,
   CloseNext DEF BusInv

\* What it says is what the runs check.
LEMMA BusInvSays ==
    ASSUME BusInv
    PROVE  TypeOK /\ OneLateCall /\ NoDuplicateDelivery /\ EveryHandlerServed
<1>1. OneLateCall
      BY DEF BusInv, LateInv, OneLateCall
<1>2. NoDuplicateDelivery
      BY DEF BusInv, TriesInv, NoDuplicateDelivery
<1>3. EveryHandlerServed
      BY DEF BusInv, ServedInv, Served, EveryHandlerServed, Processing
<1>4. QED
      BY <1>1, <1>2, <1>3 DEF BusInv

\* It is invariant.
LEMMA BusInvHolds == Spec => []BusInv
<1>1. Init => BusInv
      BY BusInit DEF Init
<1>2. QED
      BY <1>1, BusNext, PTL DEF Spec

\* The types, among them that no attempt is made beyond MaxRetries.
THEOREM TypeHolds == Spec => []TypeOK
BY BusInvHolds, BusInvSays, PTL

\* After its context is done, at most one call is made for an event, for any number
\* of handlers and retries.
THEOREM OneLateCallHolds == Spec => []OneLateCall
BY BusInvHolds, BusInvSays, PTL

\* No handler is called again for an event after it returned nil, and none more often
\* than the retries allow.
THEOREM NoDuplicateDeliveryHolds == Spec => []NoDuplicateDelivery
BY BusInvHolds, BusInvSays, PTL

\* When the bus is through with an event in its context, no copied handler was left out.
THEOREM EveryHandlerServedHolds == Spec => []EveryHandlerServed
BY BusInvHolds, BusInvSays, PTL

\* What Close promises: when it has returned, no event is with a worker...
QuietWhenClosed == closePc = "returned" => \A e \in Events : ~Processing(e)

\* The workers have left by then, each without an event.
THEOREM QuietWhenClosedHolds == Spec => []QuietWhenClosed
<1>1. BusInv => QuietWhenClosed
      BY DEF BusInv, CloseInv, WorkerInv, Busy, QuietWhenClosed, Processing
<1>2. QED
      BY <1>1, BusInvHolds, PTL

\* ...and no handler is called or returns any more: a worker that has left takes
\* no step.
THEOREM NoCallAfterCloseHolds == Spec => NoCallAfterClose
<1>1. BusInv /\ [Next]_vars => [closePc = "returned" => UNCHANGED <<workVars, histVars>>]_vars
  <2> SUFFICES ASSUME BusInv, [Next]_vars, closePc = "returned"
               PROVE  UNCHANGED <<workVars, histVars>>
      OBVIOUS
  <2>1. ASSUME NEW w \in Workers PROVE ~Worker(w)
        BY DEF BusInv, CloseInv, Worker, Exit, Receive, Begin, EndEvent, ExecuteHandler, TryHandler,
               CallHandler, HandlerSucceeds, HandlerFails, WaitElapsed, WaitInterrupted,
               Goto, HandlerOver
  <2>2. QED
        BY <2>1, StepKinds DEF BusInv, Outside, Send
<1>2. QED
      BY <1>1, BusInvHolds, PTL DEF Spec, NoCallAfterClose

\* Publish can kill the process only after Close has closed the channel, and only
\* when the check of eb.closed was passed before that.
PanicNeedsClose == panicked => closePc = "returned" /\ \E e \in Events : pubPc[e] = "send"

\* No panic without Close, whoever publishes.
THEOREM PanicNeedsCloseHolds == Spec => []PanicNeedsClose
<1>1. BusInv => PanicNeedsClose
      BY DEF BusInv, CloseInv, PanicNeedsClose
<1>2. QED
      BY <1>1, BusInvHolds, PTL
=============================================================================
