------------------------------- MODULE EventBus -------------------------------
(***************************************************************************)
(* ChannelEventBus of internal/eventbus/channel_eventbus.go: publishers    *)
(* put events into a bounded channel, workers take them out and call the   *)
(* subscribed handlers with retries, and Close stops the workers and then  *)
(* closes the channel.                                                     *)
(*                                                                         *)
(* Every event is published once, by a goroutine of its own.  Handlers do  *)
(* not call the bus; AsyncEvents has those that do.  Payloads are left     *)
(* out, and times are choices.                                             *)
(***************************************************************************)
EXTENDS Naturals, Sequences, FiniteSets

CONSTANTS
    Events,      \* the events published
    Handlers,    \* the handlers, one subscription each
    Wants,       \* the events a handler's subscription covers
    CatchAll,    \* the handlers of SubscribeAll
    Workers,     \* the goroutines of startWorkers
    BufferSize,  \* eb.bufferSize
    MaxRetries   \* eb.maxRetries

ASSUME WantsAssumption ==
    /\ CatchAll \subseteq Handlers
    /\ Wants \in [Handlers -> SUBSET Events]
    /\ \A h \in CatchAll : Wants[h] = Events
ASSUME BoundsAssumption ==
    IsFiniteSet(Workers) /\ Workers # {} /\ BufferSize \in Nat \ {0} /\ MaxRetries \in Nat

VARIABLES
    subscribed,  \* handlers in subscribers or allSubscribers
    subPc,       \* where Subscribe or Unsubscribe of a handler is
    eventChan,   \* the channel: the events in it
    done,        \* eb.done is closed
    closed,      \* eb.closed
    closePc,     \* where Close is
    chanClosed,  \* eventChan is closed
    pubPc,       \* where Publish(event) is
    callerDone,  \* events whose publisher's context is done
    eventDone,   \* events whose own (child) context is done
    wpc,         \* where the worker is
    cur,         \* the event it processes
    todo,        \* copied handlers that did not have their turn yet
    turn,        \* the handler whose turn it is
    attempt,     \* the attempt it is at
    panicked,    \* a send on the closed channel killed the process
    copied,      \* history: the handlers copied for an event
    tries,       \* history: how often a handler was called for an event
    succeeded,   \* history: it returned nil
    late         \* history: calls made for an event whose context was done

subVars   == <<subscribed, subPc>>
pubVars   == <<pubPc, callerDone, eventDone>>
closeVars == <<done, closed, closePc, chanClosed>>
workVars  == <<wpc, cur, todo, turn, attempt>>
histVars  == <<copied, tries, succeeded, late>>
vars == <<subVars, eventChan, pubVars, closeVars, workVars, histVars, panicked>>

TypeOK ==
    /\ subscribed \subseteq Handlers
    /\ subPc \in [Handlers -> {"idle", "add", "remove"}]
    /\ eventChan \in Seq(Events) /\ Len(eventChan) \leq BufferSize
    /\ done \in BOOLEAN /\ closed \in BOOLEAN /\ chanClosed \in BOOLEAN
    /\ closePc \in {"idle", "signal", "wait", "returned"}
    /\ pubPc \in [Events -> {"new", "send", "queued", "refused", "gaveUp"}]
    /\ callerDone \subseteq Events /\ eventDone \subseteq Events
    /\ wpc \in [Workers -> {"select", "begin", "next", "try", "enter", "call", "wait", "exit"}]
    /\ cur \in [Workers -> SUBSET Events]
    /\ todo \in [Workers -> SUBSET Handlers]
    /\ turn \in [Workers -> SUBSET Handlers]
    /\ attempt \in [Workers -> 0..MaxRetries]
    /\ panicked \in BOOLEAN
    /\ copied \in [Events -> SUBSET Handlers]
    /\ tries \in [Events -> [Handlers -> Nat]]
    /\ succeeded \subseteq Events \X Handlers
    /\ late \in [Events -> Nat]

\* A new bus, to which handlers have subscribed before anything is published.
InitWith(handlers) ==
    /\ subscribed = handlers /\ subPc = [h \in Handlers |-> "idle"] /\ eventChan = <<>>
    /\ done = FALSE /\ closed = FALSE /\ closePc = "idle" /\ chanClosed = FALSE
    /\ pubPc = [e \in Events |-> "new"] /\ callerDone = {} /\ eventDone = {}
    /\ wpc = [w \in Workers |-> "select"]
    /\ cur = [w \in Workers |-> {}]
    /\ todo = [w \in Workers |-> {}]
    /\ turn = [w \in Workers |-> {}]
    /\ attempt = [w \in Workers |-> 0]
    /\ panicked = FALSE
    /\ copied = [e \in Events |-> {}]
    /\ tries = [e \in Events |-> [h \in Handlers |-> 0]]
    /\ succeeded = {}
    /\ late = [e \in Events |-> 0]

Init == InitWith({})

-----------------------------------------------------------------------------
(* Subscriptions *)

\* Subscribe, SubscribeAll and Unsubscribe check eb.closed without the lock...
Subscribe(h) ==
    /\ ~closed /\ subPc[h] = "idle" /\ h \notin subscribed
    /\ subPc' = [subPc EXCEPT ![h] = "add"]
    /\ UNCHANGED <<subscribed, eventChan, pubVars, closeVars, workVars, histVars, panicked>>

Unsubscribe(h) ==
    /\ ~closed /\ subPc[h] = "idle" /\ h \in subscribed
    /\ subPc' = [subPc EXCEPT ![h] = "remove"]
    /\ UNCHANGED <<subscribed, eventChan, pubVars, closeVars, workVars, histVars, panicked>>

\* ...and change the map under it, which may be after Close.
ChangeMap(h) ==
    /\ subPc[h] # "idle"
    /\ subscribed' = IF subPc[h] = "add" THEN subscribed \cup {h} ELSE subscribed \ {h}
    /\ subPc' = [subPc EXCEPT ![h] = "idle"]
    /\ UNCHANGED <<eventChan, pubVars, closeVars, workVars, histVars, panicked>>

-----------------------------------------------------------------------------
(* Publish(e) *)

PubStep(e, from, to) == pubPc[e] = from /\ pubPc' = [pubPc EXCEPT ![e] = to]

\* The check of eb.closed, which takes no lock and is not repeated.
Publish(e) ==
    /\ PubStep(e, "new", IF closed THEN "refused" ELSE "send")
    /\ UNCHANGED <<subVars, eventChan, callerDone, eventDone, closeVars, workVars,
                   histVars, panicked>>

\* Mutant of Send: the channel has no bound.
SendUnbounded(e) ==
    /\ PubStep(e, "send", "queued") /\ ~chanClosed
    /\ eventChan' = Append(eventChan, e)
    /\ UNCHANGED <<subVars, callerDone, eventDone, closeVars, workVars, histVars, panicked>>

Send(e) ==
    /\ PubStep(e, "send", "queued")
    /\ ~chanClosed /\ Len(eventChan) < BufferSize
    /\ eventChan' = Append(eventChan, e)
    /\ UNCHANGED <<subVars, callerDone, eventDone, closeVars, workVars, histVars, panicked>>

\* The select takes this branch, or any other that is ready.
GiveUp(e) ==
    /\ PubStep(e, "send", "gaveUp")
    /\ e \in callerDone
    /\ eventDone' = eventDone \cup {e}
    /\ UNCHANGED <<subVars, eventChan, callerDone, closeVars, workVars, histVars, panicked>>

\* A sender finds the channel closed, or was blocked on it when it closed.
SendOnClosed(e) ==
    /\ pubPc[e] = "send" /\ chanClosed
    /\ panicked' = TRUE
    /\ UNCHANGED <<subVars, eventChan, pubVars, closeVars, workVars, histVars>>

\* The publisher's context is done, and the child context with it.
CallerDone(e) ==
    /\ e \notin callerDone
    /\ callerDone' = callerDone \cup {e}
    /\ eventDone' = eventDone \cup {e}
    /\ UNCHANGED <<subVars, eventChan, pubPc, closeVars, workVars, histVars, panicked>>

\* The goroutine Publish started cancels the child context when eb.done closes.
Watch(e) ==
    /\ done /\ pubPc[e] \in {"send", "queued"} /\ e \notin eventDone
    /\ eventDone' = eventDone \cup {e}
    /\ UNCHANGED <<subVars, eventChan, pubPc, callerDone, closeVars, workVars,
                   histVars, panicked>>

-----------------------------------------------------------------------------
(* The workers *)

Goto(w, from, to) == wpc[w] = from /\ wpc' = [wpc EXCEPT ![w] = to]
InContext(w) == cur[w] \cap eventDone = {}

\* Mutant of Exit: a worker with nothing to do leaves.
ExitWhenIdle(w) ==
    /\ done \/ eventChan = <<>>
    /\ Goto(w, "select", "exit")
    /\ UNCHANGED <<subVars, eventChan, pubVars, closeVars, cur, todo, turn, attempt,
                   histVars, panicked>>

Exit(w) ==
    /\ done
    /\ Goto(w, "select", "exit")
    /\ UNCHANGED <<subVars, eventChan, pubVars, closeVars, cur, todo, turn, attempt,
                   histVars, panicked>>

Receive(w) ==
    /\ eventChan # <<>>
    /\ Goto(w, "select", "begin")
    /\ cur' = [cur EXCEPT ![w] = {Head(eventChan)}]
    /\ eventChan' = Tail(eventChan)
    /\ UNCHANGED <<subVars, pubVars, closeVars, todo, turn, attempt, histVars, panicked>>

\* processEvent: skip an event whose context is done, else copy its handlers.
Begin(w) ==
    /\ Goto(w, "begin", "next")
    /\ todo' = [todo EXCEPT ![w] =
                  IF InContext(w) THEN {h \in subscribed : cur[w] \subseteq Wants[h]} ELSE {}]
    /\ copied' = [e \in Events |-> IF e \in cur[w] THEN todo'[w] ELSE copied[e]]
    /\ UNCHANGED <<subVars, eventChan, pubVars, closeVars, cur, turn, attempt,
                   tries, succeeded, late, panicked>>

\* All handlers had their turn.
EndEvent(w) ==
    /\ todo[w] = {}
    /\ Goto(w, "next", "select")
    /\ cur' = [cur EXCEPT ![w] = {}]
    /\ UNCHANGED <<subVars, eventChan, pubVars, closeVars, todo, turn, attempt,
                   histVars, panicked>>

\* executeHandler for any handler left; catch-all handlers come last.
ExecuteHandler(w) ==
    /\ Goto(w, "next", "try")
    /\ \E h \in todo[w] :
         /\ h \in CatchAll => todo[w] \subseteq CatchAll
         /\ todo' = [todo EXCEPT ![w] = @ \ {h}]
         /\ turn' = [turn EXCEPT ![w] = {h}]
    /\ attempt' = [attempt EXCEPT ![w] = 0]
    /\ UNCHANGED <<subVars, eventChan, pubVars, closeVars, cur, histVars, panicked>>

\* executeHandler returns.
HandlerOver(w, from) ==
    /\ Goto(w, from, "next")
    /\ turn' = [turn EXCEPT ![w] = {}]

\* Mutant of TryHandler: the context is not looked at.
TryBlindly(w) ==
    /\ Goto(w, "try", "enter")
    /\ UNCHANGED <<subVars, eventChan, pubVars, closeVars, cur, todo, turn, attempt,
                   histVars, panicked>>

\* The head of the retry loop: no attempt in a context that is done...
TryHandler(w) ==
    /\ IF InContext(w) THEN Goto(w, "try", "enter") /\ UNCHANGED turn
                       ELSE HandlerOver(w, "try")
    /\ UNCHANGED <<subVars, eventChan, pubVars, closeVars, cur, todo, attempt,
                   histVars, panicked>>

\* ...which may be done by the time the handler is called.
CallHandler(w) ==
    /\ Goto(w, "enter", "call")
    /\ tries' = [e \in Events |-> [h \in Handlers |->
                   tries[e][h] + IF e \in cur[w] /\ h \in turn[w] THEN 1 ELSE 0]]
    /\ late' = [e \in Events |-> late[e] + IF e \in cur[w] \cap eventDone THEN 1 ELSE 0]
    /\ UNCHANGED <<subVars, eventChan, pubVars, closeVars, cur, todo, turn, attempt,
                   copied, succeeded, panicked>>

\* Mutant of HandlerSucceeds: the loop goes on to its next attempt.
SuccessRetries(w) ==
    /\ IF attempt[w] = MaxRetries THEN HandlerOver(w, "call")
                                  ELSE Goto(w, "call", "wait") /\ UNCHANGED turn
    /\ succeeded' = succeeded \cup (cur[w] \X turn[w])
    /\ UNCHANGED <<subVars, eventChan, pubVars, closeVars, cur, todo, attempt,
                   copied, tries, late, panicked>>

HandlerSucceeds(w) ==
    /\ HandlerOver(w, "call")
    /\ succeeded' = succeeded \cup (cur[w] \X turn[w])
    /\ UNCHANGED <<subVars, eventChan, pubVars, closeVars, cur, todo, attempt,
                   copied, tries, late, panicked>>

\* Mutant of HandlerFails: a handler that failed for good ends the event.
FailureEndsEvent(w) ==
    /\ IF attempt[w] = MaxRetries
         THEN HandlerOver(w, "call") /\ todo' = [todo EXCEPT ![w] = {}]
         ELSE Goto(w, "call", "wait") /\ UNCHANGED <<turn, todo>>
    /\ UNCHANGED <<subVars, eventChan, pubVars, closeVars, cur, attempt, histVars, panicked>>

\* An error is retried after a wait, unless this was the last attempt.
HandlerFails(w) ==
    /\ IF attempt[w] = MaxRetries THEN HandlerOver(w, "call")
                                  ELSE Goto(w, "call", "wait") /\ UNCHANGED turn
    /\ UNCHANGED <<subVars, eventChan, pubVars, closeVars, cur, todo, attempt,
                   histVars, panicked>>

WaitElapsed(w) ==
    /\ Goto(w, "wait", "try")
    /\ attempt' = [attempt EXCEPT ![w] = @ + 1]
    /\ UNCHANGED <<subVars, eventChan, pubVars, closeVars, cur, todo, turn,
                   histVars, panicked>>

WaitInterrupted(w) ==
    /\ ~InContext(w)
    /\ HandlerOver(w, "wait")
    /\ UNCHANGED <<subVars, eventChan, pubVars, closeVars, cur, todo, attempt,
                   histVars, panicked>>

Worker(w) ==
    \/ Exit(w) \/ Receive(w) \/ Begin(w) \/ EndEvent(w) \/ ExecuteHandler(w) \/ TryHandler(w)
    \/ CallHandler(w) \/ HandlerSucceeds(w) \/ HandlerFails(w) \/ WaitElapsed(w) \/ WaitInterrupted(w)

-----------------------------------------------------------------------------
(* Close: mark, signal the workers, wait for them, close the channel. Later *)
(* calls find the mark and return.                                          *)

CloseStep(from, to) == closePc = from /\ closePc' = to

MarkClosed ==
    /\ CloseStep("idle", "signal")
    /\ closed' = TRUE
    /\ UNCHANGED <<subVars, eventChan, pubVars, done, chanClosed, workVars, histVars, panicked>>

\* Mutant of SignalDone: eb.done stays open.
SignalForgotten ==
    /\ CloseStep("signal", "wait")
    /\ UNCHANGED <<subVars, eventChan, pubVars, closed, done, chanClosed, workVars,
                   histVars, panicked>>

SignalDone ==
    /\ CloseStep("signal", "wait")
    /\ done' = TRUE
    /\ UNCHANGED <<subVars, eventChan, pubVars, closed, chanClosed, workVars, histVars, panicked>>

\* Mutants of CloseChannel: the workers are not waited for; the channel stays open.
CloseAtOnce ==
    /\ CloseStep("wait", "returned")
    /\ chanClosed' = TRUE
    /\ UNCHANGED <<subVars, eventChan, pubVars, done, closed, workVars, histVars, panicked>>
CloseWorkersOnly ==
    /\ \A w \in Workers : wpc[w] = "exit"
    /\ CloseStep("wait", "returned")
    /\ UNCHANGED <<subVars, eventChan, pubVars, done, closed, chanClosed, workVars, histVars, panicked>>

CloseChannel ==
    /\ \A w \in Workers : wpc[w] = "exit"
    /\ CloseStep("wait", "returned")
    /\ chanClosed' = TRUE
    /\ UNCHANGED <<subVars, eventChan, pubVars, done, closed, workVars, histVars, panicked>>

Close == MarkClosed \/ SignalDone \/ CloseChannel

-----------------------------------------------------------------------------
\* The process is dead, or the bus is closed and nobody publishes.
Stopped ==
    /\ panicked \/ (closePc = "returned" /\ \A e \in Events : pubPc[e] # "send")
    /\ UNCHANGED vars

Next ==
    \/ /\ ~panicked
       /\ \/ \E h \in Handlers : Subscribe(h) \/ Unsubscribe(h) \/ ChangeMap(h)
          \/ \E e \in Events : \/ Publish(e) \/ Send(e) \/ GiveUp(e) \/ SendOnClosed(e)
                               \/ CallerDone(e) \/ Watch(e)
          \/ \E w \in Workers : Worker(w)
          \/ Close
    \/ Stopped

\* Goroutines are scheduled, handlers return, and of those that wait for room
\* in the channel the runtime serves each in turn.  Nobody has to call Close.
Fairness ==
    /\ \A w \in Workers : WF_vars(~panicked /\ Worker(w))
    /\ \A e \in Events : /\ SF_vars(~panicked /\ Send(e))
                         /\ WF_vars(~panicked /\ (GiveUp(e) \/ SendOnClosed(e)))
    /\ WF_vars(~panicked /\ (SignalDone \/ CloseChannel))

Spec == Init /\ [][Next]_vars
FairSpec == Spec /\ Fairness

-----------------------------------------------------------------------------
(* Properties *)

Through(e) == pubPc[e] = "queued" /\ \A i \in 1..Len(eventChan) : eventChan[i] # e
Processing(e) == \E w \in Workers : e \in cur[w]

\* When the bus is through with an event whose context was never done, every
\* handler copied for it was served: it returned nil, or it failed in each of
\* its MaxRetries + 1 attempt. One handler's failure costs no other its turn.
EveryHandlerServed ==
    \A e \in Events : Through(e) /\ ~Processing(e) /\ e \notin eventDone =>
        \A h \in copied[e] : <<e, h>> \in succeeded \/ tries[e][h] = MaxRetries + 1

\* No handler is called again for an event after it returned nil, and none more
\* often than the retries allow.
NoDuplicateDelivery ==
    \A e \in Events, h \in Handlers :
        /\ tries[e][h] \leq MaxRetries + 1
        /\ <<e, h>> \in succeeded =>
             \A w \in Workers : ~(cur[w] = {e} /\ h \in todo[w] \cup turn[w])

\* Once an event's context is done, by its publisher or by Close, at most the one
\* call that had passed its check is made, whatever handlers and attempts are left.
OneLateCall == \A e \in Events : late[e] \leq 1

\* When Close has returned no worker takes another step: no handler is called or
\* returns any more, and no retry is waiting, though subscriptions may change and
\* publishers may still be on their way.
NoCallAfterClose == [][closePc = "returned" => UNCHANGED <<workVars, histVars>>]_vars

\* What Publish's first lines promise ("event bus is closed" as an error): to
\* publish on a closed bus is refused, and never kills the process.
PublishNeverPanics == ~panicked
=============================================================================
