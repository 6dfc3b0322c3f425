---------------------------- MODULE ExecutorMetrics ----------------------------
(***************************************************************************)
(* The mutex of ExecutorMetrics, a field of the struct it guards           *)
(* (internal/executor/metrics.go).  Calls of ExecutePlan reset the         *)
(* metrics, the tasks of a call update them when they end, and readers     *)
(* call GetMetrics, all on one DAGExecutor.                                *)
(*                                                                         *)
(* sync.Mutex is modelled by its word: a locked bit, which belongs to no   *)
(* goroutine, and a count of the goroutines that went to sleep for it.     *)
(* resetMetrics overwrites that word.  The counters are left out, and so   *)
(* are the mutex's bits for fairness and its check that they fit, which is *)
(* one more way for the process to die.                                    *)
(***************************************************************************)
EXTENDS Naturals, FiniteSets

CONSTANTS
    Calls,    \* calls of ExecutePlan
    Width,    \* the tasks each of them runs, which end independently
    Readers   \* calls of GetMetrics

ASSUME MetricsAssumption == IsFiniteSet(Calls) /\ IsFiniteSet(Readers) /\ Width \in Nat

Tasks == Calls \X (1..Width)
Goroutines == Calls \cup Tasks \cup Readers

\* A reader's goroutine is none of the executor's.
ASSUME ReadersAssumption == Readers \cap (Calls \cup Tasks) = {}

VARIABLES
    locked,     \* the word: the locked bit
    waiters,    \* the word: how many sleepers it knows of
    asleep,     \* the goroutines that sleep until an Unlock wakes them
    pc,         \* where each goroutine is
    proc,       \* up, or dead by Unlock's fatal error
    forged      \* history: how many overwrites erased a locked bit

lockVars == <<locked, waiters, asleep>>
vars == <<lockVars, pc, proc, forged>>

Pc == {"idle", "lock", "overwrite", "copy", "copied", "unlock", "run", "done"}

TypeOK ==
    /\ locked \in BOOLEAN /\ waiters \in Nat /\ asleep \subseteq Goroutines
    /\ pc \in [Goroutines -> Pc]
    /\ proc \in {"up", "dead"}
    /\ forged \in Nat

Init ==
    /\ locked = FALSE /\ waiters = 0 /\ asleep = {}
    /\ pc = [g \in Goroutines |-> "idle"]
    /\ proc = "up" /\ forged = 0

Goto(g, from, to) == pc[g] = from /\ g \notin asleep /\ pc' = [pc EXCEPT ![g] = to]

\* A step that leaves the mutex alone.
Pass(g, from, to) == Goto(g, from, to) /\ UNCHANGED <<lockVars, proc, forged>>

-----------------------------------------------------------------------------
(* sync.Mutex *)

Acquire(g, from, to) ==
    /\ Goto(g, from, to)
    /\ ~locked /\ locked' = TRUE
    /\ UNCHANGED <<waiters, asleep, proc, forged>>

\* A goroutine that finds the bit set is counted and sleeps; woken, it tries again.
Sleep(g, from) ==
    /\ pc[g] = from /\ g \notin asleep /\ locked
    /\ asleep' = asleep \cup {g}
    /\ waiters' = waiters + 1
    /\ UNCHANGED <<locked, pc, proc, forged>>

Lock(g, from, to) == Acquire(g, from, to) \/ Sleep(g, from)

\* Mutant of Unlock: it wakes a sleeper whether or not one is counted.
UnlockUncounted(g, from, to) ==
    /\ Goto(g, from, to)
    /\ IF ~locked THEN proc' = "dead" /\ UNCHANGED lockVars
       ELSE /\ locked' = FALSE
            /\ IF asleep = {} THEN UNCHANGED <<waiters, asleep>>
               ELSE waiters' = waiters - 1 /\ \E s \in asleep : asleep' = asleep \ {s}
            /\ UNCHANGED proc
    /\ UNCHANGED forged

\* Clears the bit, whoever set it, and wakes one of the sleepers counted.
\* Without the bit it is a fatal error.
Unlock(g, from, to) ==
    /\ Goto(g, from, to)
    /\ IF ~locked THEN proc' = "dead" /\ UNCHANGED lockVars
       ELSE /\ locked' = FALSE
            /\ IF waiters = 0 THEN UNCHANGED <<waiters, asleep>>
               ELSE /\ waiters' = waiters - 1
                    /\ \E s \in asleep : asleep' = asleep \ {s}
            /\ UNCHANGED proc
    /\ UNCHANGED forged

-----------------------------------------------------------------------------
(* ExecutePlan, of which only resetMetrics and the end touch the metrics *)

Start(c) == Pass(c, "idle", "lock")

\* The new metrics come with a new mutex; those asleep on the old one are forgotten.
Overwrite(c) ==
    /\ Goto(c, "overwrite", "unlock")
    /\ locked' = FALSE /\ waiters' = 0
    /\ forged' = forged + IF locked THEN 1 ELSE 0
    /\ UNCHANGED <<asleep, proc>>

\* Mutant: the Unlock is given up, as the new mutex is unlocked anyway.
ResetWithoutUnlock(c) ==
    \/ Lock(c, "lock", "overwrite")
    \/ Goto(c, "overwrite", "run") /\ locked' = FALSE /\ waiters' = 0
         /\ forged' = forged + 1 /\ UNCHANGED <<asleep, proc>>

ResetMetrics(c) ==
    \/ Lock(c, "lock", "overwrite")
    \/ Overwrite(c)
    \/ Unlock(c, "unlock", "run")

\* The workers are joined.
Return(c) ==
    /\ Pass(c, "run", "done")
    /\ \A t \in Tasks : t[1] = c => pc[t] = "done"

\* A task of a call that got past its reset ends.
EndTask(t) == pc[t[1]] = "run" /\ Pass(t, "idle", "lock")

\* Mutant: a return between Lock and the deferred Unlock.
UpdateKeepsLock(t) == Lock(t, "lock", "done")

UpdateTaskMetrics(t) == Lock(t, "lock", "unlock") \/ Unlock(t, "unlock", "done")

-----------------------------------------------------------------------------
\* GetMetrics locks, and calls Copy, which locks as well.
GetMetrics(r) ==
    \/ Pass(r, "idle", "lock")
    \/ Lock(r, "lock", "copy")
    \/ Lock(r, "copy", "copied") \/ Unlock(r, "copied", "unlock")
    \/ Unlock(r, "unlock", "done")

Step(g) ==
    \/ g \in Calls /\ (ResetMetrics(g) \/ Return(g))
    \/ g \in Tasks /\ (EndTask(g) \/ UpdateTaskMetrics(g))
    \/ g \in Readers /\ GetMetrics(g)

Next == proc = "up" /\ (\E g \in Goroutines : Step(g) \/ (g \in Calls /\ Start(g)))

\* Goroutines are scheduled, and tasks end.  Nobody has to call ExecutePlan.
Spec == Init /\ [][Next]_vars
FairSpec == Spec /\ \A g \in Goroutines : WF_vars(proc = "up" /\ Step(g))

-----------------------------------------------------------------------------
(* Properties *)

\* The Unlocks that are still to come: one for each section entered, and
\* another while a reader is in Copy's.
Owed ==
    {<<g, "outer">> : g \in {h \in Goroutines :
                               pc[h] \in {"overwrite", "copy", "copied", "unlock"}}}
    \cup {<<r, "copy">> : r \in {h \in Readers : pc[h] = "copied"}}

\* As long as the process lives, the Unlocks to come are as many as locks that
\* are set or were overwritten: each overwrite leaves one Unlock too many, for ever.
LockDebt == proc = "up" => Cardinality(Owed) = forged + (IF locked THEN 1 ELSE 0)

\* A reset that overwrote its lock is paid for: by the death of the process, or
\* by a reader that sleeps on the mutex with an Unlock still to make.
ResetIsPaid ==
    (forged > 0) ~> (proc = "dead" \/ \E r \in Readers : r \in asleep /\ pc[r] = "copy")

\* What executor_test.go expects of a single plan ("unexpected error"):
\* ExecutePlan comes back.
ExecutePlanReturns == \A c \in Calls : (pc[c] = "lock") ~> (pc[c] = "done")

\* What the comment on GetMetrics says ("returns a copy of the current execution
\* metrics"), and executor_test.go expects: a call of it comes back.
GetMetricsReturns == \A r \in Readers : (pc[r] = "lock") ~> (pc[r] = "done")
=============================================================================
