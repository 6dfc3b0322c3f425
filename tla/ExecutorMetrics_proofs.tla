------------------------ MODULE ExecutorMetrics_proofs ------------------------
(* Theorems about ExecutorMetrics, for any number of calls, tasks, readers. *)
EXTENDS ExecutorMetrics, FiniteSetTheorems, TLAPS

USE DEF Pc

-----------------------------------------------------------------------------
(* Next, sorted by what a step does to the mutex *)

Passes(g) == Pass(g, "idle", "lock") \/ (g \notin Readers /\ Pass(g, "run", "done"))
Sleeps(g) == Sleep(g, "lock") \/ Sleep(g, "copy")
Enters(g) ==
    \/ g \notin Readers /\ (Acquire(g, "lock", "overwrite") \/ Acquire(g, "lock", "unlock"))
    \/ g \in Readers /\ Acquire(g, "lock", "copy")
EntersCopy(g) == g \in Readers /\ Acquire(g, "copy", "copied")
LeavesCopy(g) == g \in Readers /\ Unlock(g, "copied", "unlock")
Leaves(g)     == Unlock(g, "unlock", "run") \/ Unlock(g, "unlock", "done")
Resets(g)     == g \notin Readers /\ Overwrite(g)

\* Every step of a goroutine is of one of these kinds.
LEMMA StepKinds ==
    ASSUME Next
    PROVE  /\ proc = "up"
           /\ \E g \in Goroutines : \/ Passes(g) \/ Sleeps(g) \/ Resets(g)
                                    \/ Enters(g) \/ EntersCopy(g)
                                    \/ Leaves(g) \/ LeavesCopy(g)
<1>1. proc = "up" /\ \E g \in Goroutines : Step(g) \/ (g \in Calls /\ Start(g))
      BY DEF Next
<1>2. ASSUME NEW g \in Goroutines, Step(g) \/ (g \in Calls /\ Start(g))
      PROVE  \/ Passes(g) \/ Sleeps(g) \/ Resets(g) \/ Enters(g) \/ EntersCopy(g)
             \/ Leaves(g) \/ LeavesCopy(g)
      BY <1>2, ReadersAssumption
         DEF Step, Start, ResetMetrics, Return, EndTask, UpdateTaskMetrics, GetMetrics, Lock,
             Passes, Sleeps, Resets, Enters, EntersCopy, Leaves, LeavesCopy
<1>3. QED
      BY <1>1, <1>2

-----------------------------------------------------------------------------
(* TypeOK *)

\* The types hold of a mutex nobody has locked.
LEMMA TypeInit == Init => TypeOK
<1> SUFFICES ASSUME Init PROVE TypeOK
    OBVIOUS
<1>1. locked \in BOOLEAN /\ waiters \in Nat /\ asleep \subseteq Goroutines
      BY DEF Init
<1>2. pc \in [Goroutines -> Pc] /\ proc \in {"up", "dead"} /\ forged \in Nat
      BY DEF Init
<1>3. QED
      BY <1>1, <1>2 DEF TypeOK

\* Locking keeps the types, whoever does it and goes where...
LEMMA TypeAcquire ==
    ASSUME TypeOK, NEW g \in Goroutines, NEW from \in Pc, NEW to \in Pc,
           Acquire(g, from, to) \/ Sleep(g, from) \/ Pass(g, from, to)
    PROVE  TypeOK'
<1>1. locked' \in BOOLEAN
      BY DEF TypeOK, Acquire, Sleep, Pass, lockVars
<1>2. waiters' \in Nat
      BY DEF TypeOK, Acquire, Sleep, Pass, lockVars
<1>3. asleep' \subseteq Goroutines
      BY DEF TypeOK, Acquire, Sleep, Pass, lockVars
<1>4. pc' \in [Goroutines -> Pc]
      BY DEF TypeOK, Acquire, Sleep, Pass, Goto
<1>5. proc' \in {"up", "dead"} /\ forged' \in Nat
      BY DEF TypeOK, Acquire, Sleep, Pass
<1>6. QED
      BY <1>1, <1>2, <1>3, <1>4, <1>5 DEF TypeOK

\* ...and so does unlocking...
LEMMA TypeUnlock ==
    ASSUME TypeOK, NEW g \in Goroutines, NEW from \in Pc, NEW to \in Pc,
           Unlock(g, from, to)
    PROVE  TypeOK'
<1>1. locked' \in BOOLEAN
      BY DEF TypeOK, Unlock, lockVars
<1>2. waiters' \in Nat
      BY DEF TypeOK, Unlock, lockVars
<1>3. asleep' \subseteq Goroutines
      BY DEF TypeOK, Unlock, lockVars
<1>4. pc' \in [Goroutines -> Pc]
      BY DEF TypeOK, Unlock, Goto
<1>5. proc' \in {"up", "dead"} /\ forged' \in Nat
      BY DEF TypeOK, Unlock
<1>6. QED
      BY <1>1, <1>2, <1>3, <1>4, <1>5 DEF TypeOK

\* ...and the overwrite.
LEMMA TypeOverwrite ==
    ASSUME TypeOK, NEW g \in Goroutines, Overwrite(g)
    PROVE  TypeOK'
<1>1. forged' \in Nat
      BY DEF TypeOK, Overwrite
<1>2. locked' \in BOOLEAN /\ waiters' \in Nat
      BY DEF Overwrite
<1>3. pc' \in [Goroutines -> Pc]
      BY DEF TypeOK, Overwrite, Goto
<1>4. asleep' \subseteq Goroutines /\ proc' \in {"up", "dead"}
      BY DEF TypeOK, Overwrite
<1>5. QED
      BY <1>1, <1>2, <1>3, <1>4 DEF TypeOK

\* Every step keeps the types.
LEMMA TypeNext == TypeOK /\ [Next]_vars => TypeOK'
<1> SUFFICES ASSUME TypeOK, [Next]_vars PROVE TypeOK'
    OBVIOUS
<1>1. CASE Next
  <2>1. PICK g \in Goroutines : \/ Passes(g) \/ Sleeps(g) \/ Resets(g) \/ Enters(g)
                                \/ EntersCopy(g) \/ Leaves(g) \/ LeavesCopy(g)
        BY <1>1, StepKinds
  <2>2. CASE Passes(g) \/ Sleeps(g) \/ Enters(g) \/ EntersCopy(g)
        BY <2>2, TypeAcquire DEF Passes, Sleeps, Enters, EntersCopy
  <2>3. CASE Leaves(g) \/ LeavesCopy(g)
        BY <2>3, TypeUnlock DEF Leaves, LeavesCopy
  <2>4. CASE Resets(g)
        BY <2>4, TypeOverwrite DEF Resets
  <2>5. QED
        BY <2>1, <2>2, <2>3, <2>4
<1>2. CASE UNCHANGED vars
      BY <1>2 DEF TypeOK, vars, lockVars
<1>3. QED
      BY <1>1, <1>2

\* The mutex, the goroutines and the process keep their types, in every state.
THEOREM TypeCorrect == Spec => []TypeOK
<1>1. Spec => []TypeOK
      BY TypeInit, TypeNext, PTL DEF Spec
<1>2. QED
      BY <1>1

-----------------------------------------------------------------------------
(* The Unlocks still to come *)

\* There are finitely many goroutines, and finitely many Unlocks to come.
LEMMA OwedFinite == IsFiniteSet(Owed)
<1>1. IsFiniteSet(1..Width)
      BY FS_Interval, MetricsAssumption
<1>2. IsFiniteSet(Tasks)
      BY <1>1, FS_Product, MetricsAssumption DEF Tasks
<1>3. IsFiniteSet(Goroutines)
      BY <1>2, FS_Union, MetricsAssumption DEF Goroutines
<1>4. IsFiniteSet({"outer"}) /\ IsFiniteSet({"copy"})
      BY FS_Singleton
<1>5. IsFiniteSet(Goroutines \X {"outer"}) /\ IsFiniteSet(Goroutines \X {"copy"})
      BY <1>3, <1>4, FS_Product
<1>6. IsFiniteSet((Goroutines \X {"outer"}) \cup (Goroutines \X {"copy"}))
      BY <1>5, FS_Union
<1>7. Owed \subseteq (Goroutines \X {"outer"}) \cup (Goroutines \X {"copy"})
      BY DEF Owed, Goroutines
<1>8. QED
      BY <1>6, <1>7, FS_Subset

\* What is owed depends on where the goroutines are.
LEMMA OwedAt ==
    \A x : x \in Owed <=>
        \/ \E g \in Goroutines : x = <<g, "outer">>
                                 /\ pc[g] \in {"overwrite", "copy", "copied", "unlock"}
        \/ \E r \in Readers : x = <<r, "copy">> /\ pc[r] = "copied"
BY DEF Owed

\* A Lock that succeeds adds an Unlock to come, which was none before.
LEMMA OwedGrows ==
    ASSUME TypeOK, NEW g \in Goroutines, Enters(g) \/ EntersCopy(g)
    PROVE  \E x : x \notin Owed /\ Owed' = Owed \cup {x}
<1>1. CASE Enters(g)
  <2>1. /\ pc \in [Goroutines -> Pc] /\ pc[g] = "lock"
        /\ \E to \in {"overwrite", "unlock", "copy"} : pc' = [pc EXCEPT ![g] = to]
        BY <1>1 DEF TypeOK, Enters, Acquire, Goto
  <2>2. <<g, "outer">> \notin Owed
        BY <2>1, OwedAt
  <2>3. Owed' = Owed \cup {<<g, "outer">>}
        BY <2>1 DEF Owed, Goroutines
  <2>4. QED
        BY <2>2, <2>3
<1>2. CASE EntersCopy(g)
  <2>1. /\ pc \in [Goroutines -> Pc] /\ pc[g] = "copy" /\ g \in Readers
        /\ pc' = [pc EXCEPT ![g] = "copied"]
        BY <1>2 DEF TypeOK, EntersCopy, Acquire, Goto
  <2>2. <<g, "copy">> \notin Owed
        BY <2>1, OwedAt
  <2>3. Owed' = Owed \cup {<<g, "copy">>}
        BY <2>1 DEF Owed, Goroutines
  <2>4. QED
        BY <2>2, <2>3
<1>3. QED
      BY <1>1, <1>2

\* An Unlock is one of those to come.
LEMMA OwedShrinks ==
    ASSUME TypeOK, NEW g \in Goroutines, Leaves(g) \/ LeavesCopy(g)
    PROVE  \E x \in Owed : Owed' = Owed \ {x}
<1>1. CASE Leaves(g)
  <2>1. /\ pc \in [Goroutines -> Pc] /\ pc[g] = "unlock"
        /\ \E to \in {"run", "done"} : pc' = [pc EXCEPT ![g] = to]
        BY <1>1 DEF TypeOK, Leaves, Unlock, Goto
  <2>2. <<g, "outer">> \in Owed
        BY <2>1, OwedAt
  <2>3. Owed' = Owed \ {<<g, "outer">>}
        BY <2>1 DEF Owed, Goroutines
  <2>4. QED
        BY <2>2, <2>3
<1>2. CASE LeavesCopy(g)
  <2>1. /\ pc \in [Goroutines -> Pc] /\ pc[g] = "copied" /\ g \in Readers
        /\ pc' = [pc EXCEPT ![g] = "unlock"]
        BY <1>2 DEF TypeOK, LeavesCopy, Unlock, Goto
  <2>2. <<g, "copy">> \in Owed
        BY <2>1, OwedAt
  <2>3. Owed' = Owed \ {<<g, "copy">>}
        BY <2>1 DEF Owed, Goroutines
  <2>4. QED
        BY <2>2, <2>3
<1>3. QED
      BY <1>1, <1>2

\* Nothing else changes what is owed.
LEMMA OwedStays ==
    ASSUME TypeOK, NEW g \in Goroutines, Passes(g) \/ Sleeps(g) \/ Resets(g)
    PROVE  Owed' = Owed
<1>1. CASE Passes(g)
  <2>1. /\ pc \in [Goroutines -> Pc] /\ pc[g] \in {"idle", "run"}
        /\ \E to \in {"lock", "done"} : pc' = [pc EXCEPT ![g] = to]
        BY <1>1 DEF TypeOK, Passes, Pass, Goto
  <2>2. QED
        BY <2>1 DEF Owed, Goroutines
<1>2. CASE Sleeps(g)
      BY <1>2 DEF Sleeps, Sleep, Owed
<1>3. CASE Resets(g)
  <2>1. /\ pc \in [Goroutines -> Pc] /\ pc[g] = "overwrite"
        /\ pc' = [pc EXCEPT ![g] = "unlock"]
        BY <1>3 DEF TypeOK, Resets, Overwrite, Goto
  <2>2. QED
        BY <2>1 DEF Owed, Goroutines
<1>4. QED
      BY <1>1, <1>2, <1>3

-----------------------------------------------------------------------------
(* LockDebt *)

\* While the process lives, locking pays for the Unlock it adds...
LEMMA DebtEnters ==
    ASSUME TypeOK, LockDebt, proc = "up", NEW g \in Goroutines, Enters(g) \/ EntersCopy(g)
    PROVE  LockDebt'
<1>1. PICK x : x \notin Owed /\ Owed' = Owed \cup {x}
      BY OwedGrows
<1>2. Cardinality(Owed') = Cardinality(Owed) + 1
      BY <1>1, OwedFinite, FS_AddElement
<1>3. ~locked /\ locked' /\ forged' = forged
      BY DEF Enters, EntersCopy, Acquire
<1>4. QED
      BY <1>2, <1>3 DEF LockDebt, TypeOK

\* ...unlocking clears the bit, or kills the process...
LEMMA DebtLeaves ==
    ASSUME TypeOK, LockDebt, proc = "up", NEW g \in Goroutines, Leaves(g) \/ LeavesCopy(g)
    PROVE  LockDebt'
<1>1. CASE ~locked
      BY <1>1 DEF Leaves, LeavesCopy, Unlock, LockDebt
<1>2. CASE locked
  <2>1. PICK x \in Owed : Owed' = Owed \ {x}
        BY OwedShrinks
  <2>2. Cardinality(Owed') = Cardinality(Owed) - 1
        BY <2>1, OwedFinite, FS_RemoveElement
  <2>3. ~locked' /\ forged' = forged
        BY <1>2 DEF Leaves, LeavesCopy, Unlock
  <2>4. QED
        BY <1>2, <2>2, <2>3 DEF LockDebt, TypeOK
<1>3. QED
      BY <1>1, <1>2

\* ...and an overwrite of a set bit is what forged counts.
LEMMA DebtRest ==
    ASSUME TypeOK, LockDebt, proc = "up", NEW g \in Goroutines,
           Passes(g) \/ Sleeps(g) \/ Resets(g)
    PROVE  LockDebt'
<1>1. Owed' = Owed
      BY OwedStays
<1>2. CASE Passes(g) \/ Sleeps(g)
  <2>1. locked' = locked /\ forged' = forged /\ proc' = proc
        BY <1>2 DEF Passes, Pass, Sleeps, Sleep, lockVars
  <2>2. QED
        BY <1>1, <2>1 DEF LockDebt
<1>3. CASE Resets(g)
  <2>1. ~locked' /\ forged' = forged + (IF locked THEN 1 ELSE 0)
        BY <1>3 DEF Resets, Overwrite
  <2>2. QED
        BY <1>1, <2>1 DEF LockDebt, TypeOK
<1>4. QED
      BY <1>2, <1>3

\* LockDebt is inductive, given the types.
LEMMA DebtNext == TypeOK /\ LockDebt /\ [Next]_vars => LockDebt'
<1> SUFFICES ASSUME TypeOK, LockDebt, [Next]_vars PROVE LockDebt'
    OBVIOUS
<1>1. CASE Next
  <2>1. PICK g \in Goroutines : \/ Passes(g) \/ Sleeps(g) \/ Resets(g) \/ Enters(g)
                                \/ EntersCopy(g) \/ Leaves(g) \/ LeavesCopy(g)
        BY <1>1, StepKinds
  <2>2. proc = "up"
        BY <1>1, StepKinds
  <2>3. CASE Passes(g) \/ Sleeps(g) \/ Resets(g)
        BY <2>2, <2>3, DebtRest
  <2>4. CASE Enters(g) \/ EntersCopy(g)
        BY <2>2, <2>4, DebtEnters
  <2>5. CASE Leaves(g) \/ LeavesCopy(g)
        BY <2>2, <2>5, DebtLeaves
  <2>6. QED
        BY <2>1, <2>3, <2>4, <2>5
<1>2. CASE UNCHANGED vars
      BY <1>2 DEF LockDebt, Owed, vars, lockVars
<1>3. QED
      BY <1>1, <1>2

\* Nothing is owed at first.
LEMMA DebtInit == Init => LockDebt
<1> SUFFICES ASSUME Init PROVE LockDebt
    OBVIOUS
<1>1. Owed = {}
      BY DEF Init, Owed, Goroutines
<1>2. QED
      BY <1>1, FS_EmptySet DEF Init, LockDebt

\* For any number of calls, tasks and readers: as long as the process lives, the
\* Unlocks still to come are as many as locks that are set or were overwritten.
THEOREM LockDebtHolds == Spec => []LockDebt
BY TypeCorrect, DebtInit, DebtNext, PTL DEF Spec

-----------------------------------------------------------------------------
(* GetMetrics *)

\* A call of GetMetrics gets past Copy's Lock only when a reset overwrote a lock: the
\* deadlock that refutes GetMetricsReturns is not of one unlucky interleaving.
CopyNeedsAReset == \A r \in Readers : pc[r] \in {"copied", "done"} => forged > 0

\* A reader is past Copy's Lock, or was, only after an overwrite.
PastCopy == \A r \in Readers : pc[r] \in {"copied", "unlock", "done"} => forged > 0

\* A reader at Copy's Lock still owes an Unlock. If no lock was overwritten, this
\* is the Unlock of the lock that is set, and Copy's Lock cannot succeed.
LEMMA CopyIsLocked ==
    ASSUME TypeOK, LockDebt, proc = "up", NEW r \in Readers, pc[r] = "copy", ~locked
    PROVE  forged > 0
<1>1. <<r, "outer">> \in Owed
      BY OwedAt DEF Goroutines
<1>2. Cardinality(Owed) # 0
      BY <1>1, OwedFinite, FS_EmptySet
<1>3. Cardinality(Owed) = forged
      BY DEF LockDebt, TypeOK
<1>4. QED
      BY <1>2, <1>3 DEF TypeOK

\* PastCopy is inductive, given the two.
LEMMA PastNext == TypeOK /\ LockDebt /\ PastCopy /\ [Next]_vars => PastCopy'
<1> SUFFICES ASSUME TypeOK, LockDebt, PastCopy, [Next]_vars PROVE PastCopy'
    OBVIOUS
<1>1. CASE Next
  <2>1. PICK g \in Goroutines : \/ Passes(g) \/ Sleeps(g) \/ Resets(g) \/ Enters(g)
                                \/ EntersCopy(g) \/ Leaves(g) \/ LeavesCopy(g)
        BY <1>1, StepKinds
  <2>2. proc = "up"
        BY <1>1, StepKinds
  <2>3. forged' \in Nat /\ forged' >= forged
        BY <2>1 DEF TypeOK, Passes, Pass, Sleeps, Sleep, Resets, Overwrite, Enters, EntersCopy,
                    Acquire, Leaves, LeavesCopy, Unlock
  <2>4. \A r \in Readers : r # g => pc'[r] = pc[r]
        BY <2>1 DEF TypeOK, Goroutines, Passes, Pass, Sleeps, Sleep, Resets, Overwrite, Enters,
                    EntersCopy, Acquire, Leaves, LeavesCopy, Unlock, Goto
  <2>5. ASSUME g \in Readers, pc'[g] \in {"copied", "unlock", "done"}
        PROVE  forged' > 0
    <3>1. CASE pc[g] \in {"copied", "unlock", "done"}
          BY <2>3, <2>5, <3>1 DEF PastCopy, TypeOK
    <3>2. CASE EntersCopy(g)
          BY <2>2, <2>3, <3>2, CopyIsLocked DEF EntersCopy, Acquire, Goto, TypeOK
    <3>3. CASE Passes(g) \/ Sleeps(g) \/ Resets(g) \/ Enters(g)
          BY <2>5, <3>1, <3>3
             DEF TypeOK, Goroutines, Passes, Pass, Sleeps, Sleep, Resets, Enters, Acquire, Goto
    <3>4. CASE Leaves(g) \/ LeavesCopy(g)
          BY <3>1, <3>4 DEF Leaves, LeavesCopy, Unlock, Goto
    <3>5. QED
          BY <2>1, <3>2, <3>3, <3>4
  <2>6. QED
        BY <2>3, <2>4, <2>5 DEF PastCopy, TypeOK
<1>2. CASE UNCHANGED vars
      BY <1>2 DEF PastCopy, vars
<1>3. QED
      BY <1>1, <1>2

\* For any number of them: no GetMetrics returns, or gets into Copy, unless a
\* reset overwrote a lock.
THEOREM CopyNeedsAResetHolds == Spec => []CopyNeedsAReset
<1>1. Init => PastCopy
      BY DEF Init, PastCopy, Goroutines
<1>2. PastCopy => CopyNeedsAReset
      BY DEF PastCopy, CopyNeedsAReset
<1>3. QED
      BY TypeCorrect, LockDebtHolds, <1>1, <1>2, PastNext, PTL DEF Spec
=============================================================================
