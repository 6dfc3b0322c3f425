----------------------------- MODULE DAGFile_proofs -----------------------------
(* Theorems about DAGFile, for every finite set of ids and every file. *)
EXTENDS DAGFile, SequenceTheorems, FiniteSetTheorems, TLAPS

-----------------------------------------------------------------------------
(* Numbers and sets *)

LEMMA SmallestSet ==
    ASSUME NEW S, IsFiniteSet(S), NEW W \in SUBSET SUBSET S, W # {}
    PROVE  \E T \in W : \A U \in W : U \subseteq T => U = T
<1>1. FiniteSubsetsOf(S) = SUBSET S
  BY FS_FiniteSubsetsOfFinite
<1>2. IsWellFoundedOn(StrictSubsetOrdering(S), FiniteSubsetsOf(S))
  BY FS_StrictSubsetOrderingWellFounded
<1>3. IsWellFoundedOn(StrictSubsetOrdering(S), SUBSET S)
  BY <1>1, <1>2
<1>4. PICK T \in W : \A U \in W : ~(<<U, T>> \in StrictSubsetOrdering(S))
  BY <1>3, WFMin
<1> QED BY <1>4 DEF StrictSubsetOrdering

LEMMA Least ==
    ASSUME NEW S \in SUBSET Nat, S # {}
    PROVE  \E m \in S : \A k \in S : m <= k
<1>1. PICK n \in S : TRUE
  OBVIOUS
<1> DEFINE B == 0..n
           W == {S \cap (0..k) : k \in S \cap B}
<1>2. W \in SUBSET SUBSET B /\ W # {}
  <2>1. S \cap (0..n) \in W
    BY <1>1
  <2>2. ASSUME NEW k \in S \cap B PROVE S \cap (0..k) \in SUBSET B
    BY <1>1
  <2> QED BY <2>1, <2>2
<1>3. IsFiniteSet(B)
  BY <1>1, FS_Interval
<1> HIDE DEF W, B
<1>4. PICK T \in W : \A U \in W : U \subseteq T => U = T
  BY <1>2, <1>3, SmallestSet
<1> USE DEF W, B
<1>5. PICK m \in S \cap (0..n) : T = S \cap (0..m)
  BY <1>4
<1>6. ASSUME NEW k \in S, k < m PROVE FALSE
  <2>1. S \cap (0..k) \in W /\ m \in T /\ m \notin S \cap (0..k)
    BY <1>1, <1>5, <1>6
  <2>2. S \cap (0..k) \subseteq T
    BY <1>5, <1>6
  <2> QED BY <1>4, <2>1, <2>2
<1> QED BY <1>5, <1>6

LEMMA Greatest ==
    ASSUME NEW n \in Nat, NEW S \in SUBSET (1..n), S # {}
    PROVE  \E m \in S : \A k \in S : m >= k
<1> DEFINE T == {k \in Nat : \A i \in S : i <= k}
<1>1. n \in T
  OBVIOUS
<1>2. PICK m \in T : \A k \in T : m <= k
  BY <1>1, Least
<1>3. m \in S
  <2> SUFFICES ASSUME m \notin S PROVE FALSE
    OBVIOUS
  <2>1. m > 0
    <3>1. PICK i \in S : TRUE
      OBVIOUS
    <3> QED BY <1>2, <3>1
  <2>2. m - 1 \in T
    BY <1>2, <2>1
  <2> QED BY <1>2, <2>2
<1> QED BY <1>2, <1>3

\* A nonempty set of tasks each of which is depended on by another has a nonempty
\* subset of tasks each of which depends on another: the cycles of a finite graph are
\* the same in both directions.
LEMMA CycleEitherWay ==
    ASSUME NEW ts, IsFiniteSet(ts), ts # {}, NEW D, DOMAIN D = ts,
           \A u \in ts : \E d \in ts : u \in D[d]
    PROVE  \E us \in SUBSET ts : us # {} /\ \A u \in us : D[u] \cap us # {}
<1> SUFFICES ASSUME \A us \in SUBSET ts : us # {} => \E u \in us : D[u] \cap us = {}
             PROVE  FALSE
  OBVIOUS
<1> DEFINE W == {us \in SUBSET ts : us # {} /\ \A u \in us : \E d \in us : u \in D[d]}
<1>1. ts \in W
  OBVIOUS
<1>2. W \in SUBSET SUBSET ts /\ W # {}
  BY <1>1
<1> HIDE DEF W
<1>3. PICK us \in W : \A vs \in W : vs \subseteq us => vs = us
  BY <1>2, SmallestSet
<1> USE DEF W
<1>4. PICK u \in us : D[u] \cap us = {}
  BY <1>3
<1>5. us \ {u} \in W
  <2>1. PICK d \in us : u \in D[d]
    BY <1>3
  <2>2. d # u /\ d \in us \ {u}
    BY <1>4, <2>1
  <2>3. ASSUME NEW v \in us \ {u} PROVE \E e \in us \ {u} : v \in D[e]
    BY <1>3, <1>4
  <2> QED BY <1>3, <2>2, <2>3
<1> HIDE DEF W
<1> QED BY <1>3, <1>4, <1>5

-----------------------------------------------------------------------------
(* Sequences *)

LEMMA LastAndFront ==
    ASSUME NEW S, NEW s \in Seq(S), s # <<>>
    PROVE  /\ Len(s) \in Nat \ {0} /\ Last(s) = s[Len(s)] /\ Last(s) \in S
           /\ Front(s) \in Seq(S) /\ Len(Front(s)) = Len(s) - 1
           /\ \A k \in 1..(Len(s) - 1) : Front(s)[k] = s[k]
<1>1. Len(s) \in Nat \ {0} /\ \A k \in 1..Len(s) : s[k] \in S
  BY EmptySeq, ElementOfSeq
<1>2. \A k \in 1..(Len(s) - 1) : s[k] \in S
  BY <1>1
<1> DEFINE n == Len(s) - 1
<1>3. n \in Int /\ n >= 0
  BY <1>1
<1> HIDE DEF n
<1>4. /\ SubSeq(s, 1, n) \in Seq(S)
      /\ Len(SubSeq(s, 1, n)) = IF 1 <= n THEN n - 1 + 1 ELSE 0
      /\ \A k \in 1..(n - 1 + 1) : SubSeq(s, 1, n)[k] = s[1 + k - 1]
  <2>1. \A k \in 1..n : s[k] \in S
    BY <1>2 DEF n
  <2> QED BY <1>3, <2>1, SubSeqProperties, 1 \in Int
<1>5. Front(s) = SubSeq(s, 1, n)
  BY DEF Front, n
<1>6. Len(Front(s)) = n
  BY <1>3, <1>4, <1>5
<1>7. \A k \in 1..n : Front(s)[k] = s[k]
  <2> SUFFICES ASSUME NEW k \in 1..n PROVE Front(s)[k] = s[k]
    OBVIOUS
  <2>1. k \in 1..(n - 1 + 1) /\ 1 + k - 1 = k
    BY <1>3
  <2> QED BY <1>4, <1>5, <2>1
<1> QED BY <1>1, <1>4, <1>5, <1>6, <1>7 DEF Last, n

LEMMA EmptyDomain == DOMAIN <<>> = {}
<1>1. <<>> \in Seq({}) /\ Len(<<>>) = 0
  BY EmptySeq
<1>2. DOMAIN <<>> = 1..0
  BY <1>1, LenProperties
<1> QED BY <1>2

-----------------------------------------------------------------------------
(* Files *)

LEMMA FileFacts ==
    ASSUME NEW f \in FileType
    PROVE  /\ Len(f) \in Nat /\ DOMAIN f = 1..Len(f)
           /\ \A i \in DOMAIN f : f[i].id \in Ids /\ f[i].dependsOn \in Seq(Ids)
<1> DEFINE Task == [id : Ids, dependsOn : Seq(Ids)]
<1>1. f \in Seq(Task)
  BY DEF FileType
<1> HIDE DEF Task
<1>2. Len(f) \in Nat /\ DOMAIN f = 1..Len(f)
  BY <1>1, LenProperties
<1>3. \A i \in DOMAIN f : f[i] \in Task
  BY <1>1, <1>2, ElementOfSeq
<1> QED BY <1>2, <1>3 DEF Task

LEMMA GetTaskByIDFacts ==
    ASSUME NEW f \in FileType, NEW t
    PROVE  /\ GetTaskByID(f, t) \in Seq(Ids)
           /\ t \in TaskIds(f) =>
                \E i \in DOMAIN f : f[i].id = t /\ GetTaskByID(f, t) = f[i].dependsOn
<1> DEFINE same == {i \in DOMAIN f : f[i].id = t}
<1>1. CASE same = {}
  <2>1. GetTaskByID(f, t) = <<>> /\ t \notin TaskIds(f)
    BY <1>1 DEF GetTaskByID, TaskIds
  <2> QED BY <2>1, EmptySeq
<1>2. CASE same # {}
  <2>1. same \in SUBSET Nat
    BY FileFacts
  <2>2. PICK m \in same : \A k \in same : m <= k
    BY <1>2, <2>1, Least
  <2>3. Min(same) \in same
    BY <2>2 DEF Min
  <2>4. GetTaskByID(f, t) = f[Min(same)].dependsOn
    BY <1>2 DEF GetTaskByID
  <2> QED BY <2>3, <2>4, FileFacts
<1> QED BY <1>1, <1>2

LEMMA NewTaskMapFacts ==
    ASSUME NEW f \in FileType
    PROVE  /\ DOMAIN NewTaskMap(f) = TaskIds(f) /\ TaskIds(f) \subseteq Ids
           /\ \A t \in TaskIds(f) :
                /\ NewTaskMap(f)[t] \in Seq(Ids)
                /\ \E i \in DOMAIN f : f[i].id = t /\ NewTaskMap(f)[t] = f[i].dependsOn
<1>1. DOMAIN NewTaskMap(f) = TaskIds(f) /\ TaskIds(f) \subseteq Ids
  BY FileFacts DEF NewTaskMap, TaskIds
<1>2. ASSUME NEW t \in TaskIds(f)
      PROVE  \E i \in DOMAIN f : f[i].id = t /\ NewTaskMap(f)[t] = f[i].dependsOn
  <2> DEFINE same == {i \in DOMAIN f : f[i].id = t}
  <2>1. same \in SUBSET (1..Len(f)) /\ same # {} /\ Len(f) \in Nat
    BY FileFacts DEF TaskIds
  <2>2. PICK m \in same : \A k \in same : m >= k
    BY <2>1, Greatest
  <2>3. Max(same) \in same
    BY <2>2 DEF Max
  <2>4. NewTaskMap(f)[t] = f[Max(same)].dependsOn
    BY DEF NewTaskMap
  <2> QED BY <2>3, <2>4
<1> QED BY <1>1, <1>2, FileFacts

\* Of the tasks of a file with different ids, both find the one of an id.
LEMMA UniqueIds ==
    ASSUME NEW f \in FileType, IsInjective([i \in DOMAIN f |-> f[i].id])
    PROVE  /\ \A i \in DOMAIN f : GetTaskByID(f, f[i].id) = f[i].dependsOn
           /\ \A t \in TaskIds(f) : NewTaskMap(f)[t] = GetTaskByID(f, t)
<1>1. \A i, j \in DOMAIN f : f[i].id = f[j].id => i = j
  BY DEF IsInjective
<1>2. ASSUME NEW i \in DOMAIN f PROVE GetTaskByID(f, f[i].id) = f[i].dependsOn
  BY <1>1, GetTaskByIDFacts DEF TaskIds
<1>3. ASSUME NEW t \in TaskIds(f) PROVE NewTaskMap(f)[t] = GetTaskByID(f, t)
  BY <1>1, GetTaskByIDFacts, NewTaskMapFacts
<1> QED BY <1>2, <1>3

-----------------------------------------------------------------------------
(* The inductive invariant *)

Deps(t) == Range(GetTaskByID(file, t))

\* The file passes CheckIds.
Sound ==
    /\ IsInjective([i \in DOMAIN file |-> file[i].id])
    /\ \A t \in TaskIds(file) : Deps(t) \subseteq TaskIds(file)

\* Of any of these tasks there is one that depends on none of them.
Acyclic(S) == \A ts \in SUBSET S : ts # {} => \E t \in ts : Deps(t) \cap ts = {}

\* There is no plan before Validate has returned, and before there is one nothing
\* of calculatePriority.
ModeInv ==
    /\ verdict \notin {"none", "valid"} => taskMap = <<>>
    /\ verdict = "none" => visited = {}
    /\ verdict # "search" /\ taskMap = <<>> => path = <<>>
    /\ taskMap = <<>> => priority = <<>> /\ cache = <<>>
    /\ taskMap # <<>> => taskMap = NewTaskMap(file)

\* The calls of hasCycle that have not returned are for different tasks, each a
\* dependency of the one before; those that have returned are closed under the
\* dependencies, and acyclic.
SearchInv == verdict = "search" =>
    /\ Sound
    /\ visited \subseteq TaskIds(file)
    /\ \A k \in 1..Len(path) : path[k] \in visited
    /\ \A j, k \in 1..Len(path) : path[j] = path[k] => j = k
    /\ \A k \in 1..(Len(path) - 1) : path[k + 1] \in Deps(path[k])
    /\ \A t \in Returned : Deps(t) \subseteq Returned
    /\ Acyclic(Returned)

VerdictInv ==
    /\ verdict \in {"duplicate", "missing"} => ~Sound
    /\ verdict = "cycle" => Sound /\ ~Acyclic(TaskIds(file))
    /\ verdict = "valid" => Sound /\ Acyclic(TaskIds(file))

\* One can go on for ever from t to a dependent, then to one of its dependents...
LeadsToCycle(t) ==
    \E ts \in SUBSET DOMAIN taskMap : t \in ts /\ \A u \in ts : Dependents(taskMap, u) \cap ts # {}

\* A ranking: the tasks in it have the length of their longest path of dependents,
\* and all their dependents are in it.
Ranking(f) ==
    /\ DOMAIN f \subseteq DOMAIN taskMap
    /\ \A t \in DOMAIN f :
         /\ f[t] \in Lengths
         /\ Dependents(taskMap, t) \subseteq DOMAIN f
         /\ IsMaxLen(f, f[t], Dependents(taskMap, t))

\* What a priority that is no failure rests on.
Rankings == UNION {[S -> Lengths] : S \in SUBSET DOMAIN taskMap}
Ranked(t, p) == \E f \in Rankings : Ranking(f) /\ t \in DOMAIN f /\ p = -f[t]

\* The calls of dfs that have not returned are for different tasks that are not
\* cached, each a dependent of the one before; the cache is a ranking, and so is what
\* is left of one that gave a priority.
PriorityInv ==
    /\ taskMap # <<>> =>
         /\ \A k \in 1..Len(path) : path[k] \in DOMAIN taskMap \ DOMAIN cache
         /\ \A j, k \in 1..Len(path) : path[j] = path[k] => j = k
         /\ \A k \in 1..(Len(path) - 1) : path[k + 1] \in Dependents(taskMap, path[k])
    /\ Ranking(cache)
    /\ path = <<>> => cache = <<>>
    /\ \A t \in DOMAIN priority :
         IF priority[t] = Fails THEN LeadsToCycle(t) ELSE Ranked(t, priority[t])

FileInv == TypeOK /\ ModeInv /\ SearchInv /\ VerdictInv /\ PriorityInv

LEMMA SoundFacts ==
    ASSUME file \in FileType
    PROVE  /\ (\E i, j \in DOMAIN file : i # j /\ file[i].id = file[j].id) => ~Sound
           /\ (\E i \in DOMAIN file : ~(Range(file[i].dependsOn) \subseteq TaskIds(file))) => ~Sound
           /\ \/ Sound
              \/ \E i, j \in DOMAIN file : i # j /\ file[i].id = file[j].id
              \/ \E i \in DOMAIN file : ~(Range(file[i].dependsOn) \subseteq TaskIds(file))
<1> DEFINE Injective == IsInjective([i \in DOMAIN file |-> file[i].id])
<1>1. Injective <=> ~\E i, j \in DOMAIN file : i # j /\ file[i].id = file[j].id
  BY DEF IsInjective
<1>2. ASSUME Injective
      PROVE  (\A t \in TaskIds(file) : Deps(t) \subseteq TaskIds(file)) <=>
               \A i \in DOMAIN file : Range(file[i].dependsOn) \subseteq TaskIds(file)
  <2>1. \A i \in DOMAIN file : Deps(file[i].id) = Range(file[i].dependsOn)
    BY <1>2, UniqueIds DEF Deps
  <2> QED BY <2>1 DEF TaskIds
<1> QED BY <1>1, <1>2 DEF Sound

LEMMA NothingYet ==
    path = <<>> \/ taskMap = <<>> =>
        (priority = <<>> /\ cache = <<>> => PriorityInv)
<1> SUFFICES ASSUME path = <<>> \/ taskMap = <<>>, priority = <<>>, cache = <<>> PROVE PriorityInv
  OBVIOUS
<1>1. DOMAIN cache = {} /\ DOMAIN priority = {}
  BY EmptyDomain
<1>2. path = <<>> => Len(path) = 0
  BY EmptySeq
<1> QED BY <1>1, <1>2 DEF PriorityInv, Ranking

-----------------------------------------------------------------------------
(* Every step keeps it: LoadAndValidateDAG *)

LEMMA InitInv == Init => FileInv
<1> SUFFICES ASSUME Init PROVE FileInv
  OBVIOUS
<1>1. file \in FileType
  BY FilesAssumption DEF Init
<1>2. DOMAIN <<>> = {}
  BY EmptyDomain
<1>3. TypeOK
  BY <1>1, <1>2, EmptySeq DEF Init, TypeOK, Verdict
<1>4. PriorityInv
  BY NothingYet DEF Init
<1> QED BY <1>3, <1>4 DEF FileInv, Init, ModeInv, SearchInv, VerdictInv

LEMMA CheckIdsStep == ASSUME FileInv, CheckIds PROVE FileInv'
<1>1. /\ verdict = "none" /\ taskMap = <<>> /\ path = <<>> /\ visited = {}
      /\ priority = <<>> /\ cache = <<>> /\ file \in FileType
  BY DEF FileInv, TypeOK, ModeInv, CheckIds
<1>2. /\ verdict' \in {"duplicate", "missing", "search"}
      /\ UNCHANGED <<file, visited, taskMap, priority, cache, path>>
  BY DEF CheckIds
<1>3. TypeOK'
  BY <1>2 DEF FileInv, TypeOK, Verdict
<1>4. ModeInv'
  BY <1>1, <1>2 DEF ModeInv
<1>5. (verdict' = "search" => Sound) /\ (verdict' # "search" => ~Sound)
  BY <1>1, SoundFacts DEF CheckIds
<1>6. SearchInv'
  <2>1. Len(path) = 0 /\ Returned = {}
    BY <1>1, EmptySeq DEF Returned
  <2>2. Returned' = {} /\ Sound' = Sound
    BY <1>2, <2>1 DEF Returned, Sound, Deps
  <2> QED BY <1>1, <1>2, <1>5, <2>1, <2>2 DEF SearchInv, Acyclic
<1>7. VerdictInv'
  BY <1>2, <1>5 DEF VerdictInv, Sound, Deps
<1>8. PriorityInv'
  <2>1. taskMap' = <<>> /\ priority' = <<>> /\ cache' = <<>>
    BY <1>1, <1>2
  <2>2. (path = <<>> \/ taskMap = <<>> => (priority = <<>> /\ cache = <<>> => PriorityInv))'
    BY NothingYet, PTL
  <2> QED BY <2>1, <2>2
<1> QED BY <1>3, <1>4, <1>6, <1>7, <1>8 DEF FileInv

\* hasCycle is called with an id that is new.
LEMMA CallStep ==
    ASSUME FileInv, verdict = "search",
           NEW id \in TaskIds(file) \ visited, path # <<>> => id \in Deps(Last(path)),
           visited' = visited \cup {id}, path' = Append(path, id),
           UNCHANGED <<file, verdict, taskMap, priority, cache>>
    PROVE  FileInv'
<1> DEFINE n == Len(path)
<1>1. /\ file \in FileType /\ path \in Seq(Ids) /\ id \in Ids /\ visited \subseteq Ids
      /\ taskMap = <<>> /\ priority = <<>> /\ cache = <<>> /\ SearchInv
  BY NewTaskMapFacts DEF FileInv, TypeOK, ModeInv
<1>2. /\ n \in Nat /\ path' \in Seq(Ids) /\ Len(path') = n + 1
      /\ \A k \in 1..n : path'[k] = path[k]
      /\ path'[n + 1] = id
  BY <1>1, LenProperties, AppendProperties
<1>3. \A k \in 1..n : path[k] \in visited /\ path[k] # id
  BY <1>1 DEF SearchInv
<1>4. TypeOK'
  BY <1>1, <1>2 DEF FileInv, TypeOK
<1>5. ModeInv'
  BY <1>1 DEF FileInv, ModeInv
<1>6. Returned' = Returned
  <2>1. Range(path) = {path[k] : k \in 1..n}
    BY <1>1, RangeEquality
  <2>2. Range(path') = {path'[k] : k \in 1..(n + 1)}
    BY <1>2, RangeEquality
  <2>3. Range(path') = Range(path) \cup {id}
    BY <1>2, <2>1, <2>2
  <2> QED BY <2>3 DEF Returned
<1>7. SearchInv'
  <2>1. Sound' /\ visited' \subseteq TaskIds(file)'
    BY <1>1 DEF SearchInv, Sound, Deps
  <2>2. \A k \in 1..(n + 1) : path'[k] \in visited'
    BY <1>2, <1>3
  <2>3. \A j, k \in 1..(n + 1) : path'[j] = path'[k] => j = k
    <3> SUFFICES ASSUME NEW j \in 1..(n + 1), NEW k \in 1..(n + 1),
                        path'[j] = path'[k]
                 PROVE  j = k
      OBVIOUS
    <3>1. CASE j \in 1..n /\ k \in 1..n
      BY <1>1, <1>2, <3>1 DEF SearchInv
    <3>2. CASE j \in 1..n /\ k = n + 1
      BY <1>2, <1>3, <3>2
    <3>3. CASE j = n + 1 /\ k \in 1..n
      BY <1>2, <1>3, <3>3
    <3>4. CASE j = n + 1 /\ k = n + 1
      BY <3>4
    <3> QED BY <1>2, <3>1, <3>2, <3>3, <3>4
  <2>4. \A k \in 1..n : path'[k + 1] \in Deps(path'[k])
    <3> SUFFICES ASSUME NEW k \in 1..n PROVE path'[k + 1] \in Deps(path[k])
      BY <1>2
    <3>1. CASE k = n
      <4>1. path # <<>>
        BY <1>2, <3>1, EmptySeq
      <4>2. Last(path) = path[n]
        BY <4>1 DEF Last
      <4> QED BY <1>2, <3>1, <4>1, <4>2
    <3>2. CASE k # n
      <4>1. k \in 1..(n - 1) /\ k + 1 \in 1..n
        BY <1>2, <3>2
      <4> QED BY <1>1, <1>2, <4>1 DEF SearchInv
    <3> QED BY <3>1, <3>2
  <2>5. \A t : Deps(t)' = Deps(t)
    BY DEF Deps
  <2>6. (\A t \in Returned : Deps(t) \subseteq Returned)' /\ Acyclic(Returned)'
    BY <1>1, <1>6, <2>5 DEF SearchInv, Acyclic, Deps
  <2>7. Len(path') - 1 = n
    BY <1>2
  <2>8. (\A k \in 1..(Len(path) - 1) : path[k + 1] \in Deps(path[k]))'
    BY <2>4, <2>7 DEF Deps
  <2>9. (\A k \in 1..Len(path) : path[k] \in visited)'
    BY <1>2, <2>2
  <2>10. (\A j, k \in 1..Len(path) : path[j] = path[k] => j = k)'
    BY <1>2, <2>3
  <2> QED BY <2>1, <2>6, <2>8, <2>9, <2>10 DEF SearchInv
<1>8. VerdictInv'
  BY DEF FileInv, VerdictInv
<1>9. PriorityInv'
  <2>1. (path = <<>> \/ taskMap = <<>> => (priority = <<>> /\ cache = <<>> => PriorityInv))'
    BY NothingYet, PTL
  <2> QED BY <1>1, <2>1
<1> QED BY <1>4, <1>5, <1>7, <1>8, <1>9 DEF FileInv

\* It is called with one on the stack: from there on the calls are a cycle.
LEMMA CycleStep ==
    ASSUME FileInv, verdict = "search", path # <<>>,
           NEW id \in Range(path), id \in Deps(Last(path)),
           verdict' = "cycle", path' = <<>>,
           UNCHANGED <<file, visited, taskMap, priority, cache>>
    PROVE  FileInv'
<1> DEFINE n == Len(path)
<1>1. /\ path \in Seq(Ids) /\ taskMap = <<>> /\ priority = <<>> /\ cache = <<>> /\ SearchInv
  BY DEF FileInv, TypeOK, ModeInv
<1>2. n \in Nat \ {0} /\ Last(path) = path[n]
  BY <1>1, LastAndFront
<1>3. PICK i \in 1..n : path[i] = id
  BY <1>1, RangeEquality
<1>4. ~Acyclic(TaskIds(file))
  <2> DEFINE ts == {path[k] : k \in i..n}
  <2>1. ts \in SUBSET TaskIds(file)
    BY <1>1, <1>2, <1>3 DEF SearchInv
  <2>2. id \in ts
    BY <1>2, <1>3
  <2>3. ASSUME NEW k \in i..n PROVE Deps(path[k]) \cap ts # {}
    <3>1. CASE k = n
      BY <1>2, <2>2, <3>1
    <3>2. CASE k # n
      <4>1. k \in 1..(n - 1) /\ k + 1 \in i..n
        BY <1>2, <1>3, <2>3, <3>2
      <4>2. path[k + 1] \in Deps(path[k]) /\ path[k + 1] \in ts
        BY <1>1, <4>1 DEF SearchInv
      <4> QED BY <4>2
    <3> QED BY <3>1, <3>2
  <2>4. \A t \in ts : Deps(t) \cap ts # {}
    BY <2>3
  <2> QED BY <2>1, <2>2, <2>4 DEF Acyclic
<1>5. TypeOK'
  BY EmptySeq DEF FileInv, TypeOK, Verdict
<1>6. ModeInv'
  BY <1>1 DEF ModeInv
<1>7. SearchInv'
  BY DEF SearchInv
<1>8. VerdictInv'
  BY <1>1, <1>4 DEF SearchInv, VerdictInv, Sound, Acyclic, Deps
<1>9. PriorityInv'
  <2>1. (path = <<>> \/ taskMap = <<>> => (priority = <<>> /\ cache = <<>> => PriorityInv))'
    BY NothingYet, PTL
  <2> QED BY <1>1, <2>1
<1> QED BY <1>5, <1>6, <1>7, <1>8, <1>9 DEF FileInv

LEMMA SearchFromStep == ASSUME FileInv, SearchFrom PROVE FileInv'
<1>1. verdict = "search" /\ path = <<>>
  BY DEF SearchFrom
<1>2. PICK i \in DOMAIN file : file[i].id \notin visited /\ HasCycle(file[i].id)
  BY DEF SearchFrom
<1>3. file[i].id \in TaskIds(file) \ visited
  BY <1>2 DEF TaskIds
<1>4. file[i].id \notin Range(path)
  BY <1>1, EmptyDomain DEF Range
<1> QED BY <1>1, <1>2, <1>3, <1>4, CallStep DEF HasCycle

LEMMA FollowDependencyStep == ASSUME FileInv, FollowDependency PROVE FileInv'
<1> DEFINE dependsOn == GetTaskByID(file, Last(path))
<1>1. verdict = "search" /\ path # <<>>
  BY DEF FollowDependency
<1>2. PICK i \in DOMAIN dependsOn : dependsOn[i] \notin Returned /\ HasCycle(dependsOn[i])
  BY DEF FollowDependency
<1>3. dependsOn[i] \in Deps(Last(path))
  BY DEF Deps, Range
<1>4. SearchInv /\ path \in Seq(Ids)
  BY DEF FileInv, TypeOK
<1>5. Last(path) \in TaskIds(file)
  <2>1. Len(path) \in Nat \ {0} /\ Last(path) = path[Len(path)]
    BY <1>1, <1>4, LastAndFront
  <2> QED BY <1>1, <1>4, <2>1 DEF SearchInv
<1>6. dependsOn[i] \in TaskIds(file)
  BY <1>1, <1>3, <1>4, <1>5 DEF SearchInv, Sound
<1>7. CASE dependsOn[i] \in Range(path)
  BY <1>1, <1>2, <1>3, <1>7, CycleStep DEF HasCycle
<1>8. CASE dependsOn[i] \notin Range(path)
  BY <1>1, <1>2, <1>3, <1>6, <1>8, CallStep DEF HasCycle, Returned
<1> QED BY <1>7, <1>8

\* All the dependencies of a task have been searched: it joins the tasks searched.
LEMMA ReturnFalseStep == ASSUME FileInv, ReturnFalse PROVE FileInv'
<1> DEFINE n == Len(path)
           t == Last(path)
<1>1. /\ verdict = "search" /\ path # <<>> /\ Deps(t) \subseteq Returned
      /\ path' = Front(path) /\ UNCHANGED <<file, verdict, visited, taskMap, priority, cache>>
  BY DEF ReturnFalse, Deps
<1>2. path \in Seq(Ids) /\ taskMap = <<>> /\ priority = <<>> /\ cache = <<>> /\ SearchInv
  BY <1>1 DEF FileInv, TypeOK, ModeInv
<1>3. /\ n \in Nat \ {0} /\ t = path[n]
      /\ path' \in Seq(Ids) /\ Len(path') = n - 1
      /\ \A k \in 1..(n - 1) : path'[k] = path[k]
  BY <1>1, <1>2, LastAndFront
<1>4. t \in visited /\ t \notin Returned
  <2>1. t \in Range(path)
    BY <1>2, <1>3, RangeEquality
  <2> QED BY <1>1, <1>2, <1>3, <2>1 DEF SearchInv, Returned
<1>5. Returned' = Returned \cup {t}
  <2>1. Range(path) = {path[k] : k \in 1..n}
    BY <1>2, RangeEquality
  <2>2. Range(path') = {path'[k] : k \in 1..(n - 1)}
    BY <1>3, RangeEquality
  <2>3. \A k \in 1..(n - 1) : path[k] # t
    BY <1>1, <1>2, <1>3 DEF SearchInv
  <2>4. Range(path') = Range(path) \ {t}
    <3>1. Range(path') = {path[k] : k \in 1..(n - 1)}
      BY <1>3, <2>2
    <3>2. \A k \in 1..n : k \in 1..(n - 1) \/ path[k] = t
      BY <1>3
    <3> QED BY <1>3, <2>1, <2>3, <3>1, <3>2
  <2> QED BY <1>1, <1>4, <2>4 DEF Returned
<1>6. TypeOK'
  BY <1>1, <1>3 DEF FileInv, TypeOK
<1>7. ModeInv'
  BY <1>1, <1>2 DEF FileInv, ModeInv
<1>8. SearchInv'
  <2>1. Sound' /\ visited' \subseteq TaskIds(file)'
    BY <1>1, <1>2 DEF SearchInv, Sound, Deps
  <2>2. (\A k \in 1..Len(path) : path[k] \in visited)'
    BY <1>1, <1>2, <1>3 DEF SearchInv
  <2>3. (\A j, k \in 1..Len(path) : path[j] = path[k] => j = k)'
    BY <1>1, <1>2, <1>3 DEF SearchInv
  <2>4. (\A k \in 1..(Len(path) - 1) : path[k + 1] \in Deps(path[k]))'
    <3>1. ASSUME NEW k \in 1..(n - 2)
          PROVE  /\ path[k + 1] \in Deps(path[k])
                 /\ path'[k + 1] = path[k + 1] /\ path'[k] = path[k]
      <4>1. k \in 1..(n - 1) /\ k + 1 \in 1..(n - 1)
        BY <1>3
      <4> QED BY <1>1, <1>2, <1>3, <4>1 DEF SearchInv
    <3>2. Len(path') - 1 = n - 2
      BY <1>3
    <3> QED BY <1>1, <3>1, <3>2 DEF Deps
  <2>5. ASSUME NEW u \in Returned' PROVE Deps(u) \subseteq Returned'
    BY <1>1, <1>2, <1>5 DEF SearchInv
  <2>6. ASSUME NEW ts \in SUBSET Returned', ts # {} PROVE \E u \in ts : Deps(u) \cap ts = {}
    <3>1. CASE ts \subseteq {t}
      BY <1>1, <1>4, <2>6, <3>1
    <3>2. CASE ~(ts \subseteq {t})
      <4>1. ts \ {t} \in SUBSET Returned /\ ts \ {t} # {}
        BY <1>5, <3>2
      <4>2. PICK u \in ts \ {t} : Deps(u) \cap (ts \ {t}) = {}
        BY <1>1, <1>2, <4>1 DEF SearchInv, Acyclic
      <4>3. Deps(u) \subseteq Returned
        BY <1>1, <1>2, <4>1 DEF SearchInv
      <4> QED BY <1>4, <4>2, <4>3
    <3> QED BY <3>1, <3>2
  <2>7. (\A u \in Returned : Deps(u) \subseteq Returned)' /\ Acyclic(Returned)'
    BY <1>1, <2>5, <2>6 DEF Acyclic, Deps
  <2> QED BY <2>1, <2>2, <2>3, <2>4, <2>7 DEF SearchInv
<1>9. VerdictInv'
  BY <1>1 DEF VerdictInv
<1>10. PriorityInv'
  <2>1. (path = <<>> \/ taskMap = <<>> => (priority = <<>> /\ cache = <<>> => PriorityInv))'
    BY NothingYet, PTL
  <2> QED BY <1>1, <1>2, <2>1
<1> QED BY <1>6, <1>7, <1>8, <1>9, <1>10 DEF FileInv

\* The plan a file becomes has the tasks of the file.
LEMMA PlanStep ==
    ASSUME FileInv, taskMap = <<>>, path = <<>>, taskMap' = NewTaskMap(file),
           verdict' \in {verdict, "valid"}, UNCHANGED <<file, visited, priority, cache, path>>
    PROVE  TypeOK' /\ PriorityInv' /\ (verdict' \in {"none", "valid"} => ModeInv')
<1>1. /\ file \in FileType /\ priority = <<>> /\ cache = <<>>
      /\ verdict \in Verdict /\ ModeInv
  BY DEF FileInv, TypeOK, ModeInv
<1>2. DOMAIN priority = {} /\ DOMAIN cache = {}
  BY <1>1, EmptyDomain
<1>3. TypeOK'
  BY <1>1, <1>2, NewTaskMapFacts DEF FileInv, TypeOK, Verdict
<1>4. PriorityInv'
  <2>1. (path = <<>> \/ taskMap = <<>> => (priority = <<>> /\ cache = <<>> => PriorityInv))'
    BY NothingYet, PTL
  <2> QED BY <1>1, <2>1
<1>5. verdict' \in {"none", "valid"} => ModeInv'
  BY <1>1 DEF ModeInv
<1> QED BY <1>3, <1>4, <1>5

LEMMA AcceptStep == ASSUME FileInv, Accept PROVE FileInv'
<1>1. /\ verdict = "search" /\ path = <<>> /\ TaskIds(file) \subseteq visited
      /\ verdict' = "valid" /\ taskMap' = NewTaskMap(file)
      /\ UNCHANGED <<file, visited, priority, cache, path>>
  BY DEF Accept
<1>2. SearchInv /\ taskMap = <<>>
  BY <1>1 DEF FileInv, ModeInv
<1>3. Returned = TaskIds(file)
  BY <1>1, <1>2, EmptyDomain DEF SearchInv, Returned, Range
<1>4. VerdictInv'
  BY <1>1, <1>2, <1>3 DEF SearchInv, VerdictInv, Sound, Acyclic, Deps
<1>5. SearchInv'
  BY <1>1 DEF SearchInv
<1> QED BY <1>1, <1>2, <1>4, <1>5, PlanStep DEF FileInv

LEMMA ToExecutionPlanStep == ASSUME FileInv, ToExecutionPlan PROVE FileInv'
<1>1. /\ verdict = "none" /\ taskMap = <<>> /\ taskMap' = NewTaskMap(file)
      /\ UNCHANGED <<file, verdict, visited, priority, cache, path>>
  BY DEF ToExecutionPlan
<1>2. path = <<>>
  BY <1>1 DEF FileInv, ModeInv
<1>3. SearchInv' /\ VerdictInv'
  BY <1>1 DEF SearchInv, VerdictInv
<1> QED BY <1>1, <1>2, <1>3, PlanStep DEF FileInv

-----------------------------------------------------------------------------
(* Every step keeps it: calculatePriority *)

\* What a step of calculatePriority leaves alone.
LEMMA Unsearched ==
    ASSUME FileInv, taskMap # <<>>, UNCHANGED <<file, verdict, visited, taskMap>>
    PROVE  ModeInv' /\ SearchInv' /\ VerdictInv'
<1>1. verdict \in {"none", "valid"}
  BY DEF FileInv, TypeOK, ModeInv, Verdict
<1>2. ModeInv'
  BY <1>1 DEF FileInv, ModeInv
<1>3. SearchInv'
  BY <1>1 DEF SearchInv
<1>4. VerdictInv'
  BY DEF FileInv, VerdictInv, Sound, Acyclic, Deps
<1> QED BY <1>2, <1>3, <1>4

LEMMA PathFacts ==
    ASSUME TypeOK, path # <<>>
    PROVE  /\ Len(path) \in Nat \ {0} /\ Last(path) = path[Len(path)]
           /\ \A k \in 1..Len(path) : path[k] \in Ids
BY LastAndFront, ElementOfSeq DEF TypeOK

LEMMA CalculatePriorityStep == ASSUME FileInv, CalculatePriority PROVE FileInv'
<1>1. PICK t \in DOMAIN taskMap \ DOMAIN priority : path' = <<t>>
  BY DEF CalculatePriority
<1>2. path = <<>> /\ UNCHANGED <<file, verdict, visited, taskMap, priority, cache>>
  BY DEF CalculatePriority
<1>3. taskMap # <<>> /\ t \in Ids /\ cache = <<>> /\ DOMAIN cache = {}
  BY <1>1, <1>2, EmptyDomain DEF FileInv, TypeOK, PriorityInv
<1>4. path' \in Seq(Ids) /\ Len(path') = 1 /\ path'[1] = t
  BY <1>1, <1>3
<1>5. TypeOK'
  BY <1>2, <1>4 DEF FileInv, TypeOK
<1>6. PriorityInv'
  BY <1>2, <1>3, <1>4 DEF FileInv, PriorityInv, Ranked, Rankings, Ranking, LeadsToCycle
<1> QED BY <1>2, <1>3, <1>5, <1>6, Unsearched DEF FileInv

\* dfs is called with a dependent that is not on the stack.
LEMMA DfsStep ==
    ASSUME FileInv, taskMap # <<>>, path # <<>>,
           NEW d \in Dependents(taskMap, Last(path)) \ DOMAIN cache, d \notin Range(path),
           path' = Append(path, d),
           UNCHANGED <<file, verdict, visited, taskMap, priority, cache>>
    PROVE  FileInv'
<1> DEFINE n == Len(path)
<1>1. TypeOK /\ PriorityInv /\ path \in Seq(Ids) /\ d \in DOMAIN taskMap /\ d \in Ids
  BY DEF FileInv, TypeOK, Dependents
<1>2. n \in Nat \ {0} /\ Last(path) = path[n]
  BY <1>1, PathFacts
<1>3. /\ path' \in Seq(Ids) /\ Len(path') = n + 1 /\ path' # <<>>
      /\ \A k \in 1..n : path'[k] = path[k]
      /\ path'[n + 1] = d
  BY <1>1, <1>2, AppendProperties
<1>4. \A k \in 1..n : path[k] # d
  BY <1>1, RangeEquality
<1>5. TypeOK'
  BY <1>3 DEF FileInv, TypeOK
<1>6. PriorityInv'
  <2>1. (\A k \in 1..Len(path) : path[k] \in DOMAIN taskMap \ DOMAIN cache)'
    BY <1>1, <1>2, <1>3 DEF PriorityInv
  <2>2. (\A j, k \in 1..Len(path) : path[j] = path[k] => j = k)'
    <3> SUFFICES ASSUME NEW j \in 1..(n + 1), NEW k \in 1..(n + 1),
                        path'[j] = path'[k]
                 PROVE  j = k
      BY <1>3
    <3>1. CASE j \in 1..n /\ k \in 1..n
      BY <1>1, <1>3, <3>1 DEF PriorityInv
    <3>2. CASE j \in 1..n /\ k = n + 1
      BY <1>3, <1>4, <3>2
    <3>3. CASE j = n + 1 /\ k \in 1..n
      BY <1>3, <1>4, <3>3
    <3>4. CASE j = n + 1 /\ k = n + 1
      BY <3>4
    <3> QED BY <1>2, <3>1, <3>2, <3>3, <3>4
  <2>3. (\A k \in 1..(Len(path) - 1) : path[k + 1] \in Dependents(taskMap, path[k]))'
    <3>1. ASSUME NEW k \in 1..n PROVE path'[k + 1] \in Dependents(taskMap, path[k])
      <4>1. CASE k = n
        BY <1>2, <1>3, <4>1
      <4>2. CASE k # n
        <5>1. k \in 1..(n - 1) /\ k + 1 \in 1..n
          BY <1>2, <4>2
        <5> QED BY <1>1, <1>3, <5>1 DEF PriorityInv
      <4> QED BY <4>1, <4>2
    <3>2. Len(path') - 1 = n
      BY <1>2, <1>3
    <3> QED BY <1>3, <3>1, <3>2
  <2>4. Ranking(cache)'
    BY <1>1 DEF PriorityInv, Ranking
  <2>5. (\A t \in DOMAIN priority :
           IF priority[t] = Fails THEN LeadsToCycle(t) ELSE Ranked(t, priority[t]))'
    BY <1>1 DEF PriorityInv, Ranked, Rankings, Ranking, LeadsToCycle
  <2> QED BY <1>3, <2>1, <2>2, <2>3, <2>4, <2>5 DEF PriorityInv
<1> QED BY <1>5, <1>6, Unsearched DEF FileInv

LEMMA LengthsFacts == Cardinality(Ids) \in Nat /\ Lengths \subseteq Nat
BY FilesAssumption, FS_CardinalityType DEF Lengths

\* A task all of whose dependents are ranked can be ranked after them.
LEMMA ExtendRanking ==
    ASSUME NEW c, Ranking(c),
           NEW t \in DOMAIN taskMap \ DOMAIN c, NEW n \in Lengths,
           Dependents(taskMap, t) \subseteq DOMAIN c, IsMaxLen(c, n, Dependents(taskMap, t)),
           NEW f, f = With(c, t, n)
    PROVE  f \in Rankings /\ Ranking(f) /\ DOMAIN f = DOMAIN c \cup {t} /\ f[t] = n
<1>1. f = [u \in DOMAIN c \cup {t} |-> IF u = t THEN n ELSE c[u]]
  BY DEF With
<1>2. DOMAIN f = DOMAIN c \cup {t} /\ f[t] = n /\ \A u \in DOMAIN c : f[u] = c[u]
  BY <1>1
<1>3. ASSUME NEW u \in DOMAIN f
      PROVE  /\ f[u] \in Lengths
             /\ Dependents(taskMap, u) \subseteq DOMAIN f
             /\ IsMaxLen(f, f[u], Dependents(taskMap, u))
  <2>1. CASE u = t
    BY <1>2, <2>1 DEF IsMaxLen
  <2>2. CASE u \in DOMAIN c
    <3>1. /\ c[u] \in Lengths /\ Dependents(taskMap, u) \subseteq DOMAIN c
          /\ IsMaxLen(c, c[u], Dependents(taskMap, u))
      BY <2>2 DEF Ranking
    <3> QED BY <1>2, <2>2, <3>1 DEF IsMaxLen
  <2> QED BY <1>2, <2>1, <2>2
<1>4. DOMAIN f \subseteq DOMAIN taskMap
  BY <1>2 DEF Ranking
<1>5. Ranking(f)
  BY <1>3, <1>4 DEF Ranking
<1>6. f \in [DOMAIN f -> Lengths]
  BY <1>1, <1>2, <1>3
<1>7. f \in Rankings
  BY <1>4, <1>6 DEF Rankings
<1> QED BY <1>2, <1>5, <1>7

\* calculatePriority returns.
LEMMA PriorityIsStep ==
    ASSUME FileInv, taskMap # <<>>, path # <<>>, NEW p,
           (p = Fails /\ LeadsToCycle(path[1])) \/ Ranked(path[1], p),
           PriorityIs(p), UNCHANGED <<file, verdict, visited, taskMap>>
    PROVE  FileInv'
<1> DEFINE t == path[1]
<1>1. TypeOK /\ PriorityInv /\ t \in DOMAIN taskMap
  <2>1. 1 \in 1..Len(path)
    BY PathFacts DEF FileInv
  <2> QED BY <2>1 DEF FileInv, PriorityInv
<1>2. cache' = <<>> /\ path' = <<>> /\ DOMAIN cache' = {} /\ path' \in Seq(Ids) /\ Len(path') = 0
  BY EmptyDomain, EmptySeq DEF PriorityIs
<1>3. priority' = [u \in DOMAIN priority \cup {t} |-> IF u = t THEN p ELSE priority[u]]
  BY DEF PriorityIs, With
<1>4. Ranked(t, p) => p # Fails /\ p \in {-n : n \in Lengths}
  <2> SUFFICES ASSUME NEW f \in Rankings, t \in DOMAIN f, p = -f[t]
               PROVE  p # Fails /\ p \in {-n : n \in Lengths}
    BY DEF Ranked
  <2>1. f[t] \in Lengths /\ f[t] \in Nat
    BY LengthsFacts DEF Rankings
  <2> QED BY <2>1 DEF Fails
<1>5. TypeOK'
  BY <1>1, <1>2, <1>3, <1>4 DEF TypeOK
<1>6. p = Fails => LeadsToCycle(t)
  BY <1>4
<1>7. (\A u \in DOMAIN priority :
         IF priority[u] = Fails THEN LeadsToCycle(u) ELSE Ranked(u, priority[u]))'
  <2>1. ASSUME NEW u \in DOMAIN priority'
        PROVE  IF priority'[u] = Fails THEN LeadsToCycle(u) ELSE Ranked(u, priority'[u])
    <3>1. CASE u = t
      BY <1>3, <1>6, <3>1
    <3>2. CASE u # t
      BY <1>1, <1>3, <3>2 DEF PriorityInv, Ranked, Rankings
    <3> QED BY <3>1, <3>2
  <2> QED BY <2>1 DEF Ranked, Rankings, Ranking, LeadsToCycle
<1>8. Ranking(cache)'
  BY <1>2 DEF Ranking
<1>9. PriorityInv'
  BY <1>2, <1>7, <1>8 DEF PriorityInv
<1> QED BY <1>5, <1>9, Unsearched DEF FileInv

LEMMA FollowDependentStep == ASSUME FileInv, FollowDependent PROVE FileInv'
<1> DEFINE n == Len(path)
<1>1. PICK d \in Dependents(taskMap, Last(path)) \ DOMAIN cache :
        IF d \in Range(path) THEN PriorityIs(Fails)
        ELSE path' = Append(path, d) /\ UNCHANGED <<priority, cache>>
  BY DEF FollowDependent
<1>2. taskMap # <<>> /\ path # <<>> /\ UNCHANGED <<file, verdict, visited, taskMap>>
  BY DEF FollowDependent
<1>3. CASE d \notin Range(path)
  BY <1>1, <1>2, <1>3, DfsStep
<1>4. CASE d \in Range(path)
  <2>1. /\ n \in Nat \ {0} /\ Last(path) = path[n] /\ path \in Seq(Ids) /\ PriorityInv
    BY <1>2, PathFacts DEF FileInv, TypeOK
  <2>2. LeadsToCycle(path[1])
    <3> DEFINE ts == {path[k] : k \in 1..n}
    <3>1. ts \in SUBSET DOMAIN taskMap /\ path[1] \in ts
      BY <1>2, <2>1 DEF PriorityInv
    <3>2. d \in ts
      BY <1>4, <2>1, RangeEquality
    <3>3. ASSUME NEW k \in 1..n PROVE Dependents(taskMap, path[k]) \cap ts # {}
      <4>1. CASE k = n
        BY <1>1, <2>1, <3>2, <4>1
      <4>2. CASE k # n
        <5>1. k \in 1..(n - 1) /\ k + 1 \in 1..n
          BY <2>1, <4>2
        <5>2. path[k + 1] \in Dependents(taskMap, path[k]) /\ path[k + 1] \in ts
          BY <1>2, <2>1, <5>1 DEF PriorityInv
        <5> QED BY <5>2
      <4> QED BY <4>1, <4>2
    <3>4. \A u \in ts : Dependents(taskMap, u) \cap ts # {}
      BY <3>3
    <3> QED BY <3>1, <3>4 DEF LeadsToCycle
  <2>3. PriorityIs(Fails)
    BY <1>1, <1>4
  <2> QED BY <1>2, <2>2, <2>3, PriorityIsStep
<1> QED BY <1>3, <1>4

LEMMA ReturnLengthStep == ASSUME FileInv, ReturnLength PROVE FileInv'
<1> DEFINE m == Len(path)
           t == Last(path)
<1>1. /\ taskMap # <<>> /\ path # <<>> /\ Dependents(taskMap, t) \subseteq DOMAIN cache
      /\ UNCHANGED <<file, verdict, visited, taskMap>>
  BY DEF ReturnLength
<1>2. PICK n \in Lengths :
        /\ IsMaxLen(cache, n, Dependents(taskMap, t))
        /\ IF m = 1 THEN PriorityIs(-n)
           ELSE cache' = With(cache, t, n) /\ path' = Front(path) /\ UNCHANGED priority
  BY DEF ReturnLength
<1>3. /\ m \in Nat \ {0} /\ t = path[m] /\ path \in Seq(Ids) /\ TypeOK /\ PriorityInv
  BY <1>1, PathFacts DEF FileInv, TypeOK
<1>4. t \in DOMAIN taskMap \ DOMAIN cache /\ Ranking(cache)
  BY <1>1, <1>3 DEF PriorityInv
<1> DEFINE f == With(cache, t, n)
<1>5. f \in Rankings /\ Ranking(f) /\ DOMAIN f = DOMAIN cache \cup {t} /\ f[t] = n
  <2>1. f = With(cache, t, n) /\ IsMaxLen(cache, n, Dependents(taskMap, t))
    BY <1>2
  <2>2. Dependents(taskMap, t) \subseteq DOMAIN cache
    BY <1>1
  <2> HIDE DEF f, t
  <2>3. PICK c, u, g : c = cache /\ u = t /\ g = f
    OBVIOUS
  <2>4. Ranking(c)
    BY <1>4, <2>3
  <2>5. u \in DOMAIN taskMap \ DOMAIN c /\ g = With(c, u, n)
    BY <1>4, <2>1, <2>3
  <2>6. Dependents(taskMap, u) \subseteq DOMAIN c /\ IsMaxLen(c, n, Dependents(taskMap, u))
    BY <2>1, <2>2, <2>3
  <2>7. g \in Rankings /\ Ranking(g) /\ DOMAIN g = DOMAIN c \cup {u} /\ g[u] = n
    BY <2>4, <2>5, <2>6, ExtendRanking
  <2> QED BY <2>3, <2>7
<1> HIDE DEF f
<1>6. CASE m = 1
  <2>1. PriorityIs(-n) /\ path[1] = t
    BY <1>2, <1>3, <1>6
  <2>2. Ranked(t, -n)
    BY <1>5 DEF Ranked
  <2> QED BY <1>1, <2>1, <2>2, PriorityIsStep
<1>7. CASE m # 1
  <2>1. cache' = f /\ path' = Front(path) /\ UNCHANGED priority
    BY <1>2, <1>7 DEF f
  <2>2. /\ path' \in Seq(Ids) /\ Len(path') = m - 1
        /\ \A k \in 1..(m - 1) : path'[k] = path[k]
    BY <1>1, <1>3, <2>1, LastAndFront
  <2>3. path' # <<>>
    BY <1>3, <1>7, <2>2, EmptySeq
  <2>4. \A u \in DOMAIN f : f[u] \in Lengths
    BY <1>5 DEF Rankings
  <2>5. TypeOK'
    BY <1>1, <1>3, <1>4, <1>5, <2>1, <2>2, <2>4 DEF TypeOK
  <2>6. PriorityInv'
    <3>1. (\A k \in 1..Len(path) : path[k] \in DOMAIN taskMap \ DOMAIN cache)'
      <4>1. ASSUME NEW k \in 1..(m - 1) PROVE path[k] # t /\ path[k] \in DOMAIN taskMap \ DOMAIN cache
        BY <1>1, <1>3 DEF PriorityInv
      <4> QED BY <1>1, <1>5, <2>1, <2>2, <4>1
    <3>2. (\A j, k \in 1..Len(path) : path[j] = path[k] => j = k)'
      BY <1>1, <1>3, <2>2 DEF PriorityInv
    <3>3. (\A k \in 1..(Len(path) - 1) : path[k + 1] \in Dependents(taskMap, path[k]))'
      <4>1. ASSUME NEW k \in 1..(m - 2)
            PROVE  /\ path[k + 1] \in Dependents(taskMap, path[k])
                   /\ path'[k + 1] = path[k + 1] /\ path'[k] = path[k]
        <5>1. k \in 1..(m - 1) /\ k + 1 \in 1..(m - 1)
          BY <1>3
        <5> QED BY <1>1, <1>3, <2>2, <5>1 DEF PriorityInv
      <4>2. Len(path') - 1 = m - 2
        BY <1>3, <2>2
      <4> QED BY <1>1, <4>1, <4>2
    <3>4. Ranking(cache)'
      BY <1>1, <1>5, <2>1 DEF Ranking
    <3>5. (\A u \in DOMAIN priority :
             IF priority[u] = Fails THEN LeadsToCycle(u) ELSE Ranked(u, priority[u]))'
      BY <1>1, <1>3, <2>1 DEF PriorityInv, Ranked, Rankings, Ranking, LeadsToCycle
    <3> QED BY <2>3, <3>1, <3>2, <3>3, <3>4, <3>5 DEF PriorityInv
  <2> QED BY <1>1, <2>5, <2>6, Unsearched DEF FileInv
<1> QED BY <1>6, <1>7

LEMMA FileInvHolds == Spec => []FileInv
<1>1. Init => FileInv
  BY InitInv
<1>2. FileInv /\ [Next]_vars => FileInv'
  <2> SUFFICES ASSUME FileInv, [Next]_vars PROVE FileInv'
    OBVIOUS
  <2>1. CASE LoadAndValidateDAG
    BY <2>1, CheckIdsStep, SearchFromStep, FollowDependencyStep, ReturnFalseStep, AcceptStep
       DEF LoadAndValidateDAG
  <2>2. CASE ToExecutionPlan
    BY <2>2, ToExecutionPlanStep
  <2>3. CASE Prioritise
    BY <2>3, CalculatePriorityStep, FollowDependentStep, ReturnLengthStep DEF Prioritise
  <2>4. CASE UNCHANGED vars
    <3>1. UNCHANGED <<file, verdict, visited, taskMap, priority, cache, path>>
      BY <2>4 DEF vars
    <3>2. TypeOK' /\ ModeInv'
      BY <3>1 DEF FileInv, TypeOK, ModeInv
    <3>3. SearchInv' /\ VerdictInv'
      BY <3>1 DEF FileInv, SearchInv, VerdictInv, Sound, Acyclic, Deps, Returned
    <3>4. PriorityInv'
      BY <3>1 DEF FileInv, PriorityInv, Ranked, Rankings, Ranking, LeadsToCycle
    <3> QED BY <3>2, <3>3, <3>4 DEF FileInv
  <2> QED BY <2>1, <2>2, <2>3, <2>4 DEF Next, Stopped
<1> QED BY <1>1, <1>2, PTL DEF Spec

-----------------------------------------------------------------------------
(* Rankings *)

\* No cycle is in reach of a task that is ranked: the one of least length in it would
\* have a dependent of smaller length.
LEMMA RankedNoCycle ==
    ASSUME NEW f, Ranking(f), NEW t \in DOMAIN f
    PROVE  ~LeadsToCycle(t)
<1> SUFFICES ASSUME NEW ts \in SUBSET DOMAIN taskMap, t \in ts,
                    \A u \in ts : Dependents(taskMap, u) \cap ts # {}
             PROVE  FALSE
  BY DEF LeadsToCycle
<1> DEFINE N == {f[u] : u \in ts \cap DOMAIN f}
<1>1. N \in SUBSET Nat /\ N # {}
  <2>1. f[t] \in N
    OBVIOUS
  <2>2. \A u \in DOMAIN f : f[u] \in Nat
    BY LengthsFacts DEF Ranking
  <2> QED BY <2>1, <2>2
<1> HIDE DEF N
<1>2. PICK m \in N : \A k \in N : m <= k
  BY <1>1, Least
<1> USE DEF N
<1>3. PICK u \in ts \cap DOMAIN f : m = f[u]
  BY <1>2
<1>4. PICK d \in Dependents(taskMap, u) : d \in ts
  BY <1>3
<1>5. d \in DOMAIN f /\ f[d] < f[u]
  BY <1>3, <1>4 DEF Ranking, IsMaxLen
<1>6. f[d] \in N /\ f[d] \in Nat /\ f[u] \in Nat
  BY <1>3, <1>4, <1>5, LengthsFacts DEF Ranking
<1> QED BY <1>2, <1>3, <1>5, <1>6

\* Two rankings have the same length for a task.
LEMMA RankingsAgree ==
    ASSUME NEW f, NEW g, Ranking(f), Ranking(g), NEW t \in DOMAIN f \cap DOMAIN g
    PROVE  f[t] = g[t]
<1> SUFFICES ASSUME f[t] # g[t] PROVE FALSE
  OBVIOUS
<1> DEFINE W == {u \in DOMAIN f \cap DOMAIN g : f[u] # g[u]}
           N == {f[u] : u \in W}
<1>1. \A u \in DOMAIN f : f[u] \in Nat
  BY LengthsFacts DEF Ranking
<1>2. \A u \in DOMAIN g : g[u] \in Nat
  BY LengthsFacts DEF Ranking
<1>3. N \in SUBSET Nat /\ N # {}
  <2>1. t \in W
    OBVIOUS
  <2> QED BY <1>1, <2>1
<1> HIDE DEF N
<1>4. PICK m \in N : \A k \in N : m <= k
  BY <1>3, Least
<1> USE DEF N
<1>5. PICK u \in W : m = f[u]
  BY <1>4
<1> DEFINE ds == Dependents(taskMap, u)
<1>6. /\ ds \subseteq DOMAIN f /\ ds \subseteq DOMAIN g
      /\ IsMaxLen(f, f[u], ds) /\ IsMaxLen(g, g[u], ds)
  BY <1>5 DEF Ranking
<1>7. ASSUME NEW d \in ds PROVE f[d] = g[d]
  <2>1. f[d] < f[u] /\ d \in DOMAIN f \cap DOMAIN g
    BY <1>6 DEF IsMaxLen
  <2>2. d \in W => f[d] \in N
    OBVIOUS
  <2> QED BY <1>1, <1>4, <1>5, <2>1, <2>2
<1> HIDE DEF ds
<1>8. f[u] \in Nat /\ g[u] \in Nat /\ \A d \in ds : f[d] \in Nat
  BY <1>1, <1>2, <1>5, <1>6
<1>9. f[u] = g[u]
  BY <1>6, <1>7, <1>8 DEF IsMaxLen
<1> QED BY <1>5, <1>9

-----------------------------------------------------------------------------
(* What follows from it *)

\* For every file, TypeOK is an invariant.
THEOREM TypeHolds == Spec => []TypeOK
BY FileInvHolds, PTL DEF FileInv

\* For every file, Validate accepts it iff its ids are different, its dependencies
\* tasks of the file and the graph acyclic; "cycle" and the other errors are right too.
THEOREM ValidateIsExactHolds == Spec => []ValidateIsExact
<1>1. FileInv => ValidateIsExact
  <2> SUFFICES ASSUME FileInv PROVE ValidateIsExact
    OBVIOUS
  <2> DEFINE deps == [t \in TaskIds(file) |-> GetTaskByID(file, t)]
             sound == /\ IsInjective([i \in DOMAIN file |-> file[i].id])
                      /\ \A t \in TaskIds(file) : Range(deps[t]) \subseteq TaskIds(file)
  <2>1. sound <=> Sound
    BY DEF Sound, Deps
  <2>2. IsDAG(deps) <=> Acyclic(TaskIds(file))
    BY DEF IsDAG, Acyclic, Deps
  <2>3. VerdictInv
    BY DEF FileInv
  <2> HIDE DEF sound, deps
  <2>4. /\ verdict = "valid" => sound /\ IsDAG(deps)
        /\ verdict = "cycle" => sound /\ ~IsDAG(deps)
        /\ verdict \in {"duplicate", "missing"} => ~sound
    BY <2>1, <2>2, <2>3 DEF VerdictInv
  <2> QED BY <2>4 DEF ValidateIsExact, sound, deps
<1> QED BY <1>1, FileInvHolds, PTL

\* Over any plan, validated or not, calculatePriority fails exactly for the tasks from
\* which a cycle is in reach, and a task is more urgent than those that depend on it.
PriorityIsExact ==
    \A t \in DOMAIN priority :
        /\ priority[t] = Fails <=> LeadsToCycle(t)
        /\ \A u \in Dependents(taskMap, t) \cap DOMAIN priority :
             priority[t] # Fails => priority[t] < priority[u]

\* For every plan, calculatePriority fails exactly for the tasks from which a cycle is
\* in reach, and a task is more urgent than those that depend on it.
THEOREM PriorityIsExactHolds == Spec => []PriorityIsExact
<1>1. FileInv => PriorityIsExact
  <2> SUFFICES ASSUME FileInv, NEW t \in DOMAIN priority
               PROVE  /\ priority[t] = Fails <=> LeadsToCycle(t)
                      /\ \A u \in Dependents(taskMap, t) \cap DOMAIN priority :
                           priority[t] # Fails => priority[t] < priority[u]
    BY DEF PriorityIsExact
  <2>1. \A u \in DOMAIN priority :
          IF priority[u] = Fails THEN LeadsToCycle(u) ELSE Ranked(u, priority[u])
    BY DEF FileInv, PriorityInv
  <2>2. CASE priority[t] = Fails
    BY <2>1, <2>2
  <2>3. CASE priority[t] # Fails
    <3>1. PICK f \in Rankings : Ranking(f) /\ t \in DOMAIN f /\ priority[t] = -f[t]
      BY <2>1, <2>3 DEF Ranked
    <3>2. ~LeadsToCycle(t)
      BY <3>1, RankedNoCycle
    <3>3. ASSUME NEW u \in Dependents(taskMap, t) \cap DOMAIN priority PROVE priority[t] < priority[u]
      <4>1. u \in DOMAIN f /\ f[u] < f[t] /\ f[t] \in Nat /\ f[u] \in Nat
        BY <3>1, LengthsFacts DEF Ranking, IsMaxLen
      <4>2. ~LeadsToCycle(u)
        BY <3>1, <4>1, RankedNoCycle
      <4>3. PICK g \in Rankings : Ranking(g) /\ u \in DOMAIN g /\ priority[u] = -g[u]
        BY <2>1, <4>2 DEF Ranked
      <4>4. f[u] = g[u]
        BY <3>1, <4>1, <4>3, RankingsAgree
      <4> QED BY <3>1, <4>1, <4>3, <4>4
    <3> QED BY <2>3, <3>2, <3>3
  <2> QED BY <2>2, <2>3
<1> QED BY <1>1, FileInvHolds, PTL

\* A file that Validate accepted has a task to start with, and calculatePriority does
\* not fail for any task of its plan.
THEOREM ValidatedCanStartHolds == Spec => []ValidatedCanStart
<1>1. FileInv => ValidatedCanStart
  <2> SUFFICES ASSUME FileInv, verdict = "valid", DOMAIN priority # {}
               PROVE  /\ \A t \in DOMAIN priority : priority[t] # Fails
                      /\ \E t \in DOMAIN taskMap : taskMap[t] = <<>>
    BY DEF ValidatedCanStart
  <2>1. TypeOK /\ Sound /\ Acyclic(TaskIds(file)) /\ PriorityInv
    BY DEF FileInv, VerdictInv
  <2>2. taskMap = NewTaskMap(file) /\ DOMAIN taskMap = TaskIds(file) /\ TaskIds(file) # {}
    <3>1. taskMap # <<>>
      BY <2>1, EmptyDomain DEF TypeOK
    <3>2. taskMap = NewTaskMap(file)
      BY <3>1 DEF FileInv, ModeInv
    <3> QED BY <2>1, <3>2, NewTaskMapFacts DEF TypeOK
  <2>3. \A t \in TaskIds(file) : Range(taskMap[t]) = Deps(t) /\ taskMap[t] \in Seq(Ids)
    BY <2>1, <2>2, UniqueIds, NewTaskMapFacts DEF TypeOK, Sound, Deps
  <2>4. IsFiniteSet(TaskIds(file))
    BY <2>1, FilesAssumption, FS_Subset, NewTaskMapFacts DEF TypeOK
  <2>5. ASSUME NEW t \in DOMAIN priority, priority[t] = Fails PROVE FALSE
    <3>1. LeadsToCycle(t)
      BY <2>1, <2>5 DEF PriorityInv
    <3>2. PICK ts \in SUBSET DOMAIN taskMap : t \in ts /\ \A u \in ts : Dependents(taskMap, u) \cap ts # {}
      BY <3>1 DEF LeadsToCycle
    <3>3. PICK D : D = [u \in ts |-> Deps(u)]
      OBVIOUS
    <3>4. \A u \in ts : \E d \in ts : u \in D[d]
      BY <2>2, <2>3, <3>2, <3>3 DEF Dependents
    <3>5. IsFiniteSet(ts)
      BY <2>2, <2>4, FS_Subset
    <3>6. PICK us \in SUBSET ts : us # {} /\ \A u \in us : D[u] \cap us # {}
      <4>1. ts # {} /\ DOMAIN D = ts
        BY <3>2, <3>3
      <4> QED BY <3>4, <3>5, <4>1, CycleEitherWay
    <3>7. us \in SUBSET TaskIds(file) /\ \A u \in us : Deps(u) \cap us # {}
      BY <2>2, <3>3, <3>6
    <3> QED BY <2>1, <3>6, <3>7 DEF Acyclic
  <2>6. \E t \in DOMAIN taskMap : taskMap[t] = <<>>
    <3>1. PICK t \in TaskIds(file) : Deps(t) \cap TaskIds(file) = {}
      BY <2>1, <2>2 DEF Acyclic
    <3>2. Range(taskMap[t]) = {} /\ taskMap[t] \in Seq(Ids)
      BY <2>1, <2>3, <3>1 DEF Sound
    <3>3. taskMap[t] = <<>>
      <4> SUFFICES ASSUME taskMap[t] # <<>> PROVE FALSE
        OBVIOUS
      <4>1. Len(taskMap[t]) \in Nat \ {0}
        BY <3>2, EmptySeq
      <4>2. 1 \in DOMAIN taskMap[t]
        BY <3>2, <4>1, LenProperties
      <4>3. taskMap[t][1] \in Range(taskMap[t])
        BY <4>2 DEF Range
      <4> QED BY <3>2, <4>3
    <3> QED BY <2>2, <3>1, <3>3
  <2> QED BY <2>5, <2>6
<1> QED BY <1>1, FileInvHolds, PTL

-----------------------------------------------------------------------------
(* The lengths are those of the paths DAGExecutor speaks of *)

\* have[n] are the members of T from which n edges of deps lead.
PathsOf(have, T, deps, N) ==
    have = [n \in 0..N |-> IF n = 0 THEN T ELSE {t \in T : \E d \in have[n - 1] : t \in deps[d]}]

\* The function that HavePath chooses exists.
LEMMA PathsDefined ==
    ASSUME NEW T, NEW deps, NEW N \in Nat
    PROVE  \E have : PathsOf(have, T, deps, N)
<1> DEFINE Before(S) == {t \in T : \E d \in S : t \in deps[d]}
           IsPaths(m, h) == h = [n \in 0..m |-> IF n = 0 THEN T ELSE Before(h[n - 1])]
           Bad == {m \in 0..N : ~\E h : IsPaths(m, h)}
<1> SUFFICES \E h : IsPaths(N, h)
  BY Zenon DEF PathsOf
<1> SUFFICES ASSUME ~\E h : IsPaths(N, h) PROVE FALSE
  OBVIOUS
<1>1. PICK m \in Bad : \A k \in Bad : m <= k
  <2>1. Bad \in SUBSET Nat
    OBVIOUS
  <2>2. Bad # {}
    <3> HIDE DEF IsPaths
    <3> QED OBVIOUS
  <2> HIDE DEF Bad
  <2> QED BY <2>1, <2>2, Least
<1>2. m # 0
  <2>1. IsPaths(0, [n \in 0..0 |-> T])
    OBVIOUS
  <2> HIDE DEF IsPaths
  <2> QED BY <1>1, <2>1
<1>3. m \in 1..N /\ m - 1 \in 0..N /\ m - 1 \notin Bad
  <2>1. m \in 1..N
    BY <1>1, <1>2
  <2> HIDE DEF IsPaths
  <2> QED BY <1>1, <2>1
<1>4. PICK h : IsPaths(m - 1, h)
  <2> HIDE DEF IsPaths
  <2> QED BY <1>3
<1> DEFINE g == [n \in 0..m |-> IF n = m THEN Before(h[m - 1]) ELSE h[n]]
<1> HIDE DEF Before
<1>5. ASSUME NEW n \in 0..m PROVE g[n] = IF n = 0 THEN T ELSE Before(g[n - 1])
  <2>1. CASE n = m
    <3>1. g[n] = Before(h[m - 1]) /\ g[n - 1] = h[m - 1] /\ n # 0
      BY <1>3, <2>1
    <3> QED BY <2>1, <3>1
  <2>2. CASE n # m
    <3>1. n \in 0..(m - 1) /\ g[n] = h[n]
      BY <1>3, <2>2
    <3>2. h[n] = IF n = 0 THEN T ELSE Before(h[n - 1])
      BY <1>4, <3>1
    <3>3. n # 0 => g[n - 1] = h[n - 1]
      BY <1>3, <3>1
    <3> QED BY <3>1, <3>2, <3>3
  <2> QED BY <2>1, <2>2
<1>6. IsPaths(m, g)
  BY <1>5
<1> HIDE DEF IsPaths
<1> QED BY <1>1, <1>6

LEMMA HavePathIs ==
    /\ Exec!HavePath[0] = Ids
    /\ \A n \in 1..Cardinality(Ids) : Exec!HavePath[n] =
         {t \in Ids : \E d \in Exec!HavePath[n - 1] :
                         d \in Ids /\ d \in DOMAIN taskMap /\ t \in Range(taskMap[d])}
<1> DEFINE p == [dependsOn |-> [t \in Ids |-> IF t \in DOMAIN taskMap THEN Range(taskMap[t]) ELSE {}]]
           N == Exec!Cardinality(Ids)
           H == Exec!HavePath
<1>1. Exec!Cardinality(Ids) = Cardinality(Ids)
  BY DEF Exec!Cardinality, Cardinality
<1>2. N \in Nat
  BY <1>1, LengthsFacts
<1>3. \E have : PathsOf(have, Ids, p.dependsOn, N)
  <2> HIDE DEF p, N
  <2> QED BY <1>2, PathsDefined
<1>4. H = [n \in 0..N |-> IF n = 0 THEN Ids ELSE {t \in Ids : \E d \in H[n - 1] : t \in p.dependsOn[d]}]
  BY <1>3, Zenon DEF PathsOf, Exec!HavePath
<1>5. H[0] = Ids
  <2> HIDE DEF p, N, H
  <2> QED BY <1>2, <1>4
<1>6. \A n \in 1..N : H[n] = {t \in Ids : \E d \in H[n - 1] : t \in p.dependsOn[d]}
  <2> HIDE DEF p, N, H
  <2> QED BY <1>2, <1>4
<1>7. \A n \in 0..N : H[n] \subseteq Ids
  <2> HIDE DEF p, N, H
  <2> QED BY <1>2, <1>5, <1>6
<1>8. ASSUME NEW n \in 1..N
      PROVE  H[n] = {t \in Ids : \E d \in H[n - 1] : d \in Ids /\ d \in DOMAIN taskMap /\ t \in Range(taskMap[d])}
  <2>1. H[n - 1] \subseteq Ids
    <3> HIDE DEF p, N, H
    <3> QED BY <1>2, <1>7
  <2>2. \A t, d \in Ids : t \in p.dependsOn[d] <=> d \in DOMAIN taskMap /\ t \in Range(taskMap[d])
    OBVIOUS
  <2> HIDE DEF p, N, H
  <2> QED BY <1>6, <2>1, <2>2
<1> QED BY <1>1, <1>5, <1>8

\* From a ranked task there are the paths of its length and the shorter ones...
LEMMA RankedPaths ==
    ASSUME TypeOK, NEW f, Ranking(f), NEW t \in DOMAIN f, NEW n \in 0..Cardinality(Ids)
    PROVE  t \in Exec!HavePath[n] <=> n <= f[t]
<1> DEFINE N == Cardinality(Ids)
           H == Exec!HavePath
           Bad == {k \in 0..N : \E u \in DOMAIN f : ~(u \in H[k] <=> k <= f[u])}
<1> SUFFICES ASSUME Bad # {} PROVE FALSE
  OBVIOUS
<1>1. N \in Nat /\ Bad \in SUBSET Nat
  BY LengthsFacts
<1>2. PICK k \in Bad : \A j \in Bad : k <= j
  <2> HIDE DEF Bad
  <2> QED BY <1>1, Least
<1>3. PICK u \in DOMAIN f : ~(u \in H[k] <=> k <= f[u])
  BY <1>2
<1>4. /\ u \in DOMAIN taskMap /\ u \in Ids /\ f[u] \in Nat
      /\ Dependents(taskMap, u) \subseteq DOMAIN f /\ IsMaxLen(f, f[u], Dependents(taskMap, u))
  BY LengthsFacts DEF TypeOK, Ranking
<1>5. CASE k = 0
  BY <1>3, <1>4, <1>5, HavePathIs
<1>6. CASE k # 0
  <2>1. k \in 1..N /\ k - 1 \in 0..N /\ k - 1 \notin Bad
    BY <1>1, <1>2, <1>6
  <2>2. \A d \in DOMAIN f : d \in H[k - 1] <=> k - 1 <= f[d]
    BY <2>1
  <2>3. u \in H[k] <=> \E d \in H[k - 1] : d \in Ids /\ d \in DOMAIN taskMap /\ u \in Range(taskMap[d])
    <3> HIDE DEF Bad
    <3> QED BY <1>4, <2>1, HavePathIs
  <2>4. u \in H[k] <=> \E d \in Dependents(taskMap, u) : d \in H[k - 1]
    <3> HIDE DEF Bad, H
    <3> QED BY <2>3 DEF Dependents, TypeOK
  <2>5. u \in H[k] <=> \E d \in Dependents(taskMap, u) : k - 1 <= f[d]
    <3> HIDE DEF Bad, H
    <3> QED BY <1>4, <2>2, <2>4
  <2>6. (\E d \in Dependents(taskMap, u) : k - 1 <= f[d]) <=> k <= f[u]
    <3>1. \A d \in Dependents(taskMap, u) : f[d] \in Nat
      BY <1>4, LengthsFacts DEF Ranking
    <3> HIDE DEF Bad, H
    <3> QED BY <1>4, <1>6, <2>1, <3>1 DEF IsMaxLen
  <2> HIDE DEF Bad, H
  <2> QED BY <1>3, <2>5, <2>6
<1> QED BY <1>5, <1>6

\* ...from one from which a cycle is in reach, of every length...
LEMMA CyclePaths ==
    ASSUME TypeOK, NEW t, LeadsToCycle(t), NEW n \in 0..Cardinality(Ids)
    PROVE  t \in Exec!HavePath[n]
<1> DEFINE N == Cardinality(Ids)
           H == Exec!HavePath
<1>1. PICK ts \in SUBSET DOMAIN taskMap : t \in ts /\ \A u \in ts : Dependents(taskMap, u) \cap ts # {}
  BY DEF LeadsToCycle
<1> DEFINE Bad == {k \in 0..N : ~(ts \subseteq H[k])}
<1> SUFFICES ASSUME Bad # {} PROVE FALSE
  BY <1>1
<1>2. N \in Nat /\ Bad \in SUBSET Nat
  BY LengthsFacts
<1>3. PICK k \in Bad : \A j \in Bad : k <= j
  <2> HIDE DEF Bad
  <2> QED BY <1>2, Least
<1>4. ts \subseteq Ids
  BY <1>1 DEF TypeOK
<1>5. CASE k = 0
  BY <1>3, <1>4, <1>5, HavePathIs
<1>6. CASE k # 0
  <2>1. k \in 1..N /\ k - 1 \in 0..N /\ ts \subseteq H[k - 1]
    BY <1>2, <1>3, <1>6
  <2>2. ASSUME NEW u \in ts PROVE u \in H[k]
    <3>1. PICK d \in ts : d \in DOMAIN taskMap /\ u \in Range(taskMap[d])
      BY <1>1 DEF Dependents
    <3> HIDE DEF Bad
    <3> QED BY <1>4, <2>1, <3>1, HavePathIs
  <2> QED BY <1>3, <2>2
<1> QED BY <1>5, <1>6

\* ...and no ranked task is as far from the end as there are ids: every length up to
\* its own is that of a task.
LEMMA RankedShort ==
    ASSUME TypeOK, NEW f \in Rankings, Ranking(f), NEW t \in DOMAIN f
    PROVE  f[t] \in Nat /\ f[t] < Cardinality(Ids)
<1> DEFINE S == {f[u] : u \in DOMAIN f}
           Bad == {k \in S : ~(0..k \subseteq S)}
<1>1. S \in SUBSET Nat /\ \A u \in DOMAIN f : f[u] \in Nat
  BY LengthsFacts DEF Ranking
<1>2. Bad = {}
  <2> SUFFICES ASSUME Bad # {} PROVE FALSE
    OBVIOUS
  <2>1. PICK k \in Bad : \A j \in Bad : k <= j
    <3>1. Bad \in SUBSET Nat
      BY <1>1
    <3> HIDE DEF Bad
    <3> QED BY <3>1, Least
  <2>2. PICK u \in DOMAIN f : k = f[u]
    OBVIOUS
  <2>3. k \in Nat /\ k # 0
    BY <1>1, <2>1, <2>2
  <2>4. PICK d \in Dependents(taskMap, u) : k = f[d] + 1
    BY <2>2, <2>3 DEF Ranking, IsMaxLen
  <2>5. d \in DOMAIN f
    BY <2>2, <2>4 DEF Ranking
  <2>6. f[d] \in S /\ f[d] \in Nat /\ f[d] < k
    BY <1>1, <2>4, <2>5
  <2>7. 0..f[d] \subseteq S
    <3> HIDE DEF S, Bad
    <3>1. f[d] \notin Bad
      BY <2>1, <2>3, <2>6
    <3> QED BY <2>6, <3>1 DEF Bad
  <2>8. 0..k \subseteq S
    <3> HIDE DEF S, Bad
    <3>1. k \in S
      BY <2>1 DEF Bad
    <3> QED BY <2>3, <2>4, <2>6, <2>7, <3>1
  <2> QED BY <2>1, <2>8
<1>3. 0..f[t] \subseteq S
  BY <1>2
<1>4. IsFiniteSet(DOMAIN f) /\ Cardinality(DOMAIN f) <= Cardinality(Ids)
  <2>1. DOMAIN f \in SUBSET Ids
    BY DEF TypeOK, Ranking
  <2> QED BY <2>1, FilesAssumption, FS_Subset
<1>5. f \in Surjection(DOMAIN f, S)
  BY DEF Rankings, Surjection
<1> HIDE DEF S
<1>6. IsFiniteSet(S) /\ Cardinality(S) <= Cardinality(DOMAIN f)
  BY <1>4, <1>5, FS_Surjection
<1>7. f[t] \in Nat
  BY <1>1
<1>8. Cardinality(0..f[t]) = f[t] + 1
  BY <1>7, FS_Interval
<1>9. Cardinality(0..f[t]) <= Cardinality(S)
  BY <1>3, <1>6, FS_Subset
<1>10. Cardinality(S) \in Nat /\ Cardinality(DOMAIN f) \in Nat /\ Cardinality(Ids) \in Nat
  BY <1>4, <1>6, FS_CardinalityType, LengthsFacts
<1> QED BY <1>4, <1>6, <1>7, <1>8, <1>9, <1>10

\* For every plan, calculatePriority fails for a task iff DAGExecutor says that it is on
\* a cycle, and orders the others as DAGExecutor says.
THEOREM PriorityIsByPathsHolds == Spec => []PriorityIsByPaths
<1>1. FileInv => PriorityIsByPaths
  <2> SUFFICES ASSUME FileInv, NEW t \in DOMAIN priority, NEW u \in DOMAIN priority
               PROVE  /\ priority[t] = Fails <=> Exec!OnCycle(t)
                      /\ priority[t] # Fails /\ priority[u] # Fails =>
                           (priority[t] <= priority[u] <=> Exec!AsUrgent(t, u))
    BY DEF PriorityIsByPaths
  <2> DEFINE N == Cardinality(Ids)
             H == Exec!HavePath
  <2>1. TypeOK /\ N \in Nat
    BY LengthsFacts DEF FileInv
  <2>2. \A v \in DOMAIN priority :
          IF priority[v] = Fails THEN LeadsToCycle(v) ELSE Ranked(v, priority[v])
    BY DEF FileInv, PriorityInv
  <2>3. Exec!Cardinality(Ids) = N
    BY DEF Exec!Cardinality, Cardinality
  <2>4. Exec!OnCycle(t) <=> t \in H[N]
    BY <2>3 DEF Exec!OnCycle
  <2>5. Exec!AsUrgent(t, u) <=> \A n \in 0..N : u \in H[n] => t \in H[n]
    BY <2>3 DEF Exec!AsUrgent
  <2>6. priority[t] = Fails <=> t \in H[N]
    <3>1. CASE priority[t] = Fails
      BY <2>1, <2>2, <3>1, CyclePaths
    <3>2. CASE priority[t] # Fails
      <4>1. PICK f \in Rankings : Ranking(f) /\ t \in DOMAIN f /\ priority[t] = -f[t]
        BY <2>2, <3>2 DEF Ranked
      <4>2. f[t] \in Nat /\ f[t] < N
        BY <2>1, <4>1, RankedShort
      <4>3. t \in H[N] <=> N <= f[t]
        BY <2>1, <4>1, RankedPaths
      <4> QED BY <2>1, <3>2, <4>2, <4>3
    <3> QED BY <3>1, <3>2
  <2>7. ASSUME priority[t] # Fails, priority[u] # Fails
        PROVE  priority[t] <= priority[u] <=> \A n \in 0..N : u \in H[n] => t \in H[n]
    <3>1. PICK f \in Rankings : Ranking(f) /\ t \in DOMAIN f /\ priority[t] = -f[t]
      BY <2>2, <2>7 DEF Ranked
    <3>2. PICK g \in Rankings : Ranking(g) /\ u \in DOMAIN g /\ priority[u] = -g[u]
      BY <2>2, <2>7 DEF Ranked
    <3>3. f[t] \in Nat /\ g[u] \in Nat /\ g[u] < N
      BY <2>1, <3>1, <3>2, RankedShort
    <3>4. \A n \in 0..N : (t \in H[n] <=> n <= f[t]) /\ (u \in H[n] <=> n <= g[u])
      BY <2>1, <3>1, <3>2, RankedPaths
    <3> HIDE DEF H
    <3> QED BY <2>1, <3>1, <3>2, <3>3, <3>4
  <2> QED BY <2>4, <2>5, <2>6, <2>7
<1> QED BY <1>1, FileInvHolds, PTL
=============================================================================
