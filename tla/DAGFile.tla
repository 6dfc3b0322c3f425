-------------------------------- MODULE DAGFile --------------------------------
(***************************************************************************)
(* DAG files (internal/executor/dagfile.go): Validate with its depth-first *)
(* search, and the plan a file becomes; and the other depth-first search   *)
(* over the same graph, calculatePriority of internal/executor/executor.go *)
(* A step is a call of the function that searches, or a return from it;    *)
(* calls that return at once are left out.  The file is one decoded from   *)
(* YAML; arguments, tools and names are left out.                          *)
(***************************************************************************)
EXTENDS Integers, Sequences, SequencesExt, FiniteSets

CONSTANTS
    Ids,     \* every id a file may contain
    Files    \* the files that may be decoded

\* The tasks of a file in order, each with its id and its depends_on.
FileType == Seq([id : Ids, dependsOn : Seq(Ids)])
ASSUME FilesAssumption == IsFiniteSet(Ids) /\ Files \subseteq FileType

VARIABLES
    file,      \* the DAGFile
    verdict,   \* what Validate returned, "search" while it is in its search
    visited,   \* visited of Validate
    taskMap,   \* plan.TaskMap, as the DependsOn of each task in it
    priority,  \* what calculatePriority returned, for the tasks it was called with
    cache,     \* pathLenCache of the call it is in
    path       \* the ids of the calls of hasCycle or dfs that have not returned

vars == <<file, verdict, visited, taskMap, priority, cache, path>>

Verdict == {"none", "search", "duplicate", "missing", "cycle", "valid"}
Fails   == 1   \* an error of calculatePriority; priorities are not positive
Lengths == 0..Cardinality(Ids)

TypeOK ==
    /\ file \in FileType /\ verdict \in Verdict
    /\ visited \subseteq Ids /\ path \in Seq(Ids)
    /\ DOMAIN taskMap \subseteq Ids
    /\ \A t \in DOMAIN taskMap : taskMap[t] \in Seq(Ids)
    /\ DOMAIN priority \subseteq DOMAIN taskMap
    /\ \A t \in DOMAIN priority : priority[t] \in {Fails} \cup {-n : n \in Lengths}
    /\ DOMAIN cache \subseteq DOMAIN taskMap /\ \A t \in DOMAIN cache : cache[t] \in Lengths

Init ==
    /\ file \in Files /\ verdict = "none" /\ visited = {}
    /\ taskMap = <<>> /\ priority = <<>> /\ cache = <<>> /\ path = <<>>

TaskIds(f) == {f[i].id : i \in DOMAIN f}

-----------------------------------------------------------------------------
(* LoadAndValidateDAG *)

\* getTaskByID finds the first task of an id; one of no task has no dependencies.
GetTaskByID(f, id) ==
    LET same == {i \in DOMAIN f : f[i].id = id}
    IN  IF same = {} THEN <<>> ELSE f[Min(same)].dependsOn

\* The plan a file becomes: of two tasks with one id the later one is in TaskMap.
NewTaskMap(f) ==
    [t \in TaskIds(f) |-> f[Max({i \in DOMAIN f : f[i].id = t})].dependsOn]

\* Mutant of CheckIds: dependencies need not be tasks.
CheckDuplicates ==
    /\ verdict = "none" /\ taskMap = <<>>
    /\ verdict' = IF \E i, j \in DOMAIN file : i # j /\ file[i].id = file[j].id THEN "duplicate"
                  ELSE "search"
    /\ UNCHANGED <<file, visited, taskMap, priority, cache, path>>

\* Duplicate ids first, then missing dependencies.
CheckIds ==
    /\ verdict = "none" /\ taskMap = <<>>
    /\ verdict' = IF \E i, j \in DOMAIN file : i # j /\ file[i].id = file[j].id THEN "duplicate"
                  ELSE IF \E i \in DOMAIN file : ~(Range(file[i].dependsOn) \subseteq TaskIds(file))
                         THEN "missing"
                  ELSE "search"
    /\ UNCHANGED <<file, visited, taskMap, priority, cache, path>>

\* hasCycle has returned for these: a call with one of them returns at once.
Returned == visited \ Range(path)

\* hasCycle is called with an id that is new or on the stack; of the latter it
\* returns true, as do the calls it was made from.
HasCycle(id) ==
    /\ IF id \in Range(path) THEN verdict' = "cycle" /\ path' = <<>> /\ UNCHANGED visited
       ELSE UNCHANGED verdict /\ visited' = visited \cup {id} /\ path' = Append(path, id)
    /\ UNCHANGED <<file, taskMap, priority, cache>>

\* The loop over the tasks comes to the next one that was not visited...
SearchFrom ==
    /\ verdict = "search" /\ path = <<>>
    /\ \E i \in DOMAIN file : /\ file[i].id \notin visited
                              /\ \A j \in 1..(i - 1) : file[j].id \in visited
                              /\ HasCycle(file[i].id)

\* ...the loop in hasCycle to the next dependency...
FollowDependency ==
    /\ verdict = "search" /\ path # <<>>
    /\ LET dependsOn == GetTaskByID(file, Last(path)) IN
       \E i \in DOMAIN dependsOn : /\ dependsOn[i] \notin Returned
                                   /\ \A j \in 1..(i - 1) : dependsOn[j] \in Returned
                                   /\ HasCycle(dependsOn[i])

\* ...and when there is none hasCycle returns false.
ReturnFalse ==
    /\ verdict = "search" /\ path # <<>>
    /\ Range(GetTaskByID(file, Last(path))) \subseteq Returned
    /\ path' = Front(path)
    /\ UNCHANGED <<file, verdict, visited, taskMap, priority, cache>>

\* Mutant of Accept: only the first task is searched from.
AcceptFirst ==
    /\ verdict = "search" /\ path = <<>> /\ visited # {}
    /\ verdict' = "valid" /\ taskMap' = NewTaskMap(file)
    /\ UNCHANGED <<file, visited, priority, cache, path>>

\* No search has found a cycle: the file is valid, and made a plan.
Accept ==
    /\ verdict = "search" /\ path = <<>> /\ TaskIds(file) \subseteq visited
    /\ verdict' = "valid" /\ taskMap' = NewTaskMap(file)
    /\ UNCHANGED <<file, visited, priority, cache, path>>

LoadAndValidateDAG == CheckIds \/ SearchFrom \/ FollowDependency \/ ReturnFalse \/ Accept

\* May also be called with a file nobody validated.
ToExecutionPlan ==
    /\ verdict = "none" /\ taskMap = <<>>
    /\ taskMap' = NewTaskMap(file)
    /\ UNCHANGED <<file, verdict, visited, priority, cache, path>>

-----------------------------------------------------------------------------
(* calculatePriority *)

Dependents(m, t) == {u \in DOMAIN m : t \in Range(m[u])}

\* The next call. ExecutePlan asks for every task it finds ready, sooner or later for
\* any; what one call finds is not kept for another, so that here they come in the
\* order of the file.
CalculatePriority ==
    /\ path = <<>>
    /\ \E i \in DOMAIN file :
         /\ file[i].id \in DOMAIN taskMap \ DOMAIN priority
         /\ \A j \in 1..(i - 1) : file[j].id \in DOMAIN priority
         /\ path' = <<file[i].id>>
    /\ UNCHANGED <<file, verdict, visited, taskMap, priority, cache>>

\* The map m after m[t] = v.
With(m, t, v) == [u \in DOMAIN m \cup {t} |-> IF u = t THEN v ELSE m[u]]

\* It returns to ExecutePlan.
PriorityIs(p) == priority' = With(priority, path[1], p) /\ cache' = <<>> /\ path' = <<>>

\* Mutant of FollowDependent: visited is not cleared when dfs returns.
FollowOnce ==
    /\ taskMap # <<>> /\ path # <<>>
    /\ \E d \in Dependents(taskMap, Last(path)) :
         IF d \in Range(path) \cup DOMAIN cache THEN PriorityIs(Fails)
         ELSE path' = Append(path, d) /\ UNCHANGED <<priority, cache>>
    /\ UNCHANGED <<file, verdict, visited, taskMap>>

\* dfs is called with a dependent that is not cached, in any order. If it is in a
\* call with it already, all of them fail.
FollowDependent ==
    /\ taskMap # <<>> /\ path # <<>>
    /\ \E d \in Dependents(taskMap, Last(path)) \ DOMAIN cache :
         IF d \in Range(path) THEN PriorityIs(Fails)
         ELSE path' = Append(path, d) /\ UNCHANGED <<priority, cache>>
    /\ UNCHANGED <<file, verdict, visited, taskMap>>

\* maxLen after the loop over the dependents.
IsMaxLen(lengths, n, ds) ==
    (\A d \in ds : lengths[d] < n) /\ (n = 0 \/ \E d \in ds : n = lengths[d] + 1)

\* Mutant of ReturnLength: the length of the longest path, not negated.
LengthAsPriority ==
    /\ taskMap # <<>> /\ path # <<>>
    /\ Dependents(taskMap, Last(path)) \subseteq DOMAIN cache
    /\ \E n \in Lengths :
         /\ IsMaxLen(cache, n, Dependents(taskMap, Last(path)))
         /\ IF Len(path) = 1 THEN PriorityIs(n)
            ELSE cache' = With(cache, Last(path), n) /\ path' = Front(path) /\ UNCHANGED priority
    /\ UNCHANGED <<file, verdict, visited, taskMap>>

\* dfs caches the length and returns it; the outermost call is for the priority.
ReturnLength ==
    /\ taskMap # <<>> /\ path # <<>>
    /\ Dependents(taskMap, Last(path)) \subseteq DOMAIN cache
    /\ \E n \in Lengths :
         /\ IsMaxLen(cache, n, Dependents(taskMap, Last(path)))
         /\ IF Len(path) = 1 THEN PriorityIs(-n)
            ELSE cache' = With(cache, Last(path), n) /\ path' = Front(path) /\ UNCHANGED priority
    /\ UNCHANGED <<file, verdict, visited, taskMap>>

Prioritise == CalculatePriority \/ FollowDependent \/ ReturnLength

-----------------------------------------------------------------------------
\* The file was rejected, or every task has its priority.
Stopped ==
    /\ \/ verdict \in {"duplicate", "missing", "cycle"}
       \/ path = <<>> /\ DOMAIN priority = TaskIds(file)
    /\ UNCHANGED vars

Next == LoadAndValidateDAG \/ ToExecutionPlan \/ Prioritise \/ Stopped
Spec == Init /\ [][Next]_vars

-----------------------------------------------------------------------------
(* Properties *)

\* A graph is a DAG iff of any tasks in it there is one that depends on none of them.
IsDAG(m) ==
    \A ts \in SUBSET DOMAIN m : ts # {} => \E t \in ts : Range(m[t]) \cap ts = {}

\* Validate accepts the files whose tasks have different ids, depend on each other
\* only and form a DAG, and rejects the others, with a cycle only for one there is.
ValidateIsExact ==
    LET deps  == [t \in TaskIds(file) |-> GetTaskByID(file, t)]
        sound == /\ IsInjective([i \in DOMAIN file |-> file[i].id])
                 /\ \A t \in TaskIds(file) : Range(deps[t]) \subseteq TaskIds(file)
    IN  /\ verdict = "valid" => sound /\ IsDAG(deps)
        /\ verdict = "cycle" => sound /\ ~IsDAG(deps)
        /\ verdict \in {"duplicate", "missing"} => ~sound

\* The two searches agree on what a DAG is, one along the dependencies, the other
\* along the dependents: no task of a validated file is passed over for want of a
\* priority, and there is one to start with.
ValidatedCanStart ==
    verdict = "valid" /\ DOMAIN priority # {} =>
        /\ \A t \in DOMAIN priority : priority[t] # Fails
        /\ \E t \in DOMAIN taskMap : taskMap[t] = <<>>

\* Once every task has its priority: over any plan, validated or not, the searches of
\* calculatePriority found what DAGExecutor defines by paths, the tasks from which a
\* cycle is in reach, and of the others which is at least as urgent.
Exec == INSTANCE DAGExecutor WITH
    Tasks <- Ids, Plans <- {}, MaxWorkers <- 1, MaxRetries <- 0, MaxCalls <- 0,
    plan <- [dependsOn |-> [t \in Ids |->
               IF t \in DOMAIN taskMap THEN Range(taskMap[t]) ELSE {}]],
    status <- {}, closes <- {}, results <- {}, phase <- "idle", queue <- {}, held <- {},
    pc <- {}, toRead <- {}, attempt <- {}, failure <- {}, errChan <- "none", ctx <- "live",
    panicked <- FALSE, proc <- "up", outcome <- "none", calls <- 0
PriorityIsByPaths ==
    DOMAIN priority = DOMAIN taskMap => \A t, u \in DOMAIN priority :
        /\ priority[t] = Fails <=> Exec!OnCycle(t)
        /\ priority[t] # Fails /\ priority[u] # Fails =>
             (priority[t] <= priority[u] <=> Exec!AsUrgent(t, u))
=============================================================================
