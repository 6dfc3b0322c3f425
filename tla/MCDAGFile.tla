------------------------------- MODULE MCDAGFile -------------------------------
(* Every file of one, two or three tasks with up to two dependencies each, *)
(* one after the other in any order, twice the same, on itself or on "d",  *)
(* which is no task; files in which the first id comes again; and those of *)
(* four tasks with up to two different dependencies each.                  *)
EXTENDS DAGFile

MCIds == {"a", "b", "c", "d"}

DependsOn == UNION {[1..n -> MCIds] : n \in 0..2}
Sorted == {SetToSeq(s) : s \in {r \in SUBSET MCIds : Cardinality(r) < 3}}

FilesOf(ids, dependencies) ==
    {[i \in DOMAIN ids |-> [id |-> ids[i], dependsOn |-> deps[i]]] :
        deps \in [DOMAIN ids -> dependencies]}

MCFiles == FilesOf(<<"a">>, DependsOn) \cup FilesOf(<<"a", "b">>, DependsOn)
           \cup FilesOf(<<"a", "a">>, DependsOn) \cup FilesOf(<<"a", "b", "c">>, DependsOn)
           \cup FilesOf(<<"a", "b", "c", "d">>, Sorted)
=============================================================================
