----------------------------- MODULE CycleCheck -----------------------------
(***************************************************************************)
(* hasCycle, the depth-first search by which Validate refuses a workflow   *)
(* whose tasks wait for each other (pkg/workflow/types.go).  A workflow    *)
(* that slipped through would sit in the store and never run.              *)
(*                                                                         *)
(* graph is a Go map: tasks are started in any order.  The recursion is a  *)
(* stack of ids; rest holds the dependencies each call still has to visit, *)
(* in any order.  An id that is no task may appear among them.             *)
(***************************************************************************)
EXTENDS Naturals, Sequences

CONSTANT Id   \* the strings used as task ids and in depends_on

VARIABLES graph,     \* the task ids, and the DependsOn of each
          visited,
          recStack,
          stack,     \* the calls of dfs, the innermost last
          rest,      \* what each call still has to look at
          result     \* what hasCycle returns, in the end

vars == <<graph, visited, recStack, stack, rest, result>>

TypeOK == /\ DOMAIN graph \subseteq Id
          /\ graph \in [DOMAIN graph -> SUBSET Id]
          /\ visited \subseteq Id
          /\ recStack \subseteq visited
          /\ stack \in Seq(Id)
          /\ rest \in [Id -> SUBSET Id]
          /\ result \in {"searching", "cycle", "none"}

Init == /\ graph \in UNION {[Ids -> SUBSET Id] : Ids \in SUBSET Id}
        /\ visited = {}
        /\ recStack = {}
        /\ stack = <<>>
        /\ rest = [i \in Id |-> {}]
        /\ result = "searching"

\* graph[i] of an id that is no task is the nil slice.
DependsOn(i) == IF i \in DOMAIN graph THEN graph[i] ELSE {}

Top == stack[Len(stack)]

\* Bug: every call starts a recursion stack of its own.
CallDirty(i, left) ==
  /\ visited' = visited \cup {i}
  /\ recStack' = {i}
  /\ stack' = Append(stack, i)
  /\ rest' = [left EXCEPT ![i] = DependsOn(i)]

\* dfs(i): mark the id, then go through its dependencies.
Call(i, left) ==
  /\ visited' = visited \cup {i}
  /\ recStack' = recStack \cup {i}
  /\ stack' = Append(stack, i)
  /\ rest' = [left EXCEPT ![i] = DependsOn(i)]

\* The outer loop.
Start(i) ==
  /\ result = "searching" /\ stack = <<>>
  /\ i \in DOMAIN graph \ visited
  /\ Call(i, rest)
  /\ UNCHANGED <<graph, result>>

Searching(d) == result = "searching" /\ stack # <<>> /\ d \in rest[Top]

Looked(d) == [rest EXCEPT ![Top] = @ \ {d}]

Descend(d) ==
  /\ Searching(d)
  /\ d \notin visited
  /\ Call(d, Looked(d))
  /\ UNCHANGED <<graph, result>>

\* Every call returns true at once.
FindCycle(d) ==
  /\ Searching(d)
  /\ d \in visited /\ d \in recStack
  /\ result' = "cycle"
  /\ UNCHANGED <<graph, visited, recStack, stack, rest>>

Skip(d) ==
  /\ Searching(d)
  /\ d \in visited /\ d \notin recStack
  /\ rest' = Looked(d)
  /\ UNCHANGED <<graph, visited, recStack, stack, result>>

Return ==
  /\ result = "searching" /\ stack # <<>> /\ rest[Top] = {}
  /\ recStack' = recStack \ {Top}
  /\ stack' = SubSeq(stack, 1, Len(stack) - 1)
  /\ UNCHANGED <<graph, visited, rest, result>>

NoCycle ==
  /\ result = "searching" /\ stack = <<>>
  /\ DOMAIN graph \subseteq visited
  /\ result' = "none"
  /\ UNCHANGED <<graph, visited, recStack, stack, rest>>

Next == \/ \E i \in Id : Start(i) \/ Descend(i) \/ FindCycle(i) \/ Skip(i)
        \/ Return
        \/ NoCycle

Spec == Init /\ [][Next]_vars
-----------------------------------------------------------------------------
\* No set of tasks each of which waits for another of the set, or for itself.
Acyclic == \A U \in SUBSET DOMAIN graph :
             U # {} => \E u \in U : graph[u] \cap U = {}

\* hasCycle answers true for the workflows that could never finish and for no
\* other, whatever the order of the map and of the dependencies.
Decides == /\ result = "cycle" => ~Acyclic
           /\ result = "none" => Acyclic
-----------------------------------------------------------------------------
(* Why: the calls form a path, and what has returned depends only on what  *)
(* has returned.                                                           *)

Path == /\ \A i, j \in 1..Len(stack) : stack[i] = stack[j] => i = j
        /\ recStack = {stack[i] : i \in 1..Len(stack)}
        /\ \A i \in 1..(Len(stack) - 1) : stack[i + 1] \in DependsOn(stack[i])

Returned == visited \ recStack

ReturnedFirst ==
  /\ \A u \in Returned : DependsOn(u) \subseteq Returned
  /\ \A i \in 1..Len(stack) :
       /\ rest[stack[i]] \subseteq DependsOn(stack[i])
       /\ DependsOn(stack[i]) \ rest[stack[i]]
            \subseteq Returned \cup (IF i < Len(stack) THEN {stack[i + 1]} ELSE {})
  /\ \A U \in SUBSET Returned : U # {} => \E u \in U : DependsOn(u) \cap U = {}

SearchInv == TypeOK /\ Path /\ ReturnedFirst /\ Decides
==============================================================================
