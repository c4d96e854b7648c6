----------------------------- MODULE ToolProofs -----------------------------
(***************************************************************************)
(* What five of the parts an agent works with promise. hasCycle is right   *)
(* for every graph of tasks, of any size; the cache of the marketplace     *)
(* gives up what was not used for longest, for any size of it; the summary *)
(* of a text tells of all of it, for any text, any length of its parts and *)
(* any number of them that is merged at once; the search for free time     *)
(* finds all of it, whatever is on the calendar; and every provider gets a *)
(* history it accepts, of any length, within its model's limits.           *)
(***************************************************************************)
EXTENDS CycleCheck, Marketplace, Summaries, Planner, ProviderRequests, Integers, TLAPS, FiniteSetTheorems,
        WellFoundedInduction, SequenceTheorems

LEMMA TopIsOnStack ==
  ASSUME stack \in Seq(Id), stack # <<>>
  PROVE  /\ Len(stack) \in Nat \ {0} /\ Len(stack) \in 1..Len(stack)
         /\ Top = stack[Len(stack)] /\ Top \in Id
BY DEF Top

LEMMA Pushed ==
  ASSUME stack \in Seq(Id), NEW i \in Id
  PROVE  /\ Append(stack, i) \in Seq(Id)
         /\ Len(stack) \in Nat
         /\ Len(Append(stack, i)) = Len(stack) + 1
         /\ \A k \in 1..Len(stack) : Append(stack, i)[k] = stack[k]
         /\ Append(stack, i)[Len(stack) + 1] = i
OBVIOUS

LEMMA Popped ==
  ASSUME stack \in Seq(Id), stack # <<>>
  PROVE  /\ SubSeq(stack, 1, Len(stack) - 1) \in Seq(Id)
         /\ Len(SubSeq(stack, 1, Len(stack) - 1)) = Len(stack) - 1
         /\ \A k \in 1..(Len(stack) - 1) : SubSeq(stack, 1, Len(stack) - 1)[k] = stack[k]
<1> DEFINE n == Len(stack)
<1>1. n \in Nat \ {0} /\ n - 1 \in Int /\ 1 \in Int
  OBVIOUS
<1>2. \A k \in 1..(n - 1) : stack[k] \in Id
  OBVIOUS
<1>3. (n - 1) - 1 + 1 = n - 1 /\ (~(1 <= n - 1) => n - 1 = 0)
  <2>1. \A m \in Nat \ {0} : (m - 1) - 1 + 1 = m - 1 /\ (~(1 <= m - 1) => m - 1 = 0)
    OBVIOUS
  <2> QED
    BY <1>1, <2>1
<1>4. \A k \in 1..(n - 1) : 1 + k - 1 = k
  OBVIOUS
<1>5. /\ SubSeq(stack, 1, n - 1) \in Seq(Id)
      /\ Len(SubSeq(stack, 1, n - 1)) = IF 1 <= n - 1 THEN (n - 1) - 1 + 1 ELSE 0
      /\ \A k \in 1..((n - 1) - 1 + 1) : SubSeq(stack, 1, n - 1)[k] = stack[1 + k - 1]
  BY <1>1, <1>2, SubSeqProperties
<1> DEFINE front == SubSeq(stack, 1, n - 1)
<1> HIDE DEF front, n
<1>6. front \in Seq(Id) /\ Len(front) = n - 1
  BY <1>3, <1>5 DEF front
<1>7. \A k \in 1..(n - 1) : front[k] = stack[k]
  BY <1>3, <1>4, <1>5 DEF front
<1> QED
  BY <1>6, <1>7 DEF front, n

LEMMA DependsOnIds ==
  ASSUME TypeOK, NEW i \in Id
  PROVE  DependsOn(i) \in SUBSET Id
<1>1. graph \in [DOMAIN graph -> SUBSET Id]
  BY DEF TypeOK
<1> QED
  BY <1>1 DEF DependsOn

LEMMA SearchInvInit == Init => SearchInv
<1> SUFFICES ASSUME Init PROVE SearchInv
  OBVIOUS
<1>1. PICK Ids \in SUBSET Id : graph \in [Ids -> SUBSET Id]
  BY DEF Init
<1>2. DOMAIN graph = Ids
  BY <1>1
<1>3. TypeOK
  BY <1>1, <1>2 DEF Init, TypeOK
<1>4. Len(stack) = 0 /\ visited = {} /\ recStack = {} /\ result = "searching"
  BY DEF Init
<1>5. Path /\ ReturnedFirst /\ Decides
  BY <1>4 DEF Path, ReturnedFirst, Returned, Decides
<1> QED
  BY <1>3, <1>5 DEF SearchInv

\* A call is entered: from the outer loop, or by the innermost call.
LEMMA CallKeeps ==
  ASSUME SearchInv, result = "searching", NEW d \in Id, d \notin visited,
         NEW left \in [Id -> SUBSET Id], Call(d, left),
         UNCHANGED <<graph, result>>,
         stack # <<>> => d \in rest[Top] /\ left = [rest EXCEPT ![Top] = @ \ {d}],
         stack = <<>> => left = rest
  PROVE  SearchInv'
<1> DEFINE n == Len(stack)
<1>1. TypeOK /\ Path /\ ReturnedFirst
  BY DEF SearchInv
<1>2. /\ visited \subseteq Id /\ recStack \subseteq visited /\ stack \in Seq(Id)
      /\ rest \in [Id -> SUBSET Id] /\ n \in Nat
  BY <1>1 DEF TypeOK
<1>3. /\ stack' \in Seq(Id) /\ Len(stack') = n + 1
      /\ \A k \in 1..n : stack'[k] = stack[k] /\ stack[k] \in Id
      /\ stack'[n + 1] = d
      /\ stack = <<>> <=> n = 0
  BY <1>2, Pushed DEF Call
<1>4. /\ visited' = visited \cup {d} /\ recStack' = recStack \cup {d}
      /\ rest' = [left EXCEPT ![d] = DependsOn(d)]
      /\ DependsOn(d)' = DependsOn(d)
  BY DEF Call, DependsOn
<1>5. DependsOn(d) \in SUBSET Id
  BY <1>1, DependsOnIds
<1>6. TypeOK'
  BY <1>1, <1>2, <1>3, <1>4, <1>5 DEF TypeOK
<1>7. /\ \A k \in 1..n : stack[k] \in recStack /\ stack[k] # d
      /\ n > 0 => Top = stack[n] /\ n \in 1..n
  BY <1>1, <1>2, <1>3, TopIsOnStack DEF Path
<1>8. \A k \in 1..(n + 1) : k \in 1..n \/ k = n + 1
  BY <1>2
<1>9. ASSUME NEW k \in 1..n
      PROVE  /\ k = n => rest'[stack[k]] = rest[stack[k]] \ {d}
             /\ k # n => rest'[stack[k]] = rest[stack[k]]
  <2>1. /\ stack[k] \in Id /\ stack[k] # d /\ n > 0 /\ Top = stack[n]
        /\ stack[n] \in Id
        /\ stack[k] = stack[n] => k = n
    BY <1>1, <1>2, <1>3, <1>7 DEF Path
  <2>2. left = [rest EXCEPT ![stack[n]] = @ \ {d}]
    BY <1>3, <2>1
  <2>3. rest'[stack[k]] = left[stack[k]]
    BY <1>4, <2>1
  <2> QED
    BY <1>2, <2>1, <2>2, <2>3
<1>10. n > 0 => d \in rest[stack[n]] /\ d \in DependsOn(stack[n])
  BY <1>1, <1>3, <1>7 DEF ReturnedFirst
<1>11. Path'
  <2>1. \A i, j \in 1..(n + 1) : stack'[i] = stack'[j] => i = j
    BY <1>1, <1>3, <1>7, <1>8 DEF Path
  <2>2. recStack' = {stack'[i] : i \in 1..(n + 1)}
    <3>1. recStack = {stack[i] : i \in 1..n}
      BY <1>1 DEF Path
    <3> QED
      BY <1>2, <1>3, <1>4, <1>8, <3>1
  <2>3. \A i \in 1..n : stack'[i + 1] \in DependsOn(stack'[i])
    <3> TAKE i \in 1..n
    <3>1. CASE i = n
      BY <1>2, <1>3, <1>10, <3>1
    <3>2. CASE i # n
      <4>1. i \in 1..(n - 1) /\ i + 1 \in 1..n
        BY <1>2, <3>2
      <4>2. stack[i + 1] \in DependsOn(stack[i])
        BY <1>1, <4>1 DEF Path
      <4> QED
        BY <1>3, <4>1, <4>2
    <3> QED
      BY <3>1, <3>2
  <2>4. (n + 1) - 1 = n
    BY <1>2
  <2> QED
    BY <1>3, <2>1, <2>2, <2>3, <2>4 DEF Path, DependsOn
<1>12. Returned' = Returned
  BY <1>2, <1>4 DEF Returned
<1>13. ReturnedFirst'
  <2>1. \A i \in 1..(n + 1) :
          /\ rest'[stack'[i]] \subseteq DependsOn(stack'[i])
          /\ DependsOn(stack'[i]) \ rest'[stack'[i]]
               \subseteq Returned \cup (IF i < n + 1 THEN {stack'[i + 1]} ELSE {})
    <3> TAKE i \in 1..(n + 1)
    <3>1. CASE i = n + 1
      <4>1. rest'[d] = DependsOn(d)
        BY <1>4
      <4> QED
        BY <1>3, <3>1, <4>1
    <3>2. CASE i = n /\ n > 0
      <4>1. /\ rest[stack[n]] \subseteq DependsOn(stack[n])
            /\ DependsOn(stack[n]) \ rest[stack[n]] \subseteq Returned
        BY <1>1, <1>7, <3>2 DEF ReturnedFirst
      <4>2. stack'[i] = stack[n] /\ stack'[i + 1] = d /\ i < n + 1
        BY <1>2, <1>3, <1>7, <3>2
      <4>3. rest'[stack[n]] = rest[stack[n]] \ {d}
        BY <1>7, <1>9, <3>2
      <4> QED
        BY <4>1, <4>2, <4>3
    <3>3. CASE i # n + 1 /\ i # n
      <4>1. i \in 1..n /\ i + 1 \in 1..n /\ i < n
        BY <1>2, <3>3
      <4>2. /\ rest[stack[i]] \subseteq DependsOn(stack[i])
            /\ DependsOn(stack[i]) \ rest[stack[i]] \subseteq Returned \cup {stack[i + 1]}
        BY <1>1, <4>1 DEF ReturnedFirst
      <4>3. /\ stack'[i] = stack[i] /\ stack'[i + 1] = stack[i + 1]
            /\ rest'[stack[i]] = rest[stack[i]]
        BY <1>3, <1>9, <3>3, <4>1
      <4>4. i < n + 1
        BY <1>2, <4>1
      <4> QED
        BY <4>2, <4>3, <4>4
    <3> QED
      BY <1>2, <3>1, <3>2, <3>3
  <2>2. /\ \A u \in Returned : DependsOn(u) \subseteq Returned
        /\ \A U \in SUBSET Returned : U # {} => \E u \in U : DependsOn(u) \cap U = {}
    BY <1>1 DEF ReturnedFirst
  <2>3. \A i \in 1..Len(stack)' :
          /\ rest[stack[i]]' \subseteq DependsOn(stack[i])'
          /\ DependsOn(stack[i])' \ rest[stack[i]]'
               \subseteq Returned' \cup (IF i < Len(stack)' THEN {stack[i + 1]'} ELSE {})
    BY <1>3, <1>12, <2>1 DEF DependsOn
  <2>4. /\ \A u \in Returned' : DependsOn(u)' \subseteq Returned'
        /\ \A U \in SUBSET Returned' : U # {} => \E u \in U : DependsOn(u)' \cap U = {}
    BY <1>12, <2>2 DEF DependsOn
  <2> QED
    BY <2>3, <2>4 DEF ReturnedFirst
<1>14. Decides'
  BY DEF Decides
<1> QED
  BY <1>6, <1>11, <1>13, <1>14 DEF SearchInv

\* A dependency that has returned, or is no task, is passed over.
LEMMA SkipKeeps ==
  ASSUME SearchInv, NEW d \in Id, Skip(d)
  PROVE  SearchInv'
<1> DEFINE n == Len(stack)
<1>1. TypeOK /\ Path /\ ReturnedFirst
  BY DEF SearchInv
<1>2. /\ stack \in Seq(Id) /\ rest \in [Id -> SUBSET Id] /\ n \in Nat
      /\ stack # <<>> /\ d \in Returned /\ result = "searching"
  BY <1>1 DEF TypeOK, Skip, Searching, Returned
<1>3. UNCHANGED <<graph, visited, recStack, stack, result>>
  BY DEF Skip
<1>4. /\ n > 0 /\ n \in 1..n /\ Top = stack[n] /\ Top \in Id
      /\ rest' = [rest EXCEPT ![stack[n]] = @ \ {d}]
  <2>1. n > 0 /\ n \in 1..n /\ Top = stack[n] /\ Top \in Id
    BY <1>2, TopIsOnStack
  <2>2. rest' = [rest EXCEPT ![Top] = @ \ {d}]
    BY DEF Skip, Looked
  <2> QED
    BY <2>1, <2>2
<1>5. TypeOK'
  <2>1. rest' \in [Id -> SUBSET Id]
    BY <1>2, <1>4
  <2> QED
    BY <1>1, <1>3, <2>1 DEF TypeOK
<1>6. Path'
  BY <1>1, <1>3 DEF Path, DependsOn
<1>7. Returned' = Returned /\ \A i \in Id : DependsOn(i)' = DependsOn(i)
  BY <1>3 DEF Returned, DependsOn
<1>8. ASSUME NEW k \in 1..n
      PROVE  /\ k = n => rest'[stack[k]] = rest[stack[k]] \ {d}
             /\ k # n => rest'[stack[k]] = rest[stack[k]]
  <2>1. stack[k] \in Id /\ stack[n] \in Id /\ (stack[k] = stack[n] => k = n)
    BY <1>1, <1>2, <1>4 DEF Path
  <2> QED
    BY <1>2, <1>4, <2>1
<1>9. ReturnedFirst'
  <2>1. \A i \in 1..n :
          /\ rest'[stack[i]] \subseteq DependsOn(stack[i])
          /\ DependsOn(stack[i]) \ rest'[stack[i]]
               \subseteq Returned \cup (IF i < n THEN {stack[i + 1]} ELSE {})
    <3> TAKE i \in 1..n
    <3>1. /\ rest[stack[i]] \subseteq DependsOn(stack[i])
          /\ DependsOn(stack[i]) \ rest[stack[i]]
               \subseteq Returned \cup (IF i < n THEN {stack[i + 1]} ELSE {})
      BY <1>1 DEF ReturnedFirst
    <3> QED
      BY <1>2, <1>8, <3>1
  <2>2. /\ \A u \in Returned : DependsOn(u) \subseteq Returned
        /\ \A U \in SUBSET Returned : U # {} => \E u \in U : DependsOn(u) \cap U = {}
    BY <1>1 DEF ReturnedFirst
  <2>3. \A i \in 1..Len(stack)' :
          /\ rest[stack[i]]' \subseteq DependsOn(stack[i])'
          /\ DependsOn(stack[i])' \ rest[stack[i]]'
               \subseteq Returned' \cup (IF i < Len(stack)' THEN {stack[i + 1]'} ELSE {})
    BY <1>3, <1>7, <2>1 DEF DependsOn
  <2>4. /\ \A u \in Returned' : DependsOn(u)' \subseteq Returned'
        /\ \A U \in SUBSET Returned' : U # {} => \E u \in U : DependsOn(u)' \cap U = {}
    BY <1>3, <1>7, <2>2 DEF DependsOn
  <2> QED
    BY <2>3, <2>4 DEF ReturnedFirst
<1>10. Decides'
  BY <1>2, <1>3 DEF Decides
<1> QED
  BY <1>5, <1>6, <1>9, <1>10 DEF SearchInv

\* A dependency that is on the stack closes a cycle: the calls from it on.
LEMMA FindCycleKeeps ==
  ASSUME SearchInv, NEW d \in Id, FindCycle(d)
  PROVE  SearchInv'
<1> DEFINE n == Len(stack)
<1>1. TypeOK /\ Path /\ ReturnedFirst
  BY DEF SearchInv
<1>2. /\ stack \in Seq(Id) /\ n \in Nat /\ stack # <<>>
      /\ d \in rest[Top] /\ d \in recStack
  BY <1>1 DEF TypeOK, FindCycle, Searching
<1>3. UNCHANGED <<graph, visited, recStack, stack, rest>> /\ result' = "cycle"
  BY DEF FindCycle
<1>4. /\ n > 0 /\ n \in 1..n /\ Top = stack[n]
      /\ d \in DependsOn(stack[n])
  BY <1>1, <1>2, TopIsOnStack DEF ReturnedFirst
<1>5. PICK j \in 1..n : stack[j] = d
  BY <1>1, <1>2 DEF Path
<1> DEFINE U == {stack[k] : k \in j..n}
<1>6. ASSUME NEW k \in j..n
      PROVE  stack[k] \in DOMAIN graph /\ graph[stack[k]] \cap U # {}
  <2>1. \E e \in U : e \in DependsOn(stack[k])
    <3>1. CASE k = n
      <4>1. d \in U
        BY <1>2, <1>5
      <4> QED
        BY <1>4, <3>1, <4>1
    <3>2. CASE k # n
      <4>1. k \in 1..(n - 1) /\ k + 1 \in j..n
        BY <1>2, <3>2
      <4>2. stack[k + 1] \in DependsOn(stack[k])
        BY <1>1, <4>1 DEF Path
      <4> QED
        BY <4>1, <4>2
    <3> QED
      BY <3>1, <3>2
  <2> QED
    BY <2>1 DEF DependsOn
<1>7. U \in SUBSET DOMAIN graph /\ U # {} /\ \A u \in U : graph[u] \cap U # {}
  <2>1. d \in U
    BY <1>2, <1>5
  <2> QED
    BY <1>6, <2>1
<1> HIDE DEF U
<1>8. ~Acyclic
  BY <1>7 DEF Acyclic
<1>9. Decides'
  BY <1>3, <1>8 DEF Decides, Acyclic
<1>10. TypeOK' /\ Path' /\ ReturnedFirst'
  BY <1>1, <1>3 DEF TypeOK, Path, ReturnedFirst, Returned, DependsOn
<1> QED
  BY <1>9, <1>10 DEF SearchInv

\* A call with nothing left to visit returns: it depends on what has returned.
LEMMA ReturnKeeps ==
  ASSUME SearchInv, Return
  PROVE  SearchInv'
<1> DEFINE n == Len(stack)
<1>1. TypeOK /\ Path /\ ReturnedFirst
  BY DEF SearchInv
<1>2. /\ stack \in Seq(Id) /\ n \in Nat /\ stack # <<>> /\ rest[Top] = {}
      /\ recStack \subseteq visited /\ result = "searching"
  BY <1>1 DEF TypeOK, Return
<1>3. /\ UNCHANGED <<graph, visited, rest, result>>
      /\ recStack' = recStack \ {Top}
      /\ stack' = SubSeq(stack, 1, n - 1)
  BY DEF Return
<1>4. /\ n > 0 /\ n \in 1..n /\ Top = stack[n] /\ Top \in recStack
  BY <1>1, <1>2, TopIsOnStack DEF Path
<1>5. /\ stack' \in Seq(Id) /\ Len(stack') = n - 1
      /\ \A k \in 1..(n - 1) : stack'[k] = stack[k]
  BY <1>2, <1>3, Popped
<1>6. /\ n - 1 \in Nat
      /\ \A k \in 1..(n - 1) : k \in 1..n /\ k < n /\ k + 1 \in 1..n
                                /\ (k # n - 1 => k + 1 \in 1..(n - 1) /\ k < n - 1)
      /\ \A k \in 1..n : k = n \/ k \in 1..(n - 1)
      /\ ~(n < n) /\ ~(n - 1 < n - 1) /\ n - 1 + 1 = n
  BY <1>2, <1>4
<1>7. TypeOK'
  BY <1>1, <1>3, <1>5 DEF TypeOK
<1>8. Returned' = Returned \cup {Top} /\ Top \notin Returned
  BY <1>2, <1>3, <1>4 DEF Returned
<1>9. Path'
  <2>1. \A i, j \in 1..(n - 1) : stack'[i] = stack'[j] => i = j
    BY <1>1, <1>5, <1>6 DEF Path
  <2>2. recStack' = {stack'[i] : i \in 1..(n - 1)}
    <3>1. /\ recStack = {stack[i] : i \in 1..n}
          /\ \A i \in 1..(n - 1) : stack[i] # stack[n]
      BY <1>1, <1>2, <1>4, <1>6 DEF Path
    <3>2. recStack \ {stack[n]} = {stack[i] : i \in 1..(n - 1)}
      BY <1>6, <3>1
    <3> QED
      BY <1>3, <1>4, <1>5, <3>2
  <2>3. \A i \in 1..((n - 1) - 1) : stack'[i + 1] \in DependsOn(stack'[i])
    <3> TAKE i \in 1..((n - 1) - 1)
    <3>1. i \in 1..(n - 1) /\ i + 1 \in 1..(n - 1)
      BY <1>2
    <3>2. stack[i + 1] \in DependsOn(stack[i])
      BY <1>1, <3>1 DEF Path
    <3> QED
      BY <1>5, <3>1, <3>2
  <2> QED
    BY <1>3, <1>5, <2>1, <2>2, <2>3 DEF Path, DependsOn
<1>10. DependsOn(Top) \subseteq Returned
  BY <1>1, <1>2, <1>4, <1>6 DEF ReturnedFirst
<1>11. ReturnedFirst'
  <2>1. \A u \in Returned' : DependsOn(u) \subseteq Returned'
    BY <1>1, <1>8, <1>10 DEF ReturnedFirst
  <2>2. \A i \in 1..(n - 1) :
          /\ rest[stack'[i]] \subseteq DependsOn(stack'[i])
          /\ DependsOn(stack'[i]) \ rest[stack'[i]]
               \subseteq Returned' \cup (IF i < n - 1 THEN {stack'[i + 1]} ELSE {})
    <3> TAKE i \in 1..(n - 1)
    <3>1. /\ rest[stack[i]] \subseteq DependsOn(stack[i])
          /\ DependsOn(stack[i]) \ rest[stack[i]] \subseteq Returned \cup {stack[i + 1]}
      BY <1>1, <1>6 DEF ReturnedFirst
    <3>2. CASE i = n - 1
      <4>1. stack[i + 1] = Top /\ ~(i < n - 1)
        BY <1>4, <1>6, <3>2
      <4> QED
        BY <1>5, <1>8, <3>1, <4>1
    <3>3. CASE i # n - 1
      <4>1. stack'[i + 1] = stack[i + 1] /\ i < n - 1
        BY <1>5, <1>6, <3>3
      <4> QED
        BY <1>5, <1>8, <3>1, <4>1
    <3> QED
      BY <3>2, <3>3
  <2>3. ASSUME NEW U \in SUBSET Returned', U # {}
        PROVE  \E u \in U : DependsOn(u) \cap U = {}
    <3>1. CASE U \ {Top} = {}
      <4>1. U = {Top}
        BY <2>3, <3>1
      <4> QED
        BY <1>8, <1>10, <4>1
    <3>2. CASE U \ {Top} # {}
      <4>1. U \ {Top} \in SUBSET Returned
        BY <1>8
      <4>2. PICK u \in U \ {Top} : DependsOn(u) \cap (U \ {Top}) = {}
        BY <1>1, <3>2, <4>1 DEF ReturnedFirst
      <4>3. DependsOn(u) \subseteq Returned
        BY <1>1, <4>1 DEF ReturnedFirst
      <4> QED
        BY <1>8, <4>2, <4>3
    <3> QED
      BY <3>1, <3>2
  <2>4. \A U \in SUBSET Returned' : U # {} => \E u \in U : DependsOn(u)' \cap U = {}
    BY <1>3, <2>3 DEF DependsOn
  <2>5. \A u \in Returned' : DependsOn(u)' \subseteq Returned'
    BY <1>3, <2>1 DEF DependsOn
  <2>6. \A i \in 1..Len(stack)' :
          /\ rest[stack[i]]' \subseteq DependsOn(stack[i])'
          /\ DependsOn(stack[i])' \ rest[stack[i]]'
               \subseteq Returned' \cup (IF i < Len(stack)' THEN {stack[i + 1]'} ELSE {})
    BY <1>3, <1>5, <2>2 DEF DependsOn
  <2> QED
    BY <2>4, <2>5, <2>6 DEF ReturnedFirst
<1>12. Decides'
  BY <1>2, <1>3 DEF Decides
<1> QED
  BY <1>7, <1>9, <1>11, <1>12 DEF SearchInv

\* With no call left, every task has returned.
LEMMA NoCycleKeeps ==
  ASSUME SearchInv, NoCycle
  PROVE  SearchInv'
<1>1. TypeOK /\ Path /\ ReturnedFirst
  BY DEF SearchInv
<1>2. /\ UNCHANGED <<graph, visited, recStack, stack, rest>>
      /\ result' = "none" /\ stack = <<>> /\ DOMAIN graph \subseteq visited
  BY DEF NoCycle
<1>3. recStack = {}
  BY <1>1, <1>2 DEF Path
<1>4. DOMAIN graph \subseteq Returned
  BY <1>2, <1>3 DEF Returned
<1>5. Acyclic
  <2> SUFFICES ASSUME NEW U \in SUBSET DOMAIN graph, U # {}
               PROVE  \E u \in U : graph[u] \cap U = {}
    BY DEF Acyclic
  <2>1. PICK u \in U : DependsOn(u) \cap U = {}
    BY <1>1, <1>4 DEF ReturnedFirst
  <2> QED
    BY <2>1 DEF DependsOn
<1>6. Decides'
  BY <1>2, <1>5 DEF Decides, Acyclic
<1>7. TypeOK' /\ Path' /\ ReturnedFirst'
  BY <1>1, <1>2 DEF TypeOK, Path, ReturnedFirst, Returned, DependsOn
<1> QED
  BY <1>6, <1>7 DEF SearchInv

LEMMA SearchInvNext == SearchInv /\ [Next]_vars => SearchInv'
<1> SUFFICES ASSUME SearchInv, [Next]_vars PROVE SearchInv'
  OBVIOUS
<1>1. rest \in [Id -> SUBSET Id] /\ stack \in Seq(Id)
  BY DEF SearchInv, TypeOK
<1>2. ASSUME NEW i \in Id, Start(i) PROVE SearchInv'
  BY <1>1, <1>2, CallKeeps DEF Start
<1>3. ASSUME NEW d \in Id, Descend(d) PROVE SearchInv'
  <2>1. Looked(d) \in [Id -> SUBSET Id] /\ Top \in Id
    BY <1>1, <1>3, TopIsOnStack DEF Descend, Searching, Looked
  <2> QED
    BY <1>3, <2>1, CallKeeps DEF Descend, Searching, Looked
<1>4. ASSUME NEW d \in Id, FindCycle(d) PROVE SearchInv'
  BY <1>4, FindCycleKeeps
<1>5. ASSUME NEW d \in Id, Skip(d) PROVE SearchInv'
  BY <1>5, SkipKeeps
<1>6. CASE Return
  BY <1>6, ReturnKeeps
<1>7. CASE NoCycle
  BY <1>7, NoCycleKeeps
<1>8. CASE UNCHANGED vars
  BY <1>8 DEF vars, SearchInv, TypeOK, Path, ReturnedFirst, Returned, DependsOn,
              Decides, Acyclic
<1> QED
  BY <1>2, <1>3, <1>4, <1>5, <1>6, <1>7, <1>8 DEF Next

\* The search keeps its invariant: the calls are a path of the graph, and what
\* has returned has no cycle.
THEOREM SearchIsSound == Spec => []SearchInv
BY SearchInvInit, SearchInvNext, PTL DEF Spec

\* hasCycle answers true exactly for the workflows that could never finish,
\* for any number of tasks and in any order of the map.
THEOREM CycleIsDecided == Spec => []Decides
<1>1. SearchInv => Decides
  BY DEF SearchInv
<1> QED
  BY <1>1, SearchIsSound, PTL

-----------------------------------------------------------------------------
(* The order of the cache.                                                 *)

USE MarketAssumption

LEMMA SmallestBelow ==
  ASSUME NEW R, IsWellFoundedOn(R, Nat), \A x, y \in Nat : <<y, x>> \in R <=> y < x,
         NEW T \in SUBSET Nat, T # {}
  PROVE  \E x \in T : \A y \in T : x <= y
<1>1. \E x \in T : \A y \in T : ~(<<y, x>> \in R)
  BY WFMin
<1>2. \A x, y \in T : ~(<<y, x>> \in R) => x <= y
  OBVIOUS
<1> QED
  BY <1>1, <1>2

LEMMA Smallest ==
  ASSUME NEW T \in SUBSET Nat, T # {}
  PROVE  \E x \in T : \A y \in T : x <= y
<1> DEFINE R == OpToRel(<, Nat)
<1>1. IsWellFoundedOn(R, Nat)
  BY NatLessThanWellFounded
<1>2. \A x, y \in Nat : <<y, x>> \in R <=> y < x
  BY DEF OpToRel
<1> HIDE DEF R
<1> QED
  BY <1>1, <1>2, SmallestBelow

\* The members of s up to each place that are in S.
IsKept(f, s, S, n) ==
  f = [k \in 0 .. n |-> IF k = 0 THEN <<>>
                        ELSE IF s[k] \in S THEN Append(f[k - 1], s[k]) ELSE f[k - 1]]

LEMMA KeptSteps ==
  ASSUME NEW f, NEW s, NEW S, NEW n \in Nat, IsKept(f, s, S, n)
  PROVE  /\ f[0] = <<>>
         /\ \A k \in 1 .. n : f[k] = IF s[k] \in S THEN Append(f[k - 1], s[k]) ELSE f[k - 1]
<1>1. \A k \in 0 .. n : f[k] = IF k = 0 THEN <<>>
                               ELSE IF s[k] \in S THEN Append(f[k - 1], s[k]) ELSE f[k - 1]
  BY DEF IsKept
<1>2. 0 \in 0 .. n /\ \A k \in 1 .. n : k \in 0 .. n /\ k # 0
  OBVIOUS
<1> QED
  BY <1>1, <1>2

LEMMA KeptExists ==
  ASSUME NEW s, NEW S, NEW n \in Nat
  PROVE  \E f : IsKept(f, s, S, n)
<1> DEFINE Body(f, m) == [k \in 0 .. m |-> IF k = 0 THEN <<>>
                            ELSE IF s[k] \in S THEN Append(f[k - 1], s[k]) ELSE f[k - 1]]
           bad == {m \in Nat : ~ \E f : f = Body(f, m)}
<1> SUFFICES ASSUME n \in bad PROVE FALSE
  BY DEF IsKept
<1>1. bad \in SUBSET Nat /\ bad # {}
  OBVIOUS
<1>2. PICK m \in bad : \A y \in bad : m <= y
  BY <1>1, Smallest
<1>3. CASE m = 0
  <2> DEFINE f == [k \in 0 .. 0 |-> <<>>]
  <2>1. f = Body(f, 0)
    <3>1. \A k \in 0 .. 0 : k = 0
      OBVIOUS
    <3> QED
      BY <3>1
  <2> HIDE DEF f, Body
  <2> QED
    BY <1>2, <1>3, <2>1
<1>4. CASE m # 0
  <2>1. m - 1 \in Nat /\ m \in Nat /\ ~(m <= m - 1)
    BY <1>2, <1>4
  <2>2. m - 1 \notin bad
    BY <1>2, <2>1
  <2>3. PICK f : f = Body(f, m - 1)
    <3> HIDE DEF Body
    <3> QED
      BY <2>1, <2>2
  <2> DEFINE last == IF s[m] \in S THEN Append(f[m - 1], s[m]) ELSE f[m - 1]
             g == [k \in 0 .. m |-> IF k = m THEN last ELSE f[k]]
  <2>4. \A k \in 0 .. m - 1 : f[k] = IF k = 0 THEN <<>>
                            ELSE IF s[k] \in S THEN Append(f[k - 1], s[k]) ELSE f[k - 1]
    BY <2>3
  <2>5. \A k \in 0 .. m : k = m \/ k \in 0 .. m - 1
    BY <2>1
  <2>6. \A k \in 0 .. m - 1 : k # m /\ k \in 0 .. m
    BY <2>1
  <2>7. \A k \in 0 .. m : k # 0 => k - 1 \in 0 .. m - 1
    BY <2>1
  <2>8. g[m] = last /\ \A k \in 0 .. m - 1 : g[k] = f[k]
    <3> HIDE DEF last
    <3> QED
      BY <2>1, <2>6
  <2>9. g = [k \in 0 .. m |-> g[k]]
    OBVIOUS
  <2> HIDE DEF g
  <2>10. \A k \in 0 .. m : g[k] = IF k = 0 THEN <<>>
                            ELSE IF s[k] \in S THEN Append(g[k - 1], s[k]) ELSE g[k - 1]
    <3> SUFFICES ASSUME NEW k \in 0 .. m
                 PROVE  g[k] = IF k = 0 THEN <<>>
                               ELSE IF s[k] \in S THEN Append(g[k - 1], s[k]) ELSE g[k - 1]
      OBVIOUS
    <3>1. CASE k = m
      <4>1. k # 0 /\ g[k - 1] = f[m - 1]
        BY <1>4, <2>7, <2>8, <3>1
      <4> QED
        BY <2>8, <3>1, <4>1
    <3>2. CASE k \in 0 .. m - 1
      <4>1. k # 0 => g[k - 1] = f[k - 1]
        BY <2>6, <2>7, <2>8, <3>2
      <4> QED
        BY <2>4, <2>8, <3>2, <4>1
    <3> QED
      BY <2>5, <3>1, <3>2
  <2>11. g = Body(g, m)
    BY <2>9, <2>10
  <2> HIDE DEF Body
  <2> QED
    BY <1>2, <2>11
<1> QED
  BY <1>3, <1>4

LEMMA AmongIsKept ==
  ASSUME NEW s, NEW S, Len(s) \in Nat
  PROVE  \E f : IsKept(f, s, S, Len(s)) /\ Among(s, S) = f[Len(s)]
<1> DEFINE g == CHOOSE f : IsKept(f, s, S, Len(s))
<1>1. IsKept(g, s, S, Len(s))
  BY KeptExists
<1>2. Among(s, S) = g[Len(s)]
  BY DEF Among, IsKept
<1> HIDE DEF g
<1> QED
  BY <1>1, <1>2

Agree(s, t, S, T, k) == \A i \in 1 .. k : s[i] = t[i] /\ (s[i] \in S <=> t[i] \in T)

\* What is kept up to a place depends on what is in S up to there.
LEMMA KeptAlike ==
  ASSUME NEW s, NEW t, NEW S, NEW T, NEW m \in Nat, NEW n \in Nat, NEW f, NEW g,
         IsKept(f, s, S, m), IsKept(g, t, T, n), NEW k \in Nat, k <= m, k <= n,
         Agree(s, t, S, T, k)
  PROVE  f[k] = g[k]
<1> DEFINE bad == {j \in Nat : j <= k /\ f[j] # g[j]}
<1> SUFFICES ASSUME k \in bad PROVE FALSE
  OBVIOUS
<1>1. bad \in SUBSET Nat /\ bad # {}
  OBVIOUS
<1>2. PICK j \in bad : \A y \in bad : j <= y
  BY <1>1, Smallest
<1>3. CASE j = 0
  <2>1. f[0] = g[0]
    BY KeptSteps
  <2> QED
    BY <1>2, <1>3, <2>1
<1>4. CASE j # 0
  <2>1. j \in 1 .. k /\ j \in 1 .. m /\ j \in 1 .. n /\ j - 1 \in Nat /\ j - 1 <= k /\ ~(j <= j - 1)
    BY <1>2, <1>4
  <2>2. f[j - 1] = g[j - 1]
    BY <1>2, <2>1
  <2>3. f[j] = (IF s[j] \in S THEN Append(f[j - 1], s[j]) ELSE f[j - 1])
    BY <2>1, KeptSteps
  <2>4. g[j] = (IF t[j] \in T THEN Append(g[j - 1], t[j]) ELSE g[j - 1])
    BY <2>1, KeptSteps
  <2>5. f[j] = g[j]
    BY <2>1, <2>2, <2>3, <2>4 DEF Agree
  <2> QED
    BY <1>2, <2>5
<1> QED
  BY <1>3, <1>4

LEMMA AmongSame ==
  ASSUME NEW Q, NEW s \in Seq(Q), NEW S, NEW T, \A i \in DOMAIN s : s[i] \in S <=> s[i] \in T
  PROVE  Among(s, S) = Among(s, T)
<1>1. Len(s) \in Nat /\ \A i \in 1 .. Len(s) : i \in DOMAIN s
  OBVIOUS
<1>2. PICK f : IsKept(f, s, S, Len(s)) /\ Among(s, S) = f[Len(s)]
  BY <1>1, AmongIsKept
<1>3. PICK g : IsKept(g, s, T, Len(s)) /\ Among(s, T) = g[Len(s)]
  BY <1>1, AmongIsKept
<1>4. Agree(s, s, S, T, Len(s))
  BY <1>1 DEF Agree
<1>5. Len(s) <= Len(s)
  BY <1>1
<1>6. f[Len(s)] = g[Len(s)]
  BY <1>1, <1>2, <1>3, <1>4, <1>5, KeptAlike
<1> QED
  BY <1>2, <1>3, <1>6

LEMMA AmongAppend ==
  ASSUME NEW Q, NEW s \in Seq(Q), NEW x \in Q, NEW S
  PROVE  Among(Append(s, x), S) = IF x \in S THEN Append(Among(s, S), x) ELSE Among(s, S)
<1> DEFINE n == Len(s)
           t == Append(s, x)
<1>1. n \in Nat /\ n + 1 \in Nat /\ Len(t) = n + 1 /\ t[n + 1] = x /\ n <= n /\ n <= n + 1
      /\ \A i \in 1 .. n : t[i] = s[i]
  OBVIOUS
<1> HIDE DEF n, t
<1>2. PICK f : IsKept(f, s, S, n) /\ Among(s, S) = f[n]
  BY <1>1, AmongIsKept DEF n
<1>3. PICK g : IsKept(g, t, S, n + 1) /\ Among(t, S) = g[n + 1]
  BY <1>1, AmongIsKept
<1>4. Agree(s, t, S, S, n)
  BY <1>1 DEF Agree
<1>5. f[n] = g[n]
  <2>1. n \in Nat /\ n + 1 \in Nat /\ n <= n /\ n <= n + 1
    BY <1>1
  <2>2. IsKept(f, s, S, n) /\ IsKept(g, t, S, n + 1)
    BY <1>2, <1>3
  <2> QED
    BY <2>1, <2>2, <1>4, KeptAlike
<1>6. g[n + 1] = IF t[n + 1] \in S THEN Append(g[n + 1 - 1], t[n + 1]) ELSE g[n + 1 - 1]
  <2>1. n + 1 \in 1 .. (n + 1)
    BY <1>1
  <2> QED
    BY <1>1, <1>3, <2>1, KeptSteps
<1>7. n + 1 - 1 = n
  BY <1>1
<1> QED
  BY <1>1, <1>2, <1>3, <1>5, <1>6, <1>7 DEF t

LEMMA AmongNothing ==
  ASSUME NEW S
  PROVE  Among(<<>>, S) = <<>>
<1>1. Len(<<>>) = 0 /\ 0 \in Nat
  OBVIOUS
<1>2. PICK f : IsKept(f, <<>>, S, 0) /\ Among(<<>>, S) = f[0]
  BY <1>1, AmongIsKept
<1> QED
  BY <1>1, <1>2, KeptSteps

Different(s) == \A i, j \in DOMAIN s : s[i] = s[j] => i = j

LEMMA AppendDiffers ==
  ASSUME NEW Q, NEW s \in Seq(Q), NEW x \in Q, Different(s), x \notin ToSet(s)
  PROVE  Different(Append(s, x))
<1>1. \A i \in DOMAIN s : s[i] # x
  BY DEF ToSet
<1>2. \A i \in DOMAIN Append(s, x) : i \in DOMAIN s \/ i = Len(s) + 1
  OBVIOUS
<1>3. Append(s, x)[Len(s) + 1] = x /\ \A i \in DOMAIN s : Append(s, x)[i] = s[i]
  OBVIOUS
<1> HIDE DEF ToSet
<1> QED
  BY <1>1, <1>2, <1>3 DEF Different

LEMMA AppendedSet ==
  ASSUME NEW Q, NEW s \in Seq(Q), NEW x \in Q
  PROVE  ToSet(Append(s, x)) = ToSet(s) \cup {x}
<1>1. DOMAIN Append(s, x) = DOMAIN s \cup {Len(s) + 1}
  OBVIOUS
<1>2. Append(s, x)[Len(s) + 1] = x /\ \A i \in DOMAIN s : Append(s, x)[i] = s[i]
  OBVIOUS
<1> QED
  BY <1>1, <1>2 DEF ToSet

\* What is among: nothing that is not in both, once if it was there once.
KeptFits(list, s, S, k, Q) ==
  /\ list \in Seq(Q)
  /\ ToSet(list) = {s[i] : i \in {j \in 1 .. k : s[j] \in S}}
  /\ Different(s) => Different(list)

LEMMA AmongFits ==
  ASSUME NEW Q, NEW s \in Seq(Q), NEW S
  PROVE  /\ Among(s, S) \in Seq(Q)
         /\ ToSet(Among(s, S)) = ToSet(s) \cap S
         /\ Different(s) => Different(Among(s, S))
<1> DEFINE n == Len(s)
<1>1. n \in Nat /\ DOMAIN s = 1 .. n /\ \A i \in 1 .. n : s[i] \in Q
  OBVIOUS
<1> HIDE DEF n
<1>2. PICK f : IsKept(f, s, S, n) /\ Among(s, S) = f[n]
  BY <1>1, AmongIsKept DEF n
<1> DEFINE bad == {j \in Nat : j <= n /\ ~KeptFits(f[j], s, S, j, Q)}
<1>3. n \notin bad
  <2> SUFFICES ASSUME n \in bad PROVE FALSE
    OBVIOUS
  <2>1. bad \in SUBSET Nat /\ bad # {}
    OBVIOUS
  <2>2. PICK j \in bad : \A y \in bad : j <= y
    BY <2>1, Smallest
  <2>3. CASE j = 0
    <3>1. f[0] = <<>>
      BY <1>1, <1>2, KeptSteps
    <3>2. <<>> \in Seq(Q) /\ DOMAIN <<>> = {} /\ 1 .. 0 = {}
      OBVIOUS
    <3>3. KeptFits(<<>>, s, S, 0, Q)
      BY <3>2 DEF KeptFits, Different, ToSet
    <3> QED
      BY <2>2, <2>3, <3>1, <3>3
  <2>4. CASE j # 0
    <3> DEFINE list == f[j - 1]
    <3>1. j \in 1 .. n /\ j - 1 \in Nat /\ j - 1 <= n /\ ~(j <= j - 1)
      BY <1>1, <2>2, <2>4
    <3>2. KeptFits(list, s, S, j - 1, Q)
      BY <2>2, <3>1
    <3>3. f[j] = IF s[j] \in S THEN Append(list, s[j]) ELSE list
      BY <1>1, <1>2, <3>1, KeptSteps
    <3> HIDE DEF list
    <3>4. 1 .. j = (1 .. (j - 1)) \cup {j} /\ j \notin 1 .. (j - 1)
      BY <3>1
    <3>5. CASE s[j] \notin S
      <4>1. {s[i] : i \in {k \in 1 .. j : s[k] \in S}} = {s[i] : i \in {k \in 1 .. (j - 1) : s[k] \in S}}
        BY <3>4, <3>5
      <4>2. KeptFits(list, s, S, j, Q)
        BY <3>2, <4>1 DEF KeptFits
      <4> QED
        BY <2>2, <3>3, <3>5, <4>2
    <3>6. CASE s[j] \in S
      <4>1. {s[i] : i \in {k \in 1 .. j : s[k] \in S}}
              = {s[i] : i \in {k \in 1 .. (j - 1) : s[k] \in S}} \cup {s[j]}
        BY <3>4, <3>6
      <4>2. s[j] \in Q /\ list \in Seq(Q)
        BY <1>1, <3>1, <3>2 DEF KeptFits
      <4>3. ToSet(Append(list, s[j])) = {s[i] : i \in {k \in 1 .. j : s[k] \in S}}
        BY <3>2, <4>1, <4>2, AppendedSet DEF KeptFits
      <4>4. ASSUME Different(s) PROVE Different(Append(list, s[j]))
        <5>1. s[j] \notin ToSet(list)
          <6>1. \A i \in 1 .. (j - 1) : i \in DOMAIN s /\ j \in DOMAIN s /\ i # j
            BY <1>1, <3>1
          <6> QED
            BY <3>2, <4>4, <6>1 DEF KeptFits, Different
        <5> QED
          BY <3>2, <4>2, <4>4, <5>1, AppendDiffers DEF KeptFits
      <4>5. Append(list, s[j]) \in Seq(Q)
        BY <4>2
      <4>6. KeptFits(Append(list, s[j]), s, S, j, Q)
        BY <4>3, <4>4, <4>5 DEF KeptFits
      <4> QED
        BY <2>2, <3>3, <3>6, <4>6
    <3> QED
      BY <3>5, <3>6
  <2> QED
    BY <2>3, <2>4
<1>4. KeptFits(f[n], s, S, n, Q)
  <2>1. n <= n
    BY <1>1
  <2> QED
    BY <1>1, <1>3, <2>1
<1>5. ToSet(s) \cap S = {s[i] : i \in {j \in 1 .. n : s[j] \in S}}
  BY <1>1 DEF ToSet
<1> QED
  BY <1>2, <1>4, <1>5 DEF KeptFits

LEMMA AmongAmong ==
  ASSUME NEW Q, NEW s \in Seq(Q), NEW S, NEW T
  PROVE  Among(Among(s, S), T) = Among(s, S \cap T)
<1> DEFINE n == Len(s)
           R == S \cap T
<1>1. n \in Nat /\ \A i \in 1 .. n : s[i] \in Q
  OBVIOUS
<1>2. PICK f : IsKept(f, s, S, n) /\ Among(s, S) = f[n]
  BY <1>1, AmongIsKept
<1>3. PICK g : IsKept(g, s, R, n) /\ Among(s, R) = g[n]
  BY <1>1, AmongIsKept
<1> HIDE DEF n
<1> DEFINE bad == {j \in Nat : j <= n /\ ~(f[j] \in Seq(Q) /\ Among(f[j], T) = g[j])}
<1>4. n \notin bad
  <2> SUFFICES ASSUME n \in bad PROVE FALSE
    OBVIOUS
  <2>1. bad \in SUBSET Nat /\ bad # {}
    OBVIOUS
  <2>2. PICK j \in bad : \A y \in bad : j <= y
    BY <2>1, Smallest
  <2>3. CASE j = 0
    <3>1. f[0] = <<>> /\ g[0] = <<>> /\ <<>> \in Seq(Q)
      BY <1>1, <1>2, <1>3, KeptSteps
    <3> QED
      BY <2>2, <2>3, <3>1, AmongNothing
  <2>4. CASE j # 0
    <3> DEFINE list == f[j - 1]
    <3>1. j \in 1 .. n /\ j - 1 \in Nat /\ j - 1 <= n /\ ~(j <= j - 1)
      BY <1>1, <2>2, <2>4
    <3>2. list \in Seq(Q) /\ Among(list, T) = g[j - 1]
      BY <2>2, <3>1
    <3>3. f[j] = IF s[j] \in S THEN Append(list, s[j]) ELSE list
      BY <1>1, <1>2, <3>1, KeptSteps
    <3>4. g[j] = IF s[j] \in R THEN Append(g[j - 1], s[j]) ELSE g[j - 1]
      <4> HIDE DEF R
      <4> QED
        BY <1>1, <1>3, <3>1, KeptSteps
    <3>5. s[j] \in Q
      BY <1>1, <3>1
    <3>6. Among(Append(list, s[j]), T) = IF s[j] \in T THEN Append(Among(list, T), s[j]) ELSE Among(list, T)
      <4> DEFINE x == s[j]
      <4>1. list \in Seq(Q) /\ x \in Q
        BY <3>2, <3>5
      <4> HIDE DEF list, x
      <4>2. Among(Append(list, x), T) = IF x \in T THEN Append(Among(list, T), x) ELSE Among(list, T)
        BY <4>1, AmongAppend
      <4> QED
        BY <4>2 DEF x
    <3>7. Append(list, s[j]) \in Seq(Q)
      BY <3>2, <3>5
    <3> HIDE DEF list
    <3>8. f[j] \in Seq(Q)
      BY <3>2, <3>3, <3>7
    <3>9. Among(f[j], T) = g[j]
      BY <3>2, <3>3, <3>4, <3>6
    <3> QED
      BY <2>2, <3>8, <3>9
  <2> QED
    BY <2>3, <2>4
<1>5. Among(f[n], T) = g[n]
  <2>1. n <= n
    BY <1>1
  <2> QED
    BY <1>1, <1>4, <2>1
<1> QED
  BY <1>2, <1>3, <1>5

LEMMA RestGrows ==
  ASSUME NEW Q, NEW s \in Seq(Q), NEW n \in 0 .. Len(s), NEW j \in 1 .. Len(s), j > n
  PROVE  SubSeq(s, n + 1, j) = Append(SubSeq(s, n + 1, j - 1), s[j])
OBVIOUS

LEMMA RestIs ==
  ASSUME NEW Q, NEW s \in Seq(Q), NEW n \in 0 .. Len(s), Different(s)
  PROVE  /\ ToSet(SubSeq(s, n + 1, Len(s))) = {s[i] : i \in n + 1 .. Len(s)}
         /\ ToSet(SubSeq(s, n + 1, Len(s))) = ToSet(s) \ ToSet(SubSeq(s, 1, n))
         /\ \A i \in 1 .. Len(s) : s[i] \in ToSet(SubSeq(s, n + 1, Len(s))) <=> i > n
<1> DEFINE r == SubSeq(s, n + 1, Len(s))
           h == SubSeq(s, 1, n)
<1>1. /\ DOMAIN s = 1 .. Len(s) /\ Len(s) \in Nat /\ n \in Nat
      /\ DOMAIN r = 1 .. Len(s) - n /\ \A i \in 1 .. Len(s) - n : r[i] = s[n + i]
      /\ DOMAIN h = 1 .. n /\ \A i \in 1 .. n : h[i] = s[i]
  OBVIOUS
<1> HIDE DEF r, h
<1>2. \A i \in n + 1 .. Len(s) : i - n \in 1 .. Len(s) - n /\ n + (i - n) = i
  BY <1>1
<1>3. \A i \in 1 .. Len(s) - n : n + i \in n + 1 .. Len(s)
  BY <1>1
<1>4. ToSet(r) = {s[i] : i \in n + 1 .. Len(s)}
  <2>1. ToSet(r) \subseteq {s[i] : i \in n + 1 .. Len(s)}
    BY <1>1, <1>3 DEF ToSet
  <2>2. ASSUME NEW i \in n + 1 .. Len(s) PROVE s[i] \in ToSet(r)
    <3>1. r[i - n] = s[i] /\ i - n \in DOMAIN r
      BY <1>1, <1>2
    <3> QED
      BY <3>1 DEF ToSet
  <2> QED
    BY <2>1, <2>2
<1>5. \A i \in 1 .. Len(s) : s[i] \in ToSet(r) <=> i > n
  <2>1. \A i \in n + 1 .. Len(s) : i \in DOMAIN s /\ i > n
    BY <1>1
  <2>2. \A i \in 1 .. Len(s) : i > n => i \in n + 1 .. Len(s)
    BY <1>1
  <2> QED
    BY <1>1, <1>4, <2>1, <2>2 DEF Different
<1>6. \A i \in 1 .. Len(s) : s[i] \in ToSet(h) <=> i <= n
  <2>1. ToSet(h) = {s[i] : i \in 1 .. n}
    BY <1>1 DEF ToSet
  <2>2. \A i \in 1 .. n : i \in DOMAIN s /\ i <= n
    BY <1>1
  <2>3. \A i \in 1 .. Len(s) : i <= n => i \in 1 .. n
    BY <1>1
  <2> QED
    BY <1>1, <2>1, <2>2, <2>3 DEF Different
<1>7. ToSet(r) = ToSet(s) \ ToSet(h)
  <2>1. ToSet(s) = {s[i] : i \in 1 .. Len(s)}
    BY <1>1 DEF ToSet
  <2>2. \A i \in 1 .. Len(s) : (i > n) <=> ~(i <= n)
    BY <1>1
  <2>3. \A i \in n + 1 .. Len(s) : i \in 1 .. Len(s)
    BY <1>1
  <2> HIDE DEF ToSet
  <2> QED
    BY <1>4, <1>5, <1>6, <2>1, <2>2, <2>3
<1> QED
  BY <1>4, <1>5, <1>7 DEF r, h

LEMMA AmongRest ==
  ASSUME NEW Q, NEW s \in Seq(Q), NEW n \in 0 .. Len(s), Different(s)
  PROVE  Among(s, ToSet(SubSeq(s, n + 1, Len(s)))) = SubSeq(s, n + 1, Len(s))
<1> DEFINE R == ToSet(SubSeq(s, n + 1, Len(s)))
           N == Len(s)
<1>1. N \in Nat /\ n \in Nat /\ n <= N
  OBVIOUS
<1>2. \A i \in 1 .. N : s[i] \in R <=> i > n
  BY RestIs
<1> HIDE DEF R
<1>3. PICK f : IsKept(f, s, R, N) /\ Among(s, R) = f[N]
  BY <1>1, AmongIsKept
<1> DEFINE bad == {j \in Nat : j <= N /\ f[j] # SubSeq(s, n + 1, j)}
<1>4. N \notin bad
  <2> SUFFICES ASSUME N \in bad PROVE FALSE
    OBVIOUS
  <2> HIDE DEF N
  <2>1. bad \in SUBSET Nat /\ bad # {}
    OBVIOUS
  <2>2. PICK j \in bad : \A y \in bad : j <= y
    BY <2>1, Smallest
  <2>3. ASSUME NEW k \in Nat, k <= n PROVE SubSeq(s, n + 1, k) = <<>>
    BY <1>1, <2>3
  <2>4. CASE j = 0
    <3>1. f[0] = <<>>
      BY <1>1, <1>3, KeptSteps
    <3>2. SubSeq(s, n + 1, 0) = <<>>
      BY <1>1, <2>3
    <3> QED
      BY <2>2, <2>4, <3>1, <3>2
  <2>5. CASE j # 0
    <3>1. j \in 1 .. N /\ j - 1 \in Nat /\ j - 1 <= N /\ ~(j <= j - 1) /\ j \in Nat
      BY <1>1, <2>2, <2>5
    <3>2. f[j - 1] = SubSeq(s, n + 1, j - 1)
      BY <2>2, <3>1
    <3>3. f[j] = IF s[j] \in R THEN Append(f[j - 1], s[j]) ELSE f[j - 1]
      BY <1>1, <1>3, <3>1, KeptSteps
    <3>4. CASE j <= n
      <4>1. j - 1 <= n /\ s[j] \notin R
        BY <1>1, <1>2, <3>1, <3>4
      <4>2. SubSeq(s, n + 1, j) = <<>> /\ SubSeq(s, n + 1, j - 1) = <<>>
        BY <2>3, <3>1, <3>4, <4>1
      <4> QED
        BY <2>2, <3>2, <3>3, <4>1, <4>2
    <3>5. CASE j > n
      <4>1. s[j] \in R
        BY <1>2, <3>1, <3>5
      <4>2. SubSeq(s, n + 1, j) = Append(SubSeq(s, n + 1, j - 1), s[j])
        BY <3>1, <3>5, RestGrows DEF N
      <4> QED
        BY <2>2, <3>2, <3>3, <4>1, <4>2
    <3> QED
      BY <1>1, <3>1, <3>4, <3>5
  <2> QED
    BY <2>4, <2>5
<1>5. f[N] = SubSeq(s, n + 1, N)
  <2> HIDE DEF N
  <2>1. N <= N
    BY <1>1
  <2> QED
    BY <1>1, <1>4, <2>1
<1> QED
  BY <1>3, <1>5 DEF R

\* As many as there are keys.
LEMMA DifferentLen ==
  ASSUME NEW Q, NEW s \in Seq(Q), Different(s)
  PROVE  IsFiniteSet(ToSet(s)) /\ Cardinality(ToSet(s)) = Len(s)
<1> DEFINE D == 1 .. Len(s)
<1>1. Len(s) \in Nat /\ DOMAIN s = D /\ ToSet(s) = {s[i] : i \in D}
  BY DEF ToSet
<1>2. IsFiniteSet(D) /\ Cardinality(D) = Len(s)
  <2>1. 1 \in Int /\ Len(s) \in Int /\ (1 <= Len(s) => Len(s) - 1 + 1 = Len(s)) /\ (~(1 <= Len(s)) => Len(s) = 0)
    BY <1>1
  <2>2. IsFiniteSet(D) /\ Cardinality(D) = IF 1 > Len(s) THEN 0 ELSE Len(s) - 1 + 1
    BY <2>1, FS_Interval
  <2> QED
    BY <1>1, <2>1, <2>2
<1> HIDE DEF D
<1>3. s \in Bijection(D, ToSet(s))
  <2>1. s \in [D -> ToSet(s)] /\ \A x \in ToSet(s) : \E i \in D : s[i] = x
    BY <1>1
  <2>2. \A i, j \in D : s[i] = s[j] => i = j
    BY <1>1 DEF Different
  <2> HIDE DEF ToSet
  <2> QED
    BY <2>1, <2>2 DEF Bijection, Injection, Surjection, IsInjective
<1> QED
  BY <1>2, <1>3, FS_Bijection DEF ExistsBijection

\* What was moved to the end of the list is last of those that are among.
LEMMA Moved ==
  ASSUME NEW Q, NEW list \in Seq(Q), NEW q \in Q, Different(list)
  PROVE  /\ moveToEnd(list, q) \in Seq(Q)
         /\ Different(moveToEnd(list, q))
         /\ ToSet(moveToEnd(list, q)) = ToSet(list) \cup {q}
<1> DEFINE others == ToSet(list) \ {q}
           remaining == Among(list, others)
<1>1. remaining \in Seq(Q) /\ ToSet(remaining) = ToSet(list) \cap others /\ Different(remaining)
  <2> HIDE DEF others
  <2> QED
    BY AmongFits
<1>2. q \notin ToSet(remaining)
  BY <1>1
<1>3. moveToEnd(list, q) = Append(remaining, q)
  BY DEF moveToEnd
<1> HIDE DEF remaining
<1>4. Append(remaining, q) \in Seq(Q)
  BY <1>1
<1>5. Different(Append(remaining, q))
  BY <1>1, <1>2, AppendDiffers
<1>6. ToSet(Append(remaining, q)) = ToSet(remaining) \cup {q}
  BY <1>1, AppendedSet
<1> QED
  BY <1>1, <1>3, <1>4, <1>5, <1>6

LEMMA MovedTogether ==
  ASSUME NEW Q, NEW list \in Seq(Q), NEW q \in Q, NEW S
  PROVE  moveToEnd(Among(list, S), q) = Among(moveToEnd(list, q), S \cup {q})
<1> DEFINE others == ToSet(list) \ {q}
           some == Among(list, S)
           left == ToSet(some) \ {q}
           all == S \cup {q}
<1>1. some \in Seq(Q) /\ ToSet(some) = ToSet(list) \cap S
  BY AmongFits
<1>2. \A i \in DOMAIN list : list[i] \in ToSet(list)
  BY DEF ToSet
<1>3. Among(some, left) = Among(list, S \cap left)
  <2> HIDE DEF left
  <2> QED
    BY AmongAmong
<1>4. Among(list, S \cap left) = Among(list, S \ {q})
  <2>1. \A i \in DOMAIN list : list[i] \in S \cap left <=> list[i] \in S \ {q}
    <3> HIDE DEF some
    <3> QED
      BY <1>1, <1>2
  <2> HIDE DEF left
  <2> QED
    BY <2>1, AmongSame
<1>5. moveToEnd(some, q) = Append(Among(some, left), q)
  BY DEF moveToEnd
<1> DEFINE remaining == Among(list, others)
<1>6. remaining \in Seq(Q)
  <2> HIDE DEF others
  <2> QED
    BY AmongFits
<1>7. moveToEnd(list, q) = Append(remaining, q)
  BY DEF moveToEnd
<1>8. Among(Append(remaining, q), all) = Append(Among(remaining, all), q)
  <2>1. q \in all
    OBVIOUS
  <2> HIDE DEF remaining, all
  <2>2. Among(Append(remaining, q), all) = IF q \in all THEN Append(Among(remaining, all), q) ELSE Among(remaining, all)
    BY <1>6, AmongAppend
  <2> QED
    BY <2>1, <2>2
<1>9. Among(remaining, all) = Among(list, others \cap all)
  <2> HIDE DEF others, all
  <2> QED
    BY AmongAmong
<1>10. Among(list, others \cap all) = Among(list, S \ {q})
  <2>1. \A i \in DOMAIN list : list[i] \in others \cap all <=> list[i] \in S \ {q}
    BY <1>2
  <2> HIDE DEF others, all
  <2> QED
    BY <2>1, AmongSame
<1> HIDE DEF some, left, remaining, all
<1> QED
  BY <1>3, <1>4, <1>5, <1>7, <1>8, <1>9, <1>10 DEF some, all

\* Evicting keeps the last keys of the list.
LEMMA EvictedFits ==
  ASSUME NEW Q, NEW list \in Seq(Q), Different(list)
  PROVE  \E K : /\ K \subseteq ToSet(list)
                /\ Evicted(list, ToSet(list)) = [order |-> Among(list, K), keys |-> K]
                /\ Cardinality(K) < MaxEntries
<1> DEFINE left(n) == ToSet(list) \ ToSet(SubSeq(list, 1, n))
           fit == {m \in 0 .. Len(list) : Cardinality(left(m)) < MaxEntries \/ m = Len(list)}
           n == Min(fit)
<1>1. \A m \in 0 .. Len(list) :
        /\ left(m) = ToSet(SubSeq(list, m + 1, Len(list)))
        /\ Among(list, left(m)) = SubSeq(list, m + 1, Len(list))
  <2> SUFFICES ASSUME NEW m \in 0 .. Len(list)
               PROVE  /\ left(m) = ToSet(SubSeq(list, m + 1, Len(list)))
                      /\ Among(list, left(m)) = SubSeq(list, m + 1, Len(list))
    OBVIOUS
  <2>1. left(m) = ToSet(SubSeq(list, m + 1, Len(list)))
    BY RestIs
  <2>2. Among(list, ToSet(SubSeq(list, m + 1, Len(list)))) = SubSeq(list, m + 1, Len(list))
    BY AmongRest
  <2> QED
    BY <2>1, <2>2
<1>2. Len(list) \in Nat /\ Len(list) \in 0 .. Len(list)
  OBVIOUS
<1>3. left(Len(list)) = {}
  <2>1. SubSeq(list, Len(list) + 1, Len(list)) = <<>> /\ DOMAIN <<>> = {}
    BY <1>2
  <2>2. ToSet(SubSeq(list, Len(list) + 1, Len(list))) = {}
    BY <2>1 DEF ToSet
  <2> QED
    BY <1>1, <1>2, <2>2
<1>4. Evicted(list, ToSet(list)) = [order |-> SubSeq(list, n + 1, Len(list)), keys |-> left(n)]
  BY DEF Evicted
<1>5. \A m \in 0 .. Len(list) : left(m) \subseteq ToSet(list)
  OBVIOUS
<1> HIDE DEF left
<1>6. n \in fit
  <2>1. fit \in SUBSET Nat /\ fit # {}
    BY <1>2
  <2>2. \E x \in fit : \A y \in fit : x <= y
    BY <2>1, Smallest
  <2> HIDE DEF fit
  <2> QED
    BY <2>2 DEF Min
<1> HIDE DEF n
<1>7. n \in 0 .. Len(list) /\ (Cardinality(left(n)) < MaxEntries \/ n = Len(list))
  BY <1>6
<1> HIDE DEF fit
<1>8. Cardinality(left(n)) < MaxEntries
  <2>1. CASE n = Len(list)
    <3>1. Cardinality(left(n)) = 0
      BY <1>3, <2>1, FS_EmptySet
    <3> QED
      BY <3>1, MarketAssumption
  <2> QED
    BY <1>7, <2>1
<1>9. Evicted(list, ToSet(list)) = [order |-> Among(list, left(n)), keys |-> left(n)]
  BY <1>1, <1>4, <1>7
<1>10. left(n) \subseteq ToSet(list)
  BY <1>5, <1>7
<1> QED
  BY <1>8, <1>9, <1>10

SearchFits ==
  /\ search = [s \in Searcher |-> search[s]]
  /\ \A s \in Searcher : search[s].at = "asking" => search[s].query \in Query

\* The cached queries are among the used ones, in their order.
OrderFits ==
  /\ lastUsed \in Seq(Query) /\ Different(lastUsed)
  /\ DOMAIN cached \subseteq ToSet(lastUsed)
  /\ order = Among(lastUsed, DOMAIN cached)
  /\ Cardinality(DOMAIN cached) <= MaxEntries

MarketInductive == SearchFits /\ OrderFits

LEMMA MarketStarts == MarketplaceInit => MarketInductive
<1> SUFFICES ASSUME MarketplaceInit PROVE MarketInductive
  OBVIOUS
<1>1. SearchFits
  BY DEF MarketplaceInit, SearchFits, NotSearching
<1>2. DOMAIN cached = {} /\ order = <<>> /\ lastUsed = <<>>
  BY DEF MarketplaceInit
<1>3. lastUsed \in Seq(Query) /\ DOMAIN lastUsed = {}
  BY <1>2
<1>4. Cardinality(DOMAIN cached) <= MaxEntries
  BY <1>2, FS_EmptySet, MarketAssumption
<1>5. order = Among(lastUsed, DOMAIN cached)
  BY <1>2, AmongNothing
<1> QED
  BY <1>1, <1>2, <1>3, <1>4, <1>5 DEF MarketInductive, OrderFits, Different

\* The search that ends was for its query; what a search becomes.
LEMMA SearchSteps ==
  ASSUME SearchFits, NEW s \in Searcher, NEW state, Become(s, state),
         state.at = "asking" => state.query \in Query
  PROVE  SearchFits'
BY DEF SearchFits, Become

\* An entry is used: it is the last in the order and was used last.
LEMMA UseKeepsOrder ==
  ASSUME OrderFits, NEW k \in DOMAIN cached, Used(k), lastUsed' = moveToEnd(lastUsed, k), UNCHANGED cached
  PROVE  OrderFits'
<1>1. k \in Query /\ k \in ToSet(lastUsed)
  BY DEF OrderFits, ToSet
<1>2. /\ lastUsed' \in Seq(Query) /\ Different(lastUsed') /\ ToSet(lastUsed') = ToSet(lastUsed) \cup {k}
  BY <1>1, Moved DEF OrderFits
<1>3. order' = Among(lastUsed', DOMAIN cached \cup {k})
  BY <1>1, MovedTogether DEF OrderFits, Used
<1>4. DOMAIN cached \cup {k} = DOMAIN cached
  OBVIOUS
<1> QED
  BY <1>2, <1>3, <1>4 DEF OrderFits, Different

\* What Put leaves of the entries, before the new one.
LEMMA RoomFits ==
  ASSUME OrderFits, NEW q \in Query, NEW results, Put(q, results)
  PROVE  \E K : /\ K \subseteq DOMAIN cached
                /\ order' = moveToEnd(Among(lastUsed, K), q)
                /\ DOMAIN cached' = K \cup {q}
                /\ Cardinality(K \cup {q}) <= MaxEntries
<1> DEFINE live == {k \in DOMAIN cached : FreshEntry(k)}
           kept == Among(order, live)
           room == IF q \in live THEN [order |-> kept, keys |-> live] ELSE Evicted(kept, live)
           After(r) == [k \in r \cup {q} |->
                          IF k = q THEN [results |-> results, age |-> 0] ELSE cached[k]]
<1>1. cached' = After(room.keys) /\ order' = moveToEnd(room.order, q)
  BY DEF Put, evictExpired
<1>2. ASSUME NEW K PROVE DOMAIN After(K) = K \cup {q}
  OBVIOUS
<1>3. live \subseteq DOMAIN cached
  OBVIOUS
<1> HIDE DEF live, After
<1>4. kept = Among(lastUsed, live)
  <2>1. kept = Among(lastUsed, DOMAIN cached \cap live)
    BY AmongAmong DEF OrderFits
  <2>2. DOMAIN cached \cap live = live
    BY <1>3
  <2> QED
    BY <2>1, <2>2
<1>5. kept \in Seq(Query) /\ Different(kept) /\ ToSet(kept) = live
  <2>1. /\ Among(lastUsed, live) \in Seq(Query) /\ Different(Among(lastUsed, live))
        /\ ToSet(Among(lastUsed, live)) = ToSet(lastUsed) \cap live
    BY AmongFits DEF OrderFits
  <2>2. ToSet(lastUsed) \cap live = live
    BY <1>3 DEF OrderFits
  <2> QED
    BY <1>4, <2>1, <2>2
<1> HIDE DEF kept
<1>6. IsFiniteSet(DOMAIN cached)
  <2>1. IsFiniteSet(ToSet(lastUsed))
    BY DifferentLen DEF OrderFits
  <2> QED
    BY <2>1, FS_Subset DEF OrderFits
<1>7. CASE q \in live
  <2>1. room.order = Among(lastUsed, live) /\ room.keys = live
    BY <1>4, <1>7
  <2>2. live \cup {q} = live
    BY <1>7
  <2>3. Cardinality(live) <= MaxEntries
    <3>1. Cardinality(live) <= Cardinality(DOMAIN cached) /\ IsFiniteSet(live)
      BY <1>3, <1>6, FS_Subset
    <3>2. Cardinality(live) \in Nat /\ Cardinality(DOMAIN cached) \in Nat
      BY <1>6, <3>1, FS_CardinalityType
    <3> QED
      BY <3>1, <3>2, MarketAssumption DEF OrderFits
  <2> HIDE DEF room
  <2> QED
    BY <1>1, <1>2, <1>3, <2>1, <2>2, <2>3
<1>8. CASE q \notin live
  <2>1. PICK K : /\ K \subseteq live
                 /\ Evicted(kept, live) = [order |-> Among(kept, K), keys |-> K]
                 /\ Cardinality(K) < MaxEntries
    BY <1>5, EvictedFits
  <2>2. room.order = Among(kept, K) /\ room.keys = K
    BY <1>8, <2>1
  <2>3. Among(kept, K) = Among(lastUsed, K)
    <3>1. Among(kept, K) = Among(lastUsed, live \cap K)
      BY <1>4, AmongAmong DEF OrderFits
    <3>2. live \cap K = K
      BY <2>1
    <3> QED
      BY <3>1, <3>2
  <2>4. Cardinality(K \cup {q}) <= MaxEntries
    <3>1. IsFiniteSet(K)
      BY <1>3, <1>6, <2>1, FS_Subset
    <3>2. Cardinality(K) \in Nat
      BY <3>1, FS_CardinalityType
    <3>3. Cardinality(K \cup {q}) = IF q \in K THEN Cardinality(K) ELSE Cardinality(K) + 1
      BY <3>1, FS_AddElement
    <3> QED
      BY <2>1, <3>2, <3>3, MarketAssumption
  <2> HIDE DEF room
  <2> QED
    BY <1>1, <1>2, <1>3, <2>1, <2>2, <2>3, <2>4
<1> QED
  BY <1>7, <1>8

LEMMA PutKeepsOrder ==
  ASSUME OrderFits, NEW q \in Query, NEW results, Put(q, results)
  PROVE  OrderFits'
<1>1. PICK K : /\ K \subseteq DOMAIN cached
               /\ order' = moveToEnd(Among(lastUsed, K), q)
               /\ DOMAIN cached' = K \cup {q}
               /\ Cardinality(K \cup {q}) <= MaxEntries
  BY RoomFits
<1>2. lastUsed' = moveToEnd(lastUsed, q)
  BY DEF Put
<1>3. /\ lastUsed' \in Seq(Query) /\ Different(lastUsed') /\ ToSet(lastUsed') = ToSet(lastUsed) \cup {q}
  BY <1>2, Moved DEF OrderFits
<1>4. order' = Among(lastUsed', K \cup {q})
  BY <1>1, <1>2, MovedTogether DEF OrderFits
<1> QED
  BY <1>1, <1>3, <1>4 DEF OrderFits, Different

LEMMA MarketGoesOn ==
  ASSUME MarketInductive, [MarketplaceNext]_marketVars
  PROVE  MarketInductive'
<1>1. SearchFits /\ OrderFits
  BY DEF MarketInductive
<1>2. ASSUME UNCHANGED <<cached, order, lastUsed>> PROVE OrderFits'
  BY <1>1, <1>2 DEF OrderFits, Different
<1>3. ASSUME NEW s \in Searcher, NEW q \in Query, FindLocally(s, q) PROVE MarketInductive'
  <2>1. UNCHANGED <<cached, order, lastUsed, search>>
    BY <1>3 DEF FindLocally
  <2> QED
    BY <1>1, <1>2, <2>1 DEF MarketInductive, SearchFits
<1>4. ASSUME NEW s \in Searcher, NEW q \in Query, SearchHits(s, q) PROVE MarketInductive'
  <2>1. PICK k \in Hits(q) : /\ Used(k)
                             /\ lastUsed' = moveToEnd(lastUsed, k)
                             /\ Become(s, [at |-> "install", query |-> q, results |-> cached[k].results])
    BY <1>4 DEF SearchHits
  <2>2. k \in DOMAIN cached /\ UNCHANGED cached
    BY <1>4 DEF Hits, SearchHits
  <2>3. OrderFits'
    BY <1>1, <2>1, <2>2, UseKeepsOrder
  <2>4. SearchFits'
    BY <1>1, <2>1 DEF SearchFits, Become
  <2> QED
    BY <2>3, <2>4 DEF MarketInductive
<1>5. ASSUME NEW s \in Searcher, NEW q \in Query, SearchMisses(s, q) PROVE MarketInductive'
  <2>1. SearchFits'
    BY <1>1, <1>5 DEF SearchFits, Become, SearchMisses
  <2>2. UNCHANGED <<cached, order, lastUsed>>
    BY <1>5 DEF SearchMisses
  <2> QED
    BY <1>2, <2>1, <2>2 DEF MarketInductive
<1>6. ASSUME NEW s \in Searcher, NEW shop \in Shop, ShopAnswers(s, shop) PROVE MarketInductive'
  <2>1. PICK found : Become(s, [search[s] EXCEPT !.asked = @ \ {shop}, !.results = @ \cup found])
    BY <1>6 DEF ShopAnswers
  <2> DEFINE state == [search[s] EXCEPT !.asked = @ \ {shop}, !.results = @ \cup found]
  <2>2. state.at = search[s].at /\ state.query = search[s].query
    OBVIOUS
  <2>3. search[s].query \in Query
    BY <1>1, <1>6 DEF ShopAnswers, SearchFits
  <2> HIDE DEF state
  <2>4. SearchFits'
    BY <1>1, <2>1, <2>2, <2>3, SearchSteps DEF state
  <2>5. UNCHANGED <<cached, order, lastUsed>>
    BY <1>6 DEF ShopAnswers
  <2> QED
    BY <1>2, <2>4, <2>5 DEF MarketInductive
<1>7. ASSUME NEW s \in Searcher, SearchEnds(s) PROVE MarketInductive'
  <2>1. search[s].query \in Query
    BY <1>1, <1>7 DEF SearchEnds, SearchFits
  <2>2. CASE search[s].results = {}
    <3>1. Become(s, NotSearching) /\ UNCHANGED <<cached, order, lastUsed>>
      BY <1>7, <2>2 DEF SearchEnds
    <3>2. SearchFits'
      BY <1>1, <3>1 DEF SearchFits, Become, NotSearching
    <3> QED
      BY <1>2, <3>1, <3>2 DEF MarketInductive
  <2>3. CASE search[s].results # {}
    <3>1. /\ Put(search[s].query, search[s].results)
          /\ Become(s, [at |-> "install", query |-> search[s].query, results |-> search[s].results])
      BY <1>7, <2>3 DEF SearchEnds
    <3>2. SearchFits'
      BY <1>1, <3>1 DEF SearchFits, Become
    <3>3. OrderFits'
      BY <1>1, <2>1, <3>1, PutKeepsOrder
    <3> QED
      BY <3>2, <3>3 DEF MarketInductive
  <2> QED
    BY <2>2, <2>3
<1>8. ASSUME NEW s \in Searcher, downloadRaw(s) \/ DownloadAndInstall(s) PROVE MarketInductive'
  <2>1. UNCHANGED <<cached, order, lastUsed>>
    BY <1>8 DEF downloadRaw, DownloadAndInstall
  <2>2. Become(s, NotSearching) \/ Become(s, [at |-> "convert", query |-> search[s].query])
    BY <1>8 DEF downloadRaw, DownloadAndInstall
  <2>3. SearchFits'
    BY <1>1, <2>2 DEF SearchFits, Become, NotSearching
  <2> QED
    BY <1>2, <2>1, <2>3 DEF MarketInductive
<1>9. ASSUME Tick PROVE MarketInductive'
  <2>1. DOMAIN cached' = DOMAIN cached /\ UNCHANGED <<order, lastUsed, search>>
    BY <1>9 DEF Tick
  <2> QED
    BY <1>1, <2>1 DEF MarketInductive, SearchFits, OrderFits, Different
<1>10. CASE UNCHANGED marketVars
  BY <1>1, <1>2, <1>10 DEF marketVars, MarketInductive, SearchFits
<1> QED
  BY <1>3, <1>4, <1>5, <1>6, <1>7, <1>8, <1>9, <1>10 DEF MarketplaceNext

\* Of the cache's entries the one that was used longest ago is the first to go,
\* whatever searches run side by side, hit, expire and refill it (cache.go).
THEOREM OldestIsEvicted == MarketplaceSpec => []OldestGoesFirst
<1>1. MarketInductive => OldestGoesFirst
  <2> SUFFICES ASSUME MarketInductive PROVE OldestGoesFirst
    OBVIOUS
  <2>1. order \in Seq(Query) /\ Different(order) /\ ToSet(order) = ToSet(lastUsed) \cap DOMAIN cached
    BY AmongFits DEF MarketInductive, OrderFits
  <2>2. ToSet(lastUsed) \cap DOMAIN cached = DOMAIN cached
    BY DEF MarketInductive, OrderFits
  <2>3. Cardinality(ToSet(order)) = Len(order)
    BY <2>1, DifferentLen
  <2> QED
    BY <2>1, <2>2, <2>3 DEF MarketInductive, OrderFits, OldestGoesFirst
<1> QED
  BY <1>1, MarketStarts, MarketGoesOn, PTL DEF MarketplaceSpec

-----------------------------------------------------------------------------
(* What a summary tells of.                                                *)

HIDE MarketAssumption
USE SummariesAssumption

Text == Seq(Nat)
Place == Nat \ {0}

LEMMA Biggest ==
  ASSUME NEW n \in Nat, NEW T \in SUBSET (0 .. n), T # {}
  PROVE  \E x \in T : \A y \in T : x >= y
<1> DEFINE mirror == {k \in Nat : n - k \in T}
<1>1. PICK y \in T : TRUE
  OBVIOUS
<1>2. n - y \in Nat /\ n - (n - y) = y
  BY <1>1
<1>3. mirror \in SUBSET Nat /\ mirror # {}
  BY <1>1, <1>2
<1>4. PICK k \in mirror : \A j \in mirror : k <= j
  BY <1>3, Smallest
<1>5. n - k \in T /\ k \in Nat
  BY <1>4
<1>6. ASSUME NEW z \in T PROVE n - k >= z
  <2>1. n - z \in Nat /\ n - (n - z) = z /\ z \in Nat
    OBVIOUS
  <2>2. n - z \in mirror
    BY <2>1
  <2> HIDE DEF mirror
  <2>3. k <= n - z
    BY <1>4, <2>2
  <2> QED
    BY <1>5, <2>1, <2>3
<1> QED
  BY <1>5, <1>6

LEMMA ToldIsAmong ==
  ASSUME NEW t \in Text
  PROVE  Told(t) = Among(t, Place)
<1> DEFINE n == Len(t)
           Body(f) == [k \in 0 .. n |-> IF k = 0 THEN <<>>
                         ELSE IF t[k] # 0 THEN Append(f[k - 1], t[k]) ELSE f[k - 1]]
           Kept(f) == [k \in 0 .. n |-> IF k = 0 THEN <<>>
                         ELSE IF t[k] \in Place THEN Append(f[k - 1], t[k]) ELSE f[k - 1]]
<1>1. n \in Nat /\ \A k \in 1 .. n : t[k] # 0 <=> t[k] \in Place
  BY DEF Text, Place
<1>2. ASSUME NEW f PROVE Body(f) = Kept(f)
  <2>1. \A k \in 0 .. n : k = 0 \/ k \in 1 .. n
    BY <1>1
  <2> HIDE DEF n
  <2> QED
    BY <1>1, <2>1
<1>3. PICK f : IsKept(f, t, Place, n) /\ Among(t, Place) = f[n]
  BY <1>1, AmongIsKept
<1>4. f = Body(f)
  BY <1>2, <1>3 DEF IsKept
<1> DEFINE g == CHOOSE h : h = Body(h)
<1>5. Told(t) = g[n]
  BY DEF Told
<1>6. g = Body(g)
  <2> HIDE DEF Body
  <2> QED
    BY <1>4
<1>7. IsKept(g, t, Place, n)
  <2>1. g = Kept(g)
    <3> HIDE DEF g, Body, Kept
    <3> QED
      BY <1>2, <1>6
  <2> HIDE DEF g
  <2> QED
    BY <2>1 DEF IsKept
<1> HIDE DEF g, n
<1>8. Agree(t, t, Place, Place, n) /\ n <= n
  BY <1>1 DEF Agree
<1>9. f[n] = g[n]
  BY <1>1, <1>3, <1>7, <1>8, KeptAlike
<1> QED
  BY <1>3, <1>5, <1>9

Appended(s, x, S) == Among(Append(s, x), S) = IF x \in S THEN Append(Among(s, S), x) ELSE Among(s, S)

LEMMA AppendedIs ==
  ASSUME NEW Q, NEW s \in Seq(Q), NEW x \in Q, NEW S
  PROVE  Appended(s, x, S)
BY AmongAppend DEF Appended

Lengthens(p, q, x) == Append(p \o q, x) = p \o Append(q, x)

LEMMA Lengthened ==
  ASSUME NEW Q, NEW p \in Seq(Q), NEW q \in Seq(Q), NEW x \in Q
  PROVE  Lengthens(p, q, x)
BY DEF Lengthens

LEMMA AmongConcat ==
  ASSUME NEW Q, NEW s \in Seq(Q), NEW t \in Seq(Q), NEW S
  PROVE  Among(s \o t, S) = Among(s, S) \o Among(t, S)
<1> DEFINE bad == {n \in Nat : \E u \in Seq(Q) : Len(u) = n /\ Among(s \o u, S) # Among(s, S) \o Among(u, S)}
<1> SUFFICES ASSUME Len(t) \in bad PROVE FALSE
  OBVIOUS
<1>1. bad \in SUBSET Nat /\ bad # {}
  OBVIOUS
<1>2. PICK n \in bad : \A y \in bad : n <= y
  BY <1>1, Smallest
<1>3. PICK u \in Seq(Q) : Len(u) = n /\ Among(s \o u, S) # Among(s, S) \o Among(u, S)
  BY <1>2
<1>4. CASE n = 0
  <2>1. u = <<>> /\ s \o u = s
    BY <1>3, <1>4
  <2>2. Among(s, S) \o <<>> = Among(s, S)
    <3>1. Among(s, S) \in Seq(Q)
      BY AmongFits
    <3> QED
      BY <3>1
  <2>3. Among(<<>>, S) = <<>>
    BY AmongNothing
  <2> QED
    BY <1>3, <2>1, <2>2, <2>3
<1>5. CASE n # 0
  <2>1. n \in Nat /\ n - 1 \in Nat /\ ~(n <= n - 1)
    BY <1>2, <1>5
  <2>2. PICK v \in Seq(Q), x \in Q : Len(v) = n - 1 /\ u = Append(v, x)
    <3>1. SubSeq(u, 1, n - 1) \in Seq(Q) /\ Len(SubSeq(u, 1, n - 1)) = n - 1 /\ u[n] \in Q
          /\ u = Append(SubSeq(u, 1, n - 1), u[n])
      BY <1>3, <2>1
    <3> QED
      BY <3>1
  <2>3. s \o u = Append(s \o v, x) /\ s \o v \in Seq(Q)
    BY <2>2
  <2>4. Among(s \o v, S) = Among(s, S) \o Among(v, S)
    BY <1>2, <2>1, <2>2
  <2>5. Among(u, S) = IF x \in S THEN Append(Among(v, S), x) ELSE Among(v, S)
    BY <2>2, AmongAppend
  <2>6. Among(Append(s \o v, x), S) = IF x \in S THEN Append(Among(s \o v, S), x) ELSE Among(s \o v, S)
    <3>1. PICK w \in Seq(Q) : w = s \o v
      BY <2>3
    <3>2. Appended(w, x, S)
      BY AppendedIs
    <3> QED
      BY <3>1, <3>2 DEF Appended
  <2>7. Among(s, S) \in Seq(Q) /\ Among(v, S) \in Seq(Q)
    BY <2>2, AmongFits
  <2>8. Append(Among(s, S) \o Among(v, S), x) = Among(s, S) \o Append(Among(v, S), x)
    <3>1. PICK p \in Seq(Q) : p = Among(s, S)
      BY <2>7
    <3>2. PICK q \in Seq(Q) : q = Among(v, S)
      BY <2>7
    <3>3. Lengthens(p, q, x)
      BY Lengthened
    <3> QED
      BY <3>1, <3>2, <3>3 DEF Lengthens
  <2> QED
    BY <1>3, <2>3, <2>4, <2>5, <2>6, <2>8
<1> QED
  BY <1>4, <1>5

LEMMA AmongNone ==
  ASSUME NEW Q, NEW s \in Seq(Q), NEW S, \A i \in DOMAIN s : s[i] \notin S
  PROVE  Among(s, S) = <<>>
<1>1. Among(s, S) \in Seq(Q) /\ ToSet(Among(s, S)) = ToSet(s) \cap S
  BY AmongFits
<1>2. ToSet(s) \cap S = {}
  BY DEF ToSet
<1>3. \A i \in DOMAIN Among(s, S) : Among(s, S)[i] \in ToSet(Among(s, S))
  BY DEF ToSet
<1>4. DOMAIN Among(s, S) = {}
  BY <1>1, <1>2, <1>3
<1> DEFINE a == Among(s, S)
<1> HIDE DEF a
<1>5. a \in Seq(Q) /\ DOMAIN a = {}
  BY <1>1, <1>4 DEF a
<1>6. a = <<>>
  BY <1>5
<1> QED
  BY <1>6 DEF a

LEMMA ToldConcat ==
  ASSUME NEW s \in Text, NEW t \in Text
  PROVE  Told(s \o t) = Told(s) \o Told(t)
<1>1. s \o t \in Text
  BY ConcatProperties DEF Text
<1>2. Told(s \o t) = Among(s \o t, Place) /\ Told(s) = Among(s, Place) /\ Told(t) = Among(t, Place)
  BY <1>1, ToldIsAmong
<1>3. Among(s \o t, Place) = Among(s, Place) \o Among(t, Place)
  BY AmongConcat DEF Text
<1> QED
  BY <1>2, <1>3

LEMMA ToldType ==
  ASSUME NEW t \in Text
  PROVE  Told(t) \in Text
BY ToldIsAmong, AmongFits DEF Text

LEMMA ToldNone ==
  ASSUME NEW t \in Text, \A i \in DOMAIN t : t[i] = 0
  PROVE  Told(t) = <<>>
<1>1. \A i \in DOMAIN t : t[i] \notin Place
  BY DEF Place
<1> QED
  BY <1>1, ToldIsAmong, AmongNone DEF Text

LEMMA SubText ==
  ASSUME NEW t \in Text, NEW m \in 1 .. Len(t) + 1, NEW k \in m - 1 .. Len(t)
  PROVE  /\ SubSeq(t, m, k) \in Text
         /\ Len(SubSeq(t, m, k)) = k - m + 1
         /\ \A i \in DOMAIN SubSeq(t, m, k) : i + m - 1 \in m .. k /\ SubSeq(t, m, k)[i] = t[i + m - 1]
BY DEF Text

\* What is told of a text is told of its parts, one after the other.
LEMMA ToldParts ==
  ASSUME NEW t \in Text, NEW m \in 1 .. Len(t) + 1, NEW k \in m - 1 .. Len(t)
  PROVE  /\ SubSeq(t, m, k) \in Text /\ SubSeq(t, k + 1, Len(t)) \in Text
         /\ Told(SubSeq(t, m, Len(t))) = Told(SubSeq(t, m, k)) \o Told(SubSeq(t, k + 1, Len(t)))
<1>1. Len(t) \in Nat /\ m \in Nat /\ k \in Int
  BY DEF Text
<1>2. k + 1 \in 1 .. Len(t) + 1 /\ Len(t) \in k + 1 - 1 .. Len(t) /\ Len(t) \in k .. Len(t)
  BY <1>1
<1>3. SubSeq(t, m, k) \in Text /\ SubSeq(t, k + 1, Len(t)) \in Text
  BY <1>1, <1>2, SubText
<1>4. SubSeq(t, m, k) \o SubSeq(t, k + 1, Len(t)) = SubSeq(t, m, Len(t))
  BY <1>1, <1>2, ConcatAdjacentSubSeq DEF Text
<1>5. Told(SubSeq(t, m, k) \o SubSeq(t, k + 1, Len(t))) = Told(SubSeq(t, m, k)) \o Told(SubSeq(t, k + 1, Len(t)))
  BY <1>3, ToldConcat
<1> QED
  BY <1>3, <1>4, <1>5

LEMMA ToldAll ==
  ASSUME NEW t \in Text
  PROVE  SubSeq(t, 1, Len(t)) = t
BY DEF Text

LEMMA NothingMore ==
  ASSUME NEW s \in Text
  PROVE  <<>> \o s = s /\ s \o <<>> = s
BY ConcatEmptySeq DEF Text

\* Trimming takes away what is not told.
LEMMA Trimmed ==
  ASSUME NEW t \in Text
  PROVE  TrimSpace(t) \in Text /\ Len(TrimSpace(t)) <= Len(t) /\ Told(TrimSpace(t)) = Told(t)
<1> DEFINE n == Len(t)
           dark == {i \in DOMAIN t : t[i] # 0}
<1>1. n \in Nat /\ DOMAIN t = 1 .. n
  BY DEF Text
<1>2. CASE dark = {}
  <2>1. TrimSpace(t) = <<>>
    BY <1>2 DEF TrimSpace
  <2>2. Told(t) = <<>>
    BY <1>2, ToldNone
  <2>3. <<>> \in Text /\ DOMAIN <<>> = {} /\ Len(<<>>) = 0
    BY DEF Text
  <2>4. Told(<<>>) = <<>>
    BY <2>3, ToldNone
  <2> QED
    BY <1>1, <2>1, <2>2, <2>3, <2>4
<1>3. CASE dark # {}
  <2> DEFINE a == Min(dark)
             b == Max(dark)
  <2>1. TrimSpace(t) = SubSeq(t, a, b)
    BY <1>3 DEF TrimSpace
  <2>2. dark \in SUBSET Nat /\ dark \in SUBSET (0 .. n)
    BY <1>1
  <2>3. \E x \in dark : \A y \in dark : x <= y
    BY <1>3, <2>2, Smallest
  <2>4. \E x \in dark : \A y \in dark : x >= y
    BY <1>1, <1>3, <2>2, Biggest
  <2>5. \A i \in DOMAIN t : i \notin dark => t[i] = 0
    OBVIOUS
  <2>6. dark \subseteq DOMAIN t
    OBVIOUS
  <2> HIDE DEF dark
  <2>7. a \in dark /\ \A y \in dark : a <= y
    BY <2>3 DEF Min
  <2>8. b \in dark /\ \A y \in dark : b >= y
    BY <2>4 DEF Max
  <2> HIDE DEF a, b, n
  <2>9. a \in 1 .. n /\ b \in 1 .. n /\ a <= b /\ a \in Nat /\ b \in Nat
    BY <1>1, <2>6, <2>7, <2>8
  <2> DEFINE head == SubSeq(t, 1, a - 1)
             body == SubSeq(t, a, b)
             foot == SubSeq(t, b + 1, n)
             tail == SubSeq(t, a, n)
  <2>10. /\ 1 \in 1 .. n + 1 /\ a - 1 \in 1 - 1 .. n /\ a - 1 + 1 = a
         /\ a \in 1 .. n + 1 /\ b \in a - 1 .. n
         /\ b + 1 \in 1 .. n + 1 /\ n \in b + 1 - 1 .. n
    BY <1>1, <2>9
  <2>11. head \in Text /\ tail \in Text /\ Told(SubSeq(t, 1, n)) = Told(head) \o Told(tail)
    BY <2>10, ToldParts DEF n
  <2>12. body \in Text /\ foot \in Text /\ Told(tail) = Told(body) \o Told(foot)
    BY <2>10, ToldParts DEF n
  <2>13. \A i \in DOMAIN head : head[i] = 0
    <3> SUFFICES ASSUME NEW i \in DOMAIN head PROVE head[i] = 0
      OBVIOUS
    <3>1. i + 1 - 1 \in 1 .. a - 1 /\ head[i] = t[i + 1 - 1]
      BY <2>10, SubText DEF n
    <3>2. i + 1 - 1 \in DOMAIN t /\ ~(a <= i + 1 - 1)
      BY <1>1, <2>9, <3>1
    <3> HIDE DEF head
    <3> QED
      BY <2>5, <2>7, <3>1, <3>2
  <2>14. \A i \in DOMAIN foot : foot[i] = 0
    <3> SUFFICES ASSUME NEW i \in DOMAIN foot PROVE foot[i] = 0
      OBVIOUS
    <3> DEFINE j == i + (b + 1) - 1
    <3>1. j \in b + 1 .. n /\ foot[i] = t[j]
      BY <2>10, SubText DEF n
    <3> HIDE DEF foot, j
    <3>2. j \in DOMAIN t /\ ~(b >= j)
      BY <1>1, <2>9, <3>1
    <3> QED
      BY <2>5, <2>8, <3>1, <3>2
  <2> HIDE DEF head, body, foot, tail
  <2>15. Told(head) = <<>> /\ Told(foot) = <<>>
    BY <2>11, <2>12, <2>13, <2>14, ToldNone
  <2>16. Told(body) \in Text /\ Told(tail) \in Text
    BY <2>11, <2>12, ToldType
  <2>17. Told(tail) = Told(body)
    BY <2>12, <2>15, <2>16, NothingMore
  <2>18. Told(t) = Told(tail)
    BY <2>11, <2>15, <2>16, NothingMore, ToldAll DEF n
  <2>19. Len(body) <= n
    <3>1. Len(SubSeq(t, a, b)) = b - a + 1
      BY <2>10, SubText DEF n
    <3> QED
      BY <1>1, <2>9, <3>1 DEF body
  <2> QED
    BY <2>1, <2>12, <2>17, <2>18, <2>19 DEF body, n
<1> QED
  BY <1>2, <1>3

Reached(V, b, F, n) ==
  \E f \in [0 .. n -> V] : f[0] = b /\ \A k \in 1 .. n : f[k] = F[<<k, f[k - 1]>>]

\* From a first value and a way to get the next, the values up to any place.
LEMMA ValuesExist ==
  ASSUME NEW V, NEW b \in V, NEW F \in [Nat \X V -> V], NEW n \in Nat
  PROVE  Reached(V, b, F, n)
<1> USE DEF Reached
<1> DEFINE Fits(f, m) == f[0] = b /\ \A k \in 1 .. m : f[k] = F[<<k, f[k - 1]>>]
           bad == {m \in Nat : ~ \E f \in [0 .. m -> V] : Fits(f, m)}
<1> SUFFICES ASSUME n \in bad PROVE FALSE
  OBVIOUS
<1>1. bad \in SUBSET Nat /\ bad # {}
  OBVIOUS
<1>2. PICK m \in bad : \A y \in bad : m <= y
  BY <1>1, Smallest
<1>3. CASE m = 0
  <2> DEFINE f == [k \in 0 .. 0 |-> b]
  <2>1. f \in [0 .. 0 -> V] /\ Fits(f, 0)
    OBVIOUS
  <2> HIDE DEF f, Fits
  <2> QED
    BY <1>2, <1>3, <2>1
<1>4. CASE m # 0
  <2>1. m - 1 \in Nat /\ m \in Nat /\ ~(m <= m - 1)
    BY <1>2, <1>4
  <2>2. m - 1 \notin bad
    BY <1>2, <2>1
  <2>3. PICK f \in [0 .. m - 1 -> V] : Fits(f, m - 1)
    <3> HIDE DEF Fits
    <3> QED
      BY <2>1, <2>2
  <2> DEFINE g == [k \in 0 .. m |-> IF k = m THEN F[<<m, f[m - 1]>>] ELSE f[k]]
  <2>4. f[m - 1] \in V /\ F[<<m, f[m - 1]>>] \in V
    <3>1. f[m - 1] \in V
      BY <2>1
    <3> QED
      BY <2>1, <3>1
  <2>5. /\ \A k \in 0 .. m : k = m \/ k \in 0 .. m - 1
        /\ \A k \in 1 .. m : k - 1 \in 0 .. m - 1 /\ k - 1 # m /\ k - 1 \in 0 .. m
        /\ \A k \in 1 .. m : k # m => k \in 1 .. m - 1 /\ k \in 0 .. m - 1
        /\ 0 \in 0 .. m /\ 0 # m /\ m \in 0 .. m
    BY <2>1, <1>4
  <2>6. g \in [0 .. m -> V]
    BY <2>4, <2>5
  <2>7. g[m] = F[<<m, f[m - 1]>>] /\ \A k \in 0 .. m : k # m => g[k] = f[k]
    BY <2>5
  <2> HIDE DEF g
  <2>8. g[0] = b
    BY <2>3, <2>5, <2>7
  <2>9. ASSUME NEW k \in 1 .. m PROVE g[k] = F[<<k, g[k - 1]>>]
    <3>1. g[k - 1] = f[k - 1]
      BY <2>5, <2>7
    <3>2. CASE k = m
      BY <2>7, <3>1, <3>2
    <3>3. CASE k # m
      <4>1. k \in 1 .. m - 1 /\ k \in 0 .. m
        BY <2>5, <3>3
      <4>2. f[k] = F[<<k, f[k - 1]>>] /\ g[k] = f[k]
        BY <2>3, <2>7, <3>3, <4>1
      <4> QED
        BY <3>1, <4>2
    <3> QED
      BY <3>2, <3>3
  <2>10. Fits(g, m)
    BY <2>8, <2>9
  <2> HIDE DEF Fits
  <2> QED
    BY <1>2, <2>6, <2>10
<1> QED
  BY <1>3, <1>4

AnyLength == Length \cup {"medium"}
Piece == [kind : {"summary"}, chars : Text, length : AnyLength]

LEMMA PieceIs ==
  ASSUME NEW t \in Text, NEW l \in AnyLength
  PROVE  Summary(t, l) \in Piece /\ Summary(t, l).chars = t /\ Summary(t, l).length = l
BY DEF Summary, Piece

IsJoined(f, parts, n) ==
  f = [k \in 0 .. n |-> IF k = 0 THEN <<>> ELSE f[k - 1] \o parts[k].chars]

LEMMA ConcatText ==
  ASSUME NEW s \in Text, NEW t \in Text
  PROVE  s \o t \in Text
BY ConcatProperties DEF Text

LEMMA NoText == <<>> \in Text /\ DOMAIN <<>> = {} /\ Len(<<>>) = 0
BY DEF Text

LEMMA JoinedIs ==
  ASSUME NEW parts \in Seq(Piece)
  PROVE  \E f : /\ f \in [0 .. Len(parts) -> Text]
                /\ IsJoined(f, parts, Len(parts))
                /\ Joined(parts) = f[Len(parts)]
<1> DEFINE n == Len(parts)
           Longer(p) == IF p[1] \in DOMAIN parts THEN p[2] \o parts[p[1]].chars ELSE p[2]
           F == [p \in Nat \X Text |-> Longer(p)]
           Body(f) == [k \in 0 .. n |-> IF k = 0 THEN <<>> ELSE f[k - 1] \o parts[k].chars]
<1>1. n \in Nat /\ DOMAIN parts = 1 .. n /\ \A k \in 1 .. n : parts[k].chars \in Text
  <2>1. n \in Nat /\ DOMAIN parts = 1 .. n
    OBVIOUS
  <2>2. \A k \in 1 .. n : parts[k] \in Piece
    OBVIOUS
  <2>3. \A p \in Piece : p.chars \in Text
    BY DEF Piece
  <2> HIDE DEF n
  <2> QED
    BY <2>1, <2>2, <2>3
<1>2. F \in [Nat \X Text -> Text]
  <2> SUFFICES ASSUME NEW p \in Nat \X Text PROVE Longer(p) \in Text
    OBVIOUS
  <2> HIDE DEF n
  <2>1. p[2] \in Text
    OBVIOUS
  <2>2. ASSUME p[1] \in DOMAIN parts PROVE p[2] \o parts[p[1]].chars \in Text
    BY <1>1, <2>1, <2>2, ConcatText
  <2> QED
    BY <2>1, <2>2
<1>3. ASSUME NEW k \in 1 .. n, NEW v \in Text PROVE F[<<k, v>>] = v \o parts[k].chars
  <2>1. <<k, v>> \in Nat \X Text /\ k \in DOMAIN parts
    BY <1>1
  <2> QED
    BY <2>1
<1> HIDE DEF F, n
<1>4. PICK f \in [0 .. n -> Text] : f[0] = <<>> /\ \A k \in 1 .. n : f[k] = F[<<k, f[k - 1]>>]
  <2>1. Reached(Text, <<>>, F, n)
    BY <1>1, <1>2, NoText, ValuesExist
  <2> QED
    BY <2>1 DEF Reached
<1>5. \A k \in 0 .. n : f[k] = IF k = 0 THEN <<>> ELSE f[k - 1] \o parts[k].chars
  <2> SUFFICES ASSUME NEW k \in 0 .. n PROVE f[k] = IF k = 0 THEN <<>> ELSE f[k - 1] \o parts[k].chars
    OBVIOUS
  <2>1. CASE k = 0
    BY <1>4, <2>1
  <2>2. CASE k # 0
    <3>1. k \in 1 .. n /\ k - 1 \in 0 .. n
      BY <1>1, <2>2
    <3>2. f[k - 1] \in Text
      BY <3>1
    <3> QED
      BY <1>3, <1>4, <2>2, <3>1, <3>2
  <2> QED
    BY <2>1, <2>2
<1>6. f = Body(f)
  BY <1>5
<1> DEFINE g == CHOOSE h : h = Body(h)
<1>7. Joined(parts) = g[n]
  BY DEF Joined, n
<1>8. g = Body(g)
  <2> HIDE DEF Body
  <2> QED
    BY <1>6
<1> HIDE DEF g
<1>9. g[0] = <<>> /\ \A k \in 1 .. n : g[k] = g[k - 1] \o parts[k].chars
  <2>1. \A k \in 0 .. n : g[k] = IF k = 0 THEN <<>> ELSE g[k - 1] \o parts[k].chars
    BY <1>8
  <2>2. 0 \in 0 .. n /\ \A k \in 1 .. n : k \in 0 .. n /\ k # 0
    BY <1>1
  <2> QED
    BY <2>1, <2>2
<1> DEFINE bad == {k \in Nat : k <= n /\ g[k] # f[k]}
<1>10. bad = {}
  <2> SUFFICES ASSUME bad # {} PROVE FALSE
    OBVIOUS
  <2>1. bad \in SUBSET Nat
    OBVIOUS
  <2>2. PICK k \in bad : \A y \in bad : k <= y
    BY <2>1, Smallest
  <2>3. k # 0
    BY <1>4, <1>9, <2>2
  <2>4. k \in 1 .. n /\ k \in 0 .. n /\ k - 1 \in Nat /\ k - 1 <= n /\ ~(k <= k - 1)
    BY <1>1, <2>2, <2>3
  <2>5. g[k - 1] = f[k - 1]
    BY <2>2, <2>4
  <2>6. f[k] = f[k - 1] \o parts[k].chars
    BY <1>5, <2>3, <2>4
  <2> QED
    BY <1>9, <2>2, <2>4, <2>5, <2>6
<1>11. g[n] = f[n]
  <2>1. n <= n
    BY <1>1
  <2> QED
    BY <1>1, <1>10, <2>1
<1>12. IsJoined(f, parts, n)
  BY <1>6 DEF IsJoined
<1> QED
  BY <1>7, <1>11, <1>12 DEF n

LEMMA JoinedSteps ==
  ASSUME NEW parts, NEW n \in Nat, NEW f, IsJoined(f, parts, n)
  PROVE  f[0] = <<>> /\ \A k \in 1 .. n : f[k] = f[k - 1] \o parts[k].chars
<1>1. \A k \in 0 .. n : f[k] = IF k = 0 THEN <<>> ELSE f[k - 1] \o parts[k].chars
  BY DEF IsJoined
<1>2. 0 \in 0 .. n /\ \A k \in 1 .. n : k \in 0 .. n /\ k # 0
  OBVIOUS
<1> QED
  BY <1>1, <1>2

LEMMA JoinedType ==
  ASSUME NEW parts \in Seq(Piece)
  PROVE  Joined(parts) \in Text
<1>1. Len(parts) \in 0 .. Len(parts)
  OBVIOUS
<1> QED
  BY <1>1, JoinedIs

LEMMA JoinedNone == Joined(<<>>) = <<>>
<1>1. <<>> \in Seq(Piece) /\ Len(<<>>) = 0
  OBVIOUS
<1>2. PICK f : IsJoined(f, <<>>, 0) /\ Joined(<<>>) = f[0]
  BY <1>1, JoinedIs
<1> QED
  BY <1>2, JoinedSteps

LEMMA JoinedAppend ==
  ASSUME NEW parts \in Seq(Piece), NEW p \in Piece
  PROVE  Joined(Append(parts, p)) = Joined(parts) \o p.chars
<1>1. PICK n \in Nat : n = Len(parts)
  OBVIOUS
<1>2. PICK more \in Seq(Piece) : more = Append(parts, p)
  BY AppendProperties
<1>3. n + 1 = Len(more) /\ n + 1 \in Nat /\ more[n + 1] = p /\ \A k \in 1 .. n : more[k] = parts[k]
  BY <1>1, <1>2
<1>4. PICK f : IsJoined(f, parts, n) /\ Joined(parts) = f[n]
  BY <1>1, JoinedIs
<1>5. PICK g : IsJoined(g, more, n + 1) /\ Joined(more) = g[n + 1]
  BY <1>3, JoinedIs
<1>6. f[0] = <<>> /\ \A k \in 1 .. n : f[k] = f[k - 1] \o parts[k].chars
  BY <1>4, JoinedSteps
<1>7. g[0] = <<>> /\ \A k \in 1 .. n + 1 : g[k] = g[k - 1] \o more[k].chars
  BY <1>3, <1>5, JoinedSteps
<1> DEFINE bad == {k \in Nat : k <= n /\ g[k] # f[k]}
<1>8. bad = {}
  <2> SUFFICES ASSUME bad # {} PROVE FALSE
    OBVIOUS
  <2>1. bad \in SUBSET Nat
    OBVIOUS
  <2>2. PICK k \in bad : \A y \in bad : k <= y
    BY <2>1, Smallest
  <2>3. k # 0
    BY <1>6, <1>7, <2>2
  <2>4. k \in 1 .. n /\ k \in 1 .. n + 1 /\ k - 1 \in Nat /\ k - 1 <= n /\ ~(k <= k - 1)
    BY <2>2, <2>3
  <2>5. g[k - 1] = f[k - 1]
    BY <2>2, <2>4
  <2>6. f[k] = f[k - 1] \o parts[k].chars /\ g[k] = g[k - 1] \o more[k].chars /\ more[k] = parts[k]
    BY <1>3, <1>6, <1>7, <2>4
  <2> QED
    BY <2>2, <2>5, <2>6
<1>9. g[n] = f[n]
  BY <1>8
<1>10. g[n + 1] = g[n] \o p.chars
  <2>1. PICK m \in 1 .. n + 1 : m = n + 1 /\ m - 1 = n
    OBVIOUS
  <2>2. g[m] = g[m - 1] \o more[m].chars
    BY <1>7
  <2> QED
    BY <1>3, <2>1, <2>2
<1> QED
  BY <1>2, <1>4, <1>5, <1>9, <1>10

Regroups(p, q, r) == (p \o q) \o r = p \o (q \o r)

LEMMA Regrouped ==
  ASSUME NEW p \in Text, NEW q \in Text, NEW r \in Text
  PROVE  Regroups(p, q, r)
<1>1. p \in Seq(Nat) /\ q \in Seq(Nat) /\ r \in Seq(Nat)
  BY DEF Text
<1>2. (p \o q) \o r = p \o (q \o r)
  BY <1>1, ConcatAssociative
<1> QED
  BY <1>2 DEF Regroups

\* Sequences are told apart by how they end.
Ends(u, Q, n) == \E v \in Seq(Q), x \in Q : Len(v) = n - 1 /\ u = Append(v, x)

LEMMA LastOff ==
  ASSUME NEW Q, NEW u \in Seq(Q), NEW n \in Nat, n # 0, Len(u) = n
  PROVE  Ends(u, Q, n)
<1>1. SubSeq(u, 1, n - 1) \in Seq(Q) /\ Len(SubSeq(u, 1, n - 1)) = n - 1 /\ u[n] \in Q
      /\ u = Append(SubSeq(u, 1, n - 1), u[n])
  OBVIOUS
<1> QED
  BY <1>1 DEF Ends

LEMMA JoinedConcat ==
  ASSUME NEW s \in Seq(Piece), NEW t \in Seq(Piece)
  PROVE  Joined(s \o t) = Joined(s) \o Joined(t)
<1> DEFINE bad == {n \in Nat : \E u \in Seq(Piece) : Len(u) = n /\ Joined(s \o u) # Joined(s) \o Joined(u)}
<1> SUFFICES ASSUME Len(t) \in bad PROVE FALSE
  OBVIOUS
<1>1. bad \in SUBSET Nat /\ bad # {}
  OBVIOUS
<1>2. PICK n \in bad : \A y \in bad : n <= y
  BY <1>1, Smallest
<1>3. PICK u \in Seq(Piece) : Len(u) = n /\ Joined(s \o u) # Joined(s) \o Joined(u)
  BY <1>2
<1>4. CASE n = 0
  <2>1. u = <<>> /\ s \o u = s
    BY <1>3, <1>4
  <2>2. Joined(s) \o <<>> = Joined(s)
    BY JoinedType, NothingMore
  <2> QED
    BY <1>3, <2>1, <2>2, JoinedNone
<1>5. CASE n # 0
  <2>1. n \in Nat /\ n - 1 \in Nat /\ ~(n <= n - 1)
    BY <1>2, <1>5
  <2>2. PICK v \in Seq(Piece), x \in Piece : Len(v) = n - 1 /\ u = Append(v, x)
    <3>1. u \in Seq(Piece) /\ Len(u) = n
      BY <1>3
    <3>2. Ends(u, Piece, n)
      BY <1>5, <2>1, <3>1, LastOff
    <3> QED
      BY <3>2 DEF Ends
  <2>3. Lengthens(s, v, x)
    BY Lengthened
  <2>4. PICK w \in Seq(Piece) : w = s \o v
    BY ConcatProperties
  <2>5. s \o u = Append(w, x)
    BY <2>2, <2>3, <2>4 DEF Lengthens
  <2>6. Joined(w) = Joined(s) \o Joined(v)
    BY <1>2, <2>1, <2>2, <2>4
  <2>7. Joined(Append(w, x)) = Joined(w) \o x.chars /\ Joined(u) = Joined(v) \o x.chars
    BY <2>2, JoinedAppend
  <2>8. Joined(s) \in Text /\ Joined(v) \in Text /\ x.chars \in Text
    BY JoinedType DEF Piece
  <2>9. Regroups(Joined(s), Joined(v), x.chars)
    BY <2>8, Regrouped
  <2> QED
    BY <1>3, <2>5, <2>6, <2>7, <2>9 DEF Regroups
<1> QED
  BY <1>4, <1>5

(* How a text is cut, and what its parts tell of.                          *)

Pieces(done) == [i \in DOMAIN done |-> Summary(Told(done[i]), "medium")]

LEMMA MediumIs == "medium" \in AnyLength
BY DEF AnyLength

LEMMA PiecesAre ==
  ASSUME NEW done \in Seq(Text)
  PROVE  Pieces(done) \in Seq(Piece) /\ Len(Pieces(done)) = Len(done)
<1>1. PICK n \in Nat : n = Len(done) /\ DOMAIN done = 1 .. n
  OBVIOUS
<1>2. \A i \in DOMAIN done : done[i] \in Text
  OBVIOUS
<1>3. ASSUME NEW i \in 1 .. n PROVE Summary(Told(done[i]), "medium") \in Piece
  <2>1. Told(done[i]) \in Text
    BY <1>1, <1>2, ToldType
  <2> QED
    BY <2>1, MediumIs, PieceIs
<1>4. Pieces(done) = [i \in 1 .. n |-> Summary(Told(done[i]), "medium")]
  BY <1>1 DEF Pieces
<1> QED
  BY <1>1, <1>3, <1>4

LEMMA PiecesMore ==
  ASSUME NEW done \in Seq(Text), NEW u \in Text
  PROVE  Pieces(Append(done, u)) = Append(Pieces(done), Summary(Told(u), "medium"))
<1>1. PICK n \in Nat : n = Len(done) /\ DOMAIN done = 1 .. n
  OBVIOUS
<1>2. PICK more \in Seq(Text) : more = Append(done, u)
  BY AppendProperties
<1>3. DOMAIN more = 1 .. n + 1 /\ more[n + 1] = u /\ \A i \in 1 .. n : more[i] = done[i]
  BY <1>1, <1>2
<1>4. PICK p \in Seq(Piece) : p = Pieces(done) /\ Len(p) = n
  BY <1>1, PiecesAre
<1>5. PICK s \in Piece : s = Summary(Told(u), "medium")
  BY ToldType, MediumIs, PieceIs
<1>6. PICK q \in Seq(Piece) : q = Pieces(more) /\ Len(q) = n + 1
  <2>1. Len(more) = n + 1
    BY <1>1, <1>2
  <2> QED
    BY <2>1, PiecesAre
<1>7. \A i \in 1 .. n : q[i] = p[i]
  BY <1>1, <1>3, <1>4, <1>6 DEF Pieces
<1>8. q[n + 1] = s
  <2>1. n + 1 \in DOMAIN more
    BY <1>3
  <2> QED
    BY <1>3, <1>5, <1>6, <2>1 DEF Pieces
<1>9. q = Append(p, s)
  BY <1>4, <1>6, <1>7, <1>8
<1> QED
  BY <1>2, <1>4, <1>5, <1>6, <1>9

LEMMA PiecesNone == Pieces(<<>>) = <<>>
BY DEF Pieces

\* A part that is cut off takes a place at least, and fits a call.
LEMMA CutFits ==
  ASSUME NEW t, NEW max \in Nat \ {0}
  PROVE  Cut(t, max) \in 1 .. max
<1> DEFINE breaks == {i \in 2 .. max : t[i] = 0}
<1>1. CASE breaks = {}
  BY <1>1 DEF Cut
<1>2. CASE breaks # {}
  <2>1. breaks \in SUBSET (0 .. max)
    OBVIOUS
  <2>2. breaks \subseteq 2 .. max
    OBVIOUS
  <2>3. Cut(t, max) = Max(breaks) - 1
    BY <1>2 DEF Cut
  <2> HIDE DEF breaks
  <2>4. \E x \in breaks : \A y \in breaks : x >= y
    BY <1>2, <2>1, Biggest
  <2>5. Max(breaks) \in breaks
    BY <2>4 DEF Max
  <2>6. PICK b \in 2 .. max : b = Max(breaks)
    BY <2>2, <2>5
  <2> QED
    BY <2>3, <2>6
<1> QED
  BY <1>1, <1>2

\* So much of the text t is done, after n rounds.
SplitFits(s, t, max, n) ==
  /\ s.done \in Seq(Text) /\ s.rest \in Text
  /\ Told(t) = Joined(Pieces(s.done)) \o Told(s.rest)
  /\ \A i \in DOMAIN s.done : Len(s.done[i]) <= max
  /\ Len(s.rest) + n <= Len(t) \/ s.rest = <<>>

LEMMA LongerFits ==
  ASSUME NEW done \in Seq(Text), NEW u \in Text, NEW max \in Nat, Len(u) <= max,
         \A i \in DOMAIN done : Len(done[i]) <= max
  PROVE  /\ Append(done, u) \in Seq(Text)
         /\ \A i \in DOMAIN Append(done, u) : Len(Append(done, u)[i]) <= max
<1>1. PICK n \in Nat : n = Len(done) /\ DOMAIN done = 1 .. n
  OBVIOUS
<1>2. PICK more \in Seq(Text) : more = Append(done, u)
  BY AppendProperties
<1>3. DOMAIN more = 1 .. n + 1 /\ more[n + 1] = u /\ \A i \in 1 .. n : more[i] = done[i]
  BY <1>1, <1>2
<1>4. \A i \in 1 .. n + 1 : i \in 1 .. n \/ i = n + 1
  OBVIOUS
<1>5. \A i \in DOMAIN more : Len(more[i]) <= max
  BY <1>1, <1>3, <1>4
<1> QED
  BY <1>2, <1>5

LEMMA JoinedLonger ==
  ASSUME NEW done \in Seq(Text), NEW u \in Text, NEW r \in Text
  PROVE  Joined(Pieces(Append(done, u))) \o Told(r)
           = Joined(Pieces(done)) \o (Told(u) \o Told(r))
<1>1. PICK s \in Piece : s = Summary(Told(u), "medium") /\ s.chars = Told(u)
  BY ToldType, MediumIs, PieceIs
<1>2. PICK p \in Seq(Piece) : p = Pieces(done)
  BY PiecesAre
<1>3. Pieces(Append(done, u)) = Append(p, s)
  BY <1>1, <1>2, PiecesMore
<1>4. Joined(Append(p, s)) = Joined(p) \o Told(u)
  BY <1>1, JoinedAppend
<1>5. Joined(p) \in Text /\ Told(u) \in Text /\ Told(r) \in Text
  BY ToldType, JoinedType
<1>6. Regroups(Joined(p), Told(u), Told(r))
  BY <1>5, Regrouped
<1> QED
  BY <1>2, <1>3, <1>4, <1>6 DEF Regroups

LEMMA CutOffFits ==
  ASSUME NEW s, NEW t \in Text, NEW max \in Nat \ {0}, NEW n \in Nat, SplitFits(s, t, max, n)
  PROVE  SplitFits(CutOff(s, max), t, max, n + 1)
<1>1. PICK done \in Seq(Text) : done = s.done
  BY DEF SplitFits
<1>2. PICK r \in Text : r = s.rest
  BY DEF SplitFits
<1>3. PICK m \in Nat : m = Len(r)
  BY DEF Text
<1>4. Len(t) \in Nat
  BY DEF Text
<1>5. CASE r = <<>>
  BY <1>2, <1>5 DEF SplitFits, CutOff
<1>6. CASE r # <<>> /\ m <= max
  <2> DEFINE c == [done |-> Append(done, r), rest |-> <<>>]
  <2>1. CutOff(s, max) = c
    BY <1>1, <1>2, <1>3, <1>6 DEF CutOff
  <2>2. c.done = Append(done, r) /\ c.rest = <<>>
    OBVIOUS
  <2> HIDE DEF c
  <2>3. Append(done, r) \in Seq(Text) /\ \A i \in DOMAIN Append(done, r) : Len(Append(done, r)[i]) <= max
    BY <1>1, <1>3, <1>6, LongerFits DEF SplitFits
  <2>4. Joined(Pieces(Append(done, r))) \o Told(<<>>) = Joined(Pieces(done)) \o (Told(r) \o Told(<<>>))
    BY NoText, JoinedLonger
  <2>5. Told(<<>>) = <<>> /\ Told(r) \in Text
    BY NoText, ToldNone, ToldType
  <2>6. Told(r) \o Told(<<>>) = Told(r)
    BY <2>5, NothingMore
  <2>7. Told(t) = Joined(Pieces(done)) \o Told(r)
    BY <1>1, <1>2 DEF SplitFits
  <2> QED
    BY <2>1, <2>2, <2>3, <2>4, <2>6, <2>7, NoText DEF SplitFits
<1>7. CASE r # <<>> /\ ~(m <= max)
  <2>1. PICK k \in 1 .. max : k = Cut(r, max)
    BY CutFits
  <2> DEFINE head == SubSeq(r, 1, k)
             tail == SubSeq(r, k + 1, m)
             c == [done |-> Append(done, TrimSpace(head)), rest |-> TrimSpace(tail)]
  <2>2. CutOff(s, max) = c
    BY <1>1, <1>2, <1>3, <1>7, <2>1 DEF CutOff
  <2>3. c.done = Append(done, TrimSpace(head)) /\ c.rest = TrimSpace(tail)
    OBVIOUS
  <2>4. /\ k \in Nat /\ k <= m /\ k <= max /\ 1 <= k
        /\ 1 \in 1 .. m + 1 /\ k \in 1 - 1 .. m /\ k + 1 \in 1 .. m + 1 /\ m \in k + 1 - 1 .. m
    BY <1>7, <2>1
  <2>5. head \in Text /\ tail \in Text /\ Told(SubSeq(r, 1, m)) = Told(head) \o Told(tail)
    BY <1>3, <2>4, ToldParts
  <2>6. Len(head) = k - 1 + 1
    BY <1>3, <2>4, SubText
  <2>7. Len(tail) = m - (k + 1) + 1
    BY <1>3, <2>4, SubText
  <2> HIDE DEF c, head, tail
  <2>8. PICK u \in Text : u = TrimSpace(head) /\ Len(u) <= k /\ Told(u) = Told(head)
    BY <2>4, <2>5, <2>6, Trimmed
  <2>9. PICK v \in Text : v = TrimSpace(tail) /\ Len(v) <= m - k /\ Told(v) = Told(tail)
    BY <2>4, <2>5, <2>7, Trimmed
  <2>10. Len(u) \in Nat /\ Len(v) \in Nat
    BY DEF Text
  <2>11. Append(done, u) \in Seq(Text) /\ \A i \in DOMAIN Append(done, u) : Len(Append(done, u)[i]) <= max
    <3>1. Len(u) <= max
      BY <2>4, <2>8, <2>10
    <3> QED
      BY <1>1, <3>1, LongerFits DEF SplitFits
  <2>12. Joined(Pieces(Append(done, u))) \o Told(v) = Joined(Pieces(done)) \o (Told(u) \o Told(v))
    BY JoinedLonger
  <2>13. Told(t) = Joined(Pieces(done)) \o Told(r)
    BY <1>1, <1>2 DEF SplitFits
  <2>14. Told(r) = Told(u) \o Told(v)
    BY <1>3, <2>5, <2>8, <2>9, ToldAll
  <2>15. Len(v) + (n + 1) <= Len(t)
    <3>1. m + n <= Len(t)
      BY <1>2, <1>3, <1>7 DEF SplitFits
    <3> QED
      BY <1>4, <2>4, <2>9, <2>10, <3>1
  <2> QED
    BY <2>2, <2>3, <2>8, <2>9, <2>11, <2>12, <2>13, <2>14, <2>15 DEF SplitFits
<1> QED
  BY <1>5, <1>6, <1>7

Half == [done : Seq(Text), rest : Text]

LEMMA CutOffType ==
  ASSUME NEW s \in Half, NEW max \in Nat \ {0}
  PROVE  CutOff(s, max) \in Half
<1>1. PICK done \in Seq(Text) : done = s.done
  BY DEF Half
<1>2. PICK r \in Text : r = s.rest
  BY DEF Half
<1>3. PICK m \in Nat : m = Len(r)
  BY DEF Text
<1>4. CASE r = <<>>
  BY <1>2, <1>4 DEF CutOff
<1>5. CASE r # <<>> /\ m <= max
  <2>1. Append(done, r) \in Seq(Text) /\ <<>> \in Text
    BY AppendProperties, NoText
  <2>2. CutOff(s, max) = [done |-> Append(done, r), rest |-> <<>>]
    BY <1>1, <1>2, <1>3, <1>5 DEF CutOff
  <2> QED
    BY <2>1, <2>2 DEF Half
<1>6. CASE r # <<>> /\ ~(m <= max)
  <2>1. PICK k \in 1 .. max : k = Cut(r, max)
    BY CutFits
  <2>2. /\ 1 \in 1 .. m + 1 /\ k \in 1 - 1 .. m /\ k + 1 \in 1 .. m + 1 /\ m \in k + 1 - 1 .. m
    BY <1>6, <2>1
  <2>3. SubSeq(r, 1, k) \in Text /\ SubSeq(r, k + 1, m) \in Text
    BY <1>3, <2>2, ToldParts
  <2>4. PICK u \in Text : u = TrimSpace(SubSeq(r, 1, k))
    BY <2>3, Trimmed
  <2>5. PICK v \in Text : v = TrimSpace(SubSeq(r, k + 1, m))
    BY <2>3, Trimmed
  <2>6. CutOff(s, max) = [done |-> Append(done, u), rest |-> v]
    BY <1>1, <1>2, <1>3, <1>6, <2>1, <2>4, <2>5 DEF CutOff
  <2>7. Append(done, u) \in Seq(Text)
    BY AppendProperties
  <2> QED
    BY <2>6, <2>7 DEF Half
<1> QED
  BY <1>4, <1>5, <1>6

\* The parts of a text tell of the whole text, and each fits a call.
LEMMA ChunksFit ==
  ASSUME NEW t \in Text, NEW max \in Nat \ {0}
  PROVE  /\ chunkText(t, max) \in Seq(Text)
         /\ Joined(Pieces(chunkText(t, max))) = Told(t)
         /\ \A i \in DOMAIN chunkText(t, max) : Len(chunkText(t, max)[i]) <= max
<1>1. PICK n \in Nat : n = Len(t)
  BY DEF Text
<1> DEFINE start == [done |-> <<>>, rest |-> t]
           F == [p \in Nat \X Half |-> CutOff(p[2], max)]
           Body(f) == [k \in 0 .. n |-> IF k = 0 THEN start ELSE CutOff(f[k - 1], max)]
<1>2. start \in Half /\ start.done = <<>> /\ start.rest = t
  BY DEF Half
<1>3. F \in [Nat \X Half -> Half]
  <2> SUFFICES ASSUME NEW p \in Nat \X Half PROVE CutOff(p[2], max) \in Half
    OBVIOUS
  <2>1. p[2] \in Half
    OBVIOUS
  <2> QED
    BY <2>1, CutOffType
<1>4. ASSUME NEW k \in 1 .. n, NEW v \in Half PROVE F[<<k, v>>] = CutOff(v, max)
  <2>1. <<k, v>> \in Nat \X Half
    OBVIOUS
  <2> QED
    BY <2>1
<1> HIDE DEF F, start
<1>5. PICK f \in [0 .. n -> Half] : f[0] = start /\ \A k \in 1 .. n : f[k] = F[<<k, f[k - 1]>>]
  <2>1. Reached(Half, start, F, n)
    BY <1>2, <1>3, ValuesExist
  <2> QED
    BY <2>1 DEF Reached
<1>6. \A k \in 0 .. n : f[k] = IF k = 0 THEN start ELSE CutOff(f[k - 1], max)
  <2> SUFFICES ASSUME NEW k \in 0 .. n PROVE f[k] = IF k = 0 THEN start ELSE CutOff(f[k - 1], max)
    OBVIOUS
  <2>1. CASE k = 0
    BY <1>5, <2>1
  <2>2. CASE k # 0
    <3>1. k \in 1 .. n /\ k - 1 \in 0 .. n
      BY <2>2
    <3>2. f[k - 1] \in Half
      BY <3>1
    <3> QED
      BY <1>4, <1>5, <2>2, <3>1, <3>2
  <2> QED
    BY <2>1, <2>2
<1>7. f = Body(f)
  BY <1>6
<1> DEFINE g == CHOOSE h : h = Body(h)
<1>8. chunkText(t, max) = g[n].done
  BY <1>1 DEF chunkText, start
<1>9. g = Body(g)
  <2> HIDE DEF Body
  <2> QED
    BY <1>7
<1> HIDE DEF g
<1>10. g[0] = start /\ \A k \in 1 .. n : g[k] = CutOff(g[k - 1], max)
  <2>1. \A k \in 0 .. n : g[k] = IF k = 0 THEN start ELSE CutOff(g[k - 1], max)
    BY <1>9
  <2>2. 0 \in 0 .. n /\ \A k \in 1 .. n : k \in 0 .. n /\ k # 0
    OBVIOUS
  <2> QED
    BY <2>1, <2>2
<1> DEFINE bad == {k \in Nat : k <= n /\ ~SplitFits(g[k], t, max, k)}
<1>11. SplitFits(start, t, max, 0)
  <2>1. Joined(Pieces(<<>>)) = <<>> /\ Told(t) \in Text
    BY PiecesNone, JoinedNone, ToldType
  <2>2. <<>> \in Seq(Text) /\ DOMAIN <<>> = {}
    OBVIOUS
  <2>3. <<>> \o Told(t) = Told(t)
    BY <2>1, NothingMore
  <2>4. Len(t) + 0 <= Len(t)
    BY <1>1
  <2> QED
    BY <1>2, <2>1, <2>2, <2>3, <2>4 DEF SplitFits
<1>12. bad = {}
  <2> SUFFICES ASSUME bad # {} PROVE FALSE
    OBVIOUS
  <2>1. bad \in SUBSET Nat
    OBVIOUS
  <2>2. PICK k \in bad : \A y \in bad : k <= y
    BY <2>1, Smallest
  <2>3. k # 0
    BY <1>10, <1>11, <2>2
  <2>4. k \in 1 .. n /\ ~(k <= k - 1)
    BY <2>2, <2>3
  <2>5. PICK j \in Nat : j = k - 1 /\ j <= n /\ j + 1 = k
    BY <2>4
  <2>6. SplitFits(g[j], t, max, j)
    BY <2>2, <2>4, <2>5
  <2>7. SplitFits(CutOff(g[j], max), t, max, k)
    BY <2>5, <2>6, CutOffFits
  <2> QED
    BY <1>10, <2>2, <2>4, <2>5, <2>7
<1>13. SplitFits(g[n], t, max, n)
  <2>1. n <= n
    OBVIOUS
  <2> QED
    BY <1>12, <2>1
<1>14. g[n].rest = <<>>
  <2>1. PICK r \in Text : r = g[n].rest
    BY <1>13 DEF SplitFits
  <2>2. Len(r) \in Nat
    BY DEF Text
  <2>3. r = <<>> \/ Len(r) = 0
    BY <1>1, <1>13, <2>1, <2>2 DEF SplitFits
  <2> QED
    BY <2>1, <2>3 DEF Text
<1>15. Told(g[n].rest) = <<>>
  BY <1>14, NoText, ToldNone
<1>16. PICK done \in Seq(Text) : done = g[n].done
  BY <1>13 DEF SplitFits
<1>17. Joined(Pieces(done)) \in Text
  BY PiecesAre, JoinedType
<1>18. Told(t) = Joined(Pieces(done)) \o <<>>
  BY <1>13, <1>15, <1>16 DEF SplitFits
<1> QED
  BY <1>8, <1>13, <1>16, <1>17, <1>18, NothingMore DEF SplitFits

(* The inductive invariant: while the parts are asked about, the summaries *)
(* that came stand at their parts' places; while they are merged, the      *)
(* merges of the pass and the partial summaries it has not come to tell,   *)
(* one after the other, of the whole text.                                 *)

Early == {"idle", "text", "file", "url", "youtube", "archive", "summarize", "single"}

Untouched ==
  chunks = <<>> /\ asking = {} /\ partials = <<>> /\ partFailed = FALSE /\ next = <<>>

Divided ==
  /\ chunks \in Seq(Text) /\ Joined(Pieces(chunks)) = Told(text)
  /\ \A i \in DOMAIN chunks : Len(chunks[i]) <= MaxChunk

InPlace ==
  /\ asking \subseteq DOMAIN chunks /\ next = <<>>
  /\ partFailed = FALSE => partials = [i \in DOMAIN chunks \ asking |-> Partial(i)]

Merging ==
  /\ asking = {} /\ partials \in Seq(Piece)
  /\ Len(partials) <= 1 => next = <<>>
  /\ Len(partials) > 1 => Len(next) * MergeBatch < Len(partials)
  /\ Joined(next) \o Joined(SubSeq(partials, Len(next) * MergeBatch + 1, Len(partials)))
       = Told(text)
  /\ Len(partials) = 1 /\ Len(chunks) # 1 => partials[1].length = asked.length

SummaryInv ==
  /\ text \in Text /\ asked.length \in AnyLength /\ next \in Seq(Piece)
  /\ partFailed \in BOOLEAN
  /\ answer.kind = "summary" => stage = "done"
  /\ stage \in Early => Untouched
  /\ stage \in {"chunks", "merge"} => Divided
  /\ stage = "chunks" => InPlace
  /\ stage = "merge" => Merging
  /\ SummaryIsWhole

LEMMA SummaryStarts ==
  SummariesInit => SummaryInv
<1> SUFFICES ASSUME SummariesInit PROVE SummaryInv
  OBVIOUS
<1>1. text \in Text /\ next \in Seq(Piece)
  <2>1. <<>> \in Seq(Piece)
    OBVIOUS
  <2> QED
    BY <2>1, NoText DEF SummariesInit
<1>2. asked.length \in AnyLength
  BY MediumIs DEF SummariesInit
<1>3. stage \notin {"chunks", "merge"} /\ Untouched /\ partFailed \in BOOLEAN
  BY DEF SummariesInit, Untouched
<1>4. answer.kind # "summary"
  BY DEF SummariesInit, NoAnswer
<1> QED
  BY <1>1, <1>2, <1>3, <1>4 DEF SummaryInv, SummaryIsWhole

LEMMA TruncatedIsText ==
  ASSUME NEW t \in Text, NEW max \in Nat
  PROVE  truncate(t, max) \in Text
<1>1. PICK n \in Nat : n = Len(t)
  BY DEF Text
<1>2. PICK k \in 0 .. n : k = IF n < max THEN n ELSE max
  OBVIOUS
<1>3. 1 \in 1 .. Len(t) + 1 /\ k \in 1 - 1 .. Len(t)
  BY <1>1
<1>4. SubSeq(t, 1, k) \in Text
  BY <1>3, SubText
<1> QED
  BY <1>1, <1>2, <1>4 DEF truncate

LEMMA DocumentIsText ==
  ASSUME NEW t \in Document
  PROVE  t \in Text
BY DEF Text

\* A step that answers at once, or gets the text, from a stage before it is cut.
LEMMA AnsweredOtherwise ==
  ASSUME SummaryInv, NEW a, AnswerWith(a), a.kind # "summary"
  PROVE  SummaryInv'
<1>1. stage' = "done" /\ answer' = a /\ UNCHANGED <<text, asked, page, chunks, partials, asking, partFailed, next>>
  BY DEF AnswerWith, Rest
<1>2. stage' \notin Early /\ stage' \notin {"chunks", "merge"}
  BY <1>1 DEF Early
<1>3. answer'.kind # "summary"
  BY <1>1
<1>4. text' \in Text /\ asked'.length \in AnyLength /\ next' \in Seq(Piece) /\ partFailed' \in BOOLEAN
  BY <1>1 DEF SummaryInv
<1> QED
  BY <1>2, <1>3, <1>4 DEF SummaryInv, SummaryIsWhole

LEMMA TextGot ==
  ASSUME SummaryInv, stage \in Early, NEW t \in Text, NEW nothing, nothing.kind # "summary",
         Got(t, nothing)
  PROVE  SummaryInv'
<1>1. CASE Told(t) = <<>>
  BY <1>1, AnsweredOtherwise DEF Got
<1>2. CASE Told(t) # <<>>
  <2>1. stage' = "summarize" /\ text' = t
        /\ UNCHANGED <<answer, asked, page, chunks, partials, asking, partFailed, next>>
    BY <1>2 DEF Got, Rest
  <2>2. stage' \notin {"chunks", "merge"} /\ answer.kind # "summary"
    BY <2>1 DEF SummaryInv, Early
  <2>3. Untouched'
    BY <2>1 DEF SummaryInv, Untouched
  <2>4. text' \in Text /\ asked'.length \in AnyLength /\ next' \in Seq(Piece) /\ partFailed' \in BOOLEAN
    BY <2>1 DEF SummaryInv
  <2> QED
    BY <2>1, <2>2, <2>3, <2>4 DEF SummaryInv, SummaryIsWhole
<1> QED
  BY <1>1, <1>2

LEMMA StaysEarly ==
  ASSUME SummaryInv, stage \in Early, stage' \in Early, asked'.length \in AnyLength,
         UNCHANGED <<text, chunks, partials, asking, partFailed, next, answer>>
  PROVE  SummaryInv'
<1>1. stage' \notin {"chunks", "merge"} /\ answer.kind # "summary"
  BY DEF SummaryInv, Early
<1>2. Untouched'
  BY DEF SummaryInv, Untouched
<1> QED
  BY <1>1, <1>2 DEF SummaryInv, SummaryIsWhole

LEMMA NotASummary ==
  /\ Failure.kind # "summary" /\ [kind |-> "no transcript"].kind # "summary"
  /\ \A e : Unreachable(e).kind # "summary"
BY DEF Failure, Unreachable

LEMMA TrackIsOne ==
  ASSUME NEW first \in Track, NEW second \in Track
  PROVE  (LET tracks == <<first, second>> IN tracks[selectTrack(tracks)].captions) \in Document
<1> DEFINE tracks == <<first, second>>
           manual == {i \in DOMAIN tracks : tracks[i].lang = "en" /\ ~tracks[i].asr}
           english == {i \in DOMAIN tracks : tracks[i].lang = "en"}
<1>1. selectTrack(tracks) = IF manual # {} THEN Min(manual)
                            ELSE IF english # {} THEN Min(english) ELSE 1
  BY DEF selectTrack
<1>2. manual \in SUBSET {1, 2} /\ english \in SUBSET {1, 2}
  OBVIOUS
<1> HIDE DEF manual, english
<1>3. ASSUME NEW T \in SUBSET {1, 2}, T # {} PROVE Min(T) \in {1, 2}
  <2>1. T \in SUBSET Nat
    OBVIOUS
  <2>2. \E x \in T : \A y \in T : x <= y
    BY <1>3, <2>1, Smallest
  <2>3. Min(T) \in T
    BY <2>2 DEF Min
  <2> QED
    BY <2>3
<1>4. selectTrack(tracks) \in {1, 2}
  BY <1>1, <1>2, <1>3
<1>5. tracks[1] = first /\ tracks[2] = second
  OBVIOUS
<1>6. first.captions \in Document /\ second.captions \in Document
  BY DEF Track
<1> QED
  BY <1>4, <1>5, <1>6

LEMMA GettingKeepsIt ==
  ASSUME SummaryInv,
         \/ \E tool \in SummaryTool, length \in Length : ExecuteSummary(tool, length)
         \/ summarizeText \/ readFile \/ fetchURLDirect \/ fetchURLArchive
         \/ fetchYouTubeTranscript
  PROVE  SummaryInv'
<1>1. CASE \E tool \in SummaryTool, length \in Length : ExecuteSummary(tool, length)
  <2>1. PICK tool \in SummaryTool, length \in Length : ExecuteSummary(tool, length)
    BY <1>1
  <2>2. stage \in Early /\ stage' \in Early
    BY <2>1 DEF ExecuteSummary, SummaryTool, Early
  <2>3. asked'.length \in AnyLength
    BY <2>1 DEF ExecuteSummary, AnyLength
  <2>4. UNCHANGED <<text, chunks, partials, asking, partFailed, next, answer>>
    BY <2>1 DEF ExecuteSummary
  <2> QED
    BY <2>2, <2>3, <2>4, StaysEarly
<1>2. CASE summarizeText
  <2>1. stage \in Early
    BY <1>2 DEF summarizeText, Early
  <2>2. PICK t \in Document : Got(t, Failure)
    BY <1>2 DEF summarizeText
  <2>3. t \in Text
    BY DEF Text
  <2> QED
    BY <2>1, <2>2, <2>3, TextGot, NotASummary
<1>3. CASE readFile
  <2>1. stage \in Early
    BY <1>3 DEF readFile, Early
  <2>2. CASE AnswerWith(Failure)
    BY <2>2, AnsweredOtherwise, NotASummary
  <2>3. ASSUME NEW t \in Document, Got(truncate(t, MaxText), Failure) PROVE SummaryInv'
    BY <2>1, <2>3, DocumentIsText, TruncatedIsText, TextGot, NotASummary
  <2> QED
    BY <1>3, <2>2, <2>3 DEF readFile
<1>4. CASE fetchURLDirect
  <2>1. stage \in Early
    BY <1>4 DEF fetchURLDirect, Early
  <2>2. ASSUME NEW e, AnswerWith(Unreachable(e)) PROVE SummaryInv'
    BY <2>2, AnsweredOtherwise, NotASummary
  <2>3. ASSUME NEW t \in Document, NEW e, Got(truncate(TrimSpace(t), MaxText), Unreachable(e))
        PROVE  SummaryInv'
    <3>1. truncate(TrimSpace(t), MaxText) \in Text
      BY Trimmed, DocumentIsText, TruncatedIsText
    <3> QED
      BY <2>1, <2>3, <3>1, TextGot, NotASummary
  <2>4. ASSUME NEW code \in Status, recoverableStatus(code), stage' = "archive", page' = code,
               UNCHANGED <<asked, text, chunks, partials, asking, partFailed, next, answer>>
        PROVE  SummaryInv'
    <3>1. stage' \in Early /\ asked'.length \in AnyLength
      BY <2>4 DEF Early, SummaryInv
    <3> QED
      BY <2>1, <2>4, <3>1, StaysEarly
  <2> QED
    BY <1>4, <2>2, <2>3, <2>4 DEF fetchURLDirect
<1>5. CASE fetchURLArchive
  <2>1. stage \in Early
    BY <1>5 DEF fetchURLArchive, Early
  <2>2. ASSUME NEW e, AnswerWith(Unreachable(e)) PROVE SummaryInv'
    BY <2>2, AnsweredOtherwise, NotASummary
  <2>3. ASSUME NEW t \in Document, NEW e, Got(truncate(TrimSpace(t), MaxWebText), Unreachable(e))
        PROVE  SummaryInv'
    <3>1. truncate(TrimSpace(t), MaxWebText) \in Text
      BY Trimmed, DocumentIsText, TruncatedIsText
    <3> QED
      BY <2>1, <2>3, <3>1, TextGot, NotASummary
  <2> QED
    BY <1>5, <2>2, <2>3 DEF fetchURLArchive
<1>6. CASE fetchYouTubeTranscript
  <2>1. stage \in Early
    BY <1>6 DEF fetchYouTubeTranscript, Early
  <2>2. ASSUME NEW a, AnswerWith(a), a.kind # "summary" PROVE SummaryInv'
    BY <2>2, AnsweredOtherwise
  <2>3. ASSUME NEW first \in Track, NEW second \in Track,
               Got(TrimSpace(LET tracks == <<first, second>>
                             IN  tracks[selectTrack(tracks)].captions), [kind |-> "no transcript"])
        PROVE  SummaryInv'
    <3> DEFINE c == LET tracks == <<first, second>> IN tracks[selectTrack(tracks)].captions
    <3>1. c \in Document
      BY TrackIsOne
    <3>2. Got(TrimSpace(c), [kind |-> "no transcript"])
      BY <2>3
    <3> HIDE DEF c
    <3>3. TrimSpace(c) \in Text
      BY <3>1, DocumentIsText, Trimmed
    <3> QED
      BY <2>1, <3>2, <3>3, TextGot, NotASummary
  <2> QED
    BY <1>6, <2>2, <2>3, NotASummary DEF fetchYouTubeTranscript
<1> QED
  BY <1>1, <1>2, <1>3, <1>4, <1>5, <1>6

LEMMA CuttingKeepsIt ==
  ASSUME SummaryInv, summarize \/ SingleAnswered \/ CallFails
  PROVE  SummaryInv'
<1>1. CASE summarize
  <2>1. stage \in Early /\ UNCHANGED <<asked, text, page, partials, partFailed, next, answer>>
    BY <1>1 DEF summarize, Early
  <2>2. CASE Len(text) <= MaxChunk
    <3>1. stage' \in Early /\ asked'.length \in AnyLength /\ UNCHANGED <<chunks, asking>>
      BY <1>1, <2>1, <2>2 DEF summarize, Early, SummaryInv
    <3> QED
      BY <2>1, <3>1, StaysEarly
  <2>3. CASE ~(Len(text) <= MaxChunk)
    <3>1. stage' = "chunks" /\ chunks' = chunkText(text, MaxChunk) /\ asking' = DOMAIN chunks'
      BY <1>1, <2>3 DEF summarize
    <3>2. text \in Text
      BY DEF SummaryInv
    <3>3. Divided'
      BY <2>1, <3>1, <3>2, ChunksFit DEF Divided
    <3>4. partials' = <<>> /\ next' = <<>>
      BY <2>1 DEF SummaryInv, Untouched
    <3>5. partials' = [i \in DOMAIN chunks' \ asking' |-> Partial(i)']
      <4>1. DOMAIN chunks' \ asking' = {}
        BY <3>1
      <4> QED
        BY <3>4, <4>1
    <3>6. InPlace'
      BY <3>1, <3>4, <3>5 DEF InPlace
    <3>7. stage' \notin Early /\ stage' # "merge" /\ answer'.kind # "summary"
      BY <2>1, <3>1 DEF Early, SummaryInv
    <3> QED
      BY <2>1, <3>1, <3>3, <3>6, <3>7 DEF SummaryInv, SummaryIsWhole
  <2> QED
    BY <2>2, <2>3
<1>2. CASE SingleAnswered
  <2>1. stage \in Early /\ stage' = "done" /\ answer' = Summary(Told(text), asked.length)
        /\ UNCHANGED <<text, asked, page, chunks, partials, asking, partFailed, next>>
    BY <1>2 DEF SingleAnswered, AnswerWith, Rest, Early
  <2>2. asking' = {} /\ chunks' = <<>>
    BY <2>1 DEF SummaryInv, Untouched
  <2>3. answer'.chars = Told(text) /\ answer'.length = asked.length
    BY <2>1 DEF Summary
  <2>4. DOMAIN chunks' = {}
    BY <2>2, NoText
  <2>5. SummaryIsWhole'
    BY <2>1, <2>2, <2>3, <2>4 DEF SummaryIsWhole
  <2>6. stage' \notin Early /\ stage' \notin {"chunks", "merge"}
    BY <2>1 DEF Early
  <2> QED
    BY <2>1, <2>5, <2>6 DEF SummaryInv
<1>3. CASE CallFails
  BY <1>3, AnsweredOtherwise, NotASummary DEF CallFails
<1> QED
  BY <1>1, <1>2, <1>3

LEMMA AskingKeepsIt ==
  ASSUME SummaryInv, NEW i \in asking, ChunkAnswered(i) \/ ChunkFails(i)
  PROVE  SummaryInv'
<1>1. /\ stage = "chunks" /\ asking' = asking \ {i}
      /\ UNCHANGED <<stage, asked, text, page, chunks, next, answer>>
  BY DEF ChunkAnswered, ChunkFails
<1>2. InPlace /\ Divided
  BY <1>1 DEF SummaryInv
<1>3. Divided'
  BY <1>1, <1>2 DEF Divided
<1>4. asking' \subseteq DOMAIN chunks' /\ next' = <<>>
  BY <1>1, <1>2 DEF InPlace
<1>5. partFailed' \in BOOLEAN
  BY DEF SummaryInv, ChunkAnswered, ChunkFails
<1>6. ASSUME partFailed' = FALSE
      PROVE  partials' = [j \in DOMAIN chunks' \ asking' |-> Partial(j)']
  <2>1. ChunkAnswered(i)
    BY <1>6 DEF ChunkFails
  <2>2. partFailed = FALSE /\ partials' = [j \in DOMAIN partials \cup {i} |->
                                              IF j = i THEN Partial(i) ELSE partials[j]]
    BY <1>6, <2>1 DEF ChunkAnswered
  <2>3. partials = [j \in DOMAIN chunks \ asking |-> Partial(j)]
    BY <1>2, <2>2 DEF InPlace
  <2>4. DOMAIN partials \cup {i} = DOMAIN chunks' \ asking'
    BY <1>1, <1>2, <2>3 DEF InPlace
  <2>5. \A j : Partial(j)' = Partial(j)
    BY <1>1 DEF Partial
  <2>6. \A j \in DOMAIN partials : partials[j] = Partial(j)
    BY <2>3
  <2> QED
    BY <2>2, <2>4, <2>5, <2>6
<1>7. InPlace'
  BY <1>4, <1>6 DEF InPlace
<1>8. answer'.kind # "summary" /\ stage' \notin Early /\ stage' # "merge"
  BY <1>1 DEF SummaryInv, Early
<1> QED
  BY <1>1, <1>3, <1>5, <1>7, <1>8 DEF SummaryInv, SummaryIsWhole

LEMMA WholeSeq ==
  ASSUME NEW Q, NEW s \in Seq(Q)
  PROVE  SubSeq(s, 1, Len(s)) = s
OBVIOUS

LEMMA AskedKeepsIt ==
  ASSUME SummaryInv, ChunksDone
  PROVE  SummaryInv'
<1>1. stage = "chunks" /\ asking = {}
  BY DEF ChunksDone
<1>2. InPlace /\ Divided
  BY <1>1 DEF SummaryInv
<1>3. CASE partFailed
  BY <1>3, AnsweredOtherwise, NotASummary DEF ChunksDone
<1>4. CASE ~partFailed
  <2>1. /\ stage' = "merge"
        /\ UNCHANGED <<asked, text, page, chunks, partials, asking, partFailed, next, answer>>
    BY <1>4 DEF ChunksDone, Rest
  <2>2. Divided'
    BY <1>2, <2>1 DEF Divided
  <2>3. partFailed = FALSE
    BY <1>4 DEF SummaryInv
  <2>4. partials = Pieces(chunks)
    BY <1>1, <1>2, <2>3 DEF InPlace, Pieces, Partial
  <2>5. PICK p \in Seq(Piece) : p = partials /\ Len(p) = Len(chunks)
    BY <1>2, <2>4, PiecesAre DEF Divided
  <2>6. next = <<>> /\ Len(next) * MergeBatch = 0
    <3>1. next = <<>> /\ Len(next) = 0
      BY <1>2 DEF InPlace
    <3>2. 0 * MergeBatch = 0
      OBVIOUS
    <3> QED
      BY <3>1, <3>2
  <2>7. Joined(next) \o Joined(SubSeq(partials, Len(next) * MergeBatch + 1, Len(partials))) = Told(text)
    <3>1. SubSeq(p, 0 + 1, Len(p)) = p
      <4>1. SubSeq(p, 1, Len(p)) = p
        BY WholeSeq
      <4> QED
        BY <4>1
    <3>2. Joined(p) = Told(text) /\ Joined(p) \in Text
      BY <1>2, <2>4, <2>5, JoinedType DEF Divided
    <3>3. <<>> \o Joined(p) = Joined(p)
      BY <3>2, NothingMore
    <3>4. SubSeq(partials, Len(next) * MergeBatch + 1, Len(partials)) = p
      BY <2>5, <2>6, <3>1
    <3>5. Joined(next) = <<>>
      BY <2>6, JoinedNone
    <3> QED
      BY <3>2, <3>3, <3>4, <3>5
  <2>8. Len(p) > 1 => 0 < Len(p)
    OBVIOUS
  <2>9. Merging
    BY <1>1, <2>5, <2>6, <2>7, <2>8 DEF Merging
  <2>10. Merging'
    BY <2>1, <2>9 DEF Merging
  <2>11. answer'.kind # "summary" /\ stage' \notin Early /\ stage' # "chunks"
    BY <1>1, <2>1 DEF SummaryInv, Early
  <2>12. text' \in Text /\ asked'.length \in AnyLength /\ next' \in Seq(Piece) /\ partFailed' \in BOOLEAN
    BY <2>1 DEF SummaryInv
  <2> QED
    BY <2>2, <2>10, <2>11, <2>12 DEF SummaryInv, SummaryIsWhole
<1> QED
  BY <1>3, <1>4

LEMMA LesserOfTwo ==
  ASSUME NEW x \in Nat, NEW y \in Nat
  PROVE  Min({x, y}) = IF x <= y THEN x ELSE y
BY DEF Min

LEMMA SubParts ==
  ASSUME NEW Q, NEW p \in Seq(Q), NEW m \in 1 .. Len(p) + 1, NEW k \in m - 1 .. Len(p)
  PROVE  SubSeq(p, m, k) \in Seq(Q)
OBVIOUS

LEMMA PartsOf ==
  ASSUME NEW p \in Seq(Piece), NEW m \in 1 .. Len(p) + 1, NEW k \in m - 1 .. Len(p)
  PROVE  /\ SubSeq(p, m, k) \in Seq(Piece) /\ SubSeq(p, k + 1, Len(p)) \in Seq(Piece)
         /\ Joined(SubSeq(p, m, Len(p))) = Joined(SubSeq(p, m, k)) \o Joined(SubSeq(p, k + 1, Len(p)))
<1>1. PICK n \in Nat : n = Len(p)
  OBVIOUS
<1>2. m \in Nat /\ k \in Int /\ k + 1 \in 1 .. n + 1 /\ n \in k .. n
  BY <1>1
<1>3. PICK a \in Seq(Piece) : a = SubSeq(p, m, k)
  BY SubParts
<1>4. PICK b \in Seq(Piece) : b = SubSeq(p, k + 1, n)
  <2>1. PICK c \in 1 .. Len(p) + 1 : c = k + 1 /\ Len(p) \in c - 1 .. Len(p)
    BY <1>1, <1>2
  <2>2. SubSeq(p, c, Len(p)) \in Seq(Piece)
    BY <2>1, SubParts
  <2> QED
    BY <1>1, <2>1, <2>2
<1>5. SubSeq(p, m, k) \o SubSeq(p, k + 1, n) = SubSeq(p, m, n)
  BY <1>1, <1>2, ConcatAdjacentSubSeq
<1>6. Joined(a \o b) = Joined(a) \o Joined(b)
  BY JoinedConcat
<1> QED
  BY <1>1, <1>3, <1>4, <1>5, <1>6

LEMMA MergingKeepsIt ==
  ASSUME SummaryInv, MergeAnswered
  PROVE  SummaryInv'
<1>1. stage = "merge" /\ Len(partials) > 1
      /\ UNCHANGED <<stage, asked, text, page, chunks, asking, partFailed, answer>>
  BY DEF MergeAnswered
<1>2. Merging /\ Divided
  BY <1>1 DEF SummaryInv
<1>3. PICK p \in Seq(Piece) : p = partials
  BY <1>2 DEF Merging
<1>4. PICK n \in Nat : n = Len(p) /\ n > 1 /\ ~(n <= 1) /\ n # 1
  BY <1>1, <1>3
<1>5. PICK x \in Seq(Piece) : x = next
  BY DEF SummaryInv
<1>6. PICK m \in Nat : m = Len(x) * MergeBatch
  <2>1. Len(x) \in Nat
    OBVIOUS
  <2> QED
    BY <2>1
<1>7. m < n
  BY <1>1, <1>2, <1>3, <1>4, <1>5, <1>6 DEF Merging
<1>8. PICK k \in Nat : k = BatchEnd /\ k = IF m + MergeBatch <= n THEN m + MergeBatch ELSE n
  <2>1. m + 1 + MergeBatch - 1 = m + MergeBatch /\ m + MergeBatch \in Nat
    OBVIOUS
  <2>2. BatchEnd = Min({m + MergeBatch, n})
    BY <1>3, <1>4, <1>5, <1>6, <2>1 DEF BatchEnd, BatchStart
  <2> QED
    BY <2>1, <2>2, LesserOfTwo
<1>9. m + 1 \in 1 .. n + 1 /\ k \in m + 1 - 1 .. n
  BY <1>7, <1>8
<1> PICK from \in 1 .. Len(p) + 1 : from = m + 1 /\ k \in from - 1 .. Len(p)
  BY <1>4, <1>9
<1>10. PICK now \in Seq(Piece) : now = SubSeq(p, m + 1, k)
  BY PartsOf
<1>11. PICK later \in Seq(Piece) : later = SubSeq(p, k + 1, n)
  BY <1>4, PartsOf
<1>12. Joined(SubSeq(p, m + 1, n)) = Joined(now) \o Joined(later)
  BY <1>4, <1>10, <1>11, PartsOf
<1>13. Told(text) = Joined(x) \o (Joined(now) \o Joined(later))
  BY <1>2, <1>3, <1>4, <1>5, <1>6, <1>12 DEF Merging
<1>14. asked.length \in AnyLength
  BY DEF SummaryInv
<1>15. PICK merged \in Piece : merged = Merged /\ merged.chars = Joined(now)
                               /\ merged.length = BatchLength
  <2>1. BatchLength \in AnyLength
    BY <1>14, MediumIs DEF BatchLength
  <2>2. Merged = Summary(Joined(now), BatchLength)
    BY <1>3, <1>5, <1>6, <1>8, <1>10 DEF Merged, BatchStart
  <2>3. Joined(now) \in Text
    BY JoinedType
  <2> QED
    BY <2>1, <2>2, <2>3, PieceIs
<1>16. PICK y \in Seq(Piece) : y = Append(x, merged) /\ Len(y) = Len(x) + 1
                               /\ y[Len(x) + 1] = merged
  BY AppendProperties
<1>17. Joined(y) = Joined(x) \o Joined(now)
  BY <1>15, <1>16, JoinedAppend
<1>18. Joined(x) \in Text /\ Joined(now) \in Text /\ Joined(later) \in Text /\ Joined(y) \in Text
  BY JoinedType
<1>19. Told(text) = Joined(y) \o Joined(later)
  <2>1. Regroups(Joined(x), Joined(now), Joined(later))
    BY <1>18, Regrouped
  <2> QED
    BY <1>13, <1>17, <2>1 DEF Regroups
<1>20. asking' = {}
  BY <1>1, <1>2 DEF Merging
<1>21. CASE k = n
  <2>1. partials' = y /\ next' = <<>>
    BY <1>3, <1>4, <1>5, <1>8, <1>15, <1>16, <1>21 DEF MergeAnswered
  <2>2. Len(next') * MergeBatch = 0
    <3>1. Len(next') = 0
      BY <2>1
    <3>2. 0 * MergeBatch = 0
      OBVIOUS
    <3> QED
      BY <3>1, <3>2
  <2>3. Joined(later) = <<>>
    <3>1. later = <<>>
      BY <1>4, <1>11, <1>21
    <3> QED
      BY <3>1, JoinedNone
  <2>4. Joined(y) = Told(text')
    BY <1>1, <1>18, <1>19, <2>3, NothingMore
  <2>5. SubSeq(partials', Len(next') * MergeBatch + 1, Len(partials')) = y
    <3>1. SubSeq(y, 1, Len(y)) = y
      BY WholeSeq
    <3>2. 0 + 1 = 1
      OBVIOUS
    <3> QED
      BY <2>1, <2>2, <3>1, <3>2
  <2>6. Joined(next') \o Joined(SubSeq(partials', Len(next') * MergeBatch + 1, Len(partials'))) = Told(text')
    <3>1. Joined(next') = <<>> /\ <<>> \o Joined(y) = Joined(y)
      BY <1>18, <2>1, JoinedNone, NothingMore
    <3> QED
      BY <2>4, <2>5, <3>1
  <2>7. Len(partials') = 1 => partials'[1].length = asked'.length
    <3> SUFFICES ASSUME Len(y) = 1 PROVE y[1].length = asked.length
      BY <1>1, <2>1
    <3>1. Len(x) = 0 /\ y[1] = merged
      <4>1. Len(x) \in Nat
        OBVIOUS
      <4>2. Len(x) = 0
        BY <1>16, <4>1
      <4> QED
        BY <1>16, <4>2
    <3>2. next = <<>>
      BY <1>5, <3>1
    <3>3. BatchLength = asked.length
      BY <1>3, <1>4, <1>8, <1>21, <3>2 DEF BatchLength
    <3> QED
      BY <1>15, <3>1, <3>3
  <2>8. Len(partials') > 1 => Len(next') * MergeBatch < Len(partials')
    <3>1. Len(y) \in Nat
      OBVIOUS
    <3> QED
      BY <2>1, <2>2, <3>1
  <2>9. Merging'
    BY <1>20, <2>1, <2>6, <2>7, <2>8 DEF Merging
  <2>10. next' \in Seq(Piece)
    BY <2>1
  <2>11. Divided'
    BY <1>1, <1>2 DEF Divided
  <2>12. answer'.kind # "summary" /\ stage' \notin Early /\ stage' # "chunks"
    BY <1>1 DEF SummaryInv, Early
  <2> QED
    BY <1>1, <2>9, <2>10, <2>11, <2>12 DEF SummaryInv, SummaryIsWhole
<1>22. CASE k # n
  <2>1. partials' = p /\ next' = y
    BY <1>3, <1>4, <1>5, <1>8, <1>15, <1>16, <1>22 DEF MergeAnswered
  <2>2. Len(next') * MergeBatch = k
    <3>1. Len(x) \in Nat /\ k = m + MergeBatch
      BY <1>8, <1>22
    <3>2. (Len(x) + 1) * MergeBatch = Len(x) * MergeBatch + MergeBatch
      BY <3>1
    <3> QED
      BY <1>6, <1>16, <2>1, <3>1, <3>2
  <2>3. k < n
    BY <1>8, <1>22
  <2>4. SubSeq(partials', Len(next') * MergeBatch + 1, Len(partials')) = later
    BY <1>4, <1>11, <2>1, <2>2
  <2>5. Joined(next') \o Joined(SubSeq(partials', Len(next') * MergeBatch + 1, Len(partials'))) = Told(text')
    BY <1>1, <1>19, <2>1, <2>4
  <2>10. partials' \in Seq(Piece) /\ ~(Len(partials') <= 1) /\ Len(partials') # 1
    <3>1. partials' = p
      BY <2>1
    <3>2. ~(Len(p) <= 1) /\ Len(p) # 1
      BY <1>4
    <3> QED
      BY <3>1, <3>2
  <2>11. Len(next') * MergeBatch < Len(partials')
    BY <1>4, <2>1, <2>2, <2>3
  <2>6. Merging'
    BY <1>20, <2>5, <2>10, <2>11, Zenon DEF Merging
  <2>7. next' \in Seq(Piece)
    BY <2>1
  <2>8. Divided'
    BY <1>1, <1>2 DEF Divided
  <2>9. answer'.kind # "summary" /\ stage' \notin Early /\ stage' # "chunks"
    BY <1>1 DEF SummaryInv, Early
  <2> QED
    BY <1>1, <2>6, <2>7, <2>8, <2>9 DEF SummaryInv, SummaryIsWhole
<1> QED
  BY <1>21, <1>22

LEMMA MergedKeepsIt ==
  ASSUME SummaryInv, MergeDone
  PROVE  SummaryInv'
<1>1. stage = "merge" /\ Len(partials) = 1 /\ stage' = "done" /\ answer' = partials[1]
      /\ UNCHANGED <<text, asked, page, chunks, partials, asking, partFailed, next>>
  BY DEF MergeDone, AnswerWith, Rest
<1>2. Merging /\ Divided
  BY <1>1 DEF SummaryInv
<1>3. PICK p \in Seq(Piece) : p = partials /\ Len(p) = 1
  BY <1>1, <1>2 DEF Merging
<1>4. PICK s \in Piece : s = p[1]
  BY <1>3
<1>5. next = <<>> /\ Len(next) * MergeBatch = 0
  <2>1. next = <<>> /\ Len(next) = 0
    BY <1>2, <1>3 DEF Merging
  <2>2. 0 * MergeBatch = 0
    OBVIOUS
  <2> QED
    BY <2>1, <2>2
<1>6. SubSeq(partials, Len(next) * MergeBatch + 1, Len(partials)) = Append(<<>>, s)
  <2>1. SubSeq(p, 1, 1) = p /\ p = Append(<<>>, s)
    BY <1>3, <1>4
  <2>2. 0 + 1 = 1
    OBVIOUS
  <2> QED
    BY <1>3, <1>5, <2>1, <2>2
<1>7. Joined(Append(<<>>, s)) = Joined(<<>>) \o s.chars
  <2>1. <<>> \in Seq(Piece)
    OBVIOUS
  <2> QED
    BY <2>1, JoinedAppend
<1>8. s.chars \in Text
  BY DEF Piece
<1>9. Joined(<<>>) = <<>> /\ <<>> \o s.chars = s.chars
  BY <1>8, JoinedNone, NothingMore
<1>10. s.chars = Told(text)
  <2>1. Joined(SubSeq(partials, Len(next) * MergeBatch + 1, Len(partials))) = s.chars
    BY <1>6, <1>7, <1>9
  <2>2. Joined(next) = <<>>
    BY <1>5, JoinedNone
  <2>3. Joined(next) \o Joined(SubSeq(partials, Len(next) * MergeBatch + 1, Len(partials)))
          = Told(text)
    BY <1>2 DEF Merging
  <2> QED
    BY <1>9, <2>1, <2>2, <2>3
<1>11. Len(chunks) # 1 => s.length = asked.length
  BY <1>2, <1>3, <1>4 DEF Merging
<1>12. asking = {} /\ \A i \in DOMAIN chunks : Len(chunks[i]) <= MaxChunk
  BY <1>2 DEF Merging, Divided
<1>13. answer' = s
  BY <1>1, <1>3, <1>4
<1>14. SummaryIsWhole'
  BY <1>1, <1>10, <1>11, <1>12, <1>13 DEF SummaryIsWhole
<1>15. stage' \notin Early /\ stage' \notin {"chunks", "merge"}
  BY <1>1 DEF Early
<1>16. text' \in Text /\ asked'.length \in AnyLength /\ next' \in Seq(Piece) /\ partFailed' \in BOOLEAN
  BY <1>1 DEF SummaryInv
<1> QED
  BY <1>1, <1>14, <1>15, <1>16 DEF SummaryInv

LEMMA SummaryInductive ==
  SummaryInv /\ [SummariesNext]_summaryVars => SummaryInv'
<1> SUFFICES ASSUME SummaryInv, [SummariesNext]_summaryVars PROVE SummaryInv'
  OBVIOUS
<1>1. CASE UNCHANGED summaryVars
  BY <1>1 DEF summaryVars, SummaryInv, Untouched, Divided, InPlace, Merging, SummaryIsWhole,
              Partial
<1>2. CASE SummariesNext
  BY <1>2, GettingKeepsIt, CuttingKeepsIt, AskingKeepsIt, AskedKeepsIt, MergingKeepsIt,
     MergedKeepsIt DEF SummariesNext
<1> QED
  BY <1>1, <1>2

\* However the calls for the parts are answered and their summaries are
\* merged, what is returned tells of the whole text, each place once and in
\* its order, with no call still under way, no part longer than a call takes,
\* and in the length that was asked for unless the text is one part.
THEOREM SummariesAreWhole == SummariesSpec => []SummaryIsWhole
<1>1. SummaryInv => SummaryIsWhole
  BY DEF SummaryInv
<1> QED
  BY <1>1, SummaryStarts, SummaryInductive, PTL DEF SummariesSpec

-----------------------------------------------------------------------------
(* The planner.                                                            *)

HIDE SummariesAssumption
USE PlannerAssumption

LEMMA HoursAreNumbers == Hour \subseteq Nat /\ \A h \in Hour : h <= Latest
BY DEF Hour

DraftFits(c) ==
  \/ draft[c] = NoDraft
  \/ draft[c].id \in EventId /\ draft[c].row \in Event
  \/ draft[c].id \in NoteId /\ draft[c].row \in Note

\* The rows are of their table's type, finitely many, and none was deleted.
PlannerInv ==
  /\ table \in [RowId -> Event \union Note \union {Absent}]
  /\ \A i \in EventId : table[i] \in Event \union {Absent}
  /\ \A i \in NoteId : table[i] \in Note \union {Absent}
  /\ draft \in [Caller -> {draft[c] : c \in Caller}]
  /\ \A c \in Caller : DraftFits(c)
  /\ gone \subseteq RowId
  /\ IsFiniteSet(Present)
  /\ DeletedStaysGone

LEMMA PlannerStarts == PlannerInit => PlannerInv
<1> SUFFICES ASSUME PlannerInit PROVE PlannerInv
  OBVIOUS
<1>1. Present = {}
  BY DEF PlannerInit, Present
<1>2. IsFiniteSet(Present)
  BY <1>1, FS_EmptySet
<1> QED
  BY <1>2 DEF PlannerInit, PlannerInv, DraftFits, DeletedStaysGone, RowId

\* A row is written: of its table's type, and not one that was deleted.
LEMMA RowWritten ==
  ASSUME PlannerInv, NEW i \in RowId, NEW row, table' = [table EXCEPT ![i] = row],
         i \in EventId => row \in Event \union {Absent},
         i \in NoteId => row \in Note \union {Absent},
         gone' \subseteq gone \union {i}, i \in gone' => row = Absent
  PROVE  /\ table' \in [RowId -> Event \union Note \union {Absent}]
         /\ \A k \in EventId : table'[k] \in Event \union {Absent}
         /\ \A k \in NoteId : table'[k] \in Note \union {Absent}
         /\ gone' \subseteq RowId /\ IsFiniteSet(Present') /\ DeletedStaysGone'
<1>1. table \in [RowId -> Event \union Note \union {Absent}] /\ gone \subseteq RowId
  BY DEF PlannerInv
<1>2. table' \in [RowId -> Event \union Note \union {Absent}]
  BY <1>1 DEF RowId
<1>3. table'[i] = row /\ \A k \in RowId : k # i => table'[k] = table[k]
  BY <1>1
<1>4. EventId \subseteq RowId /\ NoteId \subseteq RowId
  BY DEF RowId
<1>5. \A k \in EventId : table'[k] \in Event \union {Absent}
  BY <1>3, <1>4 DEF PlannerInv
<1>6. \A k \in NoteId : table'[k] \in Note \union {Absent}
  BY <1>3, <1>4 DEF PlannerInv
<1>7. Present' \subseteq Present \union {i}
  BY <1>3 DEF Present
<1>8. IsFiniteSet(Present \union {i})
  BY FS_AddElement DEF PlannerInv
<1>9. IsFiniteSet(Present')
  BY <1>7, <1>8, FS_Subset
<1>10. gone' \subseteq RowId
  BY <1>1
<1>11. DeletedStaysGone'
  BY <1>3, <1>10 DEF PlannerInv, DeletedStaysGone
<1> QED
  BY <1>2, <1>5, <1>6, <1>9, <1>10, <1>11

LEMMA PlannerWrites ==
  ASSUME PlannerInv
  PROVE  /\ \A i, j \in EventId, e, f \in Event : CreateEvents(i, j, e, f) => PlannerInv'
         /\ \A i \in NoteId : CreateNotes(i) => PlannerInv'
         /\ \A i \in RowId : DeleteRow(i) => PlannerInv'
         /\ \A c \in Caller : WriteBack(c) => PlannerInv'
<1>1. EventId \subseteq RowId /\ NoteId \subseteq RowId
  BY DEF RowId
<1>2. table \in [RowId -> Event \union Note \union {Absent}] /\ gone \subseteq RowId
  BY DEF PlannerInv
<1>3. ASSUME NEW i \in EventId, NEW j \in EventId, NEW e \in Event, NEW f \in Event,
             CreateEvents(i, j, e, f)
      PROVE  PlannerInv'
  <2>1. Fresh(i) /\ Fresh(j) /\ i # j /\ UNCHANGED <<draft, gone>>
        /\ table' = [k \in RowId |-> IF k = i /\ createOne(e) THEN e
                                     ELSE IF k = j /\ createOne(f) THEN f ELSE table[k]]
    BY <1>3 DEF CreateEvents
  <2>2. table' \in [RowId -> Event \union Note \union {Absent}]
    BY <1>2, <2>1
  <2>3. \A k \in RowId : table'[k] = table[k] \/ (k = i /\ table'[k] = e) \/ (k = j /\ table'[k] = f)
    BY <2>1
  <2>4. i \notin NoteId /\ j \notin NoteId
    OBVIOUS
  <2>5. \A k \in EventId : table'[k] \in Event \union {Absent}
    BY <1>1, <2>3 DEF PlannerInv
  <2>6. \A k \in NoteId : table'[k] \in Note \union {Absent}
    BY <1>1, <2>3, <2>4 DEF PlannerInv
  <2>7. Present' \subseteq (Present \union {i}) \union {j}
    BY <2>3 DEF Present
  <2>8. IsFiniteSet((Present \union {i}) \union {j})
    BY FS_AddElement DEF PlannerInv
  <2>9. IsFiniteSet(Present')
    BY <2>7, <2>8, FS_Subset
  <2>10. DeletedStaysGone'
    BY <1>2, <2>1, <2>3 DEF PlannerInv, DeletedStaysGone, Fresh
  <2>11. \A c \in Caller : DraftFits(c)'
    BY <2>1 DEF PlannerInv, DraftFits
  <2> QED
    BY <2>1, <2>2, <2>5, <2>6, <2>9, <2>10, <2>11 DEF PlannerInv
<1>4. ASSUME NEW i \in NoteId, CreateNotes(i) PROVE PlannerInv'
  <2>1. PICK pin \in BOOLEAN : table' = [table EXCEPT ![i] = [text |-> "new", pinned |-> pin]]
    BY <1>4 DEF CreateNotes
  <2>2. [text |-> "new", pinned |-> pin] \in Note
    BY DEF Note
  <2>3. i \in RowId /\ i \notin EventId /\ i \notin gone /\ UNCHANGED <<draft, gone>>
    BY <1>1, <1>4 DEF CreateNotes, Fresh
  <2>4. /\ table' \in [RowId -> Event \union Note \union {Absent}]
        /\ \A k \in EventId : table'[k] \in Event \union {Absent}
        /\ \A k \in NoteId : table'[k] \in Note \union {Absent}
        /\ gone' \subseteq RowId /\ IsFiniteSet(Present') /\ DeletedStaysGone'
    BY <2>1, <2>2, <2>3, RowWritten
  <2>5. \A c \in Caller : DraftFits(c)'
    BY <2>3 DEF PlannerInv, DraftFits
  <2> QED
    BY <2>3, <2>4, <2>5 DEF PlannerInv
<1>5. ASSUME NEW i \in RowId, DeleteRow(i) PROVE PlannerInv'
  <2>1. table' = [table EXCEPT ![i] = Absent] /\ gone' = gone \union {i} /\ draft' = draft
    BY <1>5 DEF DeleteRow
  <2>2. /\ table' \in [RowId -> Event \union Note \union {Absent}]
        /\ \A k \in EventId : table'[k] \in Event \union {Absent}
        /\ \A k \in NoteId : table'[k] \in Note \union {Absent}
        /\ gone' \subseteq RowId /\ IsFiniteSet(Present') /\ DeletedStaysGone'
    BY <2>1, RowWritten
  <2>3. \A c \in Caller : DraftFits(c)'
    BY <2>1 DEF PlannerInv, DraftFits
  <2> QED
    BY <2>1, <2>2, <2>3 DEF PlannerInv
<1>6. ASSUME NEW c \in Caller, WriteBack(c) PROVE PlannerInv'
  <2>1. /\ draft[c] # NoDraft /\ table' = UpdateRow(draft[c].id, draft[c].row)
        /\ draft' = [draft EXCEPT ![c] = NoDraft] /\ gone' = gone
    BY <1>6 DEF WriteBack
  <2>2. DraftFits(c)
    BY DEF PlannerInv
  <2>3. DOMAIN draft = Caller
    BY DEF PlannerInv
  <2>4. \A d \in Caller : draft'[d] = NoDraft \/ draft'[d] = draft[d]
    BY <2>1, <2>3
  <2>5. \A d \in Caller : DraftFits(d)'
    BY <2>4 DEF PlannerInv, DraftFits
  <2>6. draft' \in [Caller -> {draft'[d] : d \in Caller}]
    BY <2>1, <2>3
  <2>7. CASE draft[c].id \in Present
    <3>1. table' = [table EXCEPT ![draft[c].id] = draft[c].row] /\ draft[c].id \in RowId
      BY <2>1, <2>7 DEF UpdateRow, Present
    <3>2. draft[c].id \in EventId => draft[c].row \in Event
      BY <2>1, <2>2 DEF DraftFits
    <3>3. draft[c].id \in NoteId => draft[c].row \in Note
      BY <2>1, <2>2 DEF DraftFits
    <3>4. draft[c].id \notin gone'
      BY <2>1, <2>7 DEF PlannerInv, DeletedStaysGone, Present
    <3>5. /\ table' \in [RowId -> Event \union Note \union {Absent}]
          /\ \A k \in EventId : table'[k] \in Event \union {Absent}
          /\ \A k \in NoteId : table'[k] \in Note \union {Absent}
          /\ gone' \subseteq RowId /\ IsFiniteSet(Present') /\ DeletedStaysGone'
      BY <2>1, <3>1, <3>2, <3>3, <3>4, RowWritten
    <3> QED
      BY <2>5, <2>6, <3>5 DEF PlannerInv
  <2>8. CASE draft[c].id \notin Present
    <3>1. table' = table
      BY <2>1, <2>8 DEF UpdateRow
    <3>2. Present' = Present /\ DeletedStaysGone'
      BY <2>1, <3>1 DEF Present, PlannerInv, DeletedStaysGone
    <3> QED
      BY <2>1, <2>5, <2>6, <3>1, <3>2 DEF PlannerInv
  <2> QED
    BY <2>7, <2>8
<1> QED
  BY <1>3, <1>4, <1>5, <1>6

LEMMA PlannerReads ==
  ASSUME PlannerInv, NEW c \in Caller, NEW i, NEW row, ReadRow(c, i, row),
         (i \in EventId /\ row \in Event) \/ (i \in NoteId /\ row \in Note)
  PROVE  PlannerInv'
<1>1. draft' = [draft EXCEPT ![c] = [id |-> i, row |-> row]] /\ UNCHANGED <<table, gone>>
  BY DEF ReadRow
<1>2. DOMAIN draft = Caller
  BY DEF PlannerInv
<1>3. draft'[c] = [id |-> i, row |-> row] /\ \A d \in Caller : d # c => draft'[d] = draft[d]
  BY <1>1, <1>2
<1>4. DraftFits(c)'
  BY <1>3 DEF DraftFits
<1>5. \A d \in Caller : DraftFits(d)'
  BY <1>3, <1>4 DEF PlannerInv, DraftFits
<1>6. draft' \in [Caller -> {draft'[d] : d \in Caller}]
  BY <1>1, <1>2
<1>7. Present' = Present /\ DeletedStaysGone'
  BY <1>1 DEF Present, PlannerInv, DeletedStaysGone
<1> QED
  BY <1>1, <1>5, <1>6, <1>7 DEF PlannerInv

LEMMA PlannerInductive == PlannerInv /\ [PlannerNext]_plannerVars => PlannerInv'
<1> SUFFICES ASSUME PlannerInv, [PlannerNext]_plannerVars PROVE PlannerInv'
  OBVIOUS
<1>1. CASE UNCHANGED plannerVars
  BY <1>1 DEF plannerVars, PlannerInv, DraftFits, Present, DeletedStaysGone
<1>2. ASSUME NEW c \in Caller, NEW i \in RowId, updateEvent(c, i) PROVE PlannerInv'
  <2>1. i \in EventId /\ table[i] \in Event
    BY <1>2 DEF updateEvent, Present, PlannerInv
  <2>2. PICK t \in Hour : \/ ReadRow(c, i, [table[i] EXCEPT !.start = t])
                          \/ ReadRow(c, i, [table[i] EXCEPT !.end = t])
    BY <1>2 DEF updateEvent
  <2>3. [table[i] EXCEPT !.start = t] \in Event /\ [table[i] EXCEPT !.end = t] \in Event
    BY <2>1 DEF Event
  <2> QED
    BY <2>1, <2>2, <2>3, PlannerReads
<1>3. ASSUME NEW c \in Caller, NEW i \in RowId, updateNote(c, i) \/ PinNote(c, i) PROVE PlannerInv'
  <2>1. i \in NoteId /\ table[i] \in Note
    BY <1>3 DEF updateNote, PinNote, Present, PlannerInv
  <2>2. /\ [table[i] EXCEPT !.text = "edited"] \in Note
        /\ \A pin \in BOOLEAN : [table[i] EXCEPT !.pinned = pin] \in Note
    BY <2>1 DEF Note
  <2>3. PICK row \in Note : ReadRow(c, i, row)
    BY <1>3, <2>2 DEF updateNote, PinNote
  <2> QED
    BY <2>1, <2>3, PlannerReads
<1> QED
  BY <1>1, <1>2, <1>3, PlannerWrites DEF PlannerNext

(* The search for free time.                                               *)

\* The furthest end of the first n events, and the slots up to them.
CursorOf(f, ids, from, n) ==
  f[0] = from /\ \A k \in 1 .. n : f[k] = Moves(f[k - 1], table[ids[k]])

FreeOf(g, f, ids, min, n) ==
  g[0] = <<>> /\ \A k \in 1 .. n : g[k] = g[k - 1] \o SlotOf(f[k - 1], table[ids[k]].start, min)

Slot == [start : Nat, end : Nat]

LEMMA SlotIs ==
  ASSUME NEW a \in Nat, NEW b \in Nat, NEW min \in Nat
  PROVE  /\ SlotOf(a, b, min) \in Seq(Slot)
         /\ (b > a /\ b - a >= min) => SlotOf(a, b, min) = <<[start |-> a, end |-> b]>>
         /\ ~(b > a /\ b - a >= min) => SlotOf(a, b, min) = <<>>
<1>1. CASE b > a /\ b - a >= min
  <2>1. SlotOf(a, b, min) = <<[start |-> a, end |-> b]>>
    BY <1>1 DEF SlotOf
  <2>2. [start |-> a, end |-> b] \in Slot
    BY DEF Slot
  <2>3. <<[start |-> a, end |-> b]>> \in Seq(Slot)
    BY <2>2
  <2> QED
    BY <1>1, <2>1, <2>3
<1>2. CASE ~(b > a /\ b - a >= min)
  <2>1. SlotOf(a, b, min) = <<>>
    BY <1>2 DEF SlotOf
  <2> QED
    BY <1>2, <2>1
<1> QED
  BY <1>1, <1>2

\* What the search gives back is what these two make of the listing.
Searched(ids, from, to, min, n) ==
  \E f \in [0 .. n -> Nat], g \in [0 .. n -> Seq(Slot)] :
      /\ CursorOf(f, ids, from, n) /\ FreeOf(g, f, ids, min, n)
      /\ FindAvailableSlots(ids, from, to, min) = g[n] \o SlotOf(f[n], to, min)

LEMMA SearchIs ==
  ASSUME NEW n \in Nat, NEW ids, Len(ids) = n, NEW from \in Nat, NEW to \in Nat, NEW min \in Nat,
         \A k \in 1 .. n : table[ids[k]].start \in Nat /\ table[ids[k]].end \in Nat
  PROVE  Searched(ids, from, to, min, n)
<1> DEFINE e(k) == table[ids[k]]
           F == [p \in Nat \X Nat |-> IF p[1] \in 1 .. n THEN Moves(p[2], e(p[1])) ELSE p[2]]
           Body(h) == [k \in 0 .. n |-> IF k = 0 THEN from ELSE Moves(h[k - 1], e(k))]
<1>1. ASSUME NEW k \in 1 .. n, NEW v \in Nat PROVE Moves(v, e(k)) \in Nat
  BY DEF Moves
<1>2. F \in [Nat \X Nat -> Nat]
  <2> SUFFICES ASSUME NEW p \in Nat \X Nat
               PROVE  (IF p[1] \in 1 .. n THEN Moves(p[2], e(p[1])) ELSE p[2]) \in Nat
    OBVIOUS
  <2> HIDE DEF e
  <2> QED
    BY <1>1
<1> HIDE DEF e
<1>3. ASSUME NEW k \in 1 .. n, NEW v \in Nat PROVE F[<<k, v>>] = Moves(v, e(k))
  <2>1. <<k, v>> \in Nat \X Nat
    OBVIOUS
  <2> QED
    BY <2>1
<1> HIDE DEF F
<1>4. PICK f \in [0 .. n -> Nat] : f[0] = from /\ \A k \in 1 .. n : f[k] = F[<<k, f[k - 1]>>]
  <2>1. Reached(Nat, from, F, n)
    BY <1>2, ValuesExist
  <2> QED
    BY <2>1 DEF Reached
<1>5. \A k \in 1 .. n : k - 1 \in 0 .. n /\ k \in 0 .. n /\ k # 0
  OBVIOUS
<1>6. \A k \in 1 .. n : f[k] = Moves(f[k - 1], e(k))
  BY <1>3, <1>4, <1>5
<1>7. f = Body(f)
  <2>1. \A k \in 0 .. n : f[k] = IF k = 0 THEN from ELSE Moves(f[k - 1], e(k))
    BY <1>4, <1>6
  <2> QED
    BY <2>1
<1> DEFINE c == CHOOSE h : h = Body(h)
<1>8. c = Body(c)
  <2> HIDE DEF Body
  <2> QED
    BY <1>7
<1> HIDE DEF c
<1>9. c[0] = from /\ \A k \in 1 .. n : c[k] = Moves(c[k - 1], e(k))
  <2>1. \A k \in 0 .. n : c[k] = IF k = 0 THEN from ELSE Moves(c[k - 1], e(k))
    BY <1>8
  <2>2. 0 \in 0 .. n
    OBVIOUS
  <2> QED
    BY <1>5, <2>1, <2>2
<1> DEFINE bad == {k \in Nat : k <= n /\ c[k] # f[k]}
<1>10. bad = {}
  <2> SUFFICES ASSUME bad # {} PROVE FALSE
    OBVIOUS
  <2>1. bad \in SUBSET Nat
    OBVIOUS
  <2>2. PICK k \in bad : \A y \in bad : k <= y
    BY <2>1, Smallest
  <2>3. k # 0
    BY <1>4, <1>9, <2>2
  <2>4. k \in 1 .. n /\ k - 1 \in Nat /\ k - 1 <= n /\ ~(k <= k - 1)
    BY <2>2, <2>3
  <2>5. c[k - 1] = f[k - 1]
    BY <2>2, <2>4
  <2> QED
    BY <1>6, <1>9, <2>2, <2>4, <2>5
<1>11. \A k \in 0 .. n : c[k] = f[k]
  BY <1>10
<1>12. c = f
  <2>1. c = [k \in 0 .. n |-> c[k]]
    BY <1>8
  <2>2. f = [k \in 0 .. n |-> f[k]]
    OBVIOUS
  <2> QED
    BY <1>11, <2>1, <2>2
<1> DEFINE s(k) == SlotOf(f[k - 1], e(k).start, min)
           G == [p \in Nat \X Seq(Slot) |-> IF p[1] \in 1 .. n THEN p[2] \o s(p[1]) ELSE p[2]]
           Parts(h) == [k \in 0 .. n |-> IF k = 0 THEN <<>> ELSE h[k - 1] \o s(k)]
<1>13. \A k \in 1 .. n : s(k) \in Seq(Slot)
  <2> SUFFICES ASSUME NEW k \in 1 .. n PROVE s(k) \in Seq(Slot)
    OBVIOUS
  <2>1. f[k - 1] \in Nat /\ e(k).start \in Nat
    BY <1>5 DEF e
  <2> QED
    BY <2>1, SlotIs
<1> HIDE DEF s
<1>14. G \in [Nat \X Seq(Slot) -> Seq(Slot)]
  <2> SUFFICES ASSUME NEW p \in Nat \X Seq(Slot)
               PROVE  (IF p[1] \in 1 .. n THEN p[2] \o s(p[1]) ELSE p[2]) \in Seq(Slot)
    OBVIOUS
  <2>1. p[2] \in Seq(Slot)
    OBVIOUS
  <2>2. ASSUME p[1] \in 1 .. n PROVE p[2] \o s(p[1]) \in Seq(Slot)
    <3>1. PICK q \in Seq(Slot) : q = p[2]
      BY <2>1
    <3>2. PICK r \in Seq(Slot) : r = s(p[1])
      BY <1>13, <2>2
    <3>3. q \o r \in Seq(Slot)
      BY ConcatProperties
    <3> QED
      BY <3>1, <3>2, <3>3
  <2> QED
    BY <2>1, <2>2
<1>15. ASSUME NEW k \in 1 .. n, NEW v \in Seq(Slot) PROVE G[<<k, v>>] = v \o s(k)
  <2>1. <<k, v>> \in Nat \X Seq(Slot)
    OBVIOUS
  <2> QED
    BY <2>1
<1> HIDE DEF G
<1>16. PICK g \in [0 .. n -> Seq(Slot)] : g[0] = <<>> /\ \A k \in 1 .. n : g[k] = G[<<k, g[k - 1]>>]
  <2>1. <<>> \in Seq(Slot)
    OBVIOUS
  <2>2. Reached(Seq(Slot), <<>>, G, n)
    BY <1>14, <2>1, ValuesExist
  <2> QED
    BY <2>2 DEF Reached
<1>17. \A k \in 1 .. n : g[k] = g[k - 1] \o s(k)
  BY <1>5, <1>15, <1>16
<1>18. g = Parts(g)
  <2>1. ASSUME NEW k \in 0 .. n PROVE g[k] = IF k = 0 THEN <<>> ELSE g[k - 1] \o s(k)
    <3>1. CASE k = 0
      BY <1>16, <3>1
    <3>2. CASE k # 0
      <4>1. k \in 1 .. n
        BY <3>2
      <4> QED
        BY <1>17, <3>2, <4>1
    <3> QED
      BY <3>1, <3>2
  <2> QED
    BY <2>1
<1> DEFINE d == CHOOSE h : h = Parts(h)
<1>19. d = Parts(d)
  <2> HIDE DEF Parts
  <2> QED
    BY <1>18
<1> HIDE DEF d
<1>20. d[0] = <<>> /\ \A k \in 1 .. n : d[k] = d[k - 1] \o s(k)
  <2>1. \A k \in 0 .. n : d[k] = IF k = 0 THEN <<>> ELSE d[k - 1] \o s(k)
    BY <1>19
  <2>2. 0 \in 0 .. n
    OBVIOUS
  <2> QED
    BY <1>5, <2>1, <2>2
<1> DEFINE worse == {k \in Nat : k <= n /\ d[k] # g[k]}
<1>21. worse = {}
  <2> SUFFICES ASSUME worse # {} PROVE FALSE
    OBVIOUS
  <2>1. worse \in SUBSET Nat
    OBVIOUS
  <2>2. PICK k \in worse : \A y \in worse : k <= y
    BY <2>1, Smallest
  <2>3. k # 0
    BY <1>16, <1>20, <2>2
  <2>4. k \in 1 .. n /\ k - 1 \in Nat /\ k - 1 <= n /\ ~(k <= k - 1)
    BY <2>2, <2>3
  <2>5. d[k - 1] = g[k - 1]
    BY <2>2, <2>4
  <2> QED
    BY <1>17, <1>20, <2>2, <2>4, <2>5
<1>22. d[n] = g[n]
  <2>1. n \notin worse
    <3> HIDE DEF worse
    <3> QED
      BY <1>21
  <2>2. n \in Nat /\ n <= n
    OBVIOUS
  <2> QED
    BY <2>1, <2>2
<1>23. FindAvailableSlots(ids, from, to, min) = d[n] \o SlotOf(c[n], to, min)
  <2>1. c = CHOOSE h : h = [k \in 0 .. n |-> IF k = 0 THEN from ELSE Moves(h[k - 1], table[ids[k]])]
    BY DEF c, e
  <2>2. d = CHOOSE h : h = [k \in 0 .. n |-> IF k = 0 THEN <<>>
                              ELSE h[k - 1] \o SlotOf(c[k - 1], table[ids[k]].start, min)]
    BY <1>12 DEF d, s, e
  <2> HIDE DEF Body, Parts
  <2> QED
    BY <2>1, <2>2 DEF FindAvailableSlots
<1>24. CursorOf(f, ids, from, n)
  BY <1>4, <1>6 DEF CursorOf, e
<1>25. FreeOf(g, f, ids, min, n)
  BY <1>16, <1>17 DEF FreeOf, s, e
<1>26. FindAvailableSlots(ids, from, to, min) = g[n] \o SlotOf(f[n], to, min)
  BY <1>12, <1>22, <1>23
<1> QED
  BY <1>24, <1>25, <1>26 DEF Searched

\* An end of every event before is behind the cursor, and the cursor at one of them.
LEMMA CursorIs ==
  ASSUME NEW n \in Nat, NEW ids, NEW from \in Nat, NEW f \in [0 .. n -> Nat], CursorOf(f, ids, from, n),
         \A k \in 1 .. n : table[ids[k]].start \in Nat /\ table[ids[k]].end \in Nat
  PROVE  /\ \A k \in 0 .. n : from <= f[k]
         /\ \A k \in 0 .. n : \A m \in 1 .. k : table[ids[m]].end <= f[k]
         /\ \A k \in 0 .. n, a \in Nat :
              from <= a /\ (\A m \in 1 .. k : table[ids[m]].end <= a) => f[k] <= a
<1> DEFINE ends(k) == table[ids[k]].end
           Fits(k) == /\ from <= f[k] /\ \A m \in 1 .. k : ends(m) <= f[k]
                      /\ \A a \in Nat : from <= a /\ (\A m \in 1 .. k : ends(m) <= a) => f[k] <= a
           bad == {k \in Nat : k <= n /\ ~Fits(k)}
<1>1. \A k \in 1 .. n : ends(k) \in Nat /\ f[k] = IF ends(k) > f[k - 1] THEN ends(k) ELSE f[k - 1]
  BY DEF CursorOf, Moves
<1>2. f[0] = from
  BY DEF CursorOf
<1> HIDE DEF ends
<1>3. bad = {}
  <2> SUFFICES ASSUME bad # {} PROVE FALSE
    OBVIOUS
  <2>1. bad \in SUBSET Nat
    OBVIOUS
  <2>2. PICK k \in bad : \A y \in bad : k <= y
    BY <2>1, Smallest
  <2>3. CASE k = 0
    BY <1>2, <2>2, <2>3
  <2>4. CASE k # 0
    <3>1. k \in 1 .. n /\ ~(k <= k - 1)
      BY <2>2, <2>4
    <3>2. PICK j \in Nat : j = k - 1 /\ j <= n /\ j \in 0 .. n /\ k \in 0 .. n
      BY <3>1
    <3>3. Fits(j)
      BY <2>2, <3>1, <3>2
    <3>4. f[j] \in Nat /\ f[k] \in Nat /\ ends(k) \in Nat /\ f[k] = IF ends(k) > f[j] THEN ends(k) ELSE f[j]
      BY <1>1, <3>1, <3>2
    <3>5. \A m \in 1 .. k : m \in 1 .. j \/ m = k
      BY <3>1, <3>2
    <3>6. \A m \in 1 .. j : m \in 1 .. k /\ ends(m) \in Nat
      BY <1>1, <3>1, <3>2
    <3>7. from <= f[k]
      <4>1. from <= f[j]
        BY <3>3
      <4>2. CASE ends(k) > f[j]
        BY <3>4, <4>1, <4>2
      <4>3. CASE ~(ends(k) > f[j])
        BY <3>4, <4>1, <4>3
      <4> QED
        BY <4>2, <4>3
    <3>8. ASSUME NEW m \in 1 .. k PROVE ends(m) <= f[k]
      <4>1. CASE m = k
        BY <3>4, <4>1
      <4>2. CASE m # k
        <5>1. ends(m) <= f[j] /\ ends(m) \in Nat
          BY <3>3, <3>5, <3>6, <4>2
        <5>2. f[j] <= f[k]
          BY <3>4
        <5> QED
          BY <3>4, <5>1, <5>2
      <4> QED
        BY <4>1, <4>2
    <3>9. ASSUME NEW a \in Nat, from <= a, \A m \in 1 .. k : ends(m) <= a PROVE f[k] <= a
      <4>1. k \in 1 .. k /\ \A m \in 1 .. j : ends(m) <= a
        BY <3>1, <3>6, <3>9
      <4>2. f[j] <= a
        BY <3>3, <3>9, <4>1
      <4> QED
        BY <3>4, <3>9, <4>1, <4>2
    <3> QED
      BY <2>2, <3>7, <3>8, <3>9
  <2> QED
    BY <2>3, <2>4
<1>4. \A k \in 0 .. n : Fits(k)
  <2> SUFFICES ASSUME NEW k \in 0 .. n PROVE Fits(k)
    OBVIOUS
  <2>1. k \in Nat /\ k <= n
    OBVIOUS
  <2>2. k \notin bad
    <3> HIDE DEF bad
    <3> QED
      BY <1>3
  <2> HIDE DEF Fits
  <2> QED
    BY <2>1, <2>2
<1> QED
  BY <1>4 DEF ends

\* A gap of the length asked for, from the cursor up to the event at j.
IsGap(x, f, ids, min, j) ==
  /\ x = [start |-> f[j - 1], end |-> table[ids[j]].start]
  /\ table[ids[j]].start > f[j - 1] /\ table[ids[j]].start - f[j - 1] >= min

LEMMA SlotSet ==
  ASSUME NEW a \in Nat, NEW b \in Nat, NEW min \in Nat
  PROVE  ToSet(SlotOf(a, b, min)) = IF b > a /\ b - a >= min THEN {[start |-> a, end |-> b]} ELSE {}
<1>1. CASE b > a /\ b - a >= min
  <2>1. SlotOf(a, b, min) = <<[start |-> a, end |-> b]>>
    BY <1>1, SlotIs
  <2> QED
    BY <1>1, <2>1 DEF ToSet
<1>2. CASE ~(b > a /\ b - a >= min)
  <2>1. SlotOf(a, b, min) = <<>>
    BY <1>2, SlotIs
  <2>2. ToSet(<<>>) = {}
    BY DEF ToSet
  <2> QED
    BY <1>2, <2>1, <2>2
<1> QED
  BY <1>1, <1>2

LEMMA SetOfBoth ==
  ASSUME NEW Q, NEW p \in Seq(Q), NEW q \in Seq(Q)
  PROVE  ToSet(p \o q) = ToSet(p) \union ToSet(q)
<1>1. PICK n \in Nat : n = Len(p) /\ DOMAIN p = 1 .. n
  OBVIOUS
<1>2. PICK m \in Nat : m = Len(q) /\ DOMAIN q = 1 .. m
  OBVIOUS
<1>3. PICK r \in Seq(Q) : r = p \o q /\ DOMAIN r = 1 .. n + m
  <2>1. p \o q \in Seq(Q) /\ Len(p \o q) = n + m
    BY <1>1, <1>2, ConcatProperties
  <2>2. DOMAIN (p \o q) = 1 .. n + m
    BY <2>1
  <2> QED
    BY <2>1, <2>2
<1>4. \A i \in 1 .. n + m : r[i] = IF i <= n THEN p[i] ELSE q[i - n]
  BY <1>1, <1>2, <1>3
<1>5. ASSUME NEW i \in 1 .. n + m PROVE r[i] \in ToSet(p) \union ToSet(q)
  <2>1. CASE i <= n
    <3>1. i \in DOMAIN p /\ r[i] = p[i]
      BY <1>1, <1>4, <2>1
    <3> QED
      BY <3>1 DEF ToSet
  <2>2. CASE ~(i <= n)
    <3>1. i - n \in DOMAIN q /\ r[i] = q[i - n]
      BY <1>2, <1>4, <2>2
    <3> QED
      BY <3>1 DEF ToSet
  <2> QED
    BY <2>1, <2>2
<1>6. ASSUME NEW i \in 1 .. n PROVE p[i] \in ToSet(r)
  <2>1. i \in DOMAIN r /\ r[i] = p[i]
    BY <1>3, <1>4
  <2> QED
    BY <2>1 DEF ToSet
<1>7. ASSUME NEW i \in 1 .. m PROVE q[i] \in ToSet(r)
  <2>1. i + n \in 1 .. n + m /\ ~(i + n <= n) /\ (i + n) - n = i
    OBVIOUS
  <2>2. i + n \in DOMAIN r /\ r[i + n] = q[i]
    BY <1>3, <1>4, <2>1
  <2> QED
    BY <2>2 DEF ToSet
<1>8. ToSet(r) \subseteq ToSet(p) \union ToSet(q)
  BY <1>3, <1>5 DEF ToSet
<1>9. ToSet(p) \subseteq ToSet(r) /\ ToSet(q) \subseteq ToSet(r)
  BY <1>1, <1>2, <1>6, <1>7 DEF ToSet
<1> QED
  BY <1>3, <1>8, <1>9

BothIn(p, q) == ToSet(p \o q) = ToSet(p) \union ToSet(q)

LEMMA SlotsOfBoth ==
  ASSUME NEW p \in Seq(Slot), NEW q \in Seq(Slot)
  PROVE  BothIn(p, q)
BY SetOfBoth DEF BothIn

LEMMA FreeIs ==
  ASSUME NEW n \in Nat, NEW ids, NEW min \in Nat, NEW f \in [0 .. n -> Nat],
         NEW g \in [0 .. n -> Seq(Slot)], FreeOf(g, f, ids, min, n),
         \A k \in 1 .. n : table[ids[k]].start \in Nat
  PROVE  \A x : x \in ToSet(g[n]) <=> \E j \in 1 .. n : IsGap(x, f, ids, min, j)
<1> DEFINE Fits(k) == \A x : x \in ToSet(g[k]) <=> \E j \in 1 .. k : IsGap(x, f, ids, min, j)
           bad == {k \in Nat : k <= n /\ ~Fits(k)}
<1>1. Fits(0)
  <2>1. g[0] = <<>>
    BY DEF FreeOf
  <2>2. ToSet(<<>>) = {}
    BY DEF ToSet
  <2> QED
    BY <2>1, <2>2
<1>2. ASSUME NEW k \in 1 .. n, Fits(k - 1) PROVE Fits(k)
  <2> DEFINE s == SlotOf(f[k - 1], table[ids[k]].start, min)
  <2>1. PICK a \in Nat : a = f[k - 1] /\ g[k - 1] \in Seq(Slot)
    <3>1. k - 1 \in 0 .. n
      OBVIOUS
    <3> QED
      BY <3>1
  <2>2. PICK b \in Nat : b = table[ids[k]].start
    OBVIOUS
  <2>3. s \in Seq(Slot)
    BY <2>1, <2>2, SlotIs
  <2>4. ToSet(s) = IF b > a /\ b - a >= min THEN {[start |-> a, end |-> b]} ELSE {}
    BY <2>1, <2>2, SlotSet
  <2>5. g[k] = g[k - 1] \o s
    BY DEF FreeOf
  <2> HIDE DEF s
  <2>6. BothIn(g[k - 1], s)
    BY <2>1, <2>3, SlotsOfBoth
  <2>7. ToSet(g[k]) = ToSet(g[k - 1]) \union ToSet(s)
    BY <2>5, <2>6 DEF BothIn
  <2>8. \A x : x \in ToSet(s) <=> IsGap(x, f, ids, min, k)
    BY <2>1, <2>2, <2>4 DEF IsGap
  <2>9. \A j : j \in 1 .. k <=> j \in 1 .. k - 1 \/ j = k
    OBVIOUS
  <2> QED
    BY <1>2, <2>7, <2>8, <2>9
<1> HIDE DEF Fits
<1>3. bad = {}
  <2> SUFFICES ASSUME bad # {} PROVE FALSE
    OBVIOUS
  <2>1. bad \in SUBSET Nat
    OBVIOUS
  <2>2. PICK k \in bad : \A y \in bad : k <= y
    BY <2>1, Smallest
  <2>3. k # 0
    BY <1>1, <2>2
  <2>4. k \in 1 .. n /\ k - 1 \in Nat /\ k - 1 <= n /\ ~(k <= k - 1)
    BY <2>2, <2>3
  <2>5. Fits(k - 1)
    BY <2>2, <2>4
  <2> QED
    BY <1>2, <2>2, <2>4, <2>5
<1>4. Fits(n)
  <2>1. n \in Nat /\ n <= n
    OBVIOUS
  <2>2. n \notin bad
    <3> HIDE DEF bad
    <3> QED
      BY <1>3
  <2> QED
    BY <2>1, <2>2
<1> QED
  BY <1>4 DEF Fits

\* Of a listing by start, what the search gives back is the free time.
LEMMA FreeTime ==
  ASSUME NEW n \in Nat, NEW ids, Len(ids) = n, NEW from \in Nat, NEW to \in Nat,
         NEW min \in Nat \ {0},
         \A k \in 1 .. n : table[ids[k]].start \in from .. to /\ table[ids[k]].end \in Nat,
         \A j, k \in 1 .. n : j < k => table[ids[j]].start <= table[ids[k]].start,
         NEW events, events = {table[ids[k]] : k \in 1 .. n},
         NEW free, free = FindAvailableSlots(ids, from, to, min)
  PROVE  OnlyFreeTime(free, events, from, to, min) /\ AllFreeTime(free, events, from, to, min)
<1> DEFINE start(k) == table[ids[k]].start
           end(k) == table[ids[k]].end
<1>1. \A k \in 1 .. n : start(k) \in Nat /\ from <= start(k) /\ start(k) <= to /\ end(k) \in Nat
  OBVIOUS
<1>2. PICK f \in [0 .. n -> Nat], g \in [0 .. n -> Seq(Slot)] :
          /\ CursorOf(f, ids, from, n) /\ FreeOf(g, f, ids, min, n)
          /\ free = g[n] \o SlotOf(f[n], to, min)
  <2>1. \A k \in 1 .. n : table[ids[k]].start \in Nat /\ table[ids[k]].end \in Nat
    BY <1>1
  <2>2. min \in Nat
    OBVIOUS
  <2> HIDE DEF start, end
  <2>3. Searched(ids, from, to, min, n)
    BY <2>1, <2>2, SearchIs
  <2> QED
    BY <2>3 DEF Searched
<1>3. /\ \A k \in 0 .. n : from <= f[k]
      /\ \A k \in 0 .. n : \A m \in 1 .. k : end(m) <= f[k]
      /\ \A k \in 0 .. n, a \in Nat : from <= a /\ (\A m \in 1 .. k : end(m) <= a) => f[k] <= a
  BY <1>1, <1>2, CursorIs
<1>4. \A x : x \in ToSet(g[n]) <=> \E j \in 1 .. n : IsGap(x, f, ids, min, j)
  BY <1>1, <1>2, FreeIs
<1>5. PICK last \in Seq(Slot) : last = SlotOf(f[n], to, min)
  <2>1. f[n] \in Nat
    OBVIOUS
  <2> QED
    BY <2>1, SlotIs
<1>6. ToSet(last) = IF to > f[n] /\ to - f[n] >= min THEN {[start |-> f[n], end |-> to]} ELSE {}
  <2>1. PICK a \in Nat : a = f[n]
    OBVIOUS
  <2> QED
    BY <1>5, <2>1, SlotSet
<1>7. ToSet(free) = ToSet(g[n]) \union ToSet(last)
  <2>1. g[n] \in Seq(Slot)
    OBVIOUS
  <2>2. BothIn(g[n], last)
    BY <2>1, SlotsOfBoth
  <2> QED
    BY <1>2, <1>5, <2>2 DEF BothIn
<1>8. \A e \in events : \E m \in 1 .. n : e.start = start(m) /\ e.end = end(m)
  OBVIOUS
<1>9. \A m \in 1 .. n : \E e \in events : e.start = start(m) /\ e.end = end(m)
  OBVIOUS
<1>10. \A j, k \in 1 .. n : j < k => start(j) <= start(k)
  OBVIOUS
<1>11. \A x, j : IsGap(x, f, ids, min, j) <=>
          x = [start |-> f[j - 1], end |-> start(j)] /\ start(j) > f[j - 1] /\ start(j) - f[j - 1] >= min
  BY DEF IsGap
<1> HIDE DEF start, end
<1>12. \A j \in 1 .. n : j - 1 \in 0 .. n /\ f[j - 1] \in Nat /\ from <= f[j - 1]
  <2> SUFFICES ASSUME NEW j \in 1 .. n PROVE j - 1 \in 0 .. n /\ f[j - 1] \in Nat /\ from <= f[j - 1]
    OBVIOUS
  <2>1. j - 1 \in 0 .. n
    OBVIOUS
  <2> QED
    BY <1>3, <2>1
<1>13. n \in 0 .. n /\ f[n] \in Nat /\ from <= f[n]
  BY <1>3
<1>14. ASSUME NEW x \in ToSet(free)
       PROVE  from <= x.start /\ x.end <= to /\ x.end - x.start >= min /\ ~Busy(events, x.start, x.end)
  <2>1. CASE x \in ToSet(g[n])
    <3>1. PICK j \in 1 .. n : IsGap(x, f, ids, min, j)
      BY <1>4, <2>1
    <3>2. x.start = f[j - 1] /\ x.end = start(j) /\ start(j) - f[j - 1] >= min
      <4>1. x = [start |-> f[j - 1], end |-> start(j)] /\ start(j) - f[j - 1] >= min
        BY <1>11, <3>1
      <4> QED
        BY <4>1
    <3>3. ASSUME NEW m \in 1 .. n, NEW h \in f[j - 1] .. (start(j) - 1), start(m) <= h, h < end(m)
          PROVE  FALSE
      <4>1. h \in Nat /\ f[j - 1] <= h /\ h < start(j)
        BY <1>1, <1>12
      <4>2. CASE m < j
        <5>1. m \in 1 .. j - 1
          BY <4>2
        <5>2. end(m) <= f[j - 1]
          BY <1>3, <1>12, <5>1
        <5>3. end(m) \in Nat /\ f[j - 1] \in Nat
          BY <1>1, <1>12
        <5> QED
          BY <3>3, <4>1, <5>2, <5>3
      <4>3. CASE ~(m < j)
        <5>1. start(j) <= start(m)
          <6>1. start(j) \in Nat /\ (j < m \/ j = m)
            BY <1>1, <4>3
          <6> QED
            BY <1>10, <6>1
        <5>2. start(m) \in Nat /\ start(j) \in Nat
          BY <1>1
        <5> QED
          BY <3>3, <4>1, <5>1, <5>2
      <4> QED
        BY <4>2, <4>3
    <3>4. ~Busy(events, x.start, x.end)
      <4> SUFFICES ASSUME NEW e \in events, NEW h \in f[j - 1] .. (start(j) - 1),
                          e.start <= h, h < e.end
                   PROVE  FALSE
        BY <3>2 DEF Busy
      <4>1. PICK m \in 1 .. n : e.start = start(m) /\ e.end = end(m)
        BY <1>8
      <4>2. start(m) <= h /\ h < end(m)
        BY <4>1
      <4> QED
        BY <3>3, <4>2
    <3> QED
      BY <1>1, <1>12, <3>2, <3>4
  <2>2. CASE x \in ToSet(last)
    <3>1. x.start = f[n] /\ x.end = to /\ to - f[n] >= min
      BY <1>6, <2>2
    <3>2. ASSUME NEW m \in 1 .. n, NEW h \in f[n] .. (to - 1), start(m) <= h, h < end(m)
          PROVE  FALSE
      <4>1. end(m) <= f[n]
        BY <1>3, <1>13
      <4>2. h \in Nat /\ f[n] <= h /\ end(m) \in Nat /\ f[n] \in Nat
        BY <1>1, <1>13
      <4> QED
        BY <3>2, <4>1, <4>2
    <3>3. ~Busy(events, x.start, x.end)
      <4> SUFFICES ASSUME NEW e \in events, NEW h \in f[n] .. (to - 1), e.start <= h, h < e.end
                   PROVE  FALSE
        BY <3>1 DEF Busy
      <4>1. PICK m \in 1 .. n : e.start = start(m) /\ e.end = end(m)
        BY <1>8
      <4>2. start(m) <= h /\ h < end(m)
        BY <4>1
      <4> QED
        BY <3>2, <4>2
    <3> QED
      BY <1>13, <3>1, <3>3
  <2> QED
    BY <1>7, <2>1, <2>2
<1>15. OnlyFreeTime(free, events, from, to, min)
  <2>1. \A k \in DOMAIN free : free[k] \in ToSet(free)
    BY DEF ToSet
  <2> QED
    BY <1>14, <2>1 DEF OnlyFreeTime
<1>16. ASSUME NEW a \in from .. to, NEW b \in from .. to, b - a >= min, ~Busy(events, a, b),
              \A e \in events : ~(a < e.start /\ e.start < b)
       PROVE  \E x \in ToSet(free) : x.start <= a /\ b <= x.end
  <2>1. a \in Nat /\ b \in Nat /\ from <= a /\ b <= to /\ a < b
    BY <1>16
  <2>2. ASSUME NEW m \in 1 .. n, ~(start(m) >= b) PROVE end(m) <= a
    <3>1. PICK e \in events : e.start = start(m) /\ e.end = end(m)
      BY <1>9
    <3>2. start(m) <= a
      <4>1. ~(a < start(m) /\ start(m) < b)
        BY <1>16, <3>1
      <4>2. start(m) \in Nat
        BY <1>1
      <4> QED
        BY <2>1, <2>2, <4>1, <4>2
    <3>3. a \in a .. (b - 1)
      BY <2>1
    <3>4. ~(start(m) <= a /\ a < end(m))
      BY <1>16, <3>1, <3>3 DEF Busy
    <3>5. end(m) \in Nat
      BY <1>1
    <3> QED
      BY <2>1, <3>2, <3>4, <3>5
  <2> DEFINE after == {m \in Nat : m \in 1 .. n /\ start(m) >= b}
  <2>3. CASE after # {}
    <3>1. after \in SUBSET Nat
      OBVIOUS
    <3>2. PICK j \in after : \A y \in after : j <= y
      BY <2>3, <3>1, Smallest
    <3>3. j \in 1 .. n /\ start(j) >= b
      BY <3>2
    <3>4. ASSUME NEW m \in 1 .. j - 1 PROVE end(m) <= a
      <4>1. m \in 1 .. n /\ m \in Nat /\ ~(j <= m)
        BY <3>3
      <4>2. ~(start(m) >= b)
        BY <3>2, <4>1
      <4> QED
        BY <2>2, <4>1, <4>2
    <3>5. PICK p \in Nat : p = f[j - 1] /\ p <= a
      BY <1>3, <1>12, <2>1, <3>3, <3>4
    <3>6. PICK s \in Nat : s = start(j) /\ s >= b
      BY <1>1, <3>3
    <3>7. s > p /\ s - p >= min
      <4>1. PICK m \in Nat : m = min
        OBVIOUS
      <4>2. b - a >= m
        BY <1>16, <4>1
      <4>3. p <= a /\ b <= s
        BY <2>1, <3>5, <3>6
      <4> HIDE DEF after
      <4>4. s > p /\ s - p >= m
        BY <2>1, <4>2, <4>3
      <4> QED
        BY <4>1, <4>4
    <3>8. IsGap([start |-> p, end |-> s], f, ids, min, j)
      BY <1>11, <3>5, <3>6, <3>7
    <3>9. [start |-> p, end |-> s] \in ToSet(free)
      BY <1>4, <1>7, <3>3, <3>8
    <3> QED
      BY <3>5, <3>6, <3>9
  <2>4. CASE after = {}
    <3>1. ASSUME NEW m \in 1 .. n PROVE ~(start(m) >= b)
      <4>1. m \in Nat /\ m \notin after
        <5> HIDE DEF after
        <5> QED
          BY <2>4
      <4> QED
        BY <4>1
    <3>2. \A m \in 1 .. n : end(m) <= a
      BY <2>2, <3>1
    <3>3. PICK p \in Nat : p = f[n] /\ p <= a
      BY <1>3, <1>13, <2>1, <3>2
    <3>4. to > p /\ to - p >= min
      <4>1. b - a >= min
        BY <1>16
      <4> QED
        BY <2>1, <3>3, <4>1
    <3>5. [start |-> p, end |-> to] \in ToSet(free)
      BY <1>6, <1>7, <3>3, <3>4
    <3> QED
      BY <2>1, <3>3, <3>5
  <2> QED
    BY <2>3, <2>4
<1>17. AllFreeTime(free, events, from, to, min)
  <2>1. \A x \in ToSet(free) : \E k \in DOMAIN free : free[k] = x
    BY DEF ToSet
  <2> SUFFICES ASSUME NEW a \in from .. to, NEW b \in from .. to, b - a >= min, ~Busy(events, a, b),
                      \A e \in events : ~(a < e.start /\ e.start < b)
               PROVE  \E k \in DOMAIN free : free[k].start <= a /\ b <= free[k].end
    BY DEF AllFreeTime
  <2>2. PICK x \in ToSet(free) : x.start <= a /\ b <= x.end
    BY <1>16
  <2> QED
    BY <2>1, <2>2
<1> QED
  BY <1>15, <1>17

LEMMA FreeSlots == PlannerInv => SlotsAreFree
<1> SUFFICES ASSUME PlannerInv, NEW from \in Hour, NEW to \in Hour,
                    NEW wanted \in 0 .. DefaultMinutes + 1, NEW ids \in ListEvents(from, to)
             PROVE  /\ OnlyFreeTime(findSlots(ids, from, to, wanted), InWindow(from, to), from, to, minutes(wanted))
                    /\ AllFreeTime(findSlots(ids, from, to, wanted), InWindow(from, to), from, to, minutes(wanted))
  BY DEF SlotsAreFree
<1> DEFINE read == {i \in EventId \intersect Present : table[i].start \in from .. to}
<1>1. PICK n \in Nat : n = Cardinality(read)
  <2>1. IsFiniteSet(read)
    BY FS_Subset DEF PlannerInv
  <2> QED
    BY <2>1, FS_CardinalityType
<1>2. /\ ids \in [1 .. n -> read] /\ ToSet(ids) = read
      /\ \A j, k \in DOMAIN ids : j < k => table[ids[j]].start <= table[ids[k]].start
  BY <1>1 DEF ListEvents
<1>3. \A i \in read : table[i].start \in from .. to /\ table[i].end \in Nat
  <2>1. \A i \in read : table[i] \in Event
    BY DEF PlannerInv, Present
  <2> QED
    BY <2>1 DEF Event, Hour
<1>4. InWindow(from, to) = {table[i] : i \in read}
  BY DEF InWindow
<1>5. read = {ids[k] : k \in 1 .. n}
  BY <1>2 DEF ToSet
<1> HIDE DEF read
<1>6. InWindow(from, to) = {table[ids[k]] : k \in 1 .. n}
  BY <1>4, <1>5
<1>7. Len(ids) = n
  <2>1. ids \in Seq(read)
    BY <1>2
  <2> QED
    BY <1>2, <2>1
<1>8. from \in Nat /\ to \in Nat /\ minutes(wanted) \in Nat \ {0}
  BY DEF Hour, minutes
<1>9. \A k \in 1 .. n : table[ids[k]].start \in from .. to /\ table[ids[k]].end \in Nat
  BY <1>2, <1>3
<1>10. \A j, k \in 1 .. n : j < k => table[ids[j]].start <= table[ids[k]].start
  BY <1>2
<1> QED
  BY <1>6, <1>7, <1>8, <1>9, <1>10, FreeTime DEF findSlots

\* Rows by their start.
Sorted(S, n) ==
  {ids \in [1 .. n -> S] :
      /\ ToSet(ids) = S
      /\ \A j, k \in DOMAIN ids : j < k => table[ids[j]].start <= table[ids[k]].start}

\* Finitely many rows can be put in order: the last one to start goes last.
LEMMA OrderExists ==
  ASSUME NEW S, IsFiniteSet(S), \A i \in S : table[i].start \in Hour
  PROVE  Sorted(S, Cardinality(S)) # {}
<1> DEFINE bad == {n \in Nat : \E T \in SUBSET S : Cardinality(T) = n /\ Sorted(T, n) = {}}
<1>1. \A T \in SUBSET S : IsFiniteSet(T) /\ Cardinality(T) \in Nat
  BY FS_Subset, FS_CardinalityType
<1>2. ASSUME bad # {} PROVE FALSE
  <2>1. bad \in SUBSET Nat
    OBVIOUS
  <2>2. PICK n \in bad : \A y \in bad : n <= y
    BY <1>2, <2>1, Smallest
  <2>3. PICK T \in SUBSET S : Cardinality(T) = n /\ Sorted(T, n) = {}
    BY <2>2
  <2>4. CASE T = {}
    <3>1. n = 0
      BY <2>3, <2>4, FS_EmptySet
    <3> DEFINE none == [k \in 1 .. 0 |-> k]
    <3>2. 1 .. 0 = {}
      OBVIOUS
    <3>3. none \in [1 .. n -> T] /\ ToSet(none) = T /\ DOMAIN none = {}
      BY <2>4, <3>1, <3>2 DEF ToSet
    <3> HIDE DEF none
    <3>4. none \in Sorted(T, n)
      BY <3>3 DEF Sorted
    <3> QED
      BY <2>3, <3>4
  <2>5. CASE T # {}
    <3> DEFINE starts == {table[i].start : i \in T}
    <3>1. starts \in SUBSET (0 .. Latest) /\ starts # {} /\ Latest \in Nat
      BY <2>5 DEF Hour
    <3>2. PICK t \in starts : \A u \in starts : t >= u
      BY <3>1, Biggest
    <3>3. PICK x \in T : table[x].start = t
      BY <3>2
    <3>4. \A i \in T : table[i].start \in Nat /\ table[i].start <= table[x].start
      BY <3>1, <3>2, <3>3 DEF Hour
    <3>5. PICK R \in SUBSET S : R = T \ {x}
      OBVIOUS
    <3>6. n \in Nat \ {0} /\ Cardinality(R) = n - 1
      <4>1. Cardinality(R) = n - 1
        BY <1>1, <2>3, <3>3, <3>5, FS_RemoveElement
      <4>2. n # 0
        BY <1>1, <2>3, <2>5, FS_EmptySet
      <4> QED
        BY <2>2, <4>1, <4>2
    <3>7. PICK ids \in Sorted(R, n - 1) : TRUE
      <4>1. n - 1 \in Nat /\ ~(n <= n - 1)
        BY <3>6
      <4>2. n - 1 \notin bad
        BY <2>2, <4>1
      <4> QED
        BY <3>6, <4>1, <4>2
    <3>8. /\ ids \in [1 .. n - 1 -> R] /\ ToSet(ids) = R
          /\ \A j, k \in 1 .. n - 1 : j < k => table[ids[j]].start <= table[ids[k]].start
      BY <3>7 DEF Sorted
    <3> DEFINE more == [k \in 1 .. n |-> IF k = n THEN x ELSE ids[k]]
    <3>9. /\ \A k \in 1 .. n : k = n \/ k \in 1 .. n - 1
          /\ \A k \in 1 .. n - 1 : k \in 1 .. n /\ k # n
          /\ n \in 1 .. n
      BY <3>6
    <3>10. more \in [1 .. n -> T]
      BY <3>5, <3>8, <3>9
    <3>11. more[n] = x /\ \A k \in 1 .. n - 1 : more[k] = ids[k]
      BY <3>9
    <3> HIDE DEF more
    <3>12. ToSet(more) = T
      <4>1. \A i \in R : \E k \in 1 .. n - 1 : ids[k] = i
        BY <3>8 DEF ToSet
      <4>2. ASSUME NEW i \in T PROVE \E k \in 1 .. n : more[k] = i
        <5>1. CASE i = x
          BY <3>9, <3>11, <5>1
        <5>2. CASE i # x
          <6>1. PICK k \in 1 .. n - 1 : ids[k] = i
            BY <3>5, <4>1, <5>2
          <6> QED
            BY <3>9, <3>11, <6>1
        <5> QED
          BY <5>1, <5>2
      <4>3. \A k \in 1 .. n : more[k] \in T
        BY <3>10
      <4>4. DOMAIN more = 1 .. n
        BY <3>10
      <4> QED
        BY <4>2, <4>3, <4>4 DEF ToSet
    <3>13. ASSUME NEW j \in 1 .. n, NEW k \in 1 .. n, j < k
           PROVE  table[more[j]].start <= table[more[k]].start
      <4>1. j \in 1 .. n - 1
        BY <3>6, <3>13
      <4>2. CASE k = n
        <5>1. more[j] \in T /\ more[k] = x
          BY <3>10, <3>11, <4>2
        <5> QED
          BY <3>4, <5>1
      <4>3. CASE k # n
        <5>1. k \in 1 .. n - 1
          BY <3>9, <4>3
        <5> QED
          BY <3>8, <3>11, <3>13, <4>1, <5>1
      <4> QED
        BY <4>2, <4>3
    <3>14. more \in Sorted(T, n)
      <4>1. DOMAIN more = 1 .. n
        BY <3>10
      <4> QED
        BY <3>10, <3>12, <3>13, <4>1 DEF Sorted
    <3> QED
      BY <2>3, <3>14
  <2> QED
    BY <2>4, <2>5
<1>3. Cardinality(S) \in Nat /\ S \in SUBSET S
  BY <1>1
<1>4. Cardinality(S) \notin bad
  <2> HIDE DEF bad
  <2> QED
    BY <1>2
<1> QED
  BY <1>3, <1>4

\* There is a listing of every window.
EveryWindowIsListed == \A from, to \in Hour : ListEvents(from, to) # {}

LEMMA ListingsExist == PlannerInv => EveryWindowIsListed
<1> SUFFICES ASSUME PlannerInv, NEW from \in Hour, NEW to \in Hour PROVE ListEvents(from, to) # {}
  BY DEF EveryWindowIsListed
<1> DEFINE read == {i \in EventId \intersect Present : table[i].start \in from .. to}
<1>1. IsFiniteSet(read)
  BY FS_Subset DEF PlannerInv
<1>2. \A i \in read : table[i].start \in Hour
  <2>1. \A i \in read : table[i] \in Event
    BY DEF PlannerInv, Present
  <2> QED
    BY <2>1 DEF Event
<1>3. ListEvents(from, to) = Sorted(read, Cardinality(read))
  BY DEF ListEvents, Sorted
<1> HIDE DEF read
<1> QED
  BY <1>1, <1>2, <1>3, OrderExists

(***************************************************************************)
(* What the agents are told of the calendar is right, however the calls    *)
(* on its rows overlap: the free slots are the free time of the window,    *)
(* all of it and nothing else, in whatever order the store gives the       *)
(* events that start together (and it can give them in one); and what was  *)
(* deleted stays deleted.                                                  *)
(***************************************************************************)
THEOREM PlannerSound == PlannerSpec => [](PlannerIsSound /\ PlannerStaysSound /\ EveryWindowIsListed)
<1>1. PlannerInit => PlannerInv
  BY PlannerStarts
<1>2. PlannerInv /\ [PlannerNext]_plannerVars => PlannerInv'
  BY PlannerInductive
<1>3. PlannerInv => PlannerIsSound /\ PlannerStaysSound /\ EveryWindowIsListed
  BY FreeSlots, ListingsExist DEF PlannerInv, PlannerIsSound, PlannerStaysSound
<1> QED
  BY <1>1, <1>2, <1>3, PTL DEF PlannerSpec
-----------------------------------------------------------------------------
(* The requests to the providers.                                          *)

HIDE PlannerAssumption
USE RequestsAssumption

BlockKind == {"text", "note", "image", "file", "call", "result"}
WireBlock == [kind : BlockKind, id : CallId \cup {"none"}]
Row == Seq(WireBlock)

LEMMA NoBlocks == <<>> \in Row /\ DOMAIN <<>> = {} /\ Len(<<>>) = 0
BY DEF Row

LEMMA RowsJoin ==
  ASSUME NEW p \in Row, NEW q \in Row
  PROVE  /\ p \o q \in Row
         /\ <<>> \o p = p /\ p \o <<>> = p
BY ConcatProperties, ConcatEmptySeq DEF Row

RowsRegroup(p, q, r) == (p \o q) \o r = p \o (q \o r)

LEMMA RowsRegrouped ==
  ASSUME NEW p \in Row, NEW q \in Row, NEW r \in Row
  PROVE  RowsRegroup(p, q, r)
BY ConcatAssociative DEF Row, RowsRegroup

IsChain(f, ss, n) == f = [k \in 0 .. n |-> IF k = 0 THEN <<>> ELSE f[k - 1] \o ss[k]]

LEMMA ChainIs ==
  ASSUME NEW ss \in Seq(Row)
  PROVE  \E f : /\ f \in [0 .. Len(ss) -> Row]
                /\ IsChain(f, ss, Len(ss))
                /\ Chain(ss) = f[Len(ss)]
<1> DEFINE n == Len(ss)
           Longer(p) == IF p[1] \in DOMAIN ss THEN p[2] \o ss[p[1]] ELSE p[2]
           F == [p \in Nat \X Row |-> Longer(p)]
           Body(f) == [k \in 0 .. n |-> IF k = 0 THEN <<>> ELSE f[k - 1] \o ss[k]]
<1>1. n \in Nat /\ DOMAIN ss = 1 .. n /\ \A k \in 1 .. n : ss[k] \in Row
  OBVIOUS
<1>2. F \in [Nat \X Row -> Row]
  <2> SUFFICES ASSUME NEW p \in Nat \X Row PROVE Longer(p) \in Row
    OBVIOUS
  <2> HIDE DEF n
  <2>1. p[2] \in Row
    OBVIOUS
  <2>2. ASSUME p[1] \in DOMAIN ss PROVE p[2] \o ss[p[1]] \in Row
    BY <1>1, <2>1, <2>2, RowsJoin
  <2> QED
    BY <2>1, <2>2
<1>3. ASSUME NEW k \in 1 .. n, NEW v \in Row PROVE F[<<k, v>>] = v \o ss[k]
  <2>1. <<k, v>> \in Nat \X Row /\ k \in DOMAIN ss
    BY <1>1
  <2> QED
    BY <2>1
<1> HIDE DEF F, n
<1>4. PICK f \in [0 .. n -> Row] : f[0] = <<>> /\ \A k \in 1 .. n : f[k] = F[<<k, f[k - 1]>>]
  <2>1. Reached(Row, <<>>, F, n)
    BY <1>1, <1>2, NoBlocks, ValuesExist
  <2> QED
    BY <2>1 DEF Reached
<1>5. \A k \in 0 .. n : f[k] = IF k = 0 THEN <<>> ELSE f[k - 1] \o ss[k]
  <2> SUFFICES ASSUME NEW k \in 0 .. n PROVE f[k] = IF k = 0 THEN <<>> ELSE f[k - 1] \o ss[k]
    OBVIOUS
  <2>1. CASE k = 0
    BY <1>4, <2>1
  <2>2. CASE k # 0
    <3>1. k \in 1 .. n /\ k - 1 \in 0 .. n
      BY <1>1, <2>2
    <3>2. f[k - 1] \in Row
      BY <3>1
    <3> QED
      BY <1>3, <1>4, <2>2, <3>1, <3>2
  <2> QED
    BY <2>1, <2>2
<1>6. f = Body(f)
  BY <1>5
<1> DEFINE g == CHOOSE h : h = Body(h)
<1>7. Chain(ss) = g[n]
  BY DEF Chain, n
<1>8. g = Body(g)
  <2> HIDE DEF Body
  <2> QED
    BY <1>6
<1> HIDE DEF g
<1>9. g[0] = <<>> /\ \A k \in 1 .. n : g[k] = g[k - 1] \o ss[k]
  <2>1. \A k \in 0 .. n : g[k] = IF k = 0 THEN <<>> ELSE g[k - 1] \o ss[k]
    BY <1>8
  <2>2. 0 \in 0 .. n /\ \A k \in 1 .. n : k \in 0 .. n /\ k # 0
    BY <1>1
  <2> QED
    BY <2>1, <2>2
<1> DEFINE bad == {k \in Nat : k <= n /\ g[k] # f[k]}
<1>10. bad = {}
  <2> SUFFICES ASSUME bad # {} PROVE FALSE
    OBVIOUS
  <2>1. bad \in SUBSET Nat
    OBVIOUS
  <2>2. PICK k \in bad : \A y \in bad : k <= y
    BY <2>1, Smallest
  <2>3. k # 0
    BY <1>4, <1>9, <2>2
  <2>4. k \in 1 .. n /\ k \in 0 .. n /\ k - 1 \in Nat /\ k - 1 <= n /\ ~(k <= k - 1)
    BY <1>1, <2>2, <2>3
  <2>5. g[k - 1] = f[k - 1]
    BY <2>2, <2>4
  <2>6. f[k] = f[k - 1] \o ss[k]
    BY <1>5, <2>3, <2>4
  <2> QED
    BY <1>9, <2>2, <2>4, <2>5, <2>6
<1>11. g[n] = f[n]
  <2>1. n <= n
    BY <1>1
  <2> QED
    BY <1>1, <1>10, <2>1
<1>12. IsChain(f, ss, n)
  BY <1>6 DEF IsChain
<1> QED
  BY <1>7, <1>11, <1>12 DEF n

LEMMA ChainSteps ==
  ASSUME NEW ss, NEW n \in Nat, NEW f, IsChain(f, ss, n)
  PROVE  f[0] = <<>> /\ \A k \in 1 .. n : f[k] = f[k - 1] \o ss[k]
<1>1. \A k \in 0 .. n : f[k] = IF k = 0 THEN <<>> ELSE f[k - 1] \o ss[k]
  BY DEF IsChain
<1>2. 0 \in 0 .. n /\ \A k \in 1 .. n : k \in 0 .. n /\ k # 0
  OBVIOUS
<1> QED
  BY <1>1, <1>2

LEMMA ChainType ==
  ASSUME NEW ss \in Seq(Row)
  PROVE  Chain(ss) \in Row
<1>1. Len(ss) \in 0 .. Len(ss)
  OBVIOUS
<1> QED
  BY <1>1, ChainIs

LEMMA ChainNone == Chain(<<>>) = <<>>
<1>1. <<>> \in Seq(Row) /\ Len(<<>>) = 0
  OBVIOUS
<1>2. PICK f : IsChain(f, <<>>, 0) /\ Chain(<<>>) = f[0]
  BY <1>1, ChainIs
<1> QED
  BY <1>2, ChainSteps

LEMMA ChainAppend ==
  ASSUME NEW ss \in Seq(Row), NEW p \in Row
  PROVE  Chain(Append(ss, p)) = Chain(ss) \o p
<1>1. PICK n \in Nat : n = Len(ss)
  OBVIOUS
<1>2. PICK more \in Seq(Row) : more = Append(ss, p)
  BY AppendProperties
<1>3. n + 1 = Len(more) /\ n + 1 \in Nat /\ more[n + 1] = p /\ \A k \in 1 .. n : more[k] = ss[k]
  BY <1>1, <1>2
<1>4. PICK f : IsChain(f, ss, n) /\ Chain(ss) = f[n]
  BY <1>1, ChainIs
<1>5. PICK g : IsChain(g, more, n + 1) /\ Chain(more) = g[n + 1]
  BY <1>3, ChainIs
<1>6. f[0] = <<>> /\ \A k \in 1 .. n : f[k] = f[k - 1] \o ss[k]
  BY <1>4, ChainSteps
<1>7. g[0] = <<>> /\ \A k \in 1 .. n + 1 : g[k] = g[k - 1] \o more[k]
  <2>1. PICK m \in Nat : m = n + 1
    BY <1>3
  <2>2. IsChain(g, more, m)
    BY <1>5, <2>1
  <2>3. g[0] = <<>> /\ \A k \in 1 .. m : g[k] = g[k - 1] \o more[k]
    BY <2>2, ChainSteps
  <2> QED
    BY <2>1, <2>3
<1> DEFINE bad == {k \in Nat : k <= n /\ g[k] # f[k]}
<1>8. bad = {}
  <2> SUFFICES ASSUME bad # {} PROVE FALSE
    OBVIOUS
  <2>1. bad \in SUBSET Nat
    OBVIOUS
  <2>2. PICK k \in bad : \A y \in bad : k <= y
    BY <2>1, Smallest
  <2>3. k # 0
    BY <1>6, <1>7, <2>2
  <2>4. k \in 1 .. n /\ k \in 1 .. n + 1 /\ k - 1 \in Nat /\ k - 1 <= n /\ ~(k <= k - 1)
    BY <2>2, <2>3
  <2>5. g[k - 1] = f[k - 1]
    BY <2>2, <2>4
  <2>6. f[k] = f[k - 1] \o ss[k] /\ g[k] = g[k - 1] \o more[k] /\ more[k] = ss[k]
    BY <1>3, <1>6, <1>7, <2>4
  <2> QED
    BY <2>2, <2>5, <2>6
<1>9. g[n] = f[n]
  BY <1>8
<1>10. g[n + 1] = g[n] \o p
  <2>1. PICK m \in 1 .. n + 1 : m = n + 1 /\ m - 1 = n
    OBVIOUS
  <2>2. g[m] = g[m - 1] \o more[m]
    BY <1>7
  <2> QED
    BY <1>3, <2>1, <2>2
<1> QED
  BY <1>2, <1>4, <1>5, <1>9, <1>10

\* The blocks of a kind are those among them of the kind.
Of(kind) == {b \in WireBlock : b.kind = kind}

LEMMA OnlyIsAmong ==
  ASSUME NEW blocks \in Row, NEW kind
  PROVE  Only(blocks, kind) = Among(blocks, Of(kind))
<1> DEFINE n == Len(blocks)
           Body(f) == [k \in 0 .. n |-> IF k = 0 THEN <<>>
                         ELSE IF blocks[k].kind = kind THEN Append(f[k - 1], blocks[k]) ELSE f[k - 1]]
           Kept(f) == [k \in 0 .. n |-> IF k = 0 THEN <<>>
                         ELSE IF blocks[k] \in Of(kind) THEN Append(f[k - 1], blocks[k]) ELSE f[k - 1]]
<1>1. n \in Nat /\ \A k \in 1 .. n : blocks[k].kind = kind <=> blocks[k] \in Of(kind)
  BY DEF Row, Of
<1>2. ASSUME NEW f PROVE Body(f) = Kept(f)
  <2>1. \A k \in 0 .. n : k = 0 \/ k \in 1 .. n
    BY <1>1
  <2> HIDE DEF n
  <2> QED
    BY <1>1, <2>1
<1>3. PICK f : IsKept(f, blocks, Of(kind), n) /\ Among(blocks, Of(kind)) = f[n]
  BY <1>1, AmongIsKept
<1>4. f = Body(f)
  BY <1>2, <1>3 DEF IsKept
<1> DEFINE g == CHOOSE h : h = Body(h)
<1>5. Only(blocks, kind) = g[n]
  BY DEF Only
<1>6. g = Body(g)
  <2> HIDE DEF Body
  <2> QED
    BY <1>4
<1>7. IsKept(g, blocks, Of(kind), n)
  <2>1. g = Kept(g)
    <3> HIDE DEF g, Body, Kept
    <3> QED
      BY <1>2, <1>6
  <2> HIDE DEF g
  <2> QED
    BY <2>1 DEF IsKept
<1> HIDE DEF g, n
<1>8. Agree(blocks, blocks, Of(kind), Of(kind), n) /\ n <= n
  BY <1>1 DEF Agree
<1>9. f[n] = g[n]
  BY <1>1, <1>3, <1>7, <1>8, KeptAlike
<1> QED
  BY <1>3, <1>5, <1>9

LEMMA OnlyConcat ==
  ASSUME NEW p \in Row, NEW q \in Row, NEW kind
  PROVE  Only(p \o q, kind) = Only(p, kind) \o Only(q, kind)
<1>1. p \o q \in Row
  BY RowsJoin
<1>2. /\ Only(p \o q, kind) = Among(p \o q, Of(kind))
      /\ Only(p, kind) = Among(p, Of(kind)) /\ Only(q, kind) = Among(q, Of(kind))
  BY <1>1, OnlyIsAmong
<1>3. Among(p \o q, Of(kind)) = Among(p, Of(kind)) \o Among(q, Of(kind))
  BY AmongConcat DEF Row
<1> QED
  BY <1>2, <1>3

LEMMA OnlyType ==
  ASSUME NEW p \in Row, NEW kind
  PROVE  Only(p, kind) \in Row
BY OnlyIsAmong, AmongFits DEF Row

LEMMA OnlyNone ==
  ASSUME NEW p \in Row, NEW kind, \A i \in DOMAIN p : p[i].kind # kind
  PROVE  Only(p, kind) = <<>>
<1>1. \A i \in DOMAIN p : p[i] \notin Of(kind)
  BY DEF Of
<1> QED
  BY <1>1, OnlyIsAmong, AmongNone DEF Row

LEMMA AmongAll ==
  ASSUME NEW Q, NEW s \in Seq(Q), NEW S, \A i \in DOMAIN s : s[i] \in S
  PROVE  Among(s, S) = s
<1> DEFINE n == Len(s)
           f == [k \in 0 .. n |-> SubSeq(s, 1, k)]
<1>1. n \in Nat /\ \A k \in 1 .. n : s[k] \in S
  OBVIOUS
<1>2. PICK g : IsKept(g, s, S, n) /\ Among(s, S) = g[n]
  BY <1>1, AmongIsKept
<1> HIDE DEF n
<1> DEFINE bad == {k \in Nat : k <= n /\ g[k] # SubSeq(s, 1, k)}
<1>3. bad = {}
  <2> SUFFICES ASSUME bad # {} PROVE FALSE
    OBVIOUS
  <2>1. bad \in SUBSET Nat
    OBVIOUS
  <2>2. PICK k \in bad : \A y \in bad : k <= y
    BY <2>1, Smallest
  <2>3. CASE k = 0
    <3>1. g[0] = <<>>
      BY <1>1, <1>2, KeptSteps
    <3>2. SubSeq(s, 1, 0) = <<>>
      OBVIOUS
    <3> QED
      BY <2>2, <2>3, <3>1, <3>2
  <2>4. CASE k # 0
    <3>1. k \in 1 .. n /\ k - 1 \in Nat /\ k - 1 <= n /\ ~(k <= k - 1)
      BY <1>1, <2>2, <2>4
    <3>2. g[k - 1] = SubSeq(s, 1, k - 1)
      BY <2>2, <3>1
    <3>3. g[k] = Append(g[k - 1], s[k])
      <4>1. g[k] = IF s[k] \in S THEN Append(g[k - 1], s[k]) ELSE g[k - 1]
        BY <1>1, <1>2, <3>1, KeptSteps
      <4>2. s[k] \in S
        BY <1>1, <3>1
      <4> QED
        BY <4>1, <4>2
    <3>4. Append(SubSeq(s, 1, k - 1), s[k]) = SubSeq(s, 1, k)
      BY <3>1 DEF n
    <3> QED
      BY <2>2, <3>2, <3>3, <3>4
  <2> QED
    BY <2>3, <2>4
<1>4. g[n] = SubSeq(s, 1, n)
  BY <1>1, <1>3
<1>5. SubSeq(s, 1, n) = s
  BY DEF n
<1> QED
  BY <1>2, <1>4, <1>5

LEMMA OnlyAll ==
  ASSUME NEW p \in Row, NEW kind, \A i \in DOMAIN p : p[i].kind = kind
  PROVE  Only(p, kind) = p
<1>1. \A i \in DOMAIN p : p[i] \in Of(kind)
  BY DEF Of, Row
<1>2. Among(p, Of(kind)) = p
  BY <1>1, AmongAll DEF Row
<1> QED
  BY <1>2, OnlyIsAmong
Wire == [role : {"user", "assistant", "tool"}, blocks : Row]
Kinds == {"call", "result"}

\* Blocks of a kind, in all of a sequence of messages; those a history asks for.
Sent(s, kind) == Only(Blocks(s), kind)
Owned(ms, kind) == Chain([i \in DOMAIN ms |-> Own(ms[i], kind)])

LEMMA RowsMore ==
  ASSUME NEW s \in Seq(Wire), NEW w \in Wire
  PROVE  /\ [i \in DOMAIN s |-> s[i].blocks] \in Seq(Row)
         /\ [i \in DOMAIN Append(s, w) |-> Append(s, w)[i].blocks]
              = Append([i \in DOMAIN s |-> s[i].blocks], w.blocks)
         /\ w.blocks \in Row
<1> DEFINE r == [i \in DOMAIN s |-> s[i].blocks]
           t == Append(s, w)
           u == [i \in DOMAIN t |-> t[i].blocks]
<1>1. PICK n \in Nat : n = Len(s) /\ DOMAIN s = 1 .. n
  OBVIOUS
<1>2. \A i \in 1 .. n : s[i].blocks \in Row
  <2>1. \A i \in 1 .. n : s[i] \in Wire
    BY <1>1
  <2> QED
    BY <2>1 DEF Wire
<1>3. r \in Seq(Row) /\ Len(r) = n /\ DOMAIN r = 1 .. n /\ \A i \in 1 .. n : r[i] = s[i].blocks
  <2>1. r \in [1 .. n -> Row]
    BY <1>1, <1>2
  <2> QED
    BY <1>1, <2>1
<1>4. w.blocks \in Row
  BY DEF Wire
<1>5. DOMAIN t = 1 .. n + 1 /\ t[n + 1] = w /\ \A i \in 1 .. n : t[i] = s[i]
  BY <1>1
<1> HIDE DEF r
<1>6. Append(r, w.blocks) = u
  <2>1. PICK v \in Seq(Row) : v = Append(r, w.blocks)
    BY <1>3, <1>4, AppendProperties
  <2>2. DOMAIN v = 1 .. n + 1 /\ v[n + 1] = w.blocks /\ \A i \in 1 .. n : v[i] = r[i]
    BY <1>3, <1>4, <2>1
  <2> HIDE DEF t
  <2>3. \A i \in 1 .. n + 1 : v[i] = t[i].blocks
    <3> SUFFICES ASSUME NEW i \in 1 .. n + 1 PROVE v[i] = t[i].blocks
      OBVIOUS
    <3>1. CASE i = n + 1
      BY <1>5, <2>2, <3>1
    <3>2. CASE i # n + 1
      <4>1. i \in 1 .. n
        BY <3>2
      <4> QED
        BY <1>3, <1>5, <2>2, <4>1
    <3> QED
      BY <3>1, <3>2
  <2>4. v = [i \in 1 .. n + 1 |-> v[i]]
    BY <2>2
  <2>5. v = u
    BY <1>5, <2>3, <2>4
  <2> QED
    BY <2>1, <2>5
<1> QED
  BY <1>3, <1>4, <1>6 DEF r

Adds(s, w, kind) == Sent(Append(s, w), kind) = Sent(s, kind) \o Only(w.blocks, kind)

LEMMA SentMore ==
  ASSUME NEW s \in Seq(Wire), NEW w \in Wire, NEW kind
  PROVE  Adds(s, w, kind)
<1> DEFINE r == [i \in DOMAIN s |-> s[i].blocks]
<1>1. r \in Seq(Row) /\ w.blocks \in Row /\ Blocks(Append(s, w)) = Chain(Append(r, w.blocks))
  BY RowsMore DEF Blocks
<1>2. Blocks(s) = Chain(r)
  BY DEF Blocks
<1> HIDE DEF r
<1>3. Chain(Append(r, w.blocks)) = Chain(r) \o w.blocks /\ Chain(r) \in Row
  BY <1>1, ChainAppend, ChainType
<1>4. Only(Chain(r) \o w.blocks, kind) = Only(Chain(r), kind) \o Only(w.blocks, kind)
  BY <1>1, <1>3, OnlyConcat
<1> QED
  BY <1>1, <1>2, <1>3, <1>4 DEF Adds, Sent

LEMMA SentNone == \A kind : Sent(<<>>, kind) = <<>>
<1>1. [i \in DOMAIN <<>> |-> <<>>[i].blocks] = <<>>
  OBVIOUS
<1>2. Blocks(<<>>) = <<>>
  BY <1>1, ChainNone DEF Blocks
<1>3. \A kind : Only(<<>>, kind) = <<>>
  BY NoBlocks, OnlyNone
<1> QED
  BY <1>2, <1>3 DEF Sent

LEMMA SentType ==
  ASSUME NEW s \in Seq(Wire), NEW kind
  PROVE  Sent(s, kind) \in Row /\ Blocks(s) \in Row
<1>1. [i \in DOMAIN s |-> s[i].blocks] \in Seq(Row)
  <2>1. PICK n \in Nat : n = Len(s) /\ DOMAIN s = 1 .. n
    OBVIOUS
  <2>2. \A i \in 1 .. n : s[i].blocks \in Row
    <3>1. \A i \in 1 .. n : s[i] \in Wire
      BY <2>1
    <3> QED
      BY <3>1 DEF Wire
  <2>3. [i \in DOMAIN s |-> s[i].blocks] \in [1 .. n -> Row]
    BY <2>1, <2>2
  <2> QED
    BY <2>3
<1>2. Blocks(s) \in Row
  BY <1>1, ChainType DEF Blocks
<1> QED
  BY <1>2, OnlyType DEF Sent

\* The messages of a history.
LEMMA MessageIs ==
  ASSUME NEW m \in Message
  PROVE  /\ m.role \in {"user", "assistant", "tool"} /\ m.text \in BOOLEAN
         /\ m.calls \in Seq(CallId)
         /\ m.role # "assistant" => m.calls = <<>>
         /\ m.role = "tool" => m.id \in CallId
         /\ m.role # "tool" => m.id = "none" /\ m.id \notin CallId
<1>1. ASSUME NEW s \in AnswerCalls PROVE s \in Seq(CallId)
  <2>1. s = <<>> \/ (\E c \in CallId : s = <<c>>) \/ (\E c, d \in CallId : s = <<c, d>>)
    BY DEF AnswerCalls
  <2>2. ASSUME NEW c \in CallId, s = <<c>> PROVE s \in Seq(CallId)
    BY <2>2
  <2>3. ASSUME NEW c \in CallId, NEW d \in CallId, s = <<c, d>> PROVE s \in Seq(CallId)
    BY <2>3
  <2>4. ASSUME s = <<>> PROVE s \in Seq(CallId)
    BY <2>4
  <2> QED
    BY <2>1, <2>2, <2>3, <2>4, Zenon
<1>2. CASE m \in UserMessage
  <2>1. m.role = "user" /\ m.text \in BOOLEAN /\ m.calls = <<>> /\ m.id = "none"
    BY <1>2 DEF UserMessage
  <2> QED
    BY <2>1
<1>3. CASE m \in AnswerMessage
  <2>1. m.role = "assistant" /\ m.text \in BOOLEAN /\ m.calls \in AnswerCalls /\ m.id = "none"
    BY <1>3 DEF AnswerMessage
  <2> QED
    BY <1>1, <2>1
<1>4. CASE m \in ResultMessage
  <2>1. m.role = "tool" /\ m.text \in BOOLEAN /\ m.calls = <<>> /\ m.id \in CallId
    BY <1>4 DEF ResultMessage
  <2> QED
    BY <2>1
<1> QED
  BY <1>2, <1>3, <1>4 DEF Message

LEMMA RowIs ==
  ASSUME NEW n \in Nat, NEW r \in [1 .. n -> WireBlock]
  PROVE  r \in Row /\ Len(r) = n /\ DOMAIN r = 1 .. n
BY DEF Row

LEMMA OneBlock ==
  ASSUME NEW b \in WireBlock
  PROVE  <<b>> \in Row /\ DOMAIN <<b>> = {1} /\ <<b>>[1] = b /\ ToSet(<<b>>) = {b}
<1>1. <<b>> \in Row /\ DOMAIN <<b>> = {1} /\ <<b>>[1] = b
  BY DEF Row
<1>2. ToSet(<<b>>) = {b}
  BY <1>1 DEF ToSet
<1> QED
  BY <1>1, <1>2

LEMMA CallsAre ==
  ASSUME NEW m \in Message
  PROVE  /\ CallBlocks(m) \in Row
         /\ \A i \in DOMAIN CallBlocks(m) : CallBlocks(m)[i].kind = "call"
         /\ {b.id : b \in ToSet(CallBlocks(m))} = ToSet(m.calls)
         /\ m.calls = <<>> => CallBlocks(m) = <<>>
<1>1. PICK n \in Nat : n = Len(m.calls) /\ DOMAIN m.calls = 1 .. n /\ \A i \in 1 .. n : m.calls[i] \in CallId
  <2>1. m.calls \in Seq(CallId)
    BY MessageIs
  <2> QED
    BY <2>1
<1>2. \A i \in 1 .. n : [kind |-> "call", id |-> m.calls[i]] \in WireBlock
  BY <1>1 DEF WireBlock, BlockKind
<1> DEFINE r == [i \in 1 .. n |-> [kind |-> "call", id |-> m.calls[i]]]
<1>3. r \in [1 .. n -> WireBlock]
  BY <1>2
<1>4. CallBlocks(m) = r
  BY <1>1 DEF CallBlocks
<1>5. \A i \in 1 .. n : r[i].kind = "call" /\ r[i].id = m.calls[i]
  OBVIOUS
<1> HIDE DEF r
<1>6. r \in Row /\ DOMAIN r = 1 .. n
  BY <1>3, RowIs
<1>7. {b.id : b \in ToSet(r)} = ToSet(m.calls)
  BY <1>1, <1>5, <1>6 DEF ToSet
<1>8. m.calls = <<>> => r = <<>>
  <2>1. m.calls = <<>> => n = 0
    BY <1>1
  <2> QED
    BY <1>3, <2>1
<1> QED
  BY <1>4, <1>5, <1>6, <1>7, <1>8

LEMMA ResultIs ==
  ASSUME NEW m \in Message, m.role = "tool"
  PROVE  ResultBlock(m) \in WireBlock /\ ResultBlock(m).kind = "result" /\ ResultBlock(m).id = m.id
BY MessageIs DEF ResultBlock, WireBlock, BlockKind

LEMMA OwnType ==
  ASSUME NEW m \in Message, NEW kind
  PROVE  Own(m, kind) \in Row
<1>1. m.role = "tool" => <<ResultBlock(m)>> \in Row
  BY ResultIs, OneBlock
<1> QED
  BY <1>1, CallsAre, NoBlocks DEF Own

OwnAdds(ms, m, kind) == Owned(Append(ms, m), kind) = Owned(ms, kind) \o Own(m, kind)

LEMMA OwnedMore ==
  ASSUME NEW ms \in Seq(Message), NEW m \in Message, NEW kind
  PROVE  OwnAdds(ms, m, kind) /\ Owned(ms, kind) \in Row
<1> DEFINE r == [i \in DOMAIN ms |-> Own(ms[i], kind)]
           t == Append(ms, m)
           u == [i \in DOMAIN t |-> Own(t[i], kind)]
<1>1. PICK n \in Nat : n = Len(ms) /\ DOMAIN ms = 1 .. n /\ \A i \in 1 .. n : ms[i] \in Message
  OBVIOUS
<1>2. \A i \in 1 .. n : Own(ms[i], kind) \in Row
  BY <1>1, OwnType
<1>3. r \in Seq(Row) /\ Len(r) = n /\ DOMAIN r = 1 .. n /\ \A i \in 1 .. n : r[i] = Own(ms[i], kind)
  <2>1. r \in [1 .. n -> Row]
    BY <1>1, <1>2
  <2> QED
    BY <1>1, <2>1
<1>4. PICK p \in Row : p = Own(m, kind)
  BY OwnType
<1>5. DOMAIN t = 1 .. n + 1 /\ t[n + 1] = m /\ \A i \in 1 .. n : t[i] = ms[i]
  BY <1>1
<1>6. Owned(ms, kind) = Chain(r) /\ Owned(Append(ms, m), kind) = Chain(u)
  BY DEF Owned
<1> HIDE DEF r, t
<1>7. PICK v \in Seq(Row) : v = Append(r, p)
  BY <1>3, AppendProperties
<1>8. DOMAIN v = 1 .. n + 1 /\ v[n + 1] = p /\ \A i \in 1 .. n : v[i] = r[i]
  BY <1>3, <1>7
<1>9. \A i \in 1 .. n + 1 : v[i] = Own(t[i], kind)
  <2> SUFFICES ASSUME NEW i \in 1 .. n + 1 PROVE v[i] = Own(t[i], kind)
    OBVIOUS
  <2>1. CASE i = n + 1
    BY <1>4, <1>5, <1>8, <2>1
  <2>2. CASE i # n + 1
    <3>1. i \in 1 .. n
      BY <2>2
    <3> QED
      BY <1>3, <1>5, <1>8, <3>1
  <2> QED
    BY <2>1, <2>2
<1>10. v = u
  <2>1. v = [i \in 1 .. n + 1 |-> v[i]]
    BY <1>8
  <2> QED
    BY <1>5, <1>9, <2>1
<1>11. Chain(Append(r, p)) = Chain(r) \o p /\ Chain(r) \in Row
  BY <1>3, ChainAppend, ChainType
<1> QED
  BY <1>4, <1>6, <1>7, <1>10, <1>11 DEF OwnAdds

LEMMA OwnedNone == \A kind : Owned(<<>>, kind) = <<>>
<1> SUFFICES ASSUME NEW kind PROVE Owned(<<>>, kind) = <<>>
  OBVIOUS
<1>1. [i \in DOMAIN <<>> |-> Own(<<>>[i], kind)] = <<>>
  OBVIOUS
<1> QED
  BY <1>1, ChainNone DEF Owned

\* The first messages, one more at a time.
OneMore(s, k, Q) == /\ SubSeq(s, 1, k - 1) \in Seq(Q) /\ s[k] \in Q
                    /\ SubSeq(s, 1, k) = Append(SubSeq(s, 1, k - 1), s[k])

LEMMA FirstMore ==
  ASSUME NEW Q, NEW s \in Seq(Q), NEW k \in 1 .. Len(s)
  PROVE  OneMore(s, k, Q)
BY DEF OneMore
\* Blocks that carry what a message has of calls and results.
Carries(blocks, m) == blocks \in Row /\ \A kind \in Kinds : Only(blocks, kind) = Own(m, kind)

LEMMA WordsCarry ==
  ASSUME NEW blocks \in Row, NEW m \in Message, m.calls = <<>>, m.role # "tool",
         \A i \in DOMAIN blocks : blocks[i].kind \notin Kinds
  PROVE  Carries(blocks, m)
<1>1. \A kind \in Kinds : Own(m, kind) = <<>>
  BY CallsAre DEF Own
<1>2. ASSUME NEW kind \in Kinds PROVE Only(blocks, kind) = <<>>
  <2>1. \A i \in DOMAIN blocks : blocks[i].kind # kind
    OBVIOUS
  <2> QED
    BY <2>1, OnlyNone
<1> QED
  BY <1>1, <1>2 DEF Carries

LEMMA ResultCarried ==
  ASSUME NEW m \in Message, m.role = "tool"
  PROVE  Carries(<<ResultBlock(m)>>, m)
<1>1. PICK b \in WireBlock : b = ResultBlock(m) /\ b.kind = "result"
  BY ResultIs
<1>2. <<b>> \in Row /\ \A i \in DOMAIN <<b>> : <<b>>[i].kind = "result"
  BY <1>1, OneBlock
<1>3. Only(<<b>>, "result") = <<b>>
  BY <1>2, OnlyAll
<1>4. Only(<<b>>, "call") = <<>>
  <2>1. \A i \in DOMAIN <<b>> : <<b>>[i].kind # "call"
    BY <1>2
  <2> QED
    BY <1>2, <2>1, OnlyNone
<1>5. Own(m, "result") = <<b>> /\ Own(m, "call") = <<>>
  <2>1. m.calls = <<>>
    BY MessageIs
  <2> QED
    BY <1>1, <2>1, CallsAre DEF Own
<1> QED
  BY <1>1, <1>2, <1>3, <1>4, <1>5 DEF Carries, Kinds

LEMMA WordIs == <<Plain("text")>> \in Row /\ \A i \in DOMAIN <<Plain("text")>> : <<Plain("text")>>[i].kind = "text"
<1>1. Plain("text") \in WireBlock /\ Plain("text").kind = "text"
  BY DEF Plain, WireBlock, BlockKind
<1> QED
  BY <1>1, OneBlock

LEMMA AnswerCarried ==
  ASSUME NEW m \in Message, m.role = "assistant", NEW t \in {<<>>, <<Plain("text")>>}
  PROVE  Carries(t \o CallBlocks(m), m)
<1>1. PICK c \in Row : c = CallBlocks(m) /\ \A i \in DOMAIN c : c[i].kind = "call"
  BY CallsAre
<1>2. t \in Row /\ \A i \in DOMAIN t : t[i].kind \notin Kinds
  BY WordIs, NoBlocks DEF Kinds
<1>3. \A kind \in Kinds : Only(t, kind) = <<>>
  <2> SUFFICES ASSUME NEW kind \in Kinds PROVE Only(t, kind) = <<>>
    OBVIOUS
  <2>1. \A i \in DOMAIN t : t[i].kind # kind
    BY <1>2
  <2> QED
    BY <1>2, <2>1, OnlyNone
<1>4. Only(c, "call") = c
  BY <1>1, OnlyAll
<1>5. Only(c, "result") = <<>>
  <2>1. \A i \in DOMAIN c : c[i].kind # "result"
    BY <1>1
  <2> QED
    BY <1>1, <2>1, OnlyNone
<1>6. t \o c \in Row
  BY <1>1, <1>2, RowsJoin
<1> DEFINE Apart(kind) == Only(t \o c, kind) = Only(t, kind) \o Only(c, kind)
<1>9. \A kind \in Kinds : Apart(kind)
  <2> SUFFICES ASSUME NEW kind \in Kinds PROVE Apart(kind)
    OBVIOUS
  <2> QED
    BY <1>1, <1>2, OnlyConcat
<1>7. <<>> \o c = c /\ <<>> \o <<>> = <<>>
  BY RowsJoin, NoBlocks
<1>8. Own(m, "call") = c /\ Own(m, "result") = <<>>
  BY <1>1 DEF Own
<1> QED
  BY <1>1, <1>3, <1>4, <1>5, <1>6, <1>7, <1>8, <1>9 DEF Carries, Kinds

\* A user's words and files, in any provider's form.
LEMMA PartsAre ==
  ASSUME NEW m \in Message, m.role = "user"
  PROVE  \E n \in Nat : DOMAIN m.parts = 1 .. n /\ (m.parts # <<>> => n # 0)
<1>1. m.parts \in UserParts
  BY DEF Message, UserMessage, AnswerMessage, ResultMessage
<1>2. CASE m.parts = <<>>
  <2>1. DOMAIN m.parts = 1 .. 0
    BY <1>2
  <2>2. 0 \in Nat
    OBVIOUS
  <2> QED
    BY <1>2, <2>1, <2>2
<1>3. ASSUME NEW p, NEW q, m.parts = <<p, q>>
      PROVE  \E n \in Nat : DOMAIN m.parts = 1 .. n /\ (m.parts # <<>> => n # 0)
  <2>1. DOMAIN m.parts = 1 .. 2
    BY <1>3
  <2> QED
    BY <2>1
<1>4. m.parts = <<>> \/ \E p, q : m.parts = <<p, q>>
  BY <1>1 DEF UserParts
<1> QED
  BY <1>2, <1>3, <1>4, Zenon

Words == {"text", "note", "image", "file"}

LEMMA WordsAre ==
  ASSUME NEW m \in Message, m.role = "user", NEW r, DOMAIN r = DOMAIN m.parts,
         r = [i \in DOMAIN r |-> r[i]],
         \A i \in DOMAIN r : \E kind \in Words : r[i] = Plain(kind)
  PROVE  /\ Carries(IF m.parts = <<>> THEN <<Plain("text")>> ELSE r, m)
         /\ (IF m.parts = <<>> THEN <<Plain("text")>> ELSE r) # <<>>
<1>1. m.calls = <<>>
  BY MessageIs
<1>2. CASE m.parts = <<>>
  <2>1. Carries(<<Plain("text")>>, m)
    <3>1. \A i \in DOMAIN <<Plain("text")>> : <<Plain("text")>>[i].kind \notin Kinds
      BY WordIs DEF Kinds
    <3> QED
      BY <1>1, <3>1, WordIs, WordsCarry
  <2> QED
    BY <1>2, <2>1
<1>3. CASE m.parts # <<>>
  <2>1. PICK n \in Nat : DOMAIN m.parts = 1 .. n /\ n # 0
    BY <1>3, PartsAre
  <2>2. \A i \in 1 .. n : r[i] \in WireBlock /\ r[i].kind \notin Kinds
    BY <2>1 DEF Plain, WireBlock, BlockKind, Words, Kinds
  <2>3. r \in [1 .. n -> WireBlock]
    BY <2>1, <2>2
  <2>4. r \in Row /\ Len(r) = n /\ DOMAIN r = 1 .. n
    BY <2>3, RowIs
  <2>5. r # <<>>
    BY <2>1, <2>4
  <2>6. Carries(r, m)
    BY <1>1, <2>2, <2>4, WordsCarry
  <2> QED
    BY <1>3, <2>5, <2>6
<1> QED
  BY <1>2, <1>3

LEMMA BlockIs == \A kind : Block(kind) \in Words
<1> SUFFICES ASSUME NEW kind PROVE Block(kind) \in Words
  OBVIOUS
<1>1. CASE kind \in {"text", "document"}
  BY <1>1 DEF Block, Words
<1>2. CASE kind = "pdf"
  BY <1>2 DEF Block, Words
<1>3. CASE kind \in {"image", "odd image"}
  BY <1>3 DEF Block, Words
<1>4. CASE kind \notin {"text", "document", "pdf", "image", "odd image"}
  BY <1>4 DEF Block, Words
<1> QED
  BY <1>1, <1>2, <1>3, <1>4

LEMMA QuestionsCarry ==
  ASSUME NEW m \in Message, m.role = "user"
  PROVE  /\ Carries(UserBlocks(m, toAnthropicContentBlocks), m) /\ UserBlocks(m, toAnthropicContentBlocks) # <<>>
         /\ Carries(UserBlocks(m, toOpenAIUserMultimodal), m) /\ UserBlocks(m, toOpenAIUserMultimodal) # <<>>
         /\ Carries(UserBlocks(m, toGeminiUserMultimodal), m)
<1>1. "note" \in Words
  BY DEF Words
<1> DEFINE a == toAnthropicContentBlocks(m.parts)
           o == toOpenAIUserMultimodal(m.parts)
<1>2. DOMAIN a = DOMAIN m.parts /\ a = [i \in DOMAIN a |-> a[i]]
  BY DEF toAnthropicContentBlocks
<1>3. \A i \in DOMAIN a : \E kind \in Words : a[i] = Plain(kind)
  BY <1>1, BlockIs DEF toAnthropicContentBlocks
<1>4. DOMAIN o = DOMAIN m.parts /\ o = [i \in DOMAIN o |-> o[i]]
  BY DEF toOpenAIUserMultimodal
<1>5. \A i \in DOMAIN o : \E kind \in Words : o[i] = Plain(kind)
  BY BlockIs DEF toOpenAIUserMultimodal
<1>6. toGeminiUserMultimodal(m.parts) = o
  BY DEF toGeminiUserMultimodal, toOpenAIUserMultimodal
<1>7. /\ UserBlocks(m, toAnthropicContentBlocks) = IF m.parts = <<>> THEN <<Plain("text")>> ELSE a
      /\ UserBlocks(m, toOpenAIUserMultimodal) = IF m.parts = <<>> THEN <<Plain("text")>> ELSE o
      /\ UserBlocks(m, toGeminiUserMultimodal) = IF m.parts = <<>> THEN <<Plain("text")>> ELSE o
  BY <1>6 DEF UserBlocks
<1> HIDE DEF a, o
<1>8. /\ Carries(IF m.parts = <<>> THEN <<Plain("text")>> ELSE a, m)
      /\ (IF m.parts = <<>> THEN <<Plain("text")>> ELSE a) # <<>>
  BY <1>2, <1>3, WordsAre
<1>9. /\ Carries(IF m.parts = <<>> THEN <<Plain("text")>> ELSE o, m)
      /\ (IF m.parts = <<>> THEN <<Plain("text")>> ELSE o) # <<>>
  BY <1>4, <1>5, WordsAre
<1> QED
  BY <1>7, <1>8, <1>9

\* A message whose blocks carry another's has its calls and its results.
LEMMA CarriedAre ==
  ASSUME NEW w \in Wire, NEW m \in Message, Carries(w.blocks, m)
  PROVE  /\ These(w, "call") = ToSet(m.calls)
         /\ These(w, "result") = IF m.role = "tool" THEN {m.id} ELSE {}
<1>1. w.blocks \in Row
  BY DEF Wire
<1>2. ASSUME NEW kind \in Kinds PROVE These(w, kind) = {b.id : b \in ToSet(Own(m, kind))}
  <2>1. Only(w.blocks, kind) = Own(m, kind) /\ Only(w.blocks, kind) = Among(w.blocks, Of(kind))
    BY <1>1, OnlyIsAmong DEF Carries
  <2>2. ToSet(Among(w.blocks, Of(kind))) = ToSet(w.blocks) \cap Of(kind)
    BY <1>1, AmongFits DEF Row
  <2>3. \A i \in DOMAIN w.blocks : w.blocks[i] \in WireBlock
    BY <1>1 DEF Row
  <2>4. These(w, kind) = {b.id : b \in ToSet(w.blocks) \cap Of(kind)}
    BY <2>3 DEF These, Of, ToSet
  <2> QED
    BY <2>1, <2>2, <2>4
<1>3. These(w, "call") = {b.id : b \in ToSet(CallBlocks(m))}
  BY <1>2 DEF Own, Kinds
<1>4. CASE m.role = "tool"
  <2>1. These(w, "result") = {b.id : b \in ToSet(<<ResultBlock(m)>>)}
    BY <1>2, <1>4 DEF Own, Kinds
  <2>2. ToSet(<<ResultBlock(m)>>) = {ResultBlock(m)} /\ ResultBlock(m).id = m.id
    BY <1>4, ResultIs, OneBlock
  <2> QED
    BY <1>3, <1>4, <2>1, <2>2, CallsAre
<1>5. CASE m.role # "tool"
  <2>1. These(w, "result") = {b.id : b \in ToSet(<<>>)}
    BY <1>2, <1>5 DEF Own, Kinds
  <2>2. ToSet(<<>>) = {}
    BY DEF ToSet
  <2> QED
    BY <1>3, <1>5, <2>1, <2>2, CallsAre
<1> QED
  BY <1>4, <1>5

\* Messages that carry a history's, one for one.
Fits(s, ms) == /\ Len(s) = Len(ms)
               /\ \A i \in DOMAIN ms : Carries(s[i].blocks, ms[i])

LEMMA FitsSent ==
  ASSUME NEW ms \in Seq(Message), NEW s \in Seq(Wire), Fits(s, ms), NEW kind \in Kinds
  PROVE  Sent(s, kind) = Owned(ms, kind)
<1>1. PICK n \in Nat : n = Len(ms) /\ n = Len(s) /\ DOMAIN ms = 1 .. n
  BY DEF Fits
<1> DEFINE Same(k) == Sent(SubSeq(s, 1, k), kind) = Owned(SubSeq(ms, 1, k), kind)
           bad == {k \in Nat : k <= n /\ ~Same(k)}
<1>2. bad = {}
  <2> SUFFICES ASSUME bad # {} PROVE FALSE
    OBVIOUS
  <2>1. bad \in SUBSET Nat
    OBVIOUS
  <2> HIDE DEF bad
  <2>2. PICK k \in bad : \A y \in bad : k <= y
    BY <2>1, Smallest
  <2>3. k \in Nat /\ k <= n /\ ~Same(k)
    BY <2>2 DEF bad
  <2>4. CASE k = 0
    <3>1. SubSeq(s, 1, 0) = <<>> /\ SubSeq(ms, 1, 0) = <<>>
      OBVIOUS
    <3> QED
      BY <2>3, <2>4, <3>1, SentNone, OwnedNone
  <2>5. CASE k # 0
    <3>1. k \in 1 .. n /\ k - 1 \in Nat /\ k - 1 <= n /\ ~(k <= k - 1)
      BY <1>1, <2>3, <2>5
    <3>2. Same(k - 1)
      BY <2>2, <3>1 DEF bad
    <3>3. OneMore(s, k, Wire) /\ OneMore(ms, k, Message)
      BY <1>1, <3>1, FirstMore
    <3>4. PICK p \in Seq(Wire), w \in Wire :
             p = SubSeq(s, 1, k - 1) /\ w = s[k] /\ SubSeq(s, 1, k) = Append(p, w)
      BY <3>3 DEF OneMore
    <3>5. PICK q \in Seq(Message), m \in Message :
             q = SubSeq(ms, 1, k - 1) /\ m = ms[k] /\ SubSeq(ms, 1, k) = Append(q, m)
      BY <3>3 DEF OneMore
    <3>6. Sent(p, kind) = Owned(q, kind)
      BY <3>2, <3>4, <3>5
    <3>7. Adds(p, w, kind) /\ OwnAdds(q, m, kind)
      BY SentMore, OwnedMore
    <3>8. Only(w.blocks, kind) = Own(m, kind)
      <4>1. Carries(s[k].blocks, ms[k])
        BY <1>1, <3>1 DEF Fits
      <4> QED
        BY <3>4, <3>5, <4>1 DEF Carries
    <3>9. Sent(Append(p, w), kind) = Owned(Append(q, m), kind)
      BY <3>6, <3>7, <3>8 DEF Adds, OwnAdds
    <3> QED
      BY <2>3, <3>4, <3>5, <3>9
  <2> QED
    BY <2>4, <2>5
<1>3. Same(n)
  BY <1>1, <1>2
<1>4. SubSeq(s, 1, n) = s /\ SubSeq(ms, 1, n) = ms
  BY <1>1
<1> QED
  BY <1>3, <1>4

LEMMA WireIs ==
  ASSUME NEW role \in {"user", "assistant", "tool"}, NEW b \in Row
  PROVE  WireMessage(role, b) \in Wire /\ WireMessage(role, b).blocks = b
BY DEF WireMessage, Wire

LEMMA WiresAre ==
  ASSUME NEW n \in Nat, NEW s \in [1 .. n -> Wire]
  PROVE  s \in Seq(Wire) /\ Len(s) = n
OBVIOUS

\* OpenAI gets one message each, and none is empty.
OpenAIMessage(m) ==
  CASE m.role = "user" -> WireMessage("user", UserBlocks(m, toOpenAIUserMultimodal))
    [] m.role = "tool" -> WireMessage("tool", <<ResultBlock(m)>>)
    [] OTHER -> WireMessage("assistant", <<Plain("text")>> \o CallBlocks(m))

LEMMA OpenAICarries ==
  ASSUME NEW m \in Message
  PROVE  /\ OpenAIMessage(m) \in Wire
         /\ Carries(OpenAIMessage(m).blocks, m) /\ OpenAIMessage(m).blocks # <<>>
<1>1. CASE m.role = "user"
  <2>1. PICK b \in Row : b = UserBlocks(m, toOpenAIUserMultimodal) /\ Carries(b, m) /\ b # <<>>
    BY <1>1, QuestionsCarry DEF Carries
  <2>2. OpenAIMessage(m) = WireMessage("user", b)
    BY <1>1, <2>1 DEF OpenAIMessage
  <2> QED
    BY <2>1, <2>2, WireIs
<1>2. CASE m.role = "tool"
  <2>1. PICK b \in Row : b = <<ResultBlock(m)>> /\ Carries(b, m) /\ b # <<>>
    BY <1>2, ResultCarried DEF Carries
  <2>2. OpenAIMessage(m) = WireMessage("tool", b)
    BY <1>2, <2>1 DEF OpenAIMessage
  <2> QED
    BY <2>1, <2>2, WireIs
<1>3. CASE m.role = "assistant"
  <2>1. Carries(<<Plain("text")>> \o CallBlocks(m), m)
    BY <1>3, AnswerCarried
  <2>2. <<Plain("text")>> \o CallBlocks(m) # <<>>
    <3>1. PICK t \in Row : t = <<Plain("text")>> /\ Len(t) = 1
      BY WordIs
    <3>2. PICK c \in Row : c = CallBlocks(m)
      BY CallsAre
    <3>3. Len(t \o c) = Len(t) + Len(c) /\ Len(c) \in Nat
      BY DEF Row
    <3>4. Len(t \o c) # 0
      BY <3>1, <3>3
    <3> QED
      BY <3>1, <3>2, <3>4, NoBlocks
  <2>3. PICK b \in Row : b = <<Plain("text")>> \o CallBlocks(m) /\ Carries(b, m) /\ b # <<>>
    BY <2>1, <2>2 DEF Carries
  <2>4. OpenAIMessage(m) = WireMessage("assistant", b)
    BY <1>3, <2>3 DEF OpenAIMessage
  <2> QED
    BY <2>3, <2>4, WireIs
<1> QED
  BY <1>1, <1>2, <1>3, MessageIs

LEMMA OpenAIFits ==
  ASSUME NEW ms \in Seq(Message)
  PROVE  LET s == toOpenAIMessages(ms) IN
         s \in Seq(Wire) /\ Fits(s, ms) /\ \A i \in DOMAIN s : s[i].blocks # <<>>
<1>1. PICK n \in Nat : n = Len(ms) /\ DOMAIN ms = 1 .. n /\ \A i \in 1 .. n : ms[i] \in Message
  OBVIOUS
<1> DEFINE s == [i \in 1 .. n |-> OpenAIMessage(ms[i])]
<1>2. toOpenAIMessages(ms) = s
  BY <1>1 DEF toOpenAIMessages, OpenAIMessage
<1>3. \A i \in 1 .. n : s[i] \in Wire /\ Carries(s[i].blocks, ms[i]) /\ s[i].blocks # <<>>
  BY <1>1, OpenAICarries
<1>4. s \in [1 .. n -> Wire]
  BY <1>3
<1> HIDE DEF s
<1>5. s \in Seq(Wire) /\ Len(s) = n
  BY <1>4, WiresAre
<1> QED
  BY <1>1, <1>2, <1>3, <1>4, <1>5 DEF Fits

\* Gemini gets one content each, or all of it in one.
GeminiContent(m) ==
  CASE m.role = "user" -> WireMessage("user", UserBlocks(m, toGeminiUserMultimodal))
    [] m.role = "tool" -> toGeminiFunctionResponseContent(m)
    [] OTHER -> toGeminiAssistantContent(m)

LEMMA GeminiCarries ==
  ASSUME NEW m \in Message
  PROVE  GeminiContent(m) \in Wire /\ Carries(GeminiContent(m).blocks, m)
<1>1. CASE m.role = "user"
  <2>1. PICK b \in Row : b = UserBlocks(m, toGeminiUserMultimodal) /\ Carries(b, m)
    BY <1>1, QuestionsCarry DEF Carries
  <2>2. GeminiContent(m) = WireMessage("user", b)
    BY <1>1, <2>1 DEF GeminiContent
  <2> QED
    BY <2>1, <2>2, WireIs
<1>2. CASE m.role = "tool"
  <2>1. PICK b \in Row : b = <<ResultBlock(m)>> /\ Carries(b, m)
    BY <1>2, ResultCarried DEF Carries
  <2>2. GeminiContent(m) = WireMessage("user", b)
    BY <1>2, <2>1 DEF GeminiContent, toGeminiFunctionResponseContent
  <2> QED
    BY <2>1, <2>2, WireIs
<1>3. CASE m.role = "assistant"
  <2>1. TextBlock(m) \in {<<>>, <<Plain("text")>>}
    BY DEF TextBlock
  <2>2. PICK b \in Row : b = TextBlock(m) \o CallBlocks(m) /\ Carries(b, m)
    BY <1>3, <2>1, AnswerCarried DEF Carries
  <2>3. GeminiContent(m) = WireMessage("assistant", b)
    BY <1>3, <2>2 DEF GeminiContent, toGeminiAssistantContent
  <2> QED
    BY <2>2, <2>3, WireIs
<1> QED
  BY <1>1, <1>2, <1>3, MessageIs

LEMMA GeminiFits ==
  ASSUME NEW ms \in Seq(Message)
  PROVE  toGeminiContents(ms) \in Seq(Wire) /\ Fits(toGeminiContents(ms), ms)
<1>1. PICK n \in Nat : n = Len(ms) /\ DOMAIN ms = 1 .. n /\ \A i \in 1 .. n : ms[i] \in Message
  OBVIOUS
<1> DEFINE s == [i \in 1 .. n |-> GeminiContent(ms[i])]
<1>2. toGeminiContents(ms) = s
  BY <1>1 DEF toGeminiContents, GeminiContent
<1>3. \A i \in 1 .. n : s[i] \in Wire /\ Carries(s[i].blocks, ms[i])
  BY <1>1, GeminiCarries
<1>4. s \in [1 .. n -> Wire]
  BY <1>3
<1> HIDE DEF s
<1>5. s \in Seq(Wire) /\ Len(s) = n
  BY <1>4, WiresAre
<1> QED
  BY <1>1, <1>2, <1>3, <1>5 DEF Fits

LEMMA ChatSent ==
  ASSUME NEW s \in Seq(Wire), NEW kind \in Kinds
  PROVE  Sent(contentsToPartsForChat(s), kind) = Sent(s, kind)
<1>1. PICK b \in Row : b = Blocks(s)
  BY SentType
<1>2. PICK w \in Wire : w = WireMessage("user", b) /\ w.blocks = b
  BY WireIs
<1>3. contentsToPartsForChat(s) = Append(<<>>, w)
  BY <1>1, <1>2 DEF contentsToPartsForChat
<1>4. Adds(<<>>, w, kind)
  <2>1. <<>> \in Seq(Wire)
    OBVIOUS
  <2> QED
    BY <2>1, SentMore
<1>5. Sent(Append(<<>>, w), kind) = <<>> \o Only(b, kind)
  BY <1>2, <1>4, SentNone DEF Adds
<1>6. <<>> \o Only(b, kind) = Only(b, kind)
  BY OnlyType, RowsJoin
<1> QED
  BY <1>1, <1>3, <1>5, <1>6 DEF Sent

\* In an ordered history the results of a message's calls come next.
CallsAt(ms, h) ==
  LET n == Len(ms[h].calls) IN
  /\ n \in Nat /\ h + n <= Len(ms)
  /\ IsInjective(ms[h].calls)
  /\ ToSet(ms[h].calls) = {ms[j].id : j \in (h + 1) .. (h + n)}

LEMMA CallsInOrder ==
  ASSUME NEW ms \in Seq(Message), WellFormed(ms), NEW h \in 1 .. Len(ms), ms[h].calls # <<>>
  PROVE  /\ CallsAt(ms, h)
         /\ \A j \in (h + 1) .. (h + Len(ms[h].calls)) :
              j \in 1 .. Len(ms) /\ ms[j].role = "tool" /\ ms[j].calls = <<>>
<1>1. ms[h] \in Message /\ h \in DOMAIN ms
  OBVIOUS
<1>2. ms[h].calls \in Seq(CallId)
  BY <1>1, MessageIs
<1>3. PICK n \in Nat : n = Len(ms[h].calls) /\ n > 0
  BY <1>2
<1>4. CallsAt(ms, h)
  <2>1. /\ h + n <= Len(ms) /\ IsInjective(ms[h].calls)
        /\ ToSet(ms[h].calls) = {ms[j].id : j \in (h + 1) .. (h + n)}
    BY <1>1, <1>3 DEF WellFormed
  <2> QED
    BY <1>3, <2>1 DEF CallsAt
<1>5. ASSUME NEW j \in (h + 1) .. (h + n)
      PROVE  j \in 1 .. Len(ms) /\ ms[j].role = "tool" /\ ms[j].calls = <<>>
  <2>1. h + n <= Len(ms) /\ ms[j].id \in ToSet(ms[h].calls)
    BY <1>3, <1>4 DEF CallsAt
  <2>2. j \in 1 .. Len(ms)
    BY <2>1
  <2>3. ToSet(ms[h].calls) \subseteq CallId
    BY <1>2 DEF ToSet
  <2>4. ms[j] \in Message
    BY <2>2
  <2> QED
    BY <2>1, <2>2, <2>3, <2>4, MessageIs
<1> QED
  BY <1>3, <1>4, <1>5

LEMMA ToolIsOwed ==
  ASSUME NEW ms \in Seq(Message), WellFormed(ms), NEW k \in 1 .. Len(ms), ms[k].role = "tool"
  PROVE  \E h \in 1 .. k - 1 : /\ h \in 1 .. Len(ms) /\ ms[h].calls # <<>>
                               /\ k \in (h + 1) .. (h + Len(ms[h].calls))
<1>1. PICK h \in 1 .. k - 1 : k - h <= Len(ms[h].calls)
  BY DEF WellFormed
<1>2. h \in 1 .. Len(ms) /\ ms[h] \in Message
  OBVIOUS
<1>3. PICK n \in Nat : n = Len(ms[h].calls) /\ (ms[h].calls = <<>> => n = 0)
  <2>1. ms[h].calls \in Seq(CallId)
    BY <1>2, MessageIs
  <2> QED
    BY <2>1
<1>4. k - h <= n /\ k \in (h + 1) .. (h + n) /\ n # 0
  BY <1>1, <1>3
<1> QED
  BY <1>2, <1>3, <1>4

\* Two messages with calls do not share results.
LEMMA NoOverlap ==
  ASSUME NEW ms \in Seq(Message), WellFormed(ms), NEW h \in 1 .. Len(ms), NEW g \in 1 .. Len(ms),
         ms[h].calls # <<>>, ms[g].calls # <<>>,
         NEW k \in Nat, k \in (h + 1) .. (h + Len(ms[h].calls)), k \in (g + 1) .. (g + Len(ms[g].calls))
  PROVE  h = g
<1>1. PICK a \in Nat : a = Len(ms[h].calls) /\ \A j \in (h + 1) .. (h + a) : ms[j].calls = <<>>
  BY CallsInOrder DEF CallsAt
<1>2. PICK b \in Nat : b = Len(ms[g].calls) /\ \A j \in (g + 1) .. (g + b) : ms[j].calls = <<>>
  BY CallsInOrder DEF CallsAt
<1>3. CASE h < g
  <2>1. g \in (h + 1) .. (h + a)
    BY <1>1, <1>2, <1>3
  <2> QED
    BY <1>1, <2>1
<1>4. CASE g < h
  <2>1. h \in (g + 1) .. (g + b)
    BY <1>1, <1>2, <1>4
  <2> QED
    BY <1>2, <2>1
<1> QED
  BY <1>3, <1>4

LEMMA InjectiveSize ==
  ASSUME NEW S, NEW c \in Seq(S), IsInjective(c)
  PROVE  Cardinality(ToSet(c)) = Len(c)
<1>1. PICK n \in Nat : n = Len(c) /\ DOMAIN c = 1 .. n
  OBVIOUS
<1>2. c \in [1 .. n -> ToSet(c)]
  BY <1>1 DEF ToSet
<1>3. \A y \in ToSet(c) : \E x \in 1 .. n : c[x] = y
  BY <1>1 DEF ToSet
<1>5. ExistsBijection(1 .. n, ToSet(c))
  <2>1. c \in Bijection(1 .. n, ToSet(c))
    BY <1>1, <1>2, <1>3 DEF Bijection, Injection, Surjection
  <2> QED
    BY <2>1 DEF ExistsBijection
<1>6. Cardinality(ToSet(c)) = n
  BY <1>5, FS_CountingElements
<1> QED
  BY <1>1, <1>6

LEMMA OpenAIFollows ==
  ASSUME NEW ms \in Seq(Message), WellFormed(ms), NEW s \in Seq(Wire), Fits(s, ms)
  PROVE  CallsAreFollowed(s, "openai")
<1>1. PICK n \in Nat : n = Len(ms) /\ n = Len(s) /\ DOMAIN ms = 1 .. n /\ DOMAIN s = 1 .. n
  BY DEF Fits
<1>2. ASSUME NEW i \in 1 .. n
      PROVE  /\ These(s[i], "call") = ToSet(ms[i].calls)
             /\ These(s[i], "result") = IF ms[i].role = "tool" THEN {ms[i].id} ELSE {}
  <2>1. s[i] \in Wire /\ ms[i] \in Message /\ Carries(s[i].blocks, ms[i])
    BY <1>1 DEF Fits
  <2> QED
    BY <2>1, CarriedAre
<1>3. ASSUME NEW i \in 1 .. n, These(s[i], "call") # {}
      PROVE  LET k == Cardinality(These(s[i], "call")) IN
             /\ i + k <= Len(s)
             /\ UNION {These(s[j], "result") : j \in (i + 1) .. (i + k)} = These(s[i], "call")
  <2>1. ms[i].calls # <<>>
    <3>1. ToSet(<<>>) = {}
      BY DEF ToSet
    <3> QED
      BY <1>2, <1>3, <3>1
  <2>2. i \in 1 .. Len(ms)
    BY <1>1
  <2>3. PICK k \in Nat :
           /\ k = Len(ms[i].calls) /\ i + k <= n /\ IsInjective(ms[i].calls)
           /\ ToSet(ms[i].calls) = {ms[j].id : j \in (i + 1) .. (i + k)}
           /\ \A j \in (i + 1) .. (i + k) : j \in 1 .. n /\ ms[j].role = "tool"
    BY <1>1, <2>1, <2>2, CallsInOrder DEF CallsAt
  <2>4. Cardinality(These(s[i], "call")) = k
    <3>1. ms[i].calls \in Seq(CallId)
      <4>1. ms[i] \in Message
        BY <2>2
      <4> QED
        BY <4>1, MessageIs
    <3> QED
      BY <1>2, <2>3, <3>1, InjectiveSize
  <2>5. \A j \in (i + 1) .. (i + k) : These(s[j], "result") = {ms[j].id}
    BY <1>2, <2>3
  <2>6. UNION {These(s[j], "result") : j \in (i + 1) .. (i + k)} = {ms[j].id : j \in (i + 1) .. (i + k)}
    <3> DEFINE D == (i + 1) .. (i + k)
               R(j) == These(s[j], "result")
    <3>1. \A j \in D : R(j) = {ms[j].id}
      BY <2>5
    <3> HIDE DEF D, R
    <3>2. UNION {R(j) : j \in D} = {ms[j].id : j \in D}
      BY <3>1
    <3> QED
      BY <3>2 DEF D, R
  <2> QED
    BY <1>1, <1>2, <2>3, <2>4, <2>6
<1> QED
  BY <1>1, <1>3 DEF CallsAreFollowed

\* Anthropic's conversion on the way: results wait behind the message whose
\* calls they answer.
Converting == [sent : Seq(Wire), pending : Row]
Filled(s) == \A i \in DOMAIN s : s[i].blocks # <<>>
Followed(s) == \A i \in 1 .. Len(s) - 1 :
                 These(s[i], "call") # {} => These(s[i + 1], "result") = These(s[i], "call")
Ids(blocks) == {b.id : b \in ToSet(blocks)}
Awaits(t, ms, n) ==
  (Len(t.sent) > 0 /\ These(t.sent[Len(t.sent)], "call") # {}) =>
    \E h \in 1 .. n :
      /\ ms[h].calls # <<>>
      /\ These(t.sent[Len(t.sent)], "call") = ToSet(ms[h].calls)
      /\ n <= h + Len(ms[h].calls)
      /\ Ids(t.pending) = {ms[j].id : j \in (h + 1) .. n}
Delivered(t, ms, n) ==
  \A kind \in Kinds : Sent(t.sent, kind) \o Only(t.pending, kind) = Owned(SubSeq(ms, 1, n), kind)
Converted(t, ms, n) ==
  /\ t \in Converting
  /\ \A i \in DOMAIN t.pending : t.pending[i].kind = "result"
  /\ Filled(t.sent) /\ Followed(t.sent)
  /\ Delivered(t, ms, n)
  /\ Awaits(t, ms, n)

\* No result waits, and all calls have theirs.
Settled(t, ms, n) ==
  /\ Converted(t, ms, n) /\ t.pending = <<>>
  /\ CallsAreFollowed(t.sent, "anthropic")

Puts(s, w) ==
  /\ Append(s, w) \in Seq(Wire) /\ Len(Append(s, w)) = Len(s) + 1 /\ Len(s) \in Nat
  /\ Append(s, w)[Len(s) + 1] = w
  /\ \A i \in 1 .. Len(s) : Append(s, w)[i] = s[i]

LEMMA PutIs ==
  ASSUME NEW s \in Seq(Wire), NEW w \in Wire
  PROVE  Puts(s, w)
BY AppendProperties DEF Puts

LEMMA PutFilled ==
  ASSUME NEW s \in Seq(Wire), NEW w \in Wire, Filled(s), w.blocks # <<>>
  PROVE  Filled(Append(s, w))
<1>1. PICK n \in Nat, t \in Seq(Wire) :
        /\ n = Len(s) /\ t = Append(s, w) /\ Len(t) = n + 1
        /\ t[n + 1] = w /\ \A i \in 1 .. n : t[i] = s[i]
  BY PutIs DEF Puts
<1>2. ASSUME NEW i \in 1 .. n + 1 PROVE t[i].blocks # <<>>
  <2>1. CASE i = n + 1
    BY <1>1, <2>1
  <2>2. CASE i # n + 1
    <3>1. i \in 1 .. n /\ i \in DOMAIN s
      BY <1>1, <2>2
    <3> QED
      BY <1>1, <3>1 DEF Filled
  <2> QED
    BY <2>1, <2>2
<1>3. DOMAIN t = 1 .. n + 1
  BY <1>1
<1> QED
  BY <1>1, <1>2, <1>3 DEF Filled

LEMMA PutFollowed ==
  ASSUME NEW s \in Seq(Wire), NEW w \in Wire, Followed(s),
         (Len(s) > 0 /\ These(s[Len(s)], "call") # {}) =>
           These(w, "result") = These(s[Len(s)], "call")
  PROVE  Followed(Append(s, w))
<1>1. PICK n \in Nat, t \in Seq(Wire) :
        /\ n = Len(s) /\ t = Append(s, w) /\ Len(t) = n + 1
        /\ t[n + 1] = w /\ \A i \in 1 .. n : t[i] = s[i]
  BY PutIs DEF Puts
<1>2. ASSUME NEW i \in 1 .. n, These(t[i], "call") # {}
      PROVE  These(t[i + 1], "result") = These(t[i], "call")
  <2>1. t[i] = s[i]
    BY <1>1
  <2>2. CASE i = n
    <3>1. n > 0 /\ t[n + 1] = w /\ t[i] = s[n]
      BY <1>1, <2>1, <2>2
    <3> QED
      BY <1>1, <1>2, <2>2, <3>1
  <2>3. CASE i # n
    <3>1. i \in 1 .. n - 1 /\ i + 1 \in 1 .. n
      BY <2>3
    <3>2. t[i + 1] = s[i + 1]
      BY <1>1, <3>1
    <3> QED
      BY <1>1, <1>2, <2>1, <3>1, <3>2 DEF Followed
  <2> QED
    BY <2>2, <2>3
<1>3. Len(t) - 1 = n
  BY <1>1
<1> QED
  BY <1>1, <1>2, <1>3 DEF Followed

\* When nothing is owed the last message has no calls without results.
LEMMA FollowedToTheEnd ==
  ASSUME NEW s \in Seq(Wire), Followed(s),
         Len(s) > 0 => These(s[Len(s)], "call") = {}
  PROVE  CallsAreFollowed(s, "anthropic")
<1>1. PICK n \in Nat : n = Len(s) /\ DOMAIN s = 1 .. n
  OBVIOUS
<1>2. ASSUME NEW i \in 1 .. n, These(s[i], "call") # {}
      PROVE  i < Len(s) /\ These(s[i + 1], "result") = These(s[i], "call")
  <2>1. i # n
    BY <1>1, <1>2
  <2>2. i \in 1 .. Len(s) - 1 /\ i < Len(s)
    BY <1>1, <2>1
  <2> QED
    BY <1>2, <2>2 DEF Followed
<1> QED
  BY <1>1, <1>2 DEF CallsAreFollowed

LEMMA FollowedBefore ==
  ASSUME NEW s \in Seq(Wire), CallsAreFollowed(s, "anthropic")
  PROVE  Len(s) > 0 => These(s[Len(s)], "call") = {}
<1> SUFFICES ASSUME Len(s) > 0, These(s[Len(s)], "call") # {} PROVE FALSE
  OBVIOUS
<1>1. Len(s) \in DOMAIN s /\ ~(Len(s) < Len(s))
  OBVIOUS
<1> QED
  BY <1>1 DEF CallsAreFollowed

\* The next message when it is no result, or the end.
Due(ms, n) == n = Len(ms) \/ (n + 1 \in 1 .. Len(ms) /\ ms[n + 1].role # "tool")

LEMMA FlushSettles ==
  ASSUME NEW ms \in Seq(Message), WellFormed(ms), NEW n \in 0 .. Len(ms), Due(ms, n),
         NEW t, Converted(t, ms, n)
  PROVE  Settled(Flush(t), ms, n)
<1>1. PICK s \in Seq(Wire), p \in Row : s = t.sent /\ p = t.pending
  BY DEF Converted, Converting
<1>2. /\ \A i \in DOMAIN p : p[i].kind = "result"
      /\ Filled(s) /\ Followed(s) /\ Delivered(t, ms, n)
  BY <1>1 DEF Converted
<1>3. ASSUME Len(s) > 0, These(s[Len(s)], "call") # {}
      PROVE  Ids(p) = These(s[Len(s)], "call")
  <2>1. PICK h \in 1 .. n :
          /\ ms[h].calls # <<>>
          /\ These(s[Len(s)], "call") = ToSet(ms[h].calls)
          /\ n <= h + Len(ms[h].calls)
          /\ Ids(p) = {ms[j].id : j \in (h + 1) .. n}
    BY <1>1, <1>3 DEF Converted, Awaits
  <2>2. h \in 1 .. Len(ms)
    OBVIOUS
  <2>3. PICK k \in Nat :
          /\ k = Len(ms[h].calls) /\ h + k <= Len(ms)
          /\ ToSet(ms[h].calls) = {ms[j].id : j \in (h + 1) .. (h + k)}
          /\ \A j \in (h + 1) .. (h + k) : ms[j].role = "tool"
    BY <2>1, <2>2, CallsInOrder DEF CallsAt
  <2>4. n = h + k
    <3>1. n \in Nat /\ h \in Nat /\ h <= n /\ n <= h + k
      BY <2>1, <2>3
    <3>2. CASE n = Len(ms)
      <4>1. h + k <= n
        BY <2>3, <3>2
      <4> QED
        BY <3>1, <4>1
    <3>3. CASE n + 1 \in 1 .. Len(ms) /\ ms[n + 1].role # "tool"
      <4>1. n + 1 \notin (h + 1) .. (h + k)
        BY <2>3, <3>3
      <4>2. ~(n + 1 <= h + k)
        BY <3>1, <4>1
      <4> QED
        BY <3>1, <4>2
    <3> QED
      BY <3>2, <3>3 DEF Due
  <2> QED
    BY <2>1, <2>3, <2>4
<1>4. CASE p = <<>>
  <2>1. Flush(t) = t
    BY <1>1, <1>4 DEF Flush
  <2>2. Ids(p) = {}
    BY <1>4 DEF Ids, ToSet
  <2>3. CallsAreFollowed(s, "anthropic")
    <3>1. Len(s) > 0 => These(s[Len(s)], "call") = {}
      BY <1>3, <2>2
    <3> QED
      BY <1>2, <3>1, FollowedToTheEnd
  <2> QED
    BY <1>1, <1>4, <2>1, <2>3 DEF Settled
<1>5. CASE p # <<>>
  <2>1. PICK w \in Wire : w = WireMessage("user", p) /\ w.blocks = p
    BY WireIs
  <2>2. PICK r \in Seq(Wire) : r = Append(s, w)
    BY PutIs DEF Puts
  <2> DEFINE u == [sent |-> r, pending |-> <<>>]
  <2>3. Flush(t) = u
    BY <1>1, <1>5, <2>1, <2>2 DEF Flush
  <2>4. u \in Converting /\ u.sent = r /\ u.pending = <<>>
    BY NoBlocks DEF Converting
  <2> HIDE DEF u
  <2>5. These(w, "result") = Ids(p) /\ These(w, "call") = {}
    <3>1. DOMAIN w.blocks = DOMAIN p /\ \A i \in DOMAIN p : w.blocks[i] = p[i]
      BY <2>1
    <3>2. \A i \in DOMAIN p : p[i].kind = "result" /\ p[i].kind # "call"
      BY <1>2
    <3>3. {j \in DOMAIN p : p[j].kind = "result"} = DOMAIN p /\ {j \in DOMAIN p : p[j].kind = "call"} = {}
      BY <3>2
    <3>4. These(w, "result") = {p[i].id : i \in DOMAIN p}
      BY <2>1, <3>3 DEF These
    <3>5. These(w, "call") = {}
      BY <2>1, <3>3 DEF These
    <3>6. Ids(p) = {p[i].id : i \in DOMAIN p}
      BY DEF Ids, ToSet
    <3> QED
      BY <3>4, <3>5, <3>6
  <2>6. Filled(r)
    BY <1>2, <1>5, <2>1, <2>2, PutFilled
  <2>7. Followed(r)
    BY <1>2, <1>3, <2>2, <2>5, PutFollowed
  <2>8. r[Len(r)] = w /\ Len(r) > 0
    BY <2>2, PutIs DEF Puts
  <2>9. CallsAreFollowed(r, "anthropic")
    BY <2>5, <2>7, <2>8, FollowedToTheEnd
  <2>10. Delivered(u, ms, n)
    <3> SUFFICES ASSUME NEW kind \in Kinds
                 PROVE  Sent(r, kind) \o Only(<<>>, kind) = Owned(SubSeq(ms, 1, n), kind)
      BY <2>4 DEF Delivered
    <3>1. Only(<<>>, kind) = <<>>
      BY NoBlocks, OnlyNone
    <3>2. Sent(r, kind) = Sent(s, kind) \o Only(p, kind)
      <4>1. Adds(s, w, kind)
        BY SentMore
      <4> QED
        BY <2>1, <2>2, <4>1 DEF Adds
    <3>3. Sent(s, kind) \o Only(p, kind) = Owned(SubSeq(ms, 1, n), kind)
      BY <1>1, <1>2 DEF Delivered
    <3>4. Sent(r, kind) \o <<>> = Sent(r, kind)
      BY SentType, RowsJoin
    <3> QED
      BY <3>1, <3>2, <3>3, <3>4
  <2>11. Awaits(u, ms, n)
    BY <2>4, <2>5, <2>8 DEF Awaits
  <2>12. \A i \in DOMAIN u.pending : u.pending[i].kind = "result"
    BY <2>4, NoBlocks
  <2> QED
    BY <2>3, <2>4, <2>6, <2>7, <2>9, <2>10, <2>11, <2>12 DEF Settled, Converted
<1> QED
  BY <1>4, <1>5

LEMMA NextMessage ==
  ASSUME NEW ms \in Seq(Message), NEW n \in 0 .. Len(ms), n < Len(ms), NEW kind
  PROVE  /\ n + 1 \in 1 .. Len(ms) /\ ms[n + 1] \in Message
         /\ Owned(SubSeq(ms, 1, n + 1), kind) = Owned(SubSeq(ms, 1, n), kind) \o Own(ms[n + 1], kind)
         /\ Owned(SubSeq(ms, 1, n), kind) \in Row
<1>1. PICK k \in 1 .. Len(ms) : k = n + 1 /\ k - 1 = n
  OBVIOUS
<1>2. OneMore(ms, k, Message)
  BY FirstMore
<1>3. PICK q \in Seq(Message), m \in Message :
        q = SubSeq(ms, 1, n) /\ m = ms[k] /\ SubSeq(ms, 1, k) = Append(q, m)
  BY <1>1, <1>2 DEF OneMore
<1>4. OwnAdds(q, m, kind) /\ Owned(q, kind) \in Row
  BY OwnedMore
<1> QED
  BY <1>1, <1>3, <1>4 DEF OwnAdds

\* What follows no result is said after the flush.
LEMMA SaySpeaks ==
  ASSUME NEW ms \in Seq(Message), NEW n \in 0 .. Len(ms), n < Len(ms),
         ms[n + 1].role # "tool", NEW t, Settled(t, ms, n),
         NEW role \in {"user", "assistant"}, NEW b \in Row, Carries(b, ms[n + 1])
  PROVE  Converted(Say(t, role, b), ms, n + 1)
<1>1. PICK s \in Seq(Wire) : s = t.sent
  BY DEF Settled, Converted, Converting
<1>2. t.pending = <<>> /\ t \in Converting /\ Filled(s) /\ Followed(s) /\ Delivered(t, ms, n)
      /\ CallsAreFollowed(s, "anthropic")
  BY <1>1 DEF Settled, Converted
<1>3. PICK m \in Message : m = ms[n + 1] /\ m.role # "tool" /\ Carries(b, m)
  BY NextMessage
<1>4. ASSUME NEW kind \in Kinds
      PROVE  Owned(SubSeq(ms, 1, n + 1), kind) = Sent(s, kind) \o Only(b, kind)
  <2>1. Owned(SubSeq(ms, 1, n + 1), kind) = Owned(SubSeq(ms, 1, n), kind) \o Own(m, kind)
    BY <1>3, NextMessage
  <2>2. Only(<<>>, kind) = <<>>
    BY NoBlocks, OnlyNone
  <2>3. Sent(s, kind) \o <<>> = Owned(SubSeq(ms, 1, n), kind)
    BY <1>1, <1>2, <2>2 DEF Delivered
  <2>4. Sent(s, kind) \o <<>> = Sent(s, kind)
    BY SentType, RowsJoin
  <2>5. Only(b, kind) = Own(m, kind)
    BY <1>3 DEF Carries
  <2> QED
    BY <2>1, <2>3, <2>4, <2>5
<1>5. Len(s) > 0 => These(s[Len(s)], "call") = {}
  BY <1>2, FollowedBefore
<1>6. CASE b = <<>>
  <2>1. Say(t, role, b) = t
    BY <1>6 DEF Say
  <2>2. Delivered(t, ms, n + 1)
    <3> SUFFICES ASSUME NEW kind \in Kinds
                 PROVE  Sent(s, kind) \o Only(t.pending, kind) = Owned(SubSeq(ms, 1, n + 1), kind)
      BY <1>1 DEF Delivered
    <3>1. Only(b, kind) = Only(t.pending, kind)
      BY <1>2, <1>6
    <3> QED
      BY <1>4, <3>1
  <2>3. Awaits(t, ms, n + 1)
    BY <1>1, <1>5 DEF Awaits
  <2>4. \A i \in DOMAIN t.pending : t.pending[i].kind = "result"
    BY <1>2, NoBlocks
  <2> QED
    BY <1>1, <1>2, <2>1, <2>2, <2>3, <2>4 DEF Converted
<1>7. CASE b # <<>>
  <2>1. PICK w \in Wire : w = WireMessage(role, b) /\ w.blocks = b
    BY WireIs
  <2>2. PICK r \in Seq(Wire) : r = Append(s, w)
    BY PutIs DEF Puts
  <2> DEFINE u == [sent |-> r, pending |-> t.pending]
  <2>3. Say(t, role, b) = u
    BY <1>1, <1>7, <2>1, <2>2 DEF Say
  <2>4. u \in Converting /\ u.sent = r /\ u.pending = <<>>
    BY <1>2, NoBlocks DEF Converting
  <2> HIDE DEF u
  <2>5. These(w, "call") = ToSet(m.calls)
    BY <1>3, <2>1, CarriedAre
  <2>6. Filled(r)
    BY <1>2, <1>7, <2>1, <2>2, PutFilled
  <2>7. Followed(r)
    BY <1>2, <1>5, <2>2, PutFollowed
  <2>8. r[Len(r)] = w /\ Len(r) > 0
    BY <2>2, PutIs DEF Puts
  <2>9. Delivered(u, ms, n + 1)
    <3> SUFFICES ASSUME NEW kind \in Kinds
                 PROVE  Sent(r, kind) \o Only(<<>>, kind) = Owned(SubSeq(ms, 1, n + 1), kind)
      BY <2>4 DEF Delivered
    <3>1. Only(<<>>, kind) = <<>>
      BY NoBlocks, OnlyNone
    <3>2. Adds(s, w, kind)
      BY SentMore
    <3>3. Sent(r, kind) = Sent(s, kind) \o Only(b, kind)
      BY <2>1, <2>2, <3>2 DEF Adds
    <3>4. Sent(r, kind) \o <<>> = Sent(r, kind)
      BY SentType, RowsJoin
    <3> QED
      BY <1>4, <3>1, <3>3, <3>4
  <2>10. Awaits(u, ms, n + 1)
    <3> SUFFICES ASSUME These(w, "call") # {}
                 PROVE  \E h \in 1 .. n + 1 :
                          /\ ms[h].calls # <<>> /\ These(w, "call") = ToSet(ms[h].calls)
                          /\ n + 1 <= h + Len(ms[h].calls)
                          /\ Ids(<<>>) = {ms[j].id : j \in (h + 1) .. (n + 1)}
      BY <2>4, <2>8 DEF Awaits
    <3>1. m.calls # <<>>
      <4>1. ToSet(<<>>) = {}
        BY DEF ToSet
      <4> QED
        BY <2>5, <4>1
    <3>2. PICK h \in 1 .. n + 1 : h = n + 1
      OBVIOUS
    <3>3. Len(m.calls) \in Nat
      BY MessageIs
    <3>4. Ids(<<>>) = {}
      BY DEF Ids, ToSet
    <3>5. {ms[j].id : j \in (h + 1) .. (n + 1)} = {}
      <4>1. (h + 1) .. (n + 1) = {}
        BY <3>2
      <4> QED
        BY <4>1
    <3>6. n + 1 <= h + Len(ms[h].calls)
      <4>1. PICK c \in Nat : c = Len(m.calls)
        BY <3>3
      <4>2. n + 1 <= h + c
        <5>1. n \in Nat /\ h = n + 1
          BY <3>2
        <5>2. ASSUME NEW a \in Nat, NEW z \in Nat PROVE a + 1 <= (a + 1) + z
          OBVIOUS
        <5> QED
          BY <5>1, <5>2
      <4>3. ms[h].calls = m.calls
        BY <1>3, <3>2
      <4> QED
        BY <4>1, <4>2, <4>3
    <3> QED
      BY <1>3, <2>5, <3>1, <3>2, <3>4, <3>5, <3>6
  <2>11. \A i \in DOMAIN u.pending : u.pending[i].kind = "result"
    BY <2>4, NoBlocks
  <2> QED
    BY <2>3, <2>4, <2>6, <2>7, <2>9, <2>10, <2>11 DEF Converted
<1> QED
  BY <1>6, <1>7

\* A result waits with the others of its message.
LEMMA ResultWaits ==
  ASSUME NEW ms \in Seq(Message), WellFormed(ms), NEW n \in 0 .. Len(ms), n < Len(ms),
         ms[n + 1].role = "tool", NEW t, Converted(t, ms, n)
  PROVE  Converted([sent |-> t.sent, pending |-> Append(t.pending, ResultBlock(ms[n + 1]))], ms, n + 1)
<1>1. PICK s \in Seq(Wire), p \in Row : s = t.sent /\ p = t.pending
  BY DEF Converted, Converting
<1>2. /\ \A i \in DOMAIN p : p[i].kind = "result"
      /\ Filled(s) /\ Followed(s) /\ Delivered(t, ms, n) /\ Awaits(t, ms, n)
  BY <1>1 DEF Converted
<1>3. PICK m \in Message : m = ms[n + 1] /\ m.role = "tool"
  BY NextMessage
<1>4. PICK b \in WireBlock : b = ResultBlock(m) /\ b.kind = "result" /\ b.id = m.id
  BY <1>3, ResultIs
<1>5. PICK q \in Row :
        /\ q = Append(p, b) /\ q = p \o <<b>>
        /\ Len(q) = Len(p) + 1 /\ q[Len(p) + 1] = b /\ \A i \in 1 .. Len(p) : q[i] = p[i]
  <2>1. Append(p, b) \in Row /\ Append(p, b) = p \o <<b>>
    BY DEF Row
  <2>2. /\ Len(Append(p, b)) = Len(p) + 1 /\ Append(p, b)[Len(p) + 1] = b
        /\ \A i \in 1 .. Len(p) : Append(p, b)[i] = p[i]
    BY DEF Row
  <2> QED
    BY <2>1, <2>2
<1>6. PICK k \in Nat : k = Len(p) /\ DOMAIN p = 1 .. k /\ DOMAIN q = 1 .. k + 1
  BY <1>5 DEF Row
<1> DEFINE u == [sent |-> s, pending |-> q]
<1>7. u \in Converting /\ u.sent = s /\ u.pending = q
  BY DEF Converting
<1>8. u = [sent |-> t.sent, pending |-> Append(t.pending, ResultBlock(ms[n + 1]))]
  BY <1>1, <1>3, <1>4, <1>5
<1> HIDE DEF u
<1>9. \A i \in DOMAIN q : q[i].kind = "result"
  <2> SUFFICES ASSUME NEW i \in 1 .. k + 1 PROVE q[i].kind = "result"
    BY <1>6
  <2>1. CASE i = k + 1
    BY <1>4, <1>5, <1>6, <2>1
  <2>2. CASE i # k + 1
    <3>1. i \in 1 .. k
      BY <2>2
    <3> QED
      BY <1>2, <1>5, <1>6, <3>1
  <2> QED
    BY <2>1, <2>2
<1>10. Ids(q) = Ids(p) \cup {m.id}
  <2>1. ToSet(q) = ToSet(p) \cup {b}
    <3>1. ToSet(q) = {q[i] : i \in 1 .. k + 1} /\ ToSet(p) = {p[i] : i \in 1 .. k}
      BY <1>6 DEF ToSet
    <3>2. q[k + 1] = b /\ \A i \in 1 .. k : q[i] = p[i]
      BY <1>5, <1>6
    <3>3. 1 .. k + 1 = (1 .. k) \cup {k + 1}
      OBVIOUS
    <3> QED
      BY <3>1, <3>2, <3>3
  <2> QED
    BY <1>4, <2>1 DEF Ids
<1>11. Delivered(u, ms, n + 1)
  <2> SUFFICES ASSUME NEW kind \in Kinds
               PROVE  Sent(s, kind) \o Only(q, kind) = Owned(SubSeq(ms, 1, n + 1), kind)
    BY <1>7 DEF Delivered
  <2>1. Owned(SubSeq(ms, 1, n + 1), kind) = Owned(SubSeq(ms, 1, n), kind) \o Own(m, kind)
    BY <1>3, NextMessage
  <2>2. Owned(SubSeq(ms, 1, n), kind) = Sent(s, kind) \o Only(p, kind)
    BY <1>1, <1>2 DEF Delivered
  <2>3. Only(<<b>>, kind) = Own(m, kind) /\ <<b>> \in Row
    BY <1>3, <1>4, ResultCarried DEF Carries
  <2>4. Only(q, kind) = Only(p, kind) \o Only(<<b>>, kind)
    <3>1. PICK o \in Row : o = <<b>>
      BY <2>3
    <3>2. Only(p \o o, kind) = Only(p, kind) \o Only(o, kind)
      BY OnlyConcat
    <3> QED
      BY <1>5, <3>1, <3>2
  <2>5. PICK x \in Row, y \in Row, z \in Row :
          x = Sent(s, kind) /\ y = Only(p, kind) /\ z = Only(<<b>>, kind)
    BY <2>3, SentType, OnlyType
  <2>6. RowsRegroup(x, y, z)
    BY RowsRegrouped
  <2> QED
    BY <2>1, <2>2, <2>3, <2>4, <2>5, <2>6 DEF RowsRegroup
<1>12. Awaits(u, ms, n + 1)
  <2> SUFFICES ASSUME Len(s) > 0, These(s[Len(s)], "call") # {}
               PROVE  \E h \in 1 .. n + 1 :
                        /\ ms[h].calls # <<>>
                        /\ These(s[Len(s)], "call") = ToSet(ms[h].calls)
                        /\ n + 1 <= h + Len(ms[h].calls)
                        /\ Ids(q) = {ms[j].id : j \in (h + 1) .. (n + 1)}
    BY <1>7 DEF Awaits
  <2>1. PICK h \in 1 .. n :
          /\ ms[h].calls # <<>>
          /\ These(s[Len(s)], "call") = ToSet(ms[h].calls)
          /\ n <= h + Len(ms[h].calls)
          /\ Ids(p) = {ms[j].id : j \in (h + 1) .. n}
    BY <1>1, <1>2 DEF Awaits
  <2>2. h \in 1 .. Len(ms) /\ n + 1 \in 1 .. Len(ms)
    OBVIOUS
  <2>3. PICK c \in Nat : /\ c = Len(ms[h].calls)
                         /\ \A j \in (h + 1) .. (h + c) : ms[j].calls = <<>>
    BY <2>1, <2>2, CallsInOrder DEF CallsAt
  <2>4. PICK g \in 1 .. n : /\ g \in 1 .. Len(ms) /\ ms[g].calls # <<>>
                            /\ n + 1 \in (g + 1) .. (g + Len(ms[g].calls))
    <3>1. PICK e \in 1 .. Len(ms) : e = n + 1 /\ e - 1 = n
      BY <2>2
    <3>2. ms[e].role = "tool"
      BY <3>1
    <3> QED
      BY <3>1, <3>2, ToolIsOwed
  <2>5. PICK d \in Nat : /\ d = Len(ms[g].calls)
                         /\ \A j \in (g + 1) .. (g + d) : ms[j].calls = <<>>
    BY <2>4, CallsInOrder DEF CallsAt
  <2>6. g = h
    <3>1. CASE g < h
      <4>1. h \in (g + 1) .. (g + d)
        BY <2>4, <2>5, <3>1
      <4> QED
        BY <2>1, <2>5, <4>1
    <3>2. CASE h < g
      <4>1. g \in (h + 1) .. (h + c)
        BY <2>1, <2>3, <3>2
      <4> QED
        BY <2>3, <2>4, <4>1
    <3> QED
      BY <3>1, <3>2
  <2>7. n + 1 <= h + Len(ms[h].calls)
    BY <2>4, <2>5, <2>6
  <2>8. Ids(q) = {ms[j].id : j \in (h + 1) .. (n + 1)}
    <3>1. (h + 1) .. (n + 1) = ((h + 1) .. n) \cup {n + 1}
      OBVIOUS
    <3> QED
      BY <1>3, <1>10, <2>1, <3>1
  <2>9. h \in 1 .. n + 1
    OBVIOUS
  <2> QED
    BY <2>1, <2>7, <2>8, <2>9
<1> QED
  BY <1>2, <1>7, <1>8, <1>9, <1>11, <1>12 DEF Converted

\* One message more.
LEMMA ConvertKeeps ==
  ASSUME NEW ms \in Seq(Message), WellFormed(ms), NEW n \in 0 .. Len(ms), n < Len(ms),
         NEW t, Converted(t, ms, n)
  PROVE  Converted(Convert(t, ms[n + 1]), ms, n + 1)
<1>1. PICK m \in Message : m = ms[n + 1] /\ n + 1 \in 1 .. Len(ms)
  BY NextMessage
<1>2. CASE m.role = "user"
  <2>1. Settled(Flush(t), ms, n)
    BY <1>1, <1>2, FlushSettles DEF Due
  <2>2. PICK b \in Row : b = UserBlocks(m, toAnthropicContentBlocks) /\ Carries(b, m)
    BY <1>2, QuestionsCarry DEF Carries
  <2>3. Convert(t, m) = Say(Flush(t), "user", b)
    BY <1>2, <2>2 DEF Convert
  <2>4. Converted(Say(Flush(t), "user", b), ms, n + 1)
    BY <1>1, <1>2, <2>1, <2>2, SaySpeaks
  <2> QED
    BY <1>1, <2>3, <2>4
<1>3. CASE m.role = "assistant"
  <2>1. Settled(Flush(t), ms, n)
    BY <1>1, <1>3, FlushSettles DEF Due
  <2>2. TextBlock(m) \in {<<>>, <<Plain("text")>>}
    BY DEF TextBlock
  <2>3. PICK b \in Row : b = TextBlock(m) \o CallBlocks(m) /\ Carries(b, m)
    BY <1>3, <2>2, AnswerCarried DEF Carries
  <2>4. Convert(t, m) = Say(Flush(t), "assistant", b)
    BY <1>3, <2>3 DEF Convert
  <2>5. Converted(Say(Flush(t), "assistant", b), ms, n + 1)
    BY <1>1, <1>3, <2>1, <2>3, SaySpeaks
  <2> QED
    BY <1>1, <2>4, <2>5
<1>4. CASE m.role = "tool"
  <2>1. Convert(t, m) = [sent |-> t.sent, pending |-> Append(t.pending, ResultBlock(m))]
    BY <1>4 DEF Convert
  <2>2. Converted([sent |-> t.sent, pending |-> Append(t.pending, ResultBlock(ms[n + 1]))], ms, n + 1)
    BY <1>1, <1>4, ResultWaits
  <2> QED
    BY <1>1, <2>1, <2>2
<1> QED
  BY <1>2, <1>3, <1>4, MessageIs

LEMMA ConvertedNone ==
  ASSUME NEW ms \in Seq(Message)
  PROVE  Converted(Unconverted, ms, 0)
<1>1. Unconverted \in Converting /\ Unconverted.sent = <<>> /\ Unconverted.pending = <<>>
  BY NoBlocks DEF Unconverted, Converting
<1>2. SubSeq(ms, 1, 0) = <<>>
  OBVIOUS
<1>3. Delivered(Unconverted, ms, 0)
  <2> SUFFICES ASSUME NEW kind \in Kinds
               PROVE  Sent(<<>>, kind) \o Only(<<>>, kind) = Owned(<<>>, kind)
    BY <1>1, <1>2 DEF Delivered
  <2>1. Only(<<>>, kind) = <<>>
    BY NoBlocks, OnlyNone
  <2> QED
    BY <2>1, SentNone, OwnedNone, NoBlocks, RowsJoin
<1>4. Filled(<<>>) /\ Followed(<<>>)
  BY DEF Filled, Followed
<1>5. Awaits(Unconverted, ms, 0)
  <2>1. Len(<<>>) = 0 /\ ~(0 > 0)
    OBVIOUS
  <2> QED
    BY <1>1, <2>1 DEF Awaits
<1> QED
  BY <1>1, <1>3, <1>4, <1>5, NoBlocks DEF Converted

\* The function of toAnthropicMessages, and what it comes to.
IsConversion(f, ms, n) ==
  f = [k \in 0 .. n |-> IF k = 0 THEN Unconverted ELSE Convert(f[k - 1], ms[k])]

LEMMA ConversionSteps ==
  ASSUME NEW ms, NEW n \in Nat, NEW f, IsConversion(f, ms, n)
  PROVE  f[0] = Unconverted /\ \A k \in 1 .. n : f[k] = Convert(f[k - 1], ms[k])
<1>1. \A k \in 0 .. n : f[k] = IF k = 0 THEN Unconverted ELSE Convert(f[k - 1], ms[k])
  BY DEF IsConversion
<1>2. 0 \in 0 .. n /\ \A k \in 1 .. n : k \in 0 .. n /\ k # 0
  OBVIOUS
<1> QED
  BY <1>1, <1>2

LEMMA ConversionKeeps ==
  ASSUME NEW ms \in Seq(Message), WellFormed(ms), NEW f, IsConversion(f, ms, Len(ms))
  PROVE  Converted(f[Len(ms)], ms, Len(ms))
<1>1. PICK n \in Nat : n = Len(ms)
  OBVIOUS
<1>2. f[0] = Unconverted /\ \A k \in 1 .. n : f[k] = Convert(f[k - 1], ms[k])
  BY <1>1, ConversionSteps
<1> DEFINE bad == {k \in Nat : k <= n /\ ~Converted(f[k], ms, k)}
<1>3. bad = {}
  <2> SUFFICES ASSUME bad # {} PROVE FALSE
    OBVIOUS
  <2>1. bad \in SUBSET Nat
    OBVIOUS
  <2> HIDE DEF bad
  <2>2. PICK k \in bad : \A y \in bad : k <= y
    BY <2>1, Smallest
  <2>3. k \in Nat /\ k <= n /\ ~Converted(f[k], ms, k)
    BY <2>2 DEF bad
  <2>4. k # 0
    BY <1>2, <2>3, ConvertedNone
  <2>5. PICK j \in 0 .. Len(ms) : k = j + 1 /\ k - 1 = j /\ j < Len(ms) /\ j \in Nat /\ j <= n /\ ~(k <= j)
    BY <1>1, <2>3, <2>4
  <2>6. Converted(f[j], ms, j)
    BY <2>2, <2>5 DEF bad
  <2>7. f[k] = Convert(f[j], ms[k]) 
    <3>1. k \in 1 .. n
      BY <2>3, <2>4
    <3> QED
      BY <1>2, <2>5, <3>1
  <2>8. Converted(Convert(f[j], ms[j + 1]), ms, j + 1)
    BY <2>5, <2>6, ConvertKeeps
  <2> QED
    BY <2>3, <2>5, <2>7, <2>8
<1>4. Converted(f[n], ms, n)
  <2>1. n <= n
    OBVIOUS
  <2> QED
    BY <1>3, <2>1
<1> QED
  BY <1>1, <1>4

\* Such a function exists, or CHOOSE says nothing.
LEMMA ConvertTypes ==
  ASSUME NEW t \in Converting, NEW m \in Message
  PROVE  Convert(t, m) \in Converting
<1>1. ASSUME NEW v \in Converting PROVE Flush(v) \in Converting
  <2>1. v.sent \in Seq(Wire) /\ v.pending \in Row
    BY DEF Converting
  <2>2. PICK w \in Wire : w = WireMessage("user", v.pending)
    BY <2>1, WireIs
  <2>3. Append(v.sent, w) \in Seq(Wire)
    BY <2>1
  <2> QED
    BY <2>1, <2>2, <2>3, NoBlocks DEF Flush, Converting
<1>2. ASSUME NEW v \in Converting, NEW role \in {"user", "assistant"}, NEW b \in Row
      PROVE  Say(v, role, b) \in Converting
  <2>1. v.sent \in Seq(Wire) /\ v.pending \in Row
    BY DEF Converting
  <2>2. PICK w \in Wire : w = WireMessage(role, b)
    BY WireIs
  <2>3. Append(v.sent, w) \in Seq(Wire)
    BY <2>1
  <2> QED
    BY <2>1, <2>2, <2>3 DEF Say, Converting
<1>3. CASE m.role = "user"
  <2>1. PICK b \in Row : b = UserBlocks(m, toAnthropicContentBlocks)
    BY <1>3, QuestionsCarry DEF Carries
  <2>2. Convert(t, m) = Say(Flush(t), "user", b)
    BY <1>3, <2>1 DEF Convert
  <2> QED
    BY <1>1, <1>2, <2>2
<1>4. CASE m.role = "assistant"
  <2>1. TextBlock(m) \in {<<>>, <<Plain("text")>>}
    BY DEF TextBlock
  <2>2. PICK b \in Row : b = TextBlock(m) \o CallBlocks(m)
    BY <1>4, <2>1, AnswerCarried DEF Carries
  <2>3. Convert(t, m) = Say(Flush(t), "assistant", b)
    BY <1>4, <2>2 DEF Convert
  <2> QED
    BY <1>1, <1>2, <2>3
<1>5. CASE m.role = "tool"
  <2>1. t.sent \in Seq(Wire) /\ t.pending \in Row
    BY DEF Converting
  <2>2. PICK b \in WireBlock : b = ResultBlock(m)
    BY <1>5, ResultIs
  <2>3. Append(t.pending, b) \in Row
    BY <2>1 DEF Row
  <2>4. Convert(t, m) = [sent |-> t.sent, pending |-> Append(t.pending, b)]
    BY <1>5, <2>2 DEF Convert
  <2> QED
    BY <2>1, <2>3, <2>4 DEF Converting
<1> QED
  BY <1>3, <1>4, <1>5, MessageIs

LEMMA ConversionExists ==
  ASSUME NEW ms \in Seq(Message)
  PROVE  \E f : IsConversion(f, ms, Len(ms))
<1> DEFINE n == Len(ms)
           Onward(p) == IF p[1] \in DOMAIN ms THEN Convert(p[2], ms[p[1]]) ELSE p[2]
           F == [p \in Nat \X Converting |-> Onward(p)]
<1>1. n \in Nat /\ DOMAIN ms = 1 .. n /\ \A k \in 1 .. n : ms[k] \in Message
  OBVIOUS
<1>2. F \in [Nat \X Converting -> Converting]
  <2> SUFFICES ASSUME NEW p \in Nat \X Converting PROVE Onward(p) \in Converting
    OBVIOUS
  <2> HIDE DEF n
  <2>1. p[2] \in Converting
    OBVIOUS
  <2>2. ASSUME p[1] \in DOMAIN ms PROVE Convert(p[2], ms[p[1]]) \in Converting
    BY <1>1, <2>1, <2>2, ConvertTypes
  <2> QED
    BY <2>1, <2>2
<1>3. ASSUME NEW k \in 1 .. n, NEW v \in Converting PROVE F[<<k, v>>] = Convert(v, ms[k])
  <2>1. <<k, v>> \in Nat \X Converting /\ k \in DOMAIN ms
    BY <1>1
  <2> QED
    BY <2>1
<1> HIDE DEF F, n
<1>4. PICK f \in [0 .. n -> Converting] : f[0] = Unconverted /\ \A k \in 1 .. n : f[k] = F[<<k, f[k - 1]>>]
  <2>1. Unconverted \in Converting
    BY NoBlocks DEF Unconverted, Converting
  <2>2. Reached(Converting, Unconverted, F, n)
    BY <1>1, <1>2, <2>1, ValuesExist
  <2> QED
    BY <2>2 DEF Reached
<1>5. ASSUME NEW k \in 0 .. n PROVE f[k] = IF k = 0 THEN Unconverted ELSE Convert(f[k - 1], ms[k])
  <2>1. CASE k = 0
    BY <1>4, <2>1
  <2>2. CASE k # 0
    <3>1. k \in 1 .. n /\ k - 1 \in 0 .. n
      BY <1>1, <2>2
    <3>2. f[k - 1] \in Converting
      BY <3>1
    <3> QED
      BY <1>3, <1>4, <2>2, <3>1, <3>2
  <2> QED
    BY <2>1, <2>2
<1>6. IsConversion(f, ms, n)
  BY <1>5 DEF IsConversion
<1> QED
  BY <1>6 DEF n

\* What Anthropic gets.
LEMMA AnthropicGets ==
  ASSUME NEW ms \in Seq(Message), WellFormed(ms)
  PROVE  LET s == toAnthropicMessages(ms) IN
         /\ \A i \in DOMAIN s : s[i].blocks # <<>>
         /\ CallsAreFollowed(s, "anthropic")
         /\ \A kind \in Kinds : Sent(s, kind) = Owned(ms, kind)
<1> DEFINE Body(f) == [k \in 0 .. Len(ms) |-> IF k = 0 THEN Unconverted ELSE Convert(f[k - 1], ms[k])]
           g == CHOOSE h : h = Body(h)
<1>1. toAnthropicMessages(ms) = Flush(g[Len(ms)]).sent
  BY DEF toAnthropicMessages
<1>2. g = Body(g)
  <2>1. \E f : f = Body(f)
    BY ConversionExists DEF IsConversion
  <2> HIDE DEF Body
  <2> QED
    BY <2>1
<1> HIDE DEF g
<1>3. IsConversion(g, ms, Len(ms))
  BY <1>2 DEF IsConversion
<1>4. PICK n \in 0 .. Len(ms) : n = Len(ms) /\ SubSeq(ms, 1, n) = ms
  OBVIOUS
<1>5. Converted(g[n], ms, n)
  BY <1>3, <1>4, ConversionKeeps
<1>6. PICK t : t = Flush(g[n]) /\ Settled(t, ms, n)
  BY <1>4, <1>5, FlushSettles DEF Due
<1>7. PICK s \in Seq(Wire) : s = t.sent
  BY <1>6 DEF Settled, Converted, Converting
<1>8. \A i \in DOMAIN s : s[i].blocks # <<>>
  BY <1>6, <1>7 DEF Settled, Converted, Filled
<1>9. CallsAreFollowed(s, "anthropic")
  BY <1>6, <1>7 DEF Settled
<1>10. ASSUME NEW kind \in Kinds PROVE Sent(s, kind) = Owned(ms, kind)
  <2>1. Only(<<>>, kind) = <<>>
    BY NoBlocks, OnlyNone
  <2>2. Sent(s, kind) \o <<>> = Owned(ms, kind)
    BY <1>4, <1>6, <1>7, <2>1 DEF Settled, Converted, Delivered
  <2> QED
    BY <2>2, SentType, RowsJoin
<1> QED
  BY <1>1, <1>4, <1>6, <1>7, <1>8, <1>9, <1>10

\* The limits of a request.
LEMMA LimitsFit ==
  ASSUME model \in Models, request.max \in Nat
  PROVE  /\ Clamped \in 1 .. model.tokens.limit
         /\ calculateMaxTokens \in 1 .. model.tokens.limit
         /\ model.thinks => calculateMaxTokens > MinBudget
         /\ getValidatedMaxTokens = Clamped
         /\ model.tokens.limit \in Nat
<1>1. model.tokens \in Limits /\ model.thinks \in BOOLEAN
  BY DEF Models
<1>2. PICK limit \in Nat, default \in Int, configured \in Int :
        /\ limit = model.tokens.limit /\ default = model.tokens.default
        /\ configured = model.tokens.configured
        /\ DefaultBudget <= limit /\ default \in 1 .. limit /\ configured \in 0 .. limit
  BY <1>1
<1>3. MinBudget \in Nat /\ DefaultBudget \in Nat /\ MinBudget < DefaultBudget
  OBVIOUS
<1>4. PICK d \in 1 .. limit : d = DefaultMax
  <2>1. CASE configured > 0
    BY <1>2, <2>1 DEF DefaultMax
  <2>2. CASE ~(configured > 0)
    BY <1>2, <2>2 DEF DefaultMax
  <2> QED
    BY <2>1, <2>2
<1>5. PICK max \in Nat : max = (IF request.max = 0 THEN DefaultMax ELSE request.max) /\ max > 0
  BY <1>4
<1>6. PICK c \in 1 .. limit : c = Clamped
  <2>1. Clamped = IF max > limit THEN limit ELSE max
    BY <1>2, <1>5 DEF Clamped
  <2>2. limit > 0
    BY <1>2
  <2>3. CASE max > limit
    BY <2>1, <2>2, <2>3
  <2>4. CASE ~(max > limit)
    BY <1>5, <2>1, <2>4
  <2> QED
    BY <2>3, <2>4
<1>7. calculateMaxTokens = IF model.thinks /\ c <= MinBudget THEN DefaultBudget ELSE c
  BY <1>6 DEF calculateMaxTokens
<1>8. CASE model.thinks /\ c <= MinBudget
  <2>1. calculateMaxTokens = DefaultBudget
    BY <1>7, <1>8
  <2>2. DefaultBudget \in 1 .. limit /\ DefaultBudget > MinBudget
    BY <1>2, <1>3
  <2>3. getValidatedMaxTokens = Clamped
    BY <1>6 DEF getValidatedMaxTokens
  <2> QED
    BY <1>2, <1>6, <2>1, <2>2, <2>3
<1>9. CASE ~(model.thinks /\ c <= MinBudget)
  <2>1. calculateMaxTokens = c
    BY <1>7, <1>9
  <2>2. model.thinks => c > MinBudget
    BY <1>3, <1>9
  <2>3. getValidatedMaxTokens = Clamped
    BY <1>6 DEF getValidatedMaxTokens
  <2> QED
    BY <1>2, <1>6, <2>1, <2>2, <2>3
<1> QED
  BY <1>8, <1>9

LEMMA ThinkingFits ==
  ASSUME NEW max \in Nat, max > MinBudget
  PROVE  /\ calculateThinkingBudget(max) \in Nat
         /\ calculateThinkingBudget(max) < max /\ calculateThinkingBudget(max) >= MinBudget
<1>1. MinBudget \in Nat /\ DefaultBudget \in Nat /\ MinBudget < DefaultBudget
  OBVIOUS
<1>2. CASE DefaultBudget >= max
  BY <1>1, <1>2 DEF calculateThinkingBudget
<1>3. CASE ~(DefaultBudget >= max)
  BY <1>1, <1>3 DEF calculateThinkingBudget
<1> QED
  BY <1>2, <1>3

\* The histories are in order; what was asked does not change.
RequestInv ==
  /\ request.messages \in Seq(Message) /\ WellFormed(request.messages)
  /\ request.max \in Nat
  /\ model \in Models
  /\ RequestsAreAcceptable

LEMMA RequestStarts == RequestInit => RequestInv
<1> SUFFICES ASSUME RequestInit PROVE RequestInv
  OBVIOUS
<1>1. RequestsAreAcceptable
  <2>1. params.ok = FALSE
    BY DEF RequestInit, Unsent, Refused
  <2> QED
    BY <2>1 DEF RequestsAreAcceptable
<1>2. CASE request \in [messages : Histories, max : {0}, stream : BOOLEAN, tools : {TRUE}]
           /\ model \in {m \in Models : Usual(m)}
  <2>1. request.messages \in Histories /\ request.max = 0 /\ model \in Models
    BY <1>2
  <2>2. PICK n \in Nat : request.messages \in [1 .. n -> Message]
    BY <2>1 DEF Histories
  <2>3. request.messages \in Seq(Message) /\ WellFormed(request.messages)
    BY <2>1, <2>2 DEF Histories
  <2> QED
    BY <1>1, <2>1, <2>3 DEF RequestInv
<1>3. CASE request \in [messages : {Hello}, max : MaxAsked, stream : BOOLEAN, tools : BOOLEAN]
           /\ model \in Models
  <2>1. request.messages = Hello /\ request.max \in Nat /\ model \in Models
    BY <1>3
  <2>2. PICK m \in Message : Hello = <<m>> /\ m.calls = <<>> /\ m.role = "user"
    <3> DEFINE h == [role |-> "user", text |-> TRUE, calls |-> <<>>, id |-> "none", parts |-> <<>>]
    <3>1. h \in UserMessage
      BY DEF UserMessage, UserParts
    <3>2. h \in Message /\ h.calls = <<>> /\ h.role = "user" /\ Hello = <<h>>
      BY <3>1 DEF Message, Hello
    <3> HIDE DEF h
    <3> QED
      BY <3>2
  <2>3. Hello \in Seq(Message) /\ Len(Hello) = 1 /\ DOMAIN Hello = {1} /\ Hello[1] = m
    BY <2>2
  <2>4. WellFormed(Hello)
    <3>1. Len(Hello[1].calls) = 0 /\ ~(0 > 0) /\ Hello[1].role # "tool"
      BY <2>2, <2>3
    <3> QED
      BY <2>3, <3>1 DEF WellFormed
  <2> QED
    BY <1>1, <2>1, <2>3, <2>4 DEF RequestInv
<1> QED
  BY <1>2, <1>3 DEF RequestInit

\* What a client builds is acceptable when its parts are.
LEMMA BuiltIsAcceptable ==
  ASSUME NEW s, NEW max, NEW thinking, Built(s, max, thinking),
         \A i \in DOMAIN s : s[i].blocks # <<>> \/ model.provider = "gemini",
         model.provider # "gemini" => CallsAreFollowed(s, model.provider),
         \A kind \in Kinds : Sent(s, kind) = Owned(request.messages, kind),
         max \in 1 .. model.tokens.limit, thinking < max,
         model.thinks /\ model.provider = "anthropic" => thinking >= MinBudget
  PROVE  RequestsAreAcceptable'
<1>1. params'.messages = s /\ params'.max = max /\ params'.thinking = thinking
  BY DEF Built
<1>2. request' = request /\ model' = model
  BY DEF Built
<1> QED
  BY <1>1, <1>2 DEF RequestsAreAcceptable, Sent, Owned, Kinds

LEMMA RequestSteps == RequestInv /\ [RequestNext]_requestVars => RequestInv'
<1> SUFFICES ASSUME RequestInv, [RequestNext]_requestVars PROVE RequestInv'
  OBVIOUS
<1> DEFINE ms == request.messages
<1>1. ms \in Seq(Message) /\ WellFormed(ms) /\ request.max \in Nat /\ model \in Models
  BY DEF RequestInv
<1>2. request' = request /\ model' = model
  BY DEF RequestNext, Reject, buildMessageParams, buildChatParams, buildGenerateConfig, Built, requestVars
<1>3. ASSUME RequestsAreAcceptable' PROVE RequestInv'
  BY <1>1, <1>2, <1>3 DEF RequestInv
<1>4. /\ Clamped \in 1 .. model.tokens.limit /\ calculateMaxTokens \in 1 .. model.tokens.limit
      /\ model.thinks => calculateMaxTokens > MinBudget
      /\ getValidatedMaxTokens = Clamped /\ model.tokens.limit \in Nat
  BY <1>1, LimitsFit
<1>5. CASE Reject
  <2>1. params'.ok = FALSE
    BY <1>5 DEF Reject, Refused
  <2> QED
    BY <1>3, <2>1 DEF RequestsAreAcceptable
<1>6. CASE buildMessageParams
  <2> DEFINE thinking == IF model.thinks THEN calculateThinkingBudget(calculateMaxTokens) ELSE 0
             s == toAnthropicMessages(ms)
  <2>1. Built(s, calculateMaxTokens, thinking) /\ model.provider = "anthropic"
    BY <1>6 DEF buildMessageParams, Asked
  <2>2. /\ \A i \in DOMAIN s : s[i].blocks # <<>>
        /\ CallsAreFollowed(s, "anthropic")
        /\ \A kind \in Kinds : Sent(s, kind) = Owned(ms, kind)
    BY <1>1, AnthropicGets
  <2>3. thinking < calculateMaxTokens /\ (model.thinks => thinking >= MinBudget)
    <3>1. PICK max \in Nat : max = calculateMaxTokens /\ max > 0 /\ (model.thinks => max > MinBudget)
      BY <1>4
    <3>2. CASE model.thinks
      BY <3>1, <3>2, ThinkingFits
    <3>3. CASE ~model.thinks
      BY <3>1, <3>3
    <3> QED
      BY <3>2, <3>3
  <2> HIDE DEF thinking, s
  <2>4. RequestsAreAcceptable'
    BY <1>4, <2>1, <2>2, <2>3, BuiltIsAcceptable
  <2> QED
    BY <1>3, <2>4
<1>7. CASE buildChatParams
  <2> DEFINE s == toOpenAIMessages(ms)
  <2>1. Built(s, Clamped, 0) /\ model.provider = "openai"
    BY <1>7 DEF buildChatParams, Asked
  <2>2. s \in Seq(Wire) /\ Fits(s, ms) /\ \A i \in DOMAIN s : s[i].blocks # <<>>
    BY <1>1, OpenAIFits
  <2> HIDE DEF s
  <2>3. CallsAreFollowed(s, "openai")
    BY <1>1, <2>2, OpenAIFollows
  <2>4. \A kind \in Kinds : Sent(s, kind) = Owned(ms, kind)
    BY <1>1, <2>2, FitsSent
  <2>5. 0 < Clamped
    BY <1>4
  <2>6. RequestsAreAcceptable'
    BY <1>4, <2>1, <2>2, <2>3, <2>4, <2>5, BuiltIsAcceptable
  <2> QED
    BY <1>3, <2>6
<1>8. CASE buildGenerateConfig
  <2> DEFINE c == toGeminiContents(ms)
             s == IF request.stream THEN contentsToPartsForChat(c) ELSE c
  <2>1. Built(s, getValidatedMaxTokens, 0) /\ model.provider = "gemini"
    BY <1>8 DEF buildGenerateConfig, Asked
  <2>2. c \in Seq(Wire) /\ Fits(c, ms)
    BY <1>1, GeminiFits
  <2> HIDE DEF c
  <2>3. ASSUME NEW kind \in Kinds PROVE Sent(s, kind) = Owned(ms, kind)
    <3>1. Sent(c, kind) = Owned(ms, kind)
      BY <1>1, <2>2, FitsSent
    <3>2. Sent(contentsToPartsForChat(c), kind) = Sent(c, kind)
      BY <2>2, ChatSent
    <3> QED
      BY <3>1, <3>2
  <2>4. 0 < getValidatedMaxTokens /\ getValidatedMaxTokens \in 1 .. model.tokens.limit
    BY <1>4
  <2> HIDE DEF s
  <2>5. RequestsAreAcceptable'
    BY <1>4, <2>1, <2>3, <2>4, BuiltIsAcceptable
  <2> QED
    BY <1>3, <2>5
<1>9. CASE UNCHANGED requestVars
  <2>1. params' = params /\ RequestsAreAcceptable
    BY <1>9 DEF requestVars, RequestInv
  <2>2. RequestsAreAcceptable'
    BY <1>2, <2>1 DEF RequestsAreAcceptable
  <2> QED
    BY <1>3, <2>2
<1> QED
  BY <1>5, <1>6, <1>7, <1>8, <1>9 DEF RequestNext

\* Of an ordered history of any length every provider gets every call and every
\* result, in order, in messages it accepts, and within its model's limits.
THEOREM RequestsStayAcceptable == RequestSpec => []RequestsAreAcceptable
<1>1. RequestInv => RequestsAreAcceptable
  BY DEF RequestInv
<1> QED
  BY <1>1, RequestStarts, RequestSteps, PTL DEF RequestSpec
=============================================================================
