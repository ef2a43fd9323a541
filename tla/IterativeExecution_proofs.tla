--------------------- MODULE IterativeExecution_proofs ---------------------
(***************************************************************************)
(* Proofs about transaction trees and the transactions that are executed   *)
(* over several instructions.                                              *)
(*                                                                         *)
(* First, the bookkeeping of a tree is exact for trees of any size: the    *)
(* counters kept in the nodes always equal what they stand for, no         *)
(* operation on a node panics, and no tree gets stuck.                     *)
(*                                                                         *)
(* Then, for any number of accounts and transactions and any prices: a     *)
(* node of a tree is in progress while one account runs it, its changes    *)
(* are applied once, it can be finished and paid for, and tokens are       *)
(* neither created nor lost but in the two ways TokenFlow names.           *)
(***************************************************************************)
EXTENDS IterativeExecution, SumTheorems, NaturalsInduction

(* The graph accepted by TransactionTree::create: a child is a later node. *)
ChildrenLater ==
    \A p \in Nodes : child_transaction[p] # NO_CHILD_TRANSACTION =>
        child_transaction[p] \in Nodes /\ child_transaction[p] > p

(* The inductive invariant: with the counters exact and the graph acyclic, *)
(* a node whose parents are pending is itself untouched.                   *)
TreeInv ==
    /\ TypeOK
    /\ ChildrenLater
    /\ ParentCountExact
    /\ SuccessLimitExact
    /\ ExecutionOrder

(* Sets of nodes are finite, so their cardinalities are natural numbers    *)
(* bounded by the size of the tree.                                        *)
LEMMA NodeSets ==
    ASSUME NEW n \in 0 .. MaxNodes, NEW S \in SUBSET (0 .. n - 1)
    PROVE  /\ IsFiniteSet(S)
           /\ Cardinality(S) \in 0 .. n
           /\ Cardinality(S) = 0 <=> S = {}
<1>1. n \in Nat /\ n - 1 \in Int
  BY MaxNodesAssumption
<1>2. IsFiniteSet(0 .. n - 1) /\ Cardinality(0 .. n - 1) = n
  <2>1. \A b \in Int : /\ IsFiniteSet(0 .. b)
                        /\ Cardinality(0 .. b) = IF 0 > b THEN 0 ELSE b - 0 + 1
    BY FS_Interval
  <2> QED
    BY <1>1, <2>1
<1>3. IsFiniteSet(S) /\ Cardinality(S) <= n
  BY <1>2, FS_Subset, Zenon
<1>4. Cardinality(S) \in Nat
  BY <1>3, FS_CardinalityType, Zenon
<1>5. Cardinality(S) = 0 <=> S = {}
  BY <1>3, FS_EmptySet, Zenon
<1> QED
  BY <1>1, <1>3, <1>4, <1>5

(* The constants behind Index. *)
LEMMA IndexFacts ==
    /\ MaxNodes \in Nat /\ MaxNodes > 0
    /\ NO_CHILD_TRANSACTION \in Nat /\ MaxNodes <= NO_CHILD_TRANSACTION
    /\ NO_CHILD_TRANSACTION \notin Index
    /\ TypeOK => Nodes \subseteq Index /\ len \in Nat
BY MaxNodesAssumption DEF Index, Nodes, TypeOK

(* The parents of a node are transactions of the tree, and finitely many. *)
LEMMA ParentSets ==
    ASSUME TypeOK, NEW n
    PROVE  /\ IsFiniteSet(PendingParents(n)) /\ IsFiniteSet(SuccessfulParents(n))
           /\ Cardinality(PendingParents(n)) \in 0 .. len
           /\ Cardinality(SuccessfulParents(n)) \in 0 .. len
           /\ Cardinality(PendingParents(n)) = 0 <=> PendingParents(n) = {}
<1>1. PendingParents(n) \in SUBSET (0 .. len - 1)
      /\ SuccessfulParents(n) \in SUBSET (0 .. len - 1)
  BY Zenon DEF PendingParents, SuccessfulParents, Parents, Nodes
<1>2. len \in 0 .. MaxNodes
  BY Zenon DEF TypeOK
<1> QED
  BY <1>1, <1>2, NodeSets, Zenon

(* A node that is still pending is counted by its child: the subtraction  *)
(* in decrease_parent_count never underflows.                             *)
LEMMA CountedByChild ==
    ASSUME TypeOK, ChildrenLater, ParentCountExact
    PROVE  DecreaseNeverPanics
<1> SUFFICES ASSUME NEW p \in Nodes, status[p] \in Pending,
                    child_transaction[p] # NO_CHILD_TRANSACTION
             PROVE  parent_count[child_transaction[p]] > 0
  BY Zenon DEF DecreaseNeverPanics
<1> DEFINE c == child_transaction[p]
<1>1. c \in Nodes
  BY Zenon DEF ChildrenLater
<1>2. p \in PendingParents(c)
  BY Zenon DEF PendingParents, Parents
<1>3. Cardinality(PendingParents(c)) \in Nat /\ Cardinality(PendingParents(c)) # 0
  BY <1>2, ParentSets
<1>4. parent_count[c] = Cardinality(PendingParents(c))
  BY <1>1, Zenon DEF ParentCountExact
<1> QED
  BY <1>3, <1>4

(* What happens to the parent sets when the pending node i takes the      *)
(* final status st.                                                       *)
LEMMA FinishedParents ==
    ASSUME TypeOK, NEW i \in Nodes, status[i] \in Pending,
           NEW st \in {"Failed", "Success", "Skipped"},
           status' = [status EXCEPT ![i] = st],
           UNCHANGED graphVars,
           NEW n
    PROVE  /\ PendingParents(n)' = PendingParents(n) \ {i}
           /\ i \in PendingParents(n) <=> child_transaction[i] = n
           /\ i \notin SuccessfulParents(n)
           /\ SuccessfulParents(n)' =
                 IF st = "Success" /\ child_transaction[i] = n
                 THEN SuccessfulParents(n) \cup {i} ELSE SuccessfulParents(n)
<1>1. Nodes' = Nodes /\ Parents(n)' = Parents(n) /\ Nodes \subseteq Index
  BY IndexFacts, Zenon DEF graphVars, Nodes, Parents
<1>2. i \in Parents(n) <=> child_transaction[i] = n
  BY Zenon DEF Parents
<1>3. \A p \in Nodes : status'[p] = IF p = i THEN st ELSE status[p]
  BY <1>1, Zenon DEF TypeOK
<1>4. Parents(n) \subseteq Nodes
  BY Zenon DEF Parents
<1> QED
  BY <1>1, <1>2, <1>3, <1>4, Zenon DEF PendingParents, SuccessfulParents, Pending

(* Skipping or ending a node keeps the invariant: its child, if it has    *)
(* one, is untouched so far and has one pending parent fewer.             *)
LEMMA FinishNode ==
    ASSUME TreeInv, slot' \in Nat, balance' \in Nat,
           NEW i \in Nodes, status[i] \in Pending,
           NEW st \in {"Failed", "Success", "Skipped"},
           PendingParents(i) = {},
           st = "Skipped" <=> Cardinality(SuccessfulParents(i)) < declared_limit[i],
           Move(i, st),
           decrease_parent_count(child_transaction[i], st),
           UNCHANGED graphVars
    PROVE  TreeInv'
<1> DEFINE c == child_transaction[i]
<1>1. TypeOK /\ ChildrenLater /\ ParentCountExact /\ SuccessLimitExact /\ ExecutionOrder
  BY Zenon DEF TreeInv
<1>2. Nodes' = Nodes /\ Nodes \subseteq Index /\ i \in Index
  BY <1>1, IndexFacts, Zenon DEF graphVars, Nodes
<1>3. /\ child_transaction' = child_transaction /\ declared_limit' = declared_limit
      /\ status' = [status EXCEPT ![i] = st] /\ slot \in Nat /\ last_slot' = slot
  BY <1>1, Zenon DEF graphVars, Move, TypeOK
<1>4. \A n : /\ PendingParents(n)' = PendingParents(n) \ {i}
             /\ i \in PendingParents(n) <=> c = n
             /\ i \notin SuccessfulParents(n)
             /\ SuccessfulParents(n)' =
                   IF st = "Success" /\ c = n
                   THEN SuccessfulParents(n) \cup {i} ELSE SuccessfulParents(n)
  BY <1>1, <1>3, FinishedParents, ZenonT(30)
<1>5. \A n : /\ IsFiniteSet(PendingParents(n)) /\ IsFiniteSet(SuccessfulParents(n))
             /\ Cardinality(PendingParents(n)) \in Nat
             /\ Cardinality(SuccessfulParents(n)) \in Nat
  BY <1>1, ParentSets, IndexFacts
<1>6. \A n : Cardinality(PendingParents(n)') =
                IF c = n THEN Cardinality(PendingParents(n)) - 1
                         ELSE Cardinality(PendingParents(n))
  BY <1>4, <1>5, FS_RemoveElement, Zenon
<1>7. \A n : Cardinality(SuccessfulParents(n)') =
                IF st = "Success" /\ c = n THEN Cardinality(SuccessfulParents(n)) + 1
                                           ELSE Cardinality(SuccessfulParents(n))
  BY <1>4, <1>5, FS_AddElement, Zenon
<1>8. /\ parent_count \in [Index -> U16] /\ success_execute_limit \in [Index -> U16]
      /\ declared_limit \in [Index -> U16] /\ NO_CHILD_TRANSACTION \in Nat
  BY <1>1, IndexFacts, Zenon DEF TypeOK
<1>9. c # NO_CHILD_TRANSACTION => c \in Nodes /\ c \in Index /\ c # i
  BY <1>1, <1>2 DEF ChildrenLater, Nodes
<1>10. \A n \in Index : parent_count'[n] =
          IF c = n THEN parent_count[n] - 1 ELSE parent_count[n]
  BY <1>8, <1>9, IndexFacts, Zenon DEF decrease_parent_count
<1>11. \A n \in Index : success_execute_limit'[n] =
          IF st = "Success" /\ c = n THEN SaturatingSub(success_execute_limit[n], 1)
                                     ELSE success_execute_limit[n]
  BY <1>8, <1>9, IndexFacts DEF decrease_parent_count
<1>12. TypeOK'
  <2>1. parent_count' \in [Index -> U16]
    BY <1>8, <1>9 DEF decrease_parent_count, U16
  <2>2. success_execute_limit' \in [Index -> U16]
    BY <1>8, <1>9 DEF decrease_parent_count, U16, SaturatingSub
  <2>3. status' \in [Index -> Status]
    BY <1>1, <1>2, <1>3, Zenon DEF TypeOK, Status
  <2> QED
    BY <1>1, <1>3, <2>1, <2>2, <2>3, Zenon DEF TypeOK, graphVars
<1>13. ChildrenLater'
  BY <1>1, <1>2, <1>3, Zenon DEF ChildrenLater
<1>14. ParentCountExact'
  BY <1>1, <1>2, <1>6, <1>10, Zenon DEF ParentCountExact
<1>15. SuccessLimitExact'
  <2> SUFFICES ASSUME NEW n \in Nodes
               PROVE  success_execute_limit'[n] =
                  SaturatingSub(declared_limit[n], Cardinality(SuccessfulParents(n)'))
    BY <1>2, <1>3, Zenon DEF SuccessLimitExact
  <2>1. success_execute_limit[n] =
           SaturatingSub(declared_limit[n], Cardinality(SuccessfulParents(n)))
    BY <1>1, Zenon DEF SuccessLimitExact
  <2>2. declared_limit[n] \in Nat /\ Cardinality(SuccessfulParents(n)) \in Nat
    BY <1>2, <1>5, <1>8 DEF U16
  <2> QED
    BY <1>2, <1>7, <1>11, <2>1, <2>2 DEF SaturatingSub
<1>16. ExecutionOrder'
  <2> SUFFICES ASSUME NEW n \in Nodes, status'[n] # "NotStarted"
               PROVE  /\ PendingParents(n)' = {}
                      /\ status'[n] = "Skipped" <=>
                            Cardinality(SuccessfulParents(n)') < declared_limit[n]
    BY <1>2, <1>3, Zenon DEF ExecutionOrder
  <2>1. CASE n = i
    <3>1. status'[n] = st
      BY <1>1, <1>2, <1>3, <2>1, Zenon DEF TypeOK
    <3>2. c # n
      BY <1>9, <2>1, <1>2, IndexFacts, Zenon
    <3> QED
      BY <1>4, <1>7, <2>1, <3>1, <3>2, Zenon
  <2>2. CASE n # i
    <3>1. status'[n] = status[n]
      BY <1>1, <1>2, <1>3, <2>2, Zenon DEF TypeOK
    <3>2. PendingParents(n) = {} /\ (status[n] = "Skipped" <=>
                            Cardinality(SuccessfulParents(n)) < declared_limit[n])
      BY <1>1, <3>1, Zenon DEF ExecutionOrder
    <3>3. c # n
      BY <1>4, <3>2, Zenon
    <3> QED
      BY <1>4, <1>7, <3>1, <3>2, <3>3, Zenon
  <2> QED
    BY <2>1, <2>2, Zenon
<1> QED
  BY <1>12, <1>13, <1>14, <1>15, <1>16, Zenon DEF TreeInv

(* A new tree satisfies the invariant: create counts the parents of every *)
(* node, and none of them has moved.                                      *)
LEMMA CreateNodes ==
    ASSUME TreeInv, slot' \in Nat, balance' \in Nat,
           NEW n \in 1 .. MaxNodes,
           NEW children \in [0 .. n - 1 -> Index \cup {NO_CHILD_TRANSACTION}],
           NEW limits \in [0 .. n - 1 -> 0 .. MaxNodes - 1],
           create(n, children, limits)
    PROVE  TreeInv'
<1> DEFINE Count(k) == {p \in 0 .. n - 1 : children[p] = k}
<1>1. /\ len' = n /\ Nodes' = 0 .. n - 1
      /\ child_transaction' = [k \in Index |-> IF k < n THEN children[k] ELSE NO_CHILD_TRANSACTION]
      /\ success_execute_limit' = [k \in Index |-> IF k < n THEN limits[k] ELSE 0]
      /\ declared_limit' = success_execute_limit'
      /\ parent_count' = [k \in Index |-> Cardinality(Count(k))]
      /\ status' = [k \in Index |-> "NotStarted"]
      /\ last_slot' = slot
  BY Zenon DEF create, Padded, NoNode, Nodes
<1>2. n \in Nat /\ n - 1 \in Int /\ 0 .. n - 1 \subseteq Index /\ n <= NO_CHILD_TRANSACTION
  BY IndexFacts DEF Index
<1>3. \A k : Cardinality(Count(k)) \in 0 .. n
  <2>1. n \in 0 .. MaxNodes
    BY IndexFacts
  <2> QED
    BY <2>1, NodeSets, Zenon
<1>4. \A k : PendingParents(k)' = Count(k) /\ SuccessfulParents(k)' = {}
  <2> SUFFICES ASSUME NEW k
               PROVE  PendingParents(k)' = Count(k) /\ SuccessfulParents(k)' = {}
    BY Zenon
  <2>1. \A p \in 0 .. n - 1 : p \in Index /\ p < n
    BY <1>2
  <2>2. \A p \in 0 .. n - 1 : child_transaction'[p] = children[p] /\ status'[p] = "NotStarted"
    BY <1>1, <2>1, Zenon
  <2>3. Parents(k)' = Count(k)
    BY <1>1, <2>2, Zenon DEF Parents
  <2> QED
    BY <2>2, <2>3, Zenon DEF PendingParents, SuccessfulParents, Pending
<1>5. slot \in Nat
  BY Zenon DEF TreeInv, TypeOK
<1>6. TypeOK'
  <2>1. parent_count' \in [Index -> U16]
    <3> HIDE DEF Count
    <3>1. 0 .. n \subseteq U16
      BY <1>2, IndexFacts DEF U16
    <3>2. \A k \in Index : Cardinality(Count(k)) \in U16
      BY <1>3, <3>1, Zenon
    <3> QED
      BY <1>1, <3>2, Zenon
  <2>2. success_execute_limit' \in [Index -> U16]
    BY <1>1, <1>2, IndexFacts DEF U16, Index
  <2>3. child_transaction' \in [Index -> Index \cup {NO_CHILD_TRANSACTION}]
    BY <1>1, <1>2, IndexFacts DEF Index
  <2> QED
    BY <1>1, <1>2, <1>5, <2>1, <2>2, <2>3, IndexFacts DEF TypeOK, Status
<1>7. ChildrenLater'
  BY <1>1, <1>2, IndexFacts DEF ChildrenLater, create, ValidNodes, Index
<1>8. ParentCountExact'
  BY <1>1, <1>2, <1>4, Zenon DEF ParentCountExact
<1>9. SuccessLimitExact'
  <2>1. Cardinality({}) = 0
    BY FS_EmptySet, Zenon
  <2>2. \A k \in 0 .. n - 1 : success_execute_limit'[k] \in Nat
    BY <1>1, <1>2, IndexFacts DEF Index
  <2> SUFFICES ASSUME NEW k \in 0 .. n - 1
               PROVE  success_execute_limit'[k] =
                  SaturatingSub(declared_limit'[k], Cardinality(SuccessfulParents(k)'))
    BY <1>1, Zenon DEF SuccessLimitExact
  <2>3. Cardinality(SuccessfulParents(k)') = 0
    BY <1>4, <2>1, Zenon
  <2>4. declared_limit'[k] = success_execute_limit'[k]
    BY <1>1, Zenon
  <2> QED
    BY <2>2, <2>3, <2>4 DEF SaturatingSub
<1>10. ExecutionOrder'
  BY <1>1, <1>2, Zenon DEF ExecutionOrder
<1> QED
  BY <1>6, <1>7, <1>8, <1>9, <1>10, Zenon DEF TreeInv

(* Starting a node changes the status of a pending node to another        *)
(* pending status: no count changes.                                      *)
LEMMA StartNode ==
    ASSUME TreeInv, NEW i \in Index, Start(i)
    PROVE  TreeInv'
<1>1. TypeOK /\ ChildrenLater /\ ParentCountExact /\ SuccessLimitExact /\ ExecutionOrder
  BY Zenon DEF TreeInv
<1>2. /\ i \in Nodes /\ Nodes' = Nodes /\ Nodes \subseteq Index
      /\ status[i] = "NotStarted" /\ parent_count[i] = 0 /\ success_execute_limit[i] = 0
      /\ status' = [status EXCEPT ![i] = "InProgress"]
      /\ UNCHANGED <<child_transaction, declared_limit, success_execute_limit, parent_count>>
  BY <1>1, IndexFacts, Zenon DEF Start, start_transaction, Waiting, Move, graphVars, Nodes
<1>3. \A p \in Nodes : status'[p] = IF p = i THEN "InProgress" ELSE status[p]
  BY <1>1, <1>2, Zenon DEF TypeOK
<1>4. \A n : PendingParents(n)' = PendingParents(n) /\ SuccessfulParents(n)' = SuccessfulParents(n)
  BY <1>2, <1>3 DEF PendingParents, SuccessfulParents, Parents, Pending
<1>5. TypeOK'
  BY <1>1, <1>2, Zenon DEF TypeOK, Status, Start, start_transaction, Move, graphVars
<1>6. ChildrenLater' /\ ParentCountExact' /\ SuccessLimitExact'
  BY <1>1, <1>2, <1>4, Zenon DEF ChildrenLater, ParentCountExact, SuccessLimitExact
<1>7. PendingParents(i) = {} /\ ~(Cardinality(SuccessfulParents(i)) < declared_limit[i])
  <2>1. Cardinality(PendingParents(i)) = 0
    BY <1>1, <1>2, Zenon DEF ParentCountExact
  <2>2. SaturatingSub(declared_limit[i], Cardinality(SuccessfulParents(i))) = 0
    BY <1>1, <1>2, Zenon DEF SuccessLimitExact
  <2>3. declared_limit[i] \in Nat /\ Cardinality(SuccessfulParents(i)) \in Nat
    BY <1>1, <1>2, ParentSets, IndexFacts DEF TypeOK, U16
  <2> QED
    BY <1>1, <2>1, <2>2, <2>3, ParentSets DEF SaturatingSub
<1>8. ExecutionOrder'
  BY <1>1, <1>2, <1>3, <1>4, <1>7 DEF ExecutionOrder
<1> QED
  BY <1>5, <1>6, <1>8, Zenon DEF TreeInv

(* Skipping is finishing a node whose parents have all finished, with too *)
(* few successes among them.                                              *)
LEMMA SkippedNode ==
    ASSUME TreeInv, slot' \in Nat, balance' \in Nat, NEW i \in Index, skip_transaction(i)
    PROVE  TreeInv'
<1>1. TypeOK /\ ParentCountExact /\ SuccessLimitExact
  BY Zenon DEF TreeInv
<1>2. /\ i \in Nodes /\ Nodes \subseteq Index /\ status[i] \in Pending
      /\ parent_count[i] = 0 /\ success_execute_limit[i] # 0
      /\ Move(i, "Skipped") /\ decrease_parent_count(child_transaction[i], "Skipped")
      /\ UNCHANGED graphVars
  BY <1>1, IndexFacts, Zenon DEF skip_transaction, Waiting, Pending
<1>3. PendingParents(i) = {}
  BY <1>1, <1>2, ParentSets, Zenon DEF ParentCountExact
<1>4. Cardinality(SuccessfulParents(i)) < declared_limit[i]
  <2>1. SaturatingSub(declared_limit[i], Cardinality(SuccessfulParents(i))) # 0
    BY <1>1, <1>2, Zenon DEF SuccessLimitExact
  <2>2. declared_limit[i] \in Nat /\ Cardinality(SuccessfulParents(i)) \in Nat
    BY <1>1, <1>2, ParentSets, IndexFacts DEF TypeOK, U16
  <2> QED
    BY <2>1, <2>2, Zenon DEF SaturatingSub
<1> QED
  BY <1>2, <1>3, <1>4, FinishNode, Zenon

(* Ending is finishing a node that was started, so its parents were done  *)
(* and enough of them had succeeded.                                      *)
LEMMA EndedNode ==
    ASSUME TreeInv, slot' \in Nat, balance' \in Nat, NEW i \in Index,
           NEW exit, end_transaction(i, exit)
    PROVE  TreeInv'
<1>2. NodeStatus(exit) \in {"Failed", "Success"}
  BY Zenon DEF NodeStatus
<1>3. TypeOK /\ ExecutionOrder
  BY Zenon DEF TreeInv
<1>4. /\ i \in Nodes /\ status[i] = "InProgress" /\ status[i] \in Pending
      /\ Move(i, NodeStatus(exit))
      /\ decrease_parent_count(child_transaction[i], NodeStatus(exit))
      /\ UNCHANGED graphVars
  BY Zenon DEF end_transaction, Pending
<1>5. PendingParents(i) = {} /\ ~(Cardinality(SuccessfulParents(i)) < declared_limit[i])
  BY <1>3, <1>4, Zenon DEF ExecutionOrder
<1> QED
  BY <1>2, <1>4, <1>5, FinishNode, Zenon

(* A destroyed tree has no nodes left. *)
LEMMA DestroyedTree ==
    ASSUME TreeInv, slot' \in Nat, NEW value, destroy(value)
    PROVE  TreeInv'
<1>1. /\ len' = 0 /\ Nodes' = {}
      /\ status' = [i \in Index |-> "NotStarted"]
      /\ child_transaction' = [i \in Index |-> NO_CHILD_TRANSACTION]
      /\ success_execute_limit' = [i \in Index |-> 0]
      /\ parent_count' = [i \in Index |-> 0] /\ declared_limit' = [i \in Index |-> 0]
      /\ last_slot' = 0 /\ balance' = 0
  BY DEF destroy, NoNode, Nodes
<1>2. TypeOK'
  BY <1>1, IndexFacts DEF TypeOK, Status, U16
<1> QED
  BY <1>1, <1>2, Zenon DEF TreeInv, ChildrenLater, ParentCountExact, SuccessLimitExact, ExecutionOrder

(* The balance and the clock have no part in it. *)
LEMMA SameTree ==
    ASSUME TreeInv, UNCHANGED treeVars, balance' \in Nat, slot' \in Nat
    PROVE  TreeInv'
<1>1. UNCHANGED <<len, status, child_transaction, success_execute_limit, parent_count, declared_limit, last_slot>>
  BY Zenon DEF treeVars, graphVars, nodeVars
<1>2. TypeOK'
  BY <1>1, Zenon DEF TreeInv, TypeOK
<1>3. ChildrenLater' /\ ParentCountExact'
  BY <1>1, Zenon DEF TreeInv, ChildrenLater, ParentCountExact, PendingParents, Parents, Nodes
<1>4. SuccessLimitExact'
  BY <1>1, Zenon DEF TreeInv, SuccessLimitExact, SuccessfulParents, Parents, Nodes
<1>5. ExecutionOrder'
  BY <1>1, Zenon DEF TreeInv, ExecutionOrder, PendingParents, SuccessfulParents, Parents, Nodes
<1> QED
  BY <1>2, <1>3, <1>4, <1>5, Zenon DEF TreeInv

(* Every step of the program keeps the invariant. *)
LEMMA TreeInvStep == TreeInv /\ [Next]_vars => TreeInv'
<1> SUFFICES ASSUME TreeInv, [Next]_vars PROVE TreeInv'
  BY Zenon
<1>1. balance \in Nat /\ slot \in Nat
  BY Zenon DEF TreeInv, TypeOK
<1>2. CASE Create
  BY <1>1, <1>2, CreateNodes, Zenon DEF Create
<1>3. ASSUME NEW i \in Index, Start(i) \/ Skip(i) \/ End(i) PROVE TreeInv'
  BY <1>1, <1>3, StartNode, SkippedNode, EndedNode, Zenon DEF Skip, End
<1>4. ASSUME NEW value \in 1 .. MaxBalance, mint(value) \/ burn(value) PROVE TreeInv'
  BY <1>1, <1>4, SameTree, BoundsAssumption DEF mint, burn
<1>5. CASE Destroy
  BY <1>1, <1>5, DestroyedTree, Zenon DEF Destroy
<1>6. CASE Tick
  BY <1>1, <1>6, SameTree DEF Tick
<1>7. CASE UNCHANGED vars
  BY <1>1, <1>7, SameTree, Zenon DEF vars
<1> QED
  BY <1>2, <1>3, <1>4, <1>5, <1>6, <1>7, Zenon DEF Next

(* No tree exists at first. *)
LEMMA TreeInvInit == Init => TreeInv
<1> SUFFICES ASSUME Init PROVE TreeInv
  BY Zenon
<1>1. Nodes = {}
  BY DEF Init, Nodes
<1>2. TypeOK
  BY IndexFacts DEF Init, NoNode, TypeOK, Status, U16
<1> QED
  BY <1>1, <1>2, Zenon DEF TreeInv, ChildrenLater, ParentCountExact, SuccessLimitExact, ExecutionOrder

(* The first unfinished node of a tree is not waiting for anyone: all its *)
(* parents come before it.                                                *)
LEMMA FirstIsReady ==
    ASSUME TreeInv
    PROVE  NeverStuck
<1> DEFINE U == {n \in Nodes : status[n] \in Pending}
           R == {ss \in Nat \X Nat : ss[1] < ss[2]}
<1> SUFFICES ASSUME U # {} PROVE NeverStuck
  BY Zenon DEF NeverStuck, is_complete
<1>1. U \subseteq Nat
  BY DEF Nodes
<1>2. IsWellFoundedOn(R, Nat)
  BY NatLessThanWellFounded, Zenon DEF OpToRel
<1>3. PICK n \in U : \A p \in U : <<p, n>> \notin R
  <2> HIDE DEF U, R
  <2> QED
    BY <1>1, <1>2, WFMin, Zenon
<1>4. \A p \in U : ~(p < n)
  BY <1>1, <1>3, Zenon
<1>5. PendingParents(n) = {}
  BY <1>4, IndexFacts DEF TreeInv, TypeOK, ChildrenLater, PendingParents, Parents
<1>6. parent_count[n] = 0
  BY <1>5, FS_EmptySet, Zenon DEF TreeInv, ParentCountExact
<1> QED
  BY <1>6, Zenon DEF NeverStuck, Pending

-----------------------------------------------------------------------------
(* The invariant holds in every reachable state. *)
LEMMA TreeInvariant == Spec => []TreeInv
  BY TreeInvInit, TreeInvStep, PTL DEF Spec

(* The header and the nodes of the account never leave their types: in    *)
(* particular parent_count and success_execute_limit stay u16 values.     *)
THEOREM TypeCorrect == Spec => []TypeOK
<1>1. TreeInv => TypeOK
  BY Zenon DEF TreeInv
<1> QED
  BY <1>1, TreeInvariant, PTL

(* The parent_count of every node is exactly the number of its unfinished *)
(* parents, its success_execute_limit what the successful ones have left  *)
(* of the limit it was created with, and the unwrap() in                  *)
(* decrease_parent_count never panics.                                    *)
THEOREM CountersCorrect == Spec => []CountersExact
<1>1. TreeInv => CountersExact
  BY CountedByChild, Zenon DEF TreeInv, CountersExact
<1> QED
  BY <1>1, TreeInvariant, PTL

(* Transactions run after all their parents, and run or are skipped       *)
(* according to how many of the parents succeeded.                        *)
THEOREM ExecutionOrderCorrect == Spec => []ExecutionOrder
<1>1. TreeInv => ExecutionOrder
  BY Zenon DEF TreeInv
<1> QED
  BY <1>1, TreeInvariant, PTL

(* In every unfinished tree some transaction can be started, skipped or   *)
(* ended.                                                                 *)
THEOREM TreeNeverStuck == Spec => []NeverStuck
<1>1. TreeInv => NeverStuck
  BY FirstIsReady, Zenon
<1> QED
  BY <1>1, TreeInvariant, PTL

(* No step of the program changes the result of a finished transaction or *)
(* takes a started one back.                                              *)
THEOREM ResultsFinal == Spec => ResultsAreFinal
<1> DEFINE Final ==
      len # 0 /\ len' # 0 =>
          \A n \in Nodes :
             /\ status[n] \notin Pending => status'[n] = status[n]
             /\ status[n] = "InProgress" => status'[n] # "NotStarted"
<1>1. ASSUME TreeInv, [Next]_vars PROVE Final
  <2> SUFFICES ASSUME len # 0, len' # 0, NEW n \in Nodes
               PROVE  /\ status[n] \notin Pending => status'[n] = status[n]
                      /\ status[n] = "InProgress" => status'[n] # "NotStarted"
    BY Zenon
  <2>1. status \in [Index -> Status] /\ n \in Index
    BY <1>1, IndexFacts, Zenon DEF TreeInv, TypeOK
  <2>2. CASE Create \/ Destroy
    BY <2>2, Zenon DEF Create, Destroy, destroy
  <2>3. ASSUME NEW i \in Index, Start(i) \/ Skip(i) \/ End(i)
        PROVE  /\ status[i] \in Pending
               /\ \E st \in Status \ {"NotStarted"} : status' = [status EXCEPT ![i] = st]
    BY <2>3, Zenon DEF Start, start_transaction, Skip, skip_transaction, End, end_transaction,
       NodeStatus, Waiting, Move, Pending, Status
  <2>4. CASE \E i \in Index : Start(i) \/ Skip(i) \/ End(i)
    BY <2>1, <2>3, <2>4, Zenon
  <2>5. CASE status' = status
    BY <2>5, Zenon DEF Pending
  <2>6. ASSUME NEW value \in 1 .. MaxBalance, mint(value) \/ burn(value)
        PROVE  status' = status
    BY <2>6, Zenon DEF mint, burn, treeVars, nodeVars
  <2>7. Tick \/ UNCHANGED vars => status' = status
    BY Zenon DEF Tick, vars, treeVars, nodeVars
  <2> QED
    BY <1>1, <2>2, <2>4, <2>5, <2>6, <2>7, Zenon DEF Next
<1>2. TreeInv /\ [Next]_vars => [Final]_vars
  BY <1>1, Zenon
<1> QED
  BY <1>2, TreeInvariant, PTL DEF Spec, ResultsAreFinal
-----------------------------------------------------------------------------
Running == {a \in Accounts : tag[a] \in Live}

IterType ==
    /\ tag \in [Accounts -> {"Empty", "Holder", "StateFinalized"} \cup Live]
    /\ trx \in [Accounts -> Trx \cup {NoTrx}]
    /\ gas_used \in [Accounts -> Nat]
    /\ priority_fee_used \in [Accounts -> Nat]
    /\ exit_status \in [Accounts -> ExitStatus \cup {NotExited}]
    /\ applied \in [Trx -> Nat]
    /\ user_balance \in Nat /\ operator_balance \in Nat /\ pool \in Nat

(* What was charged for a transaction was taken for it at its start. *)
ChargedWithin ==
    \A a \in Running : gas_used[a] <= GAS_LIMIT /\ priority_fee_used[a] <= PriorityLimit

(* The nodes in progress and the accounts that run them. *)
HeldByOne ==
    /\ \A a \in Running : trx[a] \in Nodes \cup Classic
    /\ \A a \in Running : trx[a] \in Nodes => status[trx[a]] = "InProgress"
    /\ \A a, b \in Running : trx[a] = trx[b] => a = b
    /\ \A i \in Nodes : status[i] = "InProgress" => \E a \in Running : trx[a] = i

(* The exit status that the finish instruction will record. *)
ExitRecorded ==
    \A a \in Accounts :
        /\ tag[a] = "State" => exit_status[a] \in EvmExit \cup {NotExited}
        /\ tag[a] = "ScheduledFinalized" => trx[a] \in Nodes /\ exit_status[a] \in EvmExit
        /\ tag[a] = "ScheduledCancelled" => trx[a] \in Nodes /\ exit_status[a] = "Cancel"

(* The inductive invariant.  That a transaction is applied once rests on    *)
(* no two accounts running it; that a tree is not destroyed or created anew *)
(* below a running transaction rests on its node being in progress.         *)
IterInv ==
    /\ TreeInv
    /\ IterType
    /\ ChargedWithin
    /\ HeldByOne
    /\ ExitRecorded
    /\ AppliedOnceUnlessCancelled
    /\ TreeCoversPending
-----------------------------------------------------------------------------
(* Products of natural numbers. *)
LEMMA Products ==
    ASSUME NEW x \in Nat, NEW y \in Nat, NEW z \in Nat
    PROVE  /\ x * y \in Nat
           /\ x * (y + z) = x * y + x * z
           /\ (x + y) * z = x * z + y * z
           /\ x <= y => x * z <= y * z /\ z * x <= z * y /\ (y - x) * z = y * z - x * z
OBVIOUS

(* The prices, and what is taken for a transaction at its start. *)
LEMMA GasFacts ==
    /\ GAS_LIMIT \in Nat /\ GAS_PRICE \in Nat /\ BASE_FEE \in Nat
    /\ SIGNATURE_COST \in Nat /\ SIGNATURE_COST > 0 /\ TREASURY_PAYMENT \in Nat
    /\ TOKENS_PER_LAMPORT \in Nat /\ TOKENS_PER_LAMPORT > 0
    /\ MaxRent \in Nat /\ FINISH_GAS \in Nat
    /\ 2 * SIGNATURE_COST <= GAS_LIMIT /\ GAS_LIMIT > 0
    /\ PriorityLimit \in Nat
    /\ NodeReserve \in Nat /\ NodeReserve = GAS_LIMIT * GAS_PRICE + PriorityLimit
    /\ \A fee \in Fees : fee \in Nat /\ fee <= PriorityLimit
<1>1. /\ GAS_LIMIT \in Nat /\ GAS_PRICE \in Nat /\ BASE_FEE \in Nat
      /\ SIGNATURE_COST \in Nat /\ SIGNATURE_COST > 0 /\ TREASURY_PAYMENT \in Nat
      /\ TOKENS_PER_LAMPORT \in Nat /\ TOKENS_PER_LAMPORT > 0
      /\ MaxRent \in Nat /\ FINISH_GAS \in Nat
      /\ 2 * SIGNATURE_COST + TREASURY_PAYMENT <= GAS_LIMIT /\ GAS_LIMIT > 0
  BY GasAssumption
<1>2. PriorityLimit \in Nat /\ PriorityLimit = GAS_LIMIT * BASE_FEE
  BY <1>1 DEF PriorityLimit
<1>3. NodeReserve \in Nat /\ NodeReserve = GAS_LIMIT * GAS_PRICE + PriorityLimit
  BY <1>1, <1>2, Products DEF NodeReserve
<1>4. ASSUME NEW fee \in Fees PROVE fee \in Nat /\ fee <= PriorityLimit
  <2> DEFINE gas == SIGNATURE_COST + TREASURY_PAYMENT
  <2>1. gas \in Nat /\ gas <= GAS_LIMIT
    BY <1>1
  <2>2. fee \in 0 .. BASE_FEE * gas
    BY GasAssumption, Zenon
  <2> HIDE DEF gas
  <2>3. BASE_FEE * gas \in Nat /\ BASE_FEE * gas <= BASE_FEE * GAS_LIMIT
    BY <1>1, <2>1, Products, Zenon
  <2> QED
    BY <1>2, <2>2, <2>3 DEF PriorityLimit
<1> QED
  BY <1>1, <1>2, <1>3, <1>4

(* The kinds of exit status. *)
LEMMA ExitFacts ==
    /\ EvmExit \subseteq ExitStatus \ {"Cancel"} /\ "Return" \in EvmExit
    /\ NotExited \notin ExitStatus /\ "Cancel" \in ExitStatus
BY GasAssumption, Zenon DEF ExitStatus, NotExited

(* A state account runs a node of the tree or a classic transaction. *)
LEMMA RunningFacts ==
    ASSUME IterInv, NEW a \in Running
    PROVE  /\ a \in Accounts /\ tag[a] \in Live
           /\ trx[a] \in Trx
           /\ is_scheduled_tx(a) <=> trx[a] \in Nodes
           /\ gas_used[a] \in 0 .. GAS_LIMIT /\ priority_fee_used[a] \in 0 .. PriorityLimit
<1>1. Nodes \subseteq Index
  BY IndexFacts, Zenon DEF IterInv, TreeInv
<1>2. trx[a] \in Nodes \cup Classic
  BY Zenon DEF IterInv, HeldByOne
<1>3. a \in Accounts /\ tag[a] \in Live
  BY Zenon DEF Running
<1>4. gas_used[a] \in Nat /\ priority_fee_used[a] \in Nat
  BY <1>3, Zenon DEF IterInv, IterType
<1> QED
  BY <1>1, <1>2, <1>3, <1>4, TrxAssumption, GasFacts
     DEF IterInv, ChargedWithin, is_scheduled_tx, Trx

(* StateAccount::consume_gas never charges more than was taken, and what it *)
(* charges without an error the operator is paid.                           *)
LEMMA ConsumedWithin ==
    ASSUME NEW a, NEW gas \in Nat, NEW fee \in Nat, NEW same_chain \in BOOLEAN,
           gas_used[a] \in 0 .. GAS_LIMIT, priority_fee_used[a] \in 0 .. PriorityLimit,
           NEW c, c = consume_gas(a, gas, fee, same_chain)
    PROVE  /\ c.gas_used \in 0 .. GAS_LIMIT /\ c.fee_used \in 0 .. PriorityLimit
           /\ c.gas_used >= gas_used[a] /\ c.gas_used <= gas_used[a] + gas
           /\ c.fee_used >= priority_fee_used[a]
           /\ c.paid \in Nat
           /\ c.ok => /\ c.gas_used = gas_used[a] + gas
                      /\ c.fee_used = priority_fee_used[a] + fee
                      /\ c.paid = gas * GAS_PRICE + fee
           /\ ~c.ok => c.paid = 0
<1> DEFINE tokens == gas * GAS_PRICE + fee
           gas_ok == gas = 0 \/ gas_used[a] + gas <= GAS_LIMIT
           fee_ok == gas_ok /\ priority_fee_used[a] + fee <= PriorityLimit
           ok == fee_ok /\ (tokens = 0 \/ same_chain)
<1>1. tokens \in Nat
  BY Products, GasFacts
<1>2. /\ c.gas_used = IF gas_ok THEN gas_used[a] + gas ELSE gas_used[a]
      /\ c.fee_used = IF fee_ok THEN priority_fee_used[a] + fee ELSE priority_fee_used[a]
      /\ c.paid = IF ok THEN tokens ELSE 0
      /\ c.ok = ok
  BY Zenon DEF consume_gas
<1> HIDE DEF tokens
<1>3. /\ c.gas_used \in 0 .. GAS_LIMIT /\ c.fee_used \in 0 .. PriorityLimit
      /\ c.gas_used >= gas_used[a] /\ c.gas_used <= gas_used[a] + gas
      /\ c.fee_used >= priority_fee_used[a]
  BY <1>2, GasFacts
<1>4. CASE ok
  <2>1. /\ c.gas_used = gas_used[a] + gas /\ c.fee_used = priority_fee_used[a] + fee
        /\ c.paid = tokens /\ c.ok
    BY <1>2, <1>4, GasFacts, Zenon
  <2> QED
    BY <1>1, <1>3, <2>1, Zenon DEF tokens
<1>5. CASE ~ok
  <2>1. c.paid = 0 /\ ~c.ok
    BY <1>2, <1>5, Zenon
  <2> QED
    BY <1>3, <2>1
<1> QED
  BY <1>4, <1>5, Zenon

(* The fee of the last iteration is a natural number. *)
LEMMA LastFee ==
    ASSUME NEW fee \in Nat, NEW total_gas \in Nat, total_gas > 0, NEW fee_used \in Nat
    PROVE  finalize_priority_fee(fee, total_gas, fee_used) \in Nat
<1> DEFINE rest == SaturatingSub(BASE_FEE * total_gas, fee_used + fee)
<1>1. BASE_FEE * total_gas \in Nat
  BY GasFacts, Products, Zenon
<1>2. rest \in Nat
  BY <1>1 DEF SaturatingSub
<1> HIDE DEF rest
<1>3. rest % total_gas \in Nat
  BY <1>2
<1> QED
  BY <1>3 DEF finalize_priority_fee, rest

(* What is returned of it to the origin. *)
LEMMA Refund ==
    ASSUME NEW c, c.gas_used \in 0 .. GAS_LIMIT, c.fee_used \in 0 .. PriorityLimit
    PROVE  materialize_unused_gas(c) \in Nat
<1>1. (GAS_LIMIT - c.gas_used) * GAS_PRICE \in Nat
  BY GasFacts, Products
<1> QED
  BY <1>1, GasFacts DEF materialize_unused_gas
-----------------------------------------------------------------------------
(* A step that leaves the running transactions and their nodes alone. *)
LEMMA Undisturbed ==
    ASSUME IterInv, Running' = Running,
           \A a \in Running : /\ tag'[a] = tag[a] /\ trx'[a] = trx[a]
                              /\ gas_used'[a] = gas_used[a]
                              /\ priority_fee_used'[a] = priority_fee_used[a]
                              /\ exit_status'[a] = exit_status[a],
           applied' = applied, Nodes' = Nodes,
           \A i \in Nodes : /\ status'[i] = "InProgress" <=> status[i] = "InProgress"
                            /\ status'[i] = "Success" => status[i] = "Success"
    PROVE  ChargedWithin' /\ HeldByOne' /\ ExitRecorded' /\ AppliedOnceUnlessCancelled'
<1>1. ChargedWithin'
  BY Zenon DEF IterInv, ChargedWithin
<1>2. HeldByOne'
  BY DEF IterInv, HeldByOne
<1>3. \A a \in Accounts : tag'[a] \in Live => a \in Running /\ tag'[a] = tag[a]
  BY Zenon DEF Running
<1>4. ExitRecorded'
  BY <1>3 DEF IterInv, ExitRecorded, Live
<1>5. AppliedOnceUnlessCancelled'
  BY <1>3 DEF IterInv, AppliedOnceUnlessCancelled, Live
<1> QED
  BY <1>1, <1>2, <1>4, <1>5, Zenon

(* A step on the tree at a moment when no node of it is in progress. *)
LEMMA NewTree ==
    ASSUME IterInv, UNCHANGED accountVars, ~is_in_progress,
           \A t \in Classic : applied'[t] = applied[t],
           \A t \in Index : applied'[t] <= 1,
           Nodes' \subseteq Index, \A i \in Nodes' : status'[i] = "NotStarted"
    PROVE  ChargedWithin' /\ HeldByOne' /\ ExitRecorded' /\ AppliedOnceUnlessCancelled'
<1>1. /\ tag' = tag /\ trx' = trx /\ gas_used' = gas_used
      /\ priority_fee_used' = priority_fee_used /\ exit_status' = exit_status
      /\ Running' = Running
  BY Zenon DEF accountVars, Running
<1>2. \A a \in Running : trx[a] \in Classic
  BY Zenon DEF IterInv, HeldByOne, is_in_progress
<1>3. \A a \in Accounts : tag[a] \in Live => trx[a] \in Classic /\ trx[a] \notin Nodes
  <2>1. Nodes \subseteq Index
    BY IndexFacts, Zenon DEF IterInv, TreeInv
  <2> QED
    BY <1>2, <2>1, TrxAssumption, Zenon DEF Running
<1>4. ChargedWithin'
  BY <1>1, Zenon DEF IterInv, ChargedWithin
<1>5. HeldByOne'
  BY <1>1, <1>2, TrxAssumption DEF IterInv, HeldByOne
<1>6. ExitRecorded'
  BY <1>1, <1>3, Zenon DEF IterInv, ExitRecorded, Live
<1>7. AppliedOnceUnlessCancelled'
  <2>1. \A t \in Trx : applied'[t] <= 1
    BY Zenon DEF IterInv, AppliedOnceUnlessCancelled, Trx
  <2> QED
    BY <1>1, <1>3, <2>1, Zenon DEF IterInv, AppliedOnceUnlessCancelled, Live
<1> QED
  BY <1>4, <1>5, <1>6, <1>7, Zenon

(* The tree keeps its reserve when it and its nodes stay as they are. *)
LEMMA SameReserve ==
    ASSUME IterInv, UNCHANGED vars
    PROVE  TreeInv' /\ TreeCoversPending'
<1>1. balance' \in Nat /\ slot' \in Nat
  BY Zenon DEF IterInv, TreeInv, TypeOK, vars
<1>2. TreeCoversPending'
  BY Zenon DEF IterInv, TreeCoversPending, Nodes, vars, treeVars, graphVars, nodeVars
<1> QED
  BY <1>1, <1>2, SameTree, Zenon DEF IterInv, vars

(* An iteration that does not end: the charge is within what was taken. *)
LEMMA ChargedStep ==
    ASSUME IterInv, NEW a \in Accounts, tag[a] = "State",
           NEW c, c.gas_used \in 0 .. GAS_LIMIT, c.fee_used \in 0 .. PriorityLimit,
           c.paid \in Nat, Charge(a, c),
           NEW exit \in EvmExit \cup {NotExited},
           exit_status' = [exit_status EXCEPT ![a] = exit],
           UNCHANGED <<vars, tag, trx, applied, user_balance, pool>>
    PROVE  IterInv'
<1>1. TreeInv' /\ TreeCoversPending'
  BY SameReserve, Zenon
<1>2. IterType'
  BY GasFacts, ExitFacts DEF IterInv, IterType, Charge
<1>3. Running' = Running /\ Nodes' = Nodes /\ status' = status
  BY Zenon DEF Running, Nodes, vars, treeVars, graphVars, nodeVars
<1>4. ChargedWithin'
  BY <1>3, GasFacts DEF IterInv, IterType, ChargedWithin, Charge, Running
<1>5. HeldByOne'
  BY <1>3 DEF IterInv, HeldByOne
<1>6. ExitRecorded'
  BY <1>3, Zenon DEF IterInv, IterType, ExitRecorded
<1>7. AppliedOnceUnlessCancelled'
  BY <1>3, Zenon DEF IterInv, AppliedOnceUnlessCancelled
<1> QED
  BY <1>1, <1>2, <1>4, <1>5, <1>6, <1>7, Zenon DEF IterInv

(* The iteration that ends a transaction, or its cancellation: one account *)
(* runs it, so it is its node, and it has not been applied before.          *)
LEMMA ClosedStep ==
    ASSUME IterInv, NEW a \in Accounts, tag[a] = "State",
           NEW c, c.gas_used \in 0 .. GAS_LIMIT, c.fee_used \in 0 .. PriorityLimit,
           c.paid \in Nat,
           NEW exit, NEW scheduled_tag, CloseState(a, c, exit, scheduled_tag),
           \/ /\ scheduled_tag = "ScheduledFinalized" /\ exit \in EvmExit
              /\ applied' = [applied EXCEPT ![trx[a]] = @ + 1]
           \/ scheduled_tag = "ScheduledCancelled" /\ exit = "Cancel" /\ applied' = applied,
           UNCHANGED <<vars, trx, pool>>
    PROVE  IterInv'
<1>1. TreeInv' /\ TreeCoversPending'
  BY SameReserve, Zenon
<1>2. a \in Running
  BY Zenon DEF Running, Live
<1>3. /\ trx[a] \in Trx /\ (is_scheduled_tx(a) <=> trx[a] \in Nodes)
      /\ applied[trx[a]] = 0
  BY <1>2, RunningFacts, Zenon DEF IterInv, AppliedOnceUnlessCancelled
<1>4. materialize_unused_gas(c) \in Nat
  BY Refund, Zenon
<1>5. IterType'
  <2>1. applied' \in [Trx -> Nat]
    BY <1>3 DEF IterInv, IterType
  <2>2. scheduled_tag \in Live /\ exit \in ExitStatus
    BY ExitFacts, Zenon DEF Live
  <2>3. CASE is_scheduled_tx(a)
    BY <2>1, <2>2, <2>3, GasFacts DEF IterInv, IterType, CloseState, SetTag, Charge
  <2>4. CASE ~is_scheduled_tx(a)
    BY <1>4, <2>1, <2>4, GasFacts DEF IterInv, IterType, CloseState, convert_from_state, SetTag
  <2> QED
    BY <2>3, <2>4, Zenon
<1>6. Nodes' = Nodes /\ status' = status /\ trx' = trx
  BY Zenon DEF Nodes, vars, treeVars, graphVars, nodeVars
<1>7. /\ is_scheduled_tx(a) => Running' = Running /\ tag'[a] = scheduled_tag
                              /\ exit_status'[a] = exit /\ gas_used'[a] = c.gas_used
                              /\ priority_fee_used'[a] = c.fee_used
      /\ ~is_scheduled_tx(a) => Running' = Running \ {a} /\ tag'[a] = "StateFinalized"
      /\ \A b \in Accounts \ {a} : /\ tag'[b] = tag[b] /\ exit_status'[b] = exit_status[b]
                                   /\ gas_used'[b] = gas_used[b]
                                   /\ priority_fee_used'[b] = priority_fee_used[b]
  <2>1. CASE is_scheduled_tx(a)
    BY <1>2, <2>1 DEF IterInv, IterType, CloseState, SetTag, Charge, Running, Live
  <2>2. CASE ~is_scheduled_tx(a)
    BY <1>2, <2>2 DEF IterInv, IterType, CloseState, convert_from_state, SetTag, Running, Live
  <2> QED
    BY <2>1, <2>2, Zenon
<1>8. Running' \subseteq Running
  BY <1>7, Zenon
<1>9. ChargedWithin'
  BY <1>7, <1>8, GasFacts DEF IterInv, ChargedWithin, Running
<1>10. HeldByOne'
  BY <1>3, <1>6, <1>7, <1>8 DEF IterInv, HeldByOne
<1>11. ExitRecorded'
  BY <1>3, <1>6, <1>7 DEF IterInv, ExitRecorded
<1>12. \A b \in Accounts \ {a} : tag[b] \in Live => trx[b] # trx[a]
  BY <1>2, Zenon DEF IterInv, HeldByOne, Running
<1>13. AppliedOnceUnlessCancelled'
  <2>1. applied \in [Trx -> Nat] /\ (trx[a] \in Nodes => status[trx[a]] = "InProgress")
    BY <1>2, Zenon DEF IterInv, IterType, HeldByOne
  <2>2. \A b \in Accounts \ {a} : tag[b] \in Live => applied'[trx[b]] = applied[trx[b]]
    BY <1>3, <1>12, <2>1, RunningFacts, Zenon DEF Running
  <2>3. \A t \in Trx : applied'[t] <= 1
    BY <1>3, <2>1 DEF IterInv, AppliedOnceUnlessCancelled
  <2>4. \A i \in Nodes : status[i] = "Success" => applied'[i] = 1
    <3>1. Nodes \subseteq Trx
      BY IndexFacts, Zenon DEF IterInv, TreeInv, Trx
    <3> QED
      BY <1>3, <2>1, <3>1, Zenon DEF IterInv, AppliedOnceUnlessCancelled
  <2>5. /\ tag'[a] \in {"State", "ScheduledCancelled"} => applied'[trx[a]] = 0
        /\ tag'[a] = "ScheduledFinalized" => applied'[trx[a]] = 1
    BY <1>3, <1>7, <2>1
  <2>6. \A b \in Accounts \ {a} :
          /\ tag'[b] \in {"State", "ScheduledCancelled"} => applied'[trx[b]] = 0
          /\ tag'[b] = "ScheduledFinalized" => applied'[trx[b]] = 1
    BY <1>7, <2>2, Zenon DEF IterInv, AppliedOnceUnlessCancelled, Live
  <2> QED
    BY <1>6, <2>3, <2>4, <2>5, <2>6, Zenon DEF AppliedOnceUnlessCancelled
<1> QED
  BY <1>1, <1>5, <1>9, <1>10, <1>11, <1>13, Zenon DEF IterInv

(* scheduled_transaction_finish: the node gets its result, and the account *)
(* that ran it is a holder again.                                          *)
LEMMA FinishedStep ==
    ASSUME IterInv, NEW a \in Accounts, Finish(a)
    PROVE  IterInv'
<1> DEFINE i == trx[a]
<1>1. a \in Running /\ tag[a] \in {"ScheduledFinalized", "ScheduledCancelled"}
  BY Zenon DEF Finish, Running, Live
<1>2. /\ i \in Nodes /\ i \in Index /\ status[i] = "InProgress"
      /\ tag[a] = "ScheduledFinalized" => exit_status[a] \in EvmExit /\ applied[i] = 1
      /\ tag[a] = "ScheduledCancelled" => exit_status[a] = "Cancel"
  BY <1>1, IndexFacts, Zenon
     DEF IterInv, TreeInv, HeldByOne, ExitRecorded, AppliedOnceUnlessCancelled
<1>3. end_transaction(i, exit_status[a]) /\ slot' = slot /\ trx' = trx /\ applied' = applied
  BY Zenon DEF Finish
<1>4. Escrow(a) \in Nat
  <2>1. (GAS_LIMIT - gas_used[a]) * GAS_PRICE \in Nat
    BY <1>1, RunningFacts, GasFacts, Products
  <2> QED
    BY <1>1, <2>1, RunningFacts, GasFacts
       DEF Escrow, gas_available, priority_fee_in_tokens_available
<1>5. balance \in Nat /\ slot \in Nat /\ balance' = balance + Escrow(a)
  BY Zenon DEF IterInv, TreeInv, TypeOK, Finish
<1>6. TreeInv'
  BY <1>2, <1>3, <1>4, <1>5, EndedNode DEF IterInv
<1>7. /\ Nodes' = Nodes /\ Nodes \subseteq Index
      /\ \A j \in Nodes \ {i} : status'[j] = status[j]
      /\ status'[i] = NodeStatus(exit_status[a])
  BY <1>2, <1>3, IndexFacts, Zenon
     DEF IterInv, TreeInv, TypeOK, end_transaction, Move, graphVars, Nodes
<1>8. status'[i] \in {"Failed", "Success"} /\ (status'[i] = "Success" => applied[i] = 1)
  BY <1>1, <1>2, <1>7, Zenon DEF NodeStatus
<1>9. IterType'
  BY GasFacts DEF IterInv, IterType, Finish, convert_from_state, SetTag
<1>10. /\ Running' = Running \ {a} /\ tag'[a] = "StateFinalized"
       /\ \A b \in Accounts \ {a} : /\ tag'[b] = tag[b] /\ exit_status'[b] = exit_status[b]
                                    /\ gas_used'[b] = gas_used[b]
                                    /\ priority_fee_used'[b] = priority_fee_used[b]
  BY Zenon DEF IterInv, IterType, Finish, convert_from_state, SetTag, Running, Live
<1>11. ChargedWithin'
  BY <1>10, Zenon DEF IterInv, ChargedWithin, Running
<1>12. HeldByOne'
  <2>0. HeldByOne
    BY Zenon DEF IterInv
  <2>1. \A b \in Running' : b \in Running /\ trx[b] # i
    BY <1>1, <1>10, Zenon DEF IterInv, HeldByOne
  <2>2. \A j \in Nodes : status'[j] = "InProgress" => j # i /\ status[j] = "InProgress"
    BY <1>7, <1>8, Zenon
  <2> QED
    BY <1>3, <1>7, <1>10, <2>0, <2>1, <2>2 DEF HeldByOne
<1>13. ExitRecorded'
  BY <1>3, <1>7, <1>10, Zenon DEF IterInv, ExitRecorded
<1>14. AppliedOnceUnlessCancelled'
  BY <1>3, <1>7, <1>8, <1>10, Zenon DEF IterInv, AppliedOnceUnlessCancelled
<1>15. TreeCoversPending'
  <2>1. {j \in Nodes : status[j] = "NotStarted"}' = {j \in Nodes : status[j] = "NotStarted"}
    BY <1>2, <1>7, <1>8, Zenon
  <2> DEFINE n == Cardinality({j \in Nodes : status[j] = "NotStarted"})
  <2>2. n \in Nat
    <3>1. len \in 0 .. MaxNodes
      BY Zenon DEF IterInv, TreeInv, TypeOK
    <3> QED
      BY <3>1, NodeSets, MaxNodesAssumption DEF Nodes
  <2>3. balance >= NodeReserve * n
    BY Zenon DEF IterInv, TreeCoversPending
  <2> HIDE DEF n
  <2>4. NodeReserve * n \in Nat
    BY <2>2, GasFacts, Products, Zenon
  <2>5. balance' >= NodeReserve * n
    BY <1>4, <1>5, <2>3, <2>4
  <2> QED
    BY <2>1, <2>5, Zenon DEF TreeCoversPending, n
<1> QED
  BY <1>6, <1>9, <1>11, <1>12, <1>13, <1>14, <1>15, Zenon DEF IterInv

(* The steps on holders: no account that runs a transaction is touched. *)
LEMMA HolderStep ==
    ASSUME IterInv, NEW a \in Accounts,
           tag[a] \notin Live,
           NEW new_tag \in {"Empty", "Holder"}, SetTag(a, new_tag),
           NEW t \in Trx \cup {NoTrx}, trx' = [trx EXCEPT ![a] = t],
           UNCHANGED <<gas_used, priority_fee_used, exit_status, applied, user_balance, pool>>,
           operator_balance' \in Nat
    PROVE  /\ IterType' /\ Running' = Running
           /\ \A b \in Running : tag'[b] = tag[b] /\ trx'[b] = trx[b]
<1>1. IterType'
  BY Zenon DEF IterInv, IterType, SetTag
<1>2. new_tag \notin Live
  BY Zenon DEF Live
<1>3. \A b \in Accounts : /\ tag'[b] = IF b = a THEN new_tag ELSE tag[b]
                          /\ b # a => trx'[b] = trx[b]
  BY Zenon DEF IterInv, IterType, SetTag
<1> QED
  BY <1>1, <1>2, <1>3, Zenon DEF Running

(* The instructions on holders touch no state account. *)
LEMMA HolderSteps ==
    ASSUME IterInv, NEW a \in Accounts,
           \/ HolderCreate(a) \/ HolderDelete(a)
           \/ \E t \in Index \cup {NoTrx} : HolderWrite(a, t)
    PROVE  IterInv'
<1>1. PICK new_tag \in {"Empty", "Holder"}, t \in Trx \cup {NoTrx} :
        /\ tag[a] \notin Live
        /\ SetTag(a, new_tag) /\ trx' = [trx EXCEPT ![a] = t]
  <2>1. CASE HolderCreate(a)
    <3>1. trx' = [trx EXCEPT ![a] = trx[a]] /\ trx[a] \in Trx \cup {NoTrx}
      BY <2>1, Zenon DEF HolderCreate, IterInv, IterType
    <3> QED
      BY <2>1, <3>1, Zenon DEF HolderCreate, Live
  <2>2. CASE HolderDelete(a)
    BY <2>2, Zenon DEF HolderDelete, Live
  <2>3. CASE \E t \in Index \cup {NoTrx} : HolderWrite(a, t)
    BY <2>3, Zenon DEF HolderWrite, Live, Trx
  <2> QED
    BY <2>1, <2>2, <2>3, Zenon
<1>2. UNCHANGED <<vars, gas_used, priority_fee_used, exit_status, applied, tokenVars>>
  BY Zenon DEF HolderCreate, HolderDelete, HolderWrite
<1>3. /\ IterType' /\ Running' = Running
      /\ \A b \in Running : tag'[b] = tag[b] /\ trx'[b] = trx[b]
  <2>1. UNCHANGED <<user_balance, pool>> /\ operator_balance' \in Nat
    BY <1>2, Zenon DEF tokenVars, IterInv, IterType
  <2> QED
    BY <1>1, <1>2, <2>1, HolderStep, Zenon
<1>4. Nodes' = Nodes /\ status' = status
  BY <1>2, Zenon DEF vars, treeVars, graphVars, nodeVars, Nodes
<1> QED
  BY <1>2, <1>3, <1>4, SameReserve, Undisturbed, Zenon DEF IterInv

(* Skipping a node costs no more than is held in reserve for it. *)
LEMMA SkippedStep ==
    ASSUME IterInv, NEW a \in Accounts, NEW i \in Index, NEW from_account \in BOOLEAN,
           NEW fee \in Fees, SkipNode(a, i, from_account, fee)
    PROVE  IterInv'
<1> DEFINE gas == IF from_account THEN 2 * SIGNATURE_COST ELSE SIGNATURE_COST
           cost == gas * GAS_PRICE + fee
           n == Cardinality({j \in Nodes : status[j] = "NotStarted"})
<1>1. gas \in Nat /\ gas <= GAS_LIMIT
  BY GasFacts
<1>2. /\ tag[a] \in {"Holder", "StateFinalized"}
      /\ skip_transaction(i) /\ balance >= cost
      /\ balance' = balance - cost /\ operator_balance' = operator_balance + cost
      /\ SetTag(a, "Holder") /\ trx' = [trx EXCEPT ![a] = NoTrx] /\ slot' = slot
      /\ UNCHANGED <<gas_used, priority_fee_used, exit_status, applied, user_balance, pool>>
  BY Zenon DEF SkipNode
<1> HIDE DEF gas
<1>3. cost \in Nat /\ cost <= NodeReserve
  <2>1. gas * GAS_PRICE \in Nat /\ gas * GAS_PRICE <= GAS_LIMIT * GAS_PRICE
    BY <1>1, GasFacts, Products, Zenon
  <2>2. GAS_LIMIT * GAS_PRICE \in Nat
    BY GasFacts, Products, Zenon
  <2> QED
    BY <2>1, <2>2, GasFacts
<1> HIDE DEF cost
<1>4. balance \in Nat /\ slot \in Nat /\ operator_balance \in Nat
  BY Zenon DEF IterInv, TreeInv, TypeOK, IterType
<1>5. TreeInv'
  BY <1>2, <1>3, <1>4, SkippedNode DEF IterInv
<1>6. /\ i \in Nodes /\ status[i] = "NotStarted"
      /\ Nodes' = Nodes /\ Nodes \subseteq Index
      /\ \A j \in Nodes : status'[j] = IF j = i THEN "Skipped" ELSE status[j]
  BY <1>2, IndexFacts, Zenon
     DEF IterInv, TreeInv, TypeOK, skip_transaction, Waiting, Move, graphVars, Nodes
<1>7. IterType' /\ Running' = Running /\ \A b \in Running : tag'[b] = tag[b] /\ trx'[b] = trx[b]
  <2>1. tag[a] \notin Live
    BY <1>2, Zenon DEF Live
  <2>2. operator_balance' \in Nat
    BY <1>2, <1>3, <1>4
  <2>3. "Holder" \in {"Empty", "Holder"} /\ NoTrx \in Trx \cup {NoTrx}
    BY Zenon
  <2> QED
    BY <1>2, <2>1, <2>2, <2>3, HolderStep, Zenon
<1>8. ChargedWithin' /\ HeldByOne' /\ ExitRecorded' /\ AppliedOnceUnlessCancelled'
  BY <1>2, <1>6, <1>7, Undisturbed, Zenon
<1>9. TreeCoversPending'
  <2>1. {j \in Nodes : status[j] = "NotStarted"}' = {j \in Nodes : status[j] = "NotStarted"} \ {i}
    BY <1>6, Zenon
  <2>2. IsFiniteSet({j \in Nodes : status[j] = "NotStarted"}) /\ n \in Nat
    <3>1. len \in 0 .. MaxNodes
      BY Zenon DEF IterInv, TreeInv, TypeOK
    <3> QED
      BY <3>1, NodeSets, MaxNodesAssumption DEF Nodes
  <2>3. Cardinality({j \in Nodes : status[j] = "NotStarted"} \ {i}) = n - 1
    BY <1>6, <2>2, FS_RemoveElement, Zenon
  <2>4. n - 1 \in Nat
    BY <1>6, <2>2, <2>3, FS_RemoveElement, FS_Subset, FS_CardinalityType
  <2>5. balance >= NodeReserve * n
    BY Zenon DEF IterInv, TreeCoversPending
  <2> HIDE DEF n
  <2> DEFINE m == n - 1
  <2>6. NodeReserve * n = NodeReserve * m + NodeReserve /\ NodeReserve * m \in Nat
    <3>1. m \in Nat /\ n = m + 1
      BY <2>2, <2>4
    <3> HIDE DEF m
    <3> QED
      BY <3>1, GasFacts, Products
  <2>7. balance' >= NodeReserve * (n - 1)
    BY <1>2, <1>3, <1>4, <2>5, <2>6, GasFacts
  <2> QED
    BY <2>1, <2>3, <2>7, Zenon DEF TreeCoversPending
<1> QED
  BY <1>5, <1>7, <1>8, <1>9, Zenon DEF IterInv

(* The lamports charged cover the amount of tokens they are charged for. *)
LEMMA LamportsCover ==
    ASSUME NEW tokens \in Nat
    PROVE  /\ LamportsFor(tokens) * TOKENS_PER_LAMPORT \in Nat
           /\ LamportsFor(tokens) * TOKENS_PER_LAMPORT >= tokens
<1> DEFINE T == TOKENS_PER_LAMPORT
           q == tokens \div T
           r == tokens % T
<1>1. T \in Nat /\ T > 0
  BY GasFacts, Zenon
<1>2. q \in Nat /\ r \in 0 .. T - 1 /\ tokens = T * q + r
  BY <1>1
<1>3. LamportsFor(tokens) = q + (IF r # 0 THEN 1 ELSE 0)
  BY Zenon DEF LamportsFor
<1> HIDE DEF T, q, r
<1>4. CASE r = 0
  <2>1. LamportsFor(tokens) = q
    BY <1>2, <1>3, <1>4
  <2> QED
    BY <1>1, <1>2, <1>4, <2>1 DEF T
<1>5. CASE r # 0
  <2>1. LamportsFor(tokens) = q + 1
    BY <1>2, <1>3, <1>5, Zenon
  <2>2. (q + 1) * T = q * T + T /\ q * T \in Nat
    BY <1>1, <1>2
  <2> QED
    BY <1>1, <1>2, <2>1, <2>2 DEF T
<1> QED
  BY <1>4, <1>5, Zenon

(* A new tree is paid for: from the balance of the payer and in lamports. *)
LEMMA CreatedStep ==
    ASSUME IterInv, Schedule
    PROVE  IterInv'
<1>1. PICK n \in 1 .. MaxNodes, value \in 0 .. 1 :
        \E children \in [0 .. n - 1 -> Index \cup {NO_CHILD_TRANSACTION}] :
           \E limits \in [0 .. n - 1 -> 0 .. MaxNodes - 1] :
              CreateTree(n, children, limits, value)
  BY Zenon DEF Schedule
<1>2. PICK children \in [0 .. n - 1 -> Index \cup {NO_CHILD_TRANSACTION}],
           limits \in [0 .. n - 1 -> 0 .. MaxNodes - 1] : CreateTree(n, children, limits, value)
  BY <1>1, Zenon
<1> DEFINE required == n * NodeReserve + value
           from_balance == IF user_balance < required THEN user_balance ELSE required
           from_signer == LamportsFor(required - from_balance) * TOKENS_PER_LAMPORT
<1>3. /\ len = 0 /\ create(n, children, limits)
      /\ balance' = from_balance + from_signer
      /\ user_balance' = user_balance - from_balance
      /\ pool' = pool + from_signer
      /\ applied' = [t \in Trx |-> IF t \in Index THEN 0 ELSE applied[t]]
      /\ UNCHANGED <<slot, accountVars, operator_balance>>
  BY <1>2, Zenon DEF CreateTree
<1>4. n \in Nat /\ n * NodeReserve \in Nat /\ required \in Nat /\ required >= n * NodeReserve
  <2>1. n \in Nat
    BY IndexFacts
  <2>2. n * NodeReserve \in Nat
    BY <2>1, GasFacts, Products, Zenon
  <2> QED
    BY <2>1, <2>2
<1>5. user_balance \in Nat /\ operator_balance \in Nat /\ pool \in Nat /\ slot \in Nat
  BY Zenon DEF IterInv, IterType, TreeInv, TypeOK
<1> HIDE DEF required
<1>6. from_balance \in Nat /\ required - from_balance \in Nat /\ user_balance - from_balance \in Nat
  BY <1>4, <1>5
<1> HIDE DEF from_balance
<1>7. from_signer \in Nat /\ from_signer >= required - from_balance
  BY <1>6, LamportsCover, Zenon
<1> HIDE DEF from_signer
<1>8. balance' \in Nat /\ balance' >= n * NodeReserve /\ slot' \in Nat
  BY <1>3, <1>4, <1>5, <1>6, <1>7
<1>9. TreeInv'
  BY <1>3, <1>8, CreateNodes, Zenon DEF IterInv
<1>10. Nodes' = 0 .. n - 1 /\ Nodes' \subseteq Index /\ \A j \in Nodes' : status'[j] = "NotStarted"
  BY <1>3, <1>4, IndexFacts DEF create, NoNode, Nodes, Index
<1>11. IterType'
  BY <1>3, <1>5, <1>6, <1>7 DEF IterInv, IterType, accountVars
<1>12. ChargedWithin' /\ HeldByOne' /\ ExitRecorded' /\ AppliedOnceUnlessCancelled'
  <2>1. ~is_in_progress
    BY <1>3 DEF is_in_progress, Nodes
  <2>2. /\ \A t \in Classic : applied'[t] = applied[t]
        /\ \A t \in Index : applied'[t] <= 1
    BY <1>3, TrxAssumption DEF Trx
  <2> QED
    BY <1>3, <1>10, <2>1, <2>2, NewTree, Zenon
<1>13. TreeCoversPending'
  <2>1. {j \in Nodes : status[j] = "NotStarted"}' = 0 .. n - 1
    BY <1>10, Zenon
  <2>2. Cardinality(0 .. n - 1) = n
    <3>1. \A b \in Int : Cardinality(0 .. b) = IF 0 > b THEN 0 ELSE b - 0 + 1
      BY FS_Interval
    <3> QED
      BY <1>4, <3>1
  <2>3. balance' >= NodeReserve * n
    BY <1>4, <1>8, GasFacts
  <2> QED
    BY <2>1, <2>2, <2>3, Zenon DEF TreeCoversPending
<1> QED
  BY <1>9, <1>11, <1>12, <1>13, Zenon DEF IterInv

(* A tree is only destroyed while none of its nodes is in progress. *)
LEMMA DestroyedStep ==
    ASSUME IterInv, DestroyTree
    PROVE  IterInv'
<1>1. /\ destroy(0) /\ user_balance' = user_balance + balance
      /\ UNCHANGED <<slot, accountVars, applied, operator_balance, pool>>
  BY Zenon DEF DestroyTree
<1>2. balance \in Nat /\ user_balance \in Nat /\ slot \in Nat
  BY Zenon DEF IterInv, IterType, TreeInv, TypeOK
<1>3. TreeInv'
  BY <1>1, <1>2, DestroyedTree, Zenon DEF IterInv
<1>4. Nodes' = {} /\ balance' = 0 /\ ~is_in_progress
  BY <1>1 DEF destroy, can_be_destroyed, Nodes
<1>5. IterType'
  BY <1>1, <1>2 DEF IterInv, IterType, accountVars
<1>6. ChargedWithin' /\ HeldByOne' /\ ExitRecorded' /\ AppliedOnceUnlessCancelled'
  <2>1. /\ \A t \in Classic : applied'[t] = applied[t]
        /\ \A t \in Index : applied'[t] <= 1
    BY <1>1, Zenon DEF IterInv, AppliedOnceUnlessCancelled, Trx
  <2> QED
    BY <1>1, <1>4, <2>1, NewTree, Zenon
<1>7. TreeCoversPending'
  <2>1. {j \in Nodes : status[j] = "NotStarted"}' = {}
    BY <1>4, Zenon
  <2> QED
    BY <1>4, <2>1, FS_EmptySet, GasFacts DEF TreeCoversPending
<1> QED
  BY <1>3, <1>5, <1>6, <1>7, Zenon DEF IterInv

(* An iteration: what it charges is within what was taken. *)
LEMMA ContinuedStep ==
    ASSUME IterInv, NEW a \in Accounts, Continue(a)
    PROVE  IterInv'
<1>1. PICK fee \in Fees, reset \in BOOLEAN :
        \/ \E exit \in EvmExit \cup {NotExited} : RunSteps(a, reset, exit, fee)
        \/ \E rent \in 0 .. MaxRent : AllocateMore(a, rent, fee)
        \/ \E exit \in EvmExit, rent \in 0 .. MaxRent : Finalize(a, reset, exit, rent, fee)
  BY Zenon DEF Continue
<1>2. fee \in Nat
  BY GasFacts, Zenon
<1>3. tag[a] = "State"
  BY <1>1, Zenon DEF RunSteps, AllocateMore, Finalize, HasResult
<1>4. /\ a \in Running /\ gas_used[a] \in 0 .. GAS_LIMIT
      /\ priority_fee_used[a] \in 0 .. PriorityLimit
  BY <1>3, RunningFacts, Zenon DEF Running, Live
<1>5. \A gas, f \in Nat : \A c : c = consume_gas(a, gas, f, TRUE) =>
        c.gas_used \in 0 .. GAS_LIMIT /\ c.fee_used \in 0 .. PriorityLimit /\ c.paid \in Nat
  <2>1. ASSUME NEW gas \in Nat, NEW f \in Nat, NEW c, c = consume_gas(a, gas, f, TRUE)
        PROVE  /\ c.gas_used \in 0 .. GAS_LIMIT /\ c.fee_used \in 0 .. PriorityLimit
               /\ c.paid \in Nat
    <3>1. TRUE \in BOOLEAN
      OBVIOUS
    <3> QED
      BY <1>4, <2>1, <3>1, ConsumedWithin, Zenon
  <2> QED
    BY <2>1, Zenon
<1>6. ASSUME NEW exit \in EvmExit \cup {NotExited}, RunSteps(a, reset, exit, fee)
      PROVE  IterInv'
  <2> DEFINE gas == SIGNATURE_COST + TREASURY_PAYMENT
             c == consume_gas(a, gas, fee, TRUE)
  <2>1. gas \in Nat
    BY GasFacts
  <2>2. /\ Charge(a, c) /\ exit_status' = [exit_status EXCEPT ![a] = exit]
        /\ UNCHANGED <<vars, tag, trx, applied, user_balance, pool>>
    BY <1>6, Zenon DEF RunSteps
  <2>3. c.gas_used \in 0 .. GAS_LIMIT /\ c.fee_used \in 0 .. PriorityLimit /\ c.paid \in Nat
    BY <1>2, <1>5, <2>1, Zenon
  <2> HIDE DEF c
  <2> QED
    BY <1>3, <2>2, <2>3, ChargedStep, Zenon
<1>7. ASSUME NEW rent \in 0 .. MaxRent, AllocateMore(a, rent, fee)
      PROVE  IterInv'
  <2> DEFINE gas == SIGNATURE_COST + rent
             c == consume_gas(a, gas, fee, TRUE)
  <2>1. gas \in Nat
    BY GasFacts
  <2>2. /\ Charge(a, c) /\ UNCHANGED exit_status
        /\ UNCHANGED <<vars, tag, trx, applied, user_balance, pool>>
    BY <1>7, Zenon DEF AllocateMore
  <2>3. c.gas_used \in 0 .. GAS_LIMIT /\ c.fee_used \in 0 .. PriorityLimit /\ c.paid \in Nat
    BY <1>2, <1>5, <2>1, Zenon
  <2>4. /\ exit_status' = [exit_status EXCEPT ![a] = exit_status[a]]
        /\ exit_status[a] \in EvmExit \cup {NotExited}
    BY <1>3, <2>2, Zenon DEF IterInv, IterType, ExitRecorded
  <2> HIDE DEF c
  <2> QED
    BY <1>3, <2>2, <2>3, <2>4, ChargedStep, Zenon
<1>8. ASSUME NEW exit \in EvmExit, NEW rent \in 0 .. MaxRent, Finalize(a, reset, exit, rent, fee)
      PROVE  IterInv'
  <2> DEFINE gas == SIGNATURE_COST + rent
             last_fee == finalize_priority_fee(fee, gas_used[a] + gas, priority_fee_used[a])
             c == consume_gas(a, gas, last_fee, TRUE)
  <2>1. gas \in Nat /\ gas_used[a] + gas \in Nat /\ gas_used[a] + gas > 0
    BY <1>4, GasFacts
  <2>2. last_fee \in Nat
    <3> HIDE DEF gas
    <3>1. priority_fee_used[a] \in Nat
      BY <1>4, GasFacts
    <3> QED
      BY <1>2, <2>1, <3>1, LastFee, Zenon
  <2>3. /\ applied' = [applied EXCEPT ![trx[a]] = @ + 1]
        /\ CloseState(a, c, exit, "ScheduledFinalized")
        /\ UNCHANGED <<vars, trx, pool>>
    BY <1>8, Zenon DEF Finalize
  <2> HIDE DEF last_fee
  <2>4. c.gas_used \in 0 .. GAS_LIMIT /\ c.fee_used \in 0 .. PriorityLimit /\ c.paid \in Nat
    BY <1>5, <2>1, <2>2, Zenon
  <2> HIDE DEF c
  <2> QED
    BY <1>3, <2>3, <2>4, ClosedStep, Zenon
<1> QED
  BY <1>1, <1>6, <1>7, <1>8, Zenon

(* A cancellation: consume_gas may fail half way. *)
LEMMA CancelledStep ==
    ASSUME IterInv, NEW a \in Accounts, CancelTransaction(a)
    PROVE  IterInv'
<1>1. PICK fee \in Fees, same_chain \in BOOLEAN : Cancel(a, same_chain, fee)
  BY Zenon DEF CancelTransaction
<1> DEFINE gas == IF gas_available(a) < 2 * SIGNATURE_COST
                  THEN gas_available(a) ELSE 2 * SIGNATURE_COST
           last_fee == finalize_priority_fee(fee, gas_used[a] + gas, priority_fee_used[a])
           c == consume_gas(a, gas, last_fee, same_chain)
<1>2. CloseState(a, c, "Cancel", "ScheduledCancelled") /\ UNCHANGED <<vars, trx, applied, pool>>
  BY <1>1, Zenon DEF Cancel
<1>3. tag[a] = "State" /\ fee \in Nat
  BY <1>2, GasFacts, Zenon DEF CloseState
<1>4. /\ a \in Running /\ gas_used[a] \in 0 .. GAS_LIMIT
      /\ priority_fee_used[a] \in 0 .. PriorityLimit
  BY <1>3, RunningFacts, Zenon DEF Running, Live
<1>5. gas \in Nat /\ gas_used[a] + gas \in Nat /\ gas_used[a] + gas > 0
  BY <1>4, GasFacts DEF gas_available
<1> HIDE DEF gas
<1>6. last_fee \in Nat
  <2>1. priority_fee_used[a] \in Nat
    BY <1>4, GasFacts
  <2> QED
    BY <1>3, <1>5, <2>1, LastFee, Zenon
<1> HIDE DEF last_fee
<1>7. c.gas_used \in 0 .. GAS_LIMIT /\ c.fee_used \in 0 .. PriorityLimit /\ c.paid \in Nat
  <2>1. c = consume_gas(a, gas, last_fee, same_chain)
    BY Zenon
  <2> HIDE DEF c
  <2> QED
    BY <1>4, <1>5, <1>6, <2>1, ConsumedWithin, Zenon
<1> HIDE DEF c
<1> QED
  BY <1>2, <1>3, <1>7, ClosedStep, Zenon

(* Every step of the program keeps the invariant. *)
LEMMA IterInvStep == IterInv /\ [IterNext]_iterVars => IterInv'
<1> SUFFICES ASSUME IterInv, [IterNext]_iterVars PROVE IterInv'
  BY Zenon
<1>1. ASSUME NEW a \in Accounts, Continue(a) \/ CancelTransaction(a) \/ Finish(a) PROVE IterInv'
  BY <1>1, ContinuedStep, CancelledStep, FinishedStep, Zenon
<1>2. ASSUME NEW a \in Accounts, SkipScheduled(a) PROVE IterInv'
  BY <1>2, SkippedStep, Zenon DEF SkipScheduled
<1>3. ASSUME NEW a \in Accounts,
             \/ HolderCreate(a) \/ HolderDelete(a)
             \/ \E t \in Index \cup {NoTrx} : HolderWrite(a, t)
      PROVE  IterInv'
  BY <1>3, HolderSteps, Zenon
<1>4. ASSUME UNCHANGED <<treeVars, balance, accountVars, applied, tokenVars>>, slot' \in Nat
      PROVE  IterInv'
  <2>1. TreeInv'
    BY <1>4, SameTree, Zenon DEF IterInv, TreeInv, TypeOK
  <2>2. Nodes' = Nodes /\ status' = status /\ balance' = balance
    BY <1>4, Zenon DEF treeVars, graphVars, nodeVars, Nodes
  <2>3. TreeCoversPending'
    BY <2>2, Zenon DEF IterInv, TreeCoversPending
  <2>4. IterType' /\ Running' = Running /\ applied' = applied
        /\ \A a \in Running : /\ tag'[a] = tag[a] /\ trx'[a] = trx[a]
                              /\ gas_used'[a] = gas_used[a]
                              /\ priority_fee_used'[a] = priority_fee_used[a]
                              /\ exit_status'[a] = exit_status[a]
    BY <1>4, Zenon DEF IterInv, IterType, Running, accountVars, tokenVars
  <2>5. ChargedWithin' /\ HeldByOne' /\ ExitRecorded' /\ AppliedOnceUnlessCancelled'
    BY <2>2, <2>4, Undisturbed, Zenon
  <2> QED
    BY <2>1, <2>3, <2>4, <2>5, Zenon DEF IterInv
<1>5. slot \in Nat
  BY Zenon DEF IterInv, TreeInv, TypeOK
<1>6. CASE SlotPasses
  BY <1>4, <1>5, <1>6 DEF SlotPasses, Tick
<1>7. CASE UNCHANGED iterVars
  BY <1>4, <1>5, <1>7, Zenon DEF iterVars, vars
<1>8. CASE Schedule \/ DestroyTree
  BY <1>8, CreatedStep, DestroyedStep, Zenon
<1> QED
  BY <1>1, <1>2, <1>3, <1>6, <1>7, <1>8, Zenon DEF IterNext
-----------------------------------------------------------------------------
(* The sum of what is taken for the running transactions. *)
Escrows == [a \in Accounts |-> Escrow(a)]

(* It is no less than nothing, as no more is charged than was taken. *)
LEMMA EscrowType ==
    ASSUME NEW a,
           tag[a] \in Live => /\ gas_used[a] \in 0 .. GAS_LIMIT
                              /\ priority_fee_used[a] \in 0 .. PriorityLimit
    PROVE  Escrow(a) \in Nat
<1>1. CASE tag[a] \notin Live
  BY <1>1, Zenon DEF Escrow
<1>2. CASE tag[a] \in Live
  <2>1. (GAS_LIMIT - gas_used[a]) * GAS_PRICE \in Nat
    BY <1>2, GasFacts, Products
  <2> QED
    BY <1>2, <2>1, GasFacts DEF Escrow, gas_available, priority_fee_in_tokens_available
<1> QED
  BY <1>1, <1>2, Zenon

(* When every escrow is a number, what is outstanding is the total over the
   accounts. *)
LEMMA EscrowSum ==
    ASSUME \A a \in Accounts : Escrow(a) \in Nat
    PROVE  /\ Summable(Escrows, Accounts)
           /\ Outstanding = user_balance + operator_balance + balance + Total(Escrows, Accounts)
<1>1. Summable(Escrows, Accounts)
  BY TrxAssumption, Zenon DEF Summable, Escrows
<1>2. MapThenSumSet(Escrow, Accounts) = (CHOOSE g : Summing(Escrows, Accounts, g))[Accounts]
  BY Zenon DEF MapThenSumSet, MapThenFoldSet, Summing, Any, Escrows
<1>3. MapThenSumSet(Escrow, Accounts) = Total(Escrows, Accounts)
  BY <1>1, <1>2, SummingIsTotal, Zenon
<1> QED
  BY <1>1, <1>3, Zenon DEF Outstanding

(* The invariant makes every escrow a number, so what is outstanding is a
   total. *)
LEMMA OutstandingFacts ==
    IterInv => /\ Summable(Escrows, Accounts)
               /\ Outstanding = user_balance + operator_balance + balance + Total(Escrows, Accounts)
<1> SUFFICES ASSUME IterInv
             PROVE  \A a \in Accounts : Escrow(a) \in Nat
  BY EscrowSum, Zenon
<1> QED
  BY EscrowType, RunningFacts, Zenon DEF Running

(* The transactions that were begun before the program went into service  *)
(* mode.                                                                   *)
LEMMA BegunFacts ==
    ASSUME IterInit
    PROVE  /\ \A a \in Running : BegunAs(a)
           /\ \A i \in Index : status[i] = "InProgress" => \E a \in Running : trx[a] = i
           /\ \A a \in Running : trx[a] \in Index => status[trx[a]] = "InProgress"
           /\ status \in [Index -> Pending]
           /\ \A a \in Accounts : tag[a] \in {"Empty", "Holder", "State"}
<1>1. /\ tag \in [Accounts -> {"Empty", "Holder", "State"}]
      /\ \A a \in Accounts : IF tag[a] = "State" THEN BegunAs(a) ELSE trx[a] = NoTrx
      /\ status = [i \in Index |->
            IF \E a \in Accounts : trx[a] = i THEN "InProgress" ELSE "NotStarted"]
  BY Zenon DEF IterInit
<1>2. \A a \in Accounts : a \in Running <=> tag[a] = "State"
  BY <1>1, Zenon DEF Running, Live
<1>3. \A i \in Index : i # NoTrx
  BY TrxAssumption, Zenon
<1> QED
  BY <1>1, <1>2, <1>3, Zenon DEF Running, Pending

(* The tree they are in. *)
LEMMA TreeBegun ==
    ASSUME IterInit
    PROVE  TreeInv /\ TreeCoversPending
<1>1. len \in 0 .. MaxNodes /\ last_slot = 0 /\ slot = 0
  BY Zenon DEF IterInit
<1>2. PICK children \in [0 .. len - 1 -> Index \cup {NO_CHILD_TRANSACTION}],
           limits \in [0 .. len - 1 -> 0 .. MaxNodes - 1] :
        /\ ValidNodes(len, children, limits)
        /\ child_transaction = Padded(len, children, NO_CHILD_TRANSACTION)
        /\ success_execute_limit = Padded(len, limits, 0)
        /\ declared_limit = Padded(len, limits, 0)
  BY Zenon DEF IterInit
<1>3. /\ len \in Nat /\ Nodes = 0 .. len - 1 /\ Nodes \subseteq Index
      /\ \A i \in Nodes : i \in Index /\ i < len
      /\ len <= NO_CHILD_TRANSACTION
  BY <1>1, IndexFacts DEF Nodes, Index
<1>4. /\ child_transaction = [k \in Index |-> IF k < len THEN children[k] ELSE NO_CHILD_TRANSACTION]
      /\ success_execute_limit = [k \in Index |-> IF k < len THEN limits[k] ELSE 0]
      /\ declared_limit = success_execute_limit
  BY <1>2, Zenon DEF Padded
<1>5. status \in [Index -> Pending] /\ parent_count = [i \in Index |-> Cardinality(Parents(i))]
  BY BegunFacts, Zenon DEF IterInit
<1>6. \A n : PendingParents(n) = Parents(n) /\ SuccessfulParents(n) = {}
  BY <1>3, <1>5, Zenon DEF PendingParents, SuccessfulParents, Parents, Pending
<1>7. \A n : Cardinality(Parents(n)) \in 0 .. len /\ (Cardinality(Parents(n)) = 0 <=> Parents(n) = {})
  BY <1>1, NodeSets, Zenon DEF Parents, Nodes
<1> DEFINE waiting == {i \in Nodes : status[i] = "NotStarted"}
<1>8. Cardinality(waiting) \in Nat /\ balance = NodeReserve * Cardinality(waiting)
  <2>1. Cardinality(waiting) \in 0 .. len
    BY <1>1, NodeSets, Zenon DEF Nodes
  <2> QED
    BY <1>3, <2>1 DEF IterInit
<1>9. balance \in Nat
  <2> HIDE DEF waiting
  <2> QED
    BY <1>8, GasFacts, Products, Zenon
<1>10. TypeOK
  <2>1. parent_count \in [Index -> U16]
    <3>1. 0 .. len \subseteq U16
      BY <1>3, IndexFacts DEF U16
    <3> QED
      BY <1>5, <1>7, <3>1, Zenon
  <2>2. success_execute_limit \in [Index -> U16]
    BY <1>3, <1>4, IndexFacts DEF U16, Index
  <2>3. child_transaction \in [Index -> Index \cup {NO_CHILD_TRANSACTION}]
    BY <1>3, <1>4, IndexFacts DEF Index
  <2>4. status \in [Index -> Status]
    BY <1>5, Zenon DEF Pending, Status
  <2> QED
    BY <1>1, <1>4, <1>9, <2>1, <2>2, <2>3, <2>4, Zenon DEF TypeOK
<1>11. ChildrenLater
  <2> SUFFICES ASSUME NEW p \in Nodes, child_transaction[p] # NO_CHILD_TRANSACTION
               PROVE  child_transaction[p] \in Nodes /\ child_transaction[p] > p
    BY Zenon DEF ChildrenLater
  <2>1. child_transaction[p] = children[p] /\ p \in 0 .. len - 1
    BY <1>3, <1>4, Zenon
  <2>2. children[p] \in Index /\ children[p] < len /\ children[p] > p
    BY <1>2, <2>1, Zenon DEF ValidNodes
  <2> QED
    BY <1>3, <2>1, <2>2, IndexFacts DEF Index
<1>12. ParentCountExact
  BY <1>3, <1>5, <1>6, Zenon DEF ParentCountExact
<1>13. SuccessLimitExact
  <2> SUFFICES ASSUME NEW n \in Nodes
               PROVE  success_execute_limit[n] =
                  SaturatingSub(declared_limit[n], Cardinality(SuccessfulParents(n)))
    BY Zenon DEF SuccessLimitExact
  <2>1. success_execute_limit[n] \in Nat
    BY <1>3, <1>10 DEF TypeOK, U16
  <2>2. Cardinality(SuccessfulParents(n)) = 0
    BY <1>6, FS_EmptySet, Zenon
  <2> QED
    BY <1>4, <2>1, <2>2 DEF SaturatingSub
<1>14. ExecutionOrder
  <2> SUFFICES ASSUME NEW n \in Nodes, status[n] # "NotStarted"
               PROVE  /\ PendingParents(n) = {}
                      /\ ~(status[n] = "Skipped")
                      /\ ~(Cardinality(SuccessfulParents(n)) < declared_limit[n])
    BY Zenon DEF ExecutionOrder
  <2>1. status[n] = "InProgress" /\ n \in Index
    BY <1>3, <1>5, Zenon DEF Pending
  <2>2. PICK a \in Running : trx[a] = n
    BY <2>1, BegunFacts, Zenon
  <2>3. parent_count[n] = 0 /\ success_execute_limit[n] = 0
    BY <2>2, BegunFacts, Zenon DEF BegunAs
  <2>4. Cardinality(Parents(n)) = 0
    BY <1>5, <2>1, <2>3, Zenon
  <2>5. Cardinality(SuccessfulParents(n)) = 0 /\ declared_limit[n] = 0
    BY <1>4, <1>6, <2>3, FS_EmptySet, Zenon
  <2> QED
    BY <1>6, <1>7, <2>1, <2>4, <2>5
<1> QED
  BY <1>8, <1>9, <1>10, <1>11, <1>12, <1>13, <1>14 DEF TreeInv, TreeCoversPending

(* At first there is no account and nothing was paid. *)
LEMMA IterInvInit == IterInit => IterInv
<1> SUFFICES ASSUME IterInit PROVE IterInv
  BY Zenon
<1>1. TreeInv /\ TreeCoversPending
  BY TreeBegun, Zenon
<1>2. /\ tag \in [Accounts -> {"Empty", "Holder", "State"}]
      /\ trx \in [Accounts -> Trx \cup {NoTrx}]
      /\ gas_used \in [Accounts -> {0, SIGNATURE_COST, 2 * SIGNATURE_COST}]
      /\ priority_fee_used \in [Accounts -> Fees \cup {0}]
      /\ exit_status = [a \in Accounts |-> NotExited]
      /\ applied = [t \in Trx |-> 0]
      /\ user_balance = 0 /\ operator_balance = 0 /\ pool = Outstanding
  BY Zenon DEF IterInit
<1>3. gas_used \in [Accounts -> 0 .. GAS_LIMIT]
  BY <1>2, GasFacts
<1>4. priority_fee_used \in [Accounts -> 0 .. PriorityLimit]
  BY <1>2, GasFacts
<1>5. ChargedWithin
  BY <1>3, <1>4, GasFacts DEF ChargedWithin, Running
<1>6. pool \in Nat => IterType
  BY <1>2, <1>3, <1>4, GasFacts DEF IterType, Live
<1>7. pool \in Nat
  <2>1. \A a \in Accounts : Escrow(a) \in Nat
    BY <1>3, <1>4, EscrowType, Zenon
  <2>2. Outstanding = user_balance + operator_balance + balance + Total(Escrows, Accounts)
        /\ Total(Escrows, Accounts) \in Nat
    BY <2>1, EscrowSum, TotalType, Zenon
  <2>3. balance \in Nat
    BY <1>1, Zenon DEF TreeInv, TypeOK
  <2> QED
    BY <1>2, <2>2, <2>3
<1>8. Nodes \subseteq Index
  BY <1>1, IndexFacts, Zenon DEF TreeInv
<1>9. HeldByOne
  BY <1>8, BegunFacts, Zenon DEF HeldByOne, BegunAs, Running
<1>10. ExitRecorded
  BY <1>2, Zenon DEF ExitRecorded
<1>11. AppliedOnceUnlessCancelled
  <2>1. \A a \in Accounts : tag[a] = "State" => trx[a] \in Trx
    BY <1>8, BegunFacts, Zenon DEF BegunAs, Running, Live, Trx
  <2>2. \A i \in Nodes : status[i] # "Success"
    BY <1>8, BegunFacts, Zenon DEF Pending
  <2> QED
    BY <1>2, <2>1, <2>2 DEF AppliedOnceUnlessCancelled
<1> QED
  BY <1>1, <1>5, <1>6, <1>7, <1>9, <1>10, <1>11, Zenon DEF IterInv

(* The invariant holds in every reachable state. *)
LEMMA IterInvariant == IterSpec => []IterInv
  BY IterInvInit, IterInvStep, PTL DEF IterSpec
-----------------------------------------------------------------------------
(* A node of a tree is in progress exactly while one state account runs    *)
(* it: no step of any operator starts, finishes, skips, destroys or        *)
(* creates the tree under a running transaction.                           *)
THEOREM NodesAreHeldOnce == IterSpec => []InProgressHeldOnce
<1>1. IterInv => InProgressHeldOnce
  <2> SUFFICES ASSUME IterInv, NEW i \in Index
               PROVE  Cardinality({a \in Accounts : tag[a] \in Live /\ trx[a] = i}) =
                         IF i \in Nodes /\ status[i] = "InProgress" THEN 1 ELSE 0
    BY Zenon DEF InProgressHeldOnce
  <2> DEFINE H == {a \in Accounts : tag[a] \in Live /\ trx[a] = i}
  <2>1. CASE i \in Nodes /\ status[i] = "InProgress"
    <3>1. PICK a \in Running : trx[a] = i
      BY <2>1, Zenon DEF IterInv, HeldByOne
    <3>2. H = {a}
      BY <3>1 DEF IterInv, HeldByOne, Running
    <3> QED
      BY <2>1, <3>2, FS_Singleton, Zenon
  <2>2. CASE ~(i \in Nodes /\ status[i] = "InProgress")
    <3>1. H = {}
      BY <2>2, TrxAssumption DEF IterInv, HeldByOne, Running
    <3> QED
      BY <2>2, <3>1, FS_EmptySet, Zenon
  <2> QED
    BY <2>1, <2>2, Zenon
<1> QED
  BY <1>1, IterInvariant, PTL

(* The changes of a transaction are applied at most once, and only if it   *)
(* is not cancelled.                                                       *)
THEOREM ChangesAreAppliedOnce == IterSpec => []AppliedOnceUnlessCancelled
<1>1. IterInv => AppliedOnceUnlessCancelled
  BY Zenon DEF IterInv
<1> QED
  BY <1>1, IterInvariant, PTL

(* The finish instruction of a finalized or cancelled transaction finds    *)
(* its node in progress, a child that still counts it and an exit status,  *)
(* and its refund does not underflow.                                      *)
THEOREM FinishIsAccepted == IterSpec => []FinishAccepted
<1>1. IterInv => FinishAccepted
  <2> SUFFICES ASSUME IterInv, NEW a \in Accounts,
                      tag[a] \in {"ScheduledFinalized", "ScheduledCancelled"}
               PROVE  /\ trx[a] \in Nodes
                      /\ status[trx[a]] = "InProgress"
                      /\ child_transaction[trx[a]] # NO_CHILD_TRANSACTION
                            => parent_count[child_transaction[trx[a]]] > 0
                      /\ exit_status[a] # NotExited
                      /\ exit_status[a] = "Cancel" <=> tag[a] = "ScheduledCancelled"
                      /\ gas_used[a] <= GAS_LIMIT /\ priority_fee_used[a] <= PriorityLimit
    BY Zenon DEF FinishAccepted
  <2>1. a \in Running
    BY Zenon DEF Running, Live
  <2>2. trx[a] \in Nodes /\ status[trx[a]] = "InProgress"
    BY <2>1, Zenon DEF IterInv, HeldByOne, ExitRecorded
  <2>3. DecreaseNeverPanics
    BY CountedByChild, Zenon DEF IterInv, TreeInv
  <2>4. exit_status[a] # NotExited /\ (exit_status[a] = "Cancel" <=> tag[a] = "ScheduledCancelled")
    BY ExitFacts, Zenon DEF IterInv, ExitRecorded
  <2> QED
    BY <2>1, <2>2, <2>3, <2>4, Zenon DEF IterInv, ChargedWithin, DecreaseNeverPanics, Pending
<1> QED
  BY <1>1, IterInvariant, PTL

(* Whatever has been skipped, the tree still holds the whole price of      *)
(* every transaction that has not been started.                            *)
THEOREM ReserveIsKept == IterSpec => []TreeCoversPending
<1>1. IterInv => TreeCoversPending
  BY Zenon DEF IterInv
<1> QED
  BY <1>1, IterInvariant, PTL
-----------------------------------------------------------------------------
(* The books: what is outstanding, and that the balances are numbers. *)
Booked ==
    /\ Summable(Escrows, Accounts)
    /\ Outstanding = user_balance + operator_balance + balance + Total(Escrows, Accounts)
    /\ user_balance \in Nat /\ operator_balance \in Nat /\ balance \in Nat /\ pool \in Nat

(* Balances, pool and escrows are numbers. *)
LEMMA Books == IterInv => Booked
  BY OutstandingFacts, Zenon DEF Booked, IterInv, IterType, TreeInv, TypeOK

(* The same after a step. *)
LEMMA BooksNext == IterInv' => Booked'
  BY Books, PTL

(* A sum over the accounts in which one of them changes. *)
LEMMA AccountsChange ==
    ASSUME NEW a \in Accounts, NEW f, NEW g, Summable(f, Accounts), g[a] \in Nat,
           \A y \in Accounts \ {a} : g[y] = f[y]
    PROVE  /\ Total(f, Accounts) \in Nat /\ Total(g, Accounts) \in Nat
           /\ Total(g, Accounts) = Total(f, Accounts) - f[a] + g[a]
<1>1. ChangedAt(f, g, Accounts, a)
  BY TotalChange, Zenon
<1> QED
  BY <1>1 DEF ChangedAt

(* Only what changes counts: the balances and the escrow of one account. *)
LEMMA OneEscrow ==
    ASSUME Booked, Booked', NEW a \in Accounts,
           \A b \in Accounts \ {a} : Escrow(b)' = Escrow(b),
           NEW spent \in Int, Escrow(a)' = Escrow(a) - spent
    PROVE  Drift = (user_balance' - user_balance) + (operator_balance' - operator_balance)
                   + (balance' - balance) - (pool' - pool) - spent
<1>1. /\ Summable(Escrows, Accounts)
      /\ Outstanding = user_balance + operator_balance + balance + Total(Escrows, Accounts)
      /\ user_balance \in Nat /\ operator_balance \in Nat /\ balance \in Nat /\ pool \in Nat
  BY Zenon DEF Booked
<1>2. /\ Summable(Escrows', Accounts)
      /\ Outstanding' = user_balance' + operator_balance' + balance' + Total(Escrows', Accounts)
      /\ user_balance' \in Nat /\ operator_balance' \in Nat /\ balance' \in Nat /\ pool' \in Nat
  BY Zenon DEF Booked
<1>3. /\ \A b \in Accounts : Escrows[b] = Escrow(b)
      /\ \A b \in Accounts : Escrows'[b] = Escrow(b)'
  BY Zenon DEF Escrows
<1>4. Escrows[a] \in Nat /\ Escrows'[a] \in Nat
  BY <1>1, <1>2, Zenon DEF Summable
<1>5. /\ Total(Escrows, Accounts) \in Nat /\ Total(Escrows', Accounts) \in Nat
      /\ Total(Escrows', Accounts) = Total(Escrows, Accounts) - Escrows[a] + Escrows'[a]
  <2>1. /\ Summable(Escrows, Accounts) /\ Escrows'[a] \in Nat
        /\ \A b \in Accounts \ {a} : Escrows'[b] = Escrows[b]
    BY <1>1, <1>3, <1>4, Zenon
  <2> QED
    BY <2>1, AccountsChange, Zenon
<1>6. Escrows'[a] = Escrows[a] - spent
  BY <1>3, Zenon
<1> QED
  BY <1>1, <1>2, <1>4, <1>5, <1>6 DEF Drift

(* The escrow of a transaction that has used g of its gas and f in fees. *)
Worth(g, f) == (GAS_LIMIT - g) * GAS_PRICE + PriorityLimit - f
Spent(a, c) ==
    (c.gas_used - gas_used[a]) * GAS_PRICE + (c.fee_used - priority_fee_used[a])

(* What is left of the gas of a transaction is worth its escrow less what was
   charged: consume_gas and materialize_unused_gas agree on prices. *)
LEMMA WorthLeft ==
    ASSUME IterInv, NEW a \in Running,
           NEW c, c.gas_used \in 0 .. GAS_LIMIT, c.fee_used \in 0 .. PriorityLimit,
           c.gas_used >= gas_used[a], c.fee_used >= priority_fee_used[a]
    PROVE  /\ Escrow(a) = Worth(gas_used[a], priority_fee_used[a])
           /\ Escrow(a) \in Nat /\ Spent(a, c) \in Nat
           /\ Worth(c.gas_used, c.fee_used) = Escrow(a) - Spent(a, c)
           /\ Worth(c.gas_used, c.fee_used) = materialize_unused_gas(c)
<1>1. /\ tag[a] \in Live /\ gas_used[a] \in 0 .. GAS_LIMIT
      /\ priority_fee_used[a] \in 0 .. PriorityLimit
  BY RunningFacts, Zenon
<1>2. Escrow(a) = Worth(gas_used[a], priority_fee_used[a])
  BY <1>1, GasFacts, Products, Zenon
     DEF Escrow, Worth, gas_available, priority_fee_in_tokens_available
<1>3. Escrow(a) \in Nat
  BY <1>1, EscrowType, Zenon
<1> DEFINE used == c.gas_used - gas_used[a]
           left == GAS_LIMIT - gas_used[a]
<1>4. /\ used \in Nat /\ left \in Nat /\ used <= left
      /\ GAS_LIMIT - c.gas_used = left - used
  BY <1>1, GasFacts
<1> HIDE DEF used, left
<1>5. /\ (left - used) * GAS_PRICE = left * GAS_PRICE - used * GAS_PRICE
      /\ used * GAS_PRICE \in Nat /\ left * GAS_PRICE \in Nat
  BY <1>4, GasFacts, Products
<1>6. Spent(a, c) = used * GAS_PRICE + (c.fee_used - priority_fee_used[a])
  BY Zenon DEF Spent, used
<1>7. Worth(c.gas_used, c.fee_used) = left * GAS_PRICE - used * GAS_PRICE + PriorityLimit - c.fee_used
  BY <1>4, <1>5, Zenon DEF Worth
<1>8. Worth(gas_used[a], priority_fee_used[a]) = left * GAS_PRICE + PriorityLimit - priority_fee_used[a]
  BY Zenon DEF Worth, left
<1>9. Spent(a, c) \in Nat
  BY <1>1, <1>5, <1>6, GasFacts
<1>10. Worth(c.gas_used, c.fee_used) = Escrow(a) - Spent(a, c)
  BY <1>1, <1>2, <1>5, <1>6, <1>7, <1>8, GasFacts
<1> QED
  BY <1>2, <1>3, <1>9, <1>10, Zenon DEF Worth, materialize_unused_gas

(* What an iteration charges leaves the escrow, and what it pays reaches   *)
(* the operator.                                                           *)
LEMMA ChargedFlow ==
    ASSUME IterInv, IterInv', NEW a \in Accounts, tag[a] = "State",
           NEW c, c.gas_used \in 0 .. GAS_LIMIT, c.fee_used \in 0 .. PriorityLimit,
           c.gas_used >= gas_used[a], c.fee_used >= priority_fee_used[a], c.paid \in Nat,
           Charge(a, c), tag'[a] \in Live, \A b \in Accounts \ {a} : tag'[b] = tag[b],
           balance' = balance, user_balance' = user_balance, pool' = pool
    PROVE  Drift = c.paid - Spent(a, c)
<1>1. a \in Running
  BY Zenon DEF Running, Live
<1>2. /\ Escrow(a) \in Nat /\ Spent(a, c) \in Nat
      /\ Worth(c.gas_used, c.fee_used) = Escrow(a) - Spent(a, c)
      /\ Worth(c.gas_used, c.fee_used) = materialize_unused_gas(c)
  BY <1>1, WorthLeft, Zenon
<1>3. /\ gas_used'[a] = c.gas_used /\ priority_fee_used'[a] = c.fee_used
      /\ \A b \in Accounts \ {a} : /\ gas_used'[b] = gas_used[b]
                                   /\ priority_fee_used'[b] = priority_fee_used[b]
      /\ operator_balance' = operator_balance + c.paid
  BY Zenon DEF Charge, IterInv, IterType
<1>4. \A b \in Accounts \ {a} : Escrow(b)' = Escrow(b)
  BY <1>3, Zenon DEF Escrow, gas_available, priority_fee_in_tokens_available
<1>5. Escrow(a)' = Worth(c.gas_used, c.fee_used)
  <2>1. (GAS_LIMIT - c.gas_used) * GAS_PRICE \in Nat
    <3>1. GAS_LIMIT - c.gas_used \in Nat /\ GAS_PRICE \in Nat
      BY GasFacts
    <3> QED
      BY <3>1, Products, Zenon
  <2> QED
    BY <1>3, <2>1, GasFacts, Zenon DEF Escrow, Worth, gas_available, priority_fee_in_tokens_available
<1>6. Booked /\ Booked'
  BY Books, BooksNext, Zenon
<1>7. Drift = (user_balance' - user_balance) + (operator_balance' - operator_balance)
              + (balance' - balance) - (pool' - pool) - Spent(a, c)
  <2>1. Escrow(a)' = Escrow(a) - Spent(a, c) /\ Spent(a, c) \in Int
    BY <1>2, <1>5
  <2> QED
    BY <1>4, <1>6, <2>1, OneEscrow, Zenon
<1>8. user_balance \in Nat /\ operator_balance \in Nat /\ balance \in Nat /\ pool \in Nat
  BY <1>6, Zenon DEF Booked
<1> QED
  BY <1>2, <1>3, <1>7, <1>8

(* So it is when the transaction is closed: the rest stays in the escrow   *)
(* or is returned to the origin.                                           *)
LEMMA ClosedFlow ==
    ASSUME IterInv, IterInv', NEW a \in Accounts,
           NEW c, c.gas_used \in 0 .. GAS_LIMIT, c.fee_used \in 0 .. PriorityLimit,
           c.gas_used >= gas_used[a], c.fee_used >= priority_fee_used[a], c.paid \in Nat,
           NEW exit, NEW scheduled_tag \in Live, CloseState(a, c, exit, scheduled_tag),
           UNCHANGED <<balance, pool>>
    PROVE  Drift = c.paid - Spent(a, c)
<1>1. a \in Running /\ tag[a] = "State" /\ tag \in [Accounts -> {"Empty", "Holder", "StateFinalized"} \cup Live]
  BY Zenon DEF Running, Live, CloseState, IterInv, IterType
<1>2. CASE is_scheduled_tx(a)
  <2>1. /\ Charge(a, c) /\ tag'[a] \in Live
        /\ \A b \in Accounts \ {a} : tag'[b] = tag[b]
        /\ balance' = balance /\ user_balance' = user_balance /\ pool' = pool
    BY <1>1, <1>2, Zenon DEF CloseState, SetTag
  <2>2. tag[a] = "State"
    BY <1>1, Zenon
  <2> QED
    BY <2>1, <2>2, ChargedFlow, Zenon
<1>3. CASE ~is_scheduled_tx(a)
  <2>1. /\ Escrow(a) \in Nat /\ Spent(a, c) \in Nat
        /\ materialize_unused_gas(c) = Escrow(a) - Spent(a, c)
    BY <1>1, WorthLeft, Zenon
  <2>2. /\ tag'[a] = "StateFinalized"
        /\ \A b \in Accounts \ {a} : /\ tag'[b] = tag[b] /\ gas_used'[b] = gas_used[b]
                                     /\ priority_fee_used'[b] = priority_fee_used[b]
        /\ user_balance' = user_balance + materialize_unused_gas(c)
        /\ operator_balance' = operator_balance + c.paid
    BY <1>1, <1>3 DEF CloseState, convert_from_state, SetTag, IterInv, IterType
  <2>3. \A b \in Accounts \ {a} : Escrow(b)' = Escrow(b)
    BY <2>2, Zenon DEF Escrow, gas_available, priority_fee_in_tokens_available
  <2>4. Escrow(a)' = Escrow(a) - Escrow(a)
    BY <2>1, <2>2 DEF Escrow, Live
  <2>5. Booked /\ Booked' /\ Escrow(a) \in Int
    BY <2>1, Books, BooksNext
  <2>6. Drift = (user_balance' - user_balance) + (operator_balance' - operator_balance)
                + (balance' - balance) - (pool' - pool) - Escrow(a)
    BY <2>3, <2>4, <2>5, OneEscrow, Zenon
  <2>7. user_balance \in Nat /\ operator_balance \in Nat /\ balance \in Nat /\ pool \in Nat
    BY <2>5, Zenon DEF Booked
  <2> QED
    BY <2>1, <2>2, <2>6, <2>7
<1> QED
  BY <1>2, <1>3, Zenon

(* An iteration that succeeds pays the operator what it charges. *)
LEMMA PaidInFull ==
    ASSUME IterInv, NEW a \in Running, NEW gas \in Nat, NEW fee \in Nat,
           NEW same_chain \in BOOLEAN,
           NEW c, c = consume_gas(a, gas, fee, same_chain)
    PROVE  /\ c.gas_used \in 0 .. GAS_LIMIT /\ c.fee_used \in 0 .. PriorityLimit
           /\ c.gas_used >= gas_used[a] /\ c.fee_used >= priority_fee_used[a] /\ c.paid \in Nat
           /\ c.ok => c.paid - Spent(a, c) = 0
           /\ ~c.ok => /\ c.paid - Spent(a, c) <= 0
                       /\ c.paid - Spent(a, c) >= -(gas * GAS_PRICE + PriorityLimit)
<1>1. gas_used[a] \in 0 .. GAS_LIMIT /\ priority_fee_used[a] \in 0 .. PriorityLimit
  BY RunningFacts, Zenon
<1>2. /\ c.gas_used \in 0 .. GAS_LIMIT /\ c.fee_used \in 0 .. PriorityLimit
      /\ c.gas_used >= gas_used[a] /\ c.gas_used <= gas_used[a] + gas
      /\ c.fee_used >= priority_fee_used[a]
      /\ c.paid \in Nat
      /\ c.ok => /\ c.gas_used = gas_used[a] + gas
                 /\ c.fee_used = priority_fee_used[a] + fee
                 /\ c.paid = gas * GAS_PRICE + fee
      /\ ~c.ok => c.paid = 0
  <2>1. \A k, g, f, s : /\ g \in Nat /\ f \in Nat /\ s \in BOOLEAN
                         /\ gas_used[k] \in 0 .. GAS_LIMIT /\ priority_fee_used[k] \in 0 .. PriorityLimit
          => LET d == consume_gas(k, g, f, s)
             IN  /\ d.gas_used \in 0 .. GAS_LIMIT /\ d.fee_used \in 0 .. PriorityLimit
                 /\ d.gas_used >= gas_used[k] /\ d.gas_used <= gas_used[k] + g
                 /\ d.fee_used >= priority_fee_used[k]
                 /\ d.paid \in Nat
                 /\ d.ok => /\ d.gas_used = gas_used[k] + g
                            /\ d.fee_used = priority_fee_used[k] + f
                            /\ d.paid = g * GAS_PRICE + f
                 /\ ~d.ok => d.paid = 0
    BY ConsumedWithin
  <2> QED
    BY <1>1, <2>1
<1>3. Spent(a, c) \in Nat
  BY <1>2, WorthLeft, Zenon
<1>4. CASE c.ok
  <2>1. c.gas_used - gas_used[a] = gas /\ c.fee_used - priority_fee_used[a] = fee
    BY <1>1, <1>2, <1>4, GasFacts
  <2>2. Spent(a, c) = c.paid
    BY <1>2, <1>4, <2>1, Zenon DEF Spent
  <2> QED
    BY <1>2, <1>4, <2>2
<1>5. CASE ~c.ok
  <2> DEFINE used == c.gas_used - gas_used[a]
  <2>1. used \in Nat /\ used <= gas
    BY <1>1, <1>2, GasFacts
  <2>2. Spent(a, c) = used * GAS_PRICE + (c.fee_used - priority_fee_used[a])
    BY Zenon DEF Spent
  <2> HIDE DEF used
  <2>3. used * GAS_PRICE \in Nat /\ gas * GAS_PRICE \in Nat /\ used * GAS_PRICE <= gas * GAS_PRICE
    BY <2>1, GasFacts, Products, Zenon
  <2>4. Spent(a, c) <= gas * GAS_PRICE + PriorityLimit
    BY <1>1, <1>2, <2>2, <2>3, GasFacts
  <2> QED
    BY <1>2, <1>3, <1>5, <2>3, <2>4, GasFacts
<1> QED
  BY <1>2, <1>4, <1>5, Zenon

(* A step that leaves the escrows alone only moves balances. *)
LEMMA SameEscrows ==
    ASSUME Booked, Booked', \A b \in Accounts : Escrow(b)' = Escrow(b)
    PROVE  Drift = (user_balance' - user_balance) + (operator_balance' - operator_balance)
                   + (balance' - balance) - (pool' - pool)
<1>1. Escrows' = Escrows
  BY Zenon DEF Escrows
<1>2. Total(Escrows, Accounts) \in Nat
  BY TotalType, Zenon DEF Booked
<1> QED
  BY <1>1, <1>2 DEF Drift, Booked

(* An iteration moves tokens from the escrow to the operator and creates none. *)
LEMMA ContinuedFlow ==
    ASSUME IterInv, IterInv', NEW a \in Accounts, Continue(a)
    PROVE  Drift = 0
<1>1. PICK fee \in Fees, reset \in BOOLEAN :
        \/ \E exit \in EvmExit \cup {NotExited} : RunSteps(a, reset, exit, fee)
        \/ \E rent \in 0 .. MaxRent : AllocateMore(a, rent, fee)
        \/ \E exit \in EvmExit, rent \in 0 .. MaxRent : Finalize(a, reset, exit, rent, fee)
  BY Zenon DEF Continue
<1>2. fee \in Nat
  BY GasFacts, Zenon
<1>3. tag[a] = "State"
  BY <1>1, Zenon DEF RunSteps, AllocateMore, Finalize, HasResult
<1>4. /\ a \in Running /\ gas_used[a] \in 0 .. GAS_LIMIT
      /\ priority_fee_used[a] \in 0 .. PriorityLimit
  BY <1>3, RunningFacts, Zenon DEF Running, Live
<1>5. ASSUME NEW gas \in Nat, NEW f \in Nat, NEW c, c = consume_gas(a, gas, f, TRUE), c.ok
      PROVE  /\ c.gas_used \in 0 .. GAS_LIMIT /\ c.fee_used \in 0 .. PriorityLimit
             /\ c.gas_used >= gas_used[a] /\ c.fee_used >= priority_fee_used[a] /\ c.paid \in Nat
             /\ c.paid - Spent(a, c) = 0
  BY <1>4, <1>5, PaidInFull, Zenon
<1>6. ASSUME NEW gas \in Nat, NEW c, c = consume_gas(a, gas, fee, TRUE), c.ok, Charge(a, c),
             UNCHANGED <<vars, tag, trx, applied, user_balance, pool>>
      PROVE  Drift = 0
  <2>1. /\ c.gas_used \in 0 .. GAS_LIMIT /\ c.fee_used \in 0 .. PriorityLimit
        /\ c.gas_used >= gas_used[a] /\ c.fee_used >= priority_fee_used[a] /\ c.paid \in Nat
        /\ c.paid - Spent(a, c) = 0
    BY <1>2, <1>5, <1>6, Zenon
  <2>2. /\ tag'[a] \in Live /\ \A b \in Accounts \ {a} : tag'[b] = tag[b]
    BY <1>3, <1>6, Zenon DEF Live
  <2>3. balance' = balance /\ user_balance' = user_balance /\ pool' = pool /\ Charge(a, c)
    BY <1>6, Zenon DEF vars
  <2> QED
    BY <1>3, <2>1, <2>2, <2>3, ChargedFlow, Zenon
<1>7. ASSUME NEW exit \in EvmExit \cup {NotExited}, RunSteps(a, reset, exit, fee)
      PROVE  Drift = 0
  <2> DEFINE gas == SIGNATURE_COST + TREASURY_PAYMENT
             c == consume_gas(a, gas, fee, TRUE)
  <2>1. gas \in Nat
    BY GasFacts
  <2>2. c.ok /\ Charge(a, c) /\ UNCHANGED <<vars, tag, trx, applied, user_balance, pool>>
    BY <1>7, Zenon DEF RunSteps
  <2> QED
    BY <1>6, <2>1, <2>2, Zenon
<1>8. ASSUME NEW rent \in 0 .. MaxRent, AllocateMore(a, rent, fee)
      PROVE  Drift = 0
  <2> DEFINE gas == SIGNATURE_COST + rent
             c == consume_gas(a, gas, fee, TRUE)
  <2>1. gas \in Nat
    BY GasFacts
  <2>2. c.ok /\ Charge(a, c) /\ UNCHANGED <<vars, tag, trx, applied, user_balance, pool>>
    BY <1>8, Zenon DEF AllocateMore
  <2> QED
    BY <1>6, <2>1, <2>2, Zenon
<1>9. ASSUME NEW exit \in EvmExit, NEW rent \in 0 .. MaxRent, Finalize(a, reset, exit, rent, fee)
      PROVE  Drift = 0
  <2> DEFINE gas == SIGNATURE_COST + rent
             last_fee == finalize_priority_fee(fee, gas_used[a] + gas, priority_fee_used[a])
             c == consume_gas(a, gas, last_fee, TRUE)
  <2>1. gas \in Nat /\ gas_used[a] + gas \in Nat /\ gas_used[a] + gas > 0
    BY <1>4, GasFacts
  <2>2. last_fee \in Nat
    <3> HIDE DEF gas
    <3>1. priority_fee_used[a] \in Nat
      BY <1>4, GasFacts
    <3> QED
      BY <1>2, <2>1, <3>1, LastFee, Zenon
  <2>3. /\ c.ok /\ CloseState(a, c, exit, "ScheduledFinalized")
        /\ UNCHANGED <<balance, pool>>
    BY <1>9, Zenon DEF Finalize, vars
  <2> HIDE DEF last_fee
  <2>4. /\ c.gas_used \in 0 .. GAS_LIMIT /\ c.fee_used \in 0 .. PriorityLimit
        /\ c.gas_used >= gas_used[a] /\ c.fee_used >= priority_fee_used[a] /\ c.paid \in Nat
        /\ c.paid - Spent(a, c) = 0
    BY <1>5, <2>1, <2>2, <2>3, Zenon
  <2> HIDE DEF c
  <2>5. "ScheduledFinalized" \in Live
    BY Zenon DEF Live
  <2> QED
    BY <2>3, <2>4, <2>5, ClosedFlow, Zenon
<1> QED
  BY <1>1, <1>7, <1>8, <1>9, Zenon

(* A cancellation loses no more than its charge. *)
LEMMA CancelledFlow ==
    ASSUME IterInv, IterInv', NEW a \in Accounts, CancelTransaction(a)
    PROVE  \/ Drift = 0
           \/ /\ Drift < 0
              /\ Drift >= -(2 * SIGNATURE_COST * GAS_PRICE + PriorityLimit)
              /\ Left({"State"}) /\ applied' = applied
<1>1. PICK fee \in Fees, same_chain \in BOOLEAN : Cancel(a, same_chain, fee)
  BY Zenon DEF CancelTransaction
<1> DEFINE gas == IF gas_available(a) < 2 * SIGNATURE_COST
                  THEN gas_available(a) ELSE 2 * SIGNATURE_COST
           last_fee == finalize_priority_fee(fee, gas_used[a] + gas, priority_fee_used[a])
           c == consume_gas(a, gas, last_fee, same_chain)
<1>2. CloseState(a, c, "Cancel", "ScheduledCancelled") /\ UNCHANGED <<vars, trx, applied, pool>>
  BY <1>1, Zenon DEF Cancel
<1>3. tag[a] = "State" /\ fee \in Nat
  BY <1>2, GasFacts, Zenon DEF CloseState
<1>4. /\ a \in Running /\ gas_used[a] \in 0 .. GAS_LIMIT
      /\ priority_fee_used[a] \in 0 .. PriorityLimit
  BY <1>3, RunningFacts, Zenon DEF Running, Live
<1>5. gas \in Nat /\ gas <= 2 * SIGNATURE_COST /\ gas_used[a] + gas \in Nat /\ gas_used[a] + gas > 0
  BY <1>4, GasFacts DEF gas_available
<1> HIDE DEF gas
<1>6. last_fee \in Nat
  <2>1. priority_fee_used[a] \in Nat
    BY <1>4, GasFacts
  <2> QED
    BY <1>3, <1>5, <2>1, LastFee, Zenon
<1> HIDE DEF last_fee
<1>7. c = consume_gas(a, gas, last_fee, same_chain)
  BY Zenon
<1> HIDE DEF c
<1>8. /\ c.gas_used \in 0 .. GAS_LIMIT /\ c.fee_used \in 0 .. PriorityLimit
      /\ c.gas_used >= gas_used[a] /\ c.fee_used >= priority_fee_used[a] /\ c.paid \in Nat
      /\ c.ok => c.paid - Spent(a, c) = 0
      /\ ~c.ok => /\ c.paid - Spent(a, c) <= 0
                  /\ c.paid - Spent(a, c) >= -(gas * GAS_PRICE + PriorityLimit)
  BY <1>4, <1>5, <1>6, <1>7, PaidInFull
<1>9. Drift = c.paid - Spent(a, c)
  <2>1. UNCHANGED <<balance, pool>> /\ "ScheduledCancelled" \in Live
    BY <1>2, Zenon DEF vars, Live
  <2> QED
    BY <1>2, <1>8, <2>1, ClosedFlow, Zenon
<1>10. Left({"State"}) /\ applied' = applied
  <2>1. tag'[a] \in {"ScheduledCancelled", "StateFinalized"}
    BY <1>2, <1>3 DEF CloseState, SetTag, convert_from_state, IterInv, IterType
  <2> QED
    BY <1>2, <1>3, <2>1, Zenon DEF Left
<1>11. /\ gas * GAS_PRICE \in Nat /\ 2 * SIGNATURE_COST * GAS_PRICE \in Nat
       /\ gas * GAS_PRICE <= 2 * SIGNATURE_COST * GAS_PRICE
  <2>1. 2 * SIGNATURE_COST \in Nat
    BY GasFacts
  <2> QED
    BY <1>5, <2>1, GasFacts, Products, Zenon
<1>12. Spent(a, c) \in Nat
  BY <1>4, <1>8, WorthLeft, Zenon
<1> QED
  BY <1>8, <1>9, <1>10, <1>11, <1>12, GasFacts

(* The finish instruction returns the escrow to the tree and pays the      *)
(* operator out of nothing.                                                *)
LEMMA FinishedFlow ==
    ASSUME IterInv, IterInv', NEW a \in Accounts, Finish(a)
    PROVE  Drift = FINISH_GAS /\ Left({"ScheduledFinalized", "ScheduledCancelled"})
<1>1. /\ tag[a] \in {"ScheduledFinalized", "ScheduledCancelled"}
      /\ balance' = balance + Escrow(a)
      /\ operator_balance' = operator_balance + FINISH_GAS
      /\ convert_from_state(a) /\ user_balance' = user_balance /\ pool' = pool
  BY Zenon DEF Finish
<1>2. /\ tag'[a] = "StateFinalized"
      /\ \A b \in Accounts \ {a} : /\ tag'[b] = tag[b] /\ gas_used'[b] = gas_used[b]
                                   /\ priority_fee_used'[b] = priority_fee_used[b]
  BY <1>1, Zenon DEF convert_from_state, SetTag, IterInv, IterType
<1>3. \A b \in Accounts \ {a} : Escrow(b)' = Escrow(b)
  BY <1>2, Zenon DEF Escrow, gas_available, priority_fee_in_tokens_available
<1>4. a \in Running
  BY <1>1, Zenon DEF Running, Live
<1>5. Escrow(a) \in Nat
  BY <1>4, RunningFacts, EscrowType, Zenon
<1>6. Escrow(a)' = Escrow(a) - Escrow(a)
  BY <1>2, <1>5 DEF Escrow, Live
<1>7. Booked /\ Booked' /\ Escrow(a) \in Int
  BY <1>5, Books, BooksNext
<1>8. Drift = (user_balance' - user_balance) + (operator_balance' - operator_balance)
              + (balance' - balance) - (pool' - pool) - Escrow(a)
  BY <1>3, <1>6, <1>7, OneEscrow, Zenon
<1>9. user_balance \in Nat /\ operator_balance \in Nat /\ balance \in Nat /\ pool \in Nat
  BY <1>7, Zenon DEF Booked
<1>10. Left({"ScheduledFinalized", "ScheduledCancelled"})
  BY <1>1, <1>2, Zenon DEF Left
<1> QED
  BY <1>1, <1>5, <1>8, <1>9, <1>10, GasFacts

(* The other instructions run no transaction and move no escrow. *)
LEMMA HolderEscrows ==
    ASSUME IterInv, NEW a \in Accounts, tag[a] \notin Live, NEW new_tag, new_tag \notin Live,
           SetTag(a, new_tag), UNCHANGED <<gas_used, priority_fee_used>>
    PROVE  \A b \in Accounts : Escrow(b)' = Escrow(b)
<1>1. \A b \in Accounts : tag'[b] = IF b = a THEN new_tag ELSE tag[b]
  BY Zenon DEF SetTag, IterInv, IterType
<1>2. \A b \in Accounts : tag'[b] \in Live <=> tag[b] \in Live
  BY <1>1, Zenon
<1> QED
  BY <1>2, Zenon DEF Escrow, gas_available, priority_fee_in_tokens_available

(* The instructions on holders move no tokens. *)
LEMMA HolderFlow ==
    ASSUME IterInv, IterInv', NEW a \in Accounts,
           \/ HolderCreate(a) \/ HolderDelete(a)
           \/ \E t \in Index \cup {NoTrx} : HolderWrite(a, t)
    PROVE  Drift = 0
<1>1. /\ tag[a] \in {"Empty", "Holder", "StateFinalized"}
      /\ SetTag(a, "Empty") \/ SetTag(a, "Holder")
      /\ UNCHANGED <<vars, gas_used, priority_fee_used, tokenVars>>
  BY Zenon DEF HolderCreate, HolderDelete, HolderWrite
<1>2. tag[a] \notin Live /\ "Empty" \notin Live /\ "Holder" \notin Live
  BY <1>1, Zenon DEF Live
<1>3. \A b \in Accounts : Escrow(b)' = Escrow(b)
  BY <1>1, <1>2, HolderEscrows, Zenon
<1>4. Booked /\ Booked'
  BY Books, BooksNext, Zenon
<1> QED
  BY <1>1, <1>3, <1>4, SameEscrows DEF Booked, vars, tokenVars

(* Skipping a node pays the operator from the tree. *)
LEMMA SkippedFlow ==
    ASSUME IterInv, IterInv', NEW a \in Accounts, NEW i \in Index,
           NEW from_account \in BOOLEAN, NEW fee \in Fees, SkipNode(a, i, from_account, fee)
    PROVE  Drift = 0
<1> DEFINE gas == IF from_account THEN 2 * SIGNATURE_COST ELSE SIGNATURE_COST
           cost == gas * GAS_PRICE + fee
<1>1. gas \in Nat
  BY GasFacts
<1>2. /\ tag[a] \in {"Holder", "StateFinalized"} /\ SetTag(a, "Holder")
      /\ balance' = balance - cost /\ operator_balance' = operator_balance + cost
      /\ UNCHANGED <<gas_used, priority_fee_used, user_balance, pool>>
  BY Zenon DEF SkipNode
<1> HIDE DEF gas
<1>3. cost \in Nat
  BY <1>1, GasFacts, Products
<1> HIDE DEF cost
<1>4. tag[a] \notin Live /\ "Holder" \notin Live
  BY <1>2, Zenon DEF Live
<1>5. \A b \in Accounts : Escrow(b)' = Escrow(b)
  BY <1>2, <1>4, HolderEscrows, Zenon
<1>6. Booked /\ Booked'
  BY Books, BooksNext, Zenon
<1> QED
  BY <1>2, <1>3, <1>5, <1>6, SameEscrows DEF Booked

(* A step on the tree alone moves no tokens if what the user, the tree and the
   pool gain adds up to nothing. *)
LEMMA TreeFlow ==
    ASSUME IterInv, IterInv', UNCHANGED accountVars, operator_balance' = operator_balance,
           (user_balance' - user_balance) + (balance' - balance) - (pool' - pool) = 0
    PROVE  Drift = 0
<1>1. \A b \in Accounts : Escrow(b)' = Escrow(b)
  BY Zenon DEF Escrow, gas_available, priority_fee_in_tokens_available, accountVars
<1>2. Booked /\ Booked'
  BY Books, BooksNext, Zenon
<1>3. Drift = (user_balance' - user_balance) + (operator_balance' - operator_balance)
              + (balance' - balance) - (pool' - pool)
  BY <1>1, <1>2, SameEscrows, Zenon
<1>4. /\ user_balance \in Nat /\ operator_balance \in Nat /\ balance \in Nat /\ pool \in Nat
      /\ user_balance' \in Nat /\ balance' \in Nat /\ pool' \in Nat
  BY <1>2, Zenon DEF Booked
<1>5. \A u, v, w, x \in Int : u + v - w = 0 /\ x = 0 => u + x + v - w = 0
  OBVIOUS
<1>6. /\ user_balance' - user_balance \in Int /\ balance' - balance \in Int
      /\ pool' - pool \in Int /\ operator_balance' - operator_balance = 0
  BY <1>4
<1> QED
  BY <1>3, <1>5, <1>6

(* No tokens are left behind where there is no tree: create would drop them. *)
NoTreeNoTokens == len = 0 => balance = 0

(* There is no tree at first, and no tokens in it. *)
LEMMA NoTreeInit == IterInit => NoTreeNoTokens
<1> SUFFICES ASSUME IterInit, len = 0 PROVE balance = 0
  BY Zenon DEF NoTreeNoTokens
<1>1. {i \in Nodes : status[i] = "NotStarted"} = {}
  BY DEF Nodes
<1>2. balance = NodeReserve * Cardinality({i \in Nodes : status[i] = "NotStarted"})
  BY Zenon DEF IterInit
<1> QED
  BY <1>1, <1>2, FS_EmptySet, GasFacts

(* A tree that is destroyed pays out its balance, so an account without a tree
   holds no tokens. *)
LEMMA NoTreeStep ==
    ASSUME IterInv, NoTreeNoTokens, [IterNext]_iterVars
    PROVE  NoTreeNoTokens'
<1>1. ASSUME NEW a \in Accounts, Finish(a) PROVE NoTreeNoTokens'
  <2>1. trx[a] \in Nodes /\ len' = len
    BY <1>1, Zenon DEF Finish, end_transaction, graphVars
  <2> QED
    BY <2>1 DEF NoTreeNoTokens, Nodes
<1>2. ASSUME NEW a \in Accounts, SkipScheduled(a) PROVE NoTreeNoTokens'
  <2>1. PICK i \in Index : i \in Nodes /\ len' = len
    BY <1>2, Zenon DEF SkipScheduled, SkipNode, skip_transaction, Waiting, graphVars
  <2> QED
    BY <2>1 DEF NoTreeNoTokens, Nodes
<1>3. ASSUME UNCHANGED <<len, balance>> PROVE NoTreeNoTokens'
  BY <1>3, Zenon DEF NoTreeNoTokens
<1>4. ASSUME NEW a \in Accounts, Continue(a) PROVE UNCHANGED <<len, balance>>
  BY <1>4, Zenon DEF Continue, RunSteps, AllocateMore, Finalize, vars, treeVars, graphVars
<1>5. ASSUME NEW a \in Accounts, CancelTransaction(a) PROVE UNCHANGED <<len, balance>>
  BY <1>5, Zenon DEF CancelTransaction, Cancel, vars, treeVars, graphVars
<1>6. ASSUME NEW a \in Accounts,
             \/ HolderCreate(a) \/ HolderDelete(a)
             \/ \E t \in Index \cup {NoTrx} : HolderWrite(a, t)
      PROVE  UNCHANGED <<len, balance>>
  BY <1>6, Zenon DEF HolderCreate, HolderDelete, HolderWrite, vars, treeVars, graphVars
<1>7. CASE SlotPasses
  BY <1>3, <1>7, Zenon DEF SlotPasses, Tick, treeVars, graphVars
<1>8. CASE UNCHANGED iterVars
  BY <1>3, <1>8, Zenon DEF iterVars, vars, treeVars, graphVars
<1>9. CASE Schedule
  <2>1. PICK n \in 1 .. MaxNodes : len' = n
    BY <1>9 DEF Schedule, CreateTree, create
  <2> QED
    BY <2>1, IndexFacts DEF NoTreeNoTokens
<1>10. CASE DestroyTree
  BY <1>10, Zenon DEF DestroyTree, destroy, NoTreeNoTokens
<1> QED
  BY <1>1, <1>2, <1>3, <1>4, <1>5, <1>6, <1>7, <1>8, <1>9, <1>10, Zenon DEF IterNext

(* Scheduling a tree moves what it is paid with into it. *)
LEMMA CreatedFlow ==
    ASSUME IterInv, IterInv', NoTreeNoTokens, Schedule
    PROVE  Drift = 0
<1>1. PICK n \in 1 .. MaxNodes, value \in 0 .. 1 :
        \E children \in [0 .. n - 1 -> Index \cup {NO_CHILD_TRANSACTION}] :
           \E limits \in [0 .. n - 1 -> 0 .. MaxNodes - 1] :
              CreateTree(n, children, limits, value)
  BY Zenon DEF Schedule
<1>2. PICK children \in [0 .. n - 1 -> Index \cup {NO_CHILD_TRANSACTION}],
           limits \in [0 .. n - 1 -> 0 .. MaxNodes - 1] : CreateTree(n, children, limits, value)
  BY <1>1, Zenon
<1> DEFINE required == n * NodeReserve + value
           from_balance == IF user_balance < required THEN user_balance ELSE required
           from_signer == LamportsFor(required - from_balance) * TOKENS_PER_LAMPORT
<1>3. /\ len = 0 /\ balance' = from_balance + from_signer
      /\ user_balance' = user_balance - from_balance
      /\ pool' = pool + from_signer
      /\ UNCHANGED accountVars /\ operator_balance' = operator_balance
  BY <1>2, Zenon DEF CreateTree
<1>4. user_balance \in Nat /\ balance \in Nat /\ pool \in Nat /\ balance = 0
  BY <1>3, Zenon DEF IterInv, IterType, TreeInv, TypeOK, NoTreeNoTokens
<1>5. n * NodeReserve \in Nat
  BY GasFacts, Products, IndexFacts
<1>6. required \in Nat
  BY <1>5
<1> HIDE DEF required
<1>7. from_balance \in Nat /\ required - from_balance \in Nat
  BY <1>4, <1>6
<1> HIDE DEF from_balance
<1>8. from_signer \in Nat
  BY <1>7, LamportsCover, Zenon
<1> HIDE DEF from_signer
<1>9. (user_balance' - user_balance) + (balance' - balance) - (pool' - pool) = 0
  BY <1>3, <1>4, <1>7, <1>8
<1> QED
  BY <1>3, <1>9, TreeFlow, Zenon

(* Destroying a tree returns its balance to the user. *)
LEMMA DestroyedFlow ==
    ASSUME IterInv, IterInv', DestroyTree
    PROVE  Drift = 0
<1>1. /\ balance' = 0 /\ user_balance' = user_balance + balance
      /\ UNCHANGED accountVars /\ operator_balance' = operator_balance /\ pool' = pool
  BY Zenon DEF DestroyTree, destroy
<1>2. user_balance \in Nat /\ balance \in Nat /\ pool \in Nat
  BY Zenon DEF IterInv, IterType, TreeInv, TypeOK
<1>3. (user_balance' - user_balance) + (balance' - balance) - (pool' - pool) = 0
  BY <1>1, <1>2
<1> QED
  BY <1>1, <1>3, TreeFlow, Zenon

(* A step accounts for the tokens it moves. *)
Accounted ==
    \/ Drift = 0
    \/ Drift = FINISH_GAS /\ Left({"ScheduledFinalized", "ScheduledCancelled"})
    \/ /\ Drift < 0
       /\ Drift >= -(2 * SIGNATURE_COST * GAS_PRICE + PriorityLimit)
       /\ Left({"State"}) /\ applied' = applied

(* Every step moves tokens only as TokenFlow allows. *)
LEMMA FlowStep ==
    ASSUME IterInv, IterInv', NoTreeNoTokens, IterNext
    PROVE  Accounted
<1>1. ASSUME NEW a \in Accounts, Continue(a) PROVE Accounted
  BY <1>1, ContinuedFlow, Zenon DEF Accounted
<1>2. ASSUME NEW a \in Accounts, CancelTransaction(a) PROVE Accounted
  BY <1>2, CancelledFlow, Zenon DEF Accounted
<1>3. ASSUME NEW a \in Accounts, Finish(a) PROVE Accounted
  BY <1>3, FinishedFlow, Zenon DEF Accounted
<1>4. ASSUME NEW a \in Accounts, SkipScheduled(a) PROVE Accounted
  <2>1. PICK i \in Index, from_account \in BOOLEAN, fee \in Fees : SkipNode(a, i, from_account, fee)
    BY <1>4, Zenon DEF SkipScheduled
  <2> QED
    BY <2>1, SkippedFlow, Zenon DEF Accounted
<1>5. ASSUME NEW a \in Accounts,
             \/ HolderCreate(a) \/ HolderDelete(a)
             \/ \E t \in Index \cup {NoTrx} : HolderWrite(a, t)
      PROVE  Accounted
  BY <1>5, HolderFlow, Zenon DEF Accounted
<1>6. CASE Schedule
  BY <1>6, CreatedFlow, Zenon DEF Accounted
<1>7. CASE DestroyTree
  BY <1>7, DestroyedFlow, Zenon DEF Accounted
<1>8. CASE SlotPasses
  <2>1. /\ UNCHANGED accountVars /\ operator_balance' = operator_balance
        /\ balance' = balance /\ user_balance' = user_balance /\ pool' = pool
    BY <1>8, Zenon DEF SlotPasses, Tick, tokenVars
  <2>2. user_balance \in Nat /\ balance \in Nat /\ pool \in Nat
    BY Zenon DEF IterInv, IterType, TreeInv, TypeOK
  <2>3. (user_balance' - user_balance) + (balance' - balance) - (pool' - pool) = 0
    BY <2>1, <2>2
  <2> QED
    BY <2>1, <2>3, TreeFlow, Zenon DEF Accounted
<1> QED
  BY <1>1, <1>2, <1>3, <1>4, <1>5, <1>6, <1>7, <1>8, Zenon DEF IterNext

(* No instruction makes tokens or loses them, for any prices, fees and     *)
(* number of accounts, but for two: the finish instruction pays its        *)
(* operator FINISH_GAS that nobody has paid, and a cancellation whose      *)
(* consume_gas fails half way keeps what it has charged.                   *)
THEOREM TokensAreAccountedFor == IterSpec => TokenFlow
<1>1. IterSpec => [](IterInv /\ NoTreeNoTokens)
  <2>1. IterInv /\ NoTreeNoTokens /\ [IterNext]_iterVars => (IterInv /\ NoTreeNoTokens)'
    BY IterInvStep, NoTreeStep, Zenon
  <2> QED
    BY <2>1, IterInvInit, NoTreeInit, PTL DEF IterSpec
<1>2. IterInv /\ NoTreeNoTokens /\ IterInv' /\ [IterNext]_iterVars => [Accounted]_iterVars
  BY FlowStep, Zenon
<1>3. IterSpec => [][Accounted]_iterVars
  BY <1>1, <1>2, PTL DEF IterSpec
<1> QED
  BY <1>3, Zenon DEF TokenFlow, Accounted
=============================================================================
