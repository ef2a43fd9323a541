--------------------------- MODULE TransactionTree ---------------------------
(***************************************************************************)
(* The transaction tree account of a scheduled transaction                 *)
(* (program/src/account/transaction_tree.rs): a forest of transactions,    *)
(* each with at most one child, executed parents first.                    *)
(*                                                                         *)
(* One tree account (one payer, chain and nonce) is modelled: it may be    *)
(* created, worked off and destroyed, and then created again at the same   *)
(* address.  A Solana instruction is atomic, so each method that an        *)
(* instruction calls is one step, and a call that returns an error or      *)
(* panics is no step at all.                                               *)
(***************************************************************************)
EXTENDS Integers, FiniteSets

CONSTANTS
    NO_CHILD_TRANSACTION,   \* u16::MAX: the child index of a node without child
    MaxNodes,               \* bound on the number of transactions in a tree
    TREE_ACCOUNT_TIMEOUT,   \* slots after which an idle tree may be destroyed
    MaxSlot,                \* bound on the clock
    MaxBalance              \* the largest balance (U256::MAX)

U16 == 0 .. NO_CHILD_TRANSACTION

ASSUME MaxNodesAssumption ==
    NO_CHILD_TRANSACTION \in Nat /\ MaxNodes \in 1 .. NO_CHILD_TRANSACTION
ASSUME TimeoutAssumption == TREE_ACCOUNT_TIMEOUT \in Nat
ASSUME BoundsAssumption == MaxSlot \in Nat /\ MaxBalance \in Nat

VARIABLES
    len,                    \* number of nodes; 0 while the account does not exist
    status,                 \* Node.status
    child_transaction,      \* Node.child_transaction
    success_execute_limit,  \* Node.success_execute_limit
    parent_count,           \* Node.parent_count
    declared_limit,         \* history: the success limit the tree was created with
    last_slot,              \* Header.last_slot
    balance,                \* Header.balance
    slot                    \* the Clock sysvar

graphVars == <<len, child_transaction, declared_limit>>
nodeVars == <<status, success_execute_limit, parent_count>>
treeVars == <<graphVars, nodeVars, last_slot>>
vars == <<treeVars, balance, slot>>

Index == 0 .. MaxNodes - 1
Nodes == 0 .. len - 1

Status == {"Failed", "Success", "Skipped", "InProgress", "NotStarted"}
Pending == {"InProgress", "NotStarted"}

(* The parents of node n: the nodes that name it as their child. *)
Parents(n) == {p \in Nodes : child_transaction[p] = n}
PendingParents(n) == {p \in Parents(n) : status[p] \in Pending}
SuccessfulParents(n) == {p \in Parents(n) : status[p] = "Success"}

SaturatingSub(a, b) == IF a > b THEN a - b ELSE 0
-----------------------------------------------------------------------------
is_in_progress == \E n \in Nodes : status[n] = "InProgress"

is_complete == \A n \in Nodes : status[n] \notin Pending

(* value is the balance when it is called: the destroy instruction has     *)
(* already paid the tree's tokens back.                                    *)
can_be_destroyed(value) ==
    /\ value = 0
    /\ ~is_in_progress
    /\ \/ last_slot < SaturatingSub(slot, TREE_ACCOUNT_TIMEOUT)
       \/ is_complete

ValidNodes_wrong(n, children, limits) ==
    /\ \A i \in 0 .. n - 1 :
          children[i] = NO_CHILD_TRANSACTION \/ children[i] < n
    /\ \A i \in 0 .. n - 1 :
          limits[i] <= Cardinality({p \in 0 .. n - 1 : children[p] = i})

(* What TransactionTree::create accepts: children come after their parents *)
(* and no node asks for more successful parents than it has.               *)
ValidNodes(n, children, limits) ==
    /\ \A i \in 0 .. n - 1 :
          \/ children[i] = NO_CHILD_TRANSACTION
          \/ children[i] < n /\ children[i] > i
    /\ \A i \in 0 .. n - 1 :
          limits[i] <= Cardinality({p \in 0 .. n - 1 : children[p] = i})

(* Entries of the node arrays beyond the end of the tree keep a fixed value. *)
NoNode(default) == [i \in Index |-> default]
Padded(n, f, default) == [i \in Index |-> IF i < n THEN f[i] ELSE default]

(* Called when the account is still owned by the system program (len = 0). *)
(* The balance of the new tree is left to the caller, as are the balance   *)
(* and the clock in the operations below.                                  *)
create(n, children, limits) ==
    /\ ValidNodes(n, children, limits)
    /\ len' = n
    /\ child_transaction' = Padded(n, children, NO_CHILD_TRANSACTION)
    /\ success_execute_limit' = Padded(n, limits, 0)
    /\ declared_limit' = Padded(n, limits, 0)
    /\ parent_count' = [i \in Index |->
          Cardinality({p \in 0 .. n - 1 : children[p] = i})]
    /\ status' = NoNode("NotStarted")
    /\ last_slot' = slot

decrease_unless_failed(index, parent_status) ==
    IF index = NO_CHILD_TRANSACTION \/ parent_status = "Failed"
    THEN UNCHANGED <<parent_count, success_execute_limit>>
    ELSE /\ parent_count[index] > 0
         /\ parent_count' = [parent_count EXCEPT ![index] = @ - 1]
         /\ success_execute_limit' =
               [success_execute_limit EXCEPT ![index] = SaturatingSub(@, 1)]

(* decrease_parent_count: the checked_sub(1).unwrap() panics, and with it  *)
(* the instruction, when the child has no parent left to count.            *)
decrease_parent_count(index, parent_status) ==
    IF index = NO_CHILD_TRANSACTION
    THEN UNCHANGED <<parent_count, success_execute_limit>>
    ELSE /\ parent_count[index] > 0
         /\ parent_count' = [parent_count EXCEPT ![index] = @ - 1]
         /\ success_execute_limit' =
               IF parent_status = "Success"
               THEN [success_execute_limit EXCEPT ![index] = SaturatingSub(@, 1)]
               ELSE success_execute_limit

Waiting_ignores_parents(i) == i \in Nodes /\ status[i] = "NotStarted"

Waiting_ignores_status(i) == i \in Nodes /\ parent_count[i] = 0

(* Both start and skip ask for a node that has not been started and whose  *)
(* parents have all finished.                                              *)
Waiting(i) == i \in Nodes /\ status[i] = "NotStarted" /\ parent_count[i] = 0

Move_keeps_slot(i, new_status) ==
    status' = [status EXCEPT ![i] = new_status] /\ last_slot' = last_slot

(* Each operation on a node ends in update_last_slot. *)
Move(i, new_status) ==
    status' = [status EXCEPT ![i] = new_status] /\ last_slot' = slot

start_transaction(i) ==
    /\ Waiting(i)
    /\ success_execute_limit[i] = 0
    /\ Move(i, "InProgress")
    /\ UNCHANGED <<graphVars, success_execute_limit, parent_count>>

skip_transaction(i) ==
    /\ Waiting(i)
    /\ success_execute_limit[i] # 0
    /\ Move(i, "Skipped")
    /\ decrease_parent_count(child_transaction[i], "Skipped")
    /\ UNCHANGED graphVars

(* The exit statuses a finished transaction can have, and the node status  *)
(* each leads to; StepLimit is unreachable!() in the code.                 *)
ExitStatus == {"Stop", "Suicide", "Return", "Revert", "Cancel"}
NodeStatus(exit) == IF exit \in {"Revert", "Cancel"} THEN "Failed" ELSE "Success"

end_transaction(i, exit) ==
    /\ i \in Nodes
    /\ status[i] = "InProgress"
    /\ Move(i, NodeStatus(exit))
    /\ decrease_parent_count(child_transaction[i], NodeStatus(exit))
    /\ UNCHANGED graphVars

destroy(value) ==
    /\ len # 0
    /\ can_be_destroyed(value)
    /\ len' = 0
    /\ status' = NoNode("NotStarted")
    /\ child_transaction' = NoNode(NO_CHILD_TRANSACTION)
    /\ success_execute_limit' = NoNode(0)
    /\ parent_count' = NoNode(0)
    /\ declared_limit' = NoNode(0)
    /\ last_slot' = 0
    /\ balance' = 0
-----------------------------------------------------------------------------
Init ==
    /\ len = 0
    /\ status = NoNode("NotStarted")
    /\ child_transaction = NoNode(NO_CHILD_TRANSACTION)
    /\ success_execute_limit = NoNode(0)
    /\ parent_count = NoNode(0)
    /\ declared_limit = NoNode(0)
    /\ last_slot = 0
    /\ balance = 0
    /\ slot = 0

Create ==
    /\ len = 0
    /\ \E n \in 1 .. MaxNodes :
          \E children \in [0 .. n - 1 -> Index \cup {NO_CHILD_TRANSACTION}] :
             \E limits \in [0 .. n - 1 -> 0 .. MaxNodes - 1] :
                create(n, children, limits)
    /\ balance' = 0
    /\ UNCHANGED slot

Start(i) == start_transaction(i) /\ UNCHANGED <<balance, slot>>

Skip(i) == skip_transaction(i) /\ UNCHANGED <<balance, slot>>

End(i) == \E exit \in ExitStatus : end_transaction(i, exit) /\ UNCHANGED <<balance, slot>>

mint(value) ==
    /\ len # 0
    /\ balance + value <= MaxBalance
    /\ balance' = balance + value
    /\ UNCHANGED <<treeVars, slot>>

burn(value) ==
    /\ len # 0
    /\ balance >= value
    /\ balance' = balance - value
    /\ UNCHANGED <<treeVars, slot>>

Destroy == destroy(balance) /\ UNCHANGED slot

(* Slots pass on the chain whatever the program does. *)
Tick == slot < MaxSlot /\ slot' = slot + 1 /\ UNCHANGED <<treeVars, balance>>

Next ==
    \/ Create
    \/ \E i \in Index : Start(i) \/ Skip(i) \/ End(i)
    \/ \E value \in 1 .. MaxBalance : mint(value) \/ burn(value)
    \/ Destroy
    \/ Tick

Spec == Init /\ [][Next]_vars

(* Operators are paid for every instruction on a tree, so they work it off: *)
(* a transaction that can be started or skipped, or that has run, does not  *)
(* wait for ever.                                                           *)
Fairness == \A i \in Index : WF_vars(Start(i) \/ Skip(i)) /\ WF_vars(End(i))

-----------------------------------------------------------------------------
(* The fields of the account keep the types of Header and Node. *)
TypeOK ==
    /\ len \in 0 .. MaxNodes
    /\ status \in [Index -> Status]
    /\ child_transaction \in [Index -> Index \cup {NO_CHILD_TRANSACTION}]
    /\ success_execute_limit \in [Index -> U16]
    /\ parent_count \in [Index -> U16]
    /\ declared_limit \in [Index -> U16]
    /\ last_slot \in Nat
    /\ balance \in Nat
    /\ slot \in Nat

(* The stored parent_count of a node is, after any sequence of starts,     *)
(* skips and ends, the number of its parents that are still to finish.     *)
ParentCountExact ==
    \A n \in Nodes : parent_count[n] = Cardinality(PendingParents(n))

(* The stored success_execute_limit of a node is what is left of the limit *)
(* it was created with after its successful parents (decrease_parent_count *)
(* saturates at zero).                                                     *)
SuccessLimitExact ==
    \A n \in Nodes : success_execute_limit[n] =
        SaturatingSub(declared_limit[n], Cardinality(SuccessfulParents(n)))

(* transaction_tree.rs:652: "Parent count is calculated by us when tree is *)
(* created. If code is correct, this should never panic".  Whatever node   *)
(* is about to be skipped or ended, its child still counts it.             *)
DecreaseNeverPanics ==
    \A p \in Nodes :
        status[p] \in Pending /\ child_transaction[p] # NO_CHILD_TRANSACTION
            => parent_count[child_transaction[p]] > 0

(* The two counters that decide when a node may move are exact, and the    *)
(* count is there to be decreased whenever a parent finishes.              *)
CountersExact == ParentCountExact /\ SuccessLimitExact /\ DecreaseNeverPanics

(* A transaction runs only after all its parents have finished and as many *)
(* of them have succeeded as it was declared to need; it is skipped only   *)
(* when they have all finished and too few have succeeded.                 *)
ExecutionOrder ==
    \A n \in Nodes :
        status[n] # "NotStarted" =>
            /\ PendingParents(n) = {}
            /\ status[n] = "Skipped" <=>
                  Cardinality(SuccessfulParents(n)) < declared_limit[n]

(* While a tree has unfinished transactions one of them can be started,    *)
(* skipped or ended: the conditions of start_transaction, skip_transaction *)
(* and end_transaction leave no gap in which every node waits.             *)
NeverStuck ==
    is_complete \/ \E n \in Nodes :
        \/ status[n] = "InProgress"
        \/ status[n] = "NotStarted" /\ parent_count[n] = 0

(* A finished transaction keeps its result for as long as the tree exists, *)
(* and an unfinished one never goes back to NotStarted.                    *)
ResultsAreFinal ==
    [][len # 0 /\ len' # 0 =>
          \A n \in Nodes :
             /\ status[n] \notin Pending => status'[n] = status[n]
             /\ status[n] = "InProgress" => status'[n] # "NotStarted"]_vars

(* If operators keep serving it, every tree completes or is destroyed.     *)
EventuallyComplete == (len # 0) ~> (len = 0 \/ is_complete)
=============================================================================
