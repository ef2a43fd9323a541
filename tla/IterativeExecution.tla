------------------------- MODULE IterativeExecution -------------------------
(***************************************************************************)
(* Transactions executed over several Solana instructions, and the tokens  *)
(* that pay for them.  Operators interleave freely: any of them may        *)
(* continue, cancel or finish the transaction in any state account.        *)
(*                                                                         *)
(* An account is a holder, or the state of a transaction: a classic one,   *)
(* paid by its origin, or one of the transactions of the tree              *)
(* (TransactionTree), paid by the tree.  The program is in service mode:   *)
(* do_begin and do_scheduled_start panic, so no instruction makes a holder *)
(* into a state account.  The initial states hold the transactions that    *)
(* were begun before the program went into service mode.                   *)
(***************************************************************************)
EXTENDS TransactionTree, FiniteSetsExt

CONSTANTS
    Accounts,               \* addresses of holder and state accounts
    Classic,                \* transactions that are not scheduled
    NoTrx,
    GAS_LIMIT,              \* gas limit of every transaction
    GAS_PRICE,              \* Transaction::gas_price (max_priority_fee_per_gas)
    BASE_FEE,               \* Transaction::base_fee_per_gas
    SIGNATURE_COST,         \* LAMPORTS_PER_SIGNATURE
    TREASURY_PAYMENT,       \* PAYMENT_TO_TREASURE
    MaxRent,                \* bound on the rent an operator pays in one iteration
    Fees,                   \* the priority fees calc_priority_fee may return
    EvmExit,                \* the exit statuses the EVM may end with
    FINISH_GAS,             \* TREE_ACCOUNT_FINISH_TRANSACTION_GAS
    TOKENS_PER_LAMPORT,     \* 10^9
    MaxPool                 \* bound on the tokens in the pool

ASSUME GasAssumption ==
    /\ {GAS_LIMIT, GAS_PRICE, SIGNATURE_COST, TOKENS_PER_LAMPORT} \subseteq Nat \ {0}
    /\ {BASE_FEE, TREASURY_PAYMENT, MaxRent, FINISH_GAS, MaxPool} \subseteq Nat
    /\ Fees \subseteq 0 .. BASE_FEE * (SIGNATURE_COST + TREASURY_PAYMENT)
    /\ "Return" \in EvmExit /\ EvmExit \subseteq ExitStatus \ {"Cancel"}
    \* MIN_GAS_LIMIT of a scheduled transaction covers more than a cancellation
    /\ GAS_LIMIT >= 2 * SIGNATURE_COST + TREASURY_PAYMENT

ASSUME TrxAssumption ==
    NoTrx \notin Classic \cup Index /\ Classic \cap Index = {} /\ IsFiniteSet(Accounts)

VARIABLES
    tag,                    \* the tag of each account
    trx,                    \* the transaction in it (NoTrx: none, or only a part)
    gas_used,               \* Data.gas_used
    priority_fee_used,      \* Data.priority_fee_used
    exit_status,            \* ExecutorStateData.exit_status
    applied,                \* history: how often the transaction's changes were applied
    user_balance,           \* the balance account of the origin, who is also the payer
    operator_balance,       \* the operators' balance accounts
    pool                    \* the tokens deposited for everything in circulation

accountVars == <<tag, trx, gas_used, priority_fee_used, exit_status>>
tokenVars == <<user_balance, operator_balance, pool>>
iterVars == <<vars, accountVars, applied, tokenVars>>

Trx == Index \cup Classic
Live == {"State", "ScheduledFinalized", "ScheduledCancelled"}
NotExited == "None"

is_scheduled_tx(a) == trx[a] \in Index

PriorityLimit == BASE_FEE * GAS_LIMIT
NodeReserve == GAS_LIMIT * (GAS_PRICE + BASE_FEE)

gas_available(a) == GAS_LIMIT - gas_used[a]
priority_fee_in_tokens_available(a) == PriorityLimit - priority_fee_used[a]

(* Tokens taken from the origin or the tree when the transaction began and *)
(* not yet given to an operator or returned.                               *)
Escrow(a) ==
    IF tag[a] \in Live
    THEN gas_available(a) * GAS_PRICE + priority_fee_in_tokens_available(a)
    ELSE 0

Outstanding ==
    user_balance + operator_balance + balance + MapThenSumSet(Escrow, Accounts)
-----------------------------------------------------------------------------
(* finalize_priority_fee: the fee of the last iteration, with what is      *)
(* missing to make the total a multiple of the gas used.                   *)
finalize_priority_fee(fee, total_gas, fee_used) ==
    LET rest == SaturatingSub(BASE_FEE * total_gas, fee_used + fee)
    IN  IF fee_used + fee = 0 THEN fee ELSE fee + (rest % total_gas)

consume_gas_forgotten(a, gas, fee, same_chain) ==
    [gas_used |-> gas_used[a], fee_used |-> priority_fee_used[a],
     paid |-> 0, ok |-> gas_used[a] + gas <= GAS_LIMIT]

(* StateAccount::consume_gas, which may return an error after it has       *)
(* recorded the gas or the fee: what it leaves in gas_used and             *)
(* priority_fee_used, what it mints to the operator, and whether it        *)
(* succeeds.                                                               *)
consume_gas(a, gas, fee, same_chain) ==
    LET tokens == gas * GAS_PRICE + fee
        gas_ok == gas = 0 \/ gas_used[a] + gas <= GAS_LIMIT
        fee_ok == gas_ok /\ priority_fee_used[a] + fee <= PriorityLimit
        ok == fee_ok /\ (tokens = 0 \/ same_chain)
    IN  [gas_used |-> IF gas_ok THEN gas_used[a] + gas ELSE gas_used[a],
         fee_used |-> IF fee_ok THEN priority_fee_used[a] + fee ELSE priority_fee_used[a],
         paid |-> IF ok THEN tokens ELSE 0,
         ok |-> ok]

materialize_unused_gas_only(c) == (GAS_LIMIT - c.gas_used) * GAS_PRICE

(* materialize_unused_gas, after the charge c. *)
materialize_unused_gas(c) ==
    (GAS_LIMIT - c.gas_used) * GAS_PRICE + PriorityLimit - c.fee_used

SetTag(a, new_tag) == tag' = [tag EXCEPT ![a] = new_tag]

(* The charge is kept in the state account; the operator is paid. *)
Charge(a, c) ==
    /\ gas_used' = [gas_used EXCEPT ![a] = c.gas_used]
    /\ priority_fee_used' = [priority_fee_used EXCEPT ![a] = c.fee_used]
    /\ operator_balance' = operator_balance + c.paid

(* StateFinalizedAccount::convert_from_state keeps the owner and the hash. *)
convert_from_state(a) ==
    /\ SetTag(a, "StateFinalized")
    /\ gas_used' = [gas_used EXCEPT ![a] = 0]
    /\ priority_fee_used' = [priority_fee_used EXCEPT ![a] = 0]
    /\ exit_status' = [exit_status EXCEPT ![a] = NotExited]

CloseState_again(a, c, exit, scheduled_tag) ==
    /\ tag[a] \in Live
    /\ IF is_scheduled_tx(a)
       THEN /\ SetTag(a, scheduled_tag)
            /\ exit_status' = [exit_status EXCEPT ![a] = exit]
            /\ Charge(a, c)
            /\ UNCHANGED user_balance
       ELSE /\ convert_from_state(a)
            /\ user_balance' = user_balance + materialize_unused_gas(c)
            /\ operator_balance' = operator_balance + c.paid

CloseState_keeps_exit(a, c, exit, scheduled_tag) ==
    /\ tag[a] = "State"
    /\ IF is_scheduled_tx(a)
       THEN /\ SetTag(a, scheduled_tag)
            /\ UNCHANGED exit_status
            /\ Charge(a, c)
            /\ UNCHANGED user_balance
       ELSE /\ convert_from_state(a)
            /\ user_balance' = user_balance + materialize_unused_gas(c)
            /\ operator_balance' = operator_balance + c.paid

(* finalize_impl, with the refund that its callers make before it: a       *)
(* scheduled transaction keeps its data and its escrow for the finish      *)
(* instruction, a classic one returns what is left to the origin.          *)
CloseState(a, c, exit, scheduled_tag) ==
    /\ tag[a] = "State"
    /\ IF is_scheduled_tx(a)
       THEN /\ SetTag(a, scheduled_tag)
            /\ exit_status' = [exit_status EXCEPT ![a] = exit]
            /\ Charge(a, c)
            /\ UNCHANGED user_balance
       ELSE /\ convert_from_state(a)
            /\ user_balance' = user_balance + materialize_unused_gas(c)
            /\ operator_balance' = operator_balance + c.paid
-----------------------------------------------------------------------------
(* do_continue, when the iteration executes EVM steps.  It starts again    *)
(* from the beginning when the accounts it has read have changed (reset).  *)
(* Its results are withheld, and the exit status with them, for a later    *)
(* iteration without steps.                                                *)
RunSteps(a, reset, exit, fee) ==
    LET c == consume_gas(a, SIGNATURE_COST + TREASURY_PAYMENT, fee, TRUE)
    IN  /\ tag[a] = "State"
        /\ reset \/ exit_status[a] = NotExited
        /\ c.ok
        /\ Charge(a, c)
        /\ exit_status' = [exit_status EXCEPT ![a] = exit]
        /\ UNCHANGED <<vars, tag, trx, applied, user_balance, pool>>

(* The result an iteration without steps has at hand: that of an earlier   *)
(* iteration, or the Return of a call to a precompiled contract.           *)
HasResult(a, reset, exit) ==
    /\ tag[a] = "State"
    /\ IF reset \/ exit_status[a] = NotExited
       THEN exit = "Return"
       ELSE exit = exit_status[a]

(* An iteration without steps in which ContractAccount::allocate asks for  *)
(* another one: the withheld result, which deploys a contract, stays.      *)
AllocateMore(a, rent, fee) ==
    LET c == consume_gas(a, SIGNATURE_COST + rent, fee, TRUE)
    IN  /\ tag[a] = "State"
        /\ exit_status[a] # NotExited
        /\ c.ok
        /\ Charge(a, c)
        /\ UNCHANGED <<vars, tag, trx, exit_status, applied, user_balance, pool>>

(* The last iteration: the changes are applied and the state is closed. *)
Finalize(a, reset, exit, rent, fee) ==
    LET gas == SIGNATURE_COST + rent
        last_fee == finalize_priority_fee(fee, gas_used[a] + gas, priority_fee_used[a])
        c == consume_gas(a, gas, last_fee, TRUE)
    IN  /\ HasResult(a, reset, exit)
        /\ c.ok
        /\ applied' = [applied EXCEPT ![trx[a]] = @ + 1]
        /\ CloseState(a, c, exit, "ScheduledFinalized")
        /\ UNCHANGED <<vars, trx, pool>>

(* transaction_cancel: the error of consume_gas is ignored, and only the   *)
(* owner of the operator balance is validated, not its chain.              *)
Cancel(a, same_chain, fee) ==
    LET gas == IF gas_available(a) < 2 * SIGNATURE_COST
               THEN gas_available(a) ELSE 2 * SIGNATURE_COST
        last_fee == finalize_priority_fee(fee, gas_used[a] + gas, priority_fee_used[a])
        c == consume_gas(a, gas, last_fee, same_chain)
    IN  /\ CloseState(a, c, "Cancel", "ScheduledCancelled")
        /\ UNCHANGED <<vars, trx, applied, pool>>

(* scheduled_transaction_finish *)
Finish(a) ==
    /\ tag[a] \in {"ScheduledFinalized", "ScheduledCancelled"}
    /\ is_scheduled_tx(a)
    /\ exit_status[a] # NotExited
    /\ end_transaction(trx[a], exit_status[a])
    /\ balance' = balance + Escrow(a)
    /\ operator_balance' = operator_balance + FINISH_GAS
    /\ convert_from_state(a)
    /\ UNCHANGED <<slot, trx, applied, user_balance, pool>>

(* scheduled_transaction_skip_from_instruction and _from_account: the      *)
(* tree pays the operator.  init_heap(0) overwrites what the holder held.  *)
SkipNode(a, i, from_account, fee) ==
    LET gas == IF from_account THEN 2 * SIGNATURE_COST ELSE SIGNATURE_COST
        cost == gas * GAS_PRICE + fee
    IN  /\ IF from_account
           THEN tag[a] = "Holder" /\ trx[a] = i
           ELSE tag[a] \in {"Holder", "StateFinalized"}
        /\ skip_transaction(i)
        /\ gas <= GAS_LIMIT
        /\ balance >= cost
        /\ balance' = balance - cost
        /\ operator_balance' = operator_balance + cost
        /\ SetTag(a, "Holder")
        /\ trx' = [trx EXCEPT ![a] = NoTrx]
        /\ UNCHANGED <<slot, gas_used, priority_fee_used, exit_status, applied, user_balance, pool>>

LamportsFor_floor(tokens) == tokens \div TOKENS_PER_LAMPORT

(* The lamports that cover an amount of tokens (payment_from_signer). *)
LamportsFor(tokens) ==
    (tokens \div TOKENS_PER_LAMPORT) + (IF tokens % TOKENS_PER_LAMPORT # 0 THEN 1 ELSE 0)

(* scheduled_transaction_create and _create_multiple: the tree is paid     *)
(* from the payer's balance as far as that goes, then in lamports.         *)
CreateTree(n, children, limits, value) ==
    LET required == n * NodeReserve + value
        from_balance == IF user_balance < required THEN user_balance ELSE required
        from_signer == LamportsFor(required - from_balance) * TOKENS_PER_LAMPORT
    IN  /\ len = 0
        /\ create(n, children, limits)
        /\ pool + from_signer <= MaxPool
        /\ balance' = from_balance + from_signer
        /\ user_balance' = user_balance - from_balance
        /\ pool' = pool + from_signer
        /\ applied' = [t \in Trx |-> IF t \in Index THEN 0 ELSE applied[t]]
        /\ UNCHANGED <<slot, accountVars, operator_balance>>

(* scheduled_transaction_destroy: withdraw, then destroy. *)
DestroyTree ==
    /\ destroy(0)
    /\ user_balance' = user_balance + balance
    /\ UNCHANGED <<slot, accountVars, applied, operator_balance, pool>>

(* account_holder_create, _write and _delete, by the holder's owner.  Of    *)
(* what a write leaves in the holder only a complete scheduled transaction  *)
(* matters to an instruction: nothing else in it can begin.                 *)
HolderCreate(a) ==
    /\ tag[a] = "Empty"
    /\ SetTag(a, "Holder")
    /\ UNCHANGED <<vars, trx, gas_used, priority_fee_used, exit_status, applied, tokenVars>>

HolderWrite(a, t) ==
    /\ tag[a] \in {"Holder", "StateFinalized"}
    /\ SetTag(a, "Holder")
    /\ trx' = [trx EXCEPT ![a] = t]
    /\ UNCHANGED <<vars, gas_used, priority_fee_used, exit_status, applied, tokenVars>>

HolderDelete_any(a) ==
    /\ tag[a] # "Empty"
    /\ SetTag(a, "Empty")
    /\ trx' = [trx EXCEPT ![a] = NoTrx]
    /\ UNCHANGED <<vars, gas_used, priority_fee_used, exit_status, applied, tokenVars>>

HolderDelete(a) ==
    /\ tag[a] \in {"Holder", "StateFinalized"}
    /\ SetTag(a, "Empty")
    /\ trx' = [trx EXCEPT ![a] = NoTrx]
    /\ UNCHANGED <<vars, gas_used, priority_fee_used, exit_status, applied, tokenVars>>

SlotPasses == Tick /\ UNCHANGED <<accountVars, applied, tokenVars>>
-----------------------------------------------------------------------------
(* What do_begin and do_scheduled_start left behind: the whole cost of each *)
(* transaction is taken from the origin or the tree, its first iteration    *)
(* is charged, and the node of a scheduled one, whose parents all are done, *)
(* is in progress.                                                          *)
BegunAs(a) ==
    /\ trx[a] \in Nodes \cup Classic
    /\ \A b \in Accounts \ {a} : trx[b] # trx[a]
    /\ trx[a] \in Nodes => parent_count[trx[a]] = 0 /\ success_execute_limit[trx[a]] = 0
    /\ gas_used[a] \in {SIGNATURE_COST, 2 * SIGNATURE_COST}
    /\ priority_fee_used[a] \in Fees

IterInit ==
    /\ len \in 0 .. MaxNodes
    /\ \E children \in [0 .. len - 1 -> Index \cup {NO_CHILD_TRANSACTION}] :
          \E limits \in [0 .. len - 1 -> 0 .. MaxNodes - 1] :
             /\ ValidNodes(len, children, limits)
             /\ child_transaction = Padded(len, children, NO_CHILD_TRANSACTION)
             /\ success_execute_limit = Padded(len, limits, 0)
             /\ declared_limit = Padded(len, limits, 0)
    /\ parent_count = [i \in Index |-> Cardinality(Parents(i))]
    /\ last_slot = 0 /\ slot = 0
    /\ tag \in [Accounts -> {"Empty", "Holder", "State"}]
    /\ trx \in [Accounts -> Trx \cup {NoTrx}]
    /\ gas_used \in [Accounts -> {0, SIGNATURE_COST, 2 * SIGNATURE_COST}]
    /\ priority_fee_used \in [Accounts -> Fees \cup {0}]
    /\ \A a \in Accounts :
          IF tag[a] = "State"
          THEN BegunAs(a)
          ELSE trx[a] = NoTrx /\ gas_used[a] = 0 /\ priority_fee_used[a] = 0
    /\ status = [i \in Index |->
          IF \E a \in Accounts : trx[a] = i THEN "InProgress" ELSE "NotStarted"]
    /\ exit_status = [a \in Accounts |-> NotExited]
    /\ applied = [t \in Trx |-> 0]
    /\ balance = NodeReserve * Cardinality({i \in Nodes : status[i] = "NotStarted"})
    /\ user_balance = 0 /\ operator_balance = 0
    /\ pool = Outstanding

Continue(a) ==
    \E fee \in Fees, reset \in BOOLEAN :
       \/ \E exit \in EvmExit \cup {NotExited} : RunSteps(a, reset, exit, fee)
       \/ \E rent \in 0 .. MaxRent : AllocateMore(a, rent, fee)
       \/ \E exit \in EvmExit, rent \in 0 .. MaxRent : Finalize(a, reset, exit, rent, fee)

CancelTransaction(a) == \E fee \in Fees, same_chain \in BOOLEAN : Cancel(a, same_chain, fee)

SkipScheduled(a) == \E i \in Index, from_account \in BOOLEAN, fee \in Fees :
    SkipNode(a, i, from_account, fee)

Schedule ==
    /\ len = 0
    /\ \E n \in 1 .. MaxNodes, value \in 0 .. 1 :
          \E children \in [0 .. n - 1 -> Index \cup {NO_CHILD_TRANSACTION}] :
             \E limits \in [0 .. n - 1 -> 0 .. MaxNodes - 1] :
                CreateTree(n, children, limits, value)

IterNext ==
    \/ \E a \in Accounts :
          \/ Continue(a)
          \/ CancelTransaction(a)
          \/ Finish(a)
          \/ SkipScheduled(a)
          \/ HolderCreate(a)
          \/ \E t \in Index \cup {NoTrx} : HolderWrite(a, t)
          \/ HolderDelete(a)
    \/ Schedule
    \/ DestroyTree
    \/ SlotPasses

IterSpec == IterInit /\ [][IterNext]_iterVars

(* Operators are paid for each iteration, and take up any transaction that *)
(* is left: whatever it is that they then do with it, continue or cancel,  *)
(* and however often it starts again.                                      *)
IterFairness ==
    \A a \in Accounts :
        WF_iterVars(Continue(a) \/ CancelTransaction(a)) /\ WF_iterVars(Finish(a))

IterFairSpec == IterSpec /\ IterFairness
-----------------------------------------------------------------------------

(* A node of the tree is in progress exactly while one state account runs  *)
(* its transaction, from its start to its finish instruction, through any  *)
(* interleaving of continue, cancel, finish, skip and destroy.             *)
InProgressHeldOnce ==
    \A i \in Index :
        Cardinality({a \in Accounts : tag[a] \in Live /\ trx[a] = i}) =
            IF i \in Nodes /\ status[i] = "InProgress" THEN 1 ELSE 0

(* The changes of a transaction are applied at most once, and exactly when *)
(* it is not cancelled: not while it runs, not by an iteration that has to *)
(* allocate more, not after a cancel; a node that succeeded has had them   *)
(* applied.                                                                *)
AppliedOnceUnlessCancelled ==
    /\ \A t \in Trx : applied[t] <= 1
    /\ \A a \in Accounts :
          /\ tag[a] \in {"State", "ScheduledCancelled"} => applied[trx[a]] = 0
          /\ tag[a] = "ScheduledFinalized" => applied[trx[a]] = 1
    /\ \A i \in Nodes : status[i] = "Success" => applied[i] = 1

(* A cancelled or finalized scheduled transaction can always be finished:  *)
(* its tree still exists, whatever else was done to it, the node is in     *)
(* progress and its child still waits for it; and the exit status that is  *)
(* recorded in the tree tells a cancelled transaction from a finalized one. *)
(* What it was charged is within what was taken for it at its start, so     *)
(* the refund of the rest does not underflow.                               *)
FinishAccepted ==
    \A a \in Accounts :
        tag[a] \in {"ScheduledFinalized", "ScheduledCancelled"} =>
            /\ trx[a] \in Nodes
            /\ status[trx[a]] = "InProgress"
            /\ child_transaction[trx[a]] # NO_CHILD_TRANSACTION
                  => parent_count[child_transaction[trx[a]]] > 0
            /\ exit_status[a] # NotExited
            /\ exit_status[a] = "Cancel" <=> tag[a] = "ScheduledCancelled"
            /\ gas_used[a] <= GAS_LIMIT /\ priority_fee_used[a] <= PriorityLimit

(* The tree always holds enough to start or skip every transaction that    *)
(* has not been started, whatever skipping the others has cost.            *)
TreeCoversPending ==
    balance >= NodeReserve * Cardinality({i \in Nodes : status[i] = "NotStarted"})

(* What a step adds to the tokens in circulation beyond those of the pool. *)
Drift == (Outstanding' - pool') - (Outstanding - pool)
Left(from) == \E a \in Accounts : tag[a] \in from /\ tag'[a] # tag[a]

(* Tokens are only created for the fixed payment of the finish instruction *)
(* and only lost in a cancellation, no more than its charge; every other   *)
(* step moves them between the origin, the tree, the operators and the     *)
(* escrow of the running transactions, or against tokens of the pool.      *)
TokenFlow ==
    [][\/ Drift = 0
       \/ Drift = FINISH_GAS /\ Left({"ScheduledFinalized", "ScheduledCancelled"})
       \/ /\ Drift < 0
          /\ Drift >= -(2 * SIGNATURE_COST * GAS_PRICE + PriorityLimit)
          /\ Left({"State"}) /\ applied' = applied]_iterVars

(* scheduled_transaction_finish.rs:42 and gasometer.rs:83: the gas of the  *)
(* finish instruction "was already reserved at the start".  What the       *)
(* operator is paid would then come out of tokens taken before, and the    *)
(* tokens in circulation would never exceed those in the pool.             *)
FinishGasReserved == Outstanding <= pool

(* Every running transaction leaves its state account in the end: each     *)
(* iteration, and each new start after a change of the accounts it has     *)
(* read, costs gas, so it ends or only a cancel is left.                   *)
EveryTransactionEnds ==
    \A a \in Accounts : (tag[a] \in Live) ~> (tag[a] \notin Live)
=============================================================================
