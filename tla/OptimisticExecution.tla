------------------------ MODULE OptimisticExecution ------------------------
(***************************************************************************)
(* How iterative transactions run at the same time without locks.          *)
(*                                                                         *)
(* A transaction that runs over several instructions reads the accounts as *)
(* they are at each instruction and keeps its own changes in a log         *)
(* (ExecutorState).  StateAccount remembers the revision of every account  *)
(* it has touched; the next instruction compares, and starts the           *)
(* transaction again when an account it depends on has changed.  The last  *)
(* iteration applies the log.  In between, transactions that fit into one  *)
(* Solana transaction and the other instructions change the same accounts. *)
(*                                                                         *)
(* Of the accounts only what revisions are about is kept: storage cells    *)
(* with a value, balance accounts with an amount, and one contract whose   *)
(* code asks for the time.  An iteration executes one operation.           *)
(***************************************************************************)
EXTENDS Lists

CONSTANTS
    Trxs,               \* the iterative transactions
    Cells,              \* storage cell (and contract storage) accounts
    Purses,             \* balance accounts
    Unknown,            \* no revision recorded, no value read
    MaxValue,           \* bound on values and amounts
    MaxActions,         \* bound on the length of a log
    MaxRevision,        \* bound on the changes of an account
    REVISIONS,          \* the revision is a u32 that wraps: 2^32
    MaxClock            \* bound on the clock

Keys == Cells \cup Purses

ASSUME KeysAssumption == Cells \cap Purses = {} /\ Unknown \notin Nat
ASSUME BoundAssumption ==
    /\ {MaxValue, MaxActions, MaxRevision, REVISIONS, MaxClock} \subseteq Nat
    \* no account changes 2^32 times between two iterations
    /\ 0 < MaxRevision /\ MaxRevision < REVISIONS

VARIABLES
    value,              \* what each account holds
    revision,           \* its revision
    timestamp_used_at,  \* HeaderWithTimestamp.timestamp_used_at of the contract
    clock,              \* the Clock sysvar
    running,            \* the transactions that have a state account
    data,               \* what the state account keeps for each of them
    last_block          \* history: latest block number an applied transaction used

optimisticVars == <<value, revision, timestamp_used_at, clock, running, data, last_block>>

(* A fresh executor state: the block is fixed when it is allocated. *)
(* reads and blind are history: the value that each read found, and  *)
(* the accounts changed since without a new revision.                *)
ExecutorStateData_new(block) ==
    [touched |-> [k \in Keys |-> 0], revisions |-> [k \in Keys |-> Unknown],
     actions |-> <<>>, exited |-> FALSE, block |-> block, stamped |-> FALSE,
     reads |-> [k \in Keys |-> Unknown], blind |-> {}]

SetStorage(k, v) == [kind |-> "EvmSetStorage", key |-> k, value |-> v]
Transfer(source, target, v) ==
    [kind |-> "Transfer", source |-> source, target |-> target, value |-> v]

AtLeastTwo(n) == IF n > 2 THEN 2 ELSE n
-----------------------------------------------------------------------------
validate_revisions_off_by_one(d) ==
    \A k \in Keys : d.touched[k] > 2 => d.revisions[k] = revision[k]

(* validate_revisions: an account that was only touched once, by a         *)
(* transfer, is not compared.                                              *)
validate_revisions(d) == \A k \in Keys : d.touched[k] >= 2 => d.revisions[k] = revision[k]

validate_timestamps_never(d) == TRUE

validate_timestamps(d) == d.stamped => timestamp_used_at <= d.block

NeedRestart(d) == ~(validate_revisions(d) /\ validate_timestamps(d))

(* restore, and reinit_evm after it. *)
restore(d) == IF NeedRestart(d) THEN ExecutorStateData_new(clock) ELSE d

(* update_touched_accounts: counters add up (only whether one is two or    *)
(* more matters), the revision is that of the first touch.                 *)
update_touched_accounts(d, touches) ==
    [d EXCEPT !.touched = [k \in Keys |-> AtLeastTwo(@[k] + touches[k])],
              !.revisions = [k \in Keys |->
                 IF touches[k] > 0 /\ @[k] = Unknown THEN revision[k] ELSE @[k]]]

Touches(k, n) == [j \in Keys |-> IF j = k THEN n ELSE 0]

(* A read of the account itself; the log is consulted on top of it. *)
Reading(d, k, n) ==
    update_touched_accounts([d EXCEPT !.reads[k] = value[k]], Touches(k, n))

(* balance_internal: the balance as the log would leave it. *)
balance_internal(d, p) ==
    FoldLeft(LAMBDA b, a :
                IF a.kind # "Transfer" THEN b
                ELSE IF a.source = p THEN b - a.value
                ELSE IF a.target = p THEN b + a.value ELSE b,
             value[p], d.actions)

Room(d) == Len(d.actions) < MaxActions
-----------------------------------------------------------------------------
(* One iteration of do_continue: restore, then execute an operation unless *)
(* the transaction has already exited.                                     *)
Iterate(t, new_data) ==
    /\ t \in running
    /\ ~restore(data[t]).exited
    /\ data' = [data EXCEPT ![t] = new_data]
    /\ UNCHANGED <<value, revision, timestamp_used_at, clock, running, last_block>>

(* storage, balance: the account is touched for good. *)
Read(t, k) == Iterate(t, Reading(restore(data[t]), k, 2))

(* set_storage only writes the log. *)
Write(t, k, v) ==
    LET d == restore(data[t])
    IN  /\ Room(d)
        /\ Iterate(t, [d EXCEPT !.actions = Append(@, SetStorage(k, v))])

(* transfer touches the source once. *)
Pay(t, source, target, v) ==
    LET d == restore(data[t])
    IN  /\ source # target
        /\ Room(d)
        /\ balance_internal(d, source) >= v
        /\ Iterate(t, [Reading(d, source, 1) EXCEPT
                          !.actions = Append(@, Transfer(source, target, v))])

(* block_number, block_timestamp. *)
AskTime(t) == Iterate(t, [restore(data[t]) EXCEPT !.stamped = TRUE])

Exit(t) == Iterate(t, [restore(data[t]) EXCEPT !.exited = TRUE])

(* What apply_state_change does with a log: storage is written once per    *)
(* account, after everything else, and each transfer counts a revision for *)
(* both its accounts.                                                      *)
Writes(actions, k) ==
    {i \in DOMAIN actions : actions[i].kind = "EvmSetStorage" /\ actions[i].key = k}
Transfers(actions, k) ==
    {i \in DOMAIN actions : actions[i].kind = "Transfer" /\ k \in {actions[i].source, actions[i].target}}

Bumps(actions, k) ==
    Cardinality(Transfers(actions, k)) + (IF Writes(actions, k) # {} THEN 1 ELSE 0)

(* Transfers are made one by one; Unknown when one of them is not covered. *)
TransferAll(actions, amounts) ==
    FoldLeft(LAMBDA m, a :
                IF m = Unknown \/ a.kind # "Transfer" THEN m
                ELSE IF m[a.source] < a.value THEN Unknown
                ELSE [m EXCEPT ![a.source] = @ - a.value, ![a.target] = @ + a.value],
             amounts, actions)

apply_state_change(actions) ==
    LET amounts == TransferAll(actions, value)
    IN  /\ amounts # Unknown
        /\ \A k \in Keys : revision[k] + Bumps(actions, k) <= MaxRevision
        /\ value' = [k \in Keys |->
              IF k \in Purses THEN amounts[k]
              ELSE IF Writes(actions, k) # {} THEN actions[Max(Writes(actions, k))].value
              ELSE value[k]]
        /\ revision' = [k \in Keys |-> (revision[k] + Bumps(actions, k)) % REVISIONS]

(* update_timestamped_contracts *)
Stamp(stamped, block) ==
    IF stamped
    THEN /\ timestamp_used_at' = clock
         /\ last_block' = IF block > last_block THEN block ELSE last_block
    ELSE UNCHANGED <<timestamp_used_at, last_block>>

(* The last iteration, when restore does not start the transaction again. *)
Apply(t) ==
    LET d == restore(data[t])
    IN  /\ t \in running
        /\ d.exited
        /\ apply_state_change(d.actions)
        /\ Stamp(d.stamped, d.block)
        /\ running' = running \ {t}
        /\ data' = [data EXCEPT ![t] = ExecutorStateData_new(0)]
        /\ UNCHANGED clock

CancelIterative(t) ==
    /\ t \in running
    /\ running' = running \ {t}
    /\ data' = [data EXCEPT ![t] = ExecutorStateData_new(0)]
    /\ UNCHANGED <<value, revision, timestamp_used_at, clock, last_block>>

(* transaction_execute::execute: a log applied in one Solana transaction;  *)
(* also a deposit and an operator's withdrawal, as far as revisions go.    *)
Execute(action, stamped) ==
    /\ apply_state_change(<<action>>)
    /\ Stamp(stamped, clock)
    /\ UNCHANGED <<clock, running, data>>

(* Every state account that has read one of the keys. *)
Blinded(keys) ==
    [t \in Trxs |-> [data[t] EXCEPT !.blind =
        @ \cup {k \in keys : data[t].reads[k] # Unknown}]]

(* SyncedAccountStorage::transfer and burn, payment_from_balance and       *)
(* TransactionTree::withdraw change balances and count no revision.        *)
ExecuteSynced(source, target, v) ==
    /\ source # target
    /\ value[source] >= v
    /\ value' = [value EXCEPT ![source] = @ - v, ![target] = @ + v]
    /\ data' = Blinded({source, target})
    /\ UNCHANGED <<revision, timestamp_used_at, clock, running, last_block>>

ClockTicks ==
    /\ clock < MaxClock
    /\ clock' = clock + 1
    /\ UNCHANGED <<value, revision, timestamp_used_at, running, data, last_block>>
-----------------------------------------------------------------------------
(* Transactions begun before the program went into service mode: nothing   *)
(* is executed yet, and no transaction begins later.                       *)
OptimisticInit ==
    /\ value = [k \in Keys |-> IF k \in Cells THEN 0 ELSE 1]
    /\ revision = [k \in Keys |-> 1]
    /\ timestamp_used_at = 0 /\ last_block = 0
    /\ clock = 1
    /\ running = Trxs
    /\ data = [t \in Trxs |-> ExecutorStateData_new(1)]

TransactionStep(t) ==
    \/ \E k \in Keys : Read(t, k)
    \/ \E k \in Cells, v \in 0 .. MaxValue : Write(t, k, v)
    \/ \E source, target \in Purses, v \in 1 .. MaxValue : Pay(t, source, target, v)
    \/ AskTime(t)
    \/ Exit(t)
    \/ Apply(t)
    \/ CancelIterative(t)

OptimisticNext ==
    \/ \E t \in Trxs : TransactionStep(t)
    \/ \E k \in Cells, v \in 0 .. MaxValue, stamped \in BOOLEAN : Execute(SetStorage(k, v), stamped)
    \/ \E source, target \in Purses, v \in 1 .. MaxValue :
          \/ source # target /\ Execute(Transfer(source, target, v), FALSE)
          \/ ExecuteSynced(source, target, v)
    \/ ClockTicks

OptimisticSpec == OptimisticInit /\ [][OptimisticNext]_optimisticVars
-----------------------------------------------------------------------------
(* The storage accounts, all of whose writers count a revision: a          *)
(* transaction that passes validate_revisions has read what is in them.    *)
StorageReadsCurrent ==
    \A t \in running : ~NeedRestart(data[t]) =>
        \A k \in Cells : data[t].touched[k] >= 2 => data[t].reads[k] = value[k]

(* Whenever a state account passes validate_revisions, each account that   *)
(* the transaction has read still holds what it found, unless it was       *)
(* changed by one of the operations that count no revision: what the       *)
(* transaction goes on with, and what it finally applies, is the result of *)
(* running it now from the beginning.  No balance is ever overdrawn by a   *)
(* log that was made with an older one.                                    *)
ReadsCurrent ==
    /\ StorageReadsCurrent
    /\ \A t \in running : ~NeedRestart(data[t]) =>
          \A k \in Purses : data[t].touched[k] >= 2 /\ k \notin data[t].blind
                               => data[t].reads[k] = value[k]
    /\ \A p \in Purses : value[p] >= 0

(* Transactions that ask a contract for the time are applied in the order  *)
(* of the blocks they saw: none passes validate_timestamps with a block    *)
(* before that of one already applied, although they "finalize in an       *)
(* undefined order" (transaction_step.rs:31).                              *)
TimeNeverRunsBack ==
    \A t \in running : ~NeedRestart(data[t]) /\ data[t].stamped
        => data[t].block >= last_block
=============================================================================
