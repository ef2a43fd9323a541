---------------------------- MODULE MCExecution ----------------------------
(***************************************************************************)
(* Three instances in one.  In the plot "storage" two transactions share a *)
(* storage cell and the time, and balances rest; in "balances" one         *)
(* transaction and the instructions around it pay from two balance         *)
(* accounts.  In "life cycle", of IterativeExecution, two state accounts   *)
(* are continued, cancelled, finalized and finished; no tree is scheduled  *)
(* and no slot passes there, MCScheduling has both.                        *)
(***************************************************************************)
EXTENDS OptimisticExecution, IterativeExecution, TLC

CONSTANT t1

VARIABLE plot

(* No action tells the state accounts apart. *)
Symmetry == Permutations(Accounts)

(* In a plot the other component rests at its beginning, which for the     *)
(* life cycle is one without a tree and without accounts.                  *)
LifeRests == len = 0 /\ tag = [a \in Accounts |-> "Empty"] /\ IterInit

MCInit ==
    \/ plot \in {"storage", "balances"} /\ OptimisticInit /\ LifeRests
    \/ plot = "life cycle" /\ OptimisticInit /\ IterInit
-----------------------------------------------------------------------------
(* The steps of a transaction that both plots have. *)
Work(t) ==
    \/ \E k \in Cells : Read(t, k) \/ \E v \in 0 .. MaxValue : Write(t, k, v)
    \/ AskTime(t) \/ Exit(t) \/ Apply(t) \/ CancelIterative(t)

Storage ==
    /\ plot = "storage"
    /\ ClockTicks \/ \E t \in Trxs : Work(t)
    /\ \A t \in Trxs : Len(data'[t].actions) <= 1

Balances ==
    /\ plot = "balances"
    /\ \/ Work(t1)
       \/ \E source, target \in Purses, v \in 1 .. MaxValue :
             \/ Pay(t1, source, target, v)
             \/ source # target /\ Execute(Transfer(source, target, v), FALSE)
             \/ ExecuteSynced(source, target, v)
       \/ \E k \in Purses : Read(t1, k)
    /\ \A k \in Purses : revision'[k] <= 2

SharedNext ==
    /\ plot # "life cycle"
    /\ \/ Storage
       \/ Balances
       \/ \E k \in Cells, v \in 0 .. MaxValue, stamped \in BOOLEAN :
             (plot = "balances" => revision[k] < 2) /\ Execute(SetStorage(k, v), stamped)
    /\ plot = "balances" => \A k \in Cells : revision'[k] <= 2
    /\ UNCHANGED <<plot, iterVars>>

LifeNext ==
    /\ plot = "life cycle"
    /\ \/ \E a \in Accounts :
             \/ Continue(a) \/ CancelTransaction(a) \/ Finish(a) \/ SkipScheduled(a)
             \/ HolderCreate(a) \/ HolderDelete(a)
             \/ \E t \in Index \cup {NoTrx} : HolderWrite(a, t)
       \/ DestroyTree
    /\ UNCHANGED <<plot, optimisticVars>>

MCSpec == MCInit /\ [][SharedNext \/ LifeNext]_<<optimisticVars, iterVars, plot>>
=============================================================================
