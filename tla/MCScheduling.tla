---------------------------- MODULE MCScheduling ----------------------------
(***************************************************************************)
(* Two instances of IterativeExecution in one.  In the plot "payments" one *)
(* account is used, and trees of up to MaxNodes transactions are created   *)
(* and destroyed; in "two at once" two transactions, a classic one and the *)
(* only one of a tree, run in two accounts.                                *)
(***************************************************************************)
EXTENDS IterativeExecution

CONSTANTS a2

VARIABLE plot

MCInit ==
    /\ plot \in {"payments", "two at once"}
    /\ IterInit
    /\ plot = "payments" => tag[a2] = "Empty"
    /\ plot = "two at once" => len <= 1 /\ \A a \in Accounts : gas_used[a] <= SIGNATURE_COST

Modest ==
    /\ plot = "payments" => tag'[a2] = "Empty"
    /\ plot = "two at once" =>
           pool' <= pool /\ slot' = 0 /\ \A a \in Accounts : exit_status'[a] # "Revert"

(* The steps of one account within the bounds of the plot. *)
MCContinue(a) == Continue(a) /\ Modest /\ UNCHANGED plot
MCCancel(a) == CancelTransaction(a) /\ Modest /\ UNCHANGED plot
MCFinish(a) == Finish(a) /\ Modest /\ UNCHANGED plot

MCNext ==
    \/ \E a \in Accounts : MCContinue(a) \/ MCCancel(a) \/ MCFinish(a)
    \/ /\ \/ \E a \in Accounts :
                 \/ SkipScheduled(a) \/ HolderCreate(a) \/ HolderDelete(a)
                 \/ \E t \in Index \cup {NoTrx} : HolderWrite(a, t)
          \/ Schedule \/ DestroyTree \/ SlotPasses
       /\ Modest /\ UNCHANGED plot

MCVars == <<iterVars, plot>>

(* The fairness of IterFairSpec. *)
MCFairSpec ==
    /\ MCInit /\ [][MCNext]_MCVars
    /\ \A a \in Accounts :
           WF_MCVars(MCContinue(a) \/ MCCancel(a)) /\ WF_MCVars(MCFinish(a))
=============================================================================
