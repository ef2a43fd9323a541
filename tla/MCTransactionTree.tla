-------------------------- MODULE MCTransactionTree --------------------------
(* TransactionTree with a history variable for the checker. *)
EXTENDS TransactionTree

VARIABLE moved_at   \* history: the slot in which a node last changed

MCvars == <<vars, moved_at>>

MCInit == Init /\ moved_at = 0

MCNext ==
    /\ Next
    /\ moved_at' = IF <<len, nodeVars>>' = <<len, nodeVars>> THEN moved_at ELSE slot

MCSpec == MCInit /\ [][MCNext]_MCvars /\ Fairness

(* A finished transaction keeps its result for as long as the tree exists,  *)
(* a tree disappears only without tokens in it and, unless all its          *)
(* transactions have finished, only after the timeout has passed without    *)
(* any of its nodes moving: every operation on a node renews last_slot,     *)
(* which can_be_destroyed compares with the clock.                          *)
ResultsAreSettled ==
    /\ ResultsAreFinal
    /\ [][len # 0 /\ len' = 0 =>
             /\ balance = 0
             /\ is_complete \/ slot - moved_at > TREE_ACCOUNT_TIMEOUT]_MCvars
=============================================================================
