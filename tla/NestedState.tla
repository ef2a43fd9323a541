---------------------------- MODULE NestedState ----------------------------
(***************************************************************************)
(* What the executor promises to the EVM: the world as the running code    *)
(* sees it, and for each open call a copy of the world to go back to if it *)
(* fails, the first being the chain before the transaction.  A call saves  *)
(* the world, success forgets what was saved last, and failure goes back   *)
(* to it.  A world only changes by a legal effect, so tokens are neither   *)
(* made nor lost, and no contract is deployed twice.                       *)
(* Code is only its size, -1 where there is no contract.                   *)
(***************************************************************************)
EXTENDS Integers, SequencesExt

CONSTANTS Addresses, Values

VARIABLES
    saved,      \* never empty: before the transaction, ..., at the last call
    now,        \* what the running code sees
    over        \* the outermost call has ended

Counted(w, a) == [w EXCEPT !.nonce[a] = @ + 1]

Writes(w) ==
    {[w EXCEPT !.storage[a] = v] : a \in Addresses, v \in Values}
        \cup {[w EXCEPT !.transient[a] = v] : a \in Addresses, v \in Values}

(* Every way to move at most what the source has; a payment of nothing     *)
(* or to oneself is no change.                                             *)
PaymentsFrom(w, s) ==
    {w} \cup {[w EXCEPT !.balance[s] = @ - v, !.balance[t] = @ + v] :
                  t \in Addresses \ {s}, v \in 1 .. w.balance[s]}

Payments(w) == UNION {PaymentsFrom(w, s) : s \in Addresses}

Deployments(w) ==
    {[w EXCEPT !.code[a] = c] : a \in {b \in Addresses : w.code[b] = -1}, c \in {0, 1}}

(* Tokens leave an address for an SPL token account. *)
Withdrawals(w) ==
    UNION {{[w EXCEPT !.balance[s] = @ - v, !.paid_out = @ + v] : v \in 1 .. w.balance[s]} :
              s \in Addresses}

(* A creation: the new contract starts with nonce 1 and what it is paid.   *)
Creations(w, a) ==
    UNION {PaymentsFrom(Counted(w, b), a) :
              b \in {c \in Addresses : w.nonce[c] = 0 /\ w.code[c] = -1}}
-----------------------------------------------------------------------------
(* What code does without leaving its frame: it changes storage, or calls  *)
(* a precompiled contract, which is over at once.  A creation that is      *)
(* refused still counts.                                                   *)
Effects(w) ==
    Writes(w) \cup Payments(w) \cup Withdrawals(w) \cup {Counted(w, a) : a \in Addresses}

Change == saved' = saved /\ now' \in Effects(now)

(* A call that goes on in code of its own. *)
Enter == saved' = Append(saved, now) /\ now' \in Payments(now)

(* A creation that goes on in code of its own counts for its creator, even *)
(* if it will fail.                                                        *)
Create ==
    /\ Len(saved') = Len(saved) + 1
    /\ \E a \in Addresses :
           LET counted == Counted(now, a)
           IN saved' = Append(saved, counted) /\ now' \in Creations(counted, a)

(* Success: what the callee saw is what its caller sees, and what the      *)
(* outermost call saw is the result.                                       *)
Results(w) == Payments(w) \cup Deployments(w)

Merge ==
    /\ over' = (Len(saved) = 1)
    /\ saved' = IF over' THEN saved ELSE Front(saved)
    /\ now' \in Results(now)

(* Nothing has happened. *)
Undone == over' = TRUE /\ saved' = <<saved[1]>> /\ now' = saved[1]

(* Failure: the caller sees what it saw when it called.  The failure of a  *)
(* call may be that of its caller too.                                     *)
Drop ==
    \E left \in {Len(saved) - 1, Len(saved) - 2} :
        IF left > 0
        THEN /\ over' = FALSE
             /\ saved' = SubSeq(saved, 1, left)
             /\ now' = saved[left + 1]
        ELSE Undone

World ==
    [storage : [Addresses -> Values], transient : [Addresses -> {0}],
     nonce : [Addresses -> 0 .. 1], balance : [Addresses -> Values],
     code : [Addresses -> {-1, 0, 1}], paid_out : {0}]

Init ==
    /\ over = FALSE
    /\ Len(saved) = 1
    /\ saved[1] \in World
    /\ now \in Payments(saved[1]) \cup UNION {Creations(saved[1], a) : a \in Addresses}

(* A transaction can be cancelled even if it has a result. *)
Next ==
    \/ ~over /\ over' = FALSE /\ (Change \/ Enter \/ Create)
    \/ ~over /\ (Merge \/ Drop)
    \/ Undone

Spec == Init /\ [][Next]_<<saved, now, over>>
=============================================================================
