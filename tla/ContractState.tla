---------------------------- MODULE ContractState ----------------------------
(***************************************************************************)
(* What contract accounts promise: code that is set once, and storage      *)
(* entries that keep what was written last.                                *)
(***************************************************************************)
EXTENDS Integers, Sequences

CONSTANTS Contracts, Index, Words, Codes

VARIABLES
    deployed,       \* the code at each address, empty if there is none
    stored,    \* the storage entries of each address
    last        \* the last change

vars == <<deployed, stored, last>>

Init ==
    /\ deployed \in [Contracts -> Codes \cup {<<>>}]
    /\ stored \in [Contracts -> [Index -> Words]]

Deploy(a, bytes) ==
    /\ deployed[a] = <<>>
    /\ deployed' = [deployed EXCEPT ![a] = bytes]
    /\ UNCHANGED stored

Write(a, changes) ==
    /\ stored' = [stored EXCEPT ![a] =
                      [i \in Index |-> IF i \in DOMAIN changes THEN changes[i] ELSE @[i]]]
    /\ UNCHANGED deployed

(* A step is the change that it leaves in last. *)
Next ==
    \/ last'.kind = "deploy" /\ Deploy(last'.contract, last'.what)
    \/ last'.kind = "write" /\ Write(last'.contract, last'.what)

Spec == Init /\ [][Next]_vars
=============================================================================
