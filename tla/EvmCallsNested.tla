--------------------------- MODULE EvmCallsNested ---------------------------
(* The call stack with its log implements NestedState: the world saved at  *)
(* a call is what is read through the log up to its snapshot.              *)
EXTENDS EvmCalls

Nested ==
    INSTANCE NestedState WITH
        over <- ~Running,
        now <- Seen(machine.actions),
        saved <- IF machine.stack = <<>> THEN <<Seen(<<>>)>>
                 ELSE [i \in DOMAIN machine.stack |->
                          Seen(SubSeq(machine.actions, 1, machine.stack[i]))]

(* A call that fails (revert_snapshot) puts back exactly what its caller   *)
(* saw, balances, nonces, code and transient storage included, one that    *)
(* succeeds (commit_snapshot) keeps all of it, and every other step is one *)
(* legal change.                                                           *)
NestedSpec == Nested!Spec
=============================================================================
