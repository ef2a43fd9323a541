----------------------------- MODULE MCEvmCalls -----------------------------
(* Small instances of EvmCalls. *)
EXTENDS EvmCallsNested, TLC

CONSTANTS a1, a2

(* The two accounts are interchangeable: a contract next to an address     *)
(* without one, next to an empty contract, and no contract at all.         *)
MixedCode == {a1 :> 1 @@ a2 :> Absent, a1 :> 1 @@ a2 :> 0, a1 :> Absent @@ a2 :> Absent}

(* One contract, which may create the other. *)
OneContract == {a1 :> 1 @@ a2 :> Absent}
=============================================================================
