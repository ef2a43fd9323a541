--------------------------- MODULE MCTokenProgram ---------------------------
(***************************************************************************)
(* Small instances of TokenProgram.  A behaviour follows one of several    *)
(* plots: the accounts it starts with and the kinds of instructions that   *)
(* are sent.                                                               *)
(***************************************************************************)
EXTENDS AssociatedTokenAccount, TLC

CONSTANTS t1, t2, t3, t4, m1, w1, w2

(* t3 is derived from w1 and m1, t4 from t3 and m1: it is nested. *)
WalletOf == t1 :> None @@ t2 :> None @@ t3 :> w1 @@ t4 :> t3
MintOf == t1 :> None @@ t2 :> None @@ t3 :> m1 @@ t4 :> m1

CONSTANT Plots

VARIABLE plot

mcVars == <<vars, plot>>

(* Half of a transfer is a fee. *)
HalfFee(mx) ==
    IF "TransferFeeConfig" \in mx
    THEN [epoch |-> 0, maximum_fee |-> MaxAmount, basis_points |-> 1]
    ELSE NoFee

(* A mint with the extensions mx, and two accounts of it, of w1 and w2,    *)
(* with the extensions ax and room for more.                               *)
Prepared(m, mx, ax, room, start) ==
    LET n == Cardinality(ax) + room
        Open == {t1, t2}
    IN  /\ state = [a \in TokenKeys |-> IF a \in Open THEN "initialized" ELSE "none"]
        /\ mint = [a \in TokenKeys |-> IF a \in Open THEN m ELSE None]
        /\ owner = t1 :> w1 @@ t2 :> w2 @@ t3 :> None @@ t4 :> None
        /\ amount = [a \in TokenKeys |-> IF a \in Open /\ m = NativeMint THEN start ELSE 0]
        /\ delegate = [a \in TokenKeys |-> None]
        /\ delegated_amount = [a \in TokenKeys |-> 0]
        /\ is_native = [a \in TokenKeys |-> IF a \in Open /\ m = NativeMint THEN MinimumBalance(n) ELSE -1]
        /\ close_authority = [a \in TokenKeys |-> None]
        /\ extensions = [a \in TokenKeys |-> IF a \in Open THEN ax ELSE {}]
        /\ withheld_amount = [a \in TokenKeys |-> 0]
        /\ lock_cpi = [a \in TokenKeys |-> FALSE]
        /\ require_memo = [a \in TokenKeys |-> FALSE]
        /\ mint_state = [k \in MintKeys |-> IF k = m THEN "initialized" ELSE "none"]
        /\ supply = [k \in MintKeys |-> 0]
        /\ authority = [k \in MintKeys |->
                            [t \in AuthorityType |->
                                 IF k = m /\ m # NativeMint /\ HeldBy(t) \subseteq mx
                                 THEN w1 ELSE None]]
        /\ mint_extensions = [k \in MintKeys |-> IF k = m THEN mx ELSE {}]
        /\ mint_withheld = [k \in MintKeys |-> 0]
        /\ older_fee = [k \in MintKeys |-> IF k = m THEN HalfFee(mx) ELSE NoFee]
        /\ newer_fee = [k \in MintKeys |-> IF k = m THEN HalfFee(mx) ELSE NoFee]
        /\ default_state = [k \in MintKeys |-> "initialized"]
        /\ hook_program = [k \in MintKeys |-> IF "TransferHook" \in mx THEN w2 ELSE None]
        /\ metadata_address = [k \in MintKeys |-> None]
        /\ multisig = [k \in MultisigKeys |-> NoMultisig]
        /\ slots = [k \in Keys |-> IF k \in Open THEN n ELSE IF k = m THEN Cardinality(mx) ELSE 0]
        /\ lamports = [k \in Keys |-> IF k \in Open THEN MinimumBalance(n) + start
                                      ELSE IF k = m THEN MinimumBalance(Cardinality(mx)) ELSE 0]
        /\ epoch = 0
        /\ in_cpi = FALSE
        /\ approved = [a \in TokenKeys |-> 0]
        /\ spent = [a \in TokenKeys |-> 0]

MCInit ==
    /\ plot \in Plots
    /\ CASE plot = "setup" -> Init
         [] plot = "fees" -> Prepared(m1, {"TransferFeeConfig", "MintCloseAuthority"}, {"TransferFeeAmount"}, 0, 0)
         [] plot = "allowances" -> Prepared(m1, {"PermanentDelegate"}, {}, 0, 0)
         [] plot = "multisigs" -> Prepared(m1, {}, {}, 0, 0)
         [] plot = "guards" -> Prepared(m1, {}, {}, 2, 0)
         [] plot = "freezes" -> Prepared(m1, {"DefaultAccountState"}, {}, 0, 0)
         [] plot = "nested" -> Prepared(m1, {"TransferFeeConfig"}, {"TransferFeeAmount"}, 0, 0)
         [] plot = "natives" -> Prepared(NativeMint, {}, {}, 0, 1)
         [] plot = "hooks" -> Prepared(m1, {"TransferHook", "MetadataPointer"}, {"TransferHookAccount"}, 0, 0)

Sent(plots) == plot \in plots /\ UNCHANGED plot

(* What keeps a plot small: where account t2 is only there to receive, and *)
(* where accounts get the rent they need.                                  *)
Aside(a) ==
    /\ state'[a] = "initialized" /\ owner'[a] = w2 /\ close_authority'[a] = None
    /\ delegate'[a] = None /\ extensions'[a] = extensions[a]

Modest ==
    /\ plot # "nested" => lamports'[t3] = 0 /\ lamports'[t4] = 0
    /\ plot = "nested" => /\ \A a \in {t1, t2} : UNCHANGED <<state[a], owner[a], amount[a]>>
                          /\ UNCHANGED <<authority, close_authority, multisig>>
                          /\ supply'[m1] <= 3
                          /\ \A k \in Keys : lamports'[k] <= MinimumBalance(slots'[k])
    /\ plot \in {"guards", "multisigs", "freezes"} => Aside(t2)
    /\ plot \in {"guards", "multisigs"} => authority' = authority /\ owner'[t1] # Incinerator
    /\ plot = "guards" => close_authority'[t1] \in {None, w2} /\ supply'[m1] <= 2
    /\ plot = "fees" => newer_fee'[m1].maximum_fee # 2
    /\ plot = "natives" => /\ mint_state' = mint_state
                           /\ \A k \in Keys : slots'[k] <= 1
                           /\ lamports'[m1] = lamports[m1] /\ lamports'[NativeMint] = lamports[NativeMint]
                           /\ owner'[t1] \in {None, w1} /\ owner'[t2] \in {None, w2}
                           /\ lamports'[t1] <= 6 /\ lamports'[t2] <= 4
    /\ plot = "setup" => /\ state'[t2] = "none" /\ owner'[t1] \in {None, w1}
                         /\ \A k \in Keys : lamports'[k] \in {0, MinimumBalance(slots'[k])}
                         /\ \A t \in AuthorityType : authority'[m1][t] \in {None, w1}
                         /\ authority'[m1]["TransferFeeConfig"] = authority'[m1]["WithheldWithdraw"]
                         /\ hook_program'[m1] = authority'[m1]["TransferHookProgramId"]
                         /\ metadata_address'[m1] = authority'[m1]["MetadataPointer"]
                         /\ newer_fee'[m1].maximum_fee <= 1
                         /\ multisig' = multisig

MCNext ==
    /\ \/ Sent({"setup", "natives"}) /\ ChainStep
       \/ Sent({"setup", "multisigs"}) /\ MintSetupStep
       \/ Sent({"setup", "freezes", "natives"}) /\ AccountSetupStep
       \/ Sent({"fees", "allowances", "guards", "freezes", "natives", "hooks", "multisigs", "nested"}) /\ TokenStep
       \/ Sent({"allowances", "guards"}) /\ AllowanceStep
       \/ Sent({"guards", "freezes", "multisigs", "nested"}) /\ AuthorityStep
       \/ Sent({"freezes"}) /\ FreezeStep
       \/ Sent({"setup", "fees", "guards", "freezes", "natives", "nested"}) /\ CloseStep
       \/ Sent({"natives"}) /\ LamportStep
       \/ Sent({"guards"}) /\ GuardStep
       \/ Sent({"fees"}) /\ FeeStep
       \/ Sent({"hooks"}) /\ PointerStep
       \/ Sent({"nested"}) /\ AtaStep
    /\ Underived
    /\ Modest

MCSpec == MCInit /\ [][MCNext]_mcVars
=============================================================================
