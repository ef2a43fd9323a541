------------------------ MODULE ConfidentialTransfer ------------------------
(***************************************************************************)
(* The confidential transfer extension, and the one for its fees, on the   *)
(* accounts of one mint: balances are ciphertexts, and an instruction that *)
(* moves them carries a proof.  The owner of an account prepares a proof   *)
(* from what it reads of the account, and submits the instruction later:   *)
(* in between, others may have credited the account.                       *)
(***************************************************************************)
EXTENDS ProofContexts, FiniteSetsExt

CONSTANTS
    Accounts,      \* token accounts of the mint, each with an owner of its own
    ElGamalKeys,   \* public keys accounts are configured with
    WithdrawKey,   \* the public key withheld fees are encrypted with
    Auditors,      \* the auditor keys a mint may name
    Openings,      \* openings that clients hide amounts with
    TransferSums,  \* the amounts instructions carry
    Fees,          \* the fee parameters of the mint, one after the other
    MaxCredits,    \* the credit maximum accounts are configured with
    ContextPool    \* for each kind of proof, contexts that anyone may have proved

ASSUME ParametersAssumption ==
    /\ Fees \subseteq [basis_points : Nat, maximum_fee : Nat]
    /\ TransferSums \subseteq Nat /\ Openings \subseteq Int /\ MaxCredits \in Nat

VARIABLES
    \* the mint: its extensions, whether it is initialized, their data
    mint_extensions, mint_live, auto_approve, auditor, harvest_to_mint_enabled, mint_withheld,
    fee, supply,
    \* the base of an account, and the fees it withholds in the open
    state, amount, withheld_amount,
    \* ConfidentialTransferAccount, and ConfidentialTransferFeeAmount
    configured, approved, elgamal_pubkey, pending_balance_lo, pending_balance_hi,
    available_balance, decryptable_available_balance, allow_confidential_credits,
    allow_non_confidential_credits, pending_balance_credit_counter,
    expected_pending_balance_credit_counter, actual_pending_balance_credit_counter,
    confidential_withheld,
    \* what the owner's client prepared, and the proof contexts it has stored
    prepared, contexts,
    \* history: a balance was applied to which more credits had been added, or
    \* a transfer was made with other proofs than the client had prepared
    astray

mintVars == <<mint_extensions, mint_live, auto_approve, auditor, harvest_to_mint_enabled,
              mint_withheld, fee, supply>>
baseVars == <<state, amount, withheld_amount>>
pendingVars == <<pending_balance_lo, pending_balance_hi, pending_balance_credit_counter>>
availableVars == <<available_balance, decryptable_available_balance>>
appliedVars ==
    <<expected_pending_balance_credit_counter, actual_pending_balance_credit_counter, astray>>
creditVars == <<allow_confidential_credits, allow_non_confidential_credits>>
setupVars == <<configured, approved, elgamal_pubkey>>
clientVars == <<prepared, contexts>>
vars == <<mintVars, baseVars, pendingVars, availableVars, appliedVars, creditVars, setupVars,
          confidential_withheld, clientVars>>

Extension == {"TransferFeeConfig", "ConfidentialTransferMint", "ConfidentialTransferFeeConfig"}
WithFee == "TransferFeeConfig" \in mint_extensions

Nothing == [kind |-> "nothing"]
ContextKinds == {"equality", "validity", "range", "sigma", "fee_validity"}
NeededKinds == IF WithFee THEN ContextKinds ELSE {"equality", "validity", "range"}

Live(a) == state[a] \in {"initialized", "frozen"}
PendingBalance(a) == combine_lo_hi(pending_balance_lo[a], pending_balance_hi[a])
-----------------------------------------------------------------------------
(* The mint.  Its extensions are initialized before it is. *)
InitializeMint(auto, aud) ==
    /\ ~mint_live
    /\ mint_extensions' = mint_extensions \cup {"ConfidentialTransferMint"}
    /\ auto_approve' = auto
    /\ auditor' = aud
    /\ UNCHANGED <<mint_live, harvest_to_mint_enabled, mint_withheld, fee, supply, baseVars,
                   pendingVars, availableVars, appliedVars, creditVars, setupVars,
                   confidential_withheld, clientVars>>

InitializeTransferFeeConfig ==
    /\ ~mint_live
    /\ mint_extensions' = mint_extensions \cup {"TransferFeeConfig"}
    /\ UNCHANGED <<mint_live, auto_approve, auditor, harvest_to_mint_enabled, mint_withheld, fee,
                   supply, baseVars, pendingVars, availableVars, appliedVars, creditVars,
                   setupVars, confidential_withheld, clientVars>>

InitializeConfidentialTransferFeeConfig ==
    /\ ~mint_live
    /\ mint_extensions' = mint_extensions \cup {"ConfidentialTransferFeeConfig"}
    /\ harvest_to_mint_enabled' = TRUE
    /\ mint_withheld' = Zeroed
    /\ UNCHANGED <<mint_live, auto_approve, auditor, fee, supply, baseVars, pendingVars,
                   availableVars, appliedVars, creditVars, setupVars, confidential_withheld,
                   clientVars>>

check_for_invalid_mint_extension_combinations(types) ==
    /\ "ConfidentialTransferFeeConfig" \in types
           => {"TransferFeeConfig", "ConfidentialTransferMint"} \subseteq types
    /\ {"TransferFeeConfig", "ConfidentialTransferMint"} \subseteq types
           => "ConfidentialTransferFeeConfig" \in types

OpenMint ==
    /\ ~mint_live
    /\ check_for_invalid_mint_extension_combinations(mint_extensions)
    /\ mint_live' = TRUE
    /\ UNCHANGED <<mint_extensions, auto_approve, auditor, harvest_to_mint_enabled, mint_withheld,
                   fee, supply, baseVars, pendingVars, availableVars, appliedVars, creditVars,
                   setupVars, confidential_withheld, clientVars>>

UpdateMint(auto, aud) ==
    /\ mint_live /\ "ConfidentialTransferMint" \in mint_extensions
    /\ auto_approve' = auto
    /\ auditor' = aud
    /\ UNCHANGED <<mint_extensions, mint_live, harvest_to_mint_enabled, mint_withheld, fee, supply,
                   baseVars, pendingVars, availableVars, appliedVars, creditVars, setupVars,
                   confidential_withheld, clientVars>>

(* EnableHarvestToMint and DisableHarvestToMint. *)
SetHarvestToMint(enabled) ==
    /\ mint_live /\ "ConfidentialTransferFeeConfig" \in mint_extensions
    /\ harvest_to_mint_enabled' = enabled
    /\ UNCHANGED <<mint_extensions, mint_live, auto_approve, auditor, mint_withheld, fee, supply,
                   baseVars, pendingVars, availableVars, appliedVars, creditVars, setupVars,
                   confidential_withheld, clientVars>>

(* The newer fee of the mint takes effect. *)
FeeChanges(new) ==
    /\ fee # new
    /\ fee' = new
    /\ UNCHANGED <<mint_extensions, mint_live, auto_approve, auditor, harvest_to_mint_enabled,
                   mint_withheld, supply, baseVars, pendingVars, availableVars, appliedVars,
                   creditVars, setupVars, confidential_withheld, clientVars>>
-----------------------------------------------------------------------------
(* The instructions on the base of an account, as they concern these       *)
(* extensions; TokenProgram has all of them.                               *)
InitializeAccount(a) ==
    /\ mint_live /\ state[a] = "none"
    /\ state' = [state EXCEPT ![a] = "initialized"]
    /\ UNCHANGED <<mintVars, amount, withheld_amount, pendingVars, availableVars, appliedVars,
                   creditVars, setupVars, confidential_withheld, clientVars>>

MintTo(a, x) ==
    /\ state[a] = "initialized"
    /\ supply + x <= MaxAmount
    /\ supply' = supply + x
    /\ amount' = [amount EXCEPT ![a] = @ + x]
    /\ UNCHANGED <<mint_extensions, mint_live, auto_approve, auditor, harvest_to_mint_enabled,
                   mint_withheld, fee, state, withheld_amount, pendingVars, availableVars,
                   appliedVars, creditVars, setupVars, confidential_withheld, clientVars>>

ToggleFreezeAccount(a) ==
    /\ Live(a)
    /\ state' = [state EXCEPT ![a] = IF @ = "frozen" THEN "initialized" ELSE "frozen"]
    /\ UNCHANGED <<mintVars, amount, withheld_amount, pendingVars, availableVars, appliedVars,
                   creditVars, setupVars, confidential_withheld, clientVars>>

OpenFee(x) == IF WithFee THEN calculate_fee(fee, x) ELSE 0

(* A transfer in the open, which the destination may refuse. *)
OpenTransfer(s, d, x) ==
    /\ s # d
    /\ state[s] = "initialized" /\ state[d] = "initialized"
    /\ amount[s] >= x
    /\ configured[d] => allow_non_confidential_credits[d]
    /\ amount' = [amount EXCEPT ![s] = @ - x, ![d] = @ + x - OpenFee(x)]
    /\ withheld_amount' = [withheld_amount EXCEPT ![d] = @ + OpenFee(x)]
    /\ UNCHANGED <<mintVars, state, pendingVars, availableVars, appliedVars, creditVars, setupVars,
                   confidential_withheld, clientVars>>

closable(a) ==
    /\ pending_balance_lo[a] = Zeroed
    /\ pending_balance_hi[a] = Zeroed
    /\ available_balance[a] = Zeroed

(* Closing erases the account and its extensions. *)
CloseAccount(a) ==
    /\ Live(a)
    /\ amount[a] = 0 /\ withheld_amount[a] = 0
    /\ configured[a] => closable(a) /\ confidential_withheld[a] = Zeroed
    /\ state' = [state EXCEPT ![a] = "none"]
    /\ configured' = [configured EXCEPT ![a] = FALSE]
    /\ UNCHANGED <<mintVars, amount, withheld_amount, pendingVars, availableVars, appliedVars,
                   creditVars, approved, elgamal_pubkey, confidential_withheld, clientVars>>
-----------------------------------------------------------------------------
ConfigureAccount(a, key) ==
    /\ Live(a) /\ ~configured[a]
    /\ "ConfidentialTransferMint" \in mint_extensions
    /\ configured' = [configured EXCEPT ![a] = TRUE]
    /\ approved' = [approved EXCEPT ![a] = auto_approve]
    /\ elgamal_pubkey' = [elgamal_pubkey EXCEPT ![a] = key]
    /\ pending_balance_lo' = [pending_balance_lo EXCEPT ![a] = Zeroed]
    /\ pending_balance_hi' = [pending_balance_hi EXCEPT ![a] = Zeroed]
    /\ available_balance' = [available_balance EXCEPT ![a] = Zeroed]
    /\ decryptable_available_balance' = [decryptable_available_balance EXCEPT ![a] = 0]
    /\ allow_confidential_credits' = [allow_confidential_credits EXCEPT ![a] = TRUE]
    /\ allow_non_confidential_credits' = [allow_non_confidential_credits EXCEPT ![a] = TRUE]
    /\ pending_balance_credit_counter' = [pending_balance_credit_counter EXCEPT ![a] = 0]
    /\ expected_pending_balance_credit_counter' =
           [expected_pending_balance_credit_counter EXCEPT ![a] = 0]
    /\ actual_pending_balance_credit_counter' =
           [actual_pending_balance_credit_counter EXCEPT ![a] = 0]
    /\ confidential_withheld' =
           [confidential_withheld EXCEPT ![a] = IF WithFee THEN Zeroed ELSE @]
    /\ astray' = [astray EXCEPT ![a] = FALSE]
    /\ prepared' = [prepared EXCEPT ![a] = Nothing]   \* the owner's client starts anew
    /\ UNCHANGED <<mintVars, baseVars, contexts>>

ApproveAccount(a) ==
    /\ Live(a) /\ configured[a]
    /\ "ConfidentialTransferMint" \in mint_extensions
    /\ approved' = [approved EXCEPT ![a] = TRUE]
    /\ UNCHANGED <<mintVars, baseVars, pendingVars, availableVars, appliedVars, creditVars,
                   configured, elgamal_pubkey, confidential_withheld, clientVars>>

AllowConfidentialCredits(a, allow) ==
    /\ Live(a) /\ configured[a]
    /\ allow_confidential_credits' = [allow_confidential_credits EXCEPT ![a] = allow]
    /\ UNCHANGED <<mintVars, baseVars, pendingVars, availableVars, appliedVars,
                   allow_non_confidential_credits, setupVars, confidential_withheld, clientVars>>

AllowNonConfidentialCredits(a, allow) ==
    /\ Live(a) /\ configured[a]
    /\ allow_non_confidential_credits' = [allow_non_confidential_credits EXCEPT ![a] = allow]
    /\ UNCHANGED <<mintVars, baseVars, pendingVars, availableVars, appliedVars,
                   allow_confidential_credits, setupVars, confidential_withheld, clientVars>>

valid_as_source(a) == configured[a] /\ approved[a]

valid_as_destination(a) ==
    /\ configured[a] /\ approved[a]
    /\ allow_confidential_credits[a]
    /\ pending_balance_credit_counter[a] + 1 <= MaxCredits

(* Mutant: a credit that is not counted. *)
CreditUncounted(a, lo, hi) ==
    /\ pending_balance_lo' = [pending_balance_lo EXCEPT ![a] = add(@, lo)]
    /\ pending_balance_hi' = [pending_balance_hi EXCEPT ![a] = add(@, hi)]
    /\ UNCHANGED pending_balance_credit_counter

(* A credit to the pending balance is counted. *)
Credit(a, lo, hi) ==
    /\ pending_balance_lo' = [pending_balance_lo EXCEPT ![a] = add(@, lo)]
    /\ pending_balance_hi' = [pending_balance_hi EXCEPT ![a] = add(@, hi)]
    /\ pending_balance_credit_counter' = [pending_balance_credit_counter EXCEPT ![a] = @ + 1]

(* A deposit is added without an opening: it is known to everybody. *)
Plain(x) == [v |-> x, r |-> 0, h |-> 0]

Deposit(a, x) ==
    /\ state[a] = "initialized"
    /\ amount[a] >= x
    /\ valid_as_destination(a)
    /\ DepositAllowed(x)
    /\ LET parts == verify_and_split_deposit_amount(x)
       IN  Credit(a, Plain(parts[1]), Plain(parts[2]))
    /\ amount' = [amount EXCEPT ![a] = @ - x]
    /\ UNCHANGED <<mintVars, state, withheld_amount, availableVars, appliedVars, creditVars,
                   setupVars, confidential_withheld, clientVars>>
-----------------------------------------------------------------------------
(* The owner's client reads the account and prepares an instruction. *)
Prepare(a, operation) ==
    /\ Live(a) /\ configured[a]
    /\ prepared' = [prepared EXCEPT ![a] = operation]
    /\ UNCHANGED <<mintVars, baseVars, pendingVars, availableVars, appliedVars, creditVars,
                   setupVars, confidential_withheld, contexts>>

(* ApplyPendingBalanceAccountInfo: what is decrypted is not negative. *)
PrepareApply(a) ==
    /\ pending_balance_lo[a].v >= 0 /\ pending_balance_hi[a].v >= 0
    /\ Prepare(a, [kind |-> "apply", counter |-> pending_balance_credit_counter[a],
                   decryptable |-> decryptable_available_balance[a] + PendingBalance(a).v])

ApplyPendingBalance(a) ==
    /\ Live(a) /\ configured[a]
    /\ prepared[a].kind = "apply"
    /\ available_balance' =
           [available_balance EXCEPT
                ![a] = add_with_lo_hi(@, pending_balance_lo[a], pending_balance_hi[a])]
    /\ actual_pending_balance_credit_counter' =
           [actual_pending_balance_credit_counter EXCEPT ![a] = pending_balance_credit_counter[a]]
    /\ expected_pending_balance_credit_counter' =
           [expected_pending_balance_credit_counter EXCEPT ![a] = prepared[a].counter]
    /\ decryptable_available_balance' =
           [decryptable_available_balance EXCEPT ![a] = prepared[a].decryptable]
    /\ pending_balance_credit_counter' = [pending_balance_credit_counter EXCEPT ![a] = 0]
    /\ pending_balance_lo' = [pending_balance_lo EXCEPT ![a] = Zeroed]
    /\ pending_balance_hi' = [pending_balance_hi EXCEPT ![a] = Zeroed]
    /\ astray' = [astray EXCEPT ![a] = @ \/ prepared[a].counter # pending_balance_credit_counter[a]]
    /\ prepared' = [prepared EXCEPT ![a] = Nothing]
    /\ UNCHANGED <<mintVars, baseVars, creditVars, setupVars, confidential_withheld, contexts>>

(* The proof is of a zero balance. *)
PrepareEmpty(a) ==
    /\ Decrypts(available_balance[a]) /\ available_balance[a].v = 0
    /\ Prepare(a, [kind |-> "empty", key |-> elgamal_pubkey[a],
                   ciphertext |-> available_balance[a]])

EmptyAccount(a) ==
    /\ Live(a) /\ configured[a]
    /\ prepared[a].kind = "empty"
    /\ prepared[a].key = elgamal_pubkey[a]
    /\ prepared[a].ciphertext = available_balance[a]
    /\ pending_balance_lo[a] = Zeroed /\ pending_balance_hi[a] = Zeroed
    /\ available_balance' = [available_balance EXCEPT ![a] = Zeroed]
    /\ prepared' = [prepared EXCEPT ![a] = Nothing]
    /\ UNCHANGED <<mintVars, baseVars, pendingVars, decryptable_available_balance, appliedVars,
                   creditVars, setupVars, confidential_withheld, contexts>>

(* The proof is that what remains is a balance: it can only be made by a   *)
(* client whose own figure of the balance is right.                        *)
PrepareWithdraw(a, x) ==
    LET remaining == subtract_from(available_balance[a], x)
    IN  /\ remaining.v = decryptable_available_balance[a] - x
        /\ remaining.v \in 0 .. BalanceLimit - 1
        /\ Prepare(a, [kind |-> "withdraw", key |-> elgamal_pubkey[a], amount |-> x,
                       final_ciphertext |-> remaining, decryptable |-> remaining.v])

(* Mutant: the decryptable balance is left as it was. *)
WithdrawUntold(a) ==
    /\ state[a] = "initialized"
    /\ prepared[a].kind = "withdraw"
    /\ valid_as_source(a)
    /\ prepared[a].key = elgamal_pubkey[a]
    /\ subtract_from(available_balance[a], prepared[a].amount) = prepared[a].final_ciphertext
    /\ available_balance' = [available_balance EXCEPT ![a] = prepared[a].final_ciphertext]
    /\ amount' = [amount EXCEPT ![a] = @ + prepared[a].amount]
    /\ prepared' = [prepared EXCEPT ![a] = Nothing]
    /\ UNCHANGED <<mintVars, state, withheld_amount, pendingVars, decryptable_available_balance,
                   appliedVars, creditVars, setupVars, confidential_withheld, contexts>>

Withdraw(a) ==
    /\ state[a] = "initialized"
    /\ prepared[a].kind = "withdraw"
    /\ valid_as_source(a)
    /\ prepared[a].key = elgamal_pubkey[a]
    /\ subtract_from(available_balance[a], prepared[a].amount) = prepared[a].final_ciphertext
    /\ available_balance' = [available_balance EXCEPT ![a] = prepared[a].final_ciphertext]
    /\ decryptable_available_balance' =
           [decryptable_available_balance EXCEPT ![a] = prepared[a].decryptable]
    /\ amount' = [amount EXCEPT ![a] = @ + prepared[a].amount]
    /\ prepared' = [prepared EXCEPT ![a] = Nothing]
    /\ UNCHANGED <<mintVars, state, withheld_amount, pendingVars, appliedVars, creditVars,
                   setupVars, confidential_withheld, contexts>>
-----------------------------------------------------------------------------
(* The proof data of a transfer.  An amount is hidden with the opening o.  *)
Hidden(v, o) == [v |-> v, r |-> o, h1 |-> o, h2 |-> o]
Part(v, o) == [v |-> v, r |-> o]

FeeSigmaData(x, o) ==
    LET f == calculate_fee(fee, x)
        parts == verify_and_split_deposit_amount(f)
        whole == combine_lo_hi_pedersen_points(Part(parts[1], o), Part(parts[2], o))
        amount_parts == verify_and_split_deposit_amount(x)
        sent == combine_lo_hi_pedersen_points(Part(amount_parts[1], o), Part(amount_parts[2], o))
        delta == [v |-> OneInBasisPoints * whole.v - fee.basis_points * sent.v,
                  r |-> OneInBasisPoints * whole.r - fee.basis_points * sent.r]
    IN  [fee_commitment |-> whole, delta_commitment |-> delta, max_fee |-> fee.maximum_fee,
         claimed_commitment |->
             Part(IF delta.v \in 0 .. OneInBasisPoints THEN delta.v ELSE 0, o)]

FeeValidityData(key, x, o) ==
    LET parts == verify_and_split_deposit_amount(calculate_fee(fee, x))
    IN  [destination_pubkey |-> key, auditor_pubkey |-> WithdrawKey,
         grouped_ciphertext_lo |-> Hidden(parts[1], o),
         grouped_ciphertext_hi |-> Hidden(parts[2], o)]

RangeData(remaining, x, o) ==
    LET parts == verify_and_split_deposit_amount(x)
        fee_parts == verify_and_split_deposit_amount(calculate_fee(fee, x))
        claimed == FeeSigmaData(x, o).claimed_commitment
        complement == [v |-> OneInBasisPoints - claimed.v, r |-> 0 - claimed.r]
        sent == <<remaining, Part(parts[1], o), Part(parts[2], o)>>
    IN  IF WithFee
        THEN [commitments |-> sent \o <<claimed, complement, Part(fee_parts[1], o),
                                        Part(fee_parts[2], o)>>,
              bit_lengths |-> <<BalanceLimit, LoLimit, HiLimit, DeltaLimit, DeltaLimit, LoLimit,
                                HiLimit>>]
        ELSE [commitments |-> sent \o <<Part(0, o)>>,
              bit_lengths |-> <<BalanceLimit, LoLimit, HiLimit, LoLimit>>]

transfer_split_proof_data(s, d, x, o) ==
    LET parts == verify_and_split_deposit_amount(x)
        lo == [v |-> parts[1], r |-> o, h |-> o]
        hi == [v |-> parts[2], r |-> o, h |-> o]
        remaining == Part(decryptable_available_balance[s] - x, o)
    IN  [kind |-> "transfer", handle |-> o, fee |-> fee, decryptable |-> remaining.v,
         equality |-> [pubkey |-> elgamal_pubkey[s], commitment |-> remaining,
                       ciphertext |-> subtract_with_lo_hi(available_balance[s], lo, hi)],
         validity |-> [destination_pubkey |-> elgamal_pubkey[d], auditor_pubkey |-> auditor,
                       grouped_ciphertext_lo |-> Hidden(parts[1], o),
                       grouped_ciphertext_hi |-> Hidden(parts[2], o)],
         range |-> RangeData(remaining, x, o),
         sigma |-> FeeSigmaData(x, o),
         fee_validity |-> FeeValidityData(elgamal_pubkey[d], x, o)]

(* A transfer to the account itself is prepared like any other. *)
PrepareTransfer(s, d, x, o) ==
    LET data == transfer_split_proof_data(s, d, x, o)
    IN  /\ DepositAllowed(x)
        /\ configured[d]
        /\ x <= decryptable_available_balance[s]
        /\ ProvesEquality(data.equality) /\ ProvesRange(data.range)
        /\ Prepare(s, data)

Proved(k, ctx) ==
    /\ k = "equality" => ProvesEquality(ctx)
    /\ k \in {"validity", "fee_validity"} => ProvesValidity(ctx)
    /\ k = "range" => ProvesRange(ctx)
    /\ k = "sigma" => ProvesFeeSigma(ctx)

(* The proof program verifies a proof and keeps its context in an account, *)
(* one transaction for each; an account in use must be closed first.       *)
StoreContext(s, k, ctx) ==
    /\ contexts[s][k] = Nothing
    /\ Proved(k, ctx)
    /\ contexts' = [contexts EXCEPT ![s][k] = ctx]
    /\ UNCHANGED <<mintVars, baseVars, pendingVars, availableVars, appliedVars, creditVars,
                   setupVars, confidential_withheld, prepared>>

CloseContext(s, k) ==
    /\ contexts[s][k] # Nothing
    /\ contexts' = [contexts EXCEPT ![s][k] = Nothing]
    /\ UNCHANGED <<mintVars, baseVars, pendingVars, availableVars, appliedVars, creditVars,
                   setupVars, confidential_withheld, prepared>>
-----------------------------------------------------------------------------
(* The conditions on the accounts and the keys of a transfer. *)
SourceReady(s, c) ==
    /\ state[s] = "initialized"
    /\ valid_as_source(s)
    /\ c.equality.pubkey = elgamal_pubkey[s]

DestinationReady(d, c) ==
    /\ state[d] = "initialized"
    /\ valid_as_destination(d)
    /\ c.validity.destination_pubkey = elgamal_pubkey[d]

KeysMatch(c) ==
    /\ c.validity.auditor_pubkey = auditor
    /\ WithFee => c.fee_validity.auditor_pubkey = WithdrawKey

(* The mint has the extension, and the one for fees where it has fees. *)
MintReady ==
    /\ mint_live /\ "ConfidentialTransferMint" \in mint_extensions
    /\ WithFee => "ConfidentialTransferFeeConfig" \in mint_extensions

(* Mutant: the balance that remains is not compared with the proved one. *)
SpendUnproved(s, c, handle, decryptable) ==
    LET lo == transfer_amount_encryption_from_decrypt_handle(
                  handle, c.validity.grouped_ciphertext_lo)
        hi == transfer_amount_encryption_from_decrypt_handle(
                  handle, c.validity.grouped_ciphertext_hi)
    IN  /\ available_balance' =
               [available_balance EXCEPT
                    ![s] = subtract_with_lo_hi(@, transfer_amount_source_ciphertext(lo),
                                               transfer_amount_source_ciphertext(hi))]
        /\ decryptable_available_balance' =
               [decryptable_available_balance EXCEPT ![s] = decryptable]

(* process_source_for_transfer: what remains of the balance must be the    *)
(* ciphertext that was proved to be a balance.                             *)
Spend(s, c, handle, decryptable) ==
    LET lo == transfer_amount_encryption_from_decrypt_handle(
                  handle, c.validity.grouped_ciphertext_lo)
        hi == transfer_amount_encryption_from_decrypt_handle(
                  handle, c.validity.grouped_ciphertext_hi)
        remaining == subtract_with_lo_hi(available_balance[s],
                                         transfer_amount_source_ciphertext(lo),
                                         transfer_amount_source_ciphertext(hi))
    IN  /\ remaining = c.equality.ciphertext
        /\ available_balance' = [available_balance EXCEPT ![s] = remaining]
        /\ decryptable_available_balance' =
               [decryptable_available_balance EXCEPT ![s] = decryptable]

(* process_destination_for_transfer: the amount is credited, less the fee, *)
(* which is withheld under the key of the withdraw authority.  A transfer  *)
(* to the source itself pays no fee.                                       *)
Receive(s, d, c) ==
    LET encrypted(g) == transfer_amount_encryption_from_decrypt_handle(0, g)
        lo == transfer_amount_destination_ciphertext(encrypted(c.validity.grouped_ciphertext_lo))
        hi == transfer_amount_destination_ciphertext(encrypted(c.validity.grouped_ciphertext_hi))
        fee_lo == c.fee_validity.grouped_ciphertext_lo
        fee_hi == c.fee_validity.grouped_ciphertext_hi
    IN  IF WithFee /\ s # d
        THEN /\ Credit(d, subtract(lo, fee_amount_destination_ciphertext(fee_lo)),
                          subtract(hi, fee_amount_destination_ciphertext(fee_hi)))
             /\ confidential_withheld' =
                    [confidential_withheld EXCEPT
                         ![d] = add_with_lo_hi(
                                    @, fee_amount_withdraw_withheld_authority_ciphertext(fee_lo),
                                    fee_amount_withdraw_withheld_authority_ciphertext(fee_hi))]
        ELSE /\ Credit(d, lo, hi)
             /\ UNCHANGED confidential_withheld

TransferAccepted(s, d, c) ==
    /\ MintReady /\ SourceReady(s, c) /\ DestinationReady(d, c) /\ KeysMatch(c)

(* Transfer, with one proof in the same transaction: it is about the fee   *)
(* parameters of now.                                                      *)
Transfer(s, d) ==
    /\ prepared[s].kind = "transfer"
    /\ TransferAccepted(s, d, prepared[s])
    /\ WithFee => prepared[s].fee = fee
    /\ Spend(s, prepared[s], prepared[s].handle, prepared[s].decryptable)
    /\ Receive(s, d, prepared[s])
    /\ prepared' = [prepared EXCEPT ![s] = Nothing]
    /\ UNCHANGED <<mintVars, baseVars, appliedVars, creditVars, setupVars, contexts>>

ProofsAccepted(c) ==
    /\ \A k \in NeededKinds : c[k] # Nothing
    /\ IF WithFee
       THEN accepts_transfer_with_fee(c.equality, c.validity, c.sigma, c.fee_validity, c.range, fee)
       ELSE accepts_transfer(c.equality, c.validity, c.range)

(* TransferWithSplitProofs: the contexts were stored one by one, and some  *)
(* may be left from an earlier attempt, or be anything that can be proved; *)
(* the source handle comes with the instruction, unproved.  The contexts   *)
(* are closed with it if it says so.                                       *)
TransferWithSplitProofs(s, d, handle, close) ==
    LET c == contexts[s]
        as_prepared == prepared[s].kind = "transfer" /\ c.equality = prepared[s].equality
    IN  /\ ProofsAccepted(c)
        /\ TransferAccepted(s, d, c)
        /\ Spend(s, c, handle, IF as_prepared THEN prepared[s].decryptable
                               ELSE decryptable_available_balance[s])
        /\ Receive(s, d, c)
        /\ prepared' = [prepared EXCEPT ![s] = Nothing]
        /\ astray' = [astray EXCEPT ![s] = @ \/ ~as_prepared]
        /\ contexts' =
               IF close
               THEN [contexts EXCEPT
                         ![s] = [k \in ContextKinds |-> IF k \in NeededKinds THEN Nothing ELSE @[k]]]
               ELSE contexts
        /\ UNCHANGED <<mintVars, baseVars, expected_pending_balance_credit_counter,
                       actual_pending_balance_credit_counter, creditVars, setupVars>>

(* A context is missing, and the instruction asks for no failure then: the *)
(* accounts are checked and nothing else happens.                          *)
TransferWaits(s, d) ==
    /\ \E k \in NeededKinds : contexts[s][k] = Nothing
    /\ MintReady
    /\ state[s] = "initialized" /\ valid_as_source(s)
    /\ state[d] = "initialized" /\ valid_as_destination(d)
    /\ UNCHANGED vars
-----------------------------------------------------------------------------
(* Withheld fees.  Accounts without the extension are passed over. *)
harvest_from_account(a) == Live(a) /\ configured[a] /\ WithFee

Aggregate(accounts) ==
    MapThenFoldSet(add, Zeroed, LAMBDA a : confidential_withheld[a],
                   LAMBDA S : CHOOSE a \in S : TRUE,
                   {a \in accounts : harvest_from_account(a)})

Emptied(accounts) ==
    [a \in Accounts |-> IF a \in accounts /\ harvest_from_account(a) THEN Zeroed
                        ELSE confidential_withheld[a]]

HarvestWithheldTokensToMint(accounts) ==
    /\ mint_live /\ WithFee /\ "ConfidentialTransferFeeConfig" \in mint_extensions
    /\ harvest_to_mint_enabled
    /\ mint_withheld' = add(mint_withheld, Aggregate(accounts))
    /\ confidential_withheld' = Emptied(accounts)
    /\ UNCHANGED <<mint_extensions, mint_live, auto_approve, auditor, harvest_to_mint_enabled, fee,
                   supply, baseVars, pendingVars, availableVars, appliedVars, creditVars,
                   setupVars, clientVars>>

(* The withdraw authority encrypts the withheld amount again, for the      *)
(* account d of its own, and proves that it is the same amount.            *)
PrepareWithdrawWithheld(d, withheld, o) ==
    /\ Decrypts(withheld)
    /\ Prepare(d, [kind |-> "withheld", key |-> elgamal_pubkey[d], source_ciphertext |-> withheld,
                   destination_ciphertext |-> [v |-> withheld.v, r |-> o, h |-> o],
                   decryptable |-> decryptable_available_balance[d] + withheld.v])

CreditWithheld(d, withheld) ==
    /\ mint_live /\ WithFee /\ "ConfidentialTransferFeeConfig" \in mint_extensions
    /\ state[d] = "initialized"
    /\ valid_as_destination(d)
    /\ prepared[d].kind = "withheld"
    /\ prepared[d].key = elgamal_pubkey[d]
    /\ prepared[d].source_ciphertext = withheld
    /\ available_balance' =
           [available_balance EXCEPT ![d] = add(@, prepared[d].destination_ciphertext)]
    /\ decryptable_available_balance' =
           [decryptable_available_balance EXCEPT ![d] = prepared[d].decryptable]
    /\ prepared' = [prepared EXCEPT ![d] = Nothing]

(* Mutant: the amount stays in the mint. *)
WithdrawWithheldAgain(d) ==
    /\ CreditWithheld(d, mint_withheld)
    /\ UNCHANGED <<mintVars, baseVars, pendingVars, appliedVars, creditVars, setupVars,
                   confidential_withheld, contexts>>

WithdrawWithheldTokensFromMint(d) ==
    /\ CreditWithheld(d, mint_withheld)
    /\ mint_withheld' = Zeroed
    /\ UNCHANGED <<mint_extensions, mint_live, auto_approve, auditor, harvest_to_mint_enabled, fee,
                   supply, baseVars, pendingVars, appliedVars, creditVars, setupVars,
                   confidential_withheld, contexts>>

(* The destination may be one of the accounts. *)
WithdrawWithheldTokensFromAccounts(d, accounts) ==
    /\ CreditWithheld(d, Aggregate(accounts))
    /\ confidential_withheld' = Emptied(accounts)
    /\ UNCHANGED <<mintVars, baseVars, pendingVars, appliedVars, creditVars, setupVars, contexts>>
-----------------------------------------------------------------------------
MintStep ==
    \/ \E auto \in BOOLEAN, aud \in Auditors : InitializeMint(auto, aud) \/ UpdateMint(auto, aud)
    \/ InitializeTransferFeeConfig \/ InitializeConfidentialTransferFeeConfig \/ OpenMint
    \/ \E enabled \in BOOLEAN : SetHarvestToMint(enabled)
    \/ \E new \in Fees : FeeChanges(new)

BaseStep ==
    \E a \in Accounts :
        \/ InitializeAccount(a) \/ ToggleFreezeAccount(a) \/ CloseAccount(a)
        \/ \E x \in TransferSums : MintTo(a, x) \/ \E d \in Accounts : OpenTransfer(a, d, x)

SetupStep ==
    \E a \in Accounts :
        \/ \E key \in ElGamalKeys : ConfigureAccount(a, key)
        \/ ApproveAccount(a)
        \/ \E allow \in BOOLEAN :
               AllowConfidentialCredits(a, allow) \/ AllowNonConfidentialCredits(a, allow)

BalanceStep ==
    \E a \in Accounts :
        \/ \E x \in TransferSums : Deposit(a, x) \/ PrepareWithdraw(a, x)
        \/ PrepareApply(a) \/ ApplyPendingBalance(a)
        \/ PrepareEmpty(a) \/ EmptyAccount(a) \/ Withdraw(a)

TransferStep ==
    \E s, d \in Accounts :
        \/ \E x \in TransferSums, o \in Openings : PrepareTransfer(s, d, x, o)
        \/ Transfer(s, d)

SplitStep ==
    \E s \in Accounts :
        \/ \E k \in ContextKinds :
               \/ prepared[s].kind = "transfer" /\ StoreContext(s, k, prepared[s][k])
               \/ \E ctx \in ContextPool[k] : StoreContext(s, k, ctx)
               \/ CloseContext(s, k)
        \/ \E d \in Accounts :
               \/ TransferWaits(s, d)
               \/ \E o \in Openings, close \in BOOLEAN : TransferWithSplitProofs(s, d, o, close)

WithheldStep ==
    \E accounts \in SUBSET Accounts :
        \/ HarvestWithheldTokensToMint(accounts)
        \/ \E d \in Accounts :
               \/ WithdrawWithheldTokensFromMint(d)
               \/ WithdrawWithheldTokensFromAccounts(d, accounts)
               \/ \E o \in Openings :
                      \/ PrepareWithdrawWithheld(d, mint_withheld, o)
                      \/ PrepareWithdrawWithheld(d, Aggregate(accounts), o)

Init ==
    /\ mint_extensions = {} /\ mint_live = FALSE /\ auto_approve = FALSE
    /\ auditor \in Auditors
    /\ harvest_to_mint_enabled = FALSE /\ mint_withheld = Zeroed
    /\ fee \in Fees
    /\ supply = 0
    /\ state = [a \in Accounts |-> "none"]
    /\ amount = [a \in Accounts |-> 0] /\ withheld_amount = [a \in Accounts |-> 0]
    /\ configured = [a \in Accounts |-> FALSE] /\ approved = [a \in Accounts |-> FALSE]
    /\ elgamal_pubkey \in [Accounts -> ElGamalKeys]
    /\ pending_balance_lo = [a \in Accounts |-> Zeroed]
    /\ pending_balance_hi = [a \in Accounts |-> Zeroed]
    /\ available_balance = [a \in Accounts |-> Zeroed]
    /\ decryptable_available_balance = [a \in Accounts |-> 0]
    /\ allow_confidential_credits = [a \in Accounts |-> FALSE]
    /\ allow_non_confidential_credits = [a \in Accounts |-> FALSE]
    /\ pending_balance_credit_counter = [a \in Accounts |-> 0]
    /\ expected_pending_balance_credit_counter = [a \in Accounts |-> 0]
    /\ actual_pending_balance_credit_counter = [a \in Accounts |-> 0]
    /\ confidential_withheld = [a \in Accounts |-> Zeroed]
    /\ prepared = [a \in Accounts |-> Nothing]
    /\ contexts = [a \in Accounts |-> [k \in ContextKinds |-> Nothing]]
    /\ astray = [a \in Accounts |-> FALSE]

Next ==
    MintStep \/ BaseStep \/ SetupStep \/ BalanceStep \/ TransferStep \/ SplitStep \/ WithheldStep

Spec == Init /\ [][Next]_vars
-----------------------------------------------------------------------------

(* Whatever the ciphertexts hide adds up: tokens in the open, withheld,    *)
(* pending, available and withheld confidentially are the supply, though   *)
(* no instruction ever sees the amounts it moves.                          *)
ConfidentialConserved ==
    supply = mint_withheld.v
             + MapThenSumSet(LAMBDA a : amount[a] + withheld_amount[a] + PendingBalance(a).v
                                        + available_balance[a].v + confidential_withheld[a].v,
                             Accounts)

(* Every ciphertext the program keeps can be decrypted by its key, and no  *)
(* available balance is negative: also when proof contexts of several      *)
(* attempts are mixed, whoever proved them, and the source handles come    *)
(* unproved.                                                               *)
BalancesSound ==
    /\ Decrypts(mint_withheld)
    /\ \A a \in Accounts :
           /\ Decrypts(pending_balance_lo[a]) /\ Decrypts(pending_balance_hi[a])
           /\ Decrypts(available_balance[a]) /\ Decrypts(confidential_withheld[a])
           /\ available_balance[a].v \in 0 .. BalanceLimit - 1

(* The pending balance stays small enough for its owner to decrypt it by   *)
(* search: each part is below its limit for every credit there has been.   *)
PendingFitsDecryption ==
    \A a \in Accounts :
        /\ pending_balance_lo[a].v <= (LoLimit - 1) * pending_balance_credit_counter[a]
        /\ pending_balance_hi[a].v <= (HiLimit - 1) * pending_balance_credit_counter[a]

(* Whatever proofs are put together, if the program accepts them for a     *)
(* transfer then its two parts are within their bits, what remains is a    *)
(* balance, and the fee is at least the one due for the amount.            *)
AcceptedProofsSound ==
    \A a \in Accounts : ProofsAccepted(contexts[a]) =>
        LET c == contexts[a]
            lo == c.validity.grouped_ciphertext_lo
            hi == c.validity.grouped_ciphertext_hi
        IN  /\ lo.v \in 0 .. LoLimit - 1 /\ hi.v \in 0 .. HiLimit - 1
            /\ c.equality.ciphertext.v \in 0 .. BalanceLimit - 1
            /\ WithFee => c.fee_validity.grouped_ciphertext_lo.v
                              + LoLimit * c.fee_validity.grouped_ciphertext_hi.v
                          >= calculate_fee(fee, lo.v + LoLimit * hi.v)

(* As long as the owner's client never applied a pending balance that had  *)
(* been credited since it was read, the decryptable balance is the         *)
(* available one: in every other case the proofs or the ciphertexts that   *)
(* are compared stop the instruction that the client prepared too early.   *)
DecryptableUntilAstray ==
    \A a \in Accounts :
        configured[a] /\ ~astray[a] => decryptable_available_balance[a] = available_balance[a].v

=============================================================================
