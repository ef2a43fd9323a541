-------------------------- MODULE TokenInstruction --------------------------
(***************************************************************************)
(* The instructions of the token program, from the functions that build    *)
(* them for a client to the handlers that read them.  A builder fixes the  *)
(* order of the accounts, which of them are writable and which must sign,  *)
(* and the layout of the data; the program reads the same by position.     *)
(* Nothing but the two sides' agreement connects an account to its role.   *)
(*                                                                         *)
(* An account is named after its role, a field of the data holds a number  *)
(* of its own, and an item of the data is a tag or a field.  A client      *)
(* calls one builder, or two that bring a proof along; the proof goes to   *)
(* the transaction with the instruction, and the program finds it by an    *)
(* offset that is relative to the instruction.                             *)
(***************************************************************************)
EXTENDS Integers, FiniteSets, SequencesExt

CONSTANTS
    Signers,     \* the lists of multisig signers a client may give
    Sources,     \* the lists of accounts that withheld fees are taken from
    Offsets,     \* the offsets of a proof instruction
    U8_MAX       \* the greatest number of source accounts that fits a byte

VARIABLES
    calls,       \* what the client asked the builders for
    tx,          \* the instructions of the transaction
    read         \* what the program made of the instructions it has processed

wireVars == <<calls, tx, read>>
-----------------------------------------------------------------------------
(* A client may leave out the value of these fields. *)
Coption == {"freeze_authority", "new_authority", "close_authority",
            "transfer_fee_config_authority", "withdraw_withheld_authority"}
OptionalNonZero == {"authority", "auditor", "address", "hook_program"}

Fields == <<"decimals", "mint_authority", "freeze_authority", "m", "amount", "authority_type",
            "new_authority", "owner", "extension_types", "ui_amount", "close_authority",
            "delegate", "transfer_fee_config_authority", "withdraw_withheld_authority",
            "basis_points", "maximum_fee", "fee", "authority", "auto_approve", "auditor",
            "zero_balance", "maximum_counter", "new_balance", "expected_counter", "no_op",
            "handles", "state", "rate", "address", "hook_program", "elgamal_pubkey">>

(* Mutant: the number of accounts is cast to a byte. *)
u8_cast(n) == n % (U8_MAX + 1)

(* The number of source accounts has to fit a byte; -1 is the error.       *)
u8_try_from(n) == IF n <= U8_MAX THEN n ELSE -1

(* What the caller c passes for a field; 0 is an option that is not given. *)
Argument(field, c) ==
    CASE field = "proof_instruction_offset" -> c.offset
      [] field = "num_token_accounts" -> u8_try_from(Len(c.sources))
      [] field = "close" -> IF c.close THEN 1 ELSE 0
      [] field \in Coption \cup OptionalNonZero /\ ~c.optional -> 0
      [] OTHER -> 1000 + CHOOSE i \in DOMAIN Fields : Fields[i] = field

(* An optional key is a flag and the key; the extension types, or the text *)
(* of an amount, take what is left of the data.                            *)
ToTheEnd == {"extension_types", "ui_amount"}
pack_pubkey_option(v) == IF v = 0 THEN <<0>> ELSE <<1, v>>
Packed(field, v) ==
    CASE field \in Coption -> pack_pubkey_option(v)
      [] field \in ToTheEnd -> <<v, v>>
      [] OTHER -> <<v>>

(* Reading a field off the rest of the data. *)
Unpacked(acc, field) ==
    LET rest == acc.rest
        Got(v, n) == [ok |-> TRUE, rest |-> SubSeq(rest, n + 1, Len(rest)),
                      values |-> acc.values \o << <<field, v>> >>]
        Failed == [acc EXCEPT !.ok = FALSE]
    IN  CASE ~acc.ok -> acc
          [] field \in ToTheEnd ->
                 IF \A i \in DOMAIN rest : rest[i] = rest[1] /\ rest # <<>>
                 THEN Got(rest[1], Len(rest)) ELSE Failed
          [] field \notin ToTheEnd /\ rest = <<>> -> Failed
          [] field \in Coption /\ rest # <<>> ->
                 IF rest[1] = 0 THEN Got(0, 1)
                 ELSE IF rest[1] = 1 /\ Len(rest) >= 2 THEN Got(rest[2], 2) ELSE Failed
          [] OTHER -> Got(rest[1], 1)
Layout(fields, rest) ==
    FoldLeft(Unpacked, [ok |-> TRUE, rest |-> rest, values |-> <<>>], fields)
PackedAll(fields, c) == FlattenSeq([i \in DOMAIN fields |-> Packed(fields[i], Argument(fields[i], c))])
-----------------------------------------------------------------------------
(* TokenInstruction::pack: the tag and the fields that follow it. *)
pack ==
    [InitializeMint |-> <<0, <<"decimals", "mint_authority", "freeze_authority">> >>,
     InitializeAccount |-> <<1, <<>> >>,
     InitializeMultisig |-> <<2, <<"m">> >>,
     Transfer |-> <<3, <<"amount">> >>,
     Approve |-> <<4, <<"amount">> >>,
     MintTo |-> <<7, <<"amount">> >>,
     Burn |-> <<8, <<"amount">> >>,
     Revoke |-> <<5, <<>> >>,
     SetAuthority |-> <<6, <<"authority_type", "new_authority">> >>,
     CloseAccount |-> <<9, <<>> >>,
     FreezeAccount |-> <<10, <<>> >>,
     ThawAccount |-> <<11, <<>> >>,
     TransferChecked |-> <<12, <<"amount", "decimals">> >>,
     ApproveChecked |-> <<13, <<"amount", "decimals">> >>,
     MintToChecked |-> <<14, <<"amount", "decimals">> >>,
     BurnChecked |-> <<15, <<"amount", "decimals">> >>,
     InitializeAccount2 |-> <<16, <<"owner">> >>,
     SyncNative |-> <<17, <<>> >>,
     InitializeAccount3 |-> <<18, <<"owner">> >>,
     InitializeMultisig2 |-> <<19, <<"m">> >>,
     InitializeMint2 |-> <<20, <<"decimals", "mint_authority", "freeze_authority">> >>,
     GetAccountDataSize |-> <<21, <<"extension_types">> >>,
     InitializeImmutableOwner |-> <<22, <<>> >>,
     AmountToUiAmount |-> <<23, <<"amount">> >>,
     UiAmountToAmount |-> <<24, <<"ui_amount">> >>,
     InitializeMintCloseAuthority |-> <<25, <<"close_authority">> >>,
     TransferFeeExtension |-> <<26, <<>> >>,
     ConfidentialTransferExtension |-> <<27, <<>> >>,
     DefaultAccountStateExtension |-> <<28, <<>> >>,
     Reallocate |-> <<29, <<"extension_types">> >>,
     MemoTransferExtension |-> <<30, <<>> >>,
     CreateNativeMint |-> <<31, <<>> >>,
     InitializeNonTransferableMint |-> <<32, <<>> >>,
     InterestBearingMintExtension |-> <<33, <<>> >>,
     CpiGuardExtension |-> <<34, <<>> >>,
     InitializePermanentDelegate |-> <<35, <<"delegate">> >>,
     TransferHookExtension |-> <<36, <<>> >>,
     ConfidentialTransferFeeExtension |-> <<37, <<>> >>,
     WithdrawExcessLamports |-> <<38, <<>> >>,
     MetadataPointerExtension |-> <<39, <<>> >>]

(* TokenInstruction::unpack: the instruction of a tag, and what it reads.  *)
UnpackMint == <<"decimals", "mint_authority", "freeze_authority">>
unpack(tag) ==
    CASE tag = 0 -> <<"InitializeMint", UnpackMint>>
      [] tag = 1 -> <<"InitializeAccount", <<>> >>
      [] tag = 2 -> <<"InitializeMultisig", <<"m">> >>
      [] tag = 3 -> <<"Transfer", <<"amount">> >>
      [] tag = 4 -> <<"Approve", <<"amount">> >>
      [] tag = 5 -> <<"Revoke", <<>> >>
      [] tag = 6 -> <<"SetAuthority", <<"authority_type", "new_authority">> >>
      [] tag = 7 -> <<"MintTo", <<"amount">> >>
      [] tag = 8 -> <<"Burn", <<"amount">> >>
      [] tag = 9 -> <<"CloseAccount", <<>> >>
      [] tag = 10 -> <<"FreezeAccount", <<>> >>
      [] tag = 11 -> <<"ThawAccount", <<>> >>
      [] tag = 12 -> <<"TransferChecked", <<"amount", "decimals">> >>
      [] tag = 13 -> <<"ApproveChecked", <<"amount", "decimals">> >>
      [] tag = 14 -> <<"MintToChecked", <<"amount", "decimals">> >>
      [] tag = 15 -> <<"BurnChecked", <<"amount", "decimals">> >>
      [] tag = 16 -> <<"InitializeAccount2", <<"owner">> >>
      [] tag = 17 -> <<"SyncNative", <<>> >>
      [] tag = 18 -> <<"InitializeAccount3", <<"owner">> >>
      [] tag = 19 -> <<"InitializeMultisig2", <<"m">> >>
      [] tag = 20 -> <<"InitializeMint2", UnpackMint>>
      [] tag = 21 -> <<"GetAccountDataSize", <<"extension_types">> >>
      [] tag = 22 -> <<"InitializeImmutableOwner", <<>> >>
      [] tag = 23 -> <<"AmountToUiAmount", <<"amount">> >>
      [] tag = 24 -> <<"UiAmountToAmount", <<"ui_amount">> >>
      [] tag = 25 -> <<"InitializeMintCloseAuthority", <<"close_authority">> >>
      [] tag = 26 -> <<"TransferFeeExtension", <<>> >>
      [] tag = 27 -> <<"ConfidentialTransferExtension", <<>> >>
      [] tag = 28 -> <<"DefaultAccountStateExtension", <<>> >>
      [] tag = 29 -> <<"Reallocate", <<"extension_types">> >>
      [] tag = 30 -> <<"MemoTransferExtension", <<>> >>
      [] tag = 31 -> <<"CreateNativeMint", <<>> >>
      [] tag = 32 -> <<"InitializeNonTransferableMint", <<>> >>
      [] tag = 33 -> <<"InterestBearingMintExtension", <<>> >>
      [] tag = 34 -> <<"CpiGuardExtension", <<>> >>
      [] tag = 35 -> <<"InitializePermanentDelegate", <<"delegate">> >>
      [] tag = 36 -> <<"TransferHookExtension", <<>> >>
      [] tag = 37 -> <<"ConfidentialTransferFeeExtension", <<>> >>
      [] tag = 38 -> <<"WithdrawExcessLamports", <<>> >>
      [] tag = 39 -> <<"MetadataPointerExtension", <<>> >>
      [] OTHER -> <<"InvalidInstruction", <<>> >>
-----------------------------------------------------------------------------
(* The instructions of an extension, in the order of their enumeration:    *)
(* the name, and the fields of the structure that goes along.              *)
TransferFeeInstruction ==
    << <<"InitializeTransferFeeConfig", <<"transfer_fee_config_authority",
                                          "withdraw_withheld_authority", "basis_points", "maximum_fee">> >>,
       <<"TransferCheckedWithFee", <<"amount", "decimals", "fee">> >>,
       <<"WithdrawWithheldTokensFromMint", <<>> >>,
       <<"WithdrawWithheldTokensFromAccounts", <<"num_token_accounts">> >>,
       <<"HarvestWithheldTokensToMint", <<>> >>,
       <<"SetTransferFee", <<"basis_points", "maximum_fee">> >> >>
ConfidentialTransferInstruction ==
    << <<"CtInitializeMint", <<"authority", "auto_approve", "auditor">> >>,
       <<"CtUpdateMint", <<"auto_approve", "auditor">> >>,
       <<"CtConfigureAccount", <<"zero_balance", "maximum_counter", "proof_instruction_offset">> >>,
       <<"CtApproveAccount", <<>> >>,
       <<"CtEmptyAccount", <<"proof_instruction_offset">> >>,
       <<"CtDeposit", <<"amount", "decimals">> >>,
       <<"CtWithdraw", <<"amount", "decimals", "new_balance", "proof_instruction_offset">> >>,
       <<"CtTransfer", <<"new_balance", "proof_instruction_offset">> >>,
       <<"CtApplyPendingBalance", <<"expected_counter", "new_balance">> >>,
       <<"CtEnableConfidentialCredits", <<>> >>,
       <<"CtDisableConfidentialCredits", <<>> >>,
       <<"CtEnableNonConfidentialCredits", <<>> >>,
       <<"CtDisableNonConfidentialCredits", <<>> >>,
       <<"CtTransferWithSplitProofs", <<"new_balance", "no_op", "close", "handles">> >> >>
ConfidentialTransferFeeInstruction ==
    << <<"CfInitializeConfig", <<"authority", "elgamal_pubkey">> >>,
       <<"CfWithdrawWithheldTokensFromMint", <<"proof_instruction_offset", "new_balance">> >>,
       <<"CfWithdrawWithheldTokensFromAccounts",
         <<"num_token_accounts", "proof_instruction_offset", "new_balance">> >>,
       <<"CfHarvestWithheldTokensToMint", <<>> >>,
       <<"CfEnableHarvestToMint", <<>> >>,
       <<"CfDisableHarvestToMint", <<>> >> >>
DefaultAccountStateInstruction == << <<"StateInitialize", <<"state">> >>, <<"StateUpdate", <<"state">> >> >>
RequiredMemoTransfersInstruction == << <<"MemoEnable", <<>> >>, <<"MemoDisable", <<>> >> >>
InterestBearingMintInstruction == << <<"RateInitialize", <<"authority", "rate">> >>, <<"RateUpdate", <<"rate">> >> >>
CpiGuardInstruction == << <<"GuardEnable", <<>> >>, <<"GuardDisable", <<>> >> >>
TransferHookInstruction ==
    << <<"HookInitialize", <<"authority", "hook_program">> >>, <<"HookUpdate", <<"hook_program">> >> >>
MetadataPointerInstruction ==
    << <<"PointerInitialize", <<"authority", "address">> >>, <<"PointerUpdate", <<"address">> >> >>

Extension ==
    [TransferFeeExtension |-> TransferFeeInstruction,
     ConfidentialTransferExtension |-> ConfidentialTransferInstruction,
     DefaultAccountStateExtension |-> DefaultAccountStateInstruction,
     MemoTransferExtension |-> RequiredMemoTransfersInstruction,
     InterestBearingMintExtension |-> InterestBearingMintInstruction,
     CpiGuardExtension |-> CpiGuardInstruction,
     TransferHookExtension |-> TransferHookInstruction,
     ConfidentialTransferFeeExtension |-> ConfidentialTransferFeeInstruction,
     MetadataPointerExtension |-> MetadataPointerInstruction]

(* An enumeration starts at zero. *)
Discriminant(x, name) == (CHOOSE i \in DOMAIN Extension[x] : Extension[x][i][1] = name) - 1

(* The data of a token instruction, and of an instruction of extension x.  *)
Token(name, c) == <<pack[name][1]>> \o PackedAll(pack[name][2], c)
encode_instruction(x, name, c) ==
    LET d == Discriminant(x, name)
    IN  Token(x, c) \o <<d>> \o PackedAll(Extension[x][d + 1][2], c)
-----------------------------------------------------------------------------
(* The instruction that the program decodes.  The structure of an          *)
(* extension's instruction has to fill the data exactly, except that the   *)
(* instructions about fees are unpacked like those of the program.         *)
Invalid == [name |-> "InvalidInstruction", values |-> <<>>]
decode_instruction_type(x, d) == d # <<>> /\ d[1] + 1 \in DOMAIN Extension[x]
decode_instruction_data(x, d) ==
    LET got == Layout(Extension[x][d[1] + 1][2], Tail(d))
    IN  IF got.ok /\ (x = "TransferFeeExtension" \/ got.rest = <<>>)
        THEN [name |-> Extension[x][d[1] + 1][1], values |-> got.values]
        ELSE Invalid
decode(d) ==
    LET row == unpack(d[1])
        got == Layout(row[2], Tail(d))
    IN  CASE row[1] \in DOMAIN Extension ->
                 IF decode_instruction_type(row[1], Tail(d))
                 THEN decode_instruction_data(row[1], Tail(d)) ELSE Invalid
          [] OTHER -> IF got.ok THEN [name |-> row[1], values |-> got.values] ELSE Invalid
-----------------------------------------------------------------------------
(* AccountMeta::new and new_readonly. *)
new(key, signs) == [key |-> key, is_signer |-> signs, is_writable |-> TRUE]
new_readonly(key, signs) == [key |-> key, is_signer |-> signs, is_writable |-> FALSE]
Metas(keys, signs) == [i \in DOMAIN keys |-> new_readonly(keys[i], signs)]
Writables(keys) == [i \in DOMAIN keys |-> new(keys[i], FALSE)]

(* The authority signs alone, or the signers of the multisig it is do.     *)
Authority(c) == <<new_readonly("authority", c.signers = <<>>)>> \o Metas(c.signers, TRUE)

Instruction(accounts, data) == [program |-> "token", accounts |-> accounts, data |-> data]
VerifyProof(proof) == [program |-> proof, accounts |-> <<>>, data |-> <<>>]
W(key) == new(key, FALSE)
R(key) == new_readonly(key, FALSE)

initialize_mint(c) == Instruction(<<W("mint"), R("rent")>>, Token("InitializeMint", c))
initialize_mint2(c) == Instruction(<<W("mint")>>, Token("InitializeMint2", c))
initialize_account(c) ==
    Instruction(<<W("account"), R("mint"), R("owner"), R("rent")>>, Token("InitializeAccount", c))
initialize_account2(c) ==
    Instruction(<<W("account"), R("mint"), R("rent")>>, Token("InitializeAccount2", c))
initialize_account3(c) == Instruction(<<W("account"), R("mint")>>, Token("InitializeAccount3", c))
initialize_multisig(c) ==
    Instruction(<<W("multisig"), R("rent")>> \o Metas(c.signers, FALSE), Token("InitializeMultisig", c))
initialize_multisig2(c) ==
    Instruction(<<W("multisig")>> \o Metas(c.signers, FALSE), Token("InitializeMultisig2", c))
transfer(c) ==
    Instruction(<<W("source"), W("destination")>> \o Authority(c), Token("Transfer", c))
approve(c) == Instruction(<<W("source"), R("delegate")>> \o Authority(c), Token("Approve", c))
revoke(c) == Instruction(<<W("source")>> \o Authority(c), Token("Revoke", c))
set_authority(c) == Instruction(<<W("owned")>> \o Authority(c), Token("SetAuthority", c))
mint_to(c) == Instruction(<<W("mint"), W("account")>> \o Authority(c), Token("MintTo", c))
burn(c) == Instruction(<<W("account"), W("mint")>> \o Authority(c), Token("Burn", c))
close_account(c) ==
    Instruction(<<W("account"), W("destination")>> \o Authority(c), Token("CloseAccount", c))
freeze_account(c) ==
    Instruction(<<W("account"), R("mint")>> \o Authority(c), Token("FreezeAccount", c))
thaw_account(c) == Instruction(<<W("account"), R("mint")>> \o Authority(c), Token("ThawAccount", c))
transfer_checked(c) ==
    Instruction(<<W("source"), R("mint"), W("destination")>> \o Authority(c), Token("TransferChecked", c))
approve_checked(c) ==
    Instruction(<<W("source"), R("mint"), R("delegate")>> \o Authority(c), Token("ApproveChecked", c))
mint_to_checked(c) ==
    Instruction(<<W("mint"), W("account")>> \o Authority(c), Token("MintToChecked", c))
burn_checked(c) == Instruction(<<W("account"), W("mint")>> \o Authority(c), Token("BurnChecked", c))
sync_native(c) == Instruction(<<W("account")>>, Token("SyncNative", c))
get_account_data_size(c) == Instruction(<<R("mint")>>, Token("GetAccountDataSize", c))
initialize_mint_close_authority(c) ==
    Instruction(<<W("mint")>>, Token("InitializeMintCloseAuthority", c))
initialize_immutable_owner(c) == Instruction(<<W("account")>>, Token("InitializeImmutableOwner", c))
amount_to_ui_amount(c) == Instruction(<<R("mint")>>, Token("AmountToUiAmount", c))
ui_amount_to_amount(c) == Instruction(<<R("mint")>>, Token("UiAmountToAmount", c))
reallocate(c) ==
    Instruction(<<W("account"), new("payer", TRUE), R("system_program")>> \o Authority(c),
                Token("Reallocate", c))
create_native_mint(c) ==
    Instruction(<<new("payer", TRUE), W("native_mint"), R("system_program")>>, Token("CreateNativeMint", c))
initialize_non_transferable_mint(c) ==
    Instruction(<<W("mint")>>, Token("InitializeNonTransferableMint", c))
initialize_permanent_delegate(c) ==
    Instruction(<<W("mint")>>, Token("InitializePermanentDelegate", c))
withdraw_excess_lamports(c) ==
    Instruction(<<W("source"), W("destination")>> \o Authority(c), Token("WithdrawExcessLamports", c))
-----------------------------------------------------------------------------
(* The extensions whose instructions have an account or a mint, and an     *)
(* authority over it.                                                      *)
Fee(name, c) == encode_instruction("TransferFeeExtension", name, c)
initialize_transfer_fee_config(c) ==
    Instruction(<<W("mint")>>, Fee("InitializeTransferFeeConfig", c))
transfer_checked_with_fee(c) ==
    Instruction(<<W("source"), R("mint"), W("destination")>> \o Authority(c),
                Fee("TransferCheckedWithFee", c))
withdraw_withheld_tokens_from_mint(c) ==
    Instruction(<<W("mint"), W("destination")>> \o Authority(c), Fee("WithdrawWithheldTokensFromMint", c))
withdraw_withheld_tokens_from_accounts(c) ==
    Instruction(<<R("mint"), W("destination")>> \o Authority(c) \o Writables(c.sources),
                Fee("WithdrawWithheldTokensFromAccounts", c))
harvest_withheld_tokens_to_mint(c) ==
    Instruction(<<W("mint")>> \o Writables(c.sources), Fee("HarvestWithheldTokensToMint", c))
set_transfer_fee(c) == Instruction(<<W("mint")>> \o Authority(c), Fee("SetTransferFee", c))

initialize_default_account_state(c) ==
    Instruction(<<W("mint")>>, encode_instruction("DefaultAccountStateExtension", "StateInitialize", c))
update_default_account_state(c) ==
    Instruction(<<W("mint")>> \o Authority(c),
                encode_instruction("DefaultAccountStateExtension", "StateUpdate", c))
enable_required_transfer_memos(c) ==
    Instruction(<<W("account")>> \o Authority(c), encode_instruction("MemoTransferExtension", "MemoEnable", c))
disable_required_transfer_memos(c) ==
    Instruction(<<W("account")>> \o Authority(c), encode_instruction("MemoTransferExtension", "MemoDisable", c))
initialize_rate(c) ==
    Instruction(<<W("mint")>>, encode_instruction("InterestBearingMintExtension", "RateInitialize", c))
update_rate(c) ==
    Instruction(<<W("mint")>> \o Authority(c),
                encode_instruction("InterestBearingMintExtension", "RateUpdate", c))
enable_cpi_guard(c) ==
    Instruction(<<W("account")>> \o Authority(c), encode_instruction("CpiGuardExtension", "GuardEnable", c))
disable_cpi_guard(c) ==
    Instruction(<<W("account")>> \o Authority(c), encode_instruction("CpiGuardExtension", "GuardDisable", c))
initialize_hook(c) ==
    Instruction(<<W("mint")>>, encode_instruction("TransferHookExtension", "HookInitialize", c))
update_hook(c) ==
    Instruction(<<W("mint")>> \o Authority(c), encode_instruction("TransferHookExtension", "HookUpdate", c))
initialize_pointer(c) ==
    Instruction(<<W("mint")>>, encode_instruction("MetadataPointerExtension", "PointerInitialize", c))
update_pointer(c) ==
    Instruction(<<W("mint")>> \o Authority(c),
                encode_instruction("MetadataPointerExtension", "PointerUpdate", c))
-----------------------------------------------------------------------------
(* Confidential transfers: the proof is in the transaction, at an offset,  *)
(* or in an account of the proof program.                                  *)
Ct(name, c) == encode_instruction("ConfidentialTransferExtension", name, c)
ProofAccount(c) == <<R(IF c.offset = 0 THEN "context_state" ELSE "instructions_sysvar")>>

ct_initialize_mint(c) == Instruction(<<W("mint")>>, Ct("CtInitializeMint", c))
ct_update_mint(c) == Instruction(<<W("mint")>> \o Authority(c), Ct("CtUpdateMint", c))
ct_approve_account(c) ==
    Instruction(<<W("account"), R("mint")>> \o Authority(c), Ct("CtApproveAccount", c))
inner_configure_account(c) ==
    Instruction(<<W("account"), R("mint")>> \o ProofAccount(c) \o Authority(c), Ct("CtConfigureAccount", c))
inner_empty_account(c) ==
    Instruction(<<W("account")>> \o ProofAccount(c) \o Authority(c), Ct("CtEmptyAccount", c))
ct_deposit(c) == Instruction(<<W("account"), R("mint")>> \o Authority(c), Ct("CtDeposit", c))
inner_withdraw(c) ==
    Instruction(<<W("account"), R("mint")>> \o ProofAccount(c) \o Authority(c), Ct("CtWithdraw", c))
inner_transfer(c) ==
    Instruction(<<W("source"), R("mint"), W("destination")>> \o ProofAccount(c) \o Authority(c),
                Ct("CtTransfer", c))
inner_transfer_with_fee(source, mint, destination, c) ==
    Instruction(<<W(source), R(mint), W(destination)>> \o ProofAccount(c) \o Authority(c),
                Ct("CtTransfer", c))
apply_pending_balance(c) ==
    Instruction(<<W("account")>> \o Authority(c), Ct("CtApplyPendingBalance", c))
enable_or_disable_balance_credits(name, c) == Instruction(<<W("account")>> \o Authority(c), Ct(name, c))

(* The context accounts of a split proof, writable when they are closed.   *)
SplitProofs(contexts, c) ==
    LET closing == <<W("lamport_destination"), new_readonly("context_authority", TRUE),
                     R("zk_token_proof_program")>>
        Metas2 == [i \in DOMAIN contexts |->
                       IF c.close THEN W(contexts[i]) ELSE R(contexts[i])]
    IN  Instruction(<<W("source"), R("mint"), W("destination")>> \o Metas2
                        \o <<new_readonly("authority", TRUE)>> \o (IF c.close THEN closing ELSE <<>>),
                    Ct("CtTransferWithSplitProofs", c))
transfer_with_split_proofs(c) == SplitProofs(<<"equality", "validity", "range">>, c)
transfer_with_fee_and_split_proofs(c) ==
    SplitProofs(<<"equality", "validity", "fee_sigma", "fee_validity", "range">>, c)

Cf(name, c) == encode_instruction("ConfidentialTransferFeeExtension", name, c)
initialize_confidential_transfer_fee_config(c) ==
    Instruction(<<W("mint")>>, Cf("CfInitializeConfig", c))

(* These two put the multisig signers down as accounts that do not sign.   *)
Unsigned(c) == <<new_readonly("authority", c.signers = <<>>)>> \o Writables(c.signers)
inner_withdraw_withheld_tokens_from_mint(c) ==
    Instruction(<<W("mint"), W("destination")>> \o ProofAccount(c) \o Unsigned(c),
                Cf("CfWithdrawWithheldTokensFromMint", c))
inner_withdraw_withheld_tokens_from_accounts(c) ==
    Instruction(<<W("mint"), W("destination")>> \o ProofAccount(c) \o Unsigned(c) \o Writables(c.sources),
                Cf("CfWithdrawWithheldTokensFromAccounts", c))
cf_harvest_withheld_tokens_to_mint(c) ==
    Instruction(<<W("mint")>> \o Writables(c.sources), Cf("CfHarvestWithheldTokensToMint", c))
enable_harvest_to_mint(c) ==
    Instruction(<<W("mint")>> \o Authority(c), Cf("CfEnableHarvestToMint", c))
disable_harvest_to_mint(c) ==
    Instruction(<<W("mint")>> \o Authority(c), Cf("CfDisableHarvestToMint", c))

(* A constructor puts the proof right behind the instruction, and refuses  *)
(* another offset.  A client of the inner constructor puts it at the       *)
(* offset itself, here with one instruction between at most.               *)
Constructor(ix, proof, c) ==
    IF c.offset = 0 THEN <<ix>> ELSE IF c.offset = 1 THEN <<ix, VerifyProof(proof)>> ELSE <<>>
Placed(ix, proof, c) ==
    LET between == [i \in 1 .. (IF c.offset < 0 THEN 0 - c.offset ELSE c.offset) - 1 |-> VerifyProof("Other")]
    IN  IF c.offset < 0 THEN <<VerifyProof(proof)>> \o between \o <<ix>>
        ELSE <<ix>> \o between \o <<VerifyProof(proof)>>

configure_account(c) == Constructor(inner_configure_account(c), "VerifyPubkeyValidity", c)
empty_account(c) == Constructor(inner_empty_account(c), "VerifyZeroBalance", c)
ct_withdraw(c) == Constructor(inner_withdraw(c), "VerifyWithdraw", c)
ct_transfer(c) == Constructor(inner_transfer(c), "VerifyTransfer", c)
ct_transfer_with_fee(c) ==
    Constructor(inner_transfer_with_fee("source", "destination", "mint", c), "VerifyTransferWithFee", c)
cf_withdraw_withheld_tokens_from_mint(c) ==
    Constructor(inner_withdraw_withheld_tokens_from_mint(c), "VerifyCiphertextCiphertextEquality", c)
cf_withdraw_withheld_tokens_from_accounts(c) ==
    Constructor(inner_withdraw_withheld_tokens_from_accounts(c), "VerifyCiphertextCiphertextEquality", c)
-----------------------------------------------------------------------------
(* What a handler takes from the accounts: the accounts it reads by        *)
(* position, which of them it writes (w) or wants to have signed (s), how  *)
(* it validates the last one, and what it takes the others for.            *)
Takes(roles, validates, others, proof) ==
    [roles |-> roles, validates |-> validates, others |-> others, proof |-> proof]
r(role) == [role |-> role, w |-> FALSE, s |-> FALSE]
w(role) == [role |-> role, w |-> TRUE, s |-> FALSE]
ws(role) == [role |-> role, w |-> TRUE, s |-> TRUE]
Free(roles) == Takes(roles, "nothing", "nothing", "none")
Owned(roles) == Takes(roles \o <<r("authority")>>, "owner", "signers", "none")
Rent(rent) == IF rent THEN <<r("rent")>> ELSE <<>>
MintIf(given) == IF given THEN <<r("mint")>> ELSE <<>>

process_initialize_mint(rent) == Free(<<w("mint")>> \o Rent(rent))
process_initialize_account(owner_given, rent) ==
    Free(<<w("account"), r("mint")>> \o (IF owner_given THEN <<>> ELSE <<r("owner")>>) \o Rent(rent))
process_initialize_multisig(rent) ==
    Takes(<<w("multisig")>> \o Rent(rent), "nothing", "signers", "none")
process_transfer(decimals_given) ==
    Owned(<<w("source")>> \o MintIf(decimals_given) \o <<w("destination")>>)
process_approve(decimals_given) == Owned(<<w("source")>> \o MintIf(decimals_given) \o <<r("delegate")>>)
process_close_account == Owned(<<w("account"), w("destination")>>)
process_reallocate == Owned(<<w("account"), ws("payer"), r("system_program")>>)
process_create_native_mint == Free(<<ws("payer"), w("native_mint"), r("system_program")>>)

(* The proof is read before the authority; the account it is in depends on *)
(* the offset.  The mint decides which proof a transfer takes.             *)
WithProof(roles, others, proof, offset) ==
    Takes(roles \o <<r(IF offset = 0 THEN "context_state" ELSE "instructions_sysvar"), r("authority")>>,
          "owner", others, IF offset = 0 THEN "none" ELSE proof)
process_confidential_transfer(offset, fee) ==
    WithProof(<<w("source"), r("mint"), w("destination")>>, "signers",
              IF fee THEN "VerifyTransferWithFee" ELSE "VerifyTransfer", offset)
process_split_transfer(fee) ==
    Owned(<<w("source"), r("mint"), w("destination"), r("equality"), r("validity")>>
              \o (IF fee THEN <<r("fee_sigma"), r("fee_validity")>> ELSE <<>>) \o <<r("range")>>)
Refused == Takes(<<>>, "refused", "nothing", "none")

(* Processor::process and the process_instruction of each extension. *)
process(name, f, fee) ==
    CASE name = "InitializeMint" -> process_initialize_mint(TRUE)
      [] name = "InitializeMint2" -> process_initialize_mint(FALSE)
      [] name = "InitializeAccount" -> process_initialize_account(FALSE, TRUE)
      [] name = "InitializeAccount2" -> process_initialize_account(TRUE, TRUE)
      [] name = "InitializeAccount3" -> process_initialize_account(TRUE, FALSE)
      [] name = "InitializeMultisig" -> process_initialize_multisig(TRUE)
      [] name = "InitializeMultisig2" -> process_initialize_multisig(FALSE)
      [] name = "Transfer" -> process_transfer(FALSE)
      [] name \in {"TransferChecked", "TransferCheckedWithFee"} -> process_transfer(TRUE)
      [] name = "Approve" -> process_approve(FALSE)
      [] name = "ApproveChecked" -> process_approve(TRUE)
      [] name = "Revoke" -> Owned(<<w("source")>>)
      [] name = "SetAuthority" -> Owned(<<w("owned")>>)
      [] name \in {"MintTo", "MintToChecked"} -> Owned(<<w("mint"), w("account")>>)
      [] name \in {"Burn", "BurnChecked"} -> Owned(<<w("account"), w("mint")>>)
      [] name = "CloseAccount" -> process_close_account
      [] name \in {"FreezeAccount", "ThawAccount"} -> Owned(<<w("account"), r("mint")>>)
      [] name \in {"SyncNative", "InitializeImmutableOwner"} -> Free(<<w("account")>>)
      [] name \in {"GetAccountDataSize", "AmountToUiAmount", "UiAmountToAmount"} -> Free(<<r("mint")>>)
      [] name = "Reallocate" -> process_reallocate
      [] name = "CreateNativeMint" -> process_create_native_mint
      [] name = "WithdrawExcessLamports" -> Owned(<<w("source"), w("destination")>>)
      [] name \in {"InitializeMintCloseAuthority", "InitializeNonTransferableMint",
                   "InitializePermanentDelegate", "InitializeTransferFeeConfig", "StateInitialize",
                   "RateInitialize", "HookInitialize", "PointerInitialize", "CtInitializeMint",
                   "CfInitializeConfig"} -> Free(<<w("mint")>>)
      [] name \in {"SetTransferFee", "StateUpdate", "RateUpdate", "HookUpdate", "PointerUpdate",
                   "CfEnableHarvestToMint", "CfDisableHarvestToMint"} -> Owned(<<w("mint")>>)
      [] name \in {"MemoEnable", "MemoDisable", "GuardEnable", "GuardDisable",
                   "CtApplyPendingBalance", "CtEnableConfidentialCredits",
                   "CtDisableConfidentialCredits", "CtEnableNonConfidentialCredits",
                   "CtDisableNonConfidentialCredits"} -> Owned(<<w("account")>>)
      [] name = "WithdrawWithheldTokensFromMint" -> Owned(<<w("mint"), w("destination")>>)
      [] name = "WithdrawWithheldTokensFromAccounts" ->
             Takes(<<r("mint"), w("destination"), r("authority")>>, "owner", "signers_and_sources", "none")
      [] name \in {"HarvestWithheldTokensToMint", "CfHarvestWithheldTokensToMint"} ->
             Takes(<<w("mint")>>, "nothing", "sources", "none")
      [] name = "CtUpdateMint" -> Takes(<<w("mint"), r("authority")>>, "signature", "nothing", "none")
      [] name = "CtApproveAccount" ->
             Takes(<<w("account"), r("mint"), r("authority")>>, "signature", "nothing", "none")
      [] name = "CtConfigureAccount" ->
             WithProof(<<w("account"), r("mint")>>, "signers", "VerifyPubkeyValidity", f.proof_instruction_offset)
      [] name = "CtEmptyAccount" ->
             WithProof(<<w("account")>>, "signers", "VerifyZeroBalance", f.proof_instruction_offset)
      [] name = "CtDeposit" -> Owned(<<w("account"), r("mint")>>)
      [] name = "CtWithdraw" ->
             WithProof(<<w("account"), r("mint")>>, "signers", "VerifyWithdraw", f.proof_instruction_offset)
      [] name = "CtTransfer" -> process_confidential_transfer(f.proof_instruction_offset, fee)
      [] name = "CtTransferWithSplitProofs" -> IF f.close = 1 THEN Refused ELSE process_split_transfer(fee)
      [] name = "CfWithdrawWithheldTokensFromMint" ->
             WithProof(<<w("mint"), w("destination")>>, "signers", "VerifyCiphertextCiphertextEquality",
                       f.proof_instruction_offset)
      [] name = "CfWithdrawWithheldTokensFromAccounts" ->
             WithProof(<<r("mint"), w("destination")>>, "signers_and_sources",
                       "VerifyCiphertextCiphertextEquality", f.proof_instruction_offset)
      [] OTHER -> Refused
-----------------------------------------------------------------------------
(* The signers of the authority, where it is a multisig, must all sign;    *)
(* here they are as many as it requires.                                   *)
validate_owner(authority, given, multisig) ==
    IF multisig # <<>>
    THEN /\ \A i \in DOMAIN given : given[i].key \in ToSet(multisig) => given[i].is_signer
         /\ Cardinality({given[i].key : i \in DOMAIN given} \cap ToSet(multisig)) >= Len(multisig)
    ELSE authority.is_signer

(* get_instruction_relative and decode_proof_instruction_context. *)
ProofFound(at, offset, proof) ==
    /\ at + offset \in DOMAIN tx
    /\ tx[at + offset].program = proof

(* The outcome for the instruction at a position; multisig and fee are     *)
(* what the authority and the mint are.  num_signers is a saturating_sub.  *)
Keys(metas) == [i \in DOMAIN metas |-> metas[i].key]
FieldsRead(values) ==
    [x \in {values[i][1] : i \in DOMAIN values} |->
        values[CHOOSE i \in DOMAIN values : values[i][1] = x][2]]
Outcome(at, multisig, ix, d, f, h) ==
    LET n == Len(h.roles)
        rest == SubSeq(ix.accounts, n + 1, Len(ix.accounts))
        num_signers ==
            CASE h.others = "signers" -> Len(rest)
              [] h.others = "signers_and_sources" ->
                     IF f.num_token_accounts <= Len(rest) THEN Len(rest) - f.num_token_accounts ELSE 0
              [] OTHER -> 0
        given == SubSeq(rest, 1, num_signers)
        taken == SubSeq(rest, num_signers + 1, Len(rest))
        enough == n <= Len(ix.accounts)
    IN  [name |-> d.name, fields |-> f,
         ok |-> /\ h.validates # "refused"
                /\ enough
                /\ h.validates = "owner" => validate_owner(ix.accounts[n], given, multisig)
                /\ h.validates = "signature" => ix.accounts[n].is_signer
                /\ h.proof # "none" => ProofFound(at, f.proof_instruction_offset, h.proof)
                /\ \A i \in 1 .. n : /\ h.roles[i].w => ix.accounts[i].is_writable
                                     /\ h.roles[i].s => ix.accounts[i].is_signer
                /\ h.others \in {"sources", "signers_and_sources"} =>
                       \A i \in DOMAIN taken : taken[i].is_writable,
         roles |-> [i \in 1 .. n |-> h.roles[i].role],
         keys |-> IF enough THEN Keys(SubSeq(ix.accounts, 1, n)) ELSE <<>>,
         signers |-> Keys(given), sources |-> Keys(taken)]
Processed(at, multisig, fee) ==
    LET d == decode(tx[at].data)
        f == FieldsRead(d.values)
    IN  Outcome(at, multisig, tx[at], d, f, process(d.name, f, fee))
-----------------------------------------------------------------------------
(* What a client may ask for.  Where a mint takes fees the client uses the *)
(* builder for fees; where an authority is a multisig it gives signers.    *)
Plain == [signers |-> <<>>, sources |-> <<>>, offset |-> 0, optional |-> TRUE,
          close |-> FALSE, fee |-> FALSE]
Options == {[Plain EXCEPT !.optional = b] : b \in BOOLEAN}
Authorised == {[o EXCEPT !.signers = s] : o \in Options, s \in Signers}
Multisigned == {c \in Authorised : c.signers # <<>>}
Collecting == {[a EXCEPT !.sources = s] : a \in Authorised, s \in Sources}
Proving == {[a EXCEPT !.offset = o] : a \in {x \in Authorised : x.optional}, o \in Offsets \cup {0}}
ProvingFee == {[p EXCEPT !.fee = TRUE] : p \in Proving}
ProvingCollected == {[p EXCEPT !.sources = s] : p \in Proving, s \in Sources}
Splitting == {[Plain EXCEPT !.close = b] : b \in BOOLEAN}
SplittingFee == {[p EXCEPT !.fee = TRUE] : p \in Splitting}

(* The builder returns an error when the number of sources does not fit.   *)
Counted(name) == name \in {"WithdrawWithheldTokensFromAccounts", "CfWithdrawWithheldTokensFromAccounts"}

(* The client calls a builder and puts what it returns into the            *)
(* transaction; it combines builders that bring their proof along.         *)
Send(builder, name, c, ixs) ==
    LET at == CHOOSE i \in DOMAIN ixs : ixs[i].program = "token"
    IN  /\ read = <<>>
        /\ \/ calls = <<>>
           \/ Len(calls) = 1 /\ calls[1].c.offset # 0 /\ c.offset # 0
        /\ ixs # <<>>
        /\ Counted(name) => u8_try_from(Len(c.sources)) # -1
        /\ calls' = Append(calls, [builder |-> builder, name |-> name, c |-> c, at |-> Len(tx) + at])
        /\ tx' = tx \o ixs
        /\ UNCHANGED read

SendPlain(c) ==
    \/ Send("initialize_mint", "InitializeMint", c, <<initialize_mint(c)>>)
    \/ Send("initialize_mint2", "InitializeMint2", c, <<initialize_mint2(c)>>)
    \/ Send("initialize_account", "InitializeAccount", c, <<initialize_account(c)>>)
    \/ Send("initialize_account2", "InitializeAccount2", c, <<initialize_account2(c)>>)
    \/ Send("initialize_account3", "InitializeAccount3", c, <<initialize_account3(c)>>)
    \/ Send("sync_native", "SyncNative", c, <<sync_native(c)>>)
    \/ Send("get_account_data_size", "GetAccountDataSize", c, <<get_account_data_size(c)>>)
    \/ Send("initialize_mint_close_authority", "InitializeMintCloseAuthority", c, <<initialize_mint_close_authority(c)>>)
    \/ Send("initialize_immutable_owner", "InitializeImmutableOwner", c, <<initialize_immutable_owner(c)>>)
    \/ Send("amount_to_ui_amount", "AmountToUiAmount", c, <<amount_to_ui_amount(c)>>)
    \/ Send("ui_amount_to_amount", "UiAmountToAmount", c, <<ui_amount_to_amount(c)>>)
    \/ Send("create_native_mint", "CreateNativeMint", c, <<create_native_mint(c)>>)
    \/ Send("initialize_non_transferable_mint", "InitializeNonTransferableMint", c, <<initialize_non_transferable_mint(c)>>)
    \/ Send("initialize_permanent_delegate", "InitializePermanentDelegate", c, <<initialize_permanent_delegate(c)>>)
    \/ Send("initialize_transfer_fee_config", "InitializeTransferFeeConfig", c, <<initialize_transfer_fee_config(c)>>)
    \/ Send("initialize_default_account_state", "StateInitialize", c, <<initialize_default_account_state(c)>>)
    \/ Send("initialize_rate", "RateInitialize", c, <<initialize_rate(c)>>)
    \/ Send("initialize_hook", "HookInitialize", c, <<initialize_hook(c)>>)
    \/ Send("initialize_pointer", "PointerInitialize", c, <<initialize_pointer(c)>>)
    \/ Send("ct_initialize_mint", "CtInitializeMint", c, <<ct_initialize_mint(c)>>)
    \/ Send("initialize_confidential_transfer_fee_config", "CfInitializeConfig", c, <<initialize_confidential_transfer_fee_config(c)>>)
SendOwned(c) ==
    \/ Send("transfer", "Transfer", c, <<transfer(c)>>)
    \/ Send("approve", "Approve", c, <<approve(c)>>)
    \/ Send("revoke", "Revoke", c, <<revoke(c)>>)
    \/ Send("set_authority", "SetAuthority", c, <<set_authority(c)>>)
    \/ Send("mint_to", "MintTo", c, <<mint_to(c)>>)
    \/ Send("burn", "Burn", c, <<burn(c)>>)
    \/ Send("close_account", "CloseAccount", c, <<close_account(c)>>)
    \/ Send("freeze_account", "FreezeAccount", c, <<freeze_account(c)>>)
    \/ Send("thaw_account", "ThawAccount", c, <<thaw_account(c)>>)
    \/ Send("transfer_checked", "TransferChecked", c, <<transfer_checked(c)>>)
    \/ Send("approve_checked", "ApproveChecked", c, <<approve_checked(c)>>)
    \/ Send("mint_to_checked", "MintToChecked", c, <<mint_to_checked(c)>>)
    \/ Send("burn_checked", "BurnChecked", c, <<burn_checked(c)>>)
    \/ Send("reallocate", "Reallocate", c, <<reallocate(c)>>)
    \/ Send("withdraw_excess_lamports", "WithdrawExcessLamports", c, <<withdraw_excess_lamports(c)>>)
    \/ Send("transfer_checked_with_fee", "TransferCheckedWithFee", c, <<transfer_checked_with_fee(c)>>)
    \/ Send("withdraw_withheld_tokens_from_mint", "WithdrawWithheldTokensFromMint", c, <<withdraw_withheld_tokens_from_mint(c)>>)
    \/ Send("set_transfer_fee", "SetTransferFee", c, <<set_transfer_fee(c)>>)
    \/ Send("update_default_account_state", "StateUpdate", c, <<update_default_account_state(c)>>)
    \/ Send("enable_required_transfer_memos", "MemoEnable", c, <<enable_required_transfer_memos(c)>>)
    \/ Send("disable_required_transfer_memos", "MemoDisable", c, <<disable_required_transfer_memos(c)>>)
    \/ Send("update_rate", "RateUpdate", c, <<update_rate(c)>>)
    \/ Send("enable_cpi_guard", "GuardEnable", c, <<enable_cpi_guard(c)>>)
    \/ Send("disable_cpi_guard", "GuardDisable", c, <<disable_cpi_guard(c)>>)
    \/ Send("update_hook", "HookUpdate", c, <<update_hook(c)>>)
    \/ Send("update_pointer", "PointerUpdate", c, <<update_pointer(c)>>)
    \/ Send("ct_update_mint", "CtUpdateMint", c, <<ct_update_mint(c)>>)
    \/ Send("ct_approve_account", "CtApproveAccount", c, <<ct_approve_account(c)>>)
    \/ Send("ct_deposit", "CtDeposit", c, <<ct_deposit(c)>>)
    \/ Send("apply_pending_balance", "CtApplyPendingBalance", c, <<apply_pending_balance(c)>>)
    \/ Send("enable_harvest_to_mint", "CfEnableHarvestToMint", c, <<enable_harvest_to_mint(c)>>)
    \/ Send("disable_harvest_to_mint", "CfDisableHarvestToMint", c, <<disable_harvest_to_mint(c)>>)
    \/ Send("enable_or_disable_balance_credits", "CtEnableConfidentialCredits", c,
            <<enable_or_disable_balance_credits("CtEnableConfidentialCredits", c)>>)
    \/ Send("enable_or_disable_balance_credits", "CtDisableConfidentialCredits", c,
            <<enable_or_disable_balance_credits("CtDisableConfidentialCredits", c)>>)
    \/ Send("enable_or_disable_balance_credits", "CtEnableNonConfidentialCredits", c,
            <<enable_or_disable_balance_credits("CtEnableNonConfidentialCredits", c)>>)
    \/ Send("enable_or_disable_balance_credits", "CtDisableNonConfidentialCredits", c,
            <<enable_or_disable_balance_credits("CtDisableNonConfidentialCredits", c)>>)
SendProving(c) ==
    \/ Send("configure_account", "CtConfigureAccount", c, configure_account(c))
    \/ c.offset # 0 /\ Send("inner_configure_account", "CtConfigureAccount", c, Placed(inner_configure_account(c), "VerifyPubkeyValidity", c))
    \/ Send("empty_account", "CtEmptyAccount", c, empty_account(c))
    \/ c.offset # 0 /\ Send("inner_empty_account", "CtEmptyAccount", c, Placed(inner_empty_account(c), "VerifyZeroBalance", c))
    \/ Send("ct_withdraw", "CtWithdraw", c, ct_withdraw(c))
    \/ c.offset # 0 /\ Send("inner_withdraw", "CtWithdraw", c, Placed(inner_withdraw(c), "VerifyWithdraw", c))
    \/ Send("ct_transfer", "CtTransfer", c, ct_transfer(c))
    \/ c.offset # 0 /\ Send("inner_transfer", "CtTransfer", c, Placed(inner_transfer(c), "VerifyTransfer", c))
    \/ Send("cf_withdraw_withheld_tokens_from_mint", "CfWithdrawWithheldTokensFromMint", c, cf_withdraw_withheld_tokens_from_mint(c))
    \/ c.offset # 0 /\ Send("inner_withdraw_withheld_tokens_from_mint", "CfWithdrawWithheldTokensFromMint", c, Placed(inner_withdraw_withheld_tokens_from_mint(c), "VerifyCiphertextCiphertextEquality", c))
SendProvingFee(c) ==
    \/ Send("transfer_with_fee", "CtTransfer", c, ct_transfer_with_fee(c))
    \/ /\ c.offset # 0
       /\ Send("inner_transfer_with_fee", "CtTransfer", c,
               Placed(inner_transfer_with_fee("source", "mint", "destination", c), "VerifyTransferWithFee", c))
SendCollecting(c) ==
    \/ Send("withdraw_withheld_tokens_from_accounts", "WithdrawWithheldTokensFromAccounts", c,
            <<withdraw_withheld_tokens_from_accounts(c)>>)
    \/ /\ c.signers = <<>>
       /\ \/ Send("harvest_withheld_tokens_to_mint", "HarvestWithheldTokensToMint", c,
                  <<harvest_withheld_tokens_to_mint(c)>>)
          \/ Send("cf_harvest_withheld_tokens_to_mint", "CfHarvestWithheldTokensToMint", c,
                  <<cf_harvest_withheld_tokens_to_mint(c)>>)
SendProvingCollected(c) ==
    Send("cf_withdraw_withheld_tokens_from_accounts", "CfWithdrawWithheldTokensFromAccounts", c,
         cf_withdraw_withheld_tokens_from_accounts(c))

(* The program processes the instructions of the transaction in order; the *)
(* proof program verifies the proofs.                                      *)
Process ==
    /\ tx # <<>>
    /\ Len(read) < Len(tx)
    /\ LET at == Len(read) + 1
           k == CHOOSE i \in DOMAIN calls : calls[i].at = at
       IN  read' = Append(read, IF tx[at].program = "token"
                                THEN Processed(at, calls[k].c.signers, calls[k].c.fee)
                                ELSE [name |-> tx[at].program])
    /\ UNCHANGED <<calls, tx>>

WireInit == calls = <<>> /\ tx = <<>> /\ read = <<>>
WireNext ==
    \/ \E c \in Options : SendPlain(c)
    \/ \E c \in Authorised : SendOwned(c)
    \/ \E c \in Multisigned : \/ Send("initialize_multisig", "InitializeMultisig", c, <<initialize_multisig(c)>>)
                              \/ Send("initialize_multisig2", "InitializeMultisig2", c, <<initialize_multisig2(c)>>)
    \/ \E c \in Proving : SendProving(c)
    \/ \E c \in ProvingFee : SendProvingFee(c)
    \/ \E c \in Collecting : SendCollecting(c)
    \/ \E c \in ProvingCollected : SendProvingCollected(c)
    \/ \E c \in Splitting : Send("transfer_with_split_proofs", "CtTransferWithSplitProofs", c,
                                 <<transfer_with_split_proofs(c)>>)
    \/ \E c \in SplittingFee : Send("transfer_with_fee_and_split_proofs", "CtTransferWithSplitProofs", c,
                                    <<transfer_with_fee_and_split_proofs(c)>>)
    \/ Process
-----------------------------------------------------------------------------
(* The fields that the enumeration gives the instruction. *)
FieldsOf(name) ==
    IF name \in DOMAIN pack THEN ToSet(pack[name][2])
    ELSE LET x == CHOOSE e \in DOMAIN Extension : \E i \in DOMAIN Extension[e] : Extension[e][i][1] = name
         IN  ToSet(Extension[x][Discriminant(x, name) + 1][2])

(* The program does what the client asked for: it decodes the instruction  *)
(* and its fields, takes every account for what the client gave it as, may *)
(* write what it writes, and has the signatures it wants.                  *)
AsMeant(call, out) ==
    /\ out.ok
    /\ out.name = call.name
    /\ out.fields = [x \in FieldsOf(call.name) |-> Argument(x, call.c)]
    /\ out.keys = out.roles
    /\ out.signers = call.c.signers
    /\ out.sources = call.c.sources

(* Where a builder and its handler do not agree: transfer_with_fee swaps   *)
(* the mint and the destination; the program does not close contexts yet;  *)
(* two builders of the confidential fee do not mark the signers, and two   *)
(* handlers of the confidential mint want the authority's own signature.   *)
Disagree(call) ==
    \/ call.builder = "transfer_with_fee"
    \/ call.c.close
    \/ /\ call.c.signers # <<>>
       /\ call.name \in {"CtUpdateMint", "CtApproveAccount", "CfWithdrawWithheldTokensFromMint",
                         "CfWithdrawWithheldTokensFromAccounts"}

(* PROPERTY.  Whatever builder a client calls, with a single authority or  *)
(* a multisig, with any number of source accounts, the proof in an account *)
(* or anywhere in the transaction, alone or next to another instruction    *)
(* with a proof, the program reads the instruction as it was meant, except *)
(* for the calls of Disagree, none of which it carries out as meant.       *)
ReadAsSent ==
    \A k \in DOMAIN calls :
        calls[k].at <= Len(read) => (AsMeant(calls[k], read[calls[k].at]) <=> ~Disagree(calls[k]))

(* PROPERTY.  The accounts of a confidential transfer, in the order that   *)
(* the documentation of ConfidentialTransferInstruction::Transfer gives:   *)
(* the source, the mint, the destination, writable but for the mint.       *)
TransferAsDocumented ==
    \A k \in DOMAIN calls :
        calls[k].name = "CtTransfer" =>
            SubSeq(tx[calls[k].at].accounts, 1, 3) = <<W("source"), R("mint"), W("destination")>>
=============================================================================
