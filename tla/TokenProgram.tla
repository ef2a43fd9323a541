---------------------------- MODULE TokenProgram ----------------------------
(***************************************************************************)
(* The Token-2022 program: mints, token accounts and multisignatures, one  *)
(* action per instruction.  An instruction that fails changes nothing, so  *)
(* its conditions are guards.  Of the data of an account the model keeps   *)
(* the fields; a length is a number of extension slots after the base.     *)
(***************************************************************************)
EXTENDS FeeArithmetic, FiniteSetsExt, Sequences

CONSTANTS
    TokenKeys,         \* keys that token accounts are created at
    MintKeys,          \* keys that mints are created at
    NativeMint,        \* the mint of wrapped lamports
    Wallets,           \* keys that sign, own and receive
    MultisigKeys,      \* keys that multisignatures are created at
    Incinerator,       \* an owner nobody signs for
    None,              \* no key
    Amounts,           \* the amounts instructions carry
    BasisPoints,       \* the fee rates instructions carry
    MaxSlots,          \* the largest length of an account
    MaxLamports,       \* the lamports an account may be given from outside
    MaxEpoch           \* the last epoch

Keys == TokenKeys \cup MintKeys
Owners == Wallets \cup MultisigKeys \cup {Incinerator}

ASSUME KeysAssumption ==
    /\ TokenKeys \cap MintKeys = {}
    /\ None \notin Owners \cup Keys
    /\ Wallets \cap MultisigKeys = {}
    /\ Incinerator \notin Wallets \cup MultisigKeys
    /\ IsFiniteSet(TokenKeys)

ASSUME BoundsAssumption ==
    /\ MaxAmount \in Nat /\ Amounts \subseteq 0 .. MaxAmount
    /\ OneInBasisPoints \in Nat \ {0}
    /\ BasisPoints \subseteq 0 .. OneInBasisPoints
    /\ MaxSlots \in Nat /\ MaxLamports \in Nat /\ MaxEpoch \in Nat

VARIABLES
    \* the base of a token account
    state, mint, owner, amount, delegate, delegated_amount, is_native, close_authority,
    \* its extensions: their types, and the data of those that have some
    extensions, withheld_amount, lock_cpi, require_memo,
    \* a mint: its state, supply, the authorities by type, the extensions
    mint_state, supply, authority, mint_extensions, mint_withheld,
    older_fee, newer_fee, default_state, hook_program, metadata_address,
    \* the chain: multisignatures, lengths, lamports, the clock, and whether
    \* the next instruction is run from a program
    multisig, slots, lamports, epoch, in_cpi,
    \* history: what the delegate was last approved for, what it spent of it
    approved, spent

baseVars == <<state, mint, owner, amount, delegate, delegated_amount, is_native, close_authority>>
extVars == <<extensions, withheld_amount, lock_cpi, require_memo>>
feeVars == <<mint_withheld, older_fee, newer_fee>>
mintVars == <<mint_state, supply, authority, mint_extensions, mint_withheld,
              older_fee, newer_fee, default_state, hook_program, metadata_address>>
chainVars == <<multisig, slots, lamports, epoch, in_cpi>>
history == <<approved, spent>>
vars == <<baseVars, extVars, mintVars, chainVars, history>>
-----------------------------------------------------------------------------
MintExtension ==
    {"TransferFeeConfig", "MintCloseAuthority", "DefaultAccountState", "NonTransferable",
     "PermanentDelegate", "TransferHook", "MetadataPointer"}
AccountExtension ==
    {"TransferFeeAmount", "ImmutableOwner", "MemoTransfer", "NonTransferableAccount",
     "TransferHookAccount", "CpiGuard"}

AuthorityType ==
    {"MintTokens", "FreezeAccount", "CloseMint", "TransferFeeConfig", "WithheldWithdraw",
     "PermanentDelegate", "TransferHookProgramId", "MetadataPointer"}

(* The extension that holds an authority; the base holds the first two. *)
HeldBy(type) ==
    IF type = "CloseMint" THEN {"MintCloseAuthority"}
    ELSE IF type \in {"TransferFeeConfig", "WithheldWithdraw"} THEN {"TransferFeeConfig"}
    ELSE IF type = "TransferHookProgramId" THEN {"TransferHook"}
    ELSE IF type \in {"PermanentDelegate", "MetadataPointer"} THEN {type}
    ELSE {}

TransferFee ==
    [epoch : 0 .. MaxEpoch + 2, maximum_fee : 0 .. MaxAmount, basis_points : 0 .. OneInBasisPoints]
NoFee == [epoch |-> 0, maximum_fee |-> 0, basis_points |-> 0]
NoMultisig == [m |-> 0, signers |-> <<>>]

(* The rent an account of that length is exempt at. *)
MinimumBalance(n) == 1 + n

(* An account is initialized when its base can be unpacked. *)
Live(a) == state[a] \in {"initialized", "frozen"}
LiveMint(m) == mint_state[m] = "initialized"
IsNative(a) == is_native[a] # -1

(* The keys a multisignature names may repeat, and a signer matches every  *)
(* position of its key.                                                    *)
MatchedPositions(k, signers) ==
    {i \in 1 .. Len(multisig[k].signers) : multisig[k].signers[i] \in signers}

validate_owner(expected, who, signers) ==
    /\ expected = who
    /\ IF who \in MultisigKeys
       THEN /\ multisig[who].m > 0
            /\ Cardinality(MatchedPositions(who, signers)) >= multisig[who].m
       ELSE who \in signers

(* The types an account must have room for, by the extensions of its mint. *)
get_required_init_account_extensions(m) ==
    (IF "TransferFeeConfig" \in mint_extensions[m] THEN {"TransferFeeAmount"} ELSE {})
    \cup (IF "NonTransferable" \in mint_extensions[m] THEN {"NonTransferableAccount"} ELSE {})
    \cup (IF "TransferHook" \in mint_extensions[m] THEN {"TransferHookAccount"} ELSE {})

(* An extension is initialized in the slot it has, or in a free one. *)
HasRoom(present, added, n) == Cardinality(present \cup added) <= n
-----------------------------------------------------------------------------
get_epoch_fee(m, e) == IF e >= newer_fee[m].epoch THEN newer_fee[m] ELSE older_fee[m]

(* The fee of a transfer that names the mint. *)
EpochFee(m, x) ==
    IF "TransferFeeConfig" \in mint_extensions[m]
    THEN calculate_fee(get_epoch_fee(m, epoch), x)
    ELSE 0
-----------------------------------------------------------------------------
(* The system program: a new account is allocated for the token program. *)
CreateAccount(a, n, l) ==
    /\ state[a] = "none"
    /\ lamports[a] + l <= MaxLamports
    /\ state' = [state EXCEPT ![a] = "uninitialized"]
    /\ slots' = [slots EXCEPT ![a] = n]
    /\ lamports' = [lamports EXCEPT ![a] = @ + l]
    /\ UNCHANGED <<mint, owner, amount, delegate, delegated_amount, is_native, close_authority,
                   extVars, mintVars, multisig, epoch, in_cpi, history>>

CreateMintAccount(m, n, l) ==
    /\ mint_state[m] = "none"
    /\ m # NativeMint
    /\ lamports[m] + l <= MaxLamports
    /\ mint_state' = [mint_state EXCEPT ![m] = "uninitialized"]
    /\ slots' = [slots EXCEPT ![m] = n]
    /\ lamports' = [lamports EXCEPT ![m] = @ + l]
    /\ UNCHANGED <<baseVars, extVars, supply, authority, mint_extensions, feeVars, default_state,
                   hook_program, metadata_address, multisig, epoch, in_cpi, history>>

(* Anybody may send lamports to an account. *)
Fund(k, l) ==
    /\ lamports[k] + l <= MaxLamports
    /\ lamports' = [lamports EXCEPT ![k] = @ + l]
    /\ UNCHANGED <<baseVars, extVars, mintVars, multisig, slots, epoch, in_cpi, history>>

NextEpoch ==
    /\ epoch < MaxEpoch
    /\ epoch' = epoch + 1
    /\ UNCHANGED <<baseVars, extVars, mintVars, multisig, slots, lamports, in_cpi, history>>

(* The next instruction is at the top of a transaction, or run by a program. *)
SwitchLevel ==
    /\ in_cpi' = ~in_cpi
    /\ UNCHANGED <<baseVars, extVars, mintVars, multisig, slots, lamports, epoch, history>>
-----------------------------------------------------------------------------
(* The number of required signers is not compared with the number given. *)
InitializeMultisig(k, m, signers) ==
    /\ multisig[k].m = 0
    /\ Len(signers) >= 1 /\ m >= 1
    /\ multisig' = [multisig EXCEPT ![k] = [m |-> m, signers |-> signers]]
    /\ UNCHANGED <<baseVars, extVars, mintVars, slots, lamports, epoch, in_cpi, history>>

(* A mint gets its extensions before it is initialized. *)
InitExtension(m, type) ==
    /\ mint_state[m] = "uninitialized"
    /\ HasRoom(mint_extensions[m], {type}, slots[m])
    /\ mint_extensions' = [mint_extensions EXCEPT ![m] = @ \cup {type}]
    /\ UNCHANGED <<baseVars, extVars, mint_state, supply, chainVars, history>>

InitializeMintCloseAuthority(m, k) ==
    /\ InitExtension(m, "MintCloseAuthority")
    /\ authority' = [authority EXCEPT ![m]["CloseMint"] = k]
    /\ UNCHANGED <<feeVars, default_state, hook_program, metadata_address>>

InitializeTransferFeeConfig(m, config_authority, withdraw_authority, rate, maximum) ==
    /\ InitExtension(m, "TransferFeeConfig")
    /\ authority' = [authority EXCEPT ![m]["TransferFeeConfig"] = config_authority,
                                      ![m]["WithheldWithdraw"] = withdraw_authority]
    /\ LET fee == [epoch |-> epoch, maximum_fee |-> maximum, basis_points |-> rate]
       IN  /\ older_fee' = [older_fee EXCEPT ![m] = fee]
           /\ newer_fee' = [newer_fee EXCEPT ![m] = fee]
    /\ mint_withheld' = [mint_withheld EXCEPT ![m] = 0]
    /\ UNCHANGED <<default_state, hook_program, metadata_address>>

InitializeDefaultAccountState(m, st) ==
    /\ InitExtension(m, "DefaultAccountState")
    /\ default_state' = [default_state EXCEPT ![m] = st]
    /\ UNCHANGED <<authority, feeVars, hook_program, metadata_address>>

InitializeNonTransferableMint(m) ==
    /\ InitExtension(m, "NonTransferable")
    /\ UNCHANGED <<authority, feeVars, default_state, hook_program, metadata_address>>

InitializePermanentDelegate(m, k) ==
    /\ k # None
    /\ InitExtension(m, "PermanentDelegate")
    /\ authority' = [authority EXCEPT ![m]["PermanentDelegate"] = k]
    /\ UNCHANGED <<feeVars, default_state, hook_program, metadata_address>>

InitializeTransferHook(m, k, program) ==
    /\ k # None \/ program # None
    /\ InitExtension(m, "TransferHook")
    /\ authority' = [authority EXCEPT ![m]["TransferHookProgramId"] = k]
    /\ hook_program' = [hook_program EXCEPT ![m] = program]
    /\ UNCHANGED <<feeVars, default_state, metadata_address>>

InitializeMetadataPointer(m, k, address) ==
    /\ k # None \/ address # None
    /\ InitExtension(m, "MetadataPointer")
    /\ authority' = [authority EXCEPT ![m]["MetadataPointer"] = k]
    /\ metadata_address' = [metadata_address EXCEPT ![m] = address]
    /\ UNCHANGED <<feeVars, default_state, hook_program>>

(* The length must be exactly what the extensions take. *)
InitializeMint(m, mint_authority, freeze_authority) ==
    /\ mint_state[m] = "uninitialized"
    /\ lamports[m] >= MinimumBalance(slots[m])
    /\ Cardinality(mint_extensions[m]) = slots[m]
    /\ "DefaultAccountState" \in mint_extensions[m] /\ default_state[m] = "frozen"
           => freeze_authority # None
    /\ mint_state' = [mint_state EXCEPT ![m] = "initialized"]
    /\ authority' = [authority EXCEPT ![m]["MintTokens"] = mint_authority,
                                      ![m]["FreezeAccount"] = freeze_authority]
    /\ UNCHANGED <<baseVars, extVars, supply, mint_extensions, feeVars, default_state,
                   hook_program, metadata_address, chainVars, history>>

(* The mint of wrapped lamports has no authority and no extension. *)
CreateNativeMint ==
    /\ mint_state[NativeMint] = "none"
    /\ mint_state' = [mint_state EXCEPT ![NativeMint] = "initialized"]
    /\ lamports' = [lamports EXCEPT ![NativeMint] =
                        IF @ < MinimumBalance(0) THEN MinimumBalance(0) ELSE @]
    /\ UNCHANGED <<baseVars, extVars, supply, authority, mint_extensions, feeVars, default_state,
                   hook_program, metadata_address, multisig, slots, epoch, in_cpi, history>>
-----------------------------------------------------------------------------
InitializeImmutableOwner(a) ==
    /\ state[a] = "uninitialized"
    /\ HasRoom(extensions[a], {"ImmutableOwner"}, slots[a])
    /\ extensions' = [extensions EXCEPT ![a] = @ \cup {"ImmutableOwner"}]
    /\ UNCHANGED <<baseVars, withheld_amount, lock_cpi, require_memo, mintVars, chainVars, history>>

(* What the base of account a becomes; the extensions of a raw account     *)
(* carry no data.                                                          *)
InitializedBase(a, m, o, n, l) ==
    /\ state' = [state EXCEPT ![a] = IF "DefaultAccountState" \in mint_extensions[m]
                                     THEN default_state[m] ELSE "initialized"]
    /\ mint' = [mint EXCEPT ![a] = m]
    /\ owner' = [owner EXCEPT ![a] = o]
    /\ close_authority' = [close_authority EXCEPT ![a] = None]
    /\ delegate' = [delegate EXCEPT ![a] = None]
    /\ delegated_amount' = [delegated_amount EXCEPT ![a] = 0]
    /\ is_native' = [is_native EXCEPT ![a] = IF m = NativeMint THEN MinimumBalance(n) ELSE -1]
    /\ amount' = [amount EXCEPT ![a] = IF m = NativeMint THEN l - MinimumBalance(n) ELSE 0]
    /\ withheld_amount' = [withheld_amount EXCEPT ![a] = 0]
    /\ approved' = [approved EXCEPT ![a] = 0]
    /\ spent' = [spent EXCEPT ![a] = 0]
    /\ UNCHANGED <<lock_cpi, require_memo>>

InitializeAccount(a, m, o) ==
    LET required == get_required_init_account_extensions(m)
    IN  /\ state[a] = "uninitialized"
        /\ lamports[a] >= MinimumBalance(slots[a])
        /\ LiveMint(m)
        /\ HasRoom(extensions[a], required, slots[a])
        /\ extensions' = [extensions EXCEPT ![a] = @ \cup required]
        /\ InitializedBase(a, m, o, slots[a], lamports[a])
        /\ UNCHANGED <<mintVars, chainVars>>
-----------------------------------------------------------------------------
(* The authorities that may move tokens out of account a.  The permanent   *)
(* delegate of the mint is unlimited, the delegate of the account spends   *)
(* what it was approved for, and the owner is held by the CPI guard.       *)
IsPermanentDelegate(a, known, who) ==
    /\ known
    /\ "PermanentDelegate" \in mint_extensions[mint[a]]
    /\ authority[mint[a]]["PermanentDelegate"] = who

ByPermanentDelegate(a, known, who, signers) ==
    /\ IsPermanentDelegate(a, known, who)
    /\ validate_owner(who, who, signers)

ByDelegate(a, known, x, who, signers) ==
    /\ ~IsPermanentDelegate(a, known, who)
    /\ delegate[a] = who
    /\ validate_owner(who, who, signers)
    /\ delegated_amount[a] >= x

(* Mutant: the owner's signature is good in a call from a program, too. *)
ByOwnerAnywhere(a, known, who, signers) ==
    /\ ~IsPermanentDelegate(a, known, who)
    /\ delegate[a] # who
    /\ validate_owner(owner[a], who, signers)

ByOwner(a, known, who, signers) ==
    /\ ~IsPermanentDelegate(a, known, who)
    /\ delegate[a] # who
    /\ validate_owner(owner[a], who, signers)
    /\ ~(lock_cpi[a] /\ in_cpi)

(* Mutant: the allowance is not reduced. *)
SpendFreely(a, x) ==
    /\ delegated_amount[a] >= x
    /\ spent' = [spent EXCEPT ![a] = @ + x]
    /\ UNCHANGED <<delegate, delegated_amount>>

(* The delegate's allowance shrinks by what it spends, and it is dropped   *)
(* when nothing is left.                                                   *)
SpendAllowance(a, x) ==
    /\ delegated_amount' = [delegated_amount EXCEPT ![a] = @ - x]
    /\ delegate' = [delegate EXCEPT ![a] = IF delegated_amount[a] = x THEN None ELSE @]
    /\ spent' = [spent EXCEPT ![a] = @ + x]

KeepAllowance == UNCHANGED <<delegate, delegated_amount, spent>>

MoveLamports(s, d, x) ==
    /\ lamports[s] >= x
    /\ lamports' = [lamports EXCEPT ![s] = @ - x, ![d] = @ + x]

(* Mutant: the fee is withheld on top of the whole amount. *)
MoveAndWithhold(s, d, x, fee) ==
    /\ amount[d] + x <= MaxAmount
    /\ fee > 0 => "TransferFeeAmount" \in extensions[d] /\ withheld_amount[d] + fee <= MaxAmount
    /\ amount' = [amount EXCEPT ![s] = @ - x, ![d] = @ + x]
    /\ withheld_amount' = [withheld_amount EXCEPT ![d] = @ + fee]
    /\ IF IsNative(s) THEN MoveLamports(s, d, x) ELSE UNCHANGED lamports

(* Moving x from account s to account d; the fee of it is withheld in d. *)
Move(s, d, x, fee) ==
    /\ fee \in 0 .. x
    /\ amount[d] + x - fee <= MaxAmount
    /\ fee > 0 => "TransferFeeAmount" \in extensions[d] /\ withheld_amount[d] + fee <= MaxAmount
    /\ amount' = [amount EXCEPT ![s] = @ - x, ![d] = @ + x - fee]
    /\ withheld_amount' = [withheld_amount EXCEPT ![d] = @ + fee]
    /\ IF IsNative(s) THEN MoveLamports(s, d, x) ELSE UNCHANGED lamports

(* Mutant: the state of the destination is not looked at. *)
ReceivesFrozen(s, d, memo) ==
    /\ Live(d)
    /\ mint[d] = mint[s]
    /\ require_memo[d] => memo

(* The conditions on the two accounts of a transfer. *)
Sends(s, x, checked) ==
    /\ state[s] = "initialized"
    /\ amount[s] >= x
    /\ "NonTransferableAccount" \notin extensions[s]
    /\ IF checked
       THEN LiveMint(mint[s])
       ELSE extensions[s] \cap {"TransferHookAccount", "TransferFeeAmount"} = {}

Receives(s, d, memo) ==
    /\ state[d] = "initialized"
    /\ mint[d] = mint[s]
    /\ require_memo[d] => memo

(* A hook is run after the move, on accounts that can be marked as being   *)
(* transferred; when it refuses, the transfer fails.                       *)
HookRuns(s, d, checked) ==
    checked /\ "TransferHook" \in mint_extensions[mint[s]] /\ hook_program[mint[s]] # None
        => "TransferHookAccount" \in extensions[s] \cap extensions[d]

TransferFeeOf(s, x, checked) == IF checked THEN EpochFee(mint[s], x) ELSE 0

(* Transfer, TransferChecked (the mint is given) and TransferCheckedWithFee *)
(* (the fee is, too).                                                       *)
Transfer(s, d, x, checked, who, signers, memo) ==
    /\ s # d
    /\ Sends(s, x, checked)
    /\ Receives(s, d, memo)
    /\ HookRuns(s, d, checked)
    /\ Move(s, d, x, TransferFeeOf(s, x, checked))
    /\ \/ ByPermanentDelegate(s, checked, who, signers) /\ KeepAllowance
       \/ ByDelegate(s, checked, x, who, signers) /\ SpendAllowance(s, x)
       \/ ByOwner(s, checked, who, signers) /\ KeepAllowance
    /\ UNCHANGED <<state, mint, owner, is_native, close_authority, extensions, lock_cpi,
                   require_memo, mintVars, multisig, slots, epoch, in_cpi, approved>>

(* A transfer to the source itself is checked and then changes nothing. *)
SelfTransfer(a, x, checked, who, signers) ==
    /\ Sends(a, x, checked)
    /\ \/ ByPermanentDelegate(a, checked, who, signers)
       \/ ByDelegate(a, checked, x, who, signers)
       \/ ByOwner(a, checked, who, signers)
    /\ UNCHANGED vars

Approve(a, k, x, who, signers) ==
    /\ state[a] = "initialized"
    /\ validate_owner(owner[a], who, signers)
    /\ ~(lock_cpi[a] /\ in_cpi)
    /\ delegate' = [delegate EXCEPT ![a] = k]
    /\ delegated_amount' = [delegated_amount EXCEPT ![a] = x]
    /\ approved' = [approved EXCEPT ![a] = x]
    /\ spent' = [spent EXCEPT ![a] = 0]
    /\ UNCHANGED <<state, mint, owner, amount, is_native, close_authority, extVars, mintVars, chainVars>>

Revoke(a, who, signers) ==
    /\ state[a] = "initialized"
    /\ validate_owner(IF delegate[a] = who THEN who ELSE owner[a], who, signers)
    /\ delegate' = [delegate EXCEPT ![a] = None]
    /\ delegated_amount' = [delegated_amount EXCEPT ![a] = 0]
    /\ UNCHANGED <<state, mint, owner, amount, is_native, close_authority, extVars, mintVars,
                   chainVars, history>>
-----------------------------------------------------------------------------
SetAccountOwner(a, new, who, signers) ==
    /\ state[a] = "initialized"
    /\ validate_owner(owner[a], who, signers)
    /\ "ImmutableOwner" \notin extensions[a]
    /\ ~lock_cpi[a]
    /\ owner' = [owner EXCEPT ![a] = new]
    /\ delegate' = [delegate EXCEPT ![a] = None]
    /\ delegated_amount' = [delegated_amount EXCEPT ![a] = 0]
    /\ close_authority' = [close_authority EXCEPT ![a] = IF IsNative(a) THEN None ELSE @]
    /\ UNCHANGED <<state, mint, amount, is_native, extVars, mintVars, chainVars, history>>

(* The close authority, or the owner where there is none. *)
CloseAuthority(a) == IF close_authority[a] = None THEN owner[a] ELSE close_authority[a]

SetCloseAuthority(a, new, who, signers) ==
    /\ state[a] = "initialized"
    /\ validate_owner(CloseAuthority(a), who, signers)
    /\ lock_cpi[a] /\ in_cpi => new = None
    /\ close_authority' = [close_authority EXCEPT ![a] = new]
    /\ UNCHANGED <<state, mint, owner, amount, delegate, delegated_amount, is_native, extVars,
                   mintVars, chainVars, history>>

(* An authority of a mint that has been given up stays so. *)
SetMintAuthority(m, type, new, who, signers) ==
    /\ LiveMint(m)
    /\ HeldBy(type) \subseteq mint_extensions[m]
    /\ authority[m][type] # None
    /\ validate_owner(authority[m][type], who, signers)
    /\ authority' = [authority EXCEPT ![m][type] = new]
    /\ UNCHANGED <<baseVars, extVars, mint_state, supply, mint_extensions, feeVars, default_state,
                   hook_program, metadata_address, chainVars, history>>
-----------------------------------------------------------------------------
MintTo(m, a, x, who, signers) ==
    /\ state[a] = "initialized"
    /\ ~IsNative(a)
    /\ mint[a] = m
    /\ LiveMint(m)
    /\ "NonTransferable" \in mint_extensions[m] => "ImmutableOwner" \in extensions[a]
    /\ authority[m]["MintTokens"] # None
    /\ validate_owner(authority[m]["MintTokens"], who, signers)
    /\ amount[a] + x <= MaxAmount /\ supply[m] + x <= MaxAmount
    /\ amount' = [amount EXCEPT ![a] = @ + x]
    /\ supply' = [supply EXCEPT ![m] = @ + x]
    /\ UNCHANGED <<state, mint, owner, delegate, delegated_amount, is_native, close_authority,
                   extVars, mint_state, authority, mint_extensions, feeVars, default_state,
                   hook_program, metadata_address, chainVars, history>>

(* Anybody may burn what belongs to the incinerator. *)
Burn(a, x, who, signers) ==
    /\ state[a] = "initialized"
    /\ ~IsNative(a)
    /\ amount[a] >= x
    /\ LiveMint(mint[a])
    /\ \/ owner[a] = Incinerator /\ KeepAllowance
       \/ /\ owner[a] # Incinerator
          /\ \/ ByPermanentDelegate(a, TRUE, who, signers) /\ KeepAllowance
             \/ ByDelegate(a, TRUE, x, who, signers) /\ SpendAllowance(a, x)
             \/ ByOwner(a, TRUE, who, signers) /\ KeepAllowance
    /\ supply[mint[a]] >= x
    /\ amount' = [amount EXCEPT ![a] = @ - x]
    /\ supply' = [supply EXCEPT ![mint[a]] = @ - x]
    /\ UNCHANGED <<state, mint, owner, is_native, close_authority, extVars, mint_state, authority,
                   mint_extensions, feeVars, default_state, hook_program, metadata_address,
                   chainVars, approved>>

(* The lamports of a closed account go to d, which need not be an account  *)
(* of the program; the account is deleted, so its data is gone.            *)
SendAllLamports(k, d) ==
    lamports' = [j \in Keys |-> IF j = k THEN 0
                                ELSE IF j = d THEN lamports[j] + lamports[k]
                                ELSE lamports[j]]

Erase(a) ==
    /\ state' = [state EXCEPT ![a] = "none"]
    /\ mint' = [mint EXCEPT ![a] = None]
    /\ owner' = [owner EXCEPT ![a] = None]
    /\ delegate' = [delegate EXCEPT ![a] = None]
    /\ delegated_amount' = [delegated_amount EXCEPT ![a] = 0]
    /\ is_native' = [is_native EXCEPT ![a] = -1]
    /\ close_authority' = [close_authority EXCEPT ![a] = None]
    /\ extensions' = [extensions EXCEPT ![a] = {}]
    /\ lock_cpi' = [lock_cpi EXCEPT ![a] = FALSE]
    /\ require_memo' = [require_memo EXCEPT ![a] = FALSE]
    /\ slots' = [slots EXCEPT ![a] = 0]
    /\ approved' = [approved EXCEPT ![a] = 0]
    /\ spent' = [spent EXCEPT ![a] = 0]

DeleteAccount(a) ==
    /\ Erase(a)
    /\ amount' = [amount EXCEPT ![a] = 0]
    /\ withheld_amount' = [withheld_amount EXCEPT ![a] = 0]

CloseAccount(a, d, who, signers) ==
    /\ a # d
    /\ Live(a)
    /\ IsNative(a) \/ amount[a] = 0
    /\ IF owner[a] = Incinerator
       THEN d = Incinerator
       ELSE /\ lock_cpi[a] /\ in_cpi => d = owner[a]
            /\ validate_owner(CloseAuthority(a), who, signers)
    /\ withheld_amount[a] = 0
    /\ SendAllLamports(a, d)
    /\ DeleteAccount(a)
    /\ UNCHANGED <<mintVars, multisig, epoch, in_cpi>>

CloseMint(m, d, who, signers) ==
    /\ m # d
    /\ LiveMint(m)
    /\ "MintCloseAuthority" \in mint_extensions[m]
    /\ authority[m]["CloseMint"] # None
    /\ validate_owner(authority[m]["CloseMint"], who, signers)
    /\ supply[m] = 0
    /\ SendAllLamports(m, d)
    /\ mint_state' = [mint_state EXCEPT ![m] = "none"]
    /\ authority' = [authority EXCEPT ![m] = [t \in AuthorityType |-> None]]
    /\ mint_extensions' = [mint_extensions EXCEPT ![m] = {}]
    /\ mint_withheld' = [mint_withheld EXCEPT ![m] = 0]
    /\ older_fee' = [older_fee EXCEPT ![m] = NoFee]
    /\ newer_fee' = [newer_fee EXCEPT ![m] = NoFee]
    /\ default_state' = [default_state EXCEPT ![m] = "initialized"]
    /\ hook_program' = [hook_program EXCEPT ![m] = None]
    /\ metadata_address' = [metadata_address EXCEPT ![m] = None]
    /\ slots' = [slots EXCEPT ![m] = 0]
    /\ UNCHANGED <<baseVars, extVars, supply, multisig, epoch, in_cpi, history>>

ToggleFreezeAccount(a, freeze, who, signers) ==
    /\ state[a] = IF freeze THEN "initialized" ELSE "frozen"
    /\ ~IsNative(a)
    /\ LiveMint(mint[a])
    /\ authority[mint[a]]["FreezeAccount"] # None
    /\ validate_owner(authority[mint[a]]["FreezeAccount"], who, signers)
    /\ state' = [state EXCEPT ![a] = IF freeze THEN "frozen" ELSE "initialized"]
    /\ UNCHANGED <<mint, owner, amount, delegate, delegated_amount, is_native, close_authority,
                   extVars, mintVars, chainVars, history>>

SyncNative(a) ==
    /\ Live(a)
    /\ IsNative(a)
    /\ lamports[a] - is_native[a] >= amount[a]
    /\ amount' = [amount EXCEPT ![a] = lamports[a] - is_native[a]]
    /\ UNCHANGED <<state, mint, owner, delegate, delegated_amount, is_native, close_authority,
                   extVars, mintVars, chainVars, history>>

(* The lamports above the rent of an account or of a mint. *)
WithdrawExcessLamports(k, d, who, signers) ==
    /\ \/ /\ k \in TokenKeys
          /\ Live(k)
          /\ ~IsNative(k)
          /\ validate_owner(owner[k], who, signers)
       \/ /\ k \in MintKeys
          /\ LiveMint(k)
          /\ authority[k]["MintTokens"] # None
          /\ validate_owner(authority[k]["MintTokens"], who, signers)
    /\ lamports[k] >= MinimumBalance(slots[k])
    /\ LET excess == lamports[k] - MinimumBalance(slots[k])
       IN  lamports' = [j \in Keys |-> (IF j = k THEN lamports[j] - excess ELSE lamports[j])
                                       + (IF j = d THEN excess ELSE 0)]
    /\ UNCHANGED <<baseVars, extVars, mintVars, multisig, slots, epoch, in_cpi, history>>

(* Mutant: all of the lamports count towards the rent. *)
ReallocateOnAll(a, types, who, signers) ==
    LET needed == Cardinality(extensions[a] \cup types)
        short == MinimumBalance(needed) - lamports[a]
    IN  /\ Live(a)
        /\ validate_owner(owner[a], who, signers)
        /\ slots[a] < needed
        /\ slots' = [slots EXCEPT ![a] = needed]
        /\ lamports' = [lamports EXCEPT ![a] = IF short > 0 THEN @ + short ELSE @]
        /\ is_native' = [is_native EXCEPT ![a] = IF IsNative(a) THEN MinimumBalance(needed) ELSE @]
        /\ UNCHANGED <<state, mint, owner, amount, delegate, delegated_amount, close_authority,
                       extVars, mintVars, multisig, epoch, in_cpi, history>>

(* Room for more extensions.  Of a native account the lamports above its   *)
(* amount count towards the rent, and the reserve becomes the new rent.    *)
Reallocate(a, types, who, signers) ==
    LET needed == Cardinality(extensions[a] \cup types)
        held == IF IsNative(a) THEN amount[a] ELSE 0
        short == MinimumBalance(needed) - (lamports[a] - held)
    IN  /\ Live(a)
        /\ validate_owner(owner[a], who, signers)
        /\ slots[a] < needed
        /\ lamports[a] >= held
        /\ slots' = [slots EXCEPT ![a] = needed]
        /\ lamports' = [lamports EXCEPT ![a] = IF short > 0 THEN @ + short ELSE @]
        /\ is_native' = [is_native EXCEPT ![a] = IF IsNative(a) THEN MinimumBalance(needed) ELSE @]
        /\ UNCHANGED <<state, mint, owner, amount, delegate, delegated_amount, close_authority,
                       extVars, mintVars, multisig, epoch, in_cpi, history>>

ToggleRequiredMemoTransfers(a, enable, who, signers) ==
    /\ Live(a)
    /\ validate_owner(owner[a], who, signers)
    /\ HasRoom(extensions[a], {"MemoTransfer"}, slots[a])
    /\ extensions' = [extensions EXCEPT ![a] = @ \cup {"MemoTransfer"}]
    /\ require_memo' = [require_memo EXCEPT ![a] = enable]
    /\ UNCHANGED <<baseVars, withheld_amount, lock_cpi, mintVars, chainVars, history>>

ToggleCpiGuard(a, enable, who, signers) ==
    /\ Live(a)
    /\ validate_owner(owner[a], who, signers)
    /\ ~in_cpi
    /\ HasRoom(extensions[a], {"CpiGuard"}, slots[a])
    /\ extensions' = [extensions EXCEPT ![a] = @ \cup {"CpiGuard"}]
    /\ lock_cpi' = [lock_cpi EXCEPT ![a] = enable]
    /\ UNCHANGED <<baseVars, withheld_amount, require_memo, mintVars, chainVars, history>>
-----------------------------------------------------------------------------
(* Mutant: the newer fee becomes the older one even before its epoch. *)
SetTransferFeeTwice(m, rate, maximum, who, signers) ==
    /\ LiveMint(m)
    /\ "TransferFeeConfig" \in mint_extensions[m]
    /\ authority[m]["TransferFeeConfig"] # None
    /\ validate_owner(authority[m]["TransferFeeConfig"], who, signers)
    /\ older_fee' = [older_fee EXCEPT ![m] = newer_fee[m]]
    /\ newer_fee' = [newer_fee EXCEPT ![m] =
                         [epoch |-> epoch + 2, maximum_fee |-> maximum, basis_points |-> rate]]
    /\ UNCHANGED <<baseVars, extVars, mint_state, supply, authority, mint_extensions, mint_withheld,
                   default_state, hook_program, metadata_address, chainVars, history>>

(* A new fee starts two epochs ahead.  The older one is replaced only by a *)
(* fee that has come into force.                                           *)
SetTransferFee(m, rate, maximum, who, signers) ==
    /\ LiveMint(m)
    /\ "TransferFeeConfig" \in mint_extensions[m]
    /\ authority[m]["TransferFeeConfig"] # None
    /\ validate_owner(authority[m]["TransferFeeConfig"], who, signers)
    /\ older_fee' = [older_fee EXCEPT ![m] = IF newer_fee[m].epoch <= epoch THEN newer_fee[m] ELSE @]
    /\ newer_fee' = [newer_fee EXCEPT ![m] =
                         [epoch |-> epoch + 2, maximum_fee |-> maximum, basis_points |-> rate]]
    /\ UNCHANGED <<baseVars, extVars, mint_state, supply, authority, mint_extensions, mint_withheld,
                   default_state, hook_program, metadata_address, chainVars, history>>

(* The accounts of the list whose withheld fees can be taken; the others   *)
(* are skipped.                                                            *)
Harvestable(m, list) ==
    {a \in list : Live(a) /\ mint[a] = m /\ "TransferFeeAmount" \in extensions[a]}

Harvested(m, list) == MapThenSumSet(LAMBDA a : withheld_amount[a], Harvestable(m, list))

HarvestWithheldTokensToMint(m, list) ==
    /\ LiveMint(m)
    /\ "TransferFeeConfig" \in mint_extensions[m]
    /\ Harvested(m, list) \in 0 .. MaxAmount - mint_withheld[m]
    /\ mint_withheld' = [mint_withheld EXCEPT ![m] = @ + Harvested(m, list)]
    /\ withheld_amount' = [a \in TokenKeys |-> IF a \in Harvestable(m, list) THEN 0
                                               ELSE withheld_amount[a]]
    /\ UNCHANGED <<baseVars, extensions, lock_cpi, require_memo, mint_state, supply, authority,
                   mint_extensions, older_fee, newer_fee, default_state, hook_program,
                   metadata_address, chainVars, history>>

(* Withheld fees are paid to an account of the mint that is not frozen. *)
WithdrawsWithheld(m, d, who, signers) ==
    /\ LiveMint(m)
    /\ "TransferFeeConfig" \in mint_extensions[m]
    /\ authority[m]["WithheldWithdraw"] # None
    /\ validate_owner(authority[m]["WithheldWithdraw"], who, signers)
    /\ state[d] = "initialized"
    /\ mint[d] = m

WithdrawWithheldTokensFromMint(m, d, who, signers) ==
    /\ WithdrawsWithheld(m, d, who, signers)
    /\ mint_withheld[m] \in 0 .. MaxAmount - amount[d]
    /\ amount' = [amount EXCEPT ![d] = @ + mint_withheld[m]]
    /\ mint_withheld' = [mint_withheld EXCEPT ![m] = 0]
    /\ UNCHANGED <<state, mint, owner, delegate, delegated_amount, is_native, close_authority,
                   extVars, mint_state, supply, authority, mint_extensions, older_fee, newer_fee,
                   default_state, hook_program, metadata_address, chainVars, history>>

(* The destination may be one of the accounts harvested. *)
WithdrawWithheldTokensFromAccounts(m, d, list, who, signers) ==
    /\ WithdrawsWithheld(m, d, who, signers)
    /\ d \in list => d \in Harvestable(m, list)
    /\ Harvested(m, list) \in 0 .. MaxAmount - amount[d]
    /\ amount' = [amount EXCEPT ![d] = @ + Harvested(m, list)]
    /\ withheld_amount' = [a \in TokenKeys |-> IF a \in Harvestable(m, list) THEN 0
                                               ELSE withheld_amount[a]]
    /\ UNCHANGED <<state, mint, owner, delegate, delegated_amount, is_native, close_authority,
                   extensions, lock_cpi, require_memo, mintVars, chainVars, history>>

(* An extension of a mint is updated by its authority. *)
UpdatesExtension(m, type, extension, who, signers) ==
    /\ LiveMint(m)
    /\ extension \in mint_extensions[m]
    /\ authority[m][type] # None
    /\ validate_owner(authority[m][type], who, signers)
    /\ UNCHANGED <<baseVars, extVars, mint_state, supply, authority, mint_extensions, feeVars,
                   chainVars, history>>

UpdateDefaultAccountState(m, st, who, signers) ==
    /\ UpdatesExtension(m, "FreezeAccount", "DefaultAccountState", who, signers)
    /\ default_state' = [default_state EXCEPT ![m] = st]
    /\ UNCHANGED <<hook_program, metadata_address>>

UpdateTransferHook(m, program, who, signers) ==
    /\ UpdatesExtension(m, "TransferHookProgramId", "TransferHook", who, signers)
    /\ hook_program' = [hook_program EXCEPT ![m] = program]
    /\ UNCHANGED <<default_state, metadata_address>>

UpdateMetadataPointer(m, address, who, signers) ==
    /\ UpdatesExtension(m, "MetadataPointer", "MetadataPointer", who, signers)
    /\ metadata_address' = [metadata_address EXCEPT ![m] = address]
    /\ UNCHANGED <<default_state, hook_program>>
-----------------------------------------------------------------------------
(* Instructions by what they are about; each is signed by some wallets. *)
Signatures == SUBSET Wallets
Funds == 1 .. MaxLamports
Destinations == Keys \cup Wallets \cup {Incinerator}

ChainStep ==
    \/ \E a \in TokenKeys, n \in 0 .. MaxSlots, l \in Funds : CreateAccount(a, n, l)
    \/ \E m \in MintKeys, n \in 0 .. MaxSlots, l \in Funds : CreateMintAccount(m, n, l)
    \/ \E k \in Keys, l \in Funds : Fund(k, l)

MintSetupStep ==
    \/ \E m \in MintKeys, k \in Wallets \cup {None} : InitializeMintCloseAuthority(m, k)
    \/ \E m \in MintKeys, k, j \in Wallets \cup {None}, r \in BasisPoints, x \in Amounts :
           InitializeTransferFeeConfig(m, k, j, r, x)
    \/ \E m \in MintKeys, st \in {"initialized", "frozen"} : InitializeDefaultAccountState(m, st)
    \/ \E m \in MintKeys : InitializeNonTransferableMint(m)
    \/ \E m \in MintKeys, k \in Wallets : InitializePermanentDelegate(m, k)
    \/ \E m \in MintKeys, k, j \in Wallets \cup {None} : InitializeTransferHook(m, k, j)
    \/ \E m \in MintKeys, k, j \in Wallets \cup {None} : InitializeMetadataPointer(m, k, j)
    \/ \E m \in MintKeys, k \in Wallets \cup MultisigKeys, f \in Wallets \cup {None} :
           InitializeMint(m, k, f)
    \/ NativeMint \in MintKeys /\ CreateNativeMint
    \/ \E k \in MultisigKeys, n \in 1 .. 2, i, j \in Wallets : InitializeMultisig(k, n, <<i, j>>)

AccountSetupStep ==
    \/ \E a \in TokenKeys : InitializeImmutableOwner(a)
    \/ \E a \in TokenKeys, m \in MintKeys, o \in Owners : InitializeAccount(a, m, o)

TokenStep ==
    \E who \in Owners, signers \in Signatures, x \in Amounts :
        \/ \E s, d \in TokenKeys, checked, memo \in BOOLEAN :
               Transfer(s, d, x, checked, who, signers, memo)
        \/ \E a \in TokenKeys, checked \in BOOLEAN : SelfTransfer(a, x, checked, who, signers)
        \/ \E m \in MintKeys, a \in TokenKeys : MintTo(m, a, x, who, signers)
        \/ \E a \in TokenKeys : Burn(a, x, who, signers)

AllowanceStep ==
    \E who \in Owners, signers \in Signatures, a \in TokenKeys :
        \/ \E k \in Wallets, x \in Amounts : Approve(a, k, x, who, signers)
        \/ Revoke(a, who, signers)

AuthorityStep ==
    \E who \in Owners, signers \in Signatures :
        \/ \E a \in TokenKeys, new \in Owners : SetAccountOwner(a, new, who, signers)
        \/ \E a \in TokenKeys, new \in Wallets \cup {None} : SetCloseAuthority(a, new, who, signers)
        \/ \E m \in MintKeys, type \in AuthorityType, new \in Wallets \cup {None} :
               SetMintAuthority(m, type, new, who, signers)

FreezeStep ==
    \E who \in Owners, signers \in Signatures :
        \/ \E a \in TokenKeys, freeze \in BOOLEAN : ToggleFreezeAccount(a, freeze, who, signers)
        \/ \E m \in MintKeys, st \in {"initialized", "frozen"} :
               UpdateDefaultAccountState(m, st, who, signers)

CloseStep ==
    \E who \in Owners, signers \in Signatures, d \in Destinations :
        \/ \E a \in TokenKeys : CloseAccount(a, d, who, signers)
        \/ \E m \in MintKeys : CloseMint(m, d, who, signers)

LamportStep ==
    \/ \E a \in TokenKeys : SyncNative(a)
    \/ \E who \in Owners, signers \in Signatures :
           \/ \E k \in Keys, d \in Destinations : WithdrawExcessLamports(k, d, who, signers)
           \/ \E a \in TokenKeys, types \in SUBSET AccountExtension :
                  Cardinality(types) <= MaxSlots /\ Reallocate(a, types, who, signers)

GuardStep ==
    \/ SwitchLevel
    \/ \E who \in Owners, signers \in Signatures, a \in TokenKeys, enable \in BOOLEAN :
           \/ ToggleRequiredMemoTransfers(a, enable, who, signers)
           \/ ToggleCpiGuard(a, enable, who, signers)

FeeStep ==
    \/ NextEpoch
    \/ \E m \in MintKeys, list \in SUBSET TokenKeys : HarvestWithheldTokensToMint(m, list)
    \/ \E who \in Owners, signers \in Signatures, m \in MintKeys :
           \/ \E r \in BasisPoints, x \in Amounts : SetTransferFee(m, r, x, who, signers)
           \/ \E d \in TokenKeys : WithdrawWithheldTokensFromMint(m, d, who, signers)
           \/ \E d \in TokenKeys, list \in SUBSET TokenKeys :
                  WithdrawWithheldTokensFromAccounts(m, d, list, who, signers)

PointerStep ==
    \E who \in Owners, signers \in Signatures, m \in MintKeys, k \in Wallets \cup {None} :
        \/ UpdateTransferHook(m, k, who, signers)
        \/ UpdateMetadataPointer(m, k, who, signers)

Next ==
    \/ ChainStep \/ MintSetupStep \/ AccountSetupStep \/ TokenStep \/ AllowanceStep
    \/ AuthorityStep \/ FreezeStep \/ CloseStep \/ LamportStep \/ GuardStep \/ FeeStep
    \/ PointerStep

(* No account of the program exists. *)
Init ==
    /\ state = [a \in TokenKeys |-> "none"]
    /\ mint = [a \in TokenKeys |-> None]
    /\ owner = [a \in TokenKeys |-> None]
    /\ amount = [a \in TokenKeys |-> 0]
    /\ delegate = [a \in TokenKeys |-> None]
    /\ delegated_amount = [a \in TokenKeys |-> 0]
    /\ is_native = [a \in TokenKeys |-> -1]
    /\ close_authority = [a \in TokenKeys |-> None]
    /\ extensions = [a \in TokenKeys |-> {}]
    /\ withheld_amount = [a \in TokenKeys |-> 0]
    /\ lock_cpi = [a \in TokenKeys |-> FALSE]
    /\ require_memo = [a \in TokenKeys |-> FALSE]
    /\ mint_state = [m \in MintKeys |-> "none"]
    /\ supply = [m \in MintKeys |-> 0]
    /\ authority = [m \in MintKeys |-> [t \in AuthorityType |-> None]]
    /\ mint_extensions = [m \in MintKeys |-> {}]
    /\ mint_withheld = [m \in MintKeys |-> 0]
    /\ older_fee = [m \in MintKeys |-> NoFee]
    /\ newer_fee = [m \in MintKeys |-> NoFee]
    /\ default_state = [m \in MintKeys |-> "initialized"]
    /\ hook_program = [m \in MintKeys |-> None]
    /\ metadata_address = [m \in MintKeys |-> None]
    /\ multisig = [k \in MultisigKeys |-> NoMultisig]
    /\ slots = [k \in Keys |-> 0]
    /\ lamports = [k \in Keys |-> 0]
    /\ epoch = 0
    /\ in_cpi = FALSE
    /\ approved = [a \in TokenKeys |-> 0]
    /\ spent = [a \in TokenKeys |-> 0]

Spec == Init /\ [][Next]_vars
-----------------------------------------------------------------------------

Holders(m) == {a \in TokenKeys : Live(a) /\ mint[a] = m}

(* No instruction, and no order of them, makes or loses a token: the       *)
(* supply of a mint is what its accounts hold and withhold and what has    *)
(* been harvested to the mint (process_mint_to, process_burn and the fee   *)
(* paths of process_transfer and the withdrawals), closed mints included.  *)
SupplyIsHeld ==
    \A m \in MintKeys \ {NativeMint} :
        supply[m] = mint_withheld[m]
                    + MapThenSumSet(LAMBDA a : amount[a] + withheld_amount[a], Holders(m))

(* The wrapped lamports of an account are there, on top of the rent it     *)
(* keeps in reserve: whatever is transferred, synced, reallocated, closed  *)
(* or withdrawn (process_sync_native, process_reallocate).                 *)
NativeIsBacked ==
    \A a \in TokenKeys : Live(a) /\ IsNative(a) => lamports[a] >= is_native[a] + amount[a]

(* A delegate never takes more than it was last approved for, over all of  *)
(* its transfers and burns; what is left of its allowance is the rest.     *)
WithinAllowance ==
    \A a \in TokenKeys :
        /\ spent[a] <= approved[a]
        /\ delegate[a] # None => delegated_amount[a] = approved[a] - spent[a]

(* While an account is frozen its tokens, owner, delegate and close        *)
(* authority stay what they are; it may only be thawed, or closed when     *)
(* it is empty (process_close_account does not ask for the state).         *)
FrozenStays ==
    [][\A a \in TokenKeys :
           state[a] = "frozen" /\ state'[a] # "none" =>
               /\ amount'[a] = amount[a] /\ owner'[a] = owner[a] /\ mint'[a] = mint[a]
               /\ delegate'[a] = delegate[a] /\ delegated_amount'[a] = delegated_amount[a]
               /\ close_authority'[a] = close_authority[a]]_vars

(* A program that runs instructions with the owner's signature cannot use  *)
(* it on an account with the CPI guard: tokens leave it only out of an     *)
(* allowance given before, or by the permanent delegate of the mint; no    *)
(* delegate, close authority or owner is set; the guard stays on.          *)
CpiGuardHolds ==
    [][\A a \in TokenKeys :
           lock_cpi[a] /\ in_cpi /\ Live(a) /\ Live(a)' =>
               /\ lock_cpi'[a] /\ owner'[a] = owner[a]
               /\ delegate'[a] \in {delegate[a], None}
               /\ close_authority'[a] \in {close_authority[a], None}
               /\ \/ amount'[a] >= amount[a]
                  \/ delegate[a] # None /\ amount[a] - amount'[a] = delegated_amount[a] - delegated_amount'[a]
                  \/ "PermanentDelegate" \in mint_extensions[mint[a]]
                  \/ owner[a] = Incinerator]_vars

(* The fee of an epoch is settled before it begins: no instruction changes *)
(* the rate in force, however often process_set_transfer_fee is called.    *)
FeeSettledForEpoch ==
    [][\A m \in MintKeys :
           LiveMint(m) /\ LiveMint(m)' /\ epoch' = epoch =>
               get_epoch_fee(m, epoch)' = get_epoch_fee(m, epoch)]_vars
=============================================================================
