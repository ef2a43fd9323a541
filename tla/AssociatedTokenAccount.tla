----------------------- MODULE AssociatedTokenAccount -----------------------
(***************************************************************************)
(* The associated token account program on top of the token program: the   *)
(* account of a wallet and a mint is at an address derived from the two,   *)
(* at which only this program can allocate.  Each instruction calls the    *)
(* token program several times, in one step: a call that fails undoes all. *)
(***************************************************************************)
EXTENDS TokenProgram

CONSTANTS
    AtaWallet,   \* the wallet an address is derived from, None for other addresses
    AtaMint      \* the mint it is derived from

ASSUME AtaAssumption ==
    /\ AtaWallet \in [TokenKeys -> Wallets \cup TokenKeys \cup {None}]
    /\ AtaMint \in [TokenKeys -> MintKeys \cup {None}]
    /\ \A a, b \in TokenKeys :
           AtaWallet[a] # None /\ AtaWallet[a] = AtaWallet[b] /\ AtaMint[a] = AtaMint[b] => a = b
    /\ \A a \in TokenKeys : AtaWallet[a] # a

get_associated_token_address(a, wallet, m) == AtaWallet[a] = wallet /\ AtaMint[a] = m

(* Room for what the mint requires and for the immutable owner. *)
get_account_len(m) == Cardinality(get_required_init_account_extensions(m) \cup {"ImmutableOwner"})

(* Allocation at the address, with lamports up to the rent: it may have    *)
(* some already.                                                           *)
create_pda_account(a, n) ==
    /\ slots' = [slots EXCEPT ![a] = n]
    /\ lamports' = [lamports EXCEPT ![a] = IF @ < MinimumBalance(n) THEN MinimumBalance(n) ELSE @]

(* Mutant: the owner is not made immutable. *)
CreateMutable(a, wallet, m) ==
    LET n == get_account_len(m)
    IN  /\ wallet # None
        /\ get_associated_token_address(a, wallet, m)
        /\ state[a] = "none"
        /\ LiveMint(m)
        /\ create_pda_account(a, n)
        /\ extensions' = [extensions EXCEPT ![a] = get_required_init_account_extensions(m)]
        /\ InitializedBase(a, m, wallet, n,
                           IF lamports[a] < MinimumBalance(n) THEN MinimumBalance(n) ELSE lamports[a])
        /\ UNCHANGED <<mintVars, multisig, epoch, in_cpi>>

(* Create, and CreateIdempotent where there is no such account yet. *)
Create(a, wallet, m) ==
    LET n == get_account_len(m)
    IN  /\ wallet # None
        /\ get_associated_token_address(a, wallet, m)
        /\ state[a] = "none"
        /\ LiveMint(m)
        /\ create_pda_account(a, n)
        /\ extensions' = [extensions EXCEPT
                              ![a] = get_required_init_account_extensions(m) \cup {"ImmutableOwner"}]
        /\ InitializedBase(a, m, wallet, n,
                           IF lamports[a] < MinimumBalance(n) THEN MinimumBalance(n) ELSE lamports[a])
        /\ UNCHANGED <<mintVars, multisig, epoch, in_cpi>>

(* CreateIdempotent where there is one: it must be the wallet's. *)
FindExisting(a, wallet, m) ==
    /\ wallet # None
    /\ get_associated_token_address(a, wallet, m)
    /\ Live(a)
    /\ owner[a] = wallet
    /\ mint[a] = m
    /\ UNCHANGED vars

(* Everything in the account of an account, nested, goes to the wallet's   *)
(* own account of that mint, and the nested account is closed.             *)
RecoverNested(nested, d, owner_ata, wallet, signers) ==
    LET x == amount[nested]
        fee == EpochFee(mint[nested], x)
    IN  /\ AtaWallet[owner_ata] = wallet
        /\ get_associated_token_address(nested, owner_ata, AtaMint[nested])
        /\ get_associated_token_address(d, wallet, AtaMint[nested])
        /\ wallet \in signers
        /\ Live(owner_ata) /\ owner[owner_ata] = wallet
        /\ owner[nested] = owner_ata
        /\ Sends(nested, x, TRUE)
        /\ Receives(nested, d, FALSE)
        /\ HookRuns(nested, d, TRUE)
        /\ ~lock_cpi[nested]
        /\ close_authority[nested] = None
        /\ withheld_amount[nested] = 0
        /\ fee \in 0 .. x
        /\ amount[d] + x - fee <= MaxAmount
        /\ fee > 0 => "TransferFeeAmount" \in extensions[d] /\ withheld_amount[d] + fee <= MaxAmount
        /\ amount' = [amount EXCEPT ![nested] = 0, ![d] = @ + x - fee]
        /\ withheld_amount' = [withheld_amount EXCEPT ![d] = @ + fee]
        /\ lamports' = [lamports EXCEPT ![nested] = 0,
                                        ![d] = IF IsNative(nested) THEN @ + x ELSE @]
        /\ Erase(nested)
        /\ UNCHANGED <<mintVars, multisig, epoch, in_cpi>>

AtaStep ==
    \E a \in TokenKeys :
        \/ \E wallet \in Wallets \cup TokenKeys, m \in MintKeys : Create(a, wallet, m)
        \/ \E wallet \in Wallets \cup TokenKeys, m \in MintKeys : FindExisting(a, wallet, m)
        \/ \E d, owner_ata \in TokenKeys, wallet \in Wallets, signers \in Signatures :
               RecoverNested(a, d, owner_ata, wallet, signers)

(* Nobody else allocates at the derived addresses. *)
Underived == \A a \in TokenKeys : state[a] = "none" /\ state'[a] = "uninitialized" => AtaWallet[a] = None

AtaNext == AtaStep \/ (Next /\ Underived)

AtaSpec == Init /\ [][AtaNext]_vars
-----------------------------------------------------------------------------
(* The account at an address derived from a wallet and a mint is that      *)
(* wallet's account of that mint, always: it is created with an immutable  *)
(* owner, and created again only for the same wallet and mint.             *)
AtaIsTheWallets ==
    \A a \in TokenKeys :
        AtaWallet[a] # None /\ Live(a) => owner[a] = AtaWallet[a] /\ mint[a] = AtaMint[a]
=============================================================================
