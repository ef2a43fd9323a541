------------------------------- MODULE Ledger -------------------------------
(***************************************************************************)
(* The token ledger of the program: balance accounts, operator balance     *)
(* accounts, accounts of the legacy format, and the pools of SPL tokens    *)
(* that stand behind them.                                                 *)
(*                                                                         *)
(* Each chain is the gas token of one mint.  Tokens enter by Deposit, move *)
(* between balance accounts and to operators (gas), and leave through the  *)
(* NeonToken precompile.  Balances count 10^-18 of a token, pools count    *)
(* what the mint counts.                                                   *)
(*                                                                         *)
(* An instruction that returns an error or panics changes nothing: its     *)
(* action is not enabled.                                                  *)
(***************************************************************************)
EXTENDS Integers, FiniteSets, FiniteSetsExt

CONSTANTS
    Users,              \* EVM addresses other than the precompile's
    NeonToken,          \* the address of the NeonToken precompile
    Chains,             \* CHAIN_ID_LIST
    DEFAULT_CHAIN_ID,   \* the chain whose accounts may be in the legacy format
    SOL_CHAIN_ID,       \* the chain of Solana users
    Mint,               \* chain -> mint
    Decimals,           \* mint -> decimals
    FeeMints,           \* mints with a transfer fee
    Wallets,            \* owners of SPL token accounts
    Operators,
    Pubkeys,            \* Solana users
    FromSolanaAddress,  \* pubkey -> the EVM address that is derived from it
    NoKey,              \* Pubkey::default()
    NoAccount,          \* an account that the system program owns
    MAX_NONCE           \* 2^64 - 1

Addresses == Users \cup {NeonToken}
Mints == {Mint[c] : c \in Chains}

ASSUME ChainAssumption ==
    /\ DEFAULT_CHAIN_ID \in Chains /\ SOL_CHAIN_ID \in Chains
    /\ FeeMints \subseteq Mints /\ Decimals \in [Mints -> 0 .. 18]
    /\ FromSolanaAddress \in [Pubkeys -> Users] /\ NoKey \notin Pubkeys
    /\ NeonToken \notin Users /\ MAX_NONCE \in Nat
    /\ IsFiniteSet(Users) /\ IsFiniteSet(Chains) /\ IsFiniteSet(Operators)

(* What one unit of the mint is worth in a balance: a power of ten, of     *)
(* which the provers do not know that it is positive.                      *)
Unit(m) == 10 ^ (18 - Decimals[m])
ASSUME UnitAssumption == \A m \in Mints : Unit(m) > 0

VARIABLES
    balances,   \* BalanceAccount of an address on a chain
    operators,  \* OperatorBalanceAccount of an operator for an address on a chain
    legacy,     \* the account of an address in the legacy format
    tokens,     \* the SPL token account of a wallet
    pool,       \* the token account of the program
    gifts       \* history: tokens that were sent to the pool without a deposit

ledgerVars == <<balances, operators, legacy, tokens, pool, gifts>>

BalanceKey == Addresses \X Chains
OperatorKey == Operators \X Addresses \X Chains

(* Header: the versions are HeaderV0 (0), HeaderWithRevision (2) and       *)
(* HeaderWithSolanaAddress (3); only the last has room for the user.       *)
Header == [version : {0, 2, 3}, balance : Nat, nonce : 0 .. MAX_NONCE, user : Pubkeys \cup {NoKey}]
AnyHeader == [version : {0, 2, 3}, balance : Int, nonce : Nat, user : Pubkeys \cup {NoKey}]
ASSUME NoAccountAssumption == NoAccount \notin AnyHeader \cup Int

initialize == [version |-> 3, balance |-> 0, nonce |-> 0, user |-> NoKey]
-----------------------------------------------------------------------------
(* BalanceAccount::create: on the default chain, not while the address has *)
(* an account in the legacy format.                                        *)
creatable(b, lg, a, c) ==
    b[a, c] # NoAccount \/ c # DEFAULT_CHAIN_ID \/ lg[a] = NoAccount
create(b, a, c) == IF b[a, c] = NoAccount THEN [b EXCEPT ![<<a, c>>] = initialize] ELSE b

(* Only a header without a revision is upgraded. *)
increment_revision(b, a, c) ==
    [b EXCEPT ![<<a, c>>].version = IF @ < 2 THEN 3 ELSE @]

burn(b, a, c, v) == [b EXCEPT ![<<a, c>>].balance = @ - v]
mint(b, a, c, v) == [b EXCEPT ![<<a, c>>].balance = @ + v]
transfer(b, source, target, c, v) ==
    IF source = target THEN b ELSE mint(burn(b, source, c, v), target, c, v)

(* update_ether_account_from_v1: balance and nonce move to a balance       *)
(* account, when there are any.                                            *)
converted(b, a) ==
    IF legacy[a] # NoAccount /\ (legacy[a].balance > 0 \/ legacy[a].nonce > 0)
    THEN [create(b, a, DEFAULT_CHAIN_ID) EXCEPT
             ![<<a, DEFAULT_CHAIN_ID>>].balance = @ + legacy[a].balance,
             ![<<a, DEFAULT_CHAIN_ID>>].nonce = @ + legacy[a].nonce]
    ELSE b

update_legacy_accounts(b, a, c) == IF c = DEFAULT_CHAIN_ID THEN converted(b, a) ELSE b
legacy_after_update(a, c) ==
    IF c = DEFAULT_CHAIN_ID THEN [legacy EXCEPT ![a] = NoAccount] ELSE legacy
-----------------------------------------------------------------------------
(* The token program: Approve and Transfer by the owner of an account. *)
Approve(w, m, a, c, amount) ==
    /\ tokens[w, m] # NoAccount
    /\ tokens' = [tokens EXCEPT ![<<w, m>>].delegate = <<a, c>>, ![<<w, m>>].delegated = amount]
    /\ UNCHANGED <<balances, operators, legacy, pool, gifts>>

Give(w, m, amount) ==
    /\ tokens[w, m] # NoAccount /\ tokens[w, m].amount >= amount /\ m \notin FeeMints
    /\ tokens' = [tokens EXCEPT ![<<w, m>>].amount = @ - amount]
    /\ pool' = [pool EXCEPT ![m] = @ + amount]
    /\ gifts' = [gifts EXCEPT ![m] = @ + amount]
    /\ UNCHANGED <<balances, operators, legacy>>

(* CreateAccountBalance *)
CreateAccountBalance(a, c) ==
    /\ balances' = create(update_legacy_accounts(balances, a, c), a, c)
    /\ legacy' = legacy_after_update(a, c)
    /\ UNCHANGED <<operators, tokens, pool, gifts>>

(* Deposit: the whole delegated amount of the source is moved to the pool  *)
(* by an unchecked transfer, which the token program refuses for a mint    *)
(* with a fee, and credited to the balance account that is its delegate.   *)
Deposit(w, a, c) ==
    LET m == Mint[c]
        amount == tokens[w, m].delegated
        b == create(update_legacy_accounts(balances, a, c), a, c)
    IN  /\ tokens[w, m] # NoAccount /\ tokens[w, m].delegate = <<a, c>>
        /\ amount \in 1 .. tokens[w, m].amount
        /\ m \notin FeeMints
        /\ tokens' = [tokens EXCEPT ![<<w, m>>].amount = @ - amount, ![<<w, m>>].delegated = 0,
                                    ![<<w, m>>].delegate = NoKey]
        /\ pool' = [pool EXCEPT ![m] = @ + amount]
        /\ balances' = mint(increment_revision(b, a, c), a, c, amount * Unit(m))
        /\ legacy' = legacy_after_update(a, c)
        /\ UNCHANGED <<operators, gifts>>
-----------------------------------------------------------------------------

(* A transfer in apply_state_change: the source must have an account. *)
transferable(source, target, c, v) ==
    /\ balances[source, c] # NoAccount /\ balances[source, c].balance >= v
    /\ creatable(balances, legacy, target, c)
transferred(source, target, c, v) ==
    LET b == create(balances, target, c)
    IN  transfer(increment_revision(increment_revision(b, source, c), target, c),
                 source, target, c, v)

Transfer(source, target, c, v) ==
    /\ transferable(source, target, c, v)
    /\ balances' = transferred(source, target, c, v)
    /\ UNCHANGED <<operators, legacy, tokens, pool, gifts>>

(* The NeonToken precompile, called with a value: the value is transferred *)
(* to the precompile, burnt there, and the pool pays the wallet, whose     *)
(* token account is created when there is none.  A precompile belongs to   *)
(* the default chain, and a transfer of another token to it is refused.    *)
withdraw(a, w, v) ==
    LET c == DEFAULT_CHAIN_ID
        m == Mint[c]
        spl_amount == v \div Unit(m)
        received == IF tokens[w, m] = NoAccount
                    THEN [amount |-> spl_amount, delegate |-> NoKey, delegated |-> 0]
                    ELSE [tokens[w, m] EXCEPT !.amount = @ + spl_amount]
    IN  /\ v > 0 /\ Decimals[m] < 18 /\ v % Unit(m) = 0
        /\ transferable(a, NeonToken, c, v)
        /\ spl_amount <= pool[m]
        /\ balances' = burn(transferred(a, NeonToken, c, v), NeonToken, c, v)
        /\ pool' = [pool EXCEPT ![m] = @ - spl_amount]
        /\ tokens' = [tokens EXCEPT ![<<w, m>>] = received]
        /\ UNCHANGED <<operators, legacy, gifts>>

(* EvmIncrementNonce, and the increment before a transaction is run. *)
IncrementNonce(a, c) ==
    /\ creatable(balances, legacy, a, c)
    /\ create(balances, a, c)[a, c].nonce < MAX_NONCE
    /\ balances' = [create(balances, a, c) EXCEPT ![<<a, c>>].nonce = @ + 1]
    /\ UNCHANGED <<operators, legacy, tokens, pool, gifts>>
-----------------------------------------------------------------------------
(* CreateOperatorBalance, for any address the operator names. *)
OperatorCreate(o, a, c) ==
    /\ operators' = [operators EXCEPT ![<<o, a, c>>] = IF @ = NoAccount THEN 0 ELSE @]
    /\ UNCHANGED <<balances, legacy, tokens, pool, gifts>>

(* transfer_gas_payment and consume_gas: to an operator balance of any     *)
(* address on the same chain.                                              *)
consume_gas(source, c, o, a, oc, v) ==
    /\ v > 0 /\ balances[source, c] # NoAccount /\ operators[o, a, oc] # NoAccount
    /\ oc = c /\ balances[source, c].balance >= v
    /\ balances' = burn(increment_revision(balances, source, c), source, c, v)
    /\ operators' = [operators EXCEPT ![<<o, a, oc>>] = @ + v]
    /\ UNCHANGED <<legacy, tokens, pool, gifts>>

(* WithdrawOperatorBalance: all of it, to the address and on the chain of  *)
(* the operator balance.                                                   *)
OperatorWithdraw(o, a, c, ta, tc) ==
    /\ operators[o, a, c] # NoAccount /\ balances[ta, tc] # NoAccount
    /\ tc = c /\ ta = a
    /\ operators' = [operators EXCEPT ![<<o, a, c>>] = 0]
    /\ balances' = increment_revision(mint(balances, ta, tc, operators[o, a, c]), ta, tc)
    /\ UNCHANGED <<legacy, tokens, pool, gifts>>

(* Mutant: an operator balance is deleted with what is left in it. *)
OperatorDelete_any(o, a, c) ==
    /\ operators[o, a, c] # NoAccount
    /\ operators' = [operators EXCEPT ![<<o, a, c>>] = NoAccount]
    /\ UNCHANGED <<balances, legacy, tokens, pool, gifts>>

(* DeleteOperatorBalance: suicide asserts that nothing is left in it. *)
OperatorDelete(o, a, c) ==
    /\ operators[o, a, c] = 0
    /\ operators' = [operators EXCEPT ![<<o, a, c>>] = NoAccount]
    /\ UNCHANGED <<balances, legacy, tokens, pool, gifts>>

(* Mutant: the nonce of an account that has no user is not looked at. *)
create_for_solana_user_any_nonce(p) ==
    LET a == FromSolanaAddress[p]
        b == create(balances, a, SOL_CHAIN_ID)
    IN  /\ creatable(balances, legacy, a, SOL_CHAIN_ID)
        /\ b[a, SOL_CHAIN_ID].user \in {NoKey, p}
        /\ b[a, SOL_CHAIN_ID].version = 3
        /\ balances' = [b EXCEPT ![<<a, SOL_CHAIN_ID>>].user = p]
        /\ UNCHANGED <<operators, legacy, tokens, pool, gifts>>

(* create_for_solana_user: a header of version 2 has no room for the key,  *)
(* and nothing makes it longer.                                            *)
create_for_solana_user(p) ==
    LET a == FromSolanaAddress[p]
        b == create(balances, a, SOL_CHAIN_ID)
        header == b[a, SOL_CHAIN_ID]
    IN  /\ creatable(balances, legacy, a, SOL_CHAIN_ID)
        /\ header.user = p \/ (header.user = NoKey /\ header.nonce = 0 /\ header.version = 3)
        /\ balances' = [b EXCEPT ![<<a, SOL_CHAIN_ID>>].user = p]
        /\ UNCHANGED <<operators, legacy, tokens, pool, gifts>>
-----------------------------------------------------------------------------

(* What the program owes on a chain: the balances of users and operators,  *)
(* and those that are still in the legacy format.                          *)
held(a, c) == IF balances[<<a, c>>] = NoAccount THEN 0 ELSE balances[<<a, c>>].balance
earned(o, a, c) == IF operators[<<o, a, c>>] = NoAccount THEN 0 ELSE operators[<<o, a, c>>]
old(a, c) == IF legacy[a] = NoAccount \/ c # DEFAULT_CHAIN_ID THEN 0 ELSE legacy[a].balance
Owed(c) ==
    MapThenSumSet(LAMBDA a : held(a, c), Addresses)
    + MapThenSumSet(LAMBDA k : earned(k[1], k[2], c), Operators \X Addresses)
    + MapThenSumSet(LAMBDA a : old(a, c), Addresses)

(* The pool of each mint holds, to the last unit, what the balances on the *)
(* chains of that mint add up to (and what was given to it): no sequence   *)
(* of deposits, transfers, gas payments, withdrawals, conversions and      *)
(* deletions of accounts creates a balance without tokens, or loses one,   *)
(* and no account is ever overdrawn.                                       *)
PoolBacksBalances ==
    /\ balances \in [BalanceKey -> Header \cup {NoAccount}]
    /\ \A m \in Mints :
          pool[m] * Unit(m) =
              MapThenSumSet(Owed, {c \in Chains : Mint[c] = m}) + gifts[m] * Unit(m)

(* A balance account stays, its nonce never goes back, and the Solana user *)
(* it belongs to is settled before its first transaction and for good:     *)
(* neither another key with the same address nor the conversion of a       *)
(* legacy account changes who may schedule transactions for it.            *)
AccountsKeepTheirUser ==
    [][\A k \in BalanceKey : balances[k] # NoAccount =>
          /\ balances'[k] # NoAccount
          /\ balances'[k].nonce >= balances[k].nonce
          /\ (balances[k].nonce > 0 \/ balances[k].user # NoKey) =>
                balances'[k].user = balances[k].user]_ledgerVars
=============================================================================
