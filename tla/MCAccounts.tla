----------------------------- MODULE MCAccounts -----------------------------
(***************************************************************************)
(* Two users on the default chain, whose token has 17 decimals, and on the *)
(* chain of Solana users, whose token charges a fee; two Solana keys have  *)
(* the same address.  One contract with two entries in its account and two *)
(* in a cell account.  One holder, for transactions of three and of two    *)
(* bytes.                                                                  *)
(***************************************************************************)
EXTENDS Ledger, AccountLayout, HolderAccount

VARIABLE plot

CONSTANTS u1, u2, neon, w1, w2, o1, p1, p2, nokey, none, nocode

MCUsers == {u1, u2}
MCMint == [c \in {1, 2} |-> IF c = 1 THEN "neon" ELSE "sol"]
MCDecimals == [m \in {"neon", "sol"} |-> IF m = "neon" THEN 17 ELSE 18]
MCFromSolana == [p \in {p1, p2} |-> u1]

GasCost == 5
Values == {GasCost, 10}

NoTokens == [amount |-> 0, delegate |-> NoKey, delegated |-> 0]
OldHeader(version, nonce) == [version |-> version, balance |-> 0, nonce |-> nonce, user |-> NoKey]

(* Accounts of users may have been created by earlier versions. *)
LedgerInit ==
    /\ \E first \in {NoAccount, OldHeader(0, 0)},
          second \in {NoAccount, OldHeader(2, 0), OldHeader(0, 1)} :
          balances = [k \in BalanceKey |-> IF k = <<u1, 1>> THEN first
                                           ELSE IF k = <<u1, 2>> THEN second ELSE NoAccount]
    /\ operators = [k \in OperatorKey |-> NoAccount]
    /\ \E past \in {NoAccount, [balance |-> 10, nonce |-> 1], [balance |-> 0, nonce |-> 0]} :
          /\ legacy = [a \in Addresses |-> IF a = u2 THEN past ELSE NoAccount]
          /\ pool = [m \in Mints |-> IF m = "neon" /\ past # NoAccount /\ past.balance = 10 THEN 1 ELSE 0]
    /\ tokens = [k \in Wallets \X Mints |->
                    IF k[1] = w1 THEN [NoTokens EXCEPT !.amount = 1] ELSE NoAccount]
    /\ gifts = [m \in Mints |-> 0]

NoLedger ==
    /\ balances = [k \in BalanceKey |-> NoAccount]
    /\ operators = [k \in OperatorKey |-> NoAccount]
    /\ legacy = [a \in Addresses |-> NoAccount]
    /\ pool = [m \in Mints |-> 0]
    /\ tokens = [k \in Wallets \X Mints |-> NoAccount]
    /\ gifts = [m \in Mints |-> 0]
-----------------------------------------------------------------------------
(* One instruction allocates enough for the short code; the long code      *)
(* takes three.                                                            *)
MCCodes == {<<7>>, <<7, 8, 8, 8, 8, 8, 8, 8, 8, 8>>}
Paid(data) == [owner |-> "program", data |-> data, lamports |-> minimum_balance(Len(data))]

(* A contract of the first or the second header version, or a legacy one,  *)
(* which may have destroyed itself, or have never been a contract.         *)
OldContracts ==
    {Paid(<<TAG_ACCOUNT_CONTRACT, 0, 0, 0, 1, 7>>), Paid(<<TAG_ACCOUNT_CONTRACT, 2, 0, 1, 0, 1, 7>>)}
LegacyContracts ==
    {Paid(<<TAG_ACCOUNT_CONTRACT_DEPRECATED, gen, size, 9, 9, 9, 0, 1, 7, 0>>) :
        gen \in {0, 1}, size \in {0, 1}}
LegacyCell(gen) == Paid(<<TAG_STORAGE_CELL_DEPRECATED, gen, 9, 9, 2, 1, 3, 0>>)

LayoutInit ==
    /\ \E account \in {SystemAccount(0), SystemAccount(3)} \cup OldContracts \cup LegacyContracts,
          cells_account \in {SystemAccount(0), Paid(<<TAG_STORAGE_CELL, 0, 2, 1>>), LegacyCell(0)} :
          /\ contract = [a \in Contracts |-> account]
          /\ cell = [k \in Contracts \X Groups |-> cells_account]
          /\ account.owner = "system" => cells_account.owner = "system"
          /\ account \in OldContracts => cells_account # LegacyCell(0)
          /\ account \in LegacyContracts =>
                /\ ~HasTag(cells_account, TAG_STORAGE_CELL)
                /\ legacy_generation(account.data) = 0 /\ legacy_code_size(account.data) = 0
                      => cells_account.owner = "system"
    /\ deploying = [a \in Contracts |-> NoCode]
    /\ abandoned = [a \in Contracts |-> {}]
    /\ last = [kind |-> "none", contract |-> 1, what |-> <<>>]

NoLayout ==
    /\ contract = [a \in Contracts |-> SystemAccount(0)]
    /\ cell = [k \in Contracts \X Groups |-> SystemAccount(0)]
    /\ deploying = [a \in Contracts |-> NoCode]
    /\ abandoned = [a \in Contracts |-> {}]
    /\ last = [kind |-> "none", contract |-> 1, what |-> <<>>]
-----------------------------------------------------------------------------
MCTrxs == {<<1, 2, 3>>, <<1, 4>>}
MCHeaps == {<<0, 5, 5, 5>>, <<1, 2, 3, 5>>}

OldHolder(t) == [tag |-> t, owner |-> "op", hash |-> <<1, 4>>, len |-> 2, buffer |-> <<1, 4, 5, 0>>]
MCOldHolders == {OldHolder("HOLDER_DEPRECATED"), OldHolder("STATE_FINALIZED_DEPRECATED")}
-----------------------------------------------------------------------------
(* Plot "money": tokens move.  Plot "users": accounts get their owners.    *)
(* Plot "contracts": code and storage are written.  Plot "holder".         *)
MCInit ==
    \/ plot = "money" /\ LedgerInit /\ NoLayout /\ holder = NoHolder /\ delivered = {}
       /\ balances[u1, 2] \in {NoAccount, OldHeader(2, 0)}
    \/ plot = "users" /\ LedgerInit /\ NoLayout /\ holder = NoHolder /\ delivered = {}
       /\ legacy[u2] # NoAccount
    \/ plot = "contracts" /\ NoLedger /\ LayoutInit /\ holder = NoHolder /\ delivered = {}
    \/ plot = "holder" /\ NoLedger /\ NoLayout /\ HolderInit

Money ==
    /\ plot = "money" /\ UNCHANGED <<plot, layoutVars, holderVars>>
    /\ \/ \E a \in Users, c \in Chains, n \in 1 .. 2 : Approve(w1, Mint[c], a, c, n)
       \/ \E w \in Wallets, m \in Mints : Give(w, m, 1)
       \/ \E a \in Users : CreateAccountBalance(a, 1)
       \/ \E w \in Wallets, a \in Users, c \in Chains : Deposit(w, a, c)
       \/ \E a \in Users, b \in Users, c \in Chains, v \in Values : Transfer(a, b, c, v)
       \/ \E a \in Users, w \in Wallets, v \in Values : withdraw(a, w, v)
       \/ \E o \in Operators, c \in Chains : OperatorCreate(o, u1, c)
       \/ \E a \in Users, o \in Operators, c \in Chains, oc \in Chains :
             consume_gas(a, c, o, u1, oc, GasCost)
       \/ \E o \in Operators, ta \in Users, c \in Chains, tc \in Chains :
             OperatorWithdraw(o, u1, c, ta, tc)
       \/ \E o \in Operators, c \in Chains : OperatorDelete(o, u1, c)

Owners ==
    /\ plot = "users" /\ UNCHANGED <<plot, layoutVars, holderVars>>
    /\ \/ \E a \in Users, c \in Chains : CreateAccountBalance(a, c)
       \/ \E a \in Users, c \in Chains : IncrementNonce(a, c)
       \/ \E a \in Users, b \in Users, c \in Chains : Transfer(a, b, c, 0)
       \/ \E p \in Pubkeys : create_for_solana_user(p)

(* A transaction writes an entry of the contract account, with or without  *)
(* a cell, or two cells.                                                   *)
Writes == UNION {[S -> Words] : S \in {{<<0, 1>>, <<0, 2>>}, {<<0, 2>>, <<0, 3>>}, {<<0, 1>>}}}
WrittenOneByOne == {<<0, 0>>, <<0, 2>>}

Accounts ==
    /\ plot = "contracts" /\ UNCHANGED <<plot, ledgerVars, holderVars>>
    /\ \E a \in Contracts :
          \/ \E bytes \in Codes : BeginDeploy(a, bytes) \/ set_code(a, bytes)
          \/ DeployIteration(a)
          \/ CancelDeploy(a)
          \/ \E changes \in Writes : apply_storage(a, changes)
          \/ \E index \in WrittenOneByOne, v \in Words : set_storage(a, index, v)
          \/ UseTimestamp(a, 1)
          \/ \E groups \in SUBSET Groups : UpdateLegacy(a, groups)

Chunks ==
    /\ plot = "holder" /\ UNCHANGED <<plot, ledgerVars, layoutVars>>
    /\ HolderNext

MCNext == Money \/ Owners \/ Accounts \/ Chunks

Spec == MCInit /\ [][MCNext]_<<ledgerVars, layoutVars, holderVars, plot>>
=============================================================================
