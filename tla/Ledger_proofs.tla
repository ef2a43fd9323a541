---------------------------- MODULE Ledger_proofs ----------------------------
(***************************************************************************)
(* Balance accounts keep their users, for any users, chains, mints, keys   *)
(* and amounts.  Nothing is assumed about the first state but its types.   *)
(***************************************************************************)
EXTENDS Ledger, SumTheorems

Books == [BalanceKey -> AnyHeader \cup {NoAccount}]

(* The fields of the token accounts; amounts are numbers. *)
TokensTyped ==
    /\ DOMAIN tokens = Wallets \X Mints
    /\ \A k \in Wallets \X Mints : tokens[k] # NoAccount =>
          /\ DOMAIN tokens[k] = {"amount", "delegate", "delegated"}
          /\ tokens[k].amount \in Int /\ tokens[k].delegated \in Int

LedgerType ==
    /\ balances \in Books
    /\ legacy \in [Addresses -> [balance : Int, nonce : Nat] \cup {NoAccount}]
    /\ operators \in [OperatorKey -> Int \cup {NoAccount}]
    /\ TokensTyped

LedgerNext ==
    \/ \E w \in Wallets, m \in Mints, a \in Addresses, c \in Chains, n \in Nat : Approve(w, m, a, c, n)
    \/ \E w \in Wallets, m \in Mints, n \in Nat : Give(w, m, n)
    \/ \E a \in Addresses, c \in Chains : CreateAccountBalance(a, c)
    \/ \E w \in Wallets, a \in Addresses, c \in Chains : Deposit(w, a, c)
    \/ \E a, b \in Addresses, c \in Chains, v \in Nat : Transfer(a, b, c, v)
    \/ \E a \in Addresses, w \in Wallets, v \in Nat : withdraw(a, w, v)
    \/ \E a \in Addresses, c \in Chains : IncrementNonce(a, c)
    \/ \E o \in Operators, a \in Addresses, c \in Chains : OperatorCreate(o, a, c) \/ OperatorDelete(o, a, c)
    \/ \E source, a \in Addresses, o \in Operators, c, oc \in Chains, v \in Nat :
          consume_gas(source, c, o, a, oc, v)
    \/ \E o \in Operators, a, ta \in Addresses, c, tc \in Chains : OperatorWithdraw(o, a, c, ta, tc)
    \/ \E p \in Pubkeys : create_for_solana_user(p)

LedgerSpec == LedgerType /\ [][LedgerNext]_ledgerVars

(* What may become of one account, and of all of them. *)
Keeps(h, n) ==
    h # NoAccount =>
        /\ n # NoAccount
        /\ n.nonce >= h.nonce
        /\ (h.nonce > 0 \/ h.user # NoKey) => n.user = h.user
Keeping(b, n) == n \in Books /\ \A k \in BalanceKey : Keeps(b[k], n[k])
-----------------------------------------------------------------------------
(* Every address has a key on every chain, and every chain a mint. *)
LEMMA KeysOfChains ==
    /\ \A a \in Addresses, c \in Chains : <<a, c>> \in BalanceKey
    /\ NeonToken \in Addresses /\ DEFAULT_CHAIN_ID \in Chains /\ SOL_CHAIN_ID \in Chains
    /\ \A p \in Pubkeys : FromSolanaAddress[p] \in Addresses
    /\ \A c \in Chains : Mint[c] \in Mints /\ Unit(Mint[c]) \in Int
    /\ \A m \in Mints : Unit(m) \in Int
  <1>1. \A m \in Mints : Unit(m) \in Int
    <2> SUFFICES ASSUME NEW m \in Mints PROVE Unit(m) \in Int
      BY Zenon
    <2>1. 18 - Decimals[m] \in Nat
      BY ChainAssumption
    <2>2. \A n \in Nat : 10 ^ n \in Int
      OBVIOUS
    <2> QED BY <2>1, <2>2, Zenon DEF Unit
  <1>2. \A c \in Chains : Mint[c] \in Mints
    BY Zenon DEF Mints
  <1> QED BY <1>1, <1>2, ChainAssumption, Zenon DEF BalanceKey, Addresses

(* Books that stay the same keep every user. *)
LEMMA KeepsReflexive ==
    ASSUME NEW b \in Books
    PROVE  Keeping(b, b)
  BY NoAccountAssumption DEF Keeping, Keeps, Books, AnyHeader

(* Two changes that keep every user keep them together. *)
LEMMA KeepsTransitive ==
    ASSUME NEW b \in Books, NEW m, Keeping(b, m), NEW n, Keeping(m, n)
    PROVE  Keeping(b, n)
  <1> SUFFICES ASSUME NEW k \in BalanceKey, b[k] # NoAccount
               PROVE  /\ n[k] # NoAccount /\ n[k].nonce >= b[k].nonce
                      /\ (b[k].nonce > 0 \/ b[k].user # NoKey) => n[k].user = b[k].user
    BY Zenon DEF Keeping, Keeps
  <1>1. /\ m[k] # NoAccount /\ m[k].nonce >= b[k].nonce
        /\ (b[k].nonce > 0 \/ b[k].user # NoKey) => m[k].user = b[k].user
    BY Zenon DEF Keeping, Keeps
  <1>2. /\ n[k] # NoAccount /\ n[k].nonce >= m[k].nonce
        /\ (m[k].nonce > 0 \/ m[k].user # NoKey) => n[k].user = m[k].user
    BY <1>1, Zenon DEF Keeping, Keeps
  <1>3. b[k].nonce \in Nat /\ m[k].nonce \in Nat /\ n[k].nonce \in Nat
    BY <1>1, <1>2, Zenon DEF Keeping, Books, AnyHeader
  <1> QED BY <1>1, <1>2, <1>3

(* An account is replaced by one with the same user and no smaller nonce. *)
LEMMA ReplaceKeeps ==
    ASSUME NEW b \in Books, NEW k \in BalanceKey, b[k] # NoAccount, NEW h \in AnyHeader,
           h.nonce >= b[k].nonce, h.user = b[k].user
    PROVE  /\ Keeping(b, [b EXCEPT ![k] = h])
           /\ \A j \in BalanceKey : b[j] # NoAccount => [b EXCEPT ![k] = h][j] # NoAccount
  <1> DEFINE n == [b EXCEPT ![k] = h]
  <1>1. n \in Books /\ \A j \in BalanceKey : n[j] = IF j = k THEN h ELSE b[j]
    BY Zenon DEF Books
  <1>2. h # NoAccount
    BY NoAccountAssumption, Zenon
  <1>3. \A j \in BalanceKey : Keeps(b[j], n[j])
    <2> SUFFICES ASSUME NEW j \in BalanceKey PROVE Keeps(b[j], n[j])
      BY Zenon
    <2>1. CASE j = k
      BY <1>1, <1>2, <2>1, Zenon DEF Keeps
    <2>2. CASE j # k
      <3>1. n[j] = b[j]
        BY <1>1, <2>2, Zenon
      <3>2. Keeps(b[j], b[j])
        BY KeepsReflexive, Zenon DEF Keeping
      <3> QED BY <3>1, <3>2, Zenon
    <2> QED BY <2>1, <2>2, Zenon
  <1> HIDE DEF n
  <1>4. Keeping(b, n) /\ \A j \in BalanceKey : b[j] # NoAccount => n[j] # NoAccount
    BY <1>1, <1>2, <1>3, Zenon DEF Keeping
  <1> QED BY <1>4, Zenon DEF n

(* BalanceAccount::create adds an account if there is none and changes no
   other. *)
LEMMA CreateKeeps ==
    ASSUME NEW b \in Books, NEW a \in Addresses, NEW c \in Chains
    PROVE  /\ Keeping(b, create(b, a, c)) /\ create(b, a, c)[<<a, c>>] # NoAccount
           /\ \A j \in BalanceKey : b[j] # NoAccount => create(b, a, c)[j] # NoAccount
  <1> DEFINE k == <<a, c>>
             n == create(b, a, c)
  <1>1. k \in BalanceKey
    BY KeysOfChains, Zenon
  <1>2. CASE b[k] = NoAccount
    <2>1. initialize \in AnyHeader /\ initialize # NoAccount
      BY NoAccountAssumption DEF initialize, AnyHeader
    <2>2. n = [b EXCEPT ![k] = initialize]
      BY <1>2, Zenon DEF create
    <2> HIDE DEF n, k
    <2>3. n \in Books /\ \A j \in BalanceKey : n[j] = IF j = k THEN initialize ELSE b[j]
      BY <2>1, <2>2, Zenon DEF Books
    <2>4. \A j \in BalanceKey : Keeps(b[j], n[j])
      BY <1>2, <2>3, KeepsReflexive, Zenon DEF Keeping, Keeps
    <2>5. Keeping(b, n) /\ n[k] # NoAccount /\ \A j \in BalanceKey : b[j] # NoAccount => n[j] # NoAccount
      BY <1>1, <2>1, <2>3, <2>4, Zenon DEF Keeping
    <2> QED BY <2>5, Zenon DEF n, k
  <1>3. CASE b[k] # NoAccount
    BY <1>3, KeepsReflexive, Zenon DEF create
  <1> QED BY <1>2, <1>3, Zenon

(* increment_revision, mint, burn and the increment of a nonce. *)
LEMMA ChangeKeeps ==
    ASSUME NEW b \in Books, NEW a \in Addresses, NEW c \in Chains, b[<<a, c>>] # NoAccount, NEW v \in Int
    PROVE  /\ Keeping(b, increment_revision(b, a, c)) /\ increment_revision(b, a, c)[<<a, c>>] # NoAccount
           /\ Keeping(b, mint(b, a, c, v)) /\ mint(b, a, c, v)[<<a, c>>] # NoAccount
           /\ Keeping(b, burn(b, a, c, v)) /\ burn(b, a, c, v)[<<a, c>>] # NoAccount
           /\ Keeping(b, [b EXCEPT ![<<a, c>>].nonce = @ + 1])
           /\ \A j \in BalanceKey : b[j] # NoAccount =>
                 /\ increment_revision(b, a, c)[j] # NoAccount
                 /\ mint(b, a, c, v)[j] # NoAccount /\ burn(b, a, c, v)[j] # NoAccount
  <1> DEFINE k == <<a, c>>
             h == b[k]
  <1>1. k \in BalanceKey /\ h \in AnyHeader
    BY KeysOfChains, Zenon DEF Books
  <1>2. /\ h.nonce \in Nat /\ h.version \in {0, 2, 3} /\ h.balance \in Int
        /\ h.user \in Pubkeys \cup {NoKey}
    BY <1>1, Zenon DEF AnyHeader
  <1> DEFINE r == [h EXCEPT !.version = IF @ < 2 THEN 3 ELSE @]
             p == [h EXCEPT !.balance = @ + v]
             m == [h EXCEPT !.balance = @ - v]
             i == [h EXCEPT !.nonce = @ + 1]
  <1>3. /\ r \in AnyHeader /\ r.nonce = h.nonce /\ r.user = h.user
        /\ p \in AnyHeader /\ p.nonce = h.nonce /\ p.user = h.user
        /\ m \in AnyHeader /\ m.nonce = h.nonce /\ m.user = h.user
        /\ i \in AnyHeader /\ i.nonce = h.nonce + 1 /\ i.user = h.user
    <2> HIDE DEF h
    <2> QED BY <1>1, <1>2 DEF AnyHeader
  <1>4. /\ increment_revision(b, a, c) = [b EXCEPT ![k] = r]
        /\ mint(b, a, c, v) = [b EXCEPT ![k] = p]
        /\ burn(b, a, c, v) = [b EXCEPT ![k] = m]
        /\ [b EXCEPT ![<<a, c>>].nonce = @ + 1] = [b EXCEPT ![k] = i]
    BY Zenon DEF increment_revision, mint, burn
  <1> HIDE DEF h, r, p, m, i
  <1>5. /\ Keeping(b, [b EXCEPT ![k] = r])
        /\ \A j \in BalanceKey : b[j] # NoAccount => [b EXCEPT ![k] = r][j] # NoAccount
    BY <1>1, <1>2, <1>3, ReplaceKeeps DEF h
  <1>6. /\ Keeping(b, [b EXCEPT ![k] = p])
        /\ \A j \in BalanceKey : b[j] # NoAccount => [b EXCEPT ![k] = p][j] # NoAccount
    BY <1>1, <1>2, <1>3, ReplaceKeeps DEF h
  <1>7. /\ Keeping(b, [b EXCEPT ![k] = m])
        /\ \A j \in BalanceKey : b[j] # NoAccount => [b EXCEPT ![k] = m][j] # NoAccount
    BY <1>1, <1>2, <1>3, ReplaceKeeps DEF h
  <1>8. Keeping(b, [b EXCEPT ![k] = i])
    BY <1>1, <1>2, <1>3, ReplaceKeeps DEF h
  <1> QED BY <1>1, <1>4, <1>5, <1>6, <1>7, <1>8, Zenon

(* transfer_gas_payment and the transfers of a state change. *)
LEMMA TransferKeeps ==
    ASSUME NEW b \in Books, NEW source \in Addresses, NEW target \in Addresses, NEW c \in Chains,
           b[<<source, c>>] # NoAccount, b[<<target, c>>] # NoAccount, NEW v \in Int
    PROVE  /\ Keeping(b, transfer(b, source, target, c, v))
           /\ transfer(b, source, target, c, v)[<<target, c>>] # NoAccount
  <1>1. CASE source = target
    BY <1>1, KeepsReflexive, Zenon DEF transfer
  <1>2. CASE source # target
    <2> DEFINE d == burn(b, source, c, v)
    <2>1. d \in Books /\ Keeping(b, d) /\ d[<<target, c>>] # NoAccount
      BY ChangeKeeps, KeysOfChains, Zenon DEF Keeping
    <2> HIDE DEF d
    <2>2. Keeping(d, mint(d, target, c, v)) /\ mint(d, target, c, v)[<<target, c>>] # NoAccount
      BY <2>1, ChangeKeeps, Zenon
    <2>3. Keeping(b, mint(d, target, c, v))
      BY <2>1, <2>2, KeepsTransitive, Zenon
    <2> QED BY <1>2, <2>2, <2>3, Zenon DEF transfer, d
  <1> QED BY <1>1, <1>2, Zenon

(* A transfer, which may create its target, keeps every user. *)
LEMMA TransferredKeeps ==
    ASSUME LedgerType, NEW source \in Addresses, NEW target \in Addresses, NEW c \in Chains,
           NEW v \in Int, balances[<<source, c>>] # NoAccount
    PROVE  /\ Keeping(balances, transferred(source, target, c, v))
           /\ transferred(source, target, c, v)[<<target, c>>] # NoAccount
  <1> DEFINE b == create(balances, target, c)
             i == increment_revision(b, source, c)
             j == increment_revision(i, target, c)
             n == transfer(j, source, target, c, v)
  <1>k. <<source, c>> \in BalanceKey /\ <<target, c>> \in BalanceKey /\ balances \in Books
    BY KeysOfChains, Zenon DEF LedgerType
  <1>1. b \in Books /\ Keeping(balances, b) /\ b[<<source, c>>] # NoAccount /\ b[<<target, c>>] # NoAccount
    BY <1>k, CreateKeeps, Zenon DEF Keeping
  <1> HIDE DEF b
  <1>2. i \in Books /\ Keeping(b, i) /\ i[<<source, c>>] # NoAccount /\ i[<<target, c>>] # NoAccount
    BY <1>k, <1>1, ChangeKeeps, Zenon DEF Keeping
  <1> HIDE DEF i
  <1>3. j \in Books /\ Keeping(i, j) /\ j[<<source, c>>] # NoAccount /\ j[<<target, c>>] # NoAccount
    BY <1>k, <1>2, ChangeKeeps, Zenon DEF Keeping
  <1> HIDE DEF j
  <1>4. Keeping(j, n) /\ n[<<target, c>>] # NoAccount
    BY <1>3, TransferKeeps, Zenon
  <1> HIDE DEF n
  <1>5. Keeping(balances, i)
    BY <1>k, <1>1, <1>2, KeepsTransitive, Zenon
  <1>6. Keeping(balances, j)
    BY <1>k, <1>5, <1>3, KeepsTransitive, Zenon
  <1>7. Keeping(balances, n)
    BY <1>k, <1>6, <1>4, KeepsTransitive, Zenon
  <1>8. n = transferred(source, target, c, v)
    BY Zenon DEF transferred, n, j, i, b
  <1> QED BY <1>4, <1>7, <1>8, Zenon

(* The conversion of a legacy account, before an account is created. *)
LEMMA UpdateKeeps ==
    ASSUME LedgerType, NEW a \in Addresses, NEW c \in Chains
    PROVE  /\ Keeping(balances, create(update_legacy_accounts(balances, a, c), a, c))
           /\ create(update_legacy_accounts(balances, a, c), a, c)[<<a, c>>] # NoAccount
           /\ legacy_after_update(a, c) \in [Addresses -> [balance : Int, nonce : Nat] \cup {NoAccount}]
  <1> DEFINE u == update_legacy_accounts(balances, a, c)
             d == DEFAULT_CHAIN_ID
             k == <<a, d>>
             b == create(balances, a, d)
             h == b[k]
             i == [h EXCEPT !.balance = @ + legacy[a].balance, !.nonce = @ + legacy[a].nonce]
  <1>0. d \in Chains /\ k \in BalanceKey /\ balances \in Books
    BY KeysOfChains, Zenon DEF LedgerType
  <1>1. b \in Books /\ Keeping(balances, b) /\ h # NoAccount
    BY <1>0, CreateKeeps, Zenon DEF Keeping
  <1>2. u \in Books /\ Keeping(balances, u)
    <2>1. CASE c = d /\ legacy[a] # NoAccount /\ (legacy[a].balance > 0 \/ legacy[a].nonce > 0)
      <3>1. legacy[a].balance \in Int /\ legacy[a].nonce \in Nat
        BY <2>1, Zenon DEF LedgerType
      <3>2. u = [b EXCEPT ![k] = i]
        BY <2>1, Zenon DEF update_legacy_accounts, converted
      <3> HIDE DEF b, u
      <3>3. h \in AnyHeader
        BY <1>0, <1>1, Zenon DEF Books
      <3>4. i \in AnyHeader /\ i.nonce >= h.nonce /\ i.user = h.user
        <4>1. /\ h.nonce \in Nat /\ h.balance \in Int /\ h.version \in {0, 2, 3}
              /\ h.user \in Pubkeys \cup {NoKey} /\ h = [h EXCEPT !.nonce = @]
          BY <3>3, Zenon DEF AnyHeader
        <4>2. h.balance + legacy[a].balance \in Int /\ h.nonce + legacy[a].nonce \in Nat
          BY <3>1, <4>1
        <4> HIDE DEF h
        <4>3. i \in AnyHeader /\ i.nonce = h.nonce + legacy[a].nonce /\ i.user = h.user
          BY <3>3, <4>1, <4>2, Zenon DEF AnyHeader
        <4> QED BY <3>1, <4>1, <4>3
      <3> HIDE DEF i, k
      <3>5. Keeping(b, u)
        BY <1>0, <1>1, <3>2, <3>4, ReplaceKeeps, Zenon
      <3> QED BY <1>0, <1>1, <3>5, KeepsTransitive, Zenon DEF Keeping
    <2>2. CASE ~(c = d /\ legacy[a] # NoAccount /\ (legacy[a].balance > 0 \/ legacy[a].nonce > 0))
      BY <1>0, <2>2, KeepsReflexive, Zenon DEF update_legacy_accounts, converted
    <2> QED BY <2>1, <2>2, Zenon
  <1> HIDE DEF u
  <1>3. Keeping(u, create(u, a, c)) /\ create(u, a, c)[<<a, c>>] # NoAccount
    BY <1>2, CreateKeeps, Zenon
  <1>4. Keeping(balances, create(u, a, c))
    BY <1>0, <1>2, <1>3, KeepsTransitive, Zenon
  <1>5. legacy_after_update(a, c) \in [Addresses -> [balance : Int, nonce : Nat] \cup {NoAccount}]
    BY Zenon DEF legacy_after_update, LedgerType
  <1> QED BY <1>3, <1>4, <1>5, Zenon DEF u
-----------------------------------------------------------------------------
Others ==
    /\ legacy \in [Addresses -> [balance : Int, nonce : Nat] \cup {NoAccount}]
    /\ operators \in [OperatorKey -> Int \cup {NoAccount}]

(* Wallets, pools, allowances and gifts stay functions on their mints. *)
LEMMA TokensStayTyped ==
    ASSUME TokensTyped, [LedgerNext]_ledgerVars
    PROVE  TokensTyped'
  <1>1. ASSUME NEW w \in Wallets, NEW m \in Mints, NEW a \in Addresses, NEW c \in Chains, NEW n \in Nat,
               Approve(w, m, a, c, n)
        PROVE  TokensTyped'
    <2> DEFINE k == <<w, m>>
    <2>1. /\ tokens[k] # NoAccount /\ k \in Wallets \X Mints
          /\ tokens' = [tokens EXCEPT ![k] = [tokens[k] EXCEPT !.delegate = <<a, c>>, !.delegated = n]]
      BY <1>1, Zenon DEF Approve
    <2> HIDE DEF k
    <2> QED BY <2>1 DEF TokensTyped
  <1>2. ASSUME NEW w \in Wallets, NEW m \in Mints, NEW n \in Nat, Give(w, m, n)
        PROVE  TokensTyped'
    <2> DEFINE k == <<w, m>>
    <2>1. /\ tokens[k] # NoAccount /\ k \in Wallets \X Mints
          /\ tokens' = [tokens EXCEPT ![k] = [tokens[k] EXCEPT !.amount = @ - n]]
      BY <1>2, Zenon DEF Give
    <2> HIDE DEF k
    <2> QED BY <2>1 DEF TokensTyped
  <1>3. ASSUME NEW w \in Wallets, NEW a \in Addresses, NEW c \in Chains, Deposit(w, a, c)
        PROVE  TokensTyped'
    <2> DEFINE k == <<w, Mint[c]>>
    <2>1. /\ tokens[k] # NoAccount /\ k \in Wallets \X Mints
          /\ tokens' = [tokens EXCEPT ![k] =
                           [tokens[k] EXCEPT !.amount = @ - tokens[k].delegated, !.delegated = 0,
                                             !.delegate = NoKey]]
      BY <1>3, KeysOfChains, Zenon DEF Deposit
    <2> HIDE DEF k
    <2> QED BY <2>1 DEF TokensTyped
  <1>4. ASSUME NEW a \in Addresses, NEW w \in Wallets, NEW v \in Nat, withdraw(a, w, v)
        PROVE  TokensTyped'
    <2> DEFINE m == Mint[DEFAULT_CHAIN_ID]
               k == <<w, m>>
               x == v \div Unit(m)
               fresh == [amount |-> x, delegate |-> NoKey, delegated |-> 0]
               grown == [tokens[k] EXCEPT !.amount = @ + x]
    <2>1. /\ k \in Wallets \X Mints
          /\ tokens' = [tokens EXCEPT ![k] = IF tokens[k] = NoAccount THEN fresh ELSE grown]
      BY <1>4, KeysOfChains, Zenon DEF withdraw
    <2>x. x \in Int
      <3>1. Unit(m) \in Int /\ Unit(m) > 0
        BY KeysOfChains, UnitAssumption, Zenon
      <3> QED BY <3>1
    <2> HIDE DEF k, x
    <2>2. /\ DOMAIN fresh = {"amount", "delegate", "delegated"}
          /\ fresh.amount \in Int /\ fresh.delegated \in Int
      BY <2>x
    <2>3. tokens[k] # NoAccount =>
             /\ DOMAIN grown = {"amount", "delegate", "delegated"}
             /\ grown.amount \in Int /\ grown.delegated \in Int
      BY <2>1, <2>x DEF TokensTyped
    <2> HIDE DEF fresh, grown
    <2> QED BY <2>1, <2>2, <2>3, Zenon DEF TokensTyped
  <1>5. tokens' = tokens => TokensTyped'
    BY Zenon DEF TokensTyped
  <1>6. ASSUME \/ \E a \in Addresses, c \in Chains : CreateAccountBalance(a, c)
               \/ \E a, b \in Addresses, c \in Chains, v \in Nat : Transfer(a, b, c, v)
               \/ \E a \in Addresses, c \in Chains : IncrementNonce(a, c)
               \/ \E p \in Pubkeys : create_for_solana_user(p)
               \/ UNCHANGED ledgerVars
        PROVE  tokens' = tokens
    BY <1>6, Zenon DEF ledgerVars, CreateAccountBalance, Transfer, IncrementNonce, create_for_solana_user
  <1>7. ASSUME \/ \E o \in Operators, a \in Addresses, c \in Chains : OperatorCreate(o, a, c) \/ OperatorDelete(o, a, c)
               \/ \E source, a \in Addresses, o \in Operators, c, oc \in Chains, v \in Nat :
                     consume_gas(source, c, o, a, oc, v)
               \/ \E o \in Operators, a, ta \in Addresses, c, tc \in Chains : OperatorWithdraw(o, a, c, ta, tc)
        PROVE  tokens' = tokens
    <2>1. ASSUME NEW o, NEW a, NEW c, OperatorCreate(o, a, c) \/ OperatorDelete(o, a, c)
          PROVE  tokens' = tokens
      BY <2>1, Zenon DEF OperatorCreate, OperatorDelete
    <2>2. ASSUME NEW source, NEW a, NEW o, NEW c, NEW oc, NEW v, consume_gas(source, c, o, a, oc, v)
          PROVE  tokens' = tokens
      BY <2>2, Zenon DEF consume_gas
    <2>3. ASSUME NEW o, NEW a, NEW ta, NEW c, NEW tc, OperatorWithdraw(o, a, c, ta, tc)
          PROVE  tokens' = tokens
      BY <2>3, Zenon DEF OperatorWithdraw
    <2> QED BY <1>7, <2>1, <2>2, <2>3, Zenon
  <1> QED
    BY <1>1, <1>2, <1>3, <1>4, <1>5, <1>6, <1>7, Zenon DEF LedgerNext

(* One step per instruction. *)
LEMMA StepKeeps ==
    ASSUME LedgerType, [LedgerNext]_ledgerVars
    PROVE  Keeping(balances, balances') /\ Others'
  <1>t. balances \in Books /\ Others
    BY Zenon DEF LedgerType, Others
  <1>s. balances' = balances => Keeping(balances, balances')
    BY <1>t, KeepsReflexive, Zenon
  <1>o. UNCHANGED <<legacy, operators>> => Others'
    BY <1>t, Zenon DEF Others
  <1>1. CASE \E w \in Wallets, m \in Mints, a \in Addresses, c \in Chains, n \in Nat : Approve(w, m, a, c, n)
    BY <1>1, <1>s, <1>o, Zenon DEF Approve
  <1>2. CASE \E w \in Wallets, m \in Mints, n \in Nat : Give(w, m, n)
    BY <1>2, <1>s, <1>o, Zenon DEF Give
  <1>3. ASSUME NEW a \in Addresses, NEW c \in Chains, CreateAccountBalance(a, c)
        PROVE  Keeping(balances, balances') /\ Others'
    <2>1. /\ balances' = create(update_legacy_accounts(balances, a, c), a, c)
          /\ legacy' = legacy_after_update(a, c) /\ operators' = operators
      BY <1>3, Zenon DEF CreateAccountBalance
    <2> QED BY <1>t, <2>1, UpdateKeeps, Zenon DEF Others
  <1>4. ASSUME NEW w \in Wallets, NEW a \in Addresses, NEW c \in Chains, Deposit(w, a, c)
        PROVE  Keeping(balances, balances') /\ Others'
    <2> DEFINE b == create(update_legacy_accounts(balances, a, c), a, c)
               r == increment_revision(b, a, c)
               v == tokens[<<w, Mint[c]>>].delegated * Unit(Mint[c])
    <2>1. /\ balances' = mint(r, a, c, v) /\ legacy' = legacy_after_update(a, c)
          /\ operators' = operators
      BY <1>4, Zenon DEF Deposit
    <2>2. v \in Int
      <3> DEFINE k == <<w, Mint[c]>>
      <3>0. k \in Wallets \X Mints /\ tokens[k] # NoAccount
        BY <1>4, KeysOfChains, Zenon DEF Deposit
      <3>1. tokens[k].delegated \in Int
        BY <3>0, Zenon DEF LedgerType, TokensTyped
      <3>2. Unit(Mint[c]) \in Int
        BY KeysOfChains, Zenon
      <3> QED BY <3>1, <3>2
    <2>3. b \in Books /\ Keeping(balances, b) /\ b[<<a, c>>] # NoAccount
      BY UpdateKeeps, Zenon DEF Keeping
    <2> HIDE DEF b, v
    <2>4. r \in Books /\ Keeping(b, r) /\ r[<<a, c>>] # NoAccount
      BY <2>2, <2>3, ChangeKeeps, Zenon DEF Keeping
    <2> HIDE DEF r
    <2>5. Keeping(r, mint(r, a, c, v))
      BY <2>2, <2>4, ChangeKeeps, Zenon
    <2>6. Keeping(balances, r)
      BY <1>t, <2>3, <2>4, KeepsTransitive, Zenon
    <2>7. Keeping(balances, balances')
      BY <1>t, <2>1, <2>5, <2>6, KeepsTransitive, Zenon
    <2> QED BY <1>t, <2>1, <2>7, UpdateKeeps, Zenon DEF Others
  <1>5. ASSUME NEW a \in Addresses, NEW b \in Addresses, NEW c \in Chains, NEW v \in Nat, Transfer(a, b, c, v)
        PROVE  Keeping(balances, balances') /\ Others'
    <2>1. balances' = transferred(a, b, c, v) /\ balances[<<a, c>>] # NoAccount
      BY <1>5, Zenon DEF Transfer, transferable
    <2>2. Others'
      BY <1>5, <1>o, Zenon DEF Transfer
    <2>3. v \in Int
      OBVIOUS
    <2> QED BY <2>1, <2>2, <2>3, TransferredKeeps, Zenon
  <1>6. ASSUME NEW a \in Addresses, NEW w \in Wallets, NEW v \in Nat, withdraw(a, w, v)
        PROVE  Keeping(balances, balances') /\ Others'
    <2> DEFINE c == DEFAULT_CHAIN_ID
               n == transferred(a, NeonToken, c, v)
    <2>1. balances' = burn(n, NeonToken, c, v) /\ balances[<<a, c>>] # NoAccount
      BY <1>6, Zenon DEF withdraw, transferable
    <2>0. v \in Int
      OBVIOUS
    <2>2. n \in Books /\ Keeping(balances, n) /\ n[<<NeonToken, c>>] # NoAccount
      BY <2>0, <2>1, KeysOfChains, TransferredKeeps, Zenon DEF Keeping
    <2> HIDE DEF n
    <2>3. Keeping(n, burn(n, NeonToken, c, v))
      BY <2>0, <2>2, KeysOfChains, ChangeKeeps, Zenon
    <2>4. Keeping(balances, balances')
      BY <1>t, <2>1, <2>2, <2>3, KeepsTransitive, Zenon
    <2>5. Others'
      BY <1>6, <1>o, Zenon DEF withdraw
    <2> QED BY <2>4, <2>5, Zenon
  <1>7. ASSUME NEW a \in Addresses, NEW c \in Chains, IncrementNonce(a, c)
        PROVE  Keeping(balances, balances') /\ Others'
    <2> DEFINE b == create(balances, a, c)
    <2>1. balances' = [b EXCEPT ![<<a, c>>].nonce = @ + 1]
      BY <1>7, Zenon DEF IncrementNonce
    <2>2. b \in Books /\ Keeping(balances, b) /\ b[<<a, c>>] # NoAccount
      BY <1>t, CreateKeeps, Zenon DEF Keeping
    <2> HIDE DEF b
    <2>3. Keeping(b, [b EXCEPT ![<<a, c>>].nonce = @ + 1])
      BY <2>2, ChangeKeeps
    <2>4. Keeping(balances, balances')
      BY <1>t, <2>1, <2>2, <2>3, KeepsTransitive
    <2>5. Others'
      BY <1>7, <1>o, Zenon DEF IncrementNonce
    <2> QED BY <2>4, <2>5, Zenon
  <1>8. ASSUME NEW o \in Operators, NEW a \in Addresses, NEW c \in Chains,
               OperatorCreate(o, a, c) \/ OperatorDelete(o, a, c)
        PROVE  Keeping(balances, balances') /\ Others'
    <2> DEFINE k == <<o, a, c>>
    <2>1. /\ balances' = balances /\ legacy' = legacy
          /\ \/ operators' = [operators EXCEPT ![k] = IF @ = NoAccount THEN 0 ELSE @]
             \/ operators' = [operators EXCEPT ![k] = NoAccount]
      BY <1>8, Zenon DEF OperatorCreate, OperatorDelete
    <2>2. k \in OperatorKey
      BY Zenon DEF OperatorKey
    <2> HIDE DEF k
    <2>3. Others'
      BY <1>t, <2>1, <2>2 DEF Others
    <2> QED BY <2>1, <2>3, <1>s, Zenon
  <1>9. ASSUME NEW source \in Addresses, NEW a \in Addresses, NEW o \in Operators, NEW c \in Chains,
               NEW oc \in Chains, NEW v \in Nat, consume_gas(source, c, o, a, oc, v)
        PROVE  Keeping(balances, balances') /\ Others'
    <2> DEFINE r == increment_revision(balances, source, c)
    <2>1. balances' = burn(r, source, c, v) /\ balances[<<source, c>>] # NoAccount
      BY <1>9, Zenon DEF consume_gas
    <2>0. v \in Int
      OBVIOUS
    <2>2. r \in Books /\ Keeping(balances, r) /\ r[<<source, c>>] # NoAccount
      BY <1>t, <2>0, <2>1, ChangeKeeps, Zenon DEF Keeping
    <2> HIDE DEF r
    <2>3. Keeping(r, burn(r, source, c, v))
      BY <2>0, <2>2, ChangeKeeps, Zenon
    <2>4. Keeping(balances, balances')
      BY <1>t, <2>1, <2>2, <2>3, KeepsTransitive, Zenon
    <2>5. Others'
      <3>1. operators[<<o, a, oc>>] # NoAccount /\ <<o, a, oc>> \in OperatorKey
        BY <1>9, Zenon DEF consume_gas, OperatorKey
      <3>2. operators[<<o, a, oc>>] + v \in Int
        BY <1>t, <3>1 DEF Others
      <3> QED BY <1>9, <1>t, <3>2, Zenon DEF consume_gas, Others
    <2> QED BY <2>4, <2>5, Zenon
  <1>10. ASSUME NEW o \in Operators, NEW a \in Addresses, NEW ta \in Addresses, NEW c \in Chains,
                NEW tc \in Chains, OperatorWithdraw(o, a, c, ta, tc)
         PROVE  Keeping(balances, balances') /\ Others'
    <2> DEFINE v == operators[<<o, a, c>>]
               n == mint(balances, ta, tc, v)
    <2>1. /\ balances' = increment_revision(n, ta, tc) /\ balances[<<ta, tc>>] # NoAccount
          /\ v # NoAccount
      BY <1>10, Zenon DEF OperatorWithdraw
    <2>2. v \in Int
      BY <2>1, <1>t, Zenon DEF Others, OperatorKey
    <2> HIDE DEF v
    <2>3. n \in Books /\ Keeping(balances, n) /\ n[<<ta, tc>>] # NoAccount
      BY <1>t, <2>1, <2>2, ChangeKeeps, Zenon DEF Keeping
    <2> HIDE DEF n
    <2>4. Keeping(n, increment_revision(n, ta, tc))
      BY <2>2, <2>3, ChangeKeeps, Zenon
    <2>5. Keeping(balances, balances')
      BY <1>t, <2>1, <2>3, <2>4, KeepsTransitive, Zenon
    <2>6. Others'
      <3> DEFINE k == <<o, a, c>>
      <3>1. operators' = [operators EXCEPT ![k] = 0] /\ legacy' = legacy
        BY <1>10, Zenon DEF OperatorWithdraw
      <3>2. operators' \in [OperatorKey -> Int \cup {NoAccount}]
        <4>1. k \in OperatorKey
          BY Zenon DEF OperatorKey
        <4> HIDE DEF k
        <4> QED BY <1>t, <3>1, <4>1 DEF Others
      <3> QED BY <1>t, <3>1, <3>2, Zenon DEF Others
    <2> QED BY <2>5, <2>6, Zenon
  <1>11. ASSUME NEW p \in Pubkeys, create_for_solana_user(p)
         PROVE  Keeping(balances, balances') /\ Others'
    <2> DEFINE a == FromSolanaAddress[p]
               k == <<a, SOL_CHAIN_ID>>
               b == create(balances, a, SOL_CHAIN_ID)
               h == b[k]
               i == [h EXCEPT !.user = p]
    <2>1. /\ balances' = [b EXCEPT ![k] = i]
          /\ h.user = p \/ (h.user = NoKey /\ h.nonce = 0)
      BY <1>11, Zenon DEF create_for_solana_user
    <2>2. a \in Addresses /\ SOL_CHAIN_ID \in Chains /\ k \in BalanceKey
      BY KeysOfChains, Zenon
    <2>3. b \in Books /\ Keeping(balances, b) /\ h # NoAccount
      BY <1>t, <2>2, CreateKeeps, Zenon DEF Keeping
    <2> HIDE DEF b, k
    <2>4. h \in AnyHeader
      BY <2>2, <2>3, Zenon DEF Books
    <2>5. i \in AnyHeader /\ i.nonce = h.nonce /\ i.user = p /\ h.nonce \in Nat
      <3> HIDE DEF h
      <3> QED BY <2>4, Zenon DEF AnyHeader
    <2> HIDE DEF i
    <2>6. i # NoAccount
      BY <2>5, NoAccountAssumption, Zenon
    <2>7. balances' \in Books /\ \A j \in BalanceKey : balances'[j] = IF j = k THEN i ELSE b[j]
      BY <2>1, <2>3, <2>5, Zenon DEF Books
    <2>8. Keeps(h, i)
      BY <2>1, <2>5, <2>6 DEF Keeps
    <2>9. \A j \in BalanceKey : Keeps(b[j], balances'[j])
      <3> SUFFICES ASSUME NEW j \in BalanceKey PROVE Keeps(b[j], balances'[j])
        BY Zenon
      <3>1. CASE j = k
        BY <2>7, <2>8, <3>1, Zenon
      <3>2. CASE j # k
        <4>1. balances'[j] = b[j]
          BY <2>7, <3>2, Zenon
        <4>2. Keeps(b[j], b[j])
          BY <2>3, KeepsReflexive, Zenon DEF Keeping
        <4> QED BY <4>1, <4>2, Zenon
      <3> QED BY <3>1, <3>2, Zenon
    <2>10. Keeping(b, balances')
      BY <2>7, <2>9, Zenon DEF Keeping
    <2>11. Keeping(balances, balances')
      BY <1>t, <2>3, <2>10, KeepsTransitive, Zenon
    <2>12. Others'
      BY <1>11, <1>o, Zenon DEF create_for_solana_user
    <2> QED BY <2>11, <2>12, Zenon
  <1>12. CASE UNCHANGED ledgerVars
    BY <1>12, <1>s, <1>o, Zenon DEF ledgerVars
  <1> QED
    BY <1>1, <1>2, <1>3, <1>4, <1>5, <1>6, <1>7, <1>8, <1>9, <1>10, <1>11, <1>12, Zenon DEF LedgerNext

(* Whatever instructions are run on whatever accounts: a balance account   *)
(* stays, its nonce never goes back, and the Solana user of an account     *)
(* that has one, or that has sent a transaction, never changes.            *)
THEOREM UsersAreSettled == LedgerSpec => AccountsKeepTheirUser
  <1> DEFINE Settled ==
          \A k \in BalanceKey : balances[k] # NoAccount =>
              /\ balances'[k] # NoAccount
              /\ balances'[k].nonce >= balances[k].nonce
              /\ (balances[k].nonce > 0 \/ balances[k].user # NoKey) =>
                    balances'[k].user = balances[k].user
  <1>1. LedgerType /\ [LedgerNext]_ledgerVars => Settled
    BY StepKeeps, Zenon DEF Keeping, Keeps
  <1>2. LedgerType /\ [LedgerNext]_ledgerVars => LedgerType'
    BY StepKeeps, TokensStayTyped, Zenon DEF Keeping, LedgerType, Others
  <1>3. AccountsKeepTheirUser <=> [][Settled]_ledgerVars
    BY PTL DEF AccountsKeepTheirUser
  <1> HIDE DEF Settled
  <1> QED BY <1>1, <1>2, <1>3, PTL DEF LedgerSpec
-----------------------------------------------------------------------------
(* The books as numbers: what is held, earned by operators and still in    *)
(* the legacy format on a chain.                                           *)
OldAccounts == [Addresses -> [balance : Nat, nonce : 0 .. MAX_NONCE] \cup {NoAccount}]
Earnings == [OperatorKey -> Nat \cup {NoAccount}]
SoundBooks == [BalanceKey -> Header \cup {NoAccount}]

HeldOf(b, c) == [a \in Addresses |-> IF b[<<a, c>>] = NoAccount THEN 0 ELSE b[<<a, c>>].balance]
EarnedOf(o, c) ==
    [k \in Operators \X Addresses |->
        IF o[<<k[1], k[2], c>>] = NoAccount THEN 0 ELSE o[<<k[1], k[2], c>>]]
OldOf(lg, c) ==
    [a \in Addresses |-> IF lg[a] = NoAccount \/ c # DEFAULT_CHAIN_ID THEN 0 ELSE lg[a].balance]

Held(b, c) == Total(HeldOf(b, c), Addresses)
Earned(o, c) == Total(EarnedOf(o, c), Operators \X Addresses)
Old(lg, c) == Total(OldOf(lg, c), Addresses)

(* There are finitely many keys, so balances can be added up. *)
LEMMA FiniteKeys ==
    IsFiniteSet(Addresses) /\ IsFiniteSet(Operators \X Addresses) /\ IsFiniteSet(Chains)
<1>1. IsFiniteSet(Addresses)
  <2>1. IsFiniteSet({NeonToken})
    BY FS_Singleton, Zenon
  <2> QED
    BY <2>1, ChainAssumption, FS_Union, Zenon DEF Addresses
<1>2. IsFiniteSet(Operators) /\ IsFiniteSet(Chains)
  BY ChainAssumption, Zenon
<1>3. IsFiniteSet(Operators \X Addresses)
  BY <1>1, <1>2, FS_Product, Zenon
<1> QED
  BY <1>1, <1>2, <1>3, Zenon

(* The balances on a chain can be added up. *)
LEMMA HeldSummable ==
    ASSUME NEW b \in SoundBooks, NEW c \in Chains
    PROVE  Summable(HeldOf(b, c), Addresses) /\ Held(b, c) \in Nat
<1>1. \A a \in Addresses : HeldOf(b, c)[a] \in Nat
  BY KeysOfChains, Zenon DEF HeldOf, SoundBooks, Header
<1> QED
  BY <1>1, FiniteKeys, TotalType, Zenon DEF Summable, Held

(* So can those of the operators, *)
LEMMA EarnedSummable ==
    ASSUME NEW o \in Earnings, NEW c \in Chains
    PROVE  Summable(EarnedOf(o, c), Operators \X Addresses) /\ Earned(o, c) \in Nat
<1>1. \A k \in Operators \X Addresses : EarnedOf(o, c)[k] \in Nat
  BY Zenon DEF EarnedOf, Earnings, OperatorKey
<1> QED
  BY <1>1, FiniteKeys, TotalType, Zenon DEF Summable, Earned

(* and those of legacy accounts. *)
LEMMA OldSummable ==
    ASSUME NEW lg \in OldAccounts, NEW c \in Chains
    PROVE  Summable(OldOf(lg, c), Addresses) /\ Old(lg, c) \in Nat
<1>1. \A a \in Addresses : OldOf(lg, c)[a] \in Nat
  BY Zenon DEF OldOf, OldAccounts
<1> QED
  BY <1>1, FiniteKeys, TotalType, Zenon DEF Summable, Old

(* The sum in PoolBacksBalances over balance accounts is the total here, *)
LEMMA HeldSum ==
    ASSUME balances \in SoundBooks, NEW c \in Chains
    PROVE  MapThenSumSet(LAMBDA a : held(a, c), Addresses) = Held(balances, c)
<1> DEFINE f == HeldOf(balances, c)
           S == Addresses
           P(g) == g = [s \in SUBSET S |-> IF s = {} THEN 0 ELSE held(Any(s), c) + g[s \ {Any(s)}]]
           sum == CHOOSE g : P(g)
<1>1. MapThenSumSet(LAMBDA a : held(a, c), S) = sum[S]
  BY Zenon DEF MapThenSumSet, MapThenFoldSet, Any
<1>2. \A s \in SUBSET S : s # {} => Any(s) \in S
  BY Zenon DEF Any
<1>3. \A g : Summing(f, S, g) <=> P(g)
  <2>1. \A x \in S : f[x] = held(x, c)
    BY Zenon DEF HeldOf, held
  <2> HIDE DEF f, S
  <2> QED
    BY <1>2, <2>1, Zenon DEF Summing
<1>4. Summable(f, S)
  BY HeldSummable, Zenon
<1> HIDE DEF f, S
<1>5. Summing(f, S, sum)
  <2>1. \E g : P(g)
    BY <1>3, <1>4, SummingExists, Zenon
  <2> HIDE DEF P
  <2>2. P(sum)
    BY <2>1, Zenon
  <2> HIDE DEF sum
  <2> QED
    BY <1>3, <2>2, Zenon
<1> HIDE DEF P, sum
<1>6. sum[S] = Total(f, S)
  BY <1>4, <1>5, SummingUnique, Zenon
<1> QED
  BY <1>1, <1>6, Zenon DEF Held, f, S

(* likewise that over operators, *)
LEMMA EarnedSum ==
    ASSUME operators \in Earnings, NEW c \in Chains
    PROVE  MapThenSumSet(LAMBDA k : earned(k[1], k[2], c), Operators \X Addresses) = Earned(operators, c)
<1> DEFINE f == EarnedOf(operators, c)
           S == Operators \X Addresses
           P(g) == g = [s \in SUBSET S |-> IF s = {} THEN 0 ELSE earned(Any(s)[1], Any(s)[2], c) + g[s \ {Any(s)}]]
           sum == CHOOSE g : P(g)
<1>1. MapThenSumSet(LAMBDA k : earned(k[1], k[2], c), S) = sum[S]
  BY Zenon DEF MapThenSumSet, MapThenFoldSet, Any
<1>2. \A s \in SUBSET S : s # {} => Any(s) \in S
  BY Zenon DEF Any
<1>3. \A g : Summing(f, S, g) <=> P(g)
  <2>1. \A x \in S : f[x] = earned(x[1], x[2], c)
    BY Zenon DEF EarnedOf, earned
  <2> HIDE DEF f, S
  <2> QED
    BY <1>2, <2>1, Zenon DEF Summing
<1>4. Summable(f, S)
  BY EarnedSummable, Zenon
<1> HIDE DEF f, S
<1>5. Summing(f, S, sum)
  <2>1. \E g : P(g)
    BY <1>3, <1>4, SummingExists, Zenon
  <2> HIDE DEF P
  <2>2. P(sum)
    BY <2>1, Zenon
  <2> HIDE DEF sum
  <2> QED
    BY <1>3, <2>2, Zenon
<1> HIDE DEF P, sum
<1>6. sum[S] = Total(f, S)
  BY <1>4, <1>5, SummingUnique, Zenon
<1> QED
  BY <1>1, <1>6, Zenon DEF Earned, f, S

(* and that over legacy accounts. *)
LEMMA OldSum ==
    ASSUME legacy \in OldAccounts, NEW c \in Chains
    PROVE  MapThenSumSet(LAMBDA a : old(a, c), Addresses) = Old(legacy, c)
<1> DEFINE f == OldOf(legacy, c)
           S == Addresses
           P(g) == g = [s \in SUBSET S |-> IF s = {} THEN 0 ELSE old(Any(s), c) + g[s \ {Any(s)}]]
           sum == CHOOSE g : P(g)
<1>1. MapThenSumSet(LAMBDA a : old(a, c), S) = sum[S]
  BY Zenon DEF MapThenSumSet, MapThenFoldSet, Any
<1>2. \A s \in SUBSET S : s # {} => Any(s) \in S
  BY Zenon DEF Any
<1>3. \A g : Summing(f, S, g) <=> P(g)
  <2>1. \A x \in S : f[x] = old(x, c)
    BY Zenon DEF OldOf, old
  <2> HIDE DEF f, S
  <2> QED
    BY <1>2, <2>1, Zenon DEF Summing
<1>4. Summable(f, S)
  BY OldSummable, Zenon
<1> HIDE DEF f, S
<1>5. Summing(f, S, sum)
  <2>1. \E g : P(g)
    BY <1>3, <1>4, SummingExists, Zenon
  <2> HIDE DEF P
  <2>2. P(sum)
    BY <2>1, Zenon
  <2> HIDE DEF sum
  <2> QED
    BY <1>3, <2>2, Zenon
<1> HIDE DEF P, sum
<1>6. sum[S] = Total(f, S)
  BY <1>4, <1>5, SummingUnique, Zenon
<1> QED
  BY <1>1, <1>6, Zenon DEF Old, f, S

(* What is owed on a chain is the three totals together. *)
LEMMA OwedIs ==
    ASSUME balances \in SoundBooks, operators \in Earnings, legacy \in OldAccounts, NEW c \in Chains
    PROVE  /\ Owed(c) = Held(balances, c) + Earned(operators, c) + Old(legacy, c)
           /\ Owed(c) \in Nat
<1>1. Owed(c) = Held(balances, c) + Earned(operators, c) + Old(legacy, c)
  BY HeldSum, EarnedSum, OldSum, Zenon DEF Owed
<1>2. Held(balances, c) \in Nat /\ Earned(operators, c) \in Nat /\ Old(legacy, c) \in Nat
  BY HeldSummable, EarnedSummable, OldSummable, Zenon
<1> QED
  BY <1>1, <1>2

(* The sum of what is owed on the chains of a mint. *)
ChainsOf(m) == {c \in Chains : Mint[c] = m}
OwedBy(b, o, lg) == [c \in Chains |-> Held(b, c) + Earned(o, c) + Old(lg, c)]

(* What the chains of a mint owe can be added up. *)
LEMMA OwedSummable ==
    ASSUME NEW b \in SoundBooks, NEW o \in Earnings, NEW lg \in OldAccounts, NEW m
    PROVE  Summable(OwedBy(b, o, lg), ChainsOf(m)) /\ Total(OwedBy(b, o, lg), ChainsOf(m)) \in Nat
<1>1. \A c \in Chains : OwedBy(b, o, lg)[c] \in Nat
  BY HeldSummable, EarnedSummable, OldSummable DEF OwedBy
<1>2. ChainsOf(m) \subseteq Chains /\ IsFiniteSet(ChainsOf(m))
  BY FiniteKeys, FS_Subset, Zenon DEF ChainsOf
<1> QED
  BY <1>1, <1>2, TotalType, Zenon DEF Summable

(* The sum in PoolBacksBalances over the chains of a mint is a total. *)
LEMMA OwedSum ==
    ASSUME balances \in SoundBooks, operators \in Earnings, legacy \in OldAccounts, NEW m
    PROVE  MapThenSumSet(Owed, ChainsOf(m)) = Total(OwedBy(balances, operators, legacy), ChainsOf(m))
<1> DEFINE f == OwedBy(balances, operators, legacy)
           S == ChainsOf(m)
           P(g) == g = [s \in SUBSET S |-> IF s = {} THEN 0 ELSE Owed(Any(s)) + g[s \ {Any(s)}]]
           sum == CHOOSE g : P(g)
<1>1. MapThenSumSet(Owed, S) = sum[S]
  BY Zenon DEF MapThenSumSet, MapThenFoldSet, Any
<1>2. \A s \in SUBSET S : s # {} => Any(s) \in S
  BY Zenon DEF Any
<1>3. \A g : Summing(f, S, g) <=> P(g)
  <2>1. \A x \in S : f[x] = Owed(x)
    BY OwedIs, Zenon DEF OwedBy, ChainsOf
  <2> HIDE DEF f, S
  <2> QED
    BY <1>2, <2>1, Zenon DEF Summing
<1>4. Summable(f, S)
  BY OwedSummable, Zenon
<1> HIDE DEF f, S
<1>5. Summing(f, S, sum)
  <2>1. \E g : P(g)
    BY <1>3, <1>4, SummingExists, Zenon
  <2> HIDE DEF P
  <2>2. P(sum)
    BY <2>1, Zenon
  <2> HIDE DEF sum
  <2> QED
    BY <1>3, <2>2, Zenon
<1> HIDE DEF P, sum
<1>6. sum[S] = Total(f, S)
  BY <1>4, <1>5, SummingUnique, Zenon
<1> QED
  BY <1>1, <1>6, Zenon DEF f, S

(* What changes on one chain changes for its mint only. *)
LEMMA OwedShift ==
    ASSUME NEW b \in SoundBooks, NEW o \in Earnings, NEW lg \in OldAccounts,
           NEW b2 \in SoundBooks, NEW o2 \in Earnings, NEW lg2 \in OldAccounts,
           NEW c \in Chains, NEW d \in Int,
           OwedBy(b2, o2, lg2)[c] = OwedBy(b, o, lg)[c] + d,
           \A x \in Chains \ {c} : OwedBy(b2, o2, lg2)[x] = OwedBy(b, o, lg)[x]
    PROVE  /\ Total(OwedBy(b2, o2, lg2), ChainsOf(Mint[c])) = Total(OwedBy(b, o, lg), ChainsOf(Mint[c])) + d
           /\ \A m \in Mints \ {Mint[c]} :
                 Total(OwedBy(b2, o2, lg2), ChainsOf(m)) = Total(OwedBy(b, o, lg), ChainsOf(m))
<1> DEFINE f == OwedBy(b, o, lg)
           g == OwedBy(b2, o2, lg2)
<1>1. /\ \A m : Summable(f, ChainsOf(m)) /\ Summable(g, ChainsOf(m))
      /\ g[c] = f[c] + d /\ \A x \in Chains \ {c} : g[x] = f[x]
  BY OwedSummable, Zenon
<1> HIDE DEF f, g
<1>2. Total(g, ChainsOf(Mint[c])) = Total(f, ChainsOf(Mint[c])) + d
  <2> DEFINE S == ChainsOf(Mint[c])
  <2>1. /\ Summable(f, S) /\ Summable(g, S) /\ c \in S /\ g[c] = f[c] + d
        /\ \A y \in S \ {c} : g[y] = f[y]
    BY <1>1, Zenon DEF ChainsOf
  <2> HIDE DEF S
  <2>2. Total(g, S) = Total(f, S) + d
    BY <2>1, TotalShift
  <2> QED
    BY <2>2, Zenon DEF S
<1>3. ASSUME NEW m \in Mints \ {Mint[c]} PROVE Total(g, ChainsOf(m)) = Total(f, ChainsOf(m))
  <2> DEFINE S == ChainsOf(m)
  <2>1. \A x \in S : g[x] = f[x]
    BY <1>1, Zenon DEF ChainsOf
  <2> HIDE DEF S
  <2>2. Total(g, S) = Total(f, S)
    BY <2>1, TotalSame, Zenon
  <2> QED
    BY <2>2, Zenon DEF S
<1> QED
  BY <1>2, <1>3, Zenon DEF f, g
-----------------------------------------------------------------------------
(* What an account holds, and what becomes of the sum when it changes. *)
Amount(h) == IF h = NoAccount THEN 0 ELSE h.balance
Moves(b, n, c, d) ==
    /\ n \in SoundBooks
    /\ Held(n, c) = Held(b, c) + d
    /\ \A x \in Chains \ {c} : Held(n, x) = Held(b, x)

(* A balance that changes by d changes the total of its chain by d and that of
   no other chain. *)
LEMMA HeldShift ==
    ASSUME NEW b \in SoundBooks, NEW n \in SoundBooks, NEW a \in Addresses, NEW c \in Chains,
           \A k \in BalanceKey \ {<<a, c>>} : n[k] = b[k],
           NEW d \in Int, Amount(n[<<a, c>>]) = Amount(b[<<a, c>>]) + d
    PROVE  Moves(b, n, c, d)
<1>1. \A y \in Addresses, x \in Chains : /\ HeldOf(b, x)[y] = Amount(b[<<y, x>>])
                                         /\ HeldOf(n, x)[y] = Amount(n[<<y, x>>])
  BY Zenon DEF HeldOf, Amount
<1>k. \A y \in Addresses, x \in Chains : y # a \/ x # c => n[<<y, x>>] = b[<<y, x>>]
  <2> SUFFICES ASSUME NEW y \in Addresses, NEW x \in Chains, y # a \/ x # c
               PROVE  n[<<y, x>>] = b[<<y, x>>]
    BY Zenon
  <2>1. <<y, x>> \in BalanceKey /\ <<y, x>> # <<a, c>>
    BY KeysOfChains, Zenon
  <2> QED
    BY <2>1, Zenon
<1>2. Held(n, c) = Held(b, c) + d
  <2> DEFINE f == HeldOf(b, c)
             g == HeldOf(n, c)
  <2>1. Summable(f, Addresses) /\ Summable(g, Addresses)
    BY HeldSummable, Zenon
  <2>2. \A y \in Addresses : f[y] = Amount(b[<<y, c>>]) /\ g[y] = Amount(n[<<y, c>>])
    BY <1>1, Zenon
  <2>3. \A y \in Addresses \ {a} : n[<<y, c>>] = b[<<y, c>>]
    BY <1>k, Zenon
  <2> HIDE DEF f, g
  <2>4. \A y \in Addresses \ {a} : g[y] = f[y]
    BY <2>2, <2>3, Zenon
  <2>5. g[a] \in Nat /\ f[a] \in Nat /\ g[a] = f[a] + d
    BY <2>1, <2>2, Zenon DEF Summable
  <2>6. ChangedAt(f, g, Addresses, a)
    BY <2>1, <2>4, <2>5, TotalChange, Zenon
  <2>7. Total(g, Addresses) = Total(f, Addresses) + d
    BY <2>5, <2>6 DEF ChangedAt
  <2> QED
    BY <2>7, Zenon DEF Held, f, g
<1>3. ASSUME NEW x \in Chains \ {c} PROVE Held(n, x) = Held(b, x)
  <2>0. \A y \in Addresses : n[<<y, x>>] = b[<<y, x>>]
    BY <1>k, Zenon
  <2>1. \A y \in Addresses : HeldOf(n, x)[y] = HeldOf(b, x)[y]
    BY <2>0, Zenon DEF HeldOf
  <2> QED
    BY <2>1, TotalSame, Zenon DEF Held
<1> QED
  BY <1>2, <1>3, Zenon DEF Moves

(* Two changes of the books add up. *)
LEMMA MovesOn ==
    ASSUME NEW b \in SoundBooks, NEW n, NEW r, NEW c \in Chains, NEW d \in Int, NEW e \in Int,
           Moves(b, n, c, d), Moves(n, r, c, e)
    PROVE  Moves(b, r, c, d + e)
<1>1. Held(b, c) \in Nat
  BY HeldSummable, Zenon
<1> QED
  BY <1>1 DEF Moves

(* Books that stay the same move nothing. *)
LEMMA MovesNothing ==
    ASSUME NEW b \in SoundBooks, NEW c \in Chains
    PROVE  Moves(b, b, c, 0)
<1>1. Held(b, c) \in Nat
  BY HeldSummable, Zenon
<1> QED
  BY <1>1 DEF Moves

(* One account is replaced. *)
LEMMA ReplaceMoves ==
    ASSUME NEW b \in SoundBooks, NEW a \in Addresses, NEW c \in Chains, NEW h \in Header,
           NEW d \in Int, h.balance = Amount(b[<<a, c>>]) + d
    PROVE  /\ Moves(b, [b EXCEPT ![<<a, c>>] = h], c, d)
           /\ [b EXCEPT ![<<a, c>>] = h][<<a, c>>] = h
           /\ \A k \in BalanceKey \ {<<a, c>>} : [b EXCEPT ![<<a, c>>] = h][k] = b[k]
<1> DEFINE j == <<a, c>>
           n == [b EXCEPT ![j] = h]
<1>1. j \in BalanceKey
  BY KeysOfChains, Zenon
<1>2. n \in SoundBooks /\ n[j] = h /\ \A k \in BalanceKey \ {j} : n[k] = b[k]
  <2> HIDE DEF j
  <2> QED
    BY <1>1, Zenon DEF SoundBooks
<1>3. Amount(h) = h.balance
  <2>1. h # NoAccount
    BY NoAccountAssumption DEF Header, AnyHeader
  <2> QED
    BY <2>1, Zenon DEF Amount
<1> HIDE DEF n
<1>4. Moves(b, n, c, d)
  BY <1>2, <1>3, HeldShift, Zenon
<1> QED
  BY <1>2, <1>4, Zenon DEF n

(* A header is an account, with a balance and a nonce. *)
LEMMA HeaderNotNone ==
    ASSUME NEW h \in Header
    PROVE  h # NoAccount /\ Amount(h) = h.balance /\ h.balance \in Nat
           /\ h.nonce \in 0 .. MAX_NONCE /\ h.version \in {0, 2, 3} /\ h.user \in Pubkeys \cup {NoKey}
<1>1. h \in AnyHeader
  BY ChainAssumption DEF Header, AnyHeader
<1> QED
  BY <1>1, NoAccountAssumption, Zenon DEF Amount, Header

(* BalanceAccount::create makes an empty account. *)
LEMMA CreateMoves ==
    ASSUME NEW b \in SoundBooks, NEW a \in Addresses, NEW c \in Chains
    PROVE  /\ Moves(b, create(b, a, c), c, 0)
           /\ create(b, a, c)[<<a, c>>] \in Header
           /\ create(b, a, c)[<<a, c>>].balance = Amount(b[<<a, c>>])
           /\ b[<<a, c>>] = NoAccount => create(b, a, c)[<<a, c>>] = initialize
           /\ \A k \in BalanceKey \ {<<a, c>>} : create(b, a, c)[k] = b[k]
<1>1. <<a, c>> \in BalanceKey
  BY KeysOfChains, Zenon
<1>2. CASE b[<<a, c>>] = NoAccount
  <2>1. initialize \in Header /\ initialize.balance = 0
    BY ChainAssumption DEF initialize, Header
  <2>2. Amount(b[<<a, c>>]) = 0
    BY <1>2, Zenon DEF Amount
  <2>3. create(b, a, c) = [b EXCEPT ![<<a, c>>] = initialize]
    BY <1>2, Zenon DEF create
  <2>4. 0 \in Int /\ initialize.balance = Amount(b[<<a, c>>]) + 0
    BY <2>1, <2>2
  <2>5. /\ Moves(b, [b EXCEPT ![<<a, c>>] = initialize], c, 0)
        /\ [b EXCEPT ![<<a, c>>] = initialize][<<a, c>>] = initialize
        /\ \A k \in BalanceKey \ {<<a, c>>} : [b EXCEPT ![<<a, c>>] = initialize][k] = b[k]
    BY <2>1, <2>4, ReplaceMoves
  <2> QED
    BY <2>1, <2>2, <2>3, <2>5, Zenon
<1>3. CASE b[<<a, c>>] # NoAccount
  <2>1. create(b, a, c) = b
    BY <1>3, Zenon DEF create
  <2>2. b[<<a, c>>] \in Header
    BY <1>1, <1>3, Zenon DEF SoundBooks
  <2> QED
    BY <1>3, <2>1, <2>2, MovesNothing, Zenon DEF Amount
<1> QED
  BY <1>2, <1>3, Zenon

(* increment_revision touches the version only. *)
LEMMA RevisionMoves ==
    ASSUME NEW b \in SoundBooks, NEW a \in Addresses, NEW c \in Chains, b[<<a, c>>] # NoAccount
    PROVE  /\ Moves(b, increment_revision(b, a, c), c, 0)
           /\ increment_revision(b, a, c)[<<a, c>>] \in Header
           /\ increment_revision(b, a, c)[<<a, c>>].balance = b[<<a, c>>].balance
           /\ \A k \in BalanceKey \ {<<a, c>>} : increment_revision(b, a, c)[k] = b[k]
<1> DEFINE h == b[<<a, c>>]
           r == [h EXCEPT !.version = IF @ < 2 THEN 3 ELSE @]
<1>1. h \in Header
  BY KeysOfChains, Zenon DEF SoundBooks
<1>2. h.version \in {0, 2, 3} /\ h.balance \in Nat /\ Amount(h) = h.balance
  BY <1>1, HeaderNotNone, Zenon
<1>3. increment_revision(b, a, c) = [b EXCEPT ![<<a, c>>] = r]
  BY Zenon DEF increment_revision
<1>4. r \in Header /\ r.balance = h.balance
  <2> HIDE DEF h
  <2> QED
    BY <1>1, <1>2, Zenon DEF Header
<1> HIDE DEF r
<1>5. 0 \in Int /\ r.balance = Amount(b[<<a, c>>]) + 0
  BY <1>2, <1>4
<1>6. /\ Moves(b, [b EXCEPT ![<<a, c>>] = r], c, 0)
      /\ [b EXCEPT ![<<a, c>>] = r][<<a, c>>] = r
      /\ \A k \in BalanceKey \ {<<a, c>>} : [b EXCEPT ![<<a, c>>] = r][k] = b[k]
  BY <1>4, <1>5, ReplaceMoves
<1> QED
  BY <1>3, <1>4, <1>6, Zenon

(* BalanceAccount::mint adds its amount to one balance. *)
LEMMA MintMoves ==
    ASSUME NEW b \in SoundBooks, NEW a \in Addresses, NEW c \in Chains, b[<<a, c>>] # NoAccount,
           NEW v \in Nat
    PROVE  /\ Moves(b, mint(b, a, c, v), c, v)
           /\ mint(b, a, c, v)[<<a, c>>] \in Header
           /\ mint(b, a, c, v)[<<a, c>>].balance = b[<<a, c>>].balance + v
           /\ \A k \in BalanceKey \ {<<a, c>>} : mint(b, a, c, v)[k] = b[k]
<1> DEFINE h == b[<<a, c>>]
           r == [h EXCEPT !.balance = @ + v]
<1>1. h \in Header
  BY KeysOfChains, Zenon DEF SoundBooks
<1>2. h.balance \in Nat /\ Amount(h) = h.balance
  BY <1>1, HeaderNotNone, Zenon
<1>3. mint(b, a, c, v) = [b EXCEPT ![<<a, c>>] = r]
  BY Zenon DEF mint
<1>4. r \in Header /\ r.balance = h.balance + v
  <2> HIDE DEF h
  <2> QED
    BY <1>1, <1>2 DEF Header
<1> HIDE DEF r
<1>5. v \in Int /\ r.balance = Amount(b[<<a, c>>]) + v
  BY <1>2, <1>4
<1>6. /\ Moves(b, [b EXCEPT ![<<a, c>>] = r], c, v)
      /\ [b EXCEPT ![<<a, c>>] = r][<<a, c>>] = r
      /\ \A k \in BalanceKey \ {<<a, c>>} : [b EXCEPT ![<<a, c>>] = r][k] = b[k]
  BY <1>4, <1>5, ReplaceMoves
<1> QED
  BY <1>3, <1>4, <1>6, Zenon

(* burn is only reached with enough in the account. *)
LEMMA BurnMoves ==
    ASSUME NEW b \in SoundBooks, NEW a \in Addresses, NEW c \in Chains, b[<<a, c>>] # NoAccount,
           NEW v \in Nat, b[<<a, c>>].balance >= v
    PROVE  /\ Moves(b, burn(b, a, c, v), c, -v)
           /\ burn(b, a, c, v)[<<a, c>>] \in Header
           /\ burn(b, a, c, v)[<<a, c>>].balance = b[<<a, c>>].balance - v
           /\ \A k \in BalanceKey \ {<<a, c>>} : burn(b, a, c, v)[k] = b[k]
<1> DEFINE h == b[<<a, c>>]
           r == [h EXCEPT !.balance = @ - v]
<1>1. h \in Header
  BY KeysOfChains, Zenon DEF SoundBooks
<1>2. h.balance \in Nat /\ Amount(h) = h.balance
  BY <1>1, HeaderNotNone, Zenon
<1>3. burn(b, a, c, v) = [b EXCEPT ![<<a, c>>] = r]
  BY Zenon DEF burn
<1>4. r \in Header /\ r.balance = h.balance - v
  <2> HIDE DEF h
  <2>1. h.balance - v \in Nat
    BY <1>2 DEF h
  <2> QED
    BY <1>1, <1>2, <2>1, Zenon DEF Header
<1> HIDE DEF r
<1>5. -v \in Int /\ r.balance = Amount(b[<<a, c>>]) + (-v)
  BY <1>2, <1>4
<1>6. /\ Moves(b, [b EXCEPT ![<<a, c>>] = r], c, -v)
      /\ [b EXCEPT ![<<a, c>>] = r][<<a, c>>] = r
      /\ \A k \in BalanceKey \ {<<a, c>>} : [b EXCEPT ![<<a, c>>] = r][k] = b[k]
  BY <1>4, <1>5, ReplaceMoves
<1> QED
  BY <1>3, <1>4, <1>6, Zenon

(* No account appears but the one of a and c. *)
OnlyAt(b, n, a, c) == \A k \in BalanceKey \ {<<a, c>>} : b[k] = NoAccount => n[k] = NoAccount

(* A transfer leaves the sum as it is. *)
LEMMA TransferMoves ==
    ASSUME NEW b \in SoundBooks, NEW source \in Addresses, NEW target \in Addresses, NEW c \in Chains,
           b[<<source, c>>] # NoAccount, b[<<target, c>>] # NoAccount, NEW v \in Nat,
           b[<<source, c>>].balance >= v
    PROVE  /\ Moves(b, transfer(b, source, target, c, v), c, 0)
           /\ transfer(b, source, target, c, v)[<<target, c>>] \in Header
           /\ transfer(b, source, target, c, v)[<<target, c>>].balance >= v
           /\ OnlyAt(b, transfer(b, source, target, c, v), target, c)
<1>0. <<source, c>> \in BalanceKey /\ <<target, c>> \in BalanceKey
  BY KeysOfChains, Zenon
<1>1. CASE source = target
  <2>1. transfer(b, source, target, c, v) = b
    BY <1>1, Zenon DEF transfer
  <2>2. b[<<target, c>>] \in Header
    BY <1>0, Zenon DEF SoundBooks
  <2> QED
    BY <1>1, <2>1, <2>2, MovesNothing, Zenon DEF OnlyAt
<1>2. CASE source # target
  <2> DEFINE m == burn(b, source, c, v)
             n == mint(m, target, c, v)
  <2>1. /\ Moves(b, m, c, -v) /\ m[<<source, c>>] \in Header
        /\ \A k \in BalanceKey \ {<<source, c>>} : m[k] = b[k]
    BY BurnMoves, Zenon
  <2>2. m[<<target, c>>] = b[<<target, c>>] /\ m \in SoundBooks
    BY <1>0, <1>2, <2>1, Zenon DEF Moves
  <2> HIDE DEF m
  <2>3. /\ Moves(m, n, c, v) /\ n[<<target, c>>] \in Header
        /\ n[<<target, c>>].balance = m[<<target, c>>].balance + v
        /\ \A k \in BalanceKey \ {<<target, c>>} : n[k] = m[k]
    BY <2>2, MintMoves, Zenon
  <2> HIDE DEF n
  <2>4. Moves(b, n, c, 0)
    <3>1. v \in Int /\ -v \in Int /\ -v + v = 0
      OBVIOUS
    <3>2. Moves(b, n, c, -v + v)
      BY <2>1, <2>3, <3>1, MovesOn, Zenon
    <3> QED
      BY <3>1, <3>2, Zenon
  <2>5. n[<<target, c>>].balance >= v
    <3>1. m[<<target, c>>] \in Header
      BY <1>0, <2>2, Zenon DEF SoundBooks
    <3>2. m[<<target, c>>].balance \in Nat
      BY <3>1, HeaderNotNone, Zenon
    <3> QED
      BY <2>3, <3>2
  <2>6. OnlyAt(b, n, target, c)
    BY <2>1, <2>3, Zenon DEF OnlyAt
  <2>7. transfer(b, source, target, c, v) = n
    BY <1>2, Zenon DEF transfer, n, m
  <2> QED
    BY <2>3, <2>4, <2>5, <2>6, <2>7, Zenon
<1> QED
  BY <1>1, <1>2, Zenon

(* Two changes of the same account change only that account. *)
LEMMA OnlyOn ==
    ASSUME NEW b, NEW m, NEW n, NEW a, NEW c, OnlyAt(b, m, a, c), OnlyAt(m, n, a, c)
    PROVE  OnlyAt(b, n, a, c)
  BY Zenon DEF OnlyAt

(* A transfer moves tokens on its chain and leaves their total. *)
LEMMA TransferredMoves ==
    ASSUME balances \in SoundBooks, NEW source \in Addresses, NEW target \in Addresses,
           NEW c \in Chains, NEW v \in Nat, transferable(source, target, c, v)
    PROVE  /\ Moves(balances, transferred(source, target, c, v), c, 0)
           /\ transferred(source, target, c, v)[<<target, c>>] \in Header
           /\ transferred(source, target, c, v)[<<target, c>>].balance >= v
           /\ OnlyAt(balances, transferred(source, target, c, v), target, c)
<1> DEFINE s == <<source, c>>
           t == <<target, c>>
           b == create(balances, target, c)
           i == increment_revision(b, source, c)
           j == increment_revision(i, target, c)
           n == transfer(j, source, target, c, v)
<1>0. s \in BalanceKey /\ t \in BalanceKey /\ balances[s] # NoAccount /\ balances[s].balance >= v
  BY KeysOfChains, Zenon DEF transferable
<1>1. /\ Moves(balances, b, c, 0) /\ b \in SoundBooks /\ b[t] \in Header
      /\ \A k \in BalanceKey \ {t} : b[k] = balances[k]
      /\ b[s] # NoAccount /\ b[s].balance >= v /\ b[t] # NoAccount
  <2>1. /\ Moves(balances, b, c, 0) /\ b[t] \in Header /\ b[t].balance = Amount(balances[t])
        /\ \A k \in BalanceKey \ {t} : b[k] = balances[k]
    BY CreateMoves, Zenon
  <2>2. b[t] # NoAccount
    BY <2>1, HeaderNotNone, Zenon
  <2>3. Amount(balances[s]) = balances[s].balance
    BY <1>0, Zenon DEF Amount
  <2> HIDE DEF b, s, t
  <2>4. CASE s = t
    BY <1>0, <2>1, <2>2, <2>3, <2>4, Zenon DEF Moves
  <2>5. CASE s # t
    BY <1>0, <2>1, <2>2, <2>5, Zenon DEF Moves
  <2> QED
    BY <2>4, <2>5, Zenon
<1> HIDE DEF b
<1>2. /\ Moves(b, i, c, 0) /\ i \in SoundBooks /\ i[s] \in Header /\ i[s].balance = b[s].balance
      /\ \A k \in BalanceKey \ {s} : i[k] = b[k]
  BY <1>1, RevisionMoves DEF Moves
<1> HIDE DEF i
<1>3. i[s] # NoAccount /\ i[s].balance >= v /\ i[t] # NoAccount
  <2>1. i[s] # NoAccount
    BY <1>2, HeaderNotNone, Zenon
  <2> HIDE DEF s, t
  <2> QED
    BY <1>0, <1>1, <1>2, <2>1, Zenon
<1>4. /\ Moves(i, j, c, 0) /\ j \in SoundBooks /\ j[t] \in Header /\ j[t].balance = i[t].balance
      /\ \A k \in BalanceKey \ {t} : j[k] = i[k]
  BY <1>2, <1>3, RevisionMoves DEF Moves
<1> HIDE DEF j
<1>5. j[t] # NoAccount /\ j[s] # NoAccount /\ j[s].balance >= v
  <2>1. j[t] # NoAccount
    BY <1>4, HeaderNotNone, Zenon
  <2> HIDE DEF s, t
  <2> QED
    BY <1>0, <1>3, <1>4, <2>1, Zenon
<1>6. /\ Moves(j, n, c, 0) /\ n[t] \in Header /\ n[t].balance >= v /\ OnlyAt(j, n, target, c)
  BY <1>4, <1>5, TransferMoves, Zenon
<1> HIDE DEF n
<1>7. Moves(balances, n, c, 0)
  <2>1. 0 \in Int /\ 0 + 0 = 0
    OBVIOUS
  <2>2. Moves(balances, i, c, 0)
    BY <1>1, <1>2, <2>1, MovesOn, Zenon
  <2>3. Moves(balances, j, c, 0)
    BY <1>4, <2>1, <2>2, MovesOn
  <2> QED
    BY <1>6, <2>1, <2>3, MovesOn
<1>8. OnlyAt(balances, n, target, c)
  <2>1. OnlyAt(balances, j, target, c)
    <3> HIDE DEF s
    <3> QED
      BY <1>0, <1>1, <1>2, <1>4, Zenon DEF OnlyAt
  <2> QED
    BY <1>6, <2>1, OnlyOn, Zenon
<1>9. transferred(source, target, c, v) = n
  BY Zenon DEF transferred, n, j, i, b
<1> QED
  BY <1>6, <1>7, <1>8, <1>9, Zenon

(* On the default chain an address has its balance in one account. *)
InOneAccount(b, lg) ==
    \A a \in Addresses : lg[a] # NoAccount => b[<<a, DEFAULT_CHAIN_ID>>] = NoAccount

(* An account is created only where no legacy account is left, so an address
   never has both. *)
LEMMA StaysInOneAccount ==
    ASSUME NEW b \in SoundBooks, NEW n, NEW lg, NEW a \in Addresses, NEW c \in Chains,
           InOneAccount(b, lg), OnlyAt(b, n, a, c), creatable(b, lg, a, c)
    PROVE  InOneAccount(n, lg)
<1> SUFFICES ASSUME NEW x \in Addresses, lg[x] # NoAccount
             PROVE  n[<<x, DEFAULT_CHAIN_ID>>] = NoAccount
  BY Zenon DEF InOneAccount
<1>1. <<x, DEFAULT_CHAIN_ID>> \in BalanceKey /\ b[<<x, DEFAULT_CHAIN_ID>>] = NoAccount
  BY KeysOfChains, Zenon DEF InOneAccount
<1>2. <<x, DEFAULT_CHAIN_ID>> # <<a, c>>
  <2> SUFFICES ASSUME x = a, c = DEFAULT_CHAIN_ID PROVE FALSE
    BY Zenon
  <2>1. b[<<a, c>>] # NoAccount \/ c # DEFAULT_CHAIN_ID \/ lg[a] = NoAccount
    BY Zenon DEF creatable
  <2> QED
    BY <1>1, <2>1, Zenon
<1> QED
  BY <1>1, <1>2, Zenon DEF OnlyAt

(* A legacy account that is cleared is no longer owed for. *)
LEMMA OldCleared ==
    ASSUME NEW lg \in OldAccounts, NEW a \in Addresses, NEW d \in Nat,
           d = IF lg[a] = NoAccount THEN 0 ELSE lg[a].balance
    PROVE  /\ [lg EXCEPT ![a] = NoAccount] \in OldAccounts
           /\ Old([lg EXCEPT ![a] = NoAccount], DEFAULT_CHAIN_ID) = Old(lg, DEFAULT_CHAIN_ID) + (-d)
           /\ \A x \in Chains \ {DEFAULT_CHAIN_ID} :
                 Old([lg EXCEPT ![a] = NoAccount], x) = Old(lg, x)
<1> DEFINE n == [lg EXCEPT ![a] = NoAccount]
           D == DEFAULT_CHAIN_ID
<1>1. n \in OldAccounts /\ n[a] = NoAccount /\ \A y \in Addresses \ {a} : n[y] = lg[y]
  BY Zenon DEF OldAccounts
<1>2. D \in Chains
  BY KeysOfChains, Zenon
<1> HIDE DEF n
<1>3. Old(n, D) = Old(lg, D) + (-d)
  <2> DEFINE f == OldOf(lg, D)
             g == OldOf(n, D)
  <2>1. Summable(f, Addresses) /\ Summable(g, Addresses)
    BY <1>1, <1>2, OldSummable, Zenon
  <2>2. /\ f[a] = d /\ g[a] = 0
        /\ \A y \in Addresses \ {a} : g[y] = f[y]
    BY <1>1, Zenon DEF OldOf
  <2> HIDE DEF f, g
  <2>3. -d \in Int /\ g[a] = f[a] + (-d)
    BY <2>2
  <2>4. Total(g, Addresses) = Total(f, Addresses) + (-d)
    BY <2>1, <2>2, <2>3, TotalShift
  <2> QED
    BY <2>4, Zenon DEF Old, f, g
<1>4. ASSUME NEW x \in Chains \ {D} PROVE Old(n, x) = Old(lg, x)
  <2>1. \A y \in Addresses : OldOf(n, x)[y] = OldOf(lg, x)[y]
    BY Zenon DEF OldOf
  <2> QED
    BY <2>1, TotalSame, Zenon DEF Old
<1> QED
  BY <1>1, <1>3, <1>4, Zenon DEF n

(* update_ether_account_from_v1: what leaves the legacy account arrives. *)
LEMMA ConvertedMoves ==
    ASSUME balances \in SoundBooks, legacy \in OldAccounts, InOneAccount(balances, legacy),
           NEW a \in Addresses
    PROVE  /\ \E d \in Nat : /\ d = IF legacy[a] = NoAccount THEN 0 ELSE legacy[a].balance
                             /\ Moves(balances, converted(balances, a), DEFAULT_CHAIN_ID, d)
           /\ OnlyAt(balances, converted(balances, a), a, DEFAULT_CHAIN_ID)
<1> DEFINE D == DEFAULT_CHAIN_ID
<1>0. D \in Chains /\ <<a, D>> \in BalanceKey
  BY KeysOfChains, Zenon
<1>1. CASE legacy[a] # NoAccount /\ (legacy[a].balance > 0 \/ legacy[a].nonce > 0)
  <2>1. balances[<<a, D>>] = NoAccount /\ legacy[a].balance \in Nat /\ legacy[a].nonce \in 0 .. MAX_NONCE
    BY <1>1, Zenon DEF InOneAccount, OldAccounts
  <2> DEFINE b == create(balances, a, D)
             d == legacy[a].balance
             h == [initialize EXCEPT !.balance = @ + d, !.nonce = @ + legacy[a].nonce]
             n == [b EXCEPT ![<<a, D>>] = h]
  <2>2. /\ Moves(balances, b, D, 0) /\ b[<<a, D>>] = initialize /\ b \in SoundBooks
        /\ \A k \in BalanceKey \ {<<a, D>>} : b[k] = balances[k]
    BY <1>0, <2>1, CreateMoves, Zenon DEF Moves
  <2>3. converted(balances, a) = [b EXCEPT ![<<a, D>>] = [b[<<a, D>>] EXCEPT !.balance = @ + legacy[a].balance,
                                                                           !.nonce = @ + legacy[a].nonce]]
    BY <1>1, Zenon DEF converted
  <2>4. h \in Header /\ h.balance = d
    <3>1. initialize \in Header /\ initialize.balance = 0 /\ initialize.nonce = 0
      BY ChainAssumption DEF initialize, Header
    <3>2. initialize.balance + d = d /\ initialize.nonce + legacy[a].nonce = legacy[a].nonce
      BY <2>1, <3>1, ChainAssumption
    <3>3. h = [initialize EXCEPT !.balance = d, !.nonce = legacy[a].nonce]
      BY <3>2, Zenon
    <3> DEFINE q == legacy[a].nonce
    <3>4. d \in Nat /\ q \in 0 .. MAX_NONCE /\ h = [initialize EXCEPT !.balance = d, !.nonce = q]
      BY <2>1, <3>3, Zenon
    <3> HIDE DEF h, d, q
    <3>5. h = [version |-> 3, balance |-> d, nonce |-> q, user |-> NoKey]
      BY <3>4, Zenon DEF initialize
    <3> QED
      BY <3>4, <3>5 DEF Header
  <2>5. Amount(b[<<a, D>>]) = 0
    <3>1. initialize \in Header /\ initialize.balance = 0
      BY ChainAssumption DEF initialize, Header
    <3> QED
      BY <2>2, <3>1, HeaderNotNone, Zenon
  <2>6. converted(balances, a) = n
    BY <2>2, <2>3, Zenon
  <2> HIDE DEF b, h
  <2>7. d \in Int /\ h.balance = Amount(b[<<a, D>>]) + d
    BY <2>1, <2>4, <2>5
  <2>8. Moves(b, n, D, d) /\ \A k \in BalanceKey \ {<<a, D>>} : n[k] = b[k]
    BY <1>0, <2>2, <2>4, <2>7, ReplaceMoves
  <2> HIDE DEF n
  <2>9. Moves(balances, n, D, d)
    <3>1. 0 \in Int /\ 0 + d = d
      BY <2>7
    <3> QED
      BY <1>0, <2>2, <2>7, <2>8, <3>1, MovesOn, Zenon
  <2>10. OnlyAt(balances, n, a, D)
    BY <2>2, <2>8, Zenon DEF OnlyAt
  <2> QED
    BY <1>1, <2>1, <2>6, <2>9, <2>10, Zenon
<1>2. CASE ~(legacy[a] # NoAccount /\ (legacy[a].balance > 0 \/ legacy[a].nonce > 0))
  <2>1. converted(balances, a) = balances
    BY <1>2, Zenon DEF converted
  <2>2. (IF legacy[a] = NoAccount THEN 0 ELSE legacy[a].balance) = 0
    BY <1>2 DEF OldAccounts
  <2>3. Moves(balances, balances, D, 0) /\ OnlyAt(balances, balances, a, D)
    BY <1>0, MovesNothing, Zenon DEF OnlyAt
  <2> QED
    BY <2>1, <2>2, <2>3, Zenon
<1> QED
  BY <1>1, <1>2, Zenon

(* What one account of an operator holds, and the sum when it changes. *)
Gain(x) == IF x = NoAccount THEN 0 ELSE x
Earns(o, n, c, d) ==
    /\ n \in Earnings
    /\ Earned(n, c) = Earned(o, c) + d
    /\ \A x \in Chains \ {c} : Earned(n, x) = Earned(o, x)

(* A balance of an operator that changes by d changes the total of its chain by
   d. *)
LEMMA EarnedShift ==
    ASSUME NEW o \in Earnings, NEW n \in Earnings, NEW who \in Operators, NEW a \in Addresses,
           NEW c \in Chains, \A k \in OperatorKey \ {<<who, a, c>>} : n[k] = o[k],
           NEW d \in Int, Gain(n[<<who, a, c>>]) = Gain(o[<<who, a, c>>]) + d
    PROVE  Earns(o, n, c, d)
<1> DEFINE K == Operators \X Addresses
<1>1. \A y \in K, x \in Chains : /\ EarnedOf(o, x)[y] = Gain(o[<<y[1], y[2], x>>])
                                 /\ EarnedOf(n, x)[y] = Gain(n[<<y[1], y[2], x>>])
  BY Zenon DEF EarnedOf, Gain
<1>2. \A y \in K, x \in Chains : y # <<who, a>> \/ x # c => n[<<y[1], y[2], x>>] = o[<<y[1], y[2], x>>]
  <2> SUFFICES ASSUME NEW y \in K, NEW x \in Chains, y # <<who, a>> \/ x # c
               PROVE  n[<<y[1], y[2], x>>] = o[<<y[1], y[2], x>>]
    BY Zenon
  <2>1. y[1] \in Operators /\ y[2] \in Addresses /\ y = <<y[1], y[2]>>
    OBVIOUS
  <2>2. <<y[1], y[2], x>> \in OperatorKey /\ <<y[1], y[2], x>> # <<who, a, c>>
    BY <2>1, Zenon DEF OperatorKey
  <2> QED
    BY <2>2, Zenon
<1>3. <<who, a>> \in K /\ <<who, a>>[1] = who /\ <<who, a>>[2] = a
  BY Zenon
<1>4. Earned(n, c) = Earned(o, c) + d
  <2> DEFINE f == EarnedOf(o, c)
             g == EarnedOf(n, c)
             z == <<who, a>>
  <2>1. Summable(f, K) /\ Summable(g, K)
    BY EarnedSummable, Zenon
  <2>2. g[z] = f[z] + d
    BY <1>1, <1>3, Zenon
  <2>3. \A y \in K \ {z} : g[y] = f[y]
    <3> SUFFICES ASSUME NEW y \in K \ {z} PROVE g[y] = f[y]
      BY Zenon
    <3> DEFINE j == <<y[1], y[2], c>>
    <3>1. n[j] = o[j]
      BY <1>2, Zenon
    <3>2. f[y] = Gain(o[j]) /\ g[y] = Gain(n[j])
      BY <1>1, Zenon
    <3> QED
      BY <3>1, <3>2, Zenon
  <2>4. z \in K
    BY <1>3, Zenon
  <2> HIDE DEF f, g, z, K
  <2>5. Total(g, K) = Total(f, K) + d
    BY <2>1, <2>2, <2>3, <2>4, TotalShift
  <2> QED
    BY <2>5, Zenon DEF Earned, f, g, K
<1>5. ASSUME NEW x \in Chains \ {c} PROVE Earned(n, x) = Earned(o, x)
  <2>1. ASSUME NEW y \in K PROVE EarnedOf(n, x)[y] = EarnedOf(o, x)[y]
    <3> DEFINE j == <<y[1], y[2], x>>
    <3>1. n[j] = o[j]
      BY <1>2, Zenon
    <3>2. EarnedOf(o, x)[y] = Gain(o[j]) /\ EarnedOf(n, x)[y] = Gain(n[j])
      BY <1>1, Zenon
    <3> QED
      BY <3>1, <3>2, Zenon
  <2> QED
    BY <2>1, TotalSame DEF Earned
<1> QED
  BY <1>4, <1>5, Zenon DEF Earns

(* The legacy accounts of an address are converted before its account on   *)
(* the default chain is made: what is owed stays the same.                 *)
LEMMA UpdateMoves ==
    ASSUME balances \in SoundBooks, legacy \in OldAccounts, InOneAccount(balances, legacy),
           NEW a \in Addresses, NEW c \in Chains
    PROVE  /\ create(update_legacy_accounts(balances, a, c), a, c) \in SoundBooks
           /\ legacy_after_update(a, c) \in OldAccounts
           /\ create(update_legacy_accounts(balances, a, c), a, c)[<<a, c>>] \in Header
           /\ InOneAccount(create(update_legacy_accounts(balances, a, c), a, c), legacy_after_update(a, c))
           /\ \A x \in Chains :
                 Held(create(update_legacy_accounts(balances, a, c), a, c), x) + Old(legacy_after_update(a, c), x)
                 = Held(balances, x) + Old(legacy, x)
<1> DEFINE D == DEFAULT_CHAIN_ID
           n == create(update_legacy_accounts(balances, a, c), a, c)
           lg == legacy_after_update(a, c)
<1>0. D \in Chains /\ <<a, c>> \in BalanceKey
  BY KeysOfChains, Zenon
<1>1. CASE c = D
  <2> DEFINE u == converted(balances, a)
  <2>1. n = create(u, a, c) /\ lg = [legacy EXCEPT ![a] = NoAccount]
    BY <1>1, Zenon DEF update_legacy_accounts, legacy_after_update
  <2> HIDE DEF n, lg
  <2>2. OnlyAt(balances, u, a, D)
    BY ConvertedMoves, Zenon
  <2>3. PICK d \in Nat : d = (IF legacy[a] = NoAccount THEN 0 ELSE legacy[a].balance) /\ Moves(balances, u, D, d)
    BY ConvertedMoves, Zenon
  <2> HIDE DEF u
  <2>4. /\ Moves(u, n, c, 0) /\ n[<<a, c>>] \in Header
        /\ \A k \in BalanceKey \ {<<a, c>>} : n[k] = u[k]
    BY <2>1, <2>3, CreateMoves DEF Moves
  <2>5. Moves(balances, n, D, d)
    <3>1. 0 \in Int /\ d \in Int /\ d + 0 = d
      OBVIOUS
    <3>2. Moves(u, n, D, 0)
      BY <1>1, <2>4, Zenon
    <3>3. Moves(balances, n, D, d + 0)
      BY <1>0, <2>3, <3>1, <3>2, MovesOn, Zenon
    <3> QED
      BY <3>1, <3>3, Zenon
  <2>6. /\ lg \in OldAccounts /\ Old(lg, D) = Old(legacy, D) + (-d)
        /\ \A x \in Chains \ {D} : Old(lg, x) = Old(legacy, x)
    <3>1. /\ [legacy EXCEPT ![a] = NoAccount] \in OldAccounts
          /\ Old([legacy EXCEPT ![a] = NoAccount], D) = Old(legacy, D) + (-d)
          /\ \A x \in Chains \ {D} : Old([legacy EXCEPT ![a] = NoAccount], x) = Old(legacy, x)
      BY <2>3, OldCleared, Zenon
    <3> QED
      BY <2>1, <3>1, Zenon
  <2>7. Held(balances, D) \in Nat /\ Old(legacy, D) \in Nat
    BY <1>0, HeldSummable, OldSummable, Zenon
  <2>8. Held(n, D) + Old(lg, D) = Held(balances, D) + Old(legacy, D)
    BY <2>5, <2>6, <2>7 DEF Moves
  <2>9. InOneAccount(n, lg)
    <3> SUFFICES ASSUME NEW x \in Addresses, lg[x] # NoAccount
                 PROVE  n[<<x, D>>] = NoAccount
      BY Zenon DEF InOneAccount
    <3>1. x # a /\ legacy[x] # NoAccount
      BY <2>1, Zenon DEF OldAccounts
    <3>2. <<x, D>> \in BalanceKey \ {<<a, c>>} /\ balances[<<x, D>>] = NoAccount
      BY <3>1, KeysOfChains, Zenon DEF InOneAccount
    <3> QED
      BY <1>1, <2>2, <2>4, <3>2, Zenon DEF OnlyAt
  <2> QED
    BY <2>4, <2>5, <2>6, <2>8, <2>9, Zenon DEF Moves, n, lg
<1>2. CASE c # D
  <2>1. n = create(balances, a, c) /\ lg = legacy
    BY <1>2, Zenon DEF update_legacy_accounts, legacy_after_update
  <2> HIDE DEF n, lg
  <2>2. /\ Moves(balances, n, c, 0) /\ n[<<a, c>>] \in Header
        /\ \A k \in BalanceKey \ {<<a, c>>} : n[k] = balances[k]
    BY <2>1, CreateMoves, Zenon
  <2>3. \A x \in Chains : Held(n, x) = Held(balances, x)
    <3>1. Held(balances, c) \in Nat
      BY HeldSummable, Zenon
    <3> QED
      BY <2>2, <3>1 DEF Moves
  <2>4. InOneAccount(n, lg)
    <3>1. OnlyAt(balances, n, a, c)
      BY <2>2, Zenon DEF OnlyAt
    <3>2. creatable(balances, legacy, a, c)
      BY <1>2, Zenon DEF creatable
    <3> QED
      BY <2>1, <3>1, <3>2, StaysInOneAccount, Zenon
  <2> QED
    BY <2>1, <2>2, <2>3, <2>4, Zenon DEF Moves, n, lg
<1> QED
  BY <1>1, <1>2, Zenon

-----------------------------------------------------------------------------
(* The pools agree with the books. *)
InAgreement(b, o, lg, p, g) ==
    \A m \in Mints : p[m] * Unit(m) = Total(OwedBy(b, o, lg), ChainsOf(m)) + g[m] * Unit(m)

BooksInv ==
    /\ balances \in SoundBooks /\ operators \in Earnings /\ legacy \in OldAccounts
    /\ InOneAccount(balances, legacy)

PoolsInv ==
    /\ pool \in [Mints -> Nat] /\ gifts \in [Mints -> Nat]
    /\ InAgreement(balances, operators, legacy, pool, gifts)

LedgerInv == BooksInv /\ PoolsInv /\ TokensTyped

(* Agreement of the totals with the pools is what PoolBacksBalances says. *)
LEMMA AgreementIsBacking ==
    ASSUME BooksInv, PoolsInv
    PROVE  PoolBacksBalances
<1>1. ASSUME NEW m \in Mints
      PROVE  pool[m] * Unit(m) = MapThenSumSet(Owed, {c \in Chains : Mint[c] = m}) + gifts[m] * Unit(m)
  <2>1. MapThenSumSet(Owed, ChainsOf(m)) = Total(OwedBy(balances, operators, legacy), ChainsOf(m))
    BY OwedSum, Zenon DEF BooksInv
  <2>2. ChainsOf(m) = {c \in Chains : Mint[c] = m}
    BY Zenon DEF ChainsOf
  <2>3. pool[m] * Unit(m) = Total(OwedBy(balances, operators, legacy), ChainsOf(m)) + gifts[m] * Unit(m)
    BY Zenon DEF PoolsInv, InAgreement
  <2> QED
    BY <2>1, <2>2, <2>3, Zenon
<1>2. balances \in [BalanceKey -> Header \cup {NoAccount}]
  BY Zenon DEF BooksInv, SoundBooks
<1> QED
  BY <1>1, <1>2, Zenon DEF PoolBacksBalances

(* On one chain d more is owed, and the pool of its mint has d more. *)
LEMMA AgreementMoves ==
    ASSUME LedgerInv, NEW b \in SoundBooks, NEW o \in Earnings, NEW lg \in OldAccounts,
           NEW c \in Chains, NEW d \in Int, NEW p \in [Mints -> Nat],
           Held(b, c) + Earned(o, c) + Old(lg, c)
              = Held(balances, c) + Earned(operators, c) + Old(legacy, c) + d,
           \A x \in Chains \ {c} : Held(b, x) + Earned(o, x) + Old(lg, x)
                                   = Held(balances, x) + Earned(operators, x) + Old(legacy, x),
           p[Mint[c]] * Unit(Mint[c]) = pool[Mint[c]] * Unit(Mint[c]) + d,
           \A m \in Mints \ {Mint[c]} : p[m] = pool[m]
    PROVE  InAgreement(b, o, lg, p, gifts)
<1> DEFINE f == OwedBy(balances, operators, legacy)
           g == OwedBy(b, o, lg)
<1>0. balances \in SoundBooks /\ operators \in Earnings /\ legacy \in OldAccounts
  BY Zenon DEF LedgerInv, BooksInv
<1>1. g[c] = f[c] + d /\ \A x \in Chains \ {c} : g[x] = f[x]
  BY Zenon DEF OwedBy
<1>2. /\ Total(g, ChainsOf(Mint[c])) = Total(f, ChainsOf(Mint[c])) + d
      /\ \A m \in Mints \ {Mint[c]} : Total(g, ChainsOf(m)) = Total(f, ChainsOf(m))
  BY <1>0, <1>1, OwedShift
<1>3. \A m \in Mints : Total(f, ChainsOf(m)) \in Nat
  BY <1>0, OwedSummable, Zenon
<1>4. \A m \in Mints : pool[m] * Unit(m) = Total(f, ChainsOf(m)) + gifts[m] * Unit(m)
  BY Zenon DEF LedgerInv, PoolsInv, InAgreement
<1>5. \A m \in Mints : pool[m] * Unit(m) \in Int /\ gifts[m] * Unit(m) \in Int
  BY KeysOfChains DEF LedgerInv, PoolsInv
<1> HIDE DEF f, g
<1>6. ASSUME NEW m \in Mints PROVE p[m] * Unit(m) = Total(g, ChainsOf(m)) + gifts[m] * Unit(m)
  <2>1. CASE m = Mint[c]
    <3> DEFINE x == pool[m] * Unit(m)
               y == p[m] * Unit(m)
               z == gifts[m] * Unit(m)
               s == Total(f, ChainsOf(m))
               t == Total(g, ChainsOf(m))
    <3>1. x \in Int /\ z \in Int /\ s \in Nat /\ y = x + d /\ x = s + z /\ t = s + d
      BY <1>2, <1>3, <1>4, <1>5, <2>1, Zenon
    <3> HIDE DEF x, y, z, s, t
    <3>2. y = t + z
      BY <3>1
    <3> QED
      BY <3>2, Zenon DEF y, t, z
  <2>2. CASE m # Mint[c]
    BY <1>2, <1>4, <2>2, Zenon
  <2> QED
    BY <2>1, <2>2, Zenon
<1> QED
  BY <1>6, Zenon DEF InAgreement, g

(* Nothing more is owed, and no pool changes. *)
LEMMA AgreementStays ==
    ASSUME LedgerInv, NEW b \in SoundBooks, NEW o \in Earnings, NEW lg \in OldAccounts,
           \A x \in Chains : Held(b, x) + Earned(o, x) + Old(lg, x)
                             = Held(balances, x) + Earned(operators, x) + Old(legacy, x)
    PROVE  InAgreement(b, o, lg, pool, gifts)
<1> DEFINE f == OwedBy(balances, operators, legacy)
           g == OwedBy(b, o, lg)
<1>1. \A x \in Chains : g[x] = f[x]
  BY Zenon DEF OwedBy
<1>2. \A m \in Mints : pool[m] * Unit(m) = Total(f, ChainsOf(m)) + gifts[m] * Unit(m)
  BY Zenon DEF LedgerInv, PoolsInv, InAgreement
<1> HIDE DEF f, g
<1>3. ASSUME NEW m \in Mints PROVE pool[m] * Unit(m) = Total(g, ChainsOf(m)) + gifts[m] * Unit(m)
  <2>1. \A x \in ChainsOf(m) : g[x] = f[x]
    BY <1>1, Zenon DEF ChainsOf
  <2>2. Total(g, ChainsOf(m)) = Total(f, ChainsOf(m))
    BY <2>1, TotalSame, Zenon
  <2> QED
    BY <1>2, <2>2, Zenon
<1> QED
  BY <1>3, Zenon DEF InAgreement, g

(* Books change and what is owed does not. *)
LEMMA BooksStay ==
    ASSUME LedgerInv, UNCHANGED <<pool, gifts>>,
           balances' \in SoundBooks, operators' \in Earnings, legacy' \in OldAccounts,
           InOneAccount(balances', legacy'),
           \A x \in Chains : Held(balances', x) + Earned(operators', x) + Old(legacy', x)
                             = Held(balances, x) + Earned(operators, x) + Old(legacy, x)
    PROVE  BooksInv' /\ PoolsInv'
<1>1. InAgreement(balances', operators', legacy', pool, gifts)
  BY AgreementStays, Zenon
<1> QED
  BY <1>1, Zenon DEF BooksInv, PoolsInv, LedgerInv, InAgreement

(* The invariant, conjunct by conjunct. *)
LEMMA PartsOfInv ==
    ASSUME LedgerInv
    PROVE  /\ balances \in SoundBooks /\ operators \in Earnings /\ legacy \in OldAccounts
           /\ InOneAccount(balances, legacy)
           /\ pool \in [Mints -> Nat] /\ gifts \in [Mints -> Nat] /\ TokensTyped
           /\ \A x \in Chains : Held(balances, x) \in Nat /\ Earned(operators, x) \in Nat /\ Old(legacy, x) \in Nat
  BY HeldSummable, EarnedSummable, OldSummable, Zenon DEF LedgerInv, BooksInv, PoolsInv

(* Only balance accounts change, on one chain, and no legacy account is    *)
(* left beside the one that may be new.                                    *)
LEMMA BalancesStay ==
    ASSUME LedgerInv, UNCHANGED <<operators, legacy, pool, gifts>>, NEW a \in Addresses, NEW c \in Chains,
           Moves(balances, balances', c, 0), OnlyAt(balances, balances', a, c),
           creatable(balances, legacy, a, c)
    PROVE  BooksInv' /\ PoolsInv'
<1>1. balances' \in SoundBooks /\ \A x \in Chains : Held(balances', x) = Held(balances, x)
  BY PartsOfInv DEF Moves
<1>2. InOneAccount(balances', legacy)
  BY PartsOfInv, StaysInOneAccount, Zenon
<1> HIDE DEF Moves, OnlyAt
<1>3. /\ operators' \in Earnings /\ legacy' \in OldAccounts /\ InOneAccount(balances', legacy')
      /\ \A x \in Chains : Held(balances', x) + Earned(operators', x) + Old(legacy', x)
                           = Held(balances, x) + Earned(operators, x) + Old(legacy, x)
  BY <1>1, <1>2, PartsOfInv, Zenon
<1> QED
  BY <1>1, <1>3, BooksStay, Zenon

(* An account is replaced by one with the same balance. *)
Replaced(b, a, c, h) == [b EXCEPT ![<<a, c>>] = h]

(* A header that is replaced by one of the same balance moves nothing. *)
LEMMA SameBalance ==
    ASSUME NEW b \in SoundBooks, NEW a \in Addresses, NEW c \in Chains, b[<<a, c>>] \in Header,
           NEW h \in Header, h.balance = b[<<a, c>>].balance
    PROVE  /\ Moves(b, Replaced(b, a, c, h), c, 0)
           /\ \A k \in BalanceKey \ {<<a, c>>} : Replaced(b, a, c, h)[k] = b[k]
<1>1. 0 \in Int /\ h.balance = Amount(b[<<a, c>>]) + 0
  BY HeaderNotNone
<1> QED
  BY <1>1, ReplaceMoves DEF Replaced

(* The books after the account of a and c was created, and one field of    *)
(* it, not its balance, was written.                                       *)
LEMMA CreatedAndWritten ==
    ASSUME LedgerInv, NEW a \in Addresses, NEW c \in Chains, creatable(balances, legacy, a, c),
           NEW h \in Header, h.balance = create(balances, a, c)[<<a, c>>].balance,
           balances' = Replaced(create(balances, a, c), a, c, h),
           UNCHANGED <<operators, legacy, pool, gifts>>
    PROVE  BooksInv' /\ PoolsInv'
<1> DEFINE b == create(balances, a, c)
<1>1. /\ Moves(balances, b, c, 0) /\ b[<<a, c>>] \in Header /\ b \in SoundBooks
      /\ \A k \in BalanceKey \ {<<a, c>>} : b[k] = balances[k]
  BY PartsOfInv, CreateMoves, Zenon DEF Moves
<1>2. balances' = Replaced(b, a, c, h) /\ h.balance = b[<<a, c>>].balance
  BY Zenon
<1> HIDE DEF b
<1>3. /\ Moves(b, Replaced(b, a, c, h), c, 0)
      /\ \A k \in BalanceKey \ {<<a, c>>} : Replaced(b, a, c, h)[k] = b[k]
  BY <1>1, <1>2, SameBalance, Zenon
<1>4. Moves(b, balances', c, 0) /\ \A k \in BalanceKey \ {<<a, c>>} : balances'[k] = b[k]
  BY <1>2, <1>3, Zenon
<1>5. Moves(balances, balances', c, 0)
  <2>1. 0 \in Int /\ 0 + 0 = 0
    OBVIOUS
  <2> QED
    BY <1>1, <1>4, <2>1, PartsOfInv, MovesOn
<1>6. OnlyAt(balances, balances', a, c)
  BY <1>1, <1>4, Zenon DEF OnlyAt
<1> QED
  BY <1>5, <1>6, BalancesStay, Zenon

(* IncrementNonce *)
LEMMA NonceIncremented ==
    ASSUME LedgerInv, NEW a \in Addresses, NEW c \in Chains, IncrementNonce(a, c)
    PROVE  BooksInv' /\ PoolsInv'
<1> DEFINE b == create(balances, a, c)
           h == b[<<a, c>>]
           r == [h EXCEPT !.nonce = @ + 1]
<1>1. /\ creatable(balances, legacy, a, c) /\ UNCHANGED <<operators, legacy, pool, gifts>>
      /\ b[<<a, c>>].nonce < MAX_NONCE
      /\ balances' = [b EXCEPT ![<<a, c>>].nonce = @ + 1]
  BY Zenon DEF IncrementNonce
<1>2. balances' = Replaced(b, a, c, r)
  BY <1>1, Zenon DEF Replaced
<1>3. h \in Header
  BY PartsOfInv, CreateMoves, Zenon
<1>4. h.nonce \in 0 .. MAX_NONCE /\ h.nonce < MAX_NONCE
  BY <1>1, <1>3, HeaderNotNone, Zenon
<1>5. r \in Header /\ r.balance = h.balance
  <2>1. h.nonce + 1 \in 0 .. MAX_NONCE
    BY <1>4, ChainAssumption
  <2> HIDE DEF h
  <2> QED
    BY <1>3, <2>1, Zenon DEF Header
<1> HIDE DEF r
<1> QED
  BY <1>1, <1>2, <1>5, CreatedAndWritten, Zenon

(* create_for_solana_user *)
LEMMA UserSet ==
    ASSUME LedgerInv, NEW p \in Pubkeys, create_for_solana_user(p)
    PROVE  BooksInv' /\ PoolsInv'
<1> DEFINE a == FromSolanaAddress[p]
           c == SOL_CHAIN_ID
           b == create(balances, a, c)
           h == b[<<a, c>>]
           r == [h EXCEPT !.user = p]
<1>0. a \in Addresses /\ c \in Chains
  BY KeysOfChains, Zenon
<1>1. /\ creatable(balances, legacy, a, c) /\ UNCHANGED <<operators, legacy, pool, gifts>>
      /\ balances' = [b EXCEPT ![<<a, c>>].user = p]
  BY Zenon DEF create_for_solana_user
<1>2. balances' = Replaced(b, a, c, r)
  BY <1>1, Zenon DEF Replaced
<1> HIDE DEF a, c
<1>3. h \in Header
  BY <1>0, PartsOfInv, CreateMoves, Zenon
<1>4. r \in Header /\ r.balance = h.balance
  <2> HIDE DEF h
  <2> QED
    BY <1>3, Zenon DEF Header
<1> HIDE DEF r
<1> QED
  BY <1>0, <1>1, <1>2, <1>4, CreatedAndWritten, Zenon

(* A transfer of a state change. *)
LEMMA TransferStays ==
    ASSUME LedgerInv, NEW source \in Addresses, NEW target \in Addresses, NEW c \in Chains, NEW v \in Nat,
           Transfer(source, target, c, v)
    PROVE  BooksInv' /\ PoolsInv'
<1>1. /\ transferable(source, target, c, v) /\ balances' = transferred(source, target, c, v)
      /\ UNCHANGED <<operators, legacy, pool, gifts>>
  BY Zenon DEF Transfer
<1>2. creatable(balances, legacy, target, c)
  BY <1>1, Zenon DEF transferable
<1>3. Moves(balances, balances', c, 0) /\ OnlyAt(balances, balances', target, c)
  BY <1>1, PartsOfInv, TransferredMoves, Zenon
<1> QED
  BY <1>1, <1>2, <1>3, BalancesStay, Zenon

(* CreateAccountBalance *)
LEMMA AccountCreated ==
    ASSUME LedgerInv, NEW a \in Addresses, NEW c \in Chains, CreateAccountBalance(a, c)
    PROVE  BooksInv' /\ PoolsInv'
<1>1. /\ balances' = create(update_legacy_accounts(balances, a, c), a, c)
      /\ legacy' = legacy_after_update(a, c) /\ UNCHANGED <<operators, pool, gifts>>
  BY Zenon DEF CreateAccountBalance
<1>2. /\ balances' \in SoundBooks /\ legacy' \in OldAccounts /\ InOneAccount(balances', legacy')
      /\ \A x \in Chains : Held(balances', x) + Old(legacy', x) = Held(balances, x) + Old(legacy, x)
  <2> DEFINE n == create(update_legacy_accounts(balances, a, c), a, c)
             lg == legacy_after_update(a, c)
  <2>1. /\ n \in SoundBooks /\ lg \in OldAccounts /\ InOneAccount(n, lg)
        /\ \A x \in Chains : Held(n, x) + Old(lg, x) = Held(balances, x) + Old(legacy, x)
    BY PartsOfInv, UpdateMoves, Zenon
  <2> QED
    BY <1>1, <2>1, Zenon
<1>3. \A x \in Chains : Held(balances', x) \in Nat /\ Old(legacy', x) \in Nat
  BY <1>2, HeldSummable, OldSummable, Zenon
<1>4. \A x \in Chains : Held(balances', x) + Earned(operators', x) + Old(legacy', x)
                        = Held(balances, x) + Earned(operators, x) + Old(legacy, x)
  BY <1>1, <1>2, <1>3, PartsOfInv
<1>5. operators' \in Earnings
  BY <1>1, PartsOfInv, Zenon
<1> QED
  BY <1>1, <1>2, <1>4, <1>5, BooksStay, Zenon

(* A step that changes no balance and no pool keeps the agreement. *)
LEMMA NothingMoved ==
    ASSUME LedgerInv, UNCHANGED <<balances, operators, legacy, pool, gifts>>
    PROVE  BooksInv' /\ PoolsInv'
  BY Zenon DEF LedgerInv, BooksInv, PoolsInv, InAgreement, InOneAccount

(* Approve changes no book, Give fills a pool. *)
LEMMA TokensMoved ==
    ASSUME LedgerInv, NEW w \in Wallets, NEW m \in Mints, NEW n \in Nat, NEW a, NEW c,
           Approve(w, m, a, c, n) \/ Give(w, m, n)
    PROVE  BooksInv' /\ PoolsInv'
<1>1. CASE Approve(w, m, a, c, n)
  <2>1. UNCHANGED <<balances, operators, legacy, pool, gifts>>
    BY <1>1, Zenon DEF Approve
  <2> QED
    BY <2>1, NothingMoved, Zenon
<1>2. CASE Give(w, m, n)
  <2>1. /\ UNCHANGED <<balances, operators, legacy>>
        /\ pool' = [pool EXCEPT ![m] = @ + n] /\ gifts' = [gifts EXCEPT ![m] = @ + n]
    BY <1>2, Zenon DEF Give
  <2>2. BooksInv'
    BY <2>1, Zenon DEF LedgerInv, BooksInv, InOneAccount
  <2>3. pool' \in [Mints -> Nat] /\ gifts' \in [Mints -> Nat]
    BY <2>1, PartsOfInv
  <2>4. ASSUME NEW k \in Mints
        PROVE  pool'[k] * Unit(k) = Total(OwedBy(balances, operators, legacy), ChainsOf(k)) + gifts'[k] * Unit(k)
    <3> DEFINE s == Total(OwedBy(balances, operators, legacy), ChainsOf(k))
               u == Unit(k)
    <3>1. u \in Int /\ s \in Nat /\ pool[k] \in Nat /\ gifts[k] \in Nat
      BY PartsOfInv, KeysOfChains, OwedSummable, Zenon
    <3>2. pool[k] * u = s + gifts[k] * u
      BY Zenon DEF LedgerInv, PoolsInv, InAgreement
    <3>3. \/ pool'[k] = pool[k] /\ gifts'[k] = gifts[k]
          \/ pool'[k] = pool[k] + n /\ gifts'[k] = gifts[k] + n
      <4>1. pool \in [Mints -> Nat] /\ gifts \in [Mints -> Nat]
        BY PartsOfInv, Zenon
      <4>2. CASE k = m
        BY <2>1, <4>1, <4>2, Zenon
      <4>3. CASE k # m
        BY <2>1, <4>1, <4>3, Zenon
      <4> QED
        BY <4>2, <4>3, Zenon
    <3> HIDE DEF s, u
    <3>4. (pool[k] + n) * u = pool[k] * u + n * u /\ (gifts[k] + n) * u = gifts[k] * u + n * u
      BY <3>1
    <3>5. pool[k] * u \in Int /\ gifts[k] * u \in Int /\ n * u \in Int
      BY <3>1
    <3>6. pool'[k] * u = s + gifts'[k] * u
      BY <3>1, <3>2, <3>3, <3>4, <3>5
    <3> QED
      BY <3>6, Zenon DEF s, u
  <2>5. InAgreement(balances, operators, legacy, pool', gifts')
    BY <2>4, Zenon DEF InAgreement
  <2>6. InAgreement(balances', operators', legacy', pool', gifts')
    BY <2>1, <2>5, Zenon
  <2> QED
    BY <2>2, <2>3, <2>6, Zenon DEF PoolsInv, InAgreement
<1> QED
  BY <1>1, <1>2, Zenon

(* The operator accounts change on one chain, and the balances against     *)
(* them.                                                                   *)
LEMMA OperatorsStay ==
    ASSUME LedgerInv, UNCHANGED <<legacy, pool, gifts>>, NEW c \in Chains, NEW d \in Int,
           Moves(balances, balances', c, -d), Earns(operators, operators', c, d),
           \A k \in BalanceKey : balances[k] = NoAccount => balances'[k] = NoAccount
    PROVE  BooksInv' /\ PoolsInv'
<1>1. balances' \in SoundBooks /\ operators' \in Earnings /\ legacy' \in OldAccounts
  BY PartsOfInv, Zenon DEF Moves, Earns
<1>2. InOneAccount(balances', legacy')
  BY PartsOfInv, KeysOfChains, Zenon DEF InOneAccount
<1>3. ASSUME NEW x \in Chains
      PROVE  Held(balances', x) + Earned(operators', x) + Old(legacy', x)
             = Held(balances, x) + Earned(operators, x) + Old(legacy, x)
  <2>1. Held(balances, x) \in Nat /\ Earned(operators, x) \in Nat /\ Old(legacy, x) \in Nat
    BY PartsOfInv, Zenon
  <2>2. CASE x = c
    BY <2>1, <2>2 DEF Moves, Earns
  <2>3. CASE x # c
    BY <2>1, <2>3, Zenon DEF Moves, Earns
  <2> QED
    BY <2>2, <2>3, Zenon
<1> QED
  BY <1>1, <1>2, <1>3, BooksStay, Zenon

(* OperatorCreate and OperatorDelete: of an empty account. *)
LEMMA OperatorsManaged ==
    ASSUME LedgerInv, NEW o \in Operators, NEW a \in Addresses, NEW c \in Chains,
           OperatorCreate(o, a, c) \/ OperatorDelete(o, a, c)
    PROVE  BooksInv' /\ PoolsInv'
<1> DEFINE k == <<o, a, c>>
<1>0. k \in OperatorKey /\ operators \in Earnings /\ balances \in SoundBooks
  BY PartsOfInv, Zenon DEF OperatorKey
<1>1. /\ UNCHANGED <<balances, legacy, pool, gifts>>
      /\ \/ operators' = [operators EXCEPT ![k] = IF @ = NoAccount THEN 0 ELSE @]
         \/ operators[k] = 0 /\ operators' = [operators EXCEPT ![k] = NoAccount]
  BY Zenon DEF OperatorCreate, OperatorDelete
<1>2. /\ operators' \in Earnings /\ \A j \in OperatorKey \ {k} : operators'[j] = operators[j]
      /\ \/ operators'[k] = IF operators[k] = NoAccount THEN 0 ELSE operators[k]
         \/ operators[k] = 0 /\ operators'[k] = NoAccount
  <2> HIDE DEF k
  <2> QED
    BY <1>0, <1>1 DEF Earnings
<1>3. 0 \in Int /\ Gain(operators'[k]) = Gain(operators[k]) + 0
  <2>1. operators[k] \in Nat \cup {NoAccount}
    BY <1>0, Zenon DEF Earnings
  <2>2. NoAccount \notin Int
    BY NoAccountAssumption, Zenon
  <2> HIDE DEF k
  <2> QED
    BY <1>2, <2>1, <2>2 DEF Gain
<1>4. Earns(operators, operators', c, 0)
  BY <1>0, <1>2, <1>3, EarnedShift, Zenon
<1>5. Moves(balances, balances', c, -0)
  BY <1>0, <1>1, MovesNothing
<1> QED
  BY <1>1, <1>3, <1>4, <1>5, OperatorsStay, Zenon

(* transfer_gas_payment: what the payer loses the operator gets. *)
LEMMA GasConsumed ==
    ASSUME LedgerInv, NEW source \in Addresses, NEW a \in Addresses, NEW o \in Operators,
           NEW c \in Chains, NEW oc \in Chains, NEW v \in Nat, consume_gas(source, c, o, a, oc, v)
    PROVE  BooksInv' /\ PoolsInv'
<1> DEFINE k == <<o, a, c>>
           s == <<source, c>>
           r == increment_revision(balances, source, c)
           n == burn(r, source, c, v)
<1>0. /\ k \in OperatorKey /\ operators \in Earnings /\ balances \in SoundBooks /\ s \in BalanceKey
  BY PartsOfInv, KeysOfChains, Zenon DEF OperatorKey
<1>1. /\ balances[s] # NoAccount /\ balances[s].balance >= v /\ operators[k] # NoAccount
      /\ balances' = n /\ operators' = [operators EXCEPT ![k] = @ + v]
      /\ UNCHANGED <<legacy, pool, gifts>>
  BY Zenon DEF consume_gas
<1>2. /\ Moves(balances, r, c, 0) /\ r \in SoundBooks /\ r[s] \in Header /\ r[s].balance = balances[s].balance
      /\ \A j \in BalanceKey \ {s} : r[j] = balances[j]
  BY <1>0, <1>1, RevisionMoves DEF Moves
<1>3. r[s] # NoAccount /\ r[s].balance >= v
  BY <1>1, <1>2, HeaderNotNone, Zenon
<1> HIDE DEF r
<1>4. Moves(r, n, c, -v) /\ \A j \in BalanceKey \ {s} : n[j] = r[j]
  BY <1>2, <1>3, BurnMoves, Zenon
<1> HIDE DEF n
<1>5. Moves(balances, n, c, -v)
  <2>1. 0 \in Int /\ -v \in Int /\ 0 + (-v) = -v
    OBVIOUS
  <2>2. Moves(balances, n, c, 0 + (-v))
    BY <1>0, <1>2, <1>4, <2>1, MovesOn, Zenon
  <2> QED
    BY <2>1, <2>2, Zenon
<1>6. \A j \in BalanceKey : balances[j] = NoAccount => n[j] = NoAccount
  <2> HIDE DEF s
  <2> QED
    BY <1>1, <1>2, <1>4, Zenon
<1>7. /\ operators' \in Earnings /\ \A j \in OperatorKey \ {k} : operators'[j] = operators[j]
      /\ operators'[k] = operators[k] + v /\ operators[k] \in Nat
  <2> HIDE DEF k
  <2> QED
    BY <1>0, <1>1 DEF Earnings
<1>8. Gain(operators'[k]) = Gain(operators[k]) + v /\ v \in Int
  <2>1. NoAccount \notin Int
    BY NoAccountAssumption, Zenon
  <2> HIDE DEF k
  <2> QED
    BY <1>7, <2>1 DEF Gain
<1>9. Earns(operators, operators', c, v)
  BY <1>0, <1>7, <1>8, EarnedShift, Zenon
<1>10. /\ Moves(balances, balances', c, -v)
       /\ \A j \in BalanceKey : balances[j] = NoAccount => balances'[j] = NoAccount
  BY <1>1, <1>5, <1>6, Zenon
<1> QED
  BY <1>1, <1>8, <1>9, <1>10, OperatorsStay, Zenon

(* WithdrawOperatorBalance: and back. *)
LEMMA OperatorWithdrawn ==
    ASSUME LedgerInv, NEW o \in Operators, NEW a \in Addresses, NEW ta \in Addresses,
           NEW c \in Chains, NEW tc \in Chains, OperatorWithdraw(o, a, c, ta, tc)
    PROVE  BooksInv' /\ PoolsInv'
<1> DEFINE k == <<o, a, c>>
           s == <<a, c>>
           v == operators[k]
           r == mint(balances, a, c, v)
           n == increment_revision(r, a, c)
<1>0. k \in OperatorKey /\ operators \in Earnings /\ balances \in SoundBooks /\ s \in BalanceKey
  BY PartsOfInv, KeysOfChains, Zenon DEF OperatorKey
<1>1. /\ balances[s] # NoAccount /\ operators[k] # NoAccount
      /\ balances' = n /\ operators' = [operators EXCEPT ![k] = 0]
      /\ UNCHANGED <<legacy, pool, gifts>>
  BY Zenon DEF OperatorWithdraw
<1>2. v \in Nat
  BY <1>0, <1>1, Zenon DEF Earnings
<1>3. /\ Moves(balances, r, c, v) /\ r \in SoundBooks /\ r[s] \in Header
      /\ \A j \in BalanceKey \ {s} : r[j] = balances[j]
  BY <1>0, <1>1, <1>2, MintMoves DEF Moves
<1>4. r[s] # NoAccount
  BY <1>3, HeaderNotNone, Zenon
<1> HIDE DEF r
<1>5. Moves(r, n, c, 0) /\ \A j \in BalanceKey \ {s} : n[j] = r[j]
  BY <1>3, <1>4, RevisionMoves, Zenon
<1> HIDE DEF n
<1>6. /\ operators' \in Earnings /\ \A j \in OperatorKey \ {k} : operators'[j] = operators[j]
      /\ operators'[k] = 0
  <2> HIDE DEF k
  <2> QED
    BY <1>0, <1>1, Zenon DEF Earnings
<1>7. Gain(operators'[k]) = Gain(operators[k]) + (-v) /\ -v \in Int
  <2>1. NoAccount \notin Int
    BY NoAccountAssumption, Zenon
  <2> HIDE DEF k
  <2> QED
    BY <1>2, <1>6, <2>1 DEF Gain
<1>8. Earns(operators, operators', c, -v)
  BY <1>0, <1>6, <1>7, EarnedShift, Zenon
<1> HIDE DEF v
<1>9. Moves(balances, n, c, -(-v))
  <2>1. 0 \in Int /\ v \in Int /\ v + 0 = -(-v)
    BY <1>2
  <2>2. Moves(balances, n, c, v + 0)
    BY <1>0, <1>3, <1>5, <2>1, MovesOn, Zenon
  <2> QED
    BY <2>1, <2>2, Zenon
<1>10. \A j \in BalanceKey : balances[j] = NoAccount => n[j] = NoAccount
  <2> HIDE DEF s
  <2> QED
    BY <1>1, <1>3, <1>5, Zenon
<1>11. /\ Moves(balances, balances', c, -(-v))
       /\ \A j \in BalanceKey : balances[j] = NoAccount => balances'[j] = NoAccount
  BY <1>1, <1>9, <1>10, Zenon
<1> QED
  BY <1>1, <1>7, <1>8, <1>11, OperatorsStay, Zenon

(* Deposit: the pool gets what the account is credited. *)
LEMMA Deposited ==
    ASSUME LedgerInv, NEW w \in Wallets, NEW a \in Addresses, NEW c \in Chains, Deposit(w, a, c)
    PROVE  BooksInv' /\ PoolsInv'
<1> DEFINE m == Mint[c]
           t == <<w, m>>
           k == <<a, c>>
           x == tokens[t].delegated
           v == x * Unit(m)
           b == create(update_legacy_accounts(balances, a, c), a, c)
           lg == legacy_after_update(a, c)
           r == increment_revision(b, a, c)
           n == mint(r, a, c, v)
<1>0. /\ k \in BalanceKey /\ m \in Mints /\ t \in Wallets \X Mints /\ Unit(m) \in Int /\ Unit(m) > 0
      /\ balances \in SoundBooks /\ operators \in Earnings /\ pool \in [Mints -> Nat]
  BY PartsOfInv, KeysOfChains, UnitAssumption, Zenon
<1>1. /\ tokens[t] # NoAccount /\ x \in 1 .. tokens[t].amount
      /\ pool' = [pool EXCEPT ![m] = @ + x] /\ balances' = n /\ legacy' = lg
      /\ UNCHANGED <<operators, gifts>>
  BY Zenon DEF Deposit
<1>2. x \in Nat
  <2>1. tokens[t].amount \in Int /\ x \in Int
    BY <1>0, <1>1, PartsOfInv, Zenon DEF TokensTyped
  <2> HIDE DEF x
  <2> QED
    BY <1>1, <2>1
<1> HIDE DEF x, m
<1>3. v \in Nat
  <2>1. \A y \in Nat, u \in Int : u > 0 => y * u \in Nat
    OBVIOUS
  <2> QED
    BY <1>0, <1>2, <2>1, Zenon
<1> HIDE DEF v
<1>4. /\ b \in SoundBooks /\ lg \in OldAccounts /\ b[k] \in Header /\ InOneAccount(b, lg)
      /\ \A y \in Chains : Held(b, y) + Old(lg, y) = Held(balances, y) + Old(legacy, y)
  BY PartsOfInv, UpdateMoves, Zenon
<1>5. b[k] # NoAccount
  BY <1>4, HeaderNotNone, Zenon
<1> HIDE DEF b, lg
<1>6. /\ Moves(b, r, c, 0) /\ r \in SoundBooks /\ r[k] \in Header
      /\ \A j \in BalanceKey \ {k} : r[j] = b[j]
  BY <1>4, <1>5, RevisionMoves, Zenon DEF Moves
<1>7. r[k] # NoAccount
  BY <1>6, HeaderNotNone, Zenon
<1> HIDE DEF r
<1>8. Moves(r, n, c, v) /\ \A j \in BalanceKey \ {k} : n[j] = r[j]
  BY <1>3, <1>6, <1>7, MintMoves, Zenon
<1> HIDE DEF n
<1>9. Moves(b, n, c, v)
  <2>1. 0 \in Int /\ v \in Int /\ 0 + v = v
    BY <1>3
  <2>2. Moves(b, n, c, 0 + v)
    BY <1>4, <1>6, <1>8, <2>1, MovesOn, Zenon
  <2> QED
    BY <2>1, <2>2, Zenon
<1>10. InOneAccount(n, lg)
  <2>1. OnlyAt(b, n, a, c)
    BY <1>6, <1>8, Zenon DEF OnlyAt
  <2>2. creatable(b, lg, a, c)
    BY <1>5, Zenon DEF creatable
  <2> QED
    BY <1>4, <2>1, <2>2, StaysInOneAccount, Zenon
<1>11. /\ n \in SoundBooks /\ Held(n, c) = Held(b, c) + v
       /\ \A y \in Chains \ {c} : Held(n, y) = Held(b, y)
  BY <1>9, Zenon DEF Moves
<1>12. \A y \in Chains : /\ Held(b, y) \in Nat /\ Old(lg, y) \in Nat /\ Earned(operators, y) \in Nat
                         /\ Held(balances, y) \in Nat /\ Old(legacy, y) \in Nat
  BY <1>4, PartsOfInv, HeldSummable, OldSummable, Zenon
<1>13. /\ Held(n, c) + Earned(operators, c) + Old(lg, c)
             = Held(balances, c) + Earned(operators, c) + Old(legacy, c) + v
       /\ \A y \in Chains \ {c} : Held(n, y) + Earned(operators, y) + Old(lg, y)
                                  = Held(balances, y) + Earned(operators, y) + Old(legacy, y)
  <2>1. ASSUME NEW y \in Chains, NEW z \in Int, Held(n, y) = Held(b, y) + z
        PROVE  Held(n, y) + Earned(operators, y) + Old(lg, y)
                   = Held(balances, y) + Earned(operators, y) + Old(legacy, y) + z
    <3>1. /\ Held(b, y) \in Nat /\ Old(lg, y) \in Nat /\ Earned(operators, y) \in Nat
          /\ Held(balances, y) \in Nat /\ Old(legacy, y) \in Nat
          /\ Held(b, y) + Old(lg, y) = Held(balances, y) + Old(legacy, y)
      BY <1>4, <1>12, Zenon
    <3> QED
      BY <2>1, <3>1
  <2>2. v \in Int
    BY <1>3
  <2>3. ASSUME NEW y \in Chains \ {c}
        PROVE  Held(n, y) + Earned(operators, y) + Old(lg, y)
                   = Held(balances, y) + Earned(operators, y) + Old(legacy, y)
    <3>1. /\ Held(b, y) \in Nat /\ Old(lg, y) \in Nat /\ Earned(operators, y) \in Nat
          /\ Held(balances, y) \in Nat /\ Old(legacy, y) \in Nat
          /\ Held(b, y) + Old(lg, y) = Held(balances, y) + Old(legacy, y) /\ Held(n, y) = Held(b, y)
      BY <1>4, <1>11, <1>12, Zenon
    <3> QED
      BY <3>1
  <2> QED
    BY <1>11, <2>1, <2>2, <2>3, Zenon
<1>14. /\ pool' \in [Mints -> Nat] /\ pool'[m] = pool[m] + x /\ pool[m] \in Nat
       /\ \A j \in Mints \ {m} : pool'[j] = pool[j]
  BY <1>0, <1>1, <1>2
<1>15. pool'[m] * Unit(m) = pool[m] * Unit(m) + v
  <2>1. \A p, y, u \in Int : (p + y) * u = p * u + y * u
    OBVIOUS
  <2> QED
    BY <1>0, <1>2, <1>14, <2>1 DEF v
<1>16. v \in Int
  BY <1>3
<1>17. InAgreement(n, operators, lg, pool', gifts)
  BY <1>0, <1>4, <1>11, <1>13, <1>14, <1>15, <1>16, AgreementMoves, Zenon DEF m
<1>18. InAgreement(balances', operators', legacy', pool', gifts')
  BY <1>1, <1>17, Zenon
<1> QED
  BY <1>0, <1>1, <1>4, <1>10, <1>11, <1>14, <1>18, PartsOfInv, Zenon DEF BooksInv, PoolsInv, InAgreement

(* The NeonToken precompile: what is burnt is paid out, to the last unit,  *)
(* because only multiples of a unit are accepted.                          *)
LEMMA Withdrawn ==
    ASSUME LedgerInv, NEW a \in Addresses, NEW w \in Wallets, NEW v \in Nat, withdraw(a, w, v)
    PROVE  BooksInv' /\ PoolsInv'
<1> DEFINE c == DEFAULT_CHAIN_ID
           m == Mint[c]
           x == v \div Unit(m)
           k == <<NeonToken, c>>
           b == transferred(a, NeonToken, c, v)
           n == burn(b, NeonToken, c, v)
<1>0. /\ c \in Chains /\ k \in BalanceKey /\ m \in Mints /\ Unit(m) \in Int /\ Unit(m) > 0
      /\ NeonToken \in Addresses
      /\ balances \in SoundBooks /\ operators \in Earnings /\ pool \in [Mints -> Nat] /\ legacy \in OldAccounts
  BY PartsOfInv, KeysOfChains, UnitAssumption, Zenon
<1>1. /\ v % Unit(m) = 0 /\ transferable(a, NeonToken, c, v) /\ x <= pool[m]
      /\ pool' = [pool EXCEPT ![m] = @ - x] /\ balances' = n
      /\ UNCHANGED <<operators, legacy, gifts>>
  BY Zenon DEF withdraw
<1>2. x \in Nat /\ x * Unit(m) = v
  <2>1. \A y \in Nat, u \in Int : u > 0 => y \div u \in Nat /\ (y % u = 0 => (y \div u) * u = y)
    OBVIOUS
  <2> QED
    BY <1>0, <1>1, <2>1, Zenon
<1> HIDE DEF x
<1>3. /\ Moves(balances, b, c, 0) /\ b[k] \in Header /\ b[k].balance >= v
      /\ OnlyAt(balances, b, NeonToken, c) /\ b \in SoundBooks
  BY <1>0, <1>1, TransferredMoves DEF Moves
<1>4. b[k] # NoAccount
  BY <1>3, HeaderNotNone, Zenon
<1> HIDE DEF b
<1>5. Moves(b, n, c, -v) /\ \A j \in BalanceKey \ {k} : n[j] = b[j]
  BY <1>0, <1>3, <1>4, BurnMoves, Zenon
<1> HIDE DEF n
<1>6. -v \in Int /\ v \in Int
  OBVIOUS
<1>7. Moves(balances, n, c, -v)
  <2>1. 0 \in Int /\ 0 + (-v) = -v
    OBVIOUS
  <2>2. Moves(balances, n, c, 0 + (-v))
    BY <1>0, <1>3, <1>5, <1>6, <2>1, MovesOn, Zenon
  <2> QED
    BY <2>1, <2>2, Zenon
<1>8. InOneAccount(n, legacy)
  <2>1. OnlyAt(b, n, NeonToken, c)
    BY <1>5, Zenon DEF OnlyAt
  <2>2. OnlyAt(balances, n, NeonToken, c)
    BY <1>3, <2>1, OnlyOn, Zenon
  <2>3. creatable(balances, legacy, NeonToken, c)
    BY <1>1, Zenon DEF transferable
  <2> QED
    BY <1>0, <2>2, <2>3, PartsOfInv, StaysInOneAccount, Zenon
<1>9. /\ n \in SoundBooks /\ Held(n, c) = Held(balances, c) + (-v)
      /\ \A y \in Chains \ {c} : Held(n, y) = Held(balances, y)
  BY <1>7, Zenon DEF Moves
<1>10. /\ Held(n, c) + Earned(operators, c) + Old(legacy, c)
             = Held(balances, c) + Earned(operators, c) + Old(legacy, c) + (-v)
       /\ \A y \in Chains \ {c} : Held(n, y) + Earned(operators, y) + Old(legacy, y)
                                  = Held(balances, y) + Earned(operators, y) + Old(legacy, y)
  BY <1>0, <1>6, <1>9, PartsOfInv
<1>11. /\ pool' \in [Mints -> Nat] /\ pool'[m] = pool[m] - x /\ pool[m] \in Nat
       /\ \A j \in Mints \ {m} : pool'[j] = pool[j]
  BY <1>0, <1>1, <1>2
<1>12. pool'[m] * Unit(m) = pool[m] * Unit(m) + (-v)
  <2>1. \A p, y, u \in Int : (p - y) * u = p * u + (-(y * u))
    OBVIOUS
  <2> QED
    BY <1>0, <1>2, <1>11, <2>1
<1>13. InAgreement(n, operators, legacy, pool', gifts)
  BY <1>0, <1>6, <1>9, <1>10, <1>11, <1>12, AgreementMoves, Zenon
<1>14. InAgreement(balances', operators', legacy', pool', gifts')
  BY <1>1, <1>13, Zenon
<1> QED
  BY <1>0, <1>1, <1>8, <1>9, <1>11, <1>14, PartsOfInv, Zenon DEF BooksInv, PoolsInv, InAgreement

(* Every step keeps the invariant. *)
LEMMA StepBacked ==
    ASSUME LedgerInv, [LedgerNext]_ledgerVars
    PROVE  LedgerInv'
<1>t. TokensTyped'
  BY TokensStayTyped, PartsOfInv, Zenon
<1>1. ASSUME NEW w \in Wallets, NEW m \in Mints, NEW a \in Addresses, NEW c \in Chains, NEW n \in Nat,
             Approve(w, m, a, c, n)
      PROVE  BooksInv' /\ PoolsInv'
  BY <1>1, TokensMoved, Zenon
<1>2. ASSUME NEW w \in Wallets, NEW m \in Mints, NEW n \in Nat, Give(w, m, n)
      PROVE  BooksInv' /\ PoolsInv'
  BY <1>2, TokensMoved, Zenon
<1>3. ASSUME NEW a \in Addresses, NEW c \in Chains, CreateAccountBalance(a, c) \/ IncrementNonce(a, c)
      PROVE  BooksInv' /\ PoolsInv'
  BY <1>3, AccountCreated, NonceIncremented, Zenon
<1>4. ASSUME NEW w \in Wallets, NEW a \in Addresses, NEW c \in Chains, Deposit(w, a, c)
      PROVE  BooksInv' /\ PoolsInv'
  BY <1>4, Deposited, Zenon
<1>5. ASSUME NEW a \in Addresses, NEW b \in Addresses, NEW c \in Chains, NEW v \in Nat, Transfer(a, b, c, v)
      PROVE  BooksInv' /\ PoolsInv'
  BY <1>5, TransferStays, Zenon
<1>6. ASSUME NEW a \in Addresses, NEW w \in Wallets, NEW v \in Nat, withdraw(a, w, v)
      PROVE  BooksInv' /\ PoolsInv'
  BY <1>6, Withdrawn, Zenon
<1>7. ASSUME NEW o \in Operators, NEW a \in Addresses, NEW c \in Chains,
             OperatorCreate(o, a, c) \/ OperatorDelete(o, a, c)
      PROVE  BooksInv' /\ PoolsInv'
  BY <1>7, OperatorsManaged, Zenon
<1>8. ASSUME NEW source \in Addresses, NEW a \in Addresses, NEW o \in Operators, NEW c \in Chains,
             NEW oc \in Chains, NEW v \in Nat, consume_gas(source, c, o, a, oc, v)
      PROVE  BooksInv' /\ PoolsInv'
  BY <1>8, GasConsumed, Zenon
<1>9. ASSUME NEW o \in Operators, NEW a \in Addresses, NEW ta \in Addresses, NEW c \in Chains,
             NEW tc \in Chains, OperatorWithdraw(o, a, c, ta, tc)
      PROVE  BooksInv' /\ PoolsInv'
  BY <1>9, OperatorWithdrawn, Zenon
<1>10. ASSUME NEW p \in Pubkeys, create_for_solana_user(p)
       PROVE  BooksInv' /\ PoolsInv'
  BY <1>10, UserSet, Zenon
<1>11. CASE UNCHANGED ledgerVars
  <2>1. UNCHANGED <<balances, operators, legacy, pool, gifts>>
    BY <1>11, Zenon DEF ledgerVars
  <2>2. BooksInv' /\ PoolsInv'
    BY <2>1, NothingMoved, Zenon
  <2> QED
    BY <1>t, <2>2, Zenon DEF LedgerInv
<1> QED
  BY <1>t, <1>1, <1>2, <1>3, <1>4, <1>5, <1>6, <1>7, <1>8, <1>9, <1>10, <1>11, Zenon DEF LedgerNext, LedgerInv

(* A ledger whose books agree once agrees for good: whatever instructions  *)
(* are run, each pool holds to the last unit what the balance accounts,    *)
(* the operator accounts and the accounts of the legacy format add up to   *)
(* on the chains of its mint, with what was given to it, and no account is *)
(* overdrawn.                                                              *)
THEOREM PoolsBackBalances == LedgerInv /\ [][LedgerNext]_ledgerVars => []PoolBacksBalances
<1>1. LedgerInv /\ [LedgerNext]_ledgerVars => LedgerInv'
  BY StepBacked, Zenon
<1>2. LedgerInv => PoolBacksBalances
  BY AgreementIsBacking, Zenon DEF LedgerInv
<1> QED
  BY <1>1, <1>2, PTL

(* The ledger before the first instruction agrees: no account, no tokens.  *)
LEMMA EmptyLedgerAgrees ==
    ASSUME balances = [k \in BalanceKey |-> NoAccount], operators = [k \in OperatorKey |-> NoAccount],
           legacy = [a \in Addresses |-> NoAccount], pool = [m \in Mints |-> 0], gifts = [m \in Mints |-> 0],
           TokensTyped
    PROVE  LedgerInv
<1>1. BooksInv
  BY KeysOfChains, Zenon DEF BooksInv, SoundBooks, Earnings, OldAccounts, InOneAccount
<1>2. ASSUME NEW c \in Chains PROVE OwedBy(balances, operators, legacy)[c] = 0
  <2>1. \A a \in Addresses : HeldOf(balances, c)[a] = 0 /\ OldOf(legacy, c)[a] = 0
    BY KeysOfChains, Zenon DEF HeldOf, OldOf
  <2>2. \A k \in Operators \X Addresses : EarnedOf(operators, c)[k] = 0
    BY Zenon DEF EarnedOf, OperatorKey
  <2>3. /\ Total(HeldOf(balances, c), Addresses) = Total(HeldOf(balances, c), {})
        /\ Total(OldOf(legacy, c), Addresses) = Total(OldOf(legacy, c), {})
    BY <2>1, TotalPart
  <2>4. Total(EarnedOf(operators, c), Operators \X Addresses) = Total(EarnedOf(operators, c), {})
    BY <2>2, TotalPart
  <2>5. Held(balances, c) = 0 /\ Earned(operators, c) = 0 /\ Old(legacy, c) = 0
    BY <2>3, <2>4, TotalEmpty, Zenon DEF Held, Earned, Old
  <2> QED
    BY <2>5 DEF OwedBy
<1>3. ASSUME NEW m \in Mints
      PROVE  pool[m] * Unit(m) = Total(OwedBy(balances, operators, legacy), ChainsOf(m)) + gifts[m] * Unit(m)
  <2>1. Total(OwedBy(balances, operators, legacy), ChainsOf(m)) = Total(OwedBy(balances, operators, legacy), {})
    BY <1>2, TotalPart DEF ChainsOf
  <2>2. Total(OwedBy(balances, operators, legacy), ChainsOf(m)) = 0
    BY <2>1, TotalEmpty, Zenon
  <2>3. Unit(m) \in Int
    BY KeysOfChains, Zenon
  <2> QED
    BY <2>2, <2>3
<1>4. PoolsInv
  BY <1>3, Zenon DEF PoolsInv, InAgreement
<1> QED
  BY <1>1, <1>4, Zenon DEF LedgerInv
=============================================================================
