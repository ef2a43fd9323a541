------------------------ MODULE TokenInstructions_proofs ------------------------
(***************************************************************************)
(* The token program, with the associated token account program on top:    *)
(* for every number of accounts, mints, wallets and amounts.               *)
(*                                                                         *)
(* There is one inductive invariant, TokenInv, and one lemma per           *)
(* instruction: it says which accounts the instruction touches, and that   *)
(* they keep what AccountInv and Steady promise of an account.             *)
(***************************************************************************)
EXTENDS AssociatedTokenAccount, TLAPS

(* Numbers are numbers, and functions are defined on the keys. *)
AccountTypes ==
    /\ DOMAIN state = TokenKeys /\ DOMAIN mint = TokenKeys /\ DOMAIN owner = TokenKeys
    /\ DOMAIN delegate = TokenKeys /\ DOMAIN close_authority = TokenKeys /\ DOMAIN lock_cpi = TokenKeys
    /\ amount \in [TokenKeys -> Nat] /\ delegated_amount \in [TokenKeys -> Nat]
    /\ withheld_amount \in [TokenKeys -> Nat]
    /\ approved \in [TokenKeys -> Nat] /\ spent \in [TokenKeys -> Nat]
    /\ is_native \in [TokenKeys -> Nat \cup {-1}]
    /\ extensions \in [TokenKeys -> SUBSET AccountExtension]
    /\ lamports \in [Keys -> Nat] /\ slots \in [Keys -> Nat]

(* Mints, too.  The native mint has no extension, so its accounts pay no   *)
(* fee and cannot be frozen; there are no tokens of a mint that is not     *)
(* initialized.                                                            *)
MintInv ==
    /\ DOMAIN mint_state = MintKeys /\ DOMAIN mint_extensions = MintKeys
    /\ supply \in [MintKeys -> Nat] /\ mint_withheld \in [MintKeys -> Nat]
    /\ default_state \in [MintKeys -> {"initialized", "frozen"}]
    /\ epoch \in 0 .. MaxEpoch
    /\ newer_fee \in [MintKeys -> TransferFee] /\ DOMAIN older_fee = MintKeys
    /\ NativeMint \in MintKeys => mint_state[NativeMint] # "uninitialized" /\ mint_extensions[NativeMint] = {}
    /\ \A m \in MintKeys : mint_state[m] # "initialized" => supply[m] = 0

(* What is at a derived address: nothing, or the wallet's account, whose   *)
(* owner cannot be changed.  No raw account is ever there.                 *)
Derived(a) ==
    AtaWallet[a] # None =>
        /\ state[a] # "uninitialized"
        /\ Live(a) => /\ owner[a] = AtaWallet[a] /\ mint[a] = AtaMint[a]
                      /\ "ImmutableOwner" \in extensions[a]

Allowed(a) ==
    /\ spent[a] <= approved[a]
    /\ delegate[a] # None => delegated_amount[a] = approved[a] - spent[a]

(* The accounts of the native mint are the ones with a reserve. *)
Backed(a) ==
    Live(a) => /\ mint[a] \in MintKeys
               /\ IsNative(a) <=> mint[a] = NativeMint
               /\ IsNative(a) => state[a] = "initialized" /\ lamports[a] >= is_native[a] + amount[a]

AccountInv(a) == Derived(a) /\ Allowed(a) /\ Backed(a)

(* What account a counts towards the supply of mint m. *)
Holding(m, a) == IF Live(a) /\ mint[a] = m THEN amount[a] + withheld_amount[a] ELSE 0
TokenInv == AccountTypes /\ MintInv /\ \A a \in TokenKeys : AccountInv(a)
-----------------------------------------------------------------------------
(* What FeeSettledForEpoch, FrozenStays and CpiGuardHolds say of a step,   *)
(* of a mint or of an account.                                             *)
FeeSettled(m) ==
    LiveMint(m) /\ LiveMint(m)' /\ epoch' = epoch =>
        get_epoch_fee(m, epoch)' = get_epoch_fee(m, epoch)

StaysFrozen(a) ==
    state[a] = "frozen" /\ state'[a] # "none" =>
        /\ amount'[a] = amount[a] /\ owner'[a] = owner[a] /\ mint'[a] = mint[a]
        /\ delegate'[a] = delegate[a] /\ delegated_amount'[a] = delegated_amount[a]
        /\ close_authority'[a] = close_authority[a]

StaysGuarded(a) ==
    lock_cpi[a] /\ in_cpi /\ Live(a) /\ Live(a)' =>
        /\ lock_cpi'[a] /\ owner'[a] = owner[a]
        /\ delegate'[a] \in {delegate[a], None}
        /\ close_authority'[a] \in {close_authority[a], None}
        /\ \/ amount'[a] >= amount[a]
           \/ delegate[a] # None /\ amount[a] - amount'[a] = delegated_amount[a] - delegated_amount'[a]
           \/ "PermanentDelegate" \in mint_extensions[mint[a]]
           \/ owner[a] = Incinerator

Steady(a) == StaysFrozen(a) /\ StaysGuarded(a)

(* What is to be shown of every step. *)
Upheld == /\ TokenInv'
          /\ \A m \in MintKeys : FeeSettled(m)
          /\ \A a \in TokenKeys : Steady(a)

(* Where the tokens go in a step: what leaves or enters a supply leaves or *)
(* enters one account, or one account gets what another gives.  A mint may *)
(* forget what it withheld when there are no tokens of it.                 *)
OthersHold(S) == \A b \in TokenKeys \ S : \A m : Holding(m, b)' = Holding(m, b)

InNoAccount ==
    /\ OthersHold({})
    /\ \A m \in MintKeys \ {NativeMint} :
           /\ supply'[m] = supply[m]
           /\ mint_withheld'[m] = mint_withheld[m] \/ (supply[m] = 0 /\ mint_withheld'[m] = 0)

InOneAccount(a) ==
    /\ OthersHold({a})
    /\ \A m \in MintKeys \ {NativeMint} :
           supply'[m] - mint_withheld'[m] - (supply[m] - mint_withheld[m]) = Holding(m, a)' - Holding(m, a)

FromOneToAnother(s, d) ==
    /\ s # d /\ OthersHold({s, d}) /\ UNCHANGED <<supply, mint_withheld>>
    /\ \A m : Holding(m, s)' + Holding(m, d)' = Holding(m, s) + Holding(m, d)

TokensMove ==
    \/ InNoAccount
    \/ \E a \in TokenKeys : InOneAccount(a)
    \/ \E s, d \in TokenKeys : FromOneToAnother(s, d)

Kept == Upheld /\ TokensMove
-----------------------------------------------------------------------------
(* The invariant, conjunct by conjunct. *)
LEMMA TypeFacts ==
    ASSUME TokenInv
    PROVE  /\ DOMAIN state = TokenKeys /\ DOMAIN mint = TokenKeys /\ DOMAIN owner = TokenKeys
           /\ DOMAIN delegate = TokenKeys /\ DOMAIN close_authority = TokenKeys /\ DOMAIN lock_cpi = TokenKeys
           /\ amount \in [TokenKeys -> Nat] /\ delegated_amount \in [TokenKeys -> Nat]
           /\ withheld_amount \in [TokenKeys -> Nat]
           /\ approved \in [TokenKeys -> Nat] /\ spent \in [TokenKeys -> Nat]
           /\ is_native \in [TokenKeys -> Nat \cup {-1}]
           /\ extensions \in [TokenKeys -> SUBSET AccountExtension]
           /\ lamports \in [Keys -> Nat] /\ slots \in [Keys -> Nat]
BY Zenon DEF TokenInv, AccountTypes

(* What the invariant says of mints. *)
LEMMA MintFacts ==
    ASSUME TokenInv
    PROVE  /\ DOMAIN mint_state = MintKeys /\ DOMAIN mint_extensions = MintKeys
           /\ supply \in [MintKeys -> Nat] /\ mint_withheld \in [MintKeys -> Nat]
           /\ default_state \in [MintKeys -> {"initialized", "frozen"}]
           /\ epoch \in 0 .. MaxEpoch
           /\ newer_fee \in [MintKeys -> TransferFee] /\ DOMAIN older_fee = MintKeys
           /\ NativeMint \in MintKeys => /\ mint_state[NativeMint] # "uninitialized"
                                         /\ mint_extensions[NativeMint] = {}
           /\ \A m \in MintKeys : mint_state[m] # "initialized" => supply[m] = 0
BY Zenon DEF TokenInv, MintInv

(* What the invariant says of an account. *)
LEMMA AccountFacts ==
    ASSUME TokenInv, NEW a \in TokenKeys
    PROVE  Derived(a) /\ Allowed(a) /\ Backed(a)
BY Zenon DEF TokenInv, AccountInv

(* What the instructions carry. *)
LEMMA Carried ==
    /\ TokenKeys \subseteq Keys /\ MintKeys \subseteq Keys /\ TokenKeys \cap MintKeys = {}
    /\ \A x \in Amounts : x \in Nat
    /\ \A l \in Funds : l \in Nat
    /\ \A n \in 0 .. MaxSlots : n \in Nat
    /\ \A k \in Owners : k # None
<1>1. TokenKeys \subseteq Keys /\ MintKeys \subseteq Keys /\ TokenKeys \cap MintKeys = {}
  BY KeysAssumption, Zenon DEF Keys
<1>2. \A k \in Owners : k # None
  BY KeysAssumption, Zenon
<1> QED
  BY <1>1, <1>2, BoundsAssumption DEF Funds

(* Lamports that nobody moves. *)
LEMMA FundsKept ==
    ASSUME TokenInv, UNCHANGED lamports
    PROVE  \A b \in TokenKeys : lamports'[b] >= lamports[b]
BY TypeFacts, Carried
-----------------------------------------------------------------------------
(* An account none of whose fields changes. *)
Same(a) ==
    /\ state'[a] = state[a] /\ amount'[a] = amount[a] /\ owner'[a] = owner[a] /\ mint'[a] = mint[a]
    /\ delegate'[a] = delegate[a] /\ delegated_amount'[a] = delegated_amount[a]
    /\ close_authority'[a] = close_authority[a] /\ lock_cpi'[a] = lock_cpi[a]
    /\ is_native'[a] = is_native[a] /\ extensions'[a] = extensions[a]
    /\ withheld_amount'[a] = withheld_amount[a] /\ approved'[a] = approved[a] /\ spent'[a] = spent[a]

(* It keeps everything, if it is not robbed of wrapped lamports. *)
LEMMA SameAccount ==
    ASSUME TokenInv, NEW a \in TokenKeys, Same(a), lamports' \in [Keys -> Nat],
           Live(a) /\ IsNative(a) => lamports'[a] >= lamports[a]
    PROVE  /\ AccountInv(a)' /\ Steady(a)
           /\ \A m : Holding(m, a)' = Holding(m, a)
<1>1. /\ amount[a] \in Nat /\ is_native[a] \in Nat \cup {-1}
      /\ lamports[a] \in Nat /\ lamports'[a] \in Nat
  BY TypeFacts, Carried, Zenon
<1>2. Derived(a)' /\ Allowed(a)'
  BY AccountFacts, Zenon DEF Derived, Allowed, Same, Live
<1>3. Backed(a)'
  BY <1>1, AccountFacts DEF Backed, Same, Live, IsNative
<1>4. Steady(a)
  BY <1>1 DEF Same, Steady, StaysFrozen, StaysGuarded, Live
<1>5. \A m : Holding(m, a)' = Holding(m, a)
  BY Zenon DEF Same, Holding, Live
<1> QED
  BY <1>2, <1>3, <1>4, <1>5, Zenon DEF AccountInv

(* What an account holds is a number. *)
LEMMA HoldingType ==
    ASSUME TokenInv
    PROVE  \A m : \A a \in TokenKeys : Holding(m, a) \in Nat
BY TypeFacts DEF Holding
-----------------------------------------------------------------------------
(* Instructions by the accounts they touch.  First, one account. *)
LEMMA OneAccount ==
    ASSUME TokenInv, NEW a \in TokenKeys, AccountTypes', MintInv',
           \A m \in MintKeys : FeeSettled(m),
           \A b \in TokenKeys \ {a} : Same(b) /\ lamports'[b] >= lamports[b],
           AccountInv(a)', Steady(a),
           \A m \in MintKeys \ {NativeMint} :
               supply'[m] - mint_withheld'[m] - (supply[m] - mint_withheld[m]) = Holding(m, a)' - Holding(m, a)
    PROVE  Kept
<1>1. lamports' \in [Keys -> Nat]
  BY Zenon DEF AccountTypes
<1>2. \A b \in TokenKeys \ {a} : AccountInv(b)' /\ Steady(b) /\ \A m : Holding(m, b)' = Holding(m, b)
  BY <1>1, SameAccount, Zenon
<1>3. Upheld
  BY <1>2, Zenon DEF Upheld, TokenInv
<1>4. InOneAccount(a)
  BY <1>2, Zenon DEF InOneAccount, OthersHold
<1> QED
  BY <1>3, <1>4, Zenon DEF Kept, TokensMove

(* Two accounts, of which one gives what the other gets. *)
LEMMA TwoAccounts ==
    ASSUME TokenInv, NEW s \in TokenKeys, NEW d \in TokenKeys, s # d, AccountTypes', MintInv',
           \A m \in MintKeys : FeeSettled(m),
           \A b \in TokenKeys \ {s, d} : Same(b) /\ lamports'[b] >= lamports[b],
           AccountInv(s)', Steady(s), AccountInv(d)', Steady(d),
           UNCHANGED <<supply, mint_withheld>>,
           \A m : Holding(m, s)' + Holding(m, d)' = Holding(m, s) + Holding(m, d)
    PROVE  Kept
<1>1. lamports' \in [Keys -> Nat]
  BY Zenon DEF AccountTypes
<1>2. \A b \in TokenKeys \ {s, d} : AccountInv(b)' /\ Steady(b) /\ \A m : Holding(m, b)' = Holding(m, b)
  BY <1>1, SameAccount, Zenon
<1>3. Upheld
  BY <1>2, Zenon DEF Upheld, TokenInv
<1>4. FromOneToAnother(s, d)
  BY <1>2, Zenon DEF FromOneToAnother, OthersHold
<1> QED
  BY <1>3, <1>4, Zenon DEF Kept, TokensMove

(* No account, and no token. *)
LEMMA NoAccount ==
    ASSUME TokenInv, MintInv', \A m \in MintKeys : FeeSettled(m),
           UNCHANGED <<state, mint, owner, amount, delegate, delegated_amount, is_native, close_authority,
                       extensions, withheld_amount, lock_cpi, approved, spent>>,
           lamports' \in [Keys -> Nat], slots' \in [Keys -> Nat],
           \A b \in TokenKeys : Live(b) /\ IsNative(b) => lamports'[b] >= lamports[b],
           \A m \in MintKeys \ {NativeMint} :
               /\ supply'[m] = supply[m]
               /\ mint_withheld'[m] = mint_withheld[m] \/ (supply[m] = 0 /\ mint_withheld'[m] = 0)
    PROVE  Kept
<1>1. AccountTypes'
  BY TypeFacts, Zenon DEF AccountTypes
<1>2. \A b \in TokenKeys : Same(b)
  BY Zenon DEF Same
<1>3. \A b \in TokenKeys : AccountInv(b)' /\ Steady(b) /\ \A m : Holding(m, b)' = Holding(m, b)
  BY <1>2, SameAccount, Zenon
<1>4. Upheld
  BY <1>1, <1>3, Zenon DEF Upheld, TokenInv
<1>5. InNoAccount
  BY <1>3, Zenon DEF InNoAccount, OthersHold
<1> QED
  BY <1>4, <1>5, Zenon DEF Kept, TokensMove

(* The mints that an instruction does not concern. *)
LEMMA SameMints ==
    ASSUME TokenInv, UNCHANGED <<mint_state, mint_extensions, default_state, epoch, newer_fee, older_fee>>,
           supply' \in [MintKeys -> Nat], mint_withheld' \in [MintKeys -> Nat],
           \A m \in MintKeys : supply'[m] # supply[m] => LiveMint(m)
    PROVE  MintInv' /\ \A m \in MintKeys : FeeSettled(m)
<1>1. MintInv'
  BY MintFacts, Zenon DEF MintInv, LiveMint
<1>2. \A m \in MintKeys : FeeSettled(m)
  BY Zenon DEF FeeSettled, get_epoch_fee
<1> QED
  BY <1>1, <1>2, Zenon

(* What an instruction about accounts leaves alone. *)
MintsSame ==
    UNCHANGED <<mint_state, mint_extensions, default_state, epoch, newer_fee, older_fee, supply, mint_withheld>>

(* An instruction that changes one account, neither its tokens nor any mint,
   keeps everything that is proved here if that account does. *)
LEMMA AccountAlone ==
    ASSUME TokenInv, NEW a \in TokenKeys, AccountTypes', MintsSame,
           \A b \in TokenKeys \ {a} : Same(b) /\ lamports'[b] >= lamports[b],
           Derived(a)', Allowed(a)', Backed(a)', Steady(a),
           \A m \in MintKeys \ {NativeMint} : Holding(m, a)' = Holding(m, a)
    PROVE  Kept
<1>1. MintInv' /\ \A m \in MintKeys : FeeSettled(m)
  BY MintFacts, SameMints, Zenon DEF MintsSame
<1>2. \A m \in MintKeys \ {NativeMint} : /\ supply[m] \in Nat /\ mint_withheld[m] \in Nat
                                         /\ Holding(m, a) \in Nat
  BY MintFacts, HoldingType, Zenon
<1>3. \A m \in MintKeys \ {NativeMint} :
          supply'[m] - mint_withheld'[m] - (supply[m] - mint_withheld[m]) = Holding(m, a)' - Holding(m, a)
  BY <1>2 DEF MintsSame
<1>4. AccountInv(a)'
  BY Zenon DEF AccountInv
<1> QED
  BY <1>1, <1>3, <1>4, OneAccount, Zenon

(* process_create_account: a raw account, at an address of no wallet. *)
LEMMA CreatedAccount ==
    ASSUME TokenInv, NEW a \in TokenKeys, NEW n \in 0 .. MaxSlots, NEW l \in Funds, CreateAccount(a, n, l),
           AtaWallet[a] = None
    PROVE  Kept
<1>1. /\ state' = [state EXCEPT ![a] = "uninitialized"] /\ state[a] = "none"
      /\ slots' = [slots EXCEPT ![a] = n] /\ lamports' = [lamports EXCEPT ![a] = @ + l]
      /\ UNCHANGED <<mint, owner, amount, delegate, delegated_amount, is_native, close_authority,
                     extensions, withheld_amount, lock_cpi, approved, spent>>
      /\ MintsSame
  BY Zenon DEF CreateAccount, extVars, mintVars, history, MintsSame
<1>2. n \in Nat /\ l \in Nat /\ a \in Keys
  BY Carried, Zenon
<1>3. AccountTypes'
  BY <1>1, <1>2, TypeFacts DEF AccountTypes
<1>4. \A b \in TokenKeys \ {a} : Same(b) /\ lamports'[b] >= lamports[b]
  BY <1>1, TypeFacts, Carried DEF Same
<1>5. state'[a] = "uninitialized"
  BY <1>1, TypeFacts, Zenon
<1>6. Derived(a)' /\ Allowed(a)' /\ Backed(a)'
  BY <1>1, <1>5, AccountFacts, Zenon DEF Derived, Allowed, Backed, Live
<1>7. Steady(a) /\ \A m : Holding(m, a)' = Holding(m, a)
  BY <1>1, <1>5, Zenon DEF Steady, StaysFrozen, StaysGuarded, Holding, Live
<1> QED
  BY <1>1, <1>3, <1>4, <1>6, <1>7, AccountAlone, Zenon

(* An account is opened for an owner: one of the native mint wraps the     *)
(* lamports above its rent.                                                *)
LEMMA OpenedAccount ==
    ASSUME TokenInv, NEW a \in TokenKeys, NEW m \in MintKeys, NEW o, NEW n \in Nat, NEW l \in Nat,
           l >= MinimumBalance(n), InitializedBase(a, m, o, n, l), ~Live(a), MintsSame,
           lamports' \in [Keys -> Nat], slots' \in [Keys -> Nat],
           extensions' \in [TokenKeys -> SUBSET AccountExtension], lamports'[a] = l,
           \A b \in TokenKeys \ {a} : lamports'[b] = lamports[b] /\ extensions'[b] = extensions[b],
           AtaWallet[a] # None => o = AtaWallet[a] /\ m = AtaMint[a] /\ "ImmutableOwner" \in extensions'[a]
    PROVE  Kept
<1>1. MinimumBalance(n) \in Nat
  BY DEF MinimumBalance
<1>2. /\ state' = [state EXCEPT ![a] = IF "DefaultAccountState" \in mint_extensions[m]
                                       THEN default_state[m] ELSE "initialized"]
      /\ mint' = [mint EXCEPT ![a] = m] /\ owner' = [owner EXCEPT ![a] = o]
      /\ close_authority' = [close_authority EXCEPT ![a] = None]
      /\ delegate' = [delegate EXCEPT ![a] = None]
      /\ delegated_amount' = [delegated_amount EXCEPT ![a] = 0]
      /\ is_native' = [is_native EXCEPT ![a] = IF m = NativeMint THEN MinimumBalance(n) ELSE -1]
      /\ amount' = [amount EXCEPT ![a] = IF m = NativeMint THEN l - MinimumBalance(n) ELSE 0]
      /\ withheld_amount' = [withheld_amount EXCEPT ![a] = 0]
      /\ approved' = [approved EXCEPT ![a] = 0] /\ spent' = [spent EXCEPT ![a] = 0]
      /\ UNCHANGED lock_cpi
  BY Zenon DEF InitializedBase
<1>3. AccountTypes'
  BY <1>1, <1>2, TypeFacts DEF AccountTypes
<1>4. \A b \in TokenKeys \ {a} : Same(b) /\ lamports'[b] >= lamports[b]
  BY <1>2, TypeFacts, Carried DEF Same
<1>5. /\ mint'[a] = m /\ owner'[a] = o /\ delegate'[a] = None /\ approved'[a] = 0 /\ spent'[a] = 0
      /\ withheld_amount'[a] = 0
      /\ is_native'[a] = IF m = NativeMint THEN MinimumBalance(n) ELSE -1
      /\ amount'[a] = IF m = NativeMint THEN l - MinimumBalance(n) ELSE 0
  BY <1>2, TypeFacts, Zenon
<1>6. state'[a] \in {"initialized", "frozen"} /\ (m = NativeMint => state'[a] = "initialized")
  BY <1>2, TypeFacts, MintFacts, Zenon
<1>7. Derived(a)' /\ Allowed(a)'
  BY <1>5, <1>6 DEF Derived, Allowed, Live
<1>8. Backed(a)'
  BY <1>1, <1>5, <1>6 DEF Backed, Live, IsNative
<1>9. Steady(a)
  BY Zenon DEF Steady, StaysFrozen, StaysGuarded, Live
<1>10. \A k \in MintKeys \ {NativeMint} : Holding(k, a)' = Holding(k, a)
  BY <1>5 DEF Holding
<1> QED
  BY <1>3, <1>4, <1>7, <1>8, <1>9, <1>10, AccountAlone, Zenon

(* process_initialize_account *)
LEMMA InitializedAccount ==
    ASSUME TokenInv, NEW a \in TokenKeys, NEW m \in MintKeys, NEW o, InitializeAccount(a, m, o)
    PROVE  Kept
<1>1. /\ state[a] = "uninitialized" /\ lamports[a] >= MinimumBalance(slots[a])
      /\ extensions' = [extensions EXCEPT ![a] = @ \cup get_required_init_account_extensions(m)]
      /\ InitializedBase(a, m, o, slots[a], lamports[a])
      /\ MintsSame /\ UNCHANGED <<slots, lamports>>
  BY Zenon DEF InitializeAccount, mintVars, chainVars, MintsSame
<1>2. AtaWallet[a] = None /\ ~Live(a)
  BY <1>1, AccountFacts, Zenon DEF Derived, Live
<1>3. get_required_init_account_extensions(m) \in SUBSET AccountExtension
  BY Zenon DEF get_required_init_account_extensions, AccountExtension
<1>4. /\ slots[a] \in Nat /\ lamports[a] \in Nat
      /\ lamports' \in [Keys -> Nat] /\ slots' \in [Keys -> Nat]
      /\ extensions' \in [TokenKeys -> SUBSET AccountExtension] /\ lamports'[a] = lamports[a]
      /\ \A b \in TokenKeys \ {a} : lamports'[b] = lamports[b] /\ extensions'[b] = extensions[b]
  BY <1>1, <1>3, TypeFacts, Carried, Zenon
<1> QED
  BY <1>1, <1>2, <1>4, OpenedAccount, Zenon

-----------------------------------------------------------------------------
(* process_initialize_immutable_owner, process_toggle_required_memo_transfers: *)
(* an account gets another extension.                                      *)
LEMMA ExtendedAccount ==
    ASSUME TokenInv, NEW a \in TokenKeys, NEW type \in AccountExtension,
           extensions' = [extensions EXCEPT ![a] = @ \cup {type}],
           UNCHANGED <<state, mint, owner, amount, delegate, delegated_amount, is_native, close_authority,
                       withheld_amount, approved, spent, lamports, slots>>,
           DOMAIN lock_cpi' = TokenKeys, \A b \in TokenKeys \ {a} : lock_cpi'[b] = lock_cpi[b],
           lock_cpi'[a] = lock_cpi[a] \/ ~in_cpi, MintsSame
    PROVE  Kept
<1>1. AccountTypes'
  BY TypeFacts, Zenon DEF AccountTypes
<1>2. \A b \in TokenKeys \ {a} : Same(b) /\ lamports'[b] >= lamports[b]
  BY TypeFacts, FundsKept, Zenon DEF Same
<1>3. extensions[a] \subseteq extensions'[a]
  BY TypeFacts, Zenon
<1>4. Derived(a)' /\ Allowed(a)' /\ Backed(a)'
  BY <1>3, AccountFacts, Zenon DEF Derived, Allowed, Backed, Live, IsNative
<1>5. amount[a] \in Nat
  BY TypeFacts, Zenon
<1>6. Steady(a) /\ \A m : Holding(m, a)' = Holding(m, a)
  BY <1>5 DEF Steady, StaysFrozen, StaysGuarded, Holding, Live
<1> QED
  BY <1>1, <1>2, <1>4, <1>6, AccountAlone, Zenon

(* InitializeImmutableOwner only adds an extension. *)
LEMMA ImmutableOwner ==
    ASSUME TokenInv, NEW a \in TokenKeys, InitializeImmutableOwner(a)
    PROVE  Kept
<1>1. /\ extensions' = [extensions EXCEPT ![a] = @ \cup {"ImmutableOwner"}]
      /\ UNCHANGED <<state, mint, owner, amount, delegate, delegated_amount, is_native, close_authority,
                     withheld_amount, lock_cpi, approved, spent, lamports, slots>>
      /\ MintsSame
  BY Zenon DEF InitializeImmutableOwner, baseVars, mintVars, chainVars, history, MintsSame
<1>2. "ImmutableOwner" \in AccountExtension
  BY Zenon DEF AccountExtension
<1> QED
  BY <1>1, <1>2, TypeFacts, ExtendedAccount, Zenon

(* Enabling or disabling required memos changes nothing the invariant is about. *)
LEMMA MemoToggled ==
    ASSUME TokenInv, NEW a \in TokenKeys, NEW enable, NEW who, NEW signers,
           ToggleRequiredMemoTransfers(a, enable, who, signers)
    PROVE  Kept
<1>1. /\ extensions' = [extensions EXCEPT ![a] = @ \cup {"MemoTransfer"}]
      /\ UNCHANGED <<state, mint, owner, amount, delegate, delegated_amount, is_native, close_authority,
                     withheld_amount, lock_cpi, approved, spent, lamports, slots>>
      /\ MintsSame
  BY Zenon DEF ToggleRequiredMemoTransfers, baseVars, mintVars, chainVars, history, MintsSame
<1>2. "MemoTransfer" \in AccountExtension
  BY Zenon DEF AccountExtension
<1> QED
  BY <1>1, <1>2, TypeFacts, ExtendedAccount, Zenon

(* process_toggle_cpi_guard: not in a call from a program. *)
LEMMA GuardToggled ==
    ASSUME TokenInv, NEW a \in TokenKeys, NEW enable, NEW who, NEW signers,
           ToggleCpiGuard(a, enable, who, signers)
    PROVE  Kept
<1>1. /\ extensions' = [extensions EXCEPT ![a] = @ \cup {"CpiGuard"}]
      /\ lock_cpi' = [lock_cpi EXCEPT ![a] = enable] /\ ~in_cpi
      /\ UNCHANGED <<state, mint, owner, amount, delegate, delegated_amount, is_native, close_authority,
                     withheld_amount, approved, spent, lamports, slots>>
      /\ MintsSame
  BY Zenon DEF ToggleCpiGuard, baseVars, mintVars, chainVars, history, MintsSame
<1>2. /\ "CpiGuard" \in AccountExtension
      /\ DOMAIN lock_cpi' = TokenKeys /\ \A b \in TokenKeys \ {a} : lock_cpi'[b] = lock_cpi[b]
  BY <1>1, TypeFacts, Zenon DEF AccountExtension
<1> QED
  BY <1>1, <1>2, ExtendedAccount, Zenon

(* process_approve: not for a guarded account in a call from a program. *)
LEMMA Approved ==
    ASSUME TokenInv, NEW a \in TokenKeys, NEW k, NEW x \in Amounts, NEW who, NEW signers,
           Approve(a, k, x, who, signers)
    PROVE  Kept
<1>1. /\ state[a] = "initialized" /\ ~(lock_cpi[a] /\ in_cpi)
      /\ delegate' = [delegate EXCEPT ![a] = k] /\ delegated_amount' = [delegated_amount EXCEPT ![a] = x]
      /\ approved' = [approved EXCEPT ![a] = x] /\ spent' = [spent EXCEPT ![a] = 0]
      /\ UNCHANGED <<state, mint, owner, amount, is_native, close_authority, extensions, withheld_amount,
                     lock_cpi, lamports, slots>>
      /\ MintsSame
  BY Zenon DEF Approve, extVars, mintVars, chainVars, MintsSame
<1>2. x \in Nat
  BY Carried, Zenon
<1>3. AccountTypes'
  BY <1>1, <1>2, TypeFacts, Zenon DEF AccountTypes
<1>4. \A b \in TokenKeys \ {a} : Same(b) /\ lamports'[b] >= lamports[b]
  BY <1>1, TypeFacts, FundsKept, Zenon DEF Same
<1>5. delegated_amount'[a] = x /\ approved'[a] = x /\ spent'[a] = 0
  BY <1>1, TypeFacts, Zenon
<1>6. Derived(a)' /\ Allowed(a)' /\ Backed(a)'
  BY <1>1, <1>2, <1>5, AccountFacts DEF Derived, Allowed, Backed, Live, IsNative
<1>7. Steady(a) /\ \A m : Holding(m, a)' = Holding(m, a)
  BY <1>1, Zenon DEF Steady, StaysFrozen, StaysGuarded, Holding, Live
<1> QED
  BY <1>1, <1>3, <1>4, <1>6, <1>7, AccountAlone, Zenon

(* process_revoke *)
LEMMA Revoked ==
    ASSUME TokenInv, NEW a \in TokenKeys, NEW who, NEW signers, Revoke(a, who, signers)
    PROVE  Kept
<1>1. /\ state[a] = "initialized"
      /\ delegate' = [delegate EXCEPT ![a] = None] /\ delegated_amount' = [delegated_amount EXCEPT ![a] = 0]
      /\ UNCHANGED <<state, mint, owner, amount, is_native, close_authority, extensions, withheld_amount,
                     lock_cpi, approved, spent, lamports, slots>>
      /\ MintsSame
  BY Zenon DEF Revoke, extVars, mintVars, chainVars, history, MintsSame
<1>2. AccountTypes'
  BY <1>1, TypeFacts, Zenon DEF AccountTypes
<1>3. \A b \in TokenKeys \ {a} : Same(b) /\ lamports'[b] >= lamports[b]
  BY <1>1, TypeFacts, FundsKept, Zenon DEF Same
<1>4. delegate'[a] = None /\ amount[a] \in Nat
  BY <1>1, TypeFacts, Zenon
<1>5. Derived(a)' /\ Allowed(a)' /\ Backed(a)'
  BY <1>1, <1>4, AccountFacts, Zenon DEF Derived, Allowed, Backed, Live, IsNative
<1>6. Steady(a) /\ \A m : Holding(m, a)' = Holding(m, a)
  BY <1>1, <1>4 DEF Steady, StaysFrozen, StaysGuarded, Holding, Live
<1> QED
  BY <1>1, <1>2, <1>3, <1>5, <1>6, AccountAlone, Zenon

(* process_set_authority: the owner of an account. *)
LEMMA OwnerSet ==
    ASSUME TokenInv, NEW a \in TokenKeys, NEW new, NEW who, NEW signers, SetAccountOwner(a, new, who, signers)
    PROVE  Kept
<1>1. /\ state[a] = "initialized" /\ "ImmutableOwner" \notin extensions[a] /\ ~lock_cpi[a]
      /\ owner' = [owner EXCEPT ![a] = new]
      /\ delegate' = [delegate EXCEPT ![a] = None] /\ delegated_amount' = [delegated_amount EXCEPT ![a] = 0]
      /\ close_authority' = [close_authority EXCEPT ![a] = IF IsNative(a) THEN None ELSE @]
      /\ UNCHANGED <<state, mint, amount, is_native, extensions, withheld_amount,
                     lock_cpi, approved, spent, lamports, slots>>
      /\ MintsSame
  BY Zenon DEF SetAccountOwner, extVars, mintVars, chainVars, history, MintsSame
<1>2. AccountTypes'
  BY <1>1, TypeFacts, Zenon DEF AccountTypes
<1>3. \A b \in TokenKeys \ {a} : Same(b) /\ lamports'[b] >= lamports[b]
  BY <1>1, TypeFacts, FundsKept, Zenon DEF Same
<1>4. delegate'[a] = None
  BY <1>1, TypeFacts, Zenon
<1>5. AtaWallet[a] = None
  BY <1>1, AccountFacts, Zenon DEF Derived, Live
<1>6. Derived(a)' /\ Allowed(a)' /\ Backed(a)'
  BY <1>1, <1>4, <1>5, AccountFacts, Zenon DEF Derived, Allowed, Backed, Live, IsNative
<1>7. Steady(a) /\ \A m : Holding(m, a)' = Holding(m, a)
  BY <1>1, Zenon DEF Steady, StaysFrozen, StaysGuarded, Holding, Live
<1> QED
  BY <1>1, <1>2, <1>3, <1>6, <1>7, AccountAlone, Zenon

(* process_set_authority: the close authority of an account. *)
LEMMA CloserSet ==
    ASSUME TokenInv, NEW a \in TokenKeys, NEW new, NEW who, NEW signers, SetCloseAuthority(a, new, who, signers)
    PROVE  Kept
<1>1. /\ state[a] = "initialized" /\ (lock_cpi[a] /\ in_cpi => new = None)
      /\ close_authority' = [close_authority EXCEPT ![a] = new]
      /\ UNCHANGED <<state, mint, owner, amount, delegate, delegated_amount, is_native, extensions,
                     withheld_amount, lock_cpi, approved, spent, lamports, slots>>
      /\ MintsSame
  BY Zenon DEF SetCloseAuthority, extVars, mintVars, chainVars, history, MintsSame
<1>2. AccountTypes'
  BY <1>1, TypeFacts, Zenon DEF AccountTypes
<1>3. \A b \in TokenKeys \ {a} : Same(b) /\ lamports'[b] >= lamports[b]
  BY <1>1, TypeFacts, FundsKept, Zenon DEF Same
<1>4. close_authority'[a] = new /\ amount[a] \in Nat
  BY <1>1, TypeFacts, Zenon
<1>5. Derived(a)' /\ Allowed(a)' /\ Backed(a)'
  BY <1>1, AccountFacts, Zenon DEF Derived, Allowed, Backed, Live, IsNative
<1>6. Steady(a) /\ \A m : Holding(m, a)' = Holding(m, a)
  BY <1>1, <1>4 DEF Steady, StaysFrozen, StaysGuarded, Holding, Live
<1> QED
  BY <1>1, <1>2, <1>3, <1>5, <1>6, AccountAlone, Zenon

(* process_toggle_freeze_account: not an account of the native mint. *)
LEMMA FreezeToggled ==
    ASSUME TokenInv, NEW a \in TokenKeys, NEW freeze, NEW who, NEW signers,
           ToggleFreezeAccount(a, freeze, who, signers)
    PROVE  Kept
<1>1. /\ Live(a) /\ ~IsNative(a) /\ \E st \in {"initialized", "frozen"} : state' = [state EXCEPT ![a] = st]
      /\ UNCHANGED <<mint, owner, amount, delegate, delegated_amount, is_native, close_authority, extensions,
                     withheld_amount, lock_cpi, approved, spent, lamports, slots>>
      /\ MintsSame
  BY Zenon DEF ToggleFreezeAccount, Live, extVars, mintVars, chainVars, history, MintsSame
<1>2. AccountTypes'
  BY <1>1, TypeFacts, Zenon DEF AccountTypes
<1>3. \A b \in TokenKeys \ {a} : Same(b) /\ lamports'[b] >= lamports[b]
  BY <1>1, TypeFacts, FundsKept, Zenon DEF Same
<1>4. state'[a] \in {"initialized", "frozen"} /\ amount[a] \in Nat
  BY <1>1, TypeFacts, Zenon
<1>5. Derived(a)' /\ Allowed(a)' /\ Backed(a)'
  BY <1>1, <1>4, AccountFacts, Zenon DEF Derived, Allowed, Backed, Live, IsNative
<1>6. Steady(a) /\ \A m : Holding(m, a)' = Holding(m, a)
  BY <1>1, <1>4 DEF Steady, StaysFrozen, StaysGuarded, Holding, Live
<1> QED
  BY <1>1, <1>2, <1>3, <1>5, <1>6, AccountAlone, Zenon
-----------------------------------------------------------------------------
(* process_sync_native *)
LEMMA NativeSynced ==
    ASSUME TokenInv, NEW a \in TokenKeys, SyncNative(a)
    PROVE  Kept
<1>1. /\ Live(a) /\ IsNative(a) /\ lamports[a] - is_native[a] >= amount[a]
      /\ amount' = [amount EXCEPT ![a] = lamports[a] - is_native[a]]
      /\ UNCHANGED <<state, mint, owner, delegate, delegated_amount, is_native, close_authority, extensions,
                     withheld_amount, lock_cpi, approved, spent, lamports, slots>>
      /\ MintsSame
  BY Zenon DEF SyncNative, extVars, mintVars, chainVars, history, MintsSame
<1>2. lamports[a] \in Nat /\ is_native[a] \in Nat /\ amount[a] \in Nat
  BY <1>1, TypeFacts, Carried, Zenon DEF IsNative
<1>3. amount'[a] = lamports[a] - is_native[a] /\ amount'[a] \in Nat
  BY <1>1, <1>2, TypeFacts
<1>4. AccountTypes'
  BY <1>1, <1>2, <1>3, TypeFacts, Zenon DEF AccountTypes
<1>5. \A b \in TokenKeys \ {a} : Same(b) /\ lamports'[b] >= lamports[b]
  BY <1>1, TypeFacts, FundsKept, Zenon DEF Same
<1>6. state[a] = "initialized" /\ mint[a] = NativeMint
  BY <1>1, AccountFacts, Zenon DEF Backed
<1>7. Derived(a)' /\ Allowed(a)' /\ Backed(a)'
  BY <1>1, <1>2, <1>3, AccountFacts DEF Derived, Allowed, Backed, Live, IsNative
<1>8. Steady(a) /\ \A m \in MintKeys \ {NativeMint} : Holding(m, a)' = Holding(m, a)
  BY <1>1, <1>3, <1>6, Zenon DEF Steady, StaysFrozen, StaysGuarded, Holding, Live
<1> QED
  BY <1>1, <1>4, <1>5, <1>7, <1>8, AccountAlone, Zenon

(* Nothing is left of an account that is deleted.  Of the others, only     *)
(* the balances may change.                                                *)
Untouched(b) ==
    /\ state'[b] = state[b] /\ mint'[b] = mint[b] /\ owner'[b] = owner[b]
    /\ delegate'[b] = delegate[b] /\ delegated_amount'[b] = delegated_amount[b]
    /\ close_authority'[b] = close_authority[b] /\ lock_cpi'[b] = lock_cpi[b]
    /\ is_native'[b] = is_native[b] /\ extensions'[b] = extensions[b]
    /\ approved'[b] = approved[b] /\ spent'[b] = spent[b]

(* An account that is erased is no account any more, and no other is touched. *)
LEMMA ErasedAccount ==
    ASSUME TokenInv, NEW a \in TokenKeys, Erase(a)
    PROVE  /\ DOMAIN state' = TokenKeys /\ DOMAIN mint' = TokenKeys /\ DOMAIN owner' = TokenKeys
           /\ DOMAIN delegate' = TokenKeys /\ DOMAIN close_authority' = TokenKeys
           /\ DOMAIN lock_cpi' = TokenKeys /\ delegated_amount' \in [TokenKeys -> Nat]
           /\ approved' \in [TokenKeys -> Nat] /\ spent' \in [TokenKeys -> Nat]
           /\ is_native' \in [TokenKeys -> Nat \cup {-1}]
           /\ extensions' \in [TokenKeys -> SUBSET AccountExtension] /\ slots' \in [Keys -> Nat]
           /\ Derived(a)' /\ Allowed(a)' /\ Backed(a)' /\ Steady(a) /\ ~Live(a)'
           /\ \A b \in TokenKeys \ {a} : Untouched(b)
<1>1. /\ state' = [state EXCEPT ![a] = "none"] /\ mint' = [mint EXCEPT ![a] = None]
      /\ owner' = [owner EXCEPT ![a] = None] /\ delegate' = [delegate EXCEPT ![a] = None]
      /\ delegated_amount' = [delegated_amount EXCEPT ![a] = 0]
      /\ is_native' = [is_native EXCEPT ![a] = -1]
      /\ close_authority' = [close_authority EXCEPT ![a] = None]
      /\ extensions' = [extensions EXCEPT ![a] = {}] /\ lock_cpi' = [lock_cpi EXCEPT ![a] = FALSE]
      /\ slots' = [slots EXCEPT ![a] = 0]
      /\ approved' = [approved EXCEPT ![a] = 0] /\ spent' = [spent EXCEPT ![a] = 0]
  BY Zenon DEF Erase
<1>2. /\ DOMAIN state' = TokenKeys /\ DOMAIN mint' = TokenKeys /\ DOMAIN owner' = TokenKeys
      /\ DOMAIN delegate' = TokenKeys /\ DOMAIN close_authority' = TokenKeys
      /\ DOMAIN lock_cpi' = TokenKeys /\ delegated_amount' \in [TokenKeys -> Nat]
      /\ approved' \in [TokenKeys -> Nat] /\ spent' \in [TokenKeys -> Nat]
      /\ is_native' \in [TokenKeys -> Nat \cup {-1}]
      /\ extensions' \in [TokenKeys -> SUBSET AccountExtension] /\ slots' \in [Keys -> Nat]
  BY <1>1, TypeFacts, Carried, Zenon
<1>3. \A b \in TokenKeys \ {a} : Untouched(b)
  BY <1>1, TypeFacts, Zenon DEF Untouched
<1>4. state'[a] = "none" /\ delegate'[a] = None /\ approved'[a] = 0 /\ spent'[a] = 0
  BY <1>1, TypeFacts, Zenon
<1>5. Derived(a)' /\ Allowed(a)' /\ Backed(a)' /\ Steady(a) /\ ~Live(a)'
  BY <1>4 DEF Derived, Allowed, Backed, Steady, StaysFrozen, StaysGuarded, Live
<1> QED
  BY <1>2, <1>3, <1>5, Zenon

(* The lamports of an account that is closed go to another. *)
LEMMA LamportsSent ==
    ASSUME TokenInv, NEW k \in Keys, NEW d, SendAllLamports(k, d)
    PROVE  lamports' \in [Keys -> Nat] /\ \A b \in Keys \ {k} : lamports'[b] >= lamports[b]
BY TypeFacts DEF SendAllLamports

(* process_close_account: it holds nothing, or only wrapped lamports. *)
LEMMA ClosedAccount ==
    ASSUME TokenInv, NEW a \in TokenKeys, NEW d, NEW who, NEW signers, CloseAccount(a, d, who, signers)
    PROVE  Kept
<1>1. /\ Live(a) /\ (IsNative(a) \/ amount[a] = 0) /\ withheld_amount[a] = 0
      /\ SendAllLamports(a, d) /\ Erase(a)
      /\ amount' = [amount EXCEPT ![a] = 0] /\ withheld_amount' = [withheld_amount EXCEPT ![a] = 0]
      /\ MintsSame
  BY Zenon DEF CloseAccount, DeleteAccount, mintVars, MintsSame
<1>2. lamports' \in [Keys -> Nat] /\ \A b \in TokenKeys \ {a} : lamports'[b] >= lamports[b]
  BY <1>1, LamportsSent, Carried, Zenon
<1>3. AccountTypes'
  BY <1>1, <1>2, ErasedAccount, TypeFacts, Zenon DEF AccountTypes
<1>4. \A b \in TokenKeys \ {a} : amount'[b] = amount[b] /\ withheld_amount'[b] = withheld_amount[b]
  BY <1>1, TypeFacts, Zenon
<1>5. \A b \in TokenKeys \ {a} : Same(b)
  <2>1. \A b \in TokenKeys \ {a} : Untouched(b)
    BY <1>1, ErasedAccount, Zenon
  <2> QED
    BY <1>4, <2>1, Zenon DEF Same, Untouched
<1>6. \A m \in MintKeys \ {NativeMint} : Holding(m, a)' = Holding(m, a)
  BY <1>1, ErasedAccount, AccountFacts DEF Holding, Backed
<1> QED
  BY <1>1, <1>2, <1>3, <1>5, <1>6, ErasedAccount, AccountAlone, Zenon
-----------------------------------------------------------------------------
(* The authorities tokens leave an account by. *)
Takes(a, known, x, who, signers) ==
    \/ owner[a] = Incinerator /\ KeepAllowance
    \/ ByPermanentDelegate(a, known, who, signers) /\ KeepAllowance
    \/ ByDelegate(a, known, x, who, signers) /\ SpendAllowance(a, x)
    \/ ByOwner(a, known, who, signers) /\ KeepAllowance

(* An allowance is spent only as far as it goes. *)
LEMMA AllowanceSpent ==
    ASSUME TokenInv, NEW a \in TokenKeys, NEW x \in Amounts, NEW known, NEW who \in Owners, NEW signers,
           Takes(a, known, x, who, signers), approved' = approved
    PROVE  /\ DOMAIN delegate' = TokenKeys
           /\ delegated_amount' \in [TokenKeys -> Nat] /\ spent' \in [TokenKeys -> Nat]
           /\ Allowed(a)' /\ delegate'[a] \in {delegate[a], None}
           /\ \/ lock_cpi[a] /\ in_cpi =>
                     \/ "PermanentDelegate" \in mint_extensions[mint[a]]
                     \/ owner[a] = Incinerator
              \/ delegate[a] # None /\ delegated_amount'[a] = delegated_amount[a] - x
           /\ \A b \in TokenKeys \ {a} : /\ delegate'[b] = delegate[b] /\ spent'[b] = spent[b]
                                        /\ delegated_amount'[b] = delegated_amount[b]
<1>1. CASE ByDelegate(a, known, x, who, signers) /\ SpendAllowance(a, x)
  <2>1. /\ delegate[a] = who /\ delegated_amount[a] >= x
        /\ delegated_amount' = [delegated_amount EXCEPT ![a] = @ - x]
        /\ delegate' = [delegate EXCEPT ![a] = IF delegated_amount[a] = x THEN None ELSE @]
        /\ spent' = [spent EXCEPT ![a] = @ + x]
    BY <1>1, Zenon DEF ByDelegate, SpendAllowance
  <2>2. x \in Nat /\ delegated_amount[a] \in Nat /\ spent[a] \in Nat /\ approved[a] \in Nat /\ who # None
    BY TypeFacts, Carried, Zenon
  <2>3. /\ DOMAIN delegate' = TokenKeys
        /\ delegated_amount' \in [TokenKeys -> Nat] /\ spent' \in [TokenKeys -> Nat]
        /\ \A b \in TokenKeys \ {a} : /\ delegate'[b] = delegate[b] /\ spent'[b] = spent[b]
                                      /\ delegated_amount'[b] = delegated_amount[b]
    BY <2>1, <2>2, TypeFacts
  <2>4. /\ delegated_amount'[a] = delegated_amount[a] - x /\ spent'[a] = spent[a] + x
        /\ delegate'[a] \in {delegate[a], None}
    BY <2>1, TypeFacts, Zenon
  <2>5. Allowed(a)'
    BY <2>1, <2>2, <2>4, AccountFacts DEF Allowed
  <2> QED
    BY <2>1, <2>2, <2>3, <2>4, <2>5, Zenon
<1>2. CASE KeepAllowance
  <2>1. UNCHANGED <<delegate, delegated_amount, spent>>
    BY <1>2, Zenon DEF KeepAllowance
  <2>2. Allowed(a)'
    BY <2>1, AccountFacts, Zenon DEF Allowed
  <2>3. \/ ByDelegate(a, known, x, who, signers) /\ SpendAllowance(a, x)
        \/ lock_cpi[a] /\ in_cpi =>
               \/ "PermanentDelegate" \in mint_extensions[mint[a]]
               \/ owner[a] = Incinerator
    BY Zenon DEF Takes, ByPermanentDelegate, IsPermanentDelegate, ByOwner
  <2>4. CASE ByDelegate(a, known, x, who, signers) /\ SpendAllowance(a, x)
    BY <1>1, <2>4, Zenon
  <2>5. CASE ~(ByDelegate(a, known, x, who, signers) /\ SpendAllowance(a, x))
    BY <2>1, <2>2, <2>3, <2>5, TypeFacts, Zenon
  <2> QED
    BY <2>4, <2>5, Zenon
<1> QED
  BY <1>1, <1>2, Zenon DEF Takes

(* An account tokens are taken from stays what it is otherwise. *)
LEMMA TakenFrom ==
    ASSUME TokenInv, NEW a \in TokenKeys, NEW x \in Amounts, NEW known, NEW who \in Owners, NEW signers,
           Takes(a, known, x, who, signers), approved' = approved, state[a] = "initialized",
           amount[a] >= x, amount'[a] = amount[a] - x,
           UNCHANGED <<state, mint, owner, is_native, close_authority, extensions, lock_cpi>>
    PROVE  Derived(a)' /\ Allowed(a)' /\ Steady(a) /\ (~IsNative(a) => Backed(a)')
<1>1. x \in Nat /\ amount[a] \in Nat /\ delegated_amount[a] \in Nat
  BY TypeFacts, Carried, Zenon
<1>2. Derived(a)' /\ (~IsNative(a) => Backed(a)')
  BY AccountFacts, Zenon DEF Derived, Backed, Live, IsNative
<1>3. /\ Allowed(a)' /\ delegate'[a] \in {delegate[a], None}
      /\ \/ lock_cpi[a] /\ in_cpi =>
                \/ "PermanentDelegate" \in mint_extensions[mint[a]]
                \/ owner[a] = Incinerator
         \/ delegate[a] # None /\ delegated_amount'[a] = delegated_amount[a] - x
  BY AllowanceSpent, Zenon
<1>4. delegate[a] # None /\ delegated_amount'[a] = delegated_amount[a] - x =>
          amount[a] - amount'[a] = delegated_amount[a] - delegated_amount'[a]
  BY <1>1
<1>5. StaysFrozen(a)
  BY Zenon DEF StaysFrozen
<1>6. StaysGuarded(a)
  BY <1>3, <1>4, Zenon DEF StaysGuarded
<1> QED
  BY <1>2, <1>3, <1>5, <1>6, Zenon DEF Steady

(* So does one that receives. *)
LEMMA GivenTo ==
    ASSUME TokenInv, NEW a \in TokenKeys, state[a] = "initialized", state'[a] = "initialized",
           amount'[a] \in Nat, amount'[a] >= amount[a],
           mint'[a] = mint[a], owner'[a] = owner[a], is_native'[a] = is_native[a],
           close_authority'[a] = close_authority[a], extensions'[a] = extensions[a], lock_cpi'[a] = lock_cpi[a],
           delegate'[a] = delegate[a], delegated_amount'[a] = delegated_amount[a],
           approved'[a] = approved[a], spent'[a] = spent[a]
    PROVE  Derived(a)' /\ Allowed(a)' /\ Steady(a) /\ (~IsNative(a) => Backed(a)')
<1>1. Derived(a)' /\ Allowed(a)' /\ (~IsNative(a) => Backed(a)')
  BY AccountFacts, Zenon DEF Derived, Allowed, Backed, Live, IsNative
<1>2. Steady(a)
  BY Zenon DEF Steady, StaysFrozen, StaysGuarded
<1> QED
  BY <1>1, <1>2, Zenon

(* process_mint_to: the supply grows by what the account gets. *)
LEMMA Minted ==
    ASSUME TokenInv, NEW a \in TokenKeys, NEW m \in MintKeys, NEW x \in Amounts, NEW who, NEW signers,
           MintTo(m, a, x, who, signers)
    PROVE  Kept
<1>1. /\ state[a] = "initialized" /\ ~IsNative(a) /\ mint[a] = m /\ LiveMint(m)
      /\ amount' = [amount EXCEPT ![a] = @ + x] /\ supply' = [supply EXCEPT ![m] = @ + x]
      /\ UNCHANGED <<state, mint, owner, delegate, delegated_amount, is_native, close_authority, extensions,
                     withheld_amount, lock_cpi, approved, spent, lamports, slots>>
      /\ UNCHANGED <<mint_state, mint_extensions, default_state, epoch, newer_fee, older_fee, mint_withheld>>
  BY Zenon DEF MintTo, extVars, feeVars, chainVars, history
<1>2. x \in Nat /\ amount[a] \in Nat /\ amount'[a] = amount[a] + x /\ withheld_amount[a] \in Nat
  BY <1>1, TypeFacts, Carried, Zenon
<1>3. AccountTypes'
  BY <1>1, <1>2, TypeFacts DEF AccountTypes
<1>4. \A b \in TokenKeys \ {a} : Same(b) /\ lamports'[b] >= lamports[b]
  BY <1>1, TypeFacts, FundsKept, Zenon DEF Same
<1>5. Derived(a)' /\ Allowed(a)' /\ Steady(a) /\ Backed(a)'
  BY <1>1, <1>2, GivenTo
<1>6. supply' \in [MintKeys -> Nat] /\ \A k \in MintKeys : supply'[k] = supply[k] + IF k = m THEN x ELSE 0
  BY <1>1, <1>2, MintFacts
<1>7. MintInv' /\ \A k \in MintKeys : FeeSettled(k)
  BY <1>1, <1>6, MintFacts, SameMints, Zenon
<1>8. \A k : Holding(k, a)' = Holding(k, a) + IF k = m THEN x ELSE 0
  BY <1>1, <1>2 DEF Holding, Live
<1>9. \A k \in MintKeys : supply[k] \in Nat /\ mint_withheld[k] \in Nat /\ Holding(k, a) \in Nat
  BY MintFacts, HoldingType, Zenon
<1>10. ASSUME NEW k \in MintKeys \ {NativeMint}
       PROVE  supply'[k] - mint_withheld'[k] - (supply[k] - mint_withheld[k]) = Holding(k, a)' - Holding(k, a)
  BY <1>1, <1>2, <1>6, <1>8, <1>9
<1> QED
  BY <1>3, <1>4, <1>5, <1>7, <1>10, OneAccount, Zenon DEF AccountInv

(* process_burn: it shrinks by what the account loses. *)
LEMMA Burned ==
    ASSUME TokenInv, NEW a \in TokenKeys, NEW x \in Amounts, NEW who \in Owners, NEW signers,
           Burn(a, x, who, signers)
    PROVE  Kept
<1>1. /\ state[a] = "initialized" /\ ~IsNative(a) /\ LiveMint(mint[a]) /\ amount[a] >= x
      /\ supply[mint[a]] >= x /\ Takes(a, TRUE, x, who, signers)
      /\ amount' = [amount EXCEPT ![a] = @ - x] /\ supply' = [supply EXCEPT ![mint[a]] = @ - x]
      /\ UNCHANGED <<state, mint, owner, is_native, close_authority, extensions,
                     withheld_amount, lock_cpi, approved, lamports, slots>>
      /\ UNCHANGED <<mint_state, mint_extensions, default_state, epoch, newer_fee, older_fee, mint_withheld>>
  BY Zenon DEF Burn, Takes, extVars, feeVars, chainVars
<1>2. x \in Nat /\ amount[a] \in Nat /\ amount'[a] = amount[a] - x /\ withheld_amount[a] \in Nat
  BY <1>1, TypeFacts, Carried, Zenon
<1>3. /\ DOMAIN delegate' = TokenKeys
      /\ delegated_amount' \in [TokenKeys -> Nat] /\ spent' \in [TokenKeys -> Nat]
      /\ \A b \in TokenKeys \ {a} : /\ delegate'[b] = delegate[b] /\ spent'[b] = spent[b]
                                    /\ delegated_amount'[b] = delegated_amount[b]
  BY <1>1, AllowanceSpent, Zenon
<1>4. AccountTypes'
  BY <1>1, <1>2, <1>3, TypeFacts DEF AccountTypes
<1>5. \A b \in TokenKeys \ {a} : Same(b) /\ lamports'[b] >= lamports[b]
  BY <1>1, <1>3, TypeFacts, FundsKept, Zenon DEF Same
<1>6. Derived(a)' /\ Allowed(a)' /\ Steady(a) /\ Backed(a)'
  BY <1>1, <1>2, TakenFrom, Zenon
<1>7. mint[a] \in MintKeys /\ supply[mint[a]] >= x /\ supply' = [supply EXCEPT ![mint[a]] = @ - x]
  BY <1>1, AccountFacts, Zenon DEF Backed, Live
<1>8. supply \in [MintKeys -> Nat] /\ x \in Nat
  BY <1>2, MintFacts, Zenon
<1>9. /\ supply' \in [MintKeys -> Nat] /\ supply'[mint[a]] = supply[mint[a]] - x
      /\ \A k \in MintKeys \ {mint[a]} : supply'[k] = supply[k]
  BY <1>7, <1>8
<1>10. MintInv' /\ \A k \in MintKeys : FeeSettled(k)
  BY <1>1, <1>9, MintFacts, SameMints, Zenon
<1>11. /\ state[a] = "initialized" /\ state' = state /\ mint' = mint
        /\ withheld_amount' = withheld_amount
  BY <1>1, Zenon
<1>12. \A k : Holding(k, a)' = Holding(k, a) - IF k = mint[a] THEN x ELSE 0
  BY <1>2, <1>11 DEF Holding, Live
<1>13. \A k \in MintKeys : supply[k] \in Nat /\ mint_withheld[k] \in Nat /\ Holding(k, a) \in Nat
  BY MintFacts, HoldingType, Zenon
<1>14. ASSUME NEW k \in MintKeys \ {NativeMint}
       PROVE  supply'[k] - mint_withheld'[k] - (supply[k] - mint_withheld[k]) = Holding(k, a)' - Holding(k, a)
  <2>1. mint_withheld' = mint_withheld
    BY <1>1, Zenon
  <2>2. supply[k] \in Nat /\ mint_withheld[k] \in Nat /\ Holding(k, a) \in Nat
    BY <1>13, Zenon
  <2>3. CASE k = mint[a]
    BY <1>2, <1>9, <1>12, <2>1, <2>2, <2>3
  <2>4. CASE k # mint[a]
    BY <1>9, <1>12, <2>1, <2>2, <2>4
  <2> QED
    BY <2>3, <2>4, Zenon
<1> QED
  BY <1>4, <1>5, <1>6, <1>10, <1>14, OneAccount, Zenon DEF AccountInv
-----------------------------------------------------------------------------
(* What a native account loses in lamports it loses in tokens. *)
LEMMA NativeMoved ==
    ASSUME TokenInv, NEW a \in TokenKeys, Live(a), IsNative(a), NEW x \in Int,
           amount'[a] = amount[a] + x, lamports'[a] = lamports[a] + x,
           state'[a] = state[a], mint'[a] = mint[a], is_native'[a] = is_native[a]
    PROVE  Backed(a)'
<1>1. lamports[a] \in Nat /\ amount[a] \in Nat /\ is_native[a] \in Nat
  BY TypeFacts, Carried, Zenon DEF IsNative
<1>2. /\ mint[a] \in MintKeys /\ mint[a] = NativeMint /\ state[a] = "initialized"
      /\ lamports[a] >= is_native[a] + amount[a]
  BY AccountFacts, Zenon DEF Backed
<1>3. lamports'[a] >= is_native[a] + amount'[a]
  BY <1>1, <1>2
<1> QED
  BY <1>2, <1>3, Zenon DEF Backed, IsNative

(* process_transfer: what leaves one account arrives in the other or is    *)
(* withheld there.                                                         *)
LEMMA Transferred ==
    ASSUME TokenInv, NEW s \in TokenKeys, NEW d \in TokenKeys, NEW x \in Amounts, NEW checked,
           NEW who \in Owners, NEW signers, NEW memo, Transfer(s, d, x, checked, who, signers, memo)
    PROVE  Kept
<1> DEFINE fee == TransferFeeOf(s, x, checked)
<1>1. /\ s # d /\ state[s] = "initialized" /\ state[d] = "initialized" /\ mint[d] = mint[s]
      /\ amount[s] >= x /\ Takes(s, checked, x, who, signers) /\ Move(s, d, x, fee)
      /\ UNCHANGED <<state, mint, owner, is_native, close_authority, extensions, lock_cpi, slots, approved>>
      /\ MintsSame
  BY Zenon DEF Transfer, Sends, Receives, Takes, mintVars, MintsSame
<1>2. mint[s] = NativeMint => fee = 0
  <2>1. Live(s)
    BY <1>1, Zenon DEF Live
  <2>2. mint[s] \in MintKeys
    BY <2>1, AccountFacts, Zenon DEF Backed
  <2> QED
    BY <2>2, MintFacts, Zenon DEF TransferFeeOf, EpochFee
<1> HIDE DEF fee
<1>3. /\ fee \in 0 .. x /\ amount' = [amount EXCEPT ![s] = @ - x, ![d] = @ + x - fee]
      /\ withheld_amount' = [withheld_amount EXCEPT ![d] = @ + fee]
      /\ IF IsNative(s) THEN lamports[s] >= x /\ lamports' = [lamports EXCEPT ![s] = @ - x, ![d] = @ + x]
         ELSE UNCHANGED lamports
  BY <1>1, Zenon DEF Move, MoveLamports
<1>4. /\ x \in Nat /\ fee \in Nat /\ fee <= x /\ s \in Keys /\ d \in Keys
      /\ amount[s] \in Nat /\ amount[d] \in Nat /\ withheld_amount[s] \in Nat /\ withheld_amount[d] \in Nat
      /\ lamports[s] \in Nat /\ lamports[d] \in Nat
  BY <1>3, TypeFacts, Carried
<1>5. /\ s # d /\ amount[s] >= x /\ amount \in [TokenKeys -> Nat]
       /\ withheld_amount \in [TokenKeys -> Nat] /\ lamports \in [Keys -> Nat] /\ TokenKeys \subseteq Keys
  BY <1>1, TypeFacts, Carried, Zenon
<1>6. /\ amount'[s] = amount[s] - x /\ amount'[d] = amount[d] + x - fee
      /\ \A b \in TokenKeys \ {s, d} : amount'[b] = amount[b]
      /\ amount' \in [TokenKeys -> Nat]
  BY <1>3, <1>4, <1>5
<1>7. /\ withheld_amount'[d] = withheld_amount[d] + fee
      /\ \A b \in TokenKeys \ {d} : withheld_amount'[b] = withheld_amount[b]
      /\ withheld_amount' \in [TokenKeys -> Nat]
  BY <1>3, <1>4, <1>5
<1>8. /\ IsNative(s) => lamports'[s] = lamports[s] - x /\ lamports'[d] = lamports[d] + x
      /\ \A b \in TokenKeys \ {s, d} : lamports'[b] = lamports[b]
      /\ lamports' \in [Keys -> Nat]
  BY <1>3, <1>4, <1>5
<1>9. /\ DOMAIN delegate' = TokenKeys
      /\ delegated_amount' \in [TokenKeys -> Nat] /\ spent' \in [TokenKeys -> Nat]
      /\ \A b \in TokenKeys \ {s} : /\ delegate'[b] = delegate[b] /\ spent'[b] = spent[b]
                                    /\ delegated_amount'[b] = delegated_amount[b]
  BY <1>1, AllowanceSpent, Zenon
<1>10. AccountTypes'
  BY <1>1, <1>6, <1>7, <1>8, <1>9, TypeFacts, Zenon DEF AccountTypes
<1>11. \A b \in TokenKeys \ {s, d} : Same(b) /\ lamports'[b] >= lamports[b]
  BY <1>1, <1>6, <1>7, <1>8, <1>9, TypeFacts, Carried DEF Same
<1>12. Derived(s)' /\ Allowed(s)' /\ Steady(s) /\ (~IsNative(s) => Backed(s)')
  BY <1>1, <1>6, TakenFrom, Zenon
<1>13. amount'[d] \in Nat /\ amount'[d] >= amount[d]
  BY <1>4, <1>6
<1>14. Derived(d)' /\ Allowed(d)' /\ Steady(d) /\ (~IsNative(d) => Backed(d)')
  BY <1>1, <1>9, <1>13, GivenTo, Zenon
<1>15. Live(s) /\ Live(d) /\ (IsNative(s) <=> mint[s] = NativeMint) /\ (IsNative(d) <=> IsNative(s))
  BY <1>1, AccountFacts, Zenon DEF Backed, Live
<1>16. IsNative(s) => Backed(s)' /\ Backed(d)'
  <2>1. -x \in Int /\ x \in Int /\ amount[s] - x = amount[s] + (-x) /\ lamports[s] - x = lamports[s] + (-x)
    BY <1>4
  <2>2. IsNative(s) => amount[d] + x - fee = amount[d] + x
    BY <1>2, <1>4, <1>15
  <2>3. IsNative(s) => Backed(s)'
    BY <1>1, <1>6, <1>8, <1>15, <2>1, NativeMoved, Zenon
  <2>4. IsNative(s) => Backed(d)'
    BY <1>1, <1>6, <1>8, <1>15, <2>1, <2>2, NativeMoved, Zenon
  <2> QED
    BY <2>3, <2>4, Zenon
<1>17. \A m : Holding(m, s)' + Holding(m, d)' = Holding(m, s) + Holding(m, d)
  BY <1>1, <1>4, <1>6, <1>7 DEF Holding, Live
<1>18. MintInv' /\ (\A m \in MintKeys : FeeSettled(m)) /\ UNCHANGED <<supply, mint_withheld>>
  BY <1>1, MintFacts, SameMints, Zenon DEF MintsSame
<1>19. AccountInv(s)' /\ AccountInv(d)'
  BY <1>12, <1>14, <1>15, <1>16, Zenon DEF AccountInv
<1> QED
  BY <1>1, <1>10, <1>11, <1>12, <1>14, <1>17, <1>18, <1>19, TwoAccounts, Zenon

(* process_recover_nested: the nested account is emptied and closed. *)
LEMMA Recovered ==
    ASSUME TokenInv, NEW a \in TokenKeys, NEW d \in TokenKeys, NEW owner_ata \in TokenKeys, NEW wallet,
           NEW signers, RecoverNested(a, d, owner_ata, wallet, signers)
    PROVE  Kept
<1> DEFINE x == amount[a]
           fee == EpochFee(mint[a], x)
<1>1. /\ AtaWallet[owner_ata] = wallet /\ AtaWallet[a] = owner_ata /\ AtaWallet[d] = wallet
      /\ state[a] = "initialized" /\ state[d] = "initialized" /\ mint[d] = mint[a]
      /\ withheld_amount[a] = 0 /\ fee \in 0 .. x
      /\ amount' = [amount EXCEPT ![a] = 0, ![d] = @ + x - fee]
      /\ withheld_amount' = [withheld_amount EXCEPT ![d] = @ + fee]
      /\ lamports' = [lamports EXCEPT ![a] = 0, ![d] = IF IsNative(a) THEN @ + x ELSE @]
      /\ Erase(a) /\ MintsSame
  BY Zenon DEF RecoverNested, get_associated_token_address, Sends, Receives, mintVars, MintsSame
<1>2. a # d
  BY <1>1, AtaAssumption, Zenon
<1>3. mint[a] = NativeMint => fee = 0
  <2>1. Live(a)
    BY <1>1, Zenon DEF Live
  <2>2. mint[a] \in MintKeys
    BY <2>1, AccountFacts, Zenon DEF Backed
  <2> QED
    BY <2>2, MintFacts, Zenon DEF EpochFee
<1> HIDE DEF fee
<1>4. /\ x \in Nat /\ fee \in Nat /\ fee <= x /\ a \in Keys /\ d \in Keys
      /\ amount[d] \in Nat /\ withheld_amount[d] \in Nat /\ lamports[d] \in Nat
  BY <1>1, TypeFacts, Carried
<1>5. /\ amount \in [TokenKeys -> Nat] /\ withheld_amount \in [TokenKeys -> Nat]
       /\ lamports \in [Keys -> Nat] /\ TokenKeys \subseteq Keys
  BY TypeFacts, Carried, Zenon
<1>6. /\ amount' = [amount EXCEPT ![a] = 0, ![d] = @ + x - fee]
       /\ withheld_amount' = [withheld_amount EXCEPT ![d] = @ + fee]
       /\ lamports' = [lamports EXCEPT ![a] = 0, ![d] = IF IsNative(a) THEN @ + x ELSE @]
       /\ Erase(a)
  BY <1>1, Zenon
<1>7. /\ amount'[a] = 0 /\ amount'[d] = amount[d] + x - fee
      /\ \A b \in TokenKeys \ {a, d} : amount'[b] = amount[b]
      /\ amount' \in [TokenKeys -> Nat]
  BY <1>2, <1>4, <1>5, <1>6
<1>8. /\ withheld_amount'[d] = withheld_amount[d] + fee
      /\ \A b \in TokenKeys \ {a, d} : withheld_amount'[b] = withheld_amount[b]
      /\ withheld_amount' \in [TokenKeys -> Nat]
  BY <1>4, <1>5, <1>6
<1>9. /\ lamports'[d] = IF IsNative(a) THEN lamports[d] + x ELSE lamports[d]
      /\ \A b \in TokenKeys \ {a, d} : lamports'[b] = lamports[b]
      /\ lamports' \in [Keys -> Nat]
  BY <1>2, <1>4, <1>5, <1>6
<1>10. AccountTypes'
  BY <1>7, <1>8, <1>9, <1>6, ErasedAccount, Zenon DEF AccountTypes
<1>11. Untouched(d) /\ \A b \in TokenKeys \ {a, d} : Untouched(b)
  BY <1>2, <1>6, ErasedAccount, Zenon
<1>12. \A b \in TokenKeys \ {a, d} : Same(b)
  BY <1>7, <1>8, <1>11 DEF Same, Untouched
<1>13. \A b \in TokenKeys \ {a, d} : lamports'[b] >= lamports[b]
  BY <1>9, <1>5
<1>14. AccountInv(a)' /\ Steady(a) /\ ~Live(a)'
  BY <1>6, ErasedAccount, Zenon DEF AccountInv
<1>15. /\ state'[d] = state[d] /\ mint'[d] = mint[d] /\ owner'[d] = owner[d]
       /\ delegate'[d] = delegate[d] /\ delegated_amount'[d] = delegated_amount[d]
       /\ close_authority'[d] = close_authority[d] /\ lock_cpi'[d] = lock_cpi[d]
       /\ is_native'[d] = is_native[d] /\ extensions'[d] = extensions[d]
       /\ approved'[d] = approved[d] /\ spent'[d] = spent[d]
  BY <1>11, Zenon DEF Untouched
<1>16. amount'[d] \in Nat /\ amount'[d] >= amount[d]
  BY <1>4, <1>7
<1>17. Derived(d)' /\ Allowed(d)' /\ Steady(d) /\ (~IsNative(d) => Backed(d)')
  BY <1>1, <1>15, <1>16, GivenTo, Zenon
<1>18. Live(a) /\ Live(d) /\ (IsNative(a) <=> mint[a] = NativeMint) /\ (IsNative(d) <=> IsNative(a))
  BY <1>1, AccountFacts, Zenon DEF Backed, Live
<1>19. IsNative(d) => Backed(d)'
  <2>1. x \in Int /\ (IsNative(d) => amount[d] + x - fee = amount[d] + x)
    BY <1>3, <1>4, <1>18
  <2> QED
    BY <1>7, <1>9, <1>15, <1>18, <2>1, NativeMoved, Zenon
<1>20. \A m : Holding(m, a)' + Holding(m, d)' = Holding(m, a) + Holding(m, d)
  <2>1. \A m : Holding(m, a)' = 0
    BY <1>14, Zenon DEF Holding
  <2>2. Live(d)' /\ mint[d] = mint[a] /\ withheld_amount[a] = 0
    BY <1>1, <1>15, Zenon DEF Live
  <2>3. \A m : Holding(m, a) = IF mint[a] = m THEN x ELSE 0
    BY <1>4, <1>18, <2>2 DEF Holding
  <2>4. \A m : Holding(m, d) = IF mint[a] = m THEN amount[d] + withheld_amount[d] ELSE 0
    BY <1>18, <2>2, Zenon DEF Holding
  <2>5. \A m : Holding(m, d)' = IF mint[a] = m THEN amount'[d] + withheld_amount'[d] ELSE 0
    BY <1>15, <2>2, Zenon DEF Holding
  <2>6. amount'[d] + withheld_amount'[d] = x + (amount[d] + withheld_amount[d])
    BY <1>4, <1>7, <1>8
  <2> QED
    BY <1>4, <2>1, <2>3, <2>4, <2>5, <2>6
<1>21. MintInv' /\ (\A m \in MintKeys : FeeSettled(m)) /\ UNCHANGED <<supply, mint_withheld>>
  BY <1>1, MintFacts, SameMints, Zenon DEF MintsSame
<1>22. AccountInv(d)'
  BY <1>17, <1>19, Zenon DEF AccountInv
<1> QED
  BY <1>2, <1>10, <1>12, <1>13, <1>14, <1>17, <1>20, <1>21, <1>22, TwoAccounts, Zenon
=============================================================================
