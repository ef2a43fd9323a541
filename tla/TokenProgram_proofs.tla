------------------------ MODULE TokenProgram_proofs ------------------------
(***************************************************************************)
(* The rest of the token program's instructions, those about mints, rent   *)
(* and withheld fees; that none of them makes or loses a token; and the    *)
(* theorems, for every number of accounts, mints, wallets and amounts.     *)
(***************************************************************************)
EXTENDS TokenInstructions_proofs, SumTheorems

(* The rent of a length that holds these extensions is a number. *)
LEMMA RentOfExtensions ==
    ASSUME NEW S \in SUBSET AccountExtension
    PROVE  Cardinality(S) \in Nat /\ MinimumBalance(Cardinality(S)) \in Nat
<1>1. IsFiniteSet({})
  BY FS_EmptySet, Zenon
<1>2. \A A, e : IsFiniteSet(A) => IsFiniteSet(A \cup {e})
  BY FS_AddElement, Zenon
<1> DEFINE A1 == {} \cup {"TransferFeeAmount"}
           A2 == A1 \cup {"ImmutableOwner"}
           A3 == A2 \cup {"MemoTransfer"}
           A4 == A3 \cup {"NonTransferableAccount"}
           A5 == A4 \cup {"TransferHookAccount"}
           A6 == A5 \cup {"CpiGuard"}
<1>3. IsFiniteSet(A6)
  BY <1>1, <1>2, Zenon
<1>4. A6 = AccountExtension
  BY Zenon DEF AccountExtension
<1>5. IsFiniteSet(S)
  BY <1>3, <1>4, FS_Subset
<1> QED
  BY <1>5, FS_CardinalityType DEF MinimumBalance

(* process_create_associated_token_account *)
LEMMA CreatedAssociated ==
    ASSUME TokenInv, NEW a \in TokenKeys, NEW wallet, NEW m \in MintKeys, Create(a, wallet, m)
    PROVE  Kept
<1> DEFINE n == get_account_len(m)
           l == IF lamports[a] < MinimumBalance(n) THEN MinimumBalance(n) ELSE lamports[a]
           types == get_required_init_account_extensions(m) \cup {"ImmutableOwner"}
<1>1. types \in SUBSET AccountExtension /\ "ImmutableOwner" \in types
  BY Zenon DEF get_required_init_account_extensions, AccountExtension
<1>2. n \in Nat /\ MinimumBalance(n) \in Nat
  BY <1>1, RentOfExtensions, Zenon DEF get_account_len
<1>3. /\ AtaWallet[a] = wallet /\ AtaMint[a] = m /\ state[a] = "none"
      /\ slots' = [slots EXCEPT ![a] = n] /\ lamports' = [lamports EXCEPT ![a] = l]
      /\ extensions' = [extensions EXCEPT ![a] = types]
      /\ InitializedBase(a, m, wallet, n, l) /\ MintsSame
  BY Zenon DEF Create, create_pda_account, get_associated_token_address, mintVars, MintsSame
<1> HIDE DEF n, types
<1>4. lamports[a] \in Nat /\ l \in Nat /\ l >= MinimumBalance(n)
  BY <1>2, TypeFacts, Carried
<1> HIDE DEF l
<1>5. /\ slots' \in [Keys -> Nat] /\ lamports' \in [Keys -> Nat] /\ lamports'[a] = l
      /\ extensions' \in [TokenKeys -> SUBSET AccountExtension] /\ extensions'[a] = types
      /\ \A b \in TokenKeys \ {a} : lamports'[b] = lamports[b] /\ extensions'[b] = extensions[b]
  BY <1>1, <1>2, <1>3, <1>4, TypeFacts, Carried, Zenon
<1>6. ~Live(a)
  BY <1>3, Zenon DEF Live
<1> QED
  BY <1>1, <1>2, <1>3, <1>4, <1>5, <1>6, OpenedAccount, Zenon

(* process_reallocate: the reserve becomes the new rent. *)
LEMMA Reallocated ==
    ASSUME TokenInv, NEW a \in TokenKeys, NEW types \in SUBSET AccountExtension, NEW who, NEW signers,
           Reallocate(a, types, who, signers)
    PROVE  Kept
<1> DEFINE needed == Cardinality(extensions[a] \cup types)
           rent == MinimumBalance(needed)
           held == IF IsNative(a) THEN amount[a] ELSE 0
           short == rent - (lamports[a] - held)
<1>1. needed \in Nat /\ rent \in Nat
  BY TypeFacts, RentOfExtensions, Zenon
<1>2. /\ Live(a) /\ lamports[a] >= held /\ slots' = [slots EXCEPT ![a] = needed]
      /\ lamports' = [lamports EXCEPT ![a] = IF short > 0 THEN @ + short ELSE @]
      /\ is_native' = [is_native EXCEPT ![a] = IF IsNative(a) THEN rent ELSE @]
      /\ UNCHANGED <<state, mint, owner, amount, delegate, delegated_amount, close_authority, extensions,
                     withheld_amount, lock_cpi, approved, spent>>
      /\ MintsSame
  BY Zenon DEF Reallocate, extVars, mintVars, history, MintsSame
<1> HIDE DEF needed, rent
<1>3. lamports[a] \in Nat /\ amount[a] \in Nat /\ a \in Keys
  BY TypeFacts, Carried, Zenon
<1>4. IF short > 0 THEN lamports[a] + short \in Nat ELSE TRUE
  BY <1>1, <1>3
<1>5. /\ lamports'[a] \in Nat /\ lamports' \in [Keys -> Nat] /\ slots' \in [Keys -> Nat]
      /\ is_native' \in [TokenKeys -> Nat \cup {-1}]
  BY <1>1, <1>2, <1>3, <1>4, TypeFacts, Zenon
<1>6. IsNative(a) => is_native'[a] = rent /\ lamports'[a] >= rent + amount[a]
  BY <1>1, <1>2, <1>3, TypeFacts
<1>7. IsNative(a)' <=> IsNative(a)
  BY <1>1, <1>2, TypeFacts DEF IsNative
<1>8. AccountTypes'
  BY <1>2, <1>5, TypeFacts, Zenon DEF AccountTypes
<1>9. \A b \in TokenKeys \ {a} : Same(b) /\ lamports'[b] >= lamports[b]
  BY <1>2, TypeFacts, Carried DEF Same
<1>10. Derived(a)' /\ Allowed(a)'
  BY <1>2, AccountFacts, Zenon DEF Derived, Allowed, Live
<1>11. Backed(a)'
  BY <1>2, <1>6, <1>7, AccountFacts, Zenon DEF Backed, Live
<1>12. Steady(a) /\ \A m : Holding(m, a)' = Holding(m, a)
  BY <1>2, <1>3 DEF Steady, StaysFrozen, StaysGuarded, Holding, Live
<1> QED
  BY <1>2, <1>8, <1>9, <1>10, <1>11, <1>12, AccountAlone, Zenon
-----------------------------------------------------------------------------
(* Instructions that touch no token account, save for its lamports. *)
AccountsSame ==
    UNCHANGED <<state, mint, owner, amount, delegate, delegated_amount, is_native, close_authority,
                extensions, withheld_amount, lock_cpi, approved, spent>>

(* What mint m may become without its tokens: a fee is replaced only while *)
(* there is no mint to pay it to.                                          *)
Renewed(m) ==
    /\ mint_state'[m] # "initialized" => supply[m] = 0
    /\ \/ newer_fee'[m] = newer_fee[m] /\ older_fee'[m] = older_fee[m]
       \/ ~LiveMint(m)
       \/ ~LiveMint(m)'
    /\ mint_withheld'[m] = mint_withheld[m] \/ (supply[m] = 0 /\ mint_withheld'[m] = 0)

(* An instruction that changes mints alone keeps everything that is proved here
   if it changes no supply and no fee in force. *)
LEMMA MintsAlone ==
    ASSUME TokenInv, AccountsSame, UNCHANGED <<supply, epoch>>,
           lamports' \in [Keys -> Nat], slots' \in [Keys -> Nat],
           \A b \in TokenKeys : Live(b) /\ IsNative(b) => lamports'[b] >= lamports[b],
           DOMAIN mint_state' = MintKeys, DOMAIN mint_extensions' = MintKeys, DOMAIN older_fee' = MintKeys,
           mint_withheld' \in [MintKeys -> Nat], newer_fee' \in [MintKeys -> TransferFee],
           default_state' \in [MintKeys -> {"initialized", "frozen"}],
           NativeMint \in MintKeys => mint_state'[NativeMint] # "uninitialized" /\ mint_extensions'[NativeMint] = {},
           \A m \in MintKeys : Renewed(m)
    PROVE  Kept
<1>1. MintInv'
  BY MintFacts, Zenon DEF MintInv, Renewed
<1>2. \A m \in MintKeys : FeeSettled(m)
  BY Zenon DEF FeeSettled, get_epoch_fee, Renewed
<1>3. \A m \in MintKeys \ {NativeMint} :
          /\ supply'[m] = supply[m]
          /\ mint_withheld'[m] = mint_withheld[m] \/ (supply[m] = 0 /\ mint_withheld'[m] = 0)
  BY Zenon DEF Renewed
<1> QED
  BY <1>1, <1>2, <1>3, NoAccount, Zenon DEF AccountsSame

(* Instructions that change nothing the invariant speaks of. *)
LEMMA NothingChanged ==
    ASSUME TokenInv, AccountsSame, MintsSame, UNCHANGED <<lamports, slots>>
    PROVE  Kept
<1>1. \A b \in TokenKeys : lamports[b] >= lamports[b]
  BY FundsKept, Zenon
<1>2. \A m \in MintKeys : Renewed(m)
  BY MintFacts, Zenon DEF Renewed, MintsSame
<1> QED
  BY <1>1, <1>2, TypeFacts, MintFacts, MintsAlone, Zenon DEF MintsSame

(* Lamports that come from outside do no harm. *)
LEMMA Funded ==
    ASSUME TokenInv, NEW k \in Keys, NEW l \in Funds, Fund(k, l)
    PROVE  Kept
<1>1. /\ lamports' = [lamports EXCEPT ![k] = @ + l] /\ UNCHANGED slots /\ AccountsSame /\ MintsSame
  BY Zenon DEF Fund, baseVars, extVars, mintVars, history, AccountsSame, MintsSame
<1>2. l \in Nat
  BY Carried, Zenon
<1>3. lamports' \in [Keys -> Nat] /\ \A b \in Keys : lamports'[b] >= lamports[b]
  BY <1>1, <1>2, TypeFacts
<1>4. \A m \in MintKeys : Renewed(m)
  BY <1>1, MintFacts, Zenon DEF Renewed, MintsSame
<1> QED
  BY <1>1, <1>3, <1>4, TypeFacts, MintFacts, Carried, MintsAlone, Zenon DEF MintsSame

(* An account that is created for a mint is empty. *)
LEMMA CreatedMintAccount ==
    ASSUME TokenInv, NEW m \in MintKeys, NEW n \in 0 .. MaxSlots, NEW l \in Funds, CreateMintAccount(m, n, l)
    PROVE  Kept
<1>1. /\ mint_state[m] = "none" /\ m # NativeMint
      /\ mint_state' = [mint_state EXCEPT ![m] = "uninitialized"]
      /\ slots' = [slots EXCEPT ![m] = n] /\ lamports' = [lamports EXCEPT ![m] = @ + l]
      /\ AccountsSame
      /\ UNCHANGED <<supply, mint_extensions, mint_withheld, older_fee, newer_fee, default_state, epoch>>
  BY Zenon DEF CreateMintAccount, baseVars, extVars, feeVars, history, AccountsSame
<1>2. n \in Nat /\ l \in Nat /\ m \in Keys
  BY Carried, Zenon
<1>3. /\ lamports' \in [Keys -> Nat] /\ slots' \in [Keys -> Nat]
      /\ \A b \in TokenKeys : lamports'[b] >= lamports[b]
  BY <1>1, <1>2, TypeFacts, Carried
<1>4. \A k \in MintKeys : Renewed(k)
  BY <1>1, MintFacts, Zenon DEF Renewed
<1> QED
  BY <1>1, <1>3, <1>4, TypeFacts, MintFacts, MintsAlone, Zenon

(* The instructions that prepare a mint are for one that is raw, so not    *)
(* the native one.                                                         *)
LEMMA PreparedMint ==
    ASSUME TokenInv, NEW m \in MintKeys, mint_state[m] = "uninitialized", AccountsSame,
           UNCHANGED <<supply, epoch, lamports, slots>>,
           DOMAIN mint_state' = MintKeys, DOMAIN mint_extensions' = MintKeys, DOMAIN older_fee' = MintKeys,
           mint_withheld' \in [MintKeys -> Nat], newer_fee' \in [MintKeys -> TransferFee],
           default_state' \in [MintKeys -> {"initialized", "frozen"}],
           mint_withheld'[m] \in {0, mint_withheld[m]},
           \A k \in MintKeys \ {m} :
               /\ mint_state'[k] = mint_state[k] /\ mint_extensions'[k] = mint_extensions[k]
               /\ newer_fee'[k] = newer_fee[k] /\ older_fee'[k] = older_fee[k]
               /\ mint_withheld'[k] = mint_withheld[k]
    PROVE  Kept
<1>1. m # NativeMint /\ ~LiveMint(m) /\ supply[m] = 0
  BY MintFacts, Zenon DEF LiveMint
<1>2. \A k \in MintKeys : Renewed(k)
  BY <1>1, MintFacts, Zenon DEF Renewed
<1>3. NativeMint \in MintKeys => mint_state'[NativeMint] # "uninitialized" /\ mint_extensions'[NativeMint] = {}
  BY <1>1, MintFacts, Zenon
<1>4. \A b \in TokenKeys : lamports'[b] >= lamports[b]
  BY FundsKept, Zenon
<1> QED
  BY <1>2, <1>3, <1>4, TypeFacts, MintsAlone, Zenon

(* What the instructions that add an extension have in common. *)
LEMMA AddedExtension ==
    ASSUME TokenInv, NEW m \in MintKeys, NEW type, InitExtension(m, type)
    PROVE  /\ mint_state[m] = "uninitialized" /\ AccountsSame
           /\ UNCHANGED <<supply, epoch, lamports, slots, mint_state>>
           /\ DOMAIN mint_extensions' = MintKeys
           /\ \A k \in MintKeys \ {m} : mint_extensions'[k] = mint_extensions[k]
BY MintFacts, Zenon DEF InitExtension, baseVars, extVars, chainVars, history, AccountsSame

(* An extension is added only before the mint is initialized. *)
LEMMA ExtendedMint ==
    ASSUME TokenInv, NEW m \in MintKeys, NEW type, InitExtension(m, type),
           UNCHANGED feeVars, default_state' \in [MintKeys -> {"initialized", "frozen"}]
    PROVE  Kept
<1>1. UNCHANGED <<mint_withheld, older_fee, newer_fee>>
  BY Zenon DEF feeVars
<1> QED
  BY <1>1, AddedExtension, MintFacts, PreparedMint, Zenon

(* The extensions other than the transfer fee. *)
LEMMA MintSetUp ==
    ASSUME TokenInv, NEW m \in MintKeys,
           \/ \E k : InitializeMintCloseAuthority(m, k)
           \/ \E st \in {"initialized", "frozen"} : InitializeDefaultAccountState(m, st)
           \/ InitializeNonTransferableMint(m)
           \/ \E k : InitializePermanentDelegate(m, k)
           \/ \E k, j : InitializeTransferHook(m, k, j)
           \/ \E k, j : InitializeMetadataPointer(m, k, j)
    PROVE  Kept
<1>1. /\ \E type : InitExtension(m, type)
      /\ UNCHANGED feeVars
      /\ default_state' = default_state \/ \E st \in {"initialized", "frozen"} :
                                               default_state' = [default_state EXCEPT ![m] = st]
  BY Zenon DEF InitializeMintCloseAuthority, InitializeDefaultAccountState, InitializeNonTransferableMint,
               InitializePermanentDelegate, InitializeTransferHook, InitializeMetadataPointer
<1>2. default_state' \in [MintKeys -> {"initialized", "frozen"}]
  BY <1>1, MintFacts, Zenon
<1> QED
  BY <1>1, <1>2, ExtendedMint, Zenon

(* A mint that gets its transfer fee is not initialized yet, so that no fee was
   in force. *)
LEMMA FeeConfigured ==
    ASSUME TokenInv, NEW m \in MintKeys, NEW k, NEW j, NEW r \in BasisPoints, NEW x \in Amounts,
           InitializeTransferFeeConfig(m, k, j, r, x)
    PROVE  Kept
<1> DEFINE fee == [epoch |-> epoch, maximum_fee |-> x, basis_points |-> r]
<1>1. /\ InitExtension(m, "TransferFeeConfig") /\ UNCHANGED default_state
      /\ older_fee' = [older_fee EXCEPT ![m] = fee] /\ newer_fee' = [newer_fee EXCEPT ![m] = fee]
      /\ mint_withheld' = [mint_withheld EXCEPT ![m] = 0]
  BY Zenon DEF InitializeTransferFeeConfig
<1>2. epoch \in 0 .. MaxEpoch + 2 /\ x \in 0 .. MaxAmount /\ r \in 0 .. OneInBasisPoints
  BY MintFacts, BoundsAssumption
<1>3. fee \in TransferFee
  BY <1>2, Zenon DEF TransferFee
<1> HIDE DEF fee
<1>4. /\ DOMAIN older_fee' = MintKeys /\ newer_fee' \in [MintKeys -> TransferFee]
      /\ mint_withheld' \in [MintKeys -> Nat] /\ mint_withheld'[m] = 0
      /\ \A n \in MintKeys \ {m} : /\ newer_fee'[n] = newer_fee[n] /\ older_fee'[n] = older_fee[n]
                                   /\ mint_withheld'[n] = mint_withheld[n]
  BY <1>1, <1>3, MintFacts, Zenon
<1>5. /\ mint_state[m] = "uninitialized" /\ AccountsSame
      /\ UNCHANGED <<supply, epoch, lamports, slots, mint_state, default_state>>
      /\ DOMAIN mint_extensions' = MintKeys
      /\ \A n \in MintKeys \ {m} : mint_extensions'[n] = mint_extensions[n]
  BY <1>1, AddedExtension, Zenon
<1>6. DOMAIN mint_state' = MintKeys /\ default_state' \in [MintKeys -> {"initialized", "frozen"}]
  BY <1>5, MintFacts, Zenon
<1> QED
  BY <1>4, <1>5, <1>6, PreparedMint, Zenon

(* A mint starts without tokens. *)
LEMMA InitializedMint ==
    ASSUME TokenInv, NEW m \in MintKeys, NEW k, NEW f, InitializeMint(m, k, f)
    PROVE  Kept
<1>1. /\ mint_state[m] = "uninitialized" /\ mint_state' = [mint_state EXCEPT ![m] = "initialized"]
      /\ AccountsSame
      /\ UNCHANGED <<supply, mint_extensions, mint_withheld, older_fee, newer_fee, default_state, epoch,
                     lamports, slots>>
  BY Zenon DEF InitializeMint, baseVars, extVars, feeVars, chainVars, history, AccountsSame
<1>2. DOMAIN mint_state' = MintKeys /\ \A n \in MintKeys \ {m} : mint_state'[n] = mint_state[n]
  BY <1>1, MintFacts, Zenon
<1> QED
  BY <1>1, <1>2, MintFacts, PreparedMint, Zenon

(* The native mint is created without extensions. *)
LEMMA CreatedNativeMint ==
    ASSUME TokenInv, NativeMint \in MintKeys, CreateNativeMint
    PROVE  Kept
<1>1. /\ mint_state[NativeMint] = "none" /\ mint_state' = [mint_state EXCEPT ![NativeMint] = "initialized"]
      /\ lamports' = [lamports EXCEPT ![NativeMint] = IF @ < MinimumBalance(0) THEN MinimumBalance(0) ELSE @]
      /\ AccountsSame
      /\ UNCHANGED <<supply, mint_extensions, mint_withheld, older_fee, newer_fee, default_state, epoch, slots>>
  BY Zenon DEF CreateNativeMint, baseVars, extVars, feeVars, history, AccountsSame
<1>2. NativeMint \in Keys /\ MinimumBalance(0) \in Nat
  BY Carried DEF MinimumBalance
<1>3. lamports' \in [Keys -> Nat] /\ \A b \in TokenKeys : lamports'[b] >= lamports[b]
  BY <1>1, <1>2, TypeFacts, Carried
<1>4. mint_state'[NativeMint] = "initialized" /\ DOMAIN mint_state' = MintKeys
  BY <1>1, MintFacts, Zenon
<1>5. \A k \in MintKeys : Renewed(k)
  BY <1>1, MintFacts, Zenon DEF Renewed
<1> QED
  BY <1>1, <1>3, <1>4, <1>5, TypeFacts, MintFacts, MintsAlone, Zenon

(* Authorities, defaults and pointers of a mint are not what the tokens    *)
(* depend on.                                                              *)
LEMMA SettingChanged ==
    ASSUME TokenInv, AccountsSame, UNCHANGED <<lamports, slots, mint_state, supply, mint_extensions>>,
           UNCHANGED <<mint_withheld, older_fee, newer_fee, epoch>>,
           default_state' \in [MintKeys -> {"initialized", "frozen"}]
    PROVE  Kept
<1>1. \A b \in TokenKeys : lamports[b] >= lamports[b]
  BY FundsKept, Zenon
<1>2. \A m \in MintKeys : Renewed(m)
  BY MintFacts, Zenon DEF Renewed
<1> QED
  BY <1>1, <1>2, TypeFacts, MintFacts, MintsAlone, Zenon

(* The authorities of a mint can change without any account changing. *)
LEMMA MintAuthoritySet ==
    ASSUME TokenInv, NEW m \in MintKeys, NEW type, NEW new, NEW who, NEW signers,
           SetMintAuthority(m, type, new, who, signers)
    PROVE  Kept
<1>1. /\ AccountsSame /\ UNCHANGED <<lamports, slots, mint_state, supply, mint_extensions>>
      /\ UNCHANGED <<mint_withheld, older_fee, newer_fee, epoch, default_state>>
  BY Zenon DEF SetMintAuthority, baseVars, extVars, feeVars, chainVars, history, AccountsSame
<1> QED
  BY <1>1, MintFacts, SettingChanged, Zenon

(* Nor does an account change when a setting of its mint does. *)
LEMMA SettingUpdated ==
    ASSUME TokenInv, NEW m \in MintKeys, NEW who, NEW signers,
           \/ \E st \in {"initialized", "frozen"} : UpdateDefaultAccountState(m, st, who, signers)
           \/ \E k : UpdateTransferHook(m, k, who, signers)
           \/ \E k : UpdateMetadataPointer(m, k, who, signers)
    PROVE  Kept
<1>1. /\ \E type, extension : UpdatesExtension(m, type, extension, who, signers)
      /\ default_state' = default_state \/ \E st \in {"initialized", "frozen"} :
                                               default_state' = [default_state EXCEPT ![m] = st]
  BY Zenon DEF UpdateDefaultAccountState, UpdateTransferHook, UpdateMetadataPointer
<1>2. /\ AccountsSame /\ UNCHANGED <<lamports, slots, mint_state, supply, mint_extensions>>
      /\ UNCHANGED <<mint_withheld, older_fee, newer_fee, epoch>>
  BY <1>1, Zenon DEF UpdatesExtension, baseVars, extVars, feeVars, chainVars, history, AccountsSame
<1>3. default_state' \in [MintKeys -> {"initialized", "frozen"}]
  BY <1>1, MintFacts, Zenon
<1> QED
  BY <1>2, <1>3, SettingChanged, Zenon

(* Steps that touch neither accounts nor mints. *)
LEMMA NothingDone ==
    ASSUME TokenInv,
           \/ SwitchLevel
           \/ \E k, m, signers : InitializeMultisig(k, m, signers)
           \/ UNCHANGED vars
    PROVE  Kept
<1>1. AccountsSame /\ MintsSame /\ UNCHANGED <<lamports, slots>>
  BY Zenon DEF SwitchLevel, InitializeMultisig, vars, baseVars, extVars, mintVars, chainVars, history,
               AccountsSame, MintsSame
<1> QED
  BY <1>1, NothingChanged, Zenon

(* process_close_account of a mint: there are no tokens of it, so none     *)
(* that were withheld.                                                     *)
LEMMA ClosedMint ==
    ASSUME TokenInv, NEW m \in MintKeys, NEW d, NEW who, NEW signers, CloseMint(m, d, who, signers)
    PROVE  Kept
<1>1. /\ supply[m] = 0 /\ "MintCloseAuthority" \in mint_extensions[m] /\ SendAllLamports(m, d)
      /\ mint_state' = [mint_state EXCEPT ![m] = "none"]
      /\ mint_extensions' = [mint_extensions EXCEPT ![m] = {}]
      /\ mint_withheld' = [mint_withheld EXCEPT ![m] = 0]
      /\ older_fee' = [older_fee EXCEPT ![m] = NoFee] /\ newer_fee' = [newer_fee EXCEPT ![m] = NoFee]
      /\ default_state' = [default_state EXCEPT ![m] = "initialized"]
      /\ slots' = [slots EXCEPT ![m] = 0]
      /\ AccountsSame /\ UNCHANGED <<supply, epoch>>
  BY Zenon DEF CloseMint, baseVars, extVars, history, AccountsSame
<1>2. NoFee \in TransferFee
  <2>1. 0 \in 0 .. MaxEpoch + 2 /\ 0 \in 0 .. MaxAmount /\ 0 \in 0 .. OneInBasisPoints
    BY BoundsAssumption
  <2> QED
    BY <2>1, Zenon DEF NoFee, TransferFee
<1>3. m \in Keys /\ m \notin TokenKeys
  BY Carried, Zenon
<1>4. /\ lamports' \in [Keys -> Nat] /\ slots' \in [Keys -> Nat]
      /\ \A b \in TokenKeys : lamports'[b] >= lamports[b]
  BY <1>1, <1>3, LamportsSent, TypeFacts, Carried, Zenon
<1>5. m # NativeMint
  BY <1>1, MintFacts, Zenon
<1>6. /\ DOMAIN mint_state' = MintKeys /\ DOMAIN mint_extensions' = MintKeys /\ DOMAIN older_fee' = MintKeys
      /\ mint_withheld' \in [MintKeys -> Nat] /\ newer_fee' \in [MintKeys -> TransferFee]
      /\ default_state' \in [MintKeys -> {"initialized", "frozen"}]
      /\ mint_withheld'[m] = 0 /\ mint_state'[m] = "none"
      /\ \A k \in MintKeys \ {m} :
             /\ mint_state'[k] = mint_state[k] /\ mint_extensions'[k] = mint_extensions[k]
             /\ newer_fee'[k] = newer_fee[k] /\ older_fee'[k] = older_fee[k]
             /\ mint_withheld'[k] = mint_withheld[k]
  BY <1>1, <1>2, MintFacts, Zenon
<1>7. \A k \in MintKeys : Renewed(k)
  BY <1>1, <1>6, MintFacts, Zenon DEF Renewed, LiveMint
<1>8. NativeMint \in MintKeys => mint_state'[NativeMint] # "uninitialized" /\ mint_extensions'[NativeMint] = {}
  BY <1>5, <1>6, MintFacts, Zenon
<1> QED
  BY <1>1, <1>4, <1>6, <1>7, <1>8, MintsAlone, Zenon

(* process_withdraw_excess_lamports: no wrapped lamports are taken. *)
LEMMA ExcessWithdrawn ==
    ASSUME TokenInv, NEW k \in Keys, NEW d, NEW who, NEW signers, WithdrawExcessLamports(k, d, who, signers)
    PROVE  Kept
<1> DEFINE excess == lamports[k] - MinimumBalance(slots[k])
<1>1. /\ lamports[k] >= MinimumBalance(slots[k])
      /\ k \in TokenKeys => ~IsNative(k)
      /\ lamports' = [j \in Keys |-> (IF j = k THEN lamports[j] - excess ELSE lamports[j])
                                     + (IF j = d THEN excess ELSE 0)]
      /\ UNCHANGED slots /\ AccountsSame /\ MintsSame
  BY Carried, Zenon DEF WithdrawExcessLamports, baseVars, extVars, mintVars, history, AccountsSame, MintsSame
<1>2. MinimumBalance(slots[k]) \in Nat /\ lamports[k] \in Nat
  BY TypeFacts DEF MinimumBalance
<1>3. excess \in Nat /\ excess <= lamports[k]
  BY <1>1, <1>2
<1> HIDE DEF excess
<1>4. lamports' \in [Keys -> Nat] /\ \A b \in Keys \ {k} : lamports'[b] >= lamports[b]
  BY <1>1, <1>3, TypeFacts
<1>5. \A b \in TokenKeys : Live(b) /\ IsNative(b) => lamports'[b] >= lamports[b]
  BY <1>1, <1>4, Carried, Zenon
<1>6. \A m \in MintKeys : Renewed(m)
  BY <1>1, MintFacts, Zenon DEF Renewed, MintsSame
<1> QED
  BY <1>1, <1>4, <1>5, <1>6, TypeFacts, MintFacts, MintsAlone, Zenon DEF MintsSame
-----------------------------------------------------------------------------
(* The fee of an epoch.  What is set begins two epochs ahead, and what is  *)
(* in force is kept until then.                                            *)
LEMMA EpochPassed ==
    ASSUME TokenInv, NextEpoch
    PROVE  Kept
<1>1. /\ epoch < MaxEpoch /\ epoch' = epoch + 1 /\ AccountsSame /\ UNCHANGED <<lamports, slots>>
      /\ UNCHANGED <<mint_state, mint_extensions, default_state, newer_fee, older_fee, supply, mint_withheld>>
  BY Zenon DEF NextEpoch, baseVars, extVars, mintVars, history, AccountsSame
<1>2. epoch \in Int /\ epoch' \in 0 .. MaxEpoch /\ epoch' # epoch
  BY <1>1, MintFacts, BoundsAssumption
<1>3. MintInv' /\ \A m \in MintKeys : FeeSettled(m)
  BY <1>1, <1>2, MintFacts, Zenon DEF MintInv, FeeSettled
<1>4. \A b \in TokenKeys : lamports'[b] >= lamports[b]
  BY <1>1, TypeFacts, Carried
<1> QED
  BY <1>1, <1>3, <1>4, TypeFacts, NoAccount, Zenon DEF AccountsSame

(* process_set_transfer_fee *)
LEMMA FeeSet ==
    ASSUME TokenInv, NEW m \in MintKeys, NEW r \in BasisPoints, NEW x \in Amounts, NEW who, NEW signers,
           SetTransferFee(m, r, x, who, signers)
    PROVE  Kept
<1> DEFINE fee == [epoch |-> epoch + 2, maximum_fee |-> x, basis_points |-> r]
<1>1. /\ LiveMint(m) /\ newer_fee' = [newer_fee EXCEPT ![m] = fee]
      /\ older_fee' = [older_fee EXCEPT ![m] = IF newer_fee[m].epoch <= epoch THEN newer_fee[m] ELSE @]
      /\ AccountsSame /\ UNCHANGED <<lamports, slots>>
      /\ UNCHANGED <<mint_state, mint_extensions, default_state, epoch, supply, mint_withheld>>
  BY Zenon DEF SetTransferFee, baseVars, extVars, chainVars, history, AccountsSame
<1>2. epoch \in Int /\ epoch + 2 \in 0 .. MaxEpoch + 2 /\ x \in 0 .. MaxAmount /\ r \in 0 .. OneInBasisPoints
  BY MintFacts, BoundsAssumption
<1>3. fee \in TransferFee /\ fee.epoch = epoch + 2
  BY <1>2, Zenon DEF TransferFee
<1> HIDE DEF fee
<1>4. newer_fee' \in [MintKeys -> TransferFee] /\ DOMAIN older_fee' = MintKeys /\ newer_fee'[m] = fee
  BY <1>1, <1>3, MintFacts, Zenon
<1>5. MintInv'
  BY <1>1, <1>4, MintFacts, Zenon DEF MintInv
<1>6. \A n \in MintKeys \ {m} : FeeSettled(n)
  BY <1>1, MintFacts, Zenon DEF FeeSettled, get_epoch_fee
<1>7. newer_fee[m].epoch \in Int
  BY MintFacts, BoundsAssumption DEF TransferFee
<1>8. FeeSettled(m)
  BY <1>1, <1>2, <1>3, <1>4, <1>7, MintFacts DEF FeeSettled, get_epoch_fee
<1>9. \A b \in TokenKeys : lamports'[b] >= lamports[b]
  BY <1>1, FundsKept, Zenon
<1>10. \A k \in MintKeys : FeeSettled(k)
  BY <1>6, <1>8, Zenon
<1> QED
  BY <1>1, <1>5, <1>9, <1>10, TypeFacts, NoAccount, Zenon DEF AccountsSame
-----------------------------------------------------------------------------
(* The supply of a mint is what its accounts hold and what has been        *)
(* harvested to it.                                                        *)
Held(m) == [a \in TokenKeys |-> Holding(m, a)]
SupplyInv == \A m \in MintKeys \ {NativeMint} : supply[m] = mint_withheld[m] + Total(Held(m), TokenKeys)

(* What every step does. *)
Settled == Upheld /\ (SupplyInv => SupplyInv')

(* What accounts hold of a mint can be added up, *)
LEMMA HeldType ==
    ASSUME TokenInv
    PROVE  /\ \A m : Summable(Held(m), TokenKeys)
           /\ \A m : \A a \in TokenKeys : Held(m)[a] = Holding(m, a) /\ Holding(m, a) \in Nat
<1>1. \A m : \A a \in TokenKeys : Held(m)[a] = Holding(m, a) /\ Holding(m, a) \in Nat
  BY HoldingType, Zenon DEF Held
<1> QED
  BY <1>1, KeysAssumption, Zenon DEF Summable

(* also after a step that keeps the invariant. *)
LEMMA HeldTypeNext ==
    ASSUME TokenInv'
    PROVE  /\ \A m : Summable(Held(m)', TokenKeys)
           /\ \A m : \A a \in TokenKeys : Held(m)'[a] = Holding(m, a)' /\ Holding(m, a)' \in Nat
<1>1. \A m : \A a \in TokenKeys : Holding(m, a)' \in Nat
  BY DEF TokenInv, AccountTypes, Holding
<1>2. \A m : \A a \in TokenKeys : Held(m)'[a] = Holding(m, a)'
  BY Zenon DEF Held
<1> QED
  BY <1>1, <1>2, KeysAssumption, Zenon DEF Summable

(* The supply of mint m after a step that keeps the accounts in order. *)
LEMMA SupplyFacts ==
    ASSUME TokenInv, SupplyInv, TokenInv', NEW m \in MintKeys \ {NativeMint}
    PROVE  /\ supply[m] = mint_withheld[m] + Total(Held(m), TokenKeys)
           /\ supply[m] \in Nat /\ mint_withheld[m] \in Nat
           /\ supply'[m] \in Nat /\ mint_withheld'[m] \in Nat
           /\ Total(Held(m), TokenKeys) \in Nat
<1>1. supply[m] = mint_withheld[m] + Total(Held(m), TokenKeys)
  BY Zenon DEF SupplyInv
<1>2. supply[m] \in Nat /\ mint_withheld[m] \in Nat /\ supply'[m] \in Nat /\ mint_withheld'[m] \in Nat
  BY Zenon DEF TokenInv, MintInv
<1>3. Total(Held(m), TokenKeys) \in Nat
  BY HeldType, TotalType, Zenon
<1> QED
  BY <1>1, <1>2, <1>3, Zenon

(* A supply changes with what one account holds. *)
LEMMA SupplyChanges ==
    ASSUME TokenInv, SupplyInv, TokenInv', NEW a \in TokenKeys, InOneAccount(a)
    PROVE  SupplyInv'
<1> SUFFICES ASSUME NEW m \in MintKeys \ {NativeMint}
             PROVE  supply'[m] = mint_withheld'[m] + Total(Held(m)', TokenKeys)
  BY Zenon DEF SupplyInv
<1>1. /\ supply[m] = mint_withheld[m] + Total(Held(m), TokenKeys)
      /\ supply[m] \in Nat /\ mint_withheld[m] \in Nat
      /\ supply'[m] \in Nat /\ mint_withheld'[m] \in Nat
  BY SupplyFacts, Zenon
<1>2. /\ Summable(Held(m), TokenKeys) /\ Held(m)[a] = Holding(m, a) /\ Holding(m, a) \in Nat
      /\ Held(m)'[a] = Holding(m, a)' /\ Held(m)'[a] \in Nat
      /\ \A b \in TokenKeys \ {a} : Held(m)'[b] = Held(m)[b]
  BY HeldType, HeldTypeNext DEF InOneAccount, OthersHold
<1>3. /\ Total(Held(m), TokenKeys) \in Nat /\ Total(Held(m)', TokenKeys) \in Nat
      /\ Total(Held(m)', TokenKeys) = Total(Held(m), TokenKeys) - Held(m)[a] + Held(m)'[a]
  <2> DEFINE f == Held(m)
             g == Held(m)'
  <2>1. Summable(f, TokenKeys) /\ g[a] \in Nat /\ \A b \in TokenKeys \ {a} : g[b] = f[b]
    BY <1>2
  <2> HIDE DEF f, g
  <2>2. ChangedAt(f, g, TokenKeys, a)
    BY <2>1, TotalChange, Zenon
  <2> QED
    BY <2>2 DEF f, g, ChangedAt
<1>4. supply'[m] - mint_withheld'[m] - (supply[m] - mint_withheld[m]) = Holding(m, a)' - Holding(m, a)
  BY Zenon DEF InOneAccount
<1> QED
  BY <1>1, <1>2, <1>3, <1>4

(* Tokens moved from one account to another. *)
LEMMA SupplyMoves ==
    ASSUME TokenInv, SupplyInv, TokenInv', NEW s \in TokenKeys, NEW d \in TokenKeys, FromOneToAnother(s, d)
    PROVE  SupplyInv'
<1> SUFFICES ASSUME NEW m \in MintKeys \ {NativeMint}
             PROVE  supply'[m] = mint_withheld'[m] + Total(Held(m)', TokenKeys)
  BY Zenon DEF SupplyInv
<1>1. supply[m] = mint_withheld[m] + Total(Held(m), TokenKeys)
  BY Zenon DEF SupplyInv
<1>2. /\ s # d /\ supply' = supply /\ mint_withheld' = mint_withheld
      /\ \A b \in TokenKeys \ {s, d} : Holding(m, b)' = Holding(m, b)
      /\ Holding(m, s)' + Holding(m, d)' = Holding(m, s) + Holding(m, d)
  BY Zenon DEF FromOneToAnother, OthersHold
<1>3. /\ Summable(Held(m), TokenKeys) /\ Summable(Held(m)', TokenKeys)
      /\ \A b \in TokenKeys \ {s, d} : Held(m)'[b] = Held(m)[b]
      /\ Held(m)'[s] + Held(m)'[d] = Held(m)[s] + Held(m)[d]
  BY <1>2, HeldType, HeldTypeNext, Zenon
<1>4. Total(Held(m)', TokenKeys) = Total(Held(m), TokenKeys)
  BY <1>2, <1>3, TotalMoved
<1> QED
  BY <1>1, <1>2, <1>4, Zenon

(* A mint with no tokens has withheld none. *)
LEMMA SupplyStays ==
    ASSUME TokenInv, SupplyInv, TokenInv', InNoAccount
    PROVE  SupplyInv'
<1> SUFFICES ASSUME NEW m \in MintKeys \ {NativeMint}
             PROVE  supply'[m] = mint_withheld'[m] + Total(Held(m)', TokenKeys)
  BY Zenon DEF SupplyInv
<1>1. /\ supply[m] = mint_withheld[m] + Total(Held(m), TokenKeys)
      /\ supply[m] \in Nat /\ mint_withheld[m] \in Nat /\ Total(Held(m), TokenKeys) \in Nat
  BY SupplyFacts, Zenon
<1>2. /\ supply'[m] = supply[m]
      /\ mint_withheld'[m] = mint_withheld[m] \/ (supply[m] = 0 /\ mint_withheld'[m] = 0)
      /\ \A b \in TokenKeys : Holding(m, b)' = Holding(m, b)
  BY Zenon DEF InNoAccount, OthersHold
<1>3. Held(m)' = Held(m)
  BY <1>2, Zenon DEF Held
<1> QED
  BY <1>1, <1>2, <1>3

(* So a step that says where the tokens go settles the supply. *)
LEMMA KeptSettles ==
    ASSUME TokenInv, Kept
    PROVE  Settled
<1>1. ASSUME SupplyInv PROVE SupplyInv'
  BY <1>1, SupplyChanges, SupplyMoves, SupplyStays, Zenon DEF Kept, TokensMove, Upheld
<1> QED
  BY <1>1, Zenon DEF Kept, Settled
-----------------------------------------------------------------------------
(* What is withheld in the accounts that are harvested, and what they and  *)
(* the others hold without it.                                             *)
Taken(m, list) == [a \in TokenKeys |-> IF a \in Harvestable(m, list) THEN withheld_amount[a] ELSE 0]
LeftIn(m, list) == [a \in TokenKeys |-> IF a \in Harvestable(m, list) THEN amount[a] ELSE Holding(m, a)]

(* What is harvested from a list of accounts is the total of what each of them
   withheld. *)
LEMMA HarvestIsTaken ==
    ASSUME TokenInv, NEW m \in MintKeys, NEW list \in SUBSET TokenKeys
    PROVE  /\ Summable(Taken(m, list), TokenKeys)
           /\ Harvested(m, list) = Total(Taken(m, list), TokenKeys)
<1> DEFINE S == Harvestable(m, list)
<1>1. S \in SUBSET TokenKeys
  BY Zenon DEF Harvestable
<1>2. Summable(Taken(m, list), TokenKeys)
  BY TypeFacts, KeysAssumption, Zenon DEF Summable, Taken
<1>3. Harvested(m, list) = (CHOOSE g : Summing(withheld_amount, S, g))[S]
  BY Zenon DEF Harvested, MapThenSumSet, MapThenFoldSet, Summing, Any
<1>4. Summable(withheld_amount, S)
  BY <1>1, TypeFacts, KeysAssumption, FS_Subset DEF Summable
<1>5. Harvested(m, list) = Total(withheld_amount, S)
  BY <1>3, <1>4, SummingIsTotal, Zenon
<1>6. Total(withheld_amount, S) = Total(Taken(m, list), S)
  <2>1. \A a \in S : withheld_amount[a] = Taken(m, list)[a]
    BY <1>1, Zenon DEF Taken
  <2> QED
    BY <2>1, TotalSame
<1>7. Total(Taken(m, list), TokenKeys) = Total(Taken(m, list), S)
  <2>1. \A a \in TokenKeys \ S : Taken(m, list)[a] = 0
    BY DEF Taken
  <2> HIDE DEF S
  <2> QED
    BY <1>1, <2>1, TotalPart, Zenon
<1> QED
  BY <1>2, <1>5, <1>6, <1>7, Zenon

(* What is harvested and what is left are together what was held. *)
LEMMA HarvestLeaves ==
    ASSUME TokenInv, NEW m \in MintKeys, NEW list \in SUBSET TokenKeys
    PROVE  /\ Summable(LeftIn(m, list), TokenKeys)
           /\ Total(LeftIn(m, list), TokenKeys) \in Nat /\ Harvested(m, list) \in Nat
           /\ Total(Held(m), TokenKeys) = Total(LeftIn(m, list), TokenKeys) + Harvested(m, list)
<1>1. Summable(Taken(m, list), TokenKeys) /\ Harvested(m, list) = Total(Taken(m, list), TokenKeys)
  BY HarvestIsTaken, Zenon
<1>2. \A a \in TokenKeys : Held(m)[a] = Holding(m, a) /\ Holding(m, a) \in Nat
  BY HeldType, Zenon
<1>3. Summable(LeftIn(m, list), TokenKeys)
  BY <1>2, TypeFacts, KeysAssumption, Zenon DEF Summable, LeftIn
<1>4. \A a \in TokenKeys : Held(m)[a] = LeftIn(m, list)[a] + Taken(m, list)[a]
  BY <1>2, TypeFacts DEF LeftIn, Taken, Holding, Harvestable
<1>5. Total(Held(m), TokenKeys) = Total(LeftIn(m, list), TokenKeys) + Total(Taken(m, list), TokenKeys)
  BY <1>1, <1>3, <1>4, TotalPlus
<1> QED
  BY <1>1, <1>3, <1>5, TotalType, Zenon

(* An account that loses only what it withholds keeps what it promises. *)
LEMMA HarvestedAccount ==
    ASSUME TokenInv, NEW a \in TokenKeys, lamports' = lamports,
           state'[a] = state[a], amount'[a] = amount[a], owner'[a] = owner[a], mint'[a] = mint[a],
           delegate'[a] = delegate[a], delegated_amount'[a] = delegated_amount[a],
           close_authority'[a] = close_authority[a], lock_cpi'[a] = lock_cpi[a],
           is_native'[a] = is_native[a], extensions'[a] = extensions[a],
           approved'[a] = approved[a], spent'[a] = spent[a]
    PROVE  AccountInv(a)' /\ Steady(a)
<1>1. amount[a] \in Nat
  BY TypeFacts, Zenon
<1>2. Derived(a)' /\ Allowed(a)'
  BY AccountFacts, Zenon DEF Derived, Allowed, Live
<1>3. Backed(a)'
  BY AccountFacts, Zenon DEF Backed, Live, IsNative
<1>4. Steady(a)
  BY <1>1 DEF Steady, StaysFrozen, StaysGuarded, Live
<1> QED
  BY <1>2, <1>3, <1>4, Zenon DEF AccountInv

(* The withheld amounts after a harvest. *)
LEMMA HarvestEmpties ==
    ASSUME TokenInv, NEW m \in MintKeys, NEW list \in SUBSET TokenKeys,
           withheld_amount' = [a \in TokenKeys |-> IF a \in Harvestable(m, list) THEN 0 ELSE withheld_amount[a]],
           UNCHANGED <<state, mint>>
    PROVE  /\ withheld_amount' \in [TokenKeys -> Nat]
           /\ \A n : \A a \in TokenKeys : n # m /\ amount'[a] = amount[a] => Holding(n, a)' = Holding(n, a)
           /\ \A a \in TokenKeys : amount'[a] = amount[a] => Holding(m, a)' = LeftIn(m, list)[a]
<1>1. withheld_amount' \in [TokenKeys -> Nat]
  BY TypeFacts, Zenon
<1>2. ASSUME NEW n, NEW a \in TokenKeys, n # m, amount'[a] = amount[a]
      PROVE  Holding(n, a)' = Holding(n, a)
  BY <1>2, Zenon DEF Holding, Harvestable, Live
<1>3. ASSUME NEW a \in TokenKeys, amount'[a] = amount[a]
      PROVE  Holding(m, a)' = LeftIn(m, list)[a]
  <2>1. amount[a] \in Nat
    BY TypeFacts, Zenon
  <2> QED
    BY <1>3, <2>1 DEF Holding, LeftIn, Harvestable, Live
<1> QED
  BY <1>1, <1>2, <1>3, Zenon

(* process_harvest_withheld_tokens_to_mint *)
LEMMA HarvestedToMint ==
    ASSUME TokenInv, NEW m \in MintKeys, NEW list \in SUBSET TokenKeys, HarvestWithheldTokensToMint(m, list)
    PROVE  Settled
<1> DEFINE h == Harvested(m, list)
<1>1. /\ "TransferFeeConfig" \in mint_extensions[m]
      /\ mint_withheld' = [mint_withheld EXCEPT ![m] = @ + h]
      /\ withheld_amount' = [a \in TokenKeys |-> IF a \in Harvestable(m, list) THEN 0 ELSE withheld_amount[a]]
      /\ UNCHANGED <<state, mint, owner, amount, delegate, delegated_amount, is_native, close_authority,
                     extensions, lock_cpi, approved, spent, lamports, slots>>
      /\ UNCHANGED <<mint_state, mint_extensions, default_state, epoch, newer_fee, older_fee, supply>>
  BY Zenon DEF HarvestWithheldTokensToMint, baseVars, chainVars, history
<1>2. /\ Summable(LeftIn(m, list), TokenKeys)
      /\ Total(LeftIn(m, list), TokenKeys) \in Nat /\ h \in Nat
      /\ Total(Held(m), TokenKeys) = Total(LeftIn(m, list), TokenKeys) + h
  BY HarvestLeaves, Zenon
<1> HIDE DEF h
<1>3. /\ mint_withheld' \in [MintKeys -> Nat] /\ mint_withheld'[m] = mint_withheld[m] + h
      /\ \A n \in MintKeys \ {m} : mint_withheld'[n] = mint_withheld[n]
  BY <1>1, <1>2, MintFacts
<1>4. MintInv' /\ \A n \in MintKeys : FeeSettled(n)
  BY <1>1, <1>3, MintFacts, SameMints, Zenon
<1>5. /\ withheld_amount' \in [TokenKeys -> Nat]
      /\ \A n : \A a \in TokenKeys : n # m => Holding(n, a)' = Holding(n, a)
      /\ \A a \in TokenKeys : Holding(m, a)' = LeftIn(m, list)[a]
  BY <1>1, HarvestEmpties, Zenon
<1>6. AccountTypes'
  BY <1>1, <1>5, TypeFacts, Zenon DEF AccountTypes
<1>7. \A a \in TokenKeys : AccountInv(a)' /\ Steady(a)
  BY <1>1, HarvestedAccount, Zenon
<1>8. ASSUME SupplyInv, NEW n \in MintKeys \ {NativeMint}
      PROVE  supply'[n] = mint_withheld'[n] + Total(Held(n)', TokenKeys)
  <2>1. supply[n] = mint_withheld[n] + Total(Held(n), TokenKeys)
    BY <1>8, Zenon DEF SupplyInv
  <2>2. CASE n # m
    <3>1. Held(n)' = Held(n)
      BY <1>5, <2>2, Zenon DEF Held
    <3> QED
      BY <1>1, <1>3, <2>1, <2>2, <3>1, Zenon
  <2>3. CASE n = m
    <3>1. \A a \in TokenKeys : Held(m)'[a] = LeftIn(m, list)[a]
      BY <1>5, Zenon DEF Held
    <3>2. Total(Held(m)', TokenKeys) = Total(LeftIn(m, list), TokenKeys)
      BY <3>1, TotalSame, Zenon
    <3>3. mint_withheld[m] \in Nat
      BY MintFacts, Zenon
    <3> QED
      BY <1>1, <1>2, <1>3, <2>1, <2>3, <3>2, <3>3
  <2> QED
    BY <2>2, <2>3, Zenon
<1> QED
  BY <1>4, <1>6, <1>7, <1>8, Zenon DEF Settled, Upheld, TokenInv, SupplyInv

(* An account that withheld fees are paid to is none of the native mint. *)
LEMMA PaidAccount ==
    ASSUME TokenInv, NEW m \in MintKeys, NEW d \in TokenKeys, NEW who, NEW signers,
           WithdrawsWithheld(m, d, who, signers)
    PROVE  state[d] = "initialized" /\ mint[d] = m /\ Live(d) /\ m # NativeMint /\ ~IsNative(d)
<1>1. state[d] = "initialized" /\ mint[d] = m /\ "TransferFeeConfig" \in mint_extensions[m]
  BY Zenon DEF WithdrawsWithheld
<1>2. m # NativeMint
  BY <1>1, MintFacts, Zenon
<1> QED
  BY <1>1, <1>2, AccountFacts, Zenon DEF Backed, Live

(* process_withdraw_withheld_tokens_from_mint *)
LEMMA WithdrawnFromMint ==
    ASSUME TokenInv, NEW m \in MintKeys, NEW d \in TokenKeys, NEW who, NEW signers,
           WithdrawWithheldTokensFromMint(m, d, who, signers)
    PROVE  Kept
<1> DEFINE x == mint_withheld[m]
<1>1. /\ WithdrawsWithheld(m, d, who, signers)
      /\ amount' = [amount EXCEPT ![d] = @ + x] /\ mint_withheld' = [mint_withheld EXCEPT ![m] = 0]
      /\ UNCHANGED <<state, mint, owner, delegate, delegated_amount, is_native, close_authority, extensions,
                     withheld_amount, lock_cpi, approved, spent, lamports, slots>>
      /\ UNCHANGED <<mint_state, mint_extensions, default_state, epoch, newer_fee, older_fee, supply>>
  BY Zenon DEF WithdrawWithheldTokensFromMint, extVars, chainVars, history
<1>2. state[d] = "initialized" /\ mint[d] = m /\ Live(d) /\ ~IsNative(d)
  BY <1>1, PaidAccount, Zenon
<1>3. /\ x \in Nat /\ mint_withheld' \in [MintKeys -> Nat] /\ mint_withheld'[m] = 0
      /\ \A n \in MintKeys \ {m} : mint_withheld'[n] = mint_withheld[n]
  BY <1>1, MintFacts, Zenon
<1> HIDE DEF x
<1>4. amount[d] \in Nat /\ amount'[d] = amount[d] + x /\ withheld_amount[d] \in Nat
  BY <1>1, <1>3, TypeFacts, Zenon
<1>5. amount'[d] \in Nat /\ amount'[d] >= amount[d]
  BY <1>3, <1>4
<1>6. AccountTypes'
  BY <1>1, <1>3, TypeFacts DEF AccountTypes
<1>7. \A b \in TokenKeys \ {d} : Same(b) /\ lamports'[b] >= lamports[b]
  BY <1>1, TypeFacts, Carried DEF Same
<1>8. Derived(d)' /\ Allowed(d)' /\ Steady(d) /\ Backed(d)'
  BY <1>1, <1>2, <1>5, GivenTo, Zenon
<1>9. MintInv' /\ \A n \in MintKeys : FeeSettled(n)
  BY <1>1, <1>3, MintFacts, SameMints, Zenon
<1>10. Holding(m, d)' = Holding(m, d) + x /\ \A n : n # m => Holding(n, d)' = Holding(n, d)
  BY <1>1, <1>2, <1>3, <1>4 DEF Holding, Live
<1>11. \A n \in MintKeys : supply[n] \in Nat /\ mint_withheld[n] \in Nat /\ Holding(n, d) \in Nat
  BY MintFacts, HoldingType, Zenon
<1>12. ASSUME NEW n \in MintKeys \ {NativeMint}
       PROVE  supply'[n] - mint_withheld'[n] - (supply[n] - mint_withheld[n]) = Holding(n, d)' - Holding(n, d)
  BY <1>1, <1>3, <1>10, <1>11 DEF x
<1> QED
  BY <1>6, <1>7, <1>8, <1>9, <1>12, OneAccount, Zenon DEF AccountInv

(* process_withdraw_withheld_tokens_from_accounts *)
LEMMA WithdrawnFromAccounts ==
    ASSUME TokenInv, NEW m \in MintKeys, NEW d \in TokenKeys, NEW list \in SUBSET TokenKeys, NEW who, NEW signers,
           WithdrawWithheldTokensFromAccounts(m, d, list, who, signers)
    PROVE  Settled
<1> DEFINE h == Harvested(m, list)
<1>1. /\ WithdrawsWithheld(m, d, who, signers) /\ amount' = [amount EXCEPT ![d] = @ + h]
      /\ withheld_amount' = [a \in TokenKeys |-> IF a \in Harvestable(m, list) THEN 0 ELSE withheld_amount[a]]
      /\ UNCHANGED <<state, mint, owner, delegate, delegated_amount, is_native, close_authority,
                     extensions, lock_cpi, approved, spent, lamports, slots>>
      /\ MintsSame
  BY Zenon DEF WithdrawWithheldTokensFromAccounts, mintVars, chainVars, history, MintsSame
<1>2. state[d] = "initialized" /\ mint[d] = m /\ Live(d) /\ ~IsNative(d)
  BY <1>1, PaidAccount, Zenon
<1>3. /\ Summable(LeftIn(m, list), TokenKeys)
      /\ Total(LeftIn(m, list), TokenKeys) \in Nat /\ h \in Nat
      /\ Total(Held(m), TokenKeys) = Total(LeftIn(m, list), TokenKeys) + h
  BY HarvestLeaves, Zenon
<1> HIDE DEF h
<1>4. /\ amount[d] \in Nat /\ withheld_amount[d] \in Nat /\ amount'[d] = amount[d] + h
      /\ amount' \in [TokenKeys -> Nat] /\ \A a \in TokenKeys \ {d} : amount'[a] = amount[a]
  BY <1>1, <1>3, TypeFacts
<1>5. /\ withheld_amount' \in [TokenKeys -> Nat]
      /\ \A n : \A a \in TokenKeys \ {d} : n # m => Holding(n, a)' = Holding(n, a)
      /\ \A a \in TokenKeys \ {d} : Holding(m, a)' = LeftIn(m, list)[a]
  BY <1>1, <1>4, HarvestEmpties
<1>6. Holding(m, d)' = LeftIn(m, list)[d] + h /\ \A n : n # m => Holding(n, d)' = Holding(n, d)
  <2>1. Live(d)' /\ mint'[d] = m
    BY <1>1, <1>2, Zenon DEF Live
  <2>2. \A n : n # m => Holding(n, d)' = 0 /\ Holding(n, d) = 0
    BY <1>2, <2>1, Zenon DEF Holding
  <2>3. Holding(m, d)' = amount'[d] + withheld_amount'[d] /\ Holding(m, d) = amount[d] + withheld_amount[d]
    BY <1>2, <2>1, Zenon DEF Holding
  <2>4. CASE d \in Harvestable(m, list)
    <3>1. withheld_amount'[d] = 0 /\ LeftIn(m, list)[d] = amount[d]
      BY <1>1, <2>4, Zenon DEF LeftIn
    <3> QED
      BY <1>3, <1>4, <2>2, <2>3, <3>1
  <2>5. CASE d \notin Harvestable(m, list)
    <3>1. withheld_amount'[d] = withheld_amount[d] /\ LeftIn(m, list)[d] = Holding(m, d)
      BY <1>1, <2>5, Zenon DEF LeftIn
    <3> QED
      BY <1>3, <1>4, <2>2, <2>3, <3>1
  <2> QED
    BY <2>4, <2>5, Zenon
<1>7. AccountTypes'
  BY <1>1, <1>4, <1>5, TypeFacts, Zenon DEF AccountTypes
<1>8. \A a \in TokenKeys \ {d} : AccountInv(a)' /\ Steady(a)
  BY <1>1, <1>4, HarvestedAccount, Zenon
<1>9. amount'[d] \in Nat /\ amount'[d] >= amount[d]
  BY <1>3, <1>4
<1>10. AccountInv(d)' /\ Steady(d)
  BY <1>1, <1>2, <1>9, GivenTo, Zenon DEF AccountInv
<1>11. MintInv' /\ \A n \in MintKeys : FeeSettled(n)
  BY <1>1, MintFacts, SameMints DEF MintsSame
<1>12. UNCHANGED <<supply, mint_withheld>>
  BY <1>1, Zenon DEF MintsSame
<1>13. ASSUME SupplyInv, NEW n \in MintKeys \ {NativeMint}
       PROVE  supply'[n] = mint_withheld'[n] + Total(Held(n)', TokenKeys)
  <2>1. supply[n] = mint_withheld[n] + Total(Held(n), TokenKeys)
    BY <1>13, Zenon DEF SupplyInv
  <2>2. CASE n # m
    <3>1. Held(n)' = Held(n)
      BY <1>5, <1>6, <2>2, Zenon DEF Held
    <3> QED
      BY <1>12, <2>1, <3>1
  <2>3. CASE n = m
    <3>1. \A a \in TokenKeys \ {d} : Held(m)'[a] = LeftIn(m, list)[a]
      BY <1>5, Zenon DEF Held
    <3>2. Held(m)'[d] = LeftIn(m, list)[d] + h /\ LeftIn(m, list)[d] \in Nat /\ Held(m)'[d] \in Nat
      BY <1>3, <1>6 DEF Held, Summable
    <3>3. Total(Held(m)', TokenKeys) = Total(LeftIn(m, list), TokenKeys) - LeftIn(m, list)[d] + Held(m)'[d]
      <4>1. /\ Summable(LeftIn(m, list), TokenKeys) /\ Held(m)'[d] \in Nat
            /\ \A a \in TokenKeys \ {d} : Held(m)'[a] = LeftIn(m, list)[a]
        BY <1>3, <3>1, <3>2, Zenon
      <4>2. ChangedAt(LeftIn(m, list), Held(m)', TokenKeys, d)
        BY <4>1, TotalChange, Zenon
      <4> QED
        BY <4>2 DEF ChangedAt
    <3> QED
      BY <1>3, <1>12, <2>1, <2>3, <3>2, <3>3
  <2> QED
    BY <2>2, <2>3
<1> QED
  BY <1>7, <1>8, <1>10, <1>11, <1>13, Zenon DEF Settled, Upheld, TokenInv, SupplyInv
-----------------------------------------------------------------------------
(* The instructions of the token program, group by group. *)
LEMMA ChainKeeps ==
    ASSUME TokenInv, ChainStep, Underived
    PROVE  Kept
<1>1. ASSUME NEW a \in TokenKeys, NEW n \in 0 .. MaxSlots, NEW l \in Funds, CreateAccount(a, n, l)
      PROVE  Kept
  <2>1. state[a] = "none" /\ state' = [state EXCEPT ![a] = "uninitialized"]
    BY <1>1, Zenon DEF CreateAccount
  <2>2. AtaWallet[a] = None
    BY <2>1, TypeFacts, Zenon DEF Underived
  <2> QED
    BY <1>1, <2>2, CreatedAccount, Zenon
<1> QED
  BY <1>1, CreatedMintAccount, Funded, Zenon DEF ChainStep

(* The instructions group by group, first those that set up mints. *)
LEMMA MintSetupKeeps ==
    ASSUME TokenInv, MintSetupStep
    PROVE  Kept
BY MintSetUp, FeeConfigured, InitializedMint, CreatedNativeMint, NothingDone, Zenon DEF MintSetupStep

(* Those that set up accounts. *)
LEMMA AccountSetupKeeps ==
    ASSUME TokenInv, AccountSetupStep
    PROVE  Kept
BY ImmutableOwner, InitializedAccount, Zenon DEF AccountSetupStep

(* Transfers, MintTo and Burn. *)
LEMMA TokenKeeps ==
    ASSUME TokenInv, TokenStep
    PROVE  Kept
<1>1. (\E a, x, checked, who, signers : SelfTransfer(a, x, checked, who, signers)) => Kept
  BY NothingDone, Zenon DEF SelfTransfer
<1> QED
  BY <1>1, Transferred, Minted, Burned, Zenon DEF TokenStep

(* Approve and Revoke. *)
LEMMA AllowanceKeeps ==
    ASSUME TokenInv, AllowanceStep
    PROVE  Kept
BY Approved, Revoked, Zenon DEF AllowanceStep

(* SetAuthority on accounts and on mints. *)
LEMMA AuthorityKeeps ==
    ASSUME TokenInv, AuthorityStep
    PROVE  Kept
BY OwnerSet, CloserSet, MintAuthoritySet, Zenon DEF AuthorityStep

(* Freezing and thawing, and the state in which the accounts of a mint start. *)
LEMMA FreezeKeeps ==
    ASSUME TokenInv, FreezeStep
    PROVE  Kept
BY FreezeToggled, SettingUpdated, Zenon DEF FreezeStep

(* CloseAccount on accounts and on mints. *)
LEMMA CloseKeeps ==
    ASSUME TokenInv, CloseStep
    PROVE  Kept
BY ClosedAccount, ClosedMint, Zenon DEF CloseStep

(* The CPI guard and required memos. *)
LEMMA GuardKeeps ==
    ASSUME TokenInv, GuardStep
    PROVE  Kept
BY NothingDone, MemoToggled, GuardToggled, Zenon DEF GuardStep

(* The settings of mints. *)
LEMMA PointerKeeps ==
    ASSUME TokenInv, PointerStep
    PROVE  Kept
BY SettingUpdated, Zenon DEF PointerStep

(* SyncNative, WithdrawExcessLamports and Reallocate. *)
LEMMA LamportKeeps ==
    ASSUME TokenInv, LamportStep
    PROVE  Kept
BY NativeSynced, ExcessWithdrawn, Reallocated, Zenon DEF LamportStep

(* Fees that are set, harvested and withdrawn. *)
LEMMA FeeKeeps ==
    ASSUME TokenInv, FeeStep
    PROVE  Settled
BY EpochPassed, HarvestedToMint, FeeSet, WithdrawnFromMint, WithdrawnFromAccounts, KeptSettles DEF FeeStep

(* The associated token account program. *)
LEMMA AtaKeeps ==
    ASSUME TokenInv, AtaStep
    PROVE  Kept
<1>1. (\E a, wallet, m : FindExisting(a, wallet, m)) => Kept
  BY NothingDone DEF FindExisting
<1> QED
  BY <1>1, CreatedAssociated, Recovered, Zenon DEF AtaStep

(* Every step keeps the invariant and the supply of every mint. *)
LEMMA StepSettles ==
    ASSUME TokenInv, [AtaNext]_vars
    PROVE  Settled
BY ChainKeeps, MintSetupKeeps, AccountSetupKeeps, TokenKeeps, AllowanceKeeps, AuthorityKeeps, FreezeKeeps,
   CloseKeeps, LamportKeeps, GuardKeeps, FeeKeeps, PointerKeeps, AtaKeeps, NothingDone, KeptSettles, Zenon DEF AtaNext, Next

(* No account, no mint, no token. *)
LEMMA InitKept == Init => TokenInv /\ SupplyInv
<1> SUFFICES ASSUME Init PROVE TokenInv /\ SupplyInv
  BY Zenon
<1>1. AccountTypes
  BY DEF Init, AccountTypes
<1>2. \A a \in TokenKeys : AccountInv(a)
  BY DEF Init, AccountInv, Derived, Allowed, Backed, Live
<1>3. NoFee \in TransferFee
  <2>1. 0 \in 0 .. MaxEpoch + 2 /\ 0 \in 0 .. MaxAmount /\ 0 \in 0 .. OneInBasisPoints
    BY BoundsAssumption
  <2> QED
    BY <2>1, Zenon DEF NoFee, TransferFee
<1>4. MintInv
  BY <1>3, BoundsAssumption DEF Init, MintInv
<1>5. ASSUME NEW m \in MintKeys
      PROVE  Total(Held(m), TokenKeys) = 0
  <2>1. \A a \in TokenKeys \ {} : Held(m)[a] = 0
    BY Zenon DEF Held, Holding, Live, Init
  <2>2. Total(Held(m), TokenKeys) = Total(Held(m), {})
    BY <2>1, TotalPart, Zenon
  <2> QED
    BY <2>2, TotalEmpty, Zenon
<1>6. SupplyInv
  BY <1>5 DEF SupplyInv, Init
<1> QED
  BY <1>1, <1>2, <1>4, <1>6 DEF TokenInv

(* The invariant holds always, and every step is as Upheld says. *)
LEMMA TokenInvariant == AtaSpec => [](TokenInv /\ SupplyInv) /\ [][Upheld]_vars
<1>1. TokenInv /\ SupplyInv /\ [AtaNext]_vars => (TokenInv /\ SupplyInv)'
  BY StepSettles, Zenon DEF Settled, Upheld
<1>2. TokenInv /\ SupplyInv /\ [AtaNext]_vars => [Upheld]_vars
  BY StepSettles, Zenon DEF Settled
<1> QED
  BY <1>1, <1>2, InitKept, PTL DEF AtaSpec
-----------------------------------------------------------------------------
(* No instruction makes or loses a token: for any number of accounts and   *)
(* mints, the supply of a mint is what its accounts hold and withhold and  *)
(* what has been harvested to it (process_mint_to, process_burn and the    *)
(* fees of process_transfer and of the withdrawals).                       *)
THEOREM NoTokenIsMadeOrLost == AtaSpec => []SupplyIsHeld
<1>1. TokenInv /\ SupplyInv => SupplyIsHeld
  <2> SUFFICES ASSUME TokenInv, SupplyInv, NEW m \in MintKeys \ {NativeMint}
               PROVE  supply[m] = mint_withheld[m]
                                  + MapThenSumSet(LAMBDA a : amount[a] + withheld_amount[a], Holders(m))
    BY Zenon DEF SupplyIsHeld
  <2> DEFINE H == Holders(m)
             all == [a \in TokenKeys |-> amount[a] + withheld_amount[a]]
  <2>1. H \in SUBSET TokenKeys
    BY Zenon DEF Holders
  <2> DEFINE P(g) == g = [s \in SUBSET H |-> IF s = {} THEN 0
                                            ELSE (amount[Any(s)] + withheld_amount[Any(s)]) + g[s \ {Any(s)}]]
             sum == CHOOSE g : P(g)
  <2>2. MapThenSumSet(LAMBDA a : amount[a] + withheld_amount[a], H) = sum[H]
    BY Zenon DEF MapThenSumSet, MapThenFoldSet, Any
  <2>3. \A s \in SUBSET H : s # {} => Any(s) \in TokenKeys
    BY <2>1, Zenon DEF Any
  <2>4. \A g : Summing(all, H, g) <=> P(g)
    BY <2>3, Zenon DEF Summing
  <2>5. Summable(all, H)
    BY <2>1, TypeFacts, KeysAssumption, FS_Subset DEF Summable
  <2>6. Summing(all, H, sum)
    <3>1. \E g : P(g)
      BY <2>4, <2>5, SummingExists, Zenon
    <3> HIDE DEF P
    <3>2. P(sum)
      BY <3>1, Zenon
    <3> HIDE DEF sum
    <3> QED
      BY <2>4, <3>2, Zenon
  <2> HIDE DEF P, sum
  <2>7. MapThenSumSet(LAMBDA a : amount[a] + withheld_amount[a], H) = Total(all, H)
    BY <2>2, <2>5, <2>6, SummingUnique, Zenon
  <2>8. Total(all, H) = Total(Held(m), H)
    <3>1. \A a \in H : all[a] = Held(m)[a]
      BY <2>1, Zenon DEF Held, Holding, Holders
    <3> HIDE DEF all
    <3> QED
      BY <3>1, TotalSame, Zenon
  <2>9. Total(Held(m), TokenKeys) = Total(Held(m), H)
    <3>1. \A a \in TokenKeys \ H : Held(m)[a] = 0
      BY Zenon DEF Held, Holding, Holders
    <3> HIDE DEF H
    <3> QED
      BY <2>1, <3>1, TotalPart, Zenon
  <2>10. supply[m] = mint_withheld[m] + Total(Held(m), TokenKeys)
    BY Zenon DEF SupplyInv
  <2> QED
    BY <2>7, <2>8, <2>9, <2>10, Zenon
<1> QED
  BY <1>1, TokenInvariant, PTL

(* The account at a derived address always belongs to the wallet it is     *)
(* derived from, and is of that mint: whatever instructions are sent to    *)
(* the token program and to the associated token account program.          *)
THEOREM AssociatedAccountsAreTheWallets == AtaSpec => []AtaIsTheWallets
<1>1. TokenInv => AtaIsTheWallets
  BY AccountFacts, Zenon DEF AtaIsTheWallets, Derived
<1> QED
  BY <1>1, TokenInvariant, PTL

(* However its owner approves and the delegate spends, in any number of    *)
(* transfers and burns, a delegate takes no more than it was approved for  *)
(* (process_transfer, process_burn, process_approve).                      *)
THEOREM DelegatesStayWithinAllowance == AtaSpec => []WithinAllowance
<1>1. TokenInv => WithinAllowance
  BY AccountFacts, Zenon DEF WithinAllowance, Allowed
<1> QED
  BY <1>1, TokenInvariant, PTL

(* Every wrapped lamport can be paid out, on top of the rent in reserve,   *)
(* after any instructions (process_transfer, process_sync_native,          *)
(* process_reallocate, process_close_account, process_recover_nested).     *)
THEOREM WrappedLamportsAreThere == AtaSpec => []NativeIsBacked
<1>1. TokenInv => NativeIsBacked
  BY AccountFacts, Zenon DEF NativeIsBacked, Backed
<1> QED
  BY <1>1, TokenInvariant, PTL

(* The fee in force is settled when an epoch begins: however often the     *)
(* authority sets another one (process_set_transfer_fee).                  *)
THEOREM FeesAreSettled == AtaSpec => FeeSettledForEpoch
<1>1. [Upheld]_vars => [\A m \in MintKeys : FeeSettled(m)]_vars
  BY Zenon DEF Upheld
<1> QED
  BY <1>1, TokenInvariant, PTL DEF FeeSettledForEpoch, FeeSettled

(* Nothing but thawing or closing happens to a frozen account, whatever    *)
(* the order of instructions (the is_frozen checks of the processor).      *)
THEOREM FrozenAccountsStay == AtaSpec => FrozenStays
<1>1. [Upheld]_vars => [\A a \in TokenKeys : StaysFrozen(a)]_vars
  BY Zenon DEF Upheld, Steady
<1> QED
  BY <1>1, TokenInvariant, PTL DEF FrozenStays, StaysFrozen

(* A program can use the owner's signature on a guarded account neither to *)
(* take tokens nor to hand them to somebody (the cpi_guard checks).        *)
THEOREM GuardedAccountsHold == AtaSpec => CpiGuardHolds
<1>1. [Upheld]_vars => [\A a \in TokenKeys : StaysGuarded(a)]_vars
  BY Zenon DEF Upheld, Steady
<1> QED
  BY <1>1, TokenInvariant, PTL DEF CpiGuardHolds, StaysGuarded
=============================================================================
