---------------------------- MODULE ExtensionTlv ----------------------------
(***************************************************************************)
(* The bytes of a mint or a token account with extensions                  *)
(* (extension/mod.rs): the base, zeros up to the length of an account, the *)
(* account type, and entries of a type, a length and a value each.         *)
(*                                                                         *)
(* TokenProgram takes the extensions of an account as a set; this module   *)
(* shows that the bytes can be used so.  A byte is a digit of ByteBase,    *)
(* and indices into data count from zero.  A function that fails returns   *)
(* Failed, and an instruction in which one does changes nothing.           *)
(***************************************************************************)
EXTENDS Integers, FiniteSets, SequencesExt

CONSTANTS
    ByteBase,           \* 256
    MINT_LEN,           \* 82
    ACCOUNT_LEN,        \* 165
    MULTISIG_LEN,       \* 355
    TypeLen,            \* the length of the value of each sized extension
    Bytes,              \* with which values are filled
    MetadataLens,       \* the lengths of metadata
    MaxLen              \* bound: the longest account that is created

VARIABLES
    data,               \* the bytes of the account
    written             \* history: what was last written for each type

tlvVars == <<data, written>>
-----------------------------------------------------------------------------
(* ExtensionType, by number; each belongs to one kind of account. *)
MintTypes == {1, 3, 4, 6, 9, 10, 12, 14, 16, 18, 19}
AccountTypes == {2, 5, 7, 8, 11, 13, 15, 17}
Uninitialized == 0
TransferFeeConfig == 1
TransferFeeAmount == 2
ConfidentialTransferMint == 4
ConfidentialTransferAccount == 5
ImmutableOwner == 7
MemoTransfer == 8
NonTransferable == 9
CpiGuard == 11
NonTransferableAccount == 13
TransferHook == 14
TransferHookAccount == 15
ConfidentialTransferFeeConfig == 16
ConfidentialTransferFeeAmount == 17
MetadataPointer == 18
TokenMetadata == 19
ExtensionType == {Uninitialized} \cup MintTypes \cup AccountTypes

(* The kinds of account, and the account type that is written for them. *)
Mint == 1
Account == 2
get_account_type(t) == IF t \in MintTypes THEN Mint ELSE IF t \in AccountTypes THEN Account ELSE 0
BaseLen(S) == IF S = Mint THEN MINT_LEN ELSE ACCOUNT_LEN

Failed == <<>>
Zeros(n) == [i \in 1 .. n |-> 0]
Number(d, i) == d[i + 1] + ByteBase * d[i + 2]
Le(n) == <<n % ByteBase, n \div ByteBase>>
Written(d, offset, bytes) ==
    SubSeq(d, 1, offset) \o bytes \o SubSeq(d, offset + Len(bytes) + 1, Len(d))

(* AccountInfo::realloc without zero_init; the bytes beyond are still zero. *)
resize(d, len) == IF len <= Len(d) THEN SubSeq(d, 1, len) ELSE d \o Zeros(len - Len(d))
-----------------------------------------------------------------------------
HEADER_LEN == 4         \* of an entry: its type and its length
BASE_ACCOUNT_AND_TYPE_LENGTH == ACCOUNT_LEN + 1

adjust_len_for_multisig(len) == IF len = MULTISIG_LEN THEN len + 2 ELSE len
add_type_and_length_to_len(len) == len + HEADER_LEN

(* Where an entry of type t starts, or is to be written; -1 when it fails. *)
RECURSIVE find(_, _, _, _)
find(tlv, t, init, start) ==
    IF Len(tlv) <= start \/ Len(tlv) < start + HEADER_LEN THEN -1
    ELSE LET found == Number(tlv, start)
         IN  IF found = t \/ (found = Uninitialized /\ init) THEN start
             ELSE IF \/ found = Uninitialized \/ found \notin ExtensionType
                     \/ get_account_type(found) # get_account_type(t) THEN -1
             ELSE find(tlv, t, init, start + HEADER_LEN + Number(tlv, start + 2))
get_extension_indices(tlv, t, init) == find(tlv, t, init, 0)

(* The types of the entries, and the bytes they take. *)
RECURSIVE collect(_, _, _)
collect(tlv, start, types) ==
    IF \/ Len(tlv) < start + 2 \/ Number(tlv, start) = Uninitialized
    THEN [ok |-> TRUE, extension_types |-> types, used_len |-> start]
    ELSE IF \/ Number(tlv, start) \notin ExtensionType \/ Len(tlv) < start + HEADER_LEN
            \/ Len(tlv) < start + HEADER_LEN + Number(tlv, start + 2)
    THEN [ok |-> FALSE, extension_types |-> types, used_len |-> start]
    ELSE collect(tlv, start + HEADER_LEN + Number(tlv, start + 2),
                 Append(types, Number(tlv, start)))
get_tlv_data_info(tlv) == collect(tlv, 0, <<>>)

(* Zero when there is none. *)
get_first_extension_type(tlv) == IF Len(tlv) <= 2 THEN Uninitialized ELSE Number(tlv, 0)

has_extension(tlv, t) ==
    LET at == get_extension_indices(tlv, t, FALSE)
    IN  at # -1 /\ Len(tlv) >= at + HEADER_LEN + Number(tlv, at + 2)
get_extension_bytes(tlv, t) ==
    LET at == get_extension_indices(tlv, t, FALSE)
    IN  SubSeq(tlv, at + HEADER_LEN + 1, at + HEADER_LEN + Number(tlv, at + 2))
-----------------------------------------------------------------------------
get_tlv_data(d) == SubSeq(d, BASE_ACCOUNT_AND_TYPE_LENGTH + 1, Len(d))
with_tlv(d, tlv) == IF tlv = Failed THEN Failed ELSE SubSeq(d, 1, BASE_ACCOUNT_AND_TYPE_LENGTH) \o tlv
account_type(d) == d[BASE_ACCOUNT_AND_TYPE_LENGTH]

check_min_len_and_not_multisig(d, S) == Len(d) # MULTISIG_LEN /\ Len(d) >= BaseLen(S)

(* Nothing follows the base, or the padding, the account type and entries. *)
type_and_tlv_indices(d, S) ==
    /\ Len(d) > BASE_ACCOUNT_AND_TYPE_LENGTH
    /\ \A i \in BaseLen(S) + 1 .. ACCOUNT_LEN : d[i] = 0

(* The base: a mint has is_initialized in its last byte, where an account  *)
(* has a key; an account has its state beyond the length of a mint.        *)
is_initialized(d, S) == d[BaseLen(S)] # 0

unpack(d, S) ==
    /\ check_min_len_and_not_multisig(d, S) /\ is_initialized(d, S)
    /\ Len(d) # BaseLen(S) => type_and_tlv_indices(d, S) /\ account_type(d) = S

unpack_uninitialized(d, S) ==
    /\ check_min_len_and_not_multisig(d, S) /\ ~is_initialized(d, S)
    /\ Len(d) # BaseLen(S) =>
          /\ type_and_tlv_indices(d, S) /\ account_type(d) = 0
          /\ get_first_extension_type(get_tlv_data(d)) \in
                {Uninitialized} \cup {t \in ExtensionType : get_account_type(t) = S}

pack_base(d, S, key) ==
    IF S = Mint THEN Written(d, MINT_LEN - 1, <<1>>)
    ELSE Written(Written(d, MINT_LEN - 1, <<key>>), ACCOUNT_LEN - 1, <<1>>)

init_account_type(d, S) ==
    IF Len(d) = BaseLen(S) THEN d
    ELSE IF get_first_extension_type(get_tlv_data(d)) \in
               {Uninitialized} \cup {t \in ExtensionType : get_account_type(t) = S}
    THEN Written(d, ACCOUNT_LEN, <<S>>) ELSE Failed

set_account_type(d, S) ==
    IF \/ ~check_min_len_and_not_multisig(d, S) \/ ~type_and_tlv_indices(d, S)
       \/ S = Account /\ ~is_initialized(d, S)
       \/ account_type(d) \notin {0, S}
    THEN Failed ELSE Written(d, ACCOUNT_LEN, <<S>>)
-----------------------------------------------------------------------------
(* Writes the type and the length of an entry; the value is still old. *)
alloc(tlv, t, length, overwrite) ==
    LET at == get_extension_indices(tlv, t, TRUE)
    IN  IF \/ at = -1 \/ Len(tlv) - at < add_type_and_length_to_len(length)
           \/ length >= ByteBase * ByteBase
           \/ Number(tlv, at) = t /\ (~overwrite \/ Number(tlv, at + 2) # length)
        THEN Failed ELSE Written(tlv, at, Le(t) \o Le(length))

(* Mutant: the entries behind are not moved when an entry grows. *)
realloc_in_place(tlv, t, length) ==
    LET at == get_extension_indices(tlv, t, FALSE)
    IN  IF at = -1 \/ Len(tlv) < at + HEADER_LEN + length THEN Failed
        ELSE Written(tlv, at + 2, Le(length))

(* Moves the entries behind, and clears what the entry has gained or what  *)
(* is left over at the end.                                                *)
realloc(tlv, t, length) ==
    LET at == get_extension_indices(tlv, t, FALSE)
        info == get_tlv_data_info(tlv)
        tlv_len == info.used_len
        old_length == Number(tlv, at + 2)
        old_end == at + HEADER_LEN + old_length
        new_end == at + HEADER_LEN + length
        moved == Written(Written(tlv, at + 2, Le(length)), new_end, SubSeq(tlv, old_end + 1, tlv_len))
    IN  IF \/ at = -1 \/ ~info.ok \/ length >= ByteBase * ByteBase
           \/ old_length < length /\ tlv_len + length - old_length > Len(tlv)
        THEN Failed
        ELSE IF old_length > length
        THEN Written(moved, tlv_len - (old_length - length), Zeros(old_length - length))
        ELSE Written(moved, old_end, Zeros(length - old_length))

put_value(tlv, t, v) ==
    IF tlv = Failed THEN Failed
    ELSE Written(tlv, get_extension_indices(tlv, t, FALSE) + HEADER_LEN, v)

init_extension(d, t, v, overwrite) ==
    with_tlv(d, put_value(alloc(get_tlv_data(d), t, Len(v), overwrite), t, v))

realloc_variable_len_extension(d, t, v) ==
    with_tlv(d, put_value(realloc(get_tlv_data(d), t, Len(v)), t, v))
-----------------------------------------------------------------------------
(* The lengths that accounts must have. *)
try_get_total_tlv_len(types) ==
    FoldSet(LAMBDA t, sum : sum + add_type_and_length_to_len(TypeLen[t]), 0, types)

try_calculate_account_len(types, S) ==
    IF types = {} THEN BaseLen(S)
    ELSE adjust_len_for_multisig(try_get_total_tlv_len(types) + BASE_ACCOUNT_AND_TYPE_LENGTH)

try_get_new_account_len(d, t, length) ==
    LET tlv == get_tlv_data(d)
        old == IF has_extension(tlv, t)
               THEN add_type_and_length_to_len(Len(get_extension_bytes(tlv, t))) ELSE 0
    IN  adjust_len_for_multisig(get_tlv_data_info(tlv).used_len + BASE_ACCOUNT_AND_TYPE_LENGTH
                                - old + add_type_and_length_to_len(length))

get_required_init_account_extensions(types) ==
    {CASE t = TransferFeeConfig -> TransferFeeAmount
       [] t = NonTransferable -> NonTransferableAccount
       [] t = TransferHook -> TransferHookAccount :
        t \in types \cap {TransferFeeConfig, NonTransferable, TransferHook}}

check_for_invalid_mint_extension_combinations(types) ==
    IF ConfidentialTransferFeeConfig \in types
    THEN {TransferFeeConfig, ConfidentialTransferMint} \subseteq types
    ELSE ~({TransferFeeConfig, ConfidentialTransferMint} \subseteq types)

(* Grows the account before the entry, or cuts it after. *)
alloc_and_serialize(d, t, v, overwrite) ==
    LET len == try_get_new_account_len(d, t, Len(v))
        exists == has_extension(get_tlv_data(d), t)
        grown == IF Len(d) >= len THEN d
                 ELSE IF ~exists /\ Len(d) <= ACCOUNT_LEN THEN set_account_type(resize(d, len), Mint)
                 ELSE resize(d, len)
        packed == IF exists THEN realloc_variable_len_extension(grown, t, v)
                  ELSE init_extension(grown, t, v, FALSE)
    IN  IF ~unpack(d, Mint) \/ (exists /\ ~overwrite) \/ grown = Failed \/ packed = Failed
        THEN Failed ELSE resize(packed, len)
-----------------------------------------------------------------------------
Value(t, b) == [i \in 1 .. TypeLen[t] |-> b]
None == [t \in {} |-> <<>>]
Types == Range(get_tlv_data_info(get_tlv_data(data)).extension_types)

(* An instruction that writes the entries of new and leaves d. *)
Done(d, new) ==
    /\ d # Failed /\ data' = d
    /\ written' = [t \in DOMAIN written \cup DOMAIN new |->
                      IF t \in DOMAIN new THEN new[t] ELSE written[t]]

(* The instructions that initialize an extension before the mint, and      *)
(* InitializeImmutableOwner before the account.                            *)
InitializeExtension(t, b) ==
    /\ t \in DOMAIN TypeLen \cap (MintTypes \cup {ImmutableOwner})
    /\ unpack_uninitialized(data, get_account_type(t))
    /\ Done(init_extension(data, t, Value(t, b), TRUE), [x \in {t} |-> Value(t, b)])

InitializeMint ==
    /\ unpack_uninitialized(data, Mint)
    /\ get_tlv_data_info(get_tlv_data(data)).ok
    /\ try_calculate_account_len(Types, Mint) = Len(data)
    /\ check_for_invalid_mint_extension_combinations(Types)
    /\ Done(init_account_type(pack_base(data, Mint, 1), Mint), None)

(* The extensions come from the mint, and start with a default value. *)
InitializeAccount(required, key) ==
    LET extend(d, t) == IF d = Failed THEN Failed ELSE init_extension(d, t, Value(t, 0), TRUE)
        extended == FoldLeft(extend, data, required)
    IN  /\ unpack_uninitialized(data, Account)
        /\ try_calculate_account_len(Range(required), Account) <= Len(data)
        /\ extended # Failed
        /\ Done(init_account_type(pack_base(extended, Account, key), Account),
                [t \in Range(required) |-> Value(t, 0)])

(* Memos and the CPI guard: the extension is added when it is missing. *)
Enable(t, b) ==
    /\ unpack(data, Account)
    /\ Done(init_extension(data, t, Value(t, b), TRUE), [x \in {t} |-> Value(t, b)])

(* ConfigureAccount of confidential transfers, with fees on the mint or not. *)
Configure(fees, b) ==
    LET first == init_extension(data, ConfidentialTransferAccount,
                                Value(ConfidentialTransferAccount, b), FALSE)
        new == {ConfidentialTransferAccount} \cup (IF fees THEN {ConfidentialTransferFeeAmount} ELSE {})
    IN  /\ unpack(data, Account) /\ first # Failed
        /\ Done(IF fees THEN init_extension(first, ConfidentialTransferFeeAmount,
                                            Value(ConfidentialTransferFeeAmount, b), FALSE)
                ELSE first,
                [t \in new |-> Value(t, b)])

(* Any instruction that changes an extension through get_extension_mut. *)
Update(t, b) ==
    /\ t # TokenMetadata
    /\ unpack(data, get_account_type(t)) /\ has_extension(get_tlv_data(data), t)
    /\ Done(with_tlv(data, put_value(get_tlv_data(data), t, Value(t, b))),
            [x \in {t} |-> Value(t, b)])

(* The extensions that an initialized account may add. *)
Added == {MemoTransfer, CpiGuard, ConfidentialTransferAccount, ConfidentialTransferFeeAmount}

(* process_reallocate: grows the account, and writes no entry. *)
Reallocate(types) ==
    LET needed == try_calculate_account_len(Types \cup types, Account)
    IN  /\ unpack(data, Account) /\ get_tlv_data_info(get_tlv_data(data)).ok
        /\ Len(data) < needed
        /\ Done(set_account_type(resize(data, needed), Account), None)

Metadata(n, b) == [i \in 1 .. n |-> b]
InitializeMetadata(n, b) ==
    /\ unpack(data, Mint) /\ has_extension(get_tlv_data(data), MetadataPointer)
    /\ Done(alloc_and_serialize(data, TokenMetadata, Metadata(n, b), FALSE),
            [x \in {TokenMetadata} |-> Metadata(n, b)])
(* UpdateField, RemoveKey and UpdateAuthority. *)
UpdateMetadata(n, b) ==
    /\ unpack(data, Mint) /\ has_extension(get_tlv_data(data), TokenMetadata)
    /\ Done(alloc_and_serialize(data, TokenMetadata, Metadata(n, b), TRUE),
            [x \in {TokenMetadata} |-> Metadata(n, b)])
-----------------------------------------------------------------------------
TlvInit == written = None /\ \E len \in 1 .. MaxLen : data = Zeros(len)

TlvNext ==
    \/ InitializeMint
    \/ \E types \in SUBSET (DOMAIN TypeLen \cap {TransferFeeConfig, NonTransferable, TransferHook}),
          key \in {0, 1} :
          \E required \in SetToSeqs(get_required_init_account_extensions(types)) :
             InitializeAccount(required, key)
    \/ \E types \in SUBSET (DOMAIN TypeLen \cap Added) : Reallocate(types)
    \/ \E b \in Bytes :
          \/ \E t \in DOMAIN TypeLen : InitializeExtension(t, b) \/ Update(t, b)
          \/ \E t \in {MemoTransfer, CpiGuard} \cap DOMAIN TypeLen : Enable(t, b)
          \/ \E fees \in BOOLEAN : Configure(fees, b)
          \/ \E n \in MetadataLens : InitializeMetadata(n, b) \/ UpdateMetadata(n, b)
-----------------------------------------------------------------------------
(* What can be read of each extension. *)
ReadBack ==
    LET tlv == get_tlv_data(data) IN [t \in Types |-> get_extension_bytes(tlv, t)]

(* The entries of an account are a map from types to values: in whatever   *)
(* order extensions are initialized and changed, and metadata grown and    *)
(* cut, what is read back for each type is what was last written for it,   *)
(* and nothing else is there.  And the bytes are never taken for something *)
(* else: an account that got its type can be unpacked as that ever after   *)
(* (its length is not that of a multisignature), and not as another, and   *)
(* holds no entry of another kind.                                         *)
EntriesAreAMap ==
    /\ get_tlv_data_info(get_tlv_data(data)).ok
    /\ ReadBack = written
    /\ Len(data) > BASE_ACCOUNT_AND_TYPE_LENGTH /\ account_type(data) # 0 =>
          unpack(data, account_type(data))
    /\ \A S \in {Mint, Account} : unpack(data, S) =>
          /\ \A t \in DOMAIN written : get_account_type(t) = S
          /\ ~unpack(data, Mint + Account - S)
=============================================================================
