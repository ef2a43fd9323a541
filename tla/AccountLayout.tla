---------------------------- MODULE AccountLayout ----------------------------
(***************************************************************************)
(* The data of contract accounts and storage cell accounts, as the program *)
(* lays it out: a tag and a header version, a header that has grown with   *)
(* the versions, and behind it the storage and the code, or the cells.     *)
(* Code and cells have no length of their own: they reach to the end of    *)
(* the account.  Each field of a header is one item of the data here, and  *)
(* a cell is two, its subindex and its value.                              *)
(*                                                                         *)
(* Accounts are paid for: the operator tops up what must be exempt from    *)
(* rent, and gets back what conversions of legacy accounts set free.  The  *)
(* lamports of the operator itself are not counted.                        *)
(***************************************************************************)
EXTENDS Integers, SequencesExt, FiniteSetsExt

CONSTANTS
    Contracts,              \* addresses
    Groups,                 \* an index without its last byte: a cell account each
    Subs,                   \* the last byte of an index
    Words,                  \* what a storage entry may hold
    Codes,                  \* what may be deployed
    STORAGE_ENTRIES,        \* entries in the contract account
    MAX_DATA_INCREASE,      \* how much an account can grow in one instruction
    LEGACY_LEN,             \* length of LegacyEtherData
    LEGACY_CELL_LEN,        \* length of LegacyStorageData
    U8_MAX,                 \* cells that a new account can be created with
    MaxRevision,            \* bound on the changes of an account
    NoCode

ACCOUNT_PREFIX_LEN == 2
V0_LEN == 1
REVISION_LEN == V0_LEN + 1
TIMESTAMP_LEN == REVISION_LEN + 1
CELL_HEADER_LEN == 1

TAG_EMPTY == 0
TAG_ACCOUNT_CONTRACT == 70
TAG_STORAGE_CELL == 43
TAG_ACCOUNT_CONTRACT_DEPRECATED == 12
TAG_STORAGE_CELL_DEPRECATED == 42

(* The index 256 * g + s of a storage entry.  The first entries are in the *)
(* contract account.                                                       *)
Index == Groups \X Subs
IsStatic(index) == index[1] = 0 /\ index[2] < STORAGE_ENTRIES
Entries == 0 .. STORAGE_ENTRIES - 1

(* Legacy headers are longer than the ones that replace them. *)
ASSUME LayoutAssumption ==
    /\ LEGACY_LEN + 1 > ACCOUNT_PREFIX_LEN + TIMESTAMP_LEN
    /\ LEGACY_CELL_LEN + 1 > ACCOUNT_PREFIX_LEN + CELL_HEADER_LEN
    /\ MAX_DATA_INCREASE >= ACCOUNT_PREFIX_LEN /\ 0 \in Words
    /\ 0 \in Groups /\ Entries \subseteq Subs /\ Subs \subseteq Nat

VARIABLES
    contract,       \* the account of each contract
    cell,           \* the account of each group of storage entries
    deploying,      \* code that an iterative transaction is about to set
    abandoned,      \* history: code of transactions that were cancelled while setting it
    last            \* history: the last change of code or storage

layoutVars == <<contract, cell, deploying, abandoned, last>>

Did(kind, a, what) == last' = [kind |-> kind, contract |-> a, what |-> what]

minimum_balance(len) == len + 1
Zeros(n) == [i \in 1 .. n |-> 0]
Section(d, offset, len) == SubSeq(d, offset + 1, offset + len)
realloc(d, n) == IF n <= Len(d) THEN Section(d, 0, n) ELSE d \o Zeros(n - Len(d))

SystemAccount(lamports) == [owner |-> "system", data |-> <<>>, lamports |-> lamports]
tag(account) == account.data[1]
header_version(d) == d[2]
set_tag(d, t, version) == [d EXCEPT ![1] = t, ![2] = version]
HasTag(account, t) ==
    account.owner = "program" /\ Len(account.data) >= ACCOUNT_PREFIX_LEN /\ tag(account) = t
-----------------------------------------------------------------------------
(* System::create_pda_account: lamports that are there already count. *)
create_pda_account(account, space) ==
    [owner |-> "program", data |-> Zeros(space),
     lamports |-> Max({account.lamports, minimum_balance(space)})]

create_account_with_seed(account, space) == create_pda_account(account, space)

(* An account is topped up when its data has grown. *)
topped_up(account) == [account EXCEPT !.lamports = Max({@, minimum_balance(Len(account.data))})]

(* Mutant: the longer account is not paid for. *)
expand_header_unpaid(account, from_len, to_len, version) ==
    LET d == account.data
        moved == Section(d, 0, ACCOUNT_PREFIX_LEN + from_len) \o Zeros(to_len - from_len)
                 \o Section(d, ACCOUNT_PREFIX_LEN + from_len, Len(d) - ACCOUNT_PREFIX_LEN - from_len)
    IN  [account EXCEPT !.data = [moved EXCEPT ![2] = version]]

expand_header(account, from_len, to_len, version) ==
    LET d == account.data
        data_len == Len(d) - ACCOUNT_PREFIX_LEN - from_len
        moved == Section(d, 0, ACCOUNT_PREFIX_LEN + from_len) \o Zeros(to_len - from_len)
                 \o Section(d, ACCOUNT_PREFIX_LEN + from_len, data_len)
    IN  topped_up([account EXCEPT !.data = [moved EXCEPT ![2] = version]])
-----------------------------------------------------------------------------
(* ContractAccount *)
required_account_size(code) ==
    ACCOUNT_PREFIX_LEN + TIMESTAMP_LEN + STORAGE_ENTRIES + Len(code)

header_size(d) ==
    IF header_version(d) < 2 THEN V0_LEN
    ELSE IF header_version(d) = 2 THEN REVISION_LEN ELSE TIMESTAMP_LEN
storage_offset(d) == ACCOUNT_PREFIX_LEN + header_size(d)
code_offset(d) == storage_offset(d) + STORAGE_ENTRIES

generation(d) == d[ACCOUNT_PREFIX_LEN + 1]
revision(d) == IF header_version(d) < 2 THEN 0 ELSE d[ACCOUNT_PREFIX_LEN + REVISION_LEN]
code(d) == Section(d, code_offset(d), Len(d) - code_offset(d))
storage_value(d, i) == d[storage_offset(d) + i + 1]
set_storage_value(d, i, v) == [d EXCEPT ![storage_offset(d) + i + 1] = v]

header_upgrade(account) ==
    expand_header(account, header_size(account.data), TIMESTAMP_LEN, 3)

(* Mutant: a header without a revision stays as it is. *)
increment_revision_of_new_header(account) ==
    IF header_version(account.data) < 2 THEN account
    ELSE [account EXCEPT !.data[ACCOUNT_PREFIX_LEN + REVISION_LEN] = @ + 1]

increment_revision_of_contract(account) ==
    LET upgraded == IF header_version(account.data) < 2 THEN header_upgrade(account) ELSE account
    IN  [upgraded EXCEPT !.data[ACCOUNT_PREFIX_LEN + REVISION_LEN] = @ + 1]

update_timestamp_used_at(account, slot) ==
    LET upgraded == IF header_version(account.data) < 3 THEN header_upgrade(account) ELSE account
    IN  [upgraded EXCEPT !.data[ACCOUNT_PREFIX_LEN + TIMESTAMP_LEN] = slot]

(* Mutant: every step is as large as it may be. *)
allocate_whole_steps(account, bytes) ==
    LET space == Len(account.data) + MAX_DATA_INCREASE
    IN  IF Len(account.data) >= required_account_size(bytes) THEN account
        ELSE IF account.owner = "system" THEN create_pda_account(account, space)
        ELSE topped_up([account EXCEPT !.data = realloc(@, space)])

(* ContractAccount::allocate: one step of growth towards the size that the *)
(* code needs.                                                             *)
allocatable(account) == account.owner = "system" \/ HasTag(account, TAG_EMPTY)
allocate(account, bytes) ==
    LET required == required_account_size(bytes)
        space == Min({required, Len(account.data) + MAX_DATA_INCREASE})
    IN  IF Len(account.data) >= required THEN account
        ELSE IF account.owner = "system" THEN create_pda_account(account, space)
        ELSE topped_up([account EXCEPT !.data = realloc(@, space)])
Ready(account, bytes) == Len(account.data) >= required_account_size(bytes)

(* ContractAccount::initialize: copy_from_slice panics unless what follows *)
(* the storage is exactly as long as the code.                             *)
initializable(account, bytes) ==
    /\ HasTag(account, TAG_EMPTY)
    /\ Len(account.data) = required_account_size(bytes)
initialize_contract(account, gen, bytes) ==
    LET d == set_tag(account.data, TAG_ACCOUNT_CONTRACT, 3)
        headed == [d EXCEPT ![ACCOUNT_PREFIX_LEN + 1] = gen,
                            ![ACCOUNT_PREFIX_LEN + REVISION_LEN] = 1,
                            ![ACCOUNT_PREFIX_LEN + TIMESTAMP_LEN] = 0]
        begin == code_offset(d)
    IN  [account EXCEPT !.data =
           [i \in DOMAIN headed |-> IF i \in begin + 1 .. begin + Len(bytes)
                                    THEN bytes[i - begin] ELSE headed[i]]]
-----------------------------------------------------------------------------
(* StorageCell *)
cells_offset(d) == ACCOUNT_PREFIX_LEN + (IF header_version(d) < 2 THEN 0 ELSE CELL_HEADER_LEN)
cell_count(d, offset) == (Len(d) - offset) \div 2
cell_at(d, offset, n) == [subindex |-> d[offset + 2 * n - 1], value |-> d[offset + 2 * n]]
cells(d) == [n \in 1 .. cell_count(d, cells_offset(d)) |-> cell_at(d, cells_offset(d), n)]
cell_revision(d) == IF header_version(d) < 2 THEN 0 ELSE d[ACCOUNT_PREFIX_LEN + 1]

(* The first cell with the subindex counts. *)
lookup(cs, s) ==
    LET found == SelectInSeq(cs, LAMBDA c : c.subindex = s)
    IN  IF found = 0 THEN 0 ELSE cs[found].value
get(d, s) == lookup(cells(d), s)

update(d, s, v) ==
    LET found == SelectInSeq(cells(d), LAMBDA c : c.subindex = s)
    IN  IF found # 0 THEN [d EXCEPT ![cells_offset(d) + 2 * found] = v]
        ELSE IF v = 0 THEN d ELSE d \o <<s, v>>

increment_revision_of_cell(account) ==
    LET upgraded == IF header_version(account.data) < 2
                    THEN expand_header(account, 0, CELL_HEADER_LEN, 2) ELSE account
    IN  [upgraded EXCEPT !.data[ACCOUNT_PREFIX_LEN + 1] = @ + 1]

FlatCells(cs) == FlattenSeq([n \in 1 .. Len(cs) |-> <<cs[n].subindex, cs[n].value>>])
create_cells(account, cs) ==
    LET space == ACCOUNT_PREFIX_LEN + CELL_HEADER_LEN + 2 * Len(cs)
        new == create_account_with_seed(account, space)
    IN  [new EXCEPT !.data = <<TAG_STORAGE_CELL, 2, 1>> \o FlatCells(cs)]

(* sync_lamports comes before the revision, whose header is topped up for. *)
update_cells(account, changes) ==
    LET order == SetToSeq(DOMAIN changes)
        data == FoldLeft(LAMBDA d, s : update(d, s, changes[s]), account.data, order)
    IN  increment_revision_of_cell(topped_up([account EXCEPT !.data = data]))
-----------------------------------------------------------------------------
IsContract(a) == HasTag(contract[a], TAG_ACCOUNT_CONTRACT)
IsLegacy(a) == HasTag(contract[a], TAG_ACCOUNT_CONTRACT_DEPRECATED)

(* An iterative transaction that creates a contract comes to its last      *)
(* iterations: the address has no code yet.                                *)
BeginDeploy(a, bytes) ==
    /\ deploying[a] = NoCode /\ ~IsContract(a) /\ ~IsLegacy(a)
    /\ deploying' = [deploying EXCEPT ![a] = bytes]
    /\ UNCHANGED <<contract, cell, abandoned, last>>

(* ProgramAccountStorage::allocate; when all is Ready, apply_state_change  *)
(* in the same instruction.                                                *)
DeployIteration(a) ==
    LET grown == allocate(contract[a], deploying[a])
    IN  /\ deploying[a] # NoCode /\ allocatable(contract[a])
        /\ IF Ready(grown, deploying[a])
           THEN /\ initializable(grown, deploying[a])
                /\ contract' = [contract EXCEPT ![a] = initialize_contract(grown, 0, deploying[a])]
                /\ deploying' = [deploying EXCEPT ![a] = NoCode]
                /\ Did("deploy", a, deploying[a])
           ELSE contract' = [contract EXCEPT ![a] = grown] /\ UNCHANGED <<deploying, last>>
        /\ UNCHANGED <<cell, abandoned>>

(* The operator gives up; what was allocated stays. *)
CancelDeploy(a) ==
    /\ deploying[a] # NoCode
    /\ deploying' = [deploying EXCEPT ![a] = NoCode]
    /\ abandoned' = [abandoned EXCEPT ![a] = @ \cup {deploying[a]}]
    /\ UNCHANGED <<contract, cell, last>>

(* set_code of a transaction with a Solana call: everything at once. *)
set_code(a, bytes) ==
    LET grown == allocate(contract[a], bytes)
    IN  /\ ~IsContract(a) /\ ~IsLegacy(a) /\ allocatable(contract[a])
        /\ Ready(grown, bytes) /\ initializable(grown, bytes)
        /\ contract' = [contract EXCEPT ![a] = initialize_contract(grown, 0, bytes)]
        /\ Did("deploy", a, bytes)
        /\ UNCHANGED <<cell, deploying, abandoned>>
-----------------------------------------------------------------------------
WriteEntries(account, changes) ==
    FoldSet(LAMBDA s, acc : [acc EXCEPT !.data = set_storage_value(@, s, changes[s])],
            account, DOMAIN changes)

NonZero(changes) ==
    LET order == SetToSeq({s \in DOMAIN changes : changes[s] # 0})
    IN  [n \in 1 .. Len(order) |-> [subindex |-> order[n], value |-> changes[order[n]]]]

(* A cell account is only created for values other than zero. *)
WriteGroup(account, changes) ==
    IF account.owner = "system"
    THEN IF NonZero(changes) = <<>> THEN account ELSE create_cells(account, NonZero(changes))
    ELSE update_cells(account, changes)

(* StorageCell::create asserts that the number of cells fits into a byte. *)
creatable_cells(account, changes) == account.owner = "system" => Len(NonZero(changes)) <= U8_MAX

(* The changes to entries in the contract account, and to cells of a group. *)
StaticPart(changes) ==
    [s \in {i[2] : i \in {i \in DOMAIN changes : IsStatic(i)}} |-> changes[<<0, s>>]]
GroupPart(changes, g) ==
    [s \in {i[2] : i \in {i \in DOMAIN changes : i[1] = g /\ ~IsStatic(i)}} |-> changes[<<g, s>>]]

WritableContract(a) == IsContract(a) /\ revision(contract[a].data) < MaxRevision
WritableCell(a, g) ==
    \/ cell[a, g].owner = "system"
    \/ HasTag(cell[a, g], TAG_STORAGE_CELL) /\ cell_revision(cell[a, g].data) < MaxRevision

(* apply_storage: all changes of a transaction to the storage of a contract. *)
apply_storage(a, changes) ==
    LET entries == StaticPart(changes)
        touched == {g \in Groups : DOMAIN GroupPart(changes, g) # {}}
    IN  /\ DOMAIN entries # {} => WritableContract(a)
        /\ \A g \in touched :
              WritableCell(a, g) /\ creatable_cells(cell[a, g], GroupPart(changes, g))
        /\ contract' = IF DOMAIN entries = {} THEN contract
                       ELSE [contract EXCEPT ![a] =
                                increment_revision_of_contract(WriteEntries(@, entries))]
        /\ cell' = [k \in DOMAIN cell |-> IF k[1] = a /\ k[2] \in touched
                                          THEN WriteGroup(cell[k], GroupPart(changes, k[2]))
                                          ELSE cell[k]]
        /\ Did("write", a, changes)
        /\ UNCHANGED <<deploying, abandoned>>

(* set_storage of a transaction with a Solana call: a cell account is      *)
(* created for a zero, too.  At the end of the transaction,                *)
(* increment_revision_for_modified_contracts.                              *)
set_storage(a, index, v) ==
    /\ IF IsStatic(index)
       THEN /\ WritableContract(a)
            /\ contract' = [contract EXCEPT ![a] = increment_revision_of_contract(
                               [@ EXCEPT !.data = set_storage_value(@, index[2], v)])]
            /\ UNCHANGED cell
       ELSE /\ WritableCell(a, index[1])
            /\ cell' = [cell EXCEPT ![a, index[1]] =
                           IF @.owner = "system"
                           THEN create_cells(@, <<[subindex |-> index[2], value |-> v]>>)
                           ELSE update_cells(@, index[2] :> v)]
            /\ UNCHANGED contract
    /\ Did("write", a, index :> v)
    /\ UNCHANGED <<deploying, abandoned>>

(* update_timestamped_contracts, after a transaction that asked the time. *)
UseTimestamp(a, slot) ==
    /\ IsContract(a)
    /\ contract' = [contract EXCEPT ![a] = update_timestamp_used_at(@, slot)]
    /\ UNCHANGED <<cell, deploying, abandoned, last>>
-----------------------------------------------------------------------------
(* LegacyEtherData: generation and code size come first; the code size is  *)
(* zero in what is left of a contract that destroyed itself.               *)
legacy_generation(d) == d[2]
legacy_code_size(d) == d[3]
read_storage(d) ==
    IF legacy_code_size(d) = 0 THEN Zeros(STORAGE_ENTRIES)
    ELSE Section(d, 1 + LEGACY_LEN, STORAGE_ENTRIES)
read_code(d) ==
    IF legacy_code_size(d) = 0 THEN <<>>
    ELSE Section(d, 1 + LEGACY_LEN + STORAGE_ENTRIES, legacy_code_size(d))

read_cells(d) ==
    [n \in 1 .. cell_count(d, 1 + LEGACY_CELL_LEN) |-> cell_at(d, 1 + LEGACY_CELL_LEN, n)]

reduce_account_size(account, len) ==
    [account EXCEPT !.data = realloc(@, len), !.lamports = Min({@, minimum_balance(len)})]
kill_account(account) == SystemAccount(0)

(* update_ether_account_from_v1; an account without code is no contract. *)
converted_contract(account) ==
    LET d == account.data
        reduced == reduce_account_size(account, required_account_size(read_code(d)))
        fresh == initialize_contract([reduced EXCEPT !.data = Zeros(Len(@))],
                                     legacy_generation(d), read_code(d))
    IN  IF legacy_generation(d) > 0 \/ legacy_code_size(d) > 0
        THEN WriteEntries(fresh, [i \in Entries |-> read_storage(d)[i + 1]])
        ELSE kill_account(account)

(* Mutant: the cells of an earlier life of the contract come back. *)
converted_cell_of_any_generation(account, base) ==
    LET d == account.data
        len == ACCOUNT_PREFIX_LEN + CELL_HEADER_LEN + 2 * Len(read_cells(d))
    IN  [reduce_account_size(account, len) EXCEPT
            !.data = <<TAG_STORAGE_CELL, 2, 1>> \o FlatCells(read_cells(d))]

(* update_storage_account_from_v1: a cell of another generation of the     *)
(* contract is out of date.                                                *)
converted_cell(account, base) ==
    LET d == account.data
        len == ACCOUNT_PREFIX_LEN + CELL_HEADER_LEN + 2 * Len(read_cells(d))
    IN  IF generation(base.data) # legacy_generation(d) THEN kill_account(account)
        ELSE [reduce_account_size(account, len) EXCEPT
                 !.data = <<TAG_STORAGE_CELL, 2, 1>> \o FlatCells(read_cells(d))]

(* update_legacy_accounts, for the accounts of an instruction: a contract  *)
(* and some of its cells.  Contracts are converted before cells.           *)
UpdateLegacy(a, groups) ==
    LET base == IF IsLegacy(a) THEN converted_contract(contract[a]) ELSE contract[a]
        old == {g \in groups : HasTag(cell[a, g], TAG_STORAGE_CELL_DEPRECATED)}
    IN  /\ IsLegacy(a) \/ old # {}
        /\ old # {} => HasTag(base, TAG_ACCOUNT_CONTRACT)
        /\ contract' = [contract EXCEPT ![a] = base]
        /\ cell' = [k \in DOMAIN cell |-> IF k[1] = a /\ k[2] \in old
                                          THEN converted_cell(cell[k], base) ELSE cell[k]]
        /\ UNCHANGED <<deploying, abandoned, last>>
-----------------------------------------------------------------------------
(* What AccountStorage::code and AccountStorage::storage find, and what    *)
(* they will find of an account that is still in the legacy format.        *)
CodeOf(a) ==
    IF IsContract(a) THEN code(contract[a].data)
    ELSE IF IsLegacy(a) THEN read_code(contract[a].data) ELSE <<>>

GenerationOf(a) ==
    IF IsLegacy(a) THEN legacy_generation(contract[a].data)
    ELSE IF IsContract(a) THEN generation(contract[a].data) ELSE 0

StorageOf(a, index) ==
    IF IsStatic(index)
    THEN IF IsContract(a) THEN storage_value(contract[a].data, index[2])
         ELSE IF IsLegacy(a) THEN read_storage(contract[a].data)[index[2] + 1] ELSE 0
    ELSE LET account == cell[a, index[1]]
         IN  IF HasTag(account, TAG_STORAGE_CELL) THEN get(account.data, index[2])
             ELSE IF /\ HasTag(account, TAG_STORAGE_CELL_DEPRECATED)
                     /\ GenerationOf(a) = legacy_generation(account.data)
                  THEN lookup(read_cells(account.data), index[2]) ELSE 0

(* Code is set once and storage entries change by writes alone, whatever   *)
(* the formats, the order and the sizes in between: allocation in steps,   *)
(* longer headers that push storage, code and cells back, new cells and    *)
(* conversions of legacy accounts are invisible to a contract.             *)
State == INSTANCE ContractState WITH
    deployed <- [a \in Contracts |-> CodeOf(a)],
    stored <- [a \in Contracts |-> [i \in Index |-> StorageOf(a, i)]]
StateSpec == State!Spec

(* Every account of the program is exempt from rent after every            *)
(* instruction, as the runtime demands of the transaction: each growth of  *)
(* the data is paid for in the instruction that makes it.                  *)
RentExempt ==
    /\ \A a \in Contracts : contract[a].owner = "program" =>
          contract[a].lamports >= minimum_balance(Len(contract[a].data))
    /\ \A k \in DOMAIN cell : cell[k].owner = "program" =>
          cell[k].lamports >= minimum_balance(Len(cell[k].data))

RevisionOfContract(a) == IF IsContract(a) THEN revision(contract[a].data) ELSE 0
RevisionOfCell(k) == IF HasTag(cell[k], TAG_STORAGE_CELL) THEN cell_revision(cell[k].data) ELSE 0

(* What revisions promise to transactions that run over several            *)
(* instructions: whenever an entry of an account reads differently, the    *)
(* revision of that account does, too, on each of the paths that write it  *)
(* and even if the header had no revision before.                          *)
RevisionsTell ==
    [][\A a \in Contracts, i \in Index :
          StorageOf(a, i)' # StorageOf(a, i) =>
             IF IsStatic(i) THEN RevisionOfContract(a)' # RevisionOfContract(a)
             ELSE RevisionOfCell(<<a, i[1]>>)' # RevisionOfCell(<<a, i[1]>>)]_layoutVars

(* A deployment only fails for an account that is longer than its code     *)
(* needs, and an account is only longer than that when a transaction with  *)
(* longer code was cancelled at that address: no step allocates too much,  *)
(* and what a deployment finds half allocated is as good as new.           *)
DeploymentFits ==
    \A a \in Contracts :
        deploying[a] # NoCode /\ ~IsContract(a) =>
            LET grown == allocate(contract[a], deploying[a])
            IN  \/ Ready(grown, deploying[a]) => initializable(grown, deploying[a])
                \/ \E bytes \in abandoned[a] : Len(bytes) > Len(deploying[a])
=============================================================================
