----------------------------- MODULE Precompiles -----------------------------
(***************************************************************************)
(* The precompiled contracts with which a contract uses Solana: SplToken,  *)
(* CallSolana and QueryAccount (executor/precompile_extension).            *)
(*                                                                         *)
(* They turn a call into Solana instructions.  A transaction that runs in  *)
(* iterations queues them, and executes them when it ends; until then it   *)
(* answers the contract from an emulation of the queue                     *)
(* (executor/state.rs, external_programs).  A transaction that runs at     *)
(* once invokes each of them immediately, and can then not be reverted     *)
(* (executor/synced_state.rs).  The variable chain is what both stand for: *)
(* the accounts, as if every instruction were executed when it is asked    *)
(* for, and undone when its frame is reverted.                             *)
(***************************************************************************)
EXTENDS Integers, FiniteSets, SequencesExt

CONSTANTS
    Start,          \* the accounts before the transaction
    Calls,          \* the calls of the precompiles
    Executions,     \* the calls of CallSolana.execute
    MaxCalls,       \* bound: calls that change something
    MaxDepth        \* bound: frames that are open

VARIABLES
    mode,           \* "queued" or "synced"
    status,         \* "running", "done", "failed"
    accounts,       \* the accounts, as the Solana transaction has them
    queue,          \* ExecutorState.actions: the external instructions
    stack,          \* the length of the queue at each open snapshot
    return_data,    \* whose return data the Solana runtime holds
    chain,          \* the accounts that the contract is entitled to see
    saved,          \* the value of chain at each open snapshot
    made            \* number of calls that changed something

precompileVars == <<mode, status, accounts, queue, stack, return_data, chain, saved, made>>
-----------------------------------------------------------------------------
(* Keys.  FAKE_OPERATOR stands for the operator in the queue.              *)
Operator == <<"operator">>
contract_pubkey(c) == <<"contract", c>>
ContractData(c, seed) == <<"ContractData", c, seed>>
AUTH(c, seed) == <<"AUTH", c, seed>>
PAYER(c) == <<"PAYER", c>>
None == <<>>

(* The base states of the token program, and the lengths of the accounts   *)
(* that hold them: an account with extensions is longer.                   *)
MintLen == 1
AccountLen == 2
ExtendedLen == 3
minimum_balance(space) == space

Blank == [kind |-> "none", mint |-> None, holder |-> None, amount |-> 0,
          delegate |-> None, delegated_amount |-> 0, frozen |-> FALSE]
Mint(authority, freeze, supply) ==
    [Blank EXCEPT !.kind = "mint", !.holder = authority, !.delegate = freeze, !.amount = supply]
Token(mint, holder, amount) ==
    [Blank EXCEPT !.kind = "account", !.mint = mint, !.holder = holder, !.amount = amount]

Account(lamports, owner, len, state) ==
    [lamports |-> lamports, owner |-> owner, len |-> len, state |-> state]
-----------------------------------------------------------------------------
(* Instructions: the program's operation, its accounts, the authority that *)
(* signs, and the number it carries.                                       *)
Ix(op, a, b, auth, n) == [op |-> op, a |-> a, b |-> b, auth |-> auth, n |-> n, owner |-> "-"]

system_transfer(from, to, n) == Ix("system_transfer", from, to, from, n)
allocate(k, space) == Ix("allocate", k, None, k, space)
assign(k, owner) == [Ix("assign", k, None, k, 0) EXCEPT !.owner = owner]

(* The accounts that the metas of an instruction name, and mark writable;  *)
(* those of authorities hold nothing that an instruction reads.            *)
Named(i) == {i.a, i.b} \cap DOMAIN accounts
Writable(i) ==
    IF i.op \in {"system_transfer", "transfer", "mint_to", "burn", "close_account"} THEN {i.a, i.b} ELSE {i.a}

Done(accs) == [ok |-> TRUE, accs |-> accs]
Error == [ok |-> FALSE, accs |-> <<>>]
Only(guard, accs) == IF guard THEN Done(accs) ELSE Error
-----------------------------------------------------------------------------
(* external_programs/system.rs: emulate. *)
SystemOps == {"system_transfer", "allocate", "assign"}

system(accs, i) ==
    LET from == accs[i.a]
    IN  CASE i.op = "system_transfer" ->
               Only(from.len = 0 /\ from.lamports >= i.n /\ from.owner = "system",
                    [accs EXCEPT ![i.a].lamports = @ - i.n, ![i.b].lamports = @ + i.n])
          [] i.op = "allocate" ->
               Only(from.len = 0 /\ from.owner = "system", [accs EXCEPT ![i.a].len = i.n])
          [] i.op = "assign" ->
               Only(from.owner = "system", [accs EXCEPT ![i.a].owner = i.owner])
-----------------------------------------------------------------------------
(* The token program.  The program of the chain reads accounts with        *)
(* extensions, empties a closed one and lets a delegate revoke; the        *)
(* processor that emulates it, of the spl-token crate, takes accounts of   *)
(* the exact length, only zeroes a closed one, and lets the owner revoke.  *)
Unpacked(a, kind, emulated) ==
    /\ a.owner = "token" /\ a.state.kind = kind
    /\ emulated => a.len = IF kind = "mint" THEN MintLen ELSE AccountLen

(* A delegate spends within its allowance, anyone else as the owner. *)
MaySpend(t, auth, n) == IF auth = t.delegate THEN n <= t.delegated_amount ELSE auth = t.holder
Spent(t, auth, n) ==
    IF auth # t.delegate THEN [t EXCEPT !.amount = @ - n]
    ELSE [t EXCEPT !.amount = @ - n, !.delegated_amount = @ - n,
                   !.delegate = IF t.delegated_amount = n THEN None ELSE @]

token(accs, i, emulated) ==
    LET a == accs[i.a]
        b == accs[i.b]
        Holds(acc) == Unpacked(acc, "account", emulated)
        Issues(acc) == Unpacked(acc, "mint", emulated)
        Fresh(len) == a.owner = "token" /\ a.state.kind = "none" /\ a.len = len
    IN  CASE i.op = "initialize_mint2" ->
               Only(Fresh(MintLen), [accs EXCEPT ![i.a].state = Mint(i.auth, i.b, 0)])
          [] i.op = "initialize_account3" ->
               Only(Fresh(AccountLen) /\ Issues(b), [accs EXCEPT ![i.a].state = Token(i.b, i.auth, 0)])
          [] i.op = "close_account" ->
               Only(Holds(a) /\ a.state.amount = 0 /\ i.auth = a.state.holder,
                    [accs EXCEPT ![i.b].lamports = @ + a.lamports,
                                 ![i.a] = Account(0, "system", IF emulated THEN a.len ELSE 0, Blank)])
          [] i.op = "approve" ->
               Only(Holds(a) /\ ~a.state.frozen /\ i.auth = a.state.holder,
                    [accs EXCEPT ![i.a].state.delegate = i.b, ![i.a].state.delegated_amount = i.n])
          [] i.op = "revoke" ->
               Only(/\ Holds(a) /\ ~a.state.frozen
                    /\ i.auth = a.state.holder \/ (i.auth = a.state.delegate /\ ~emulated),
                    [accs EXCEPT ![i.a].state.delegate = None, ![i.a].state.delegated_amount = 0])
          [] i.op = "transfer" ->
               Only(/\ Holds(a) /\ Holds(b) /\ a.state.mint = b.state.mint
                    /\ ~a.state.frozen /\ ~b.state.frozen
                    /\ a.state.amount >= i.n /\ MaySpend(a.state, i.auth, i.n),
                    [accs EXCEPT ![i.a].state = Spent(@, i.auth, i.n), ![i.b].state.amount = @ + i.n])
          [] i.op = "mint_to" ->
               Only(/\ Issues(a) /\ Holds(b) /\ b.state.mint = i.a
                    /\ ~b.state.frozen /\ i.auth = a.state.holder,
                    [accs EXCEPT ![i.a].state.amount = @ + i.n, ![i.b].state.amount = @ + i.n])
          [] i.op = "burn" ->
               Only(/\ Holds(a) /\ Issues(b) /\ a.state.mint = i.b /\ ~a.state.frozen
                    /\ a.state.amount >= i.n /\ MaySpend(a.state, i.auth, i.n),
                    [accs EXCEPT ![i.a].state = Spent(@, i.auth, i.n), ![i.b].state.amount = @ - i.n])
          [] i.op \in {"freeze_account", "thaw_account"} ->
               Only(/\ Holds(a) /\ Issues(b) /\ a.state.mint = i.b /\ i.auth = b.state.delegate
                    /\ a.state.frozen = (i.op = "thaw_account"),
                    [accs EXCEPT ![i.a].state.frozen = ~@])

(* Any other program: it takes lamports from the payer it is given. *)
foreign(accs, i) ==
    Only(accs[i.a].lamports >= i.n, [accs EXCEPT ![i.a].lamports = @ - i.n, ![i.b].lamports = @ + i.n])

execute(r, i, emulated) ==
    IF ~r.ok THEN r
    ELSE IF i.op \in SystemOps THEN system(r.accs, i)
    ELSE IF i.op = "foreign" THEN foreign(r.accs, i) ELSE token(r.accs, i, emulated)

(* The runtime executes instructions in their order. *)
invoke(r, ixs) == FoldLeft(LAMBDA s, i : execute(s, i, FALSE), r, ixs)
-----------------------------------------------------------------------------
(* ExecutorState::external_account: the queue is emulated for an account   *)
(* that one of its instructions writes, on copies of all that it names.    *)
Emulated == UNION {Named(queue[i]) : i \in 1 .. Len(queue)}

(* Mutant: only the first account of an instruction counts as written. *)
external_account_of_first(k) ==
    IF \A i \in 1 .. Len(queue) : k # queue[i].a THEN [ok |-> TRUE, account |-> accounts[k]]
    ELSE LET copies == Done([n \in Emulated |-> accounts[n]])
             r == FoldLeft(LAMBDA s, i : execute(s, i, TRUE), copies, queue)
         IN  [ok |-> r.ok, account |-> IF r.ok THEN r.accs[k] ELSE accounts[k]]

external_account(k) ==
    IF \A i \in 1 .. Len(queue) : k \notin Writable(queue[i]) THEN [ok |-> TRUE, account |-> accounts[k]]
    ELSE LET copies == Done([n \in Emulated |-> accounts[n]])
             r == FoldLeft(LAMBDA s, i : execute(s, i, TRUE), copies, queue)
         IN  [ok |-> r.ok, account |-> IF r.ok THEN r.accs[k] ELSE accounts[k]]

(* What the contract is entitled to see of an account. *)
entitled(k) == [ok |-> TRUE, account |-> chain.accs[k]]
-----------------------------------------------------------------------------
(* A precompile returns an error, or instructions and a value.             *)
Returns(ixs, value) == [ok |-> TRUE, ixs |-> ixs, value |-> value]
Nothing == [lamports |-> 0, owner |-> "-", len |-> 0, state |-> Blank]
Sent(ixs) == Returns(ixs, Nothing)
Err == [ok |-> FALSE, ixs |-> <<>>, value |-> Nothing]

create_account(k, account, space, owner) ==
    LET required_lamports == minimum_balance(space) - account.lamports
    IN  (IF required_lamports > 0 THEN <<system_transfer(Operator, k, required_lamports)>> ELSE <<>>)
            \o <<allocate(k, space), assign(k, owner)>>

unwrap_or(k, default) == IF k = None THEN default ELSE k

initialize_mint(c, read) ==
    LET k == ContractData(c.caller, c.seed)
    IN  IF ~read.ok \/ read.account.owner # "system" THEN Err
        ELSE Sent(create_account(k, read.account, MintLen, "token")
                     \o <<Ix("initialize_mint2", k, unwrap_or(c.target, contract_pubkey(c.caller)),
                             unwrap_or(c.authority, contract_pubkey(c.caller)), 0)>>)

initialize_account(c, read) ==
    LET k == ContractData(c.caller, c.seed)
    IN  IF ~read.ok \/ read.account.owner # "system" THEN Err
        ELSE Sent(create_account(k, read.account, AccountLen, "token")
                     \o <<Ix("initialize_account3", k, c.mint,
                             unwrap_or(c.authority, contract_pubkey(c.caller)), 0)>>)

createResource(c, read) ==
    IF ~read.ok THEN Err
    ELSE Sent(create_account(ContractData(c.caller, c.seed), read.account, c.amount, c.owner))

close_account(c) == Sent(<<Ix("close_account", c.source, Operator, contract_pubkey(c.caller), 0)>>)
approve(c) == Sent(<<Ix("approve", c.source, c.target, contract_pubkey(c.caller), c.amount)>>)
revoke(c) == Sent(<<Ix("revoke", c.source, None, contract_pubkey(c.caller), 0)>>)

transfer_by(c, signer) ==
    IF c.source = c.target \/ c.amount = 0 THEN Sent(<<>>)
    ELSE Sent(<<Ix("transfer", c.source, c.target, signer, c.amount)>>)
transfer(c) == transfer_by(c, contract_pubkey(c.caller))
transfer_with_seed(c) == transfer_by(c, AUTH(c.caller, c.seed))

mint_to(c) ==
    IF c.amount = 0 THEN Sent(<<>>)
    ELSE Sent(<<Ix("mint_to", c.mint, c.target, contract_pubkey(c.caller), c.amount)>>)
burn(c) ==
    IF c.amount = 0 THEN Sent(<<>>)
    ELSE Sent(<<Ix("burn", c.source, c.mint, contract_pubkey(c.caller), c.amount)>>)
freeze(c) == Sent(<<Ix("freeze_account", c.target, c.mint, contract_pubkey(c.caller), 0)>>)
thaw(c) == Sent(<<Ix("thaw_account", c.target, c.mint, contract_pubkey(c.caller), 0)>>)
-----------------------------------------------------------------------------
Address(k) == Returns(<<>>, [Nothing EXCEPT !.state.mint = k])
is_system_account(read) ==
    IF ~read.ok THEN Err
    ELSE Returns(<<>>, [Nothing EXCEPT !.len = IF read.account.owner = "system" THEN 1 ELSE 0])

(* A token account or a mint; the default value of an account that is not  *)
(* in use; an error for anything else.                                     *)
get_base(read, kind) ==
    IF ~read.ok THEN Err
    ELSE IF read.account.owner = "system" THEN Sent(<<>>)
    ELSE IF Unpacked(read.account, kind, FALSE)
         THEN Returns(<<>>, [Nothing EXCEPT !.state = read.account.state])
         ELSE Err
get_account(read) == get_base(read, "account")
get_mint(read) == get_base(read, "mint")

(* The account a call looks at before it answers. *)
Subject(c) ==
    IF c.f \in {"initializeMint", "initializeAccount", "createResource"}
    THEN ContractData(c.caller, c.seed) ELSE c.source

spl_token(c, read) ==
    CASE c.f = "initializeMint" -> initialize_mint(c, read)
      [] c.f = "initializeAccount" -> initialize_account(c, read)
      [] c.f = "closeAccount" -> close_account(c)
      [] c.f = "approve" -> approve(c)
      [] c.f = "revoke" -> revoke(c)
      [] c.f = "transfer" -> transfer(c)
      [] c.f = "transferWithSeed" -> transfer_with_seed(c)
      [] c.f = "mintTo" -> mint_to(c)
      [] c.f = "burn" -> burn(c)
      [] c.f = "freeze" -> freeze(c)
      [] c.f = "thaw" -> thaw(c)
      [] c.f = "findAccount" -> Address(ContractData(c.caller, c.seed))
      [] c.f = "isSystemAccount" -> is_system_account(read)
      [] c.f = "getAccount" -> get_account(read)
      [] c.f = "getMint" -> get_mint(read)

call_solana(c, read) ==
    CASE c.f = "createResource" -> createResource(c, read)
      [] c.f = "getNeonAddress" -> Address(contract_pubkey(c.caller))
      [] c.f = "getResourceAddress" -> Address(ContractData(c.caller, c.seed))
      [] c.f = "getExtAuthority" -> Address(AUTH(c.caller, c.seed))
      [] c.f = "getPayer" -> Address(PAYER(c.caller))

(* QueryAccount reads the account of the Solana transaction itself. *)
query_account(c) ==
    LET info == accounts[c.source]
    IN  IF c.f = "data" /\ (c.amount = 0 \/ c.amount > info.len) THEN Err ELSE Returns(<<>>, info)

Queries == {"info", "data"}
Tokens == {"initializeMint", "initializeAccount", "closeAccount", "approve", "revoke", "transfer",
           "transferWithSeed", "mintTo", "burn", "freeze", "thaw"}
Getters == {"findAccount", "isSystemAccount", "getAccount", "getMint"}
Changing == Tokens \cup {"createResource"}

(* call_precompile_extension: which contract is called, and how. *)
precompile(c, read) ==
    IF c.how = "value" \/ (c.how = "delegatecall" /\ c.f \notin Queries) THEN Err
    ELSE IF c.how = "staticcall" /\ c.f \in Changing THEN Err
    ELSE IF c.f \in Queries THEN query_account(c)
    ELSE IF c.f \in Tokens \cup Getters THEN spl_token(c, read) ELSE call_solana(c, read)

State(k) == IF mode = "queued" THEN external_account(k) ELSE [ok |-> TRUE, account |-> accounts[k]]
-----------------------------------------------------------------------------
PrecompileInit ==
    /\ mode \in {"queued", "synced"} /\ status = "running"
    /\ accounts = Start /\ queue = <<>> /\ stack = <<0>>
    /\ return_data = "none"
    /\ chain = Done(Start) /\ saved = <<Done(Start)>>
    /\ made = 0

(* SyncedExecutorState: what cannot be undone ends the whole transaction,  *)
(* which the Solana runtime rolls back.                                    *)
Panic ==
    /\ status' = "failed" /\ accounts' = Start
    /\ UNCHANGED <<mode, queue, stack, return_data, chain, saved, made>>

(* queue_external_instruction for each of the instructions of a call.      *)
queue_external_instructions(ixs) ==
    /\ chain' = invoke(chain, ixs)
    /\ IF mode = "queued"
       THEN queue' = queue \o ixs /\ accounts' = accounts /\ status' = status
       ELSE /\ queue' = queue
            /\ LET r == invoke(Done(accounts), ixs)
               IN  IF r.ok THEN accounts' = r.accs /\ status' = status
                   ELSE accounts' = Start /\ status' = "failed"
    /\ made' = made + 1
    /\ UNCHANGED <<mode, stack, return_data, saved>>

(* opcode_call_precompile_impl: an error reverts the frame of the call,    *)
(* which has queued nothing that stays.                                    *)
CallPrecompile(c) ==
    LET r == precompile(c, State(Subject(c)))
    IN  /\ status = "running" /\ made < MaxCalls
        /\ IF r.ok THEN r.ixs # <<>> /\ queue_external_instructions(r.ixs)
           ELSE mode = "synced" /\ Panic
-----------------------------------------------------------------------------
(* CallSolana.execute: the operator lends the caller's payer what it lacks *)
(* of the required lamports, and takes back what the program leaves it.    *)
execute_external_instruction(c) ==
    LET payer == PAYER(c.caller)
        lent == IF accounts[payer].lamports < c.required THEN c.required - accounts[payer].lamports ELSE 0
        lend == IF lent > 0 THEN <<system_transfer(Operator, payer, lent)>> ELSE <<>>
        r == invoke(Done(accounts), lend \o <<c.ix>>)
        left == IF r.ok THEN r.accs[payer].lamports ELSE 0
        drain == IF left > 0 THEN <<system_transfer(payer, Operator, left)>> ELSE <<>>
    IN  IF payer \in {c.ix.a, c.ix.b} THEN lend \o <<c.ix>> \o drain ELSE <<c.ix>>

(* The same, as it is meant: the operator pays for what the program takes, *)
(* and nothing is left to the payer.                                       *)
Settled(accs, c) ==
    LET payer == PAYER(c.caller)
        has == accs[payer].lamports
        lent == IF has < c.required THEN c.required - has ELSE 0
    IN  IF payer \notin {c.ix.a, c.ix.b} THEN execute(Done(accs), c.ix, FALSE)
        ELSE Only(lent <= accs[Operator].lamports /\ c.ix.n <= has + lent,
                  [accs EXCEPT ![Operator].lamports = @ + has - c.ix.n, ![payer].lamports = 0,
                               ![c.ix.b].lamports = @ + c.ix.n])

(* No call of the program itself, and none that names the operator; in a   *)
(* transaction that queues, UnavalableExternalSolanaCall.                  *)
CallSolana(c) ==
    /\ status = "running" /\ mode = "synced" /\ made < MaxCalls
    /\ IF \/ c.how \in {"value", "delegatecall", "staticcall"}
          \/ c.program = "evm_loader" \/ Operator \in {c.ix.a, c.ix.b}
       THEN Panic
       ELSE LET r == invoke(Done(accounts), execute_external_instruction(c))
            IN  /\ chain' = IF chain.ok THEN Settled(chain.accs, c) ELSE chain
                /\ IF r.ok THEN accounts' = r.accs /\ status' = status
                   ELSE accounts' = Start /\ status' = "failed"
                /\ return_data' \in {"none", "called program", "inner program"}
                /\ made' = made + 1
                /\ UNCHANGED <<mode, queue, stack, saved>>
-----------------------------------------------------------------------------
snapshot ==
    /\ status = "running" /\ Len(stack) < MaxDepth
    /\ stack' = Append(stack, Len(queue)) /\ saved' = Append(saved, chain)
    /\ UNCHANGED <<mode, status, accounts, queue, return_data, chain, made>>

truncate(actions, len) == SubSeq(actions, 1, len)

revert_snapshot ==
    /\ status = "running" /\ Len(stack) > 1
    /\ IF mode = "synced" THEN Panic
       ELSE /\ queue' = truncate(queue, Last(stack)) /\ chain' = Last(saved)
            /\ stack' = Front(stack) /\ saved' = Front(saved)
            /\ UNCHANGED <<mode, status, accounts, return_data, made>>

commit_snapshot ==
    /\ status = "running" /\ Len(stack) > 1
    /\ stack' = Front(stack) /\ saved' = Front(saved)
    /\ UNCHANGED <<mode, status, accounts, queue, return_data, chain, made>>

(* The outermost frame returns: ProgramAccountStorage::apply executes the  *)
(* queue; if an instruction fails, so does the Solana transaction.         *)
apply_state_change ==
    LET r == invoke(Done(accounts), queue)
    IN  /\ status = "running" /\ Len(stack) = 1
        /\ status' = IF r.ok THEN "done" ELSE "failed"
        /\ accounts' = IF r.ok THEN r.accs ELSE accounts
        /\ stack' = <<>> /\ saved' = <<>> /\ queue' = <<>>
        /\ UNCHANGED <<mode, return_data, chain, made>>

PrecompileNext ==
    \/ \E c \in Calls : CallPrecompile(c)
    \/ \E c \in Executions : CallSolana(c)
    \/ snapshot \/ revert_snapshot \/ commit_snapshot \/ apply_state_change
-----------------------------------------------------------------------------
(* Instructions that the emulation refuses and the chain does not: those   *)
(* of accounts with extensions, the reuse of an account that the queue has *)
(* closed, and a delegate that revokes its own allowance.                  *)
BeyondEmulation ==
    \E i \in 1 .. Len(queue) :
        \/ \E k \in Named(queue[i]) : accounts[k].len = ExtendedLen
        \/ queue[i].op = "revoke" /\ queue[i].auth # chain.accs[queue[i].a].state.holder
        \/ queue[i].op = "close_account"
              /\ \E j \in i + 1 .. Len(queue) : queue[j].op = "allocate" /\ queue[j].a = queue[i].a

(* executor/state.rs external_account against account_storage/apply.rs and *)
(* synced.rs: at any moment of a transaction, in any frame, whatever has   *)
(* been queued and undone before, a contract gets from the emulation the   *)
(* answer, the error or the instructions that it would get had everything  *)
(* been executed already, unless something failed or the emulation does    *)
(* not support it; then it gets an error, never another answer.  What it   *)
(* reads with QueryAccount is so only of accounts that nothing queued      *)
(* writes.  The accounts end as the contract was told.                     *)
EmulatedAsExecuted ==
    /\ status = "running" /\ chain.ok =>
          \A c \in Calls :
             LET got == precompile(c, State(Subject(c)))
             IN  IF c.f \in Queries
                 THEN (\A i \in 1 .. Len(queue) : c.source \notin Writable(queue[i]))
                         => accounts[c.source] = chain.accs[c.source]
                 ELSE got = precompile(c, entitled(Subject(c))) \/ (got = Err /\ BeyondEmulation)
    /\ status = "running" /\ mode = "synced" => chain = Done(accounts)
    /\ status = "done" => chain = Done(accounts)
    /\ status = "failed" => accounts = Start /\ (mode = "queued" => ~chain.ok)
=============================================================================
