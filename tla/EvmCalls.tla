------------------------------ MODULE EvmCalls ------------------------------
(***************************************************************************)
(* The call stack of the EVM (Machine, evm/mod.rs and evm/opcode.rs) over  *)
(* the log of the executor (ExecutorStateData, executor/state.rs).         *)
(*                                                                         *)
(* The executor keeps the changes of a transaction in a list of actions    *)
(* and remembers the length of the list at every open call.  A call that   *)
(* fails cuts the list off, one that succeeds forgets the length, and what *)
(* the code reads is recomputed from the backend and the list.  The        *)
(* machine keeps its frames by itself, so the two stacks have to agree on  *)
(* every path, the error paths included.                                   *)
(*                                                                         *)
(* Of the opcodes only those that change the log or the frames are kept;   *)
(* each address has one storage slot, of those kept in the contract        *)
(* account, and there is one chain id.                                     *)
(***************************************************************************)
EXTENDS Lists

CONSTANTS
    Accounts,       \* ordinary addresses
    Origin,         \* the one that signed: no code
    Precompile,     \* a precompiled contract (ecrecover, sha256, ...)
    Token,          \* the precompile extension NeonToken
    Values,         \* storage words, and amounts that are sent
    Funds,          \* balance of the origin
    InitialCode,    \* which accounts may be contracts beforehand
    MaxDepth,       \* bound on open calls
    MaxActions      \* bound on the length of the log

(* Code is only its size, 0 or 1, and Absent without a contract account. *)
Absent == -1

Addresses == Accounts \cup {Precompile, Token}

ASSUME AddressAssumption ==
    /\ Origin \in Accounts /\ Precompile # Token
    /\ {Precompile, Token} \cap Accounts = {}
ASSUME CodeAssumption == InitialCode \subseteq [Accounts \ {Origin} -> {Absent, 0, 1}]
ASSUME NumberAssumption ==
    /\ 0 \in Values /\ Values \subseteq Nat /\ Funds \in Values
    /\ MaxDepth \in Nat \ {0} /\ MaxActions \in Nat

VARIABLES
    backend,        \* the accounts as they are on chain, fixed meanwhile
    machine         \* the frames with the log, the snapshots and exit_status

vars == <<backend, machine>>
-----------------------------------------------------------------------------
(* What is read from a log *)

Act(kind, a, t, v) == [kind |-> kind, address |-> a, target |-> t, value |-> v]

Found(acts, kind, a) == {i \in DOMAIN acts : acts[i].kind = kind /\ acts[i].address = a}

ValueOf(acts, found) == MapThenSumSet(LAMBDA i : acts[i].value, found)

(* storage: the last write. *)
storage(acts, a) ==
    LET found == Found(acts, "EvmSetStorage", a)
    IN IF found = {} THEN backend.storage[a] ELSE acts[Max(found)].value

transient_storage(acts, a) ==
    LET found == Found(acts, "EvmSetTransientStorage", a)
    IN IF found = {} THEN 0 ELSE acts[Max(found)].value

nonce(acts, a) == backend.nonce[a] + Cardinality(Found(acts, "EvmIncrementNonce", a))

balance_internal(acts, a) ==
    backend.balance[a]
        + ValueOf(acts, {i \in DOMAIN acts : acts[i].kind = "Transfer" /\ acts[i].target = a})
        - ValueOf(acts, Found(acts, "Transfer", a) \cup Found(acts, "Burn", a))

(* code and code_size: the first EvmSetCode. *)
code(acts, a) ==
    LET found == Found(acts, "EvmSetCode", a)
    IN IF found = {} THEN backend.code[a] ELSE acts[Min(found)].value

(* A precompiled contract has no code, an extension one byte (0xFE). *)
has_code(acts, a) == a = Token \/ code(acts, a) > 0
-----------------------------------------------------------------------------
(* Snapshots of the log *)

Machine(frames, actions, stack, exit_status) ==
    [frames |-> frames, actions |-> actions, stack |-> stack, exit_status |-> exit_status]

push(m, action) == Machine(m.frames, Append(m.actions, action), m.stack, m.exit_status)

snapshot(m) == Machine(m.frames, m.actions, Append(m.stack, Len(m.actions)), m.exit_status)

commit_snapshot_forgotten(m) == m

commit_snapshot(m) == Machine(m.frames, m.actions, Front(m.stack), m.exit_status)

revert_snapshot_one_late(m) ==
    LET actions_len == Min({Len(m.actions), Last(m.stack) + 1})
    IN Machine(m.frames, SubSeq(m.actions, 1, actions_len), Front(m.stack), m.exit_status)

revert_snapshot(m) ==
    LET actions_len == Last(m.stack)
    IN Machine(m.frames, SubSeq(m.actions, 1, actions_len), Front(m.stack), m.exit_status)

NewFrame(contract, reason, is_static, runs) ==
    [contract |-> contract, reason |-> reason, is_static |-> is_static, runs |-> runs]

fork_not_inherited(m, frame) ==
    LET inherited == m.frames # <<>> /\ Last(m.frames).is_static
    IN Machine(Append(m.frames, [frame EXCEPT !.is_static = @ /\ ~inherited]), m.actions,
               m.stack, m.exit_status)

(* The new frame; runs says that its execution code is not empty. *)
fork(m, frame) == Machine(Append(m.frames, frame), m.actions, m.stack, m.exit_status)

Covered(m, source, target, value) ==
    value = 0 \/ source = target \/ balance_internal(m.actions, source) >= value

transfer(m, source, target, value) ==
    IF value = 0 \/ source = target THEN m
    ELSE push(m, Act("Transfer", source, target, value))

(* The end of a frame: join with the parent, or the end of the machine,    *)
(* whose status set_exit_status stores.                                    *)
leave(m, status) ==
    IF Len(m.frames) = 1 THEN Machine(m.frames, m.actions, m.stack, status)
    ELSE Machine(Front(m.frames), m.actions, m.stack, m.exit_status)

opcode_revert_impl(m) == leave(revert_snapshot(m), "Revert")

(* The parent gets the returned bytes; where they do not fit into its      *)
(* memory the opcode ends in an error, which is now the parent's error.    *)
Deliver(m, left, fits) ==
    IF fits \/ left.exit_status # "None" \/ Last(m.frames).reason = "Create"
    THEN left
    ELSE opcode_revert_impl(left)

Succeed(m, status, fits) == Deliver(m, leave(commit_snapshot(m), status), fits)
-----------------------------------------------------------------------------
(* Opcodes *)

Running == machine.exit_status = "None"
Frame == Last(machine.frames)
Self == Frame.contract
(* The code of an extension is the invalid opcode and nothing else. *)
Executing == Running /\ Frame.runs /\ Self # Token
MayCall == Executing /\ Len(machine.frames) < MaxDepth
(* The log is bounded by MaxActions. *)
Step(m) == Len(m.actions) <= MaxActions /\ machine' = m /\ UNCHANGED backend

opcode_sstore(v) ==
    /\ Executing
    /\ Step(IF Frame.is_static THEN opcode_revert_impl(machine)
            ELSE push(machine, Act("EvmSetStorage", Self, Self, v)))

opcode_tstore(v) ==
    /\ Executing
    /\ Step(IF Frame.is_static THEN opcode_revert_impl(machine)
            ELSE push(machine, Act("EvmSetTransientStorage", Self, Self, v)))

(* Any other opcode that ends in an error, opcode_invalid among them: the  *)
(* frame that runs is reverted.                                            *)
OpcodeError == Running /\ Frame.runs /\ Step(opcode_revert_impl(machine))

(* withdraw of NeonToken, not through a delegatecall and not in a static   *)
(* call; valid stands for its checks of the amount.                        *)
neon_token(m, value, valid, fits) ==
    IF Last(m.frames).contract # Token \/ Last(m.frames).is_static \/ value = 0 \/ ~valid
    THEN opcode_revert_impl(m)
    ELSE Succeed(push(push(m, Act("Burn", Token, Token, value)),
                      Act("ExternalInstruction", Token, Token, value)), "Return", fits)

opcode_call_precompile_impl(m, address, value, valid, fits) ==
    IF address = Precompile THEN Succeed(m, "Return", fits)
    ELSE IF address = Token THEN neon_token(m, value, valid, fits)
    ELSE m

Enter(contract, is_static, address) ==
    snapshot(fork(machine, NewFrame(contract, "Call", is_static,
                                    has_code(machine.actions, address))))

opcode_call(address, value, valid, fits) ==
    /\ MayCall
    /\ LET entered == Enter(address, Frame.is_static, address)
       IN Step(IF (Frame.is_static /\ value # 0) \/ ~Covered(entered, Self, address, value)
               THEN opcode_revert_impl(entered)
               ELSE opcode_call_precompile_impl(transfer(entered, Self, address, value),
                                                address, value, valid, fits))

opcode_callcode(address, value, fits) ==
    /\ MayCall
    /\ LET entered == Enter(Self, Frame.is_static, address)
       IN Step(IF balance_internal(machine.actions, Self) < value
               THEN opcode_revert_impl(entered)
               ELSE opcode_call_precompile_impl(entered, address, value, TRUE, fits))

opcode_delegatecall(address, fits) ==
    /\ MayCall
    /\ Step(opcode_call_precompile_impl(Enter(Self, Frame.is_static, address),
                                        address, 0, TRUE, fits))

opcode_staticcall(address, fits) ==
    /\ MayCall
    /\ Step(opcode_call_precompile_impl(Enter(address, TRUE, address),
                                        address, 0, TRUE, fits))

Occupied_by_code(acts, a) == has_code(acts, a)

Occupied(acts, a) == nonce(acts, a) # 0 \/ has_code(acts, a)

Created(m, caller, address, value) ==
    transfer(push(m, Act("EvmIncrementNonce", address, address, 0)), caller, address, value)

(* opcode_create and opcode_create2.  The caller's nonce is counted before *)
(* the snapshot: it stays when the creation fails.                         *)
opcode_create(address, value) ==
    /\ MayCall
    /\ LET counted == push(machine, Act("EvmIncrementNonce", Self, Self, 0))
           entered == snapshot(fork(counted, NewFrame(address, "Create", Frame.is_static, TRUE)))
       IN Step(IF Frame.is_static THEN opcode_revert_impl(machine)
               ELSE IF \/ Occupied(entered.actions, address)
                       \/ ~Covered(entered, Self, address, value)
                    THEN opcode_revert_impl(entered)
                    ELSE Created(entered, Self, address, value))

(* opcode_return: the returned bytes are the code in a creation, which     *)
(* set_code refuses if they are too long or start with 0xEF.               *)
TooLong == 2

opcode_return(size, fits) ==
    /\ Executing
    /\ Step(IF Frame.reason # "Create" THEN Succeed(machine, "Return", fits)
            ELSE IF size = TooLong THEN opcode_revert_impl(machine)
            ELSE Succeed(push(machine, Act("EvmSetCode", Self, Self, size)), "Return", fits))

opcode_revert(fits) ==
    /\ Executing
    /\ Step(Deliver(machine, opcode_revert_impl(machine), fits))

opcode_sendall(address, fits) ==
    /\ Executing
    /\ LET all == balance_internal(machine.actions, Self)
       IN Step(IF Frame.is_static THEN opcode_revert_impl(machine)
               ELSE Succeed(transfer(machine, Self, address, all), "Suicide", fits))

(* opcode_stop, which is also where code ends that is empty. *)
opcode_stop(fits) ==
    /\ Running /\ Self \notin {Precompile, Token}
    /\ Step(Succeed(machine, "Stop", fits))

(* execute: a transaction sent to a precompiled contract itself. *)
ExecutePrecompile ==
    /\ Running /\ Self = Precompile
    /\ Step(leave(commit_snapshot(machine), "Return"))

(* cancel, also of a transaction that waits for its accounts. *)
cancel == Step(Machine(machine.frames, <<>>, <<>>, "Cancel"))
-----------------------------------------------------------------------------
(* Machine::new: the first frame is entered with a snapshot of its own. *)
NoMachine == Machine(<<>>, <<>>, <<>>, "None")

new_call(target, value) ==
    transfer(snapshot(fork(NoMachine, NewFrame(target, "Call", FALSE, has_code(<<>>, target)))),
             Origin, target, value)

new_create(target, value) ==
    Created(snapshot(fork(NoMachine, NewFrame(target, "Create", FALSE, TRUE))),
            Origin, target, value)

(* Contracts have been created by this program, so their nonce is not 0.   *)
Init ==
    /\ \E deployed \in InitialCode :
           LET kind == [a \in Addresses |->
                           IF a \in DOMAIN deployed THEN deployed[a] ELSE Absent]
           IN backend = [storage |-> [a \in Addresses |-> 0], code |-> kind,
                         nonce |-> [a \in Addresses |-> IF kind[a] = Absent THEN 0 ELSE 1],
                         balance |-> [a \in Addresses |-> IF a = Origin THEN Funds ELSE 0]]
    /\ \E value \in Values :
           /\ value <= backend.balance[Origin]
           /\ \/ \E target \in Addresses : machine = new_call(target, value)
              \/ \E target \in Accounts \ {Origin} :
                     ~Occupied(<<>>, target) /\ machine = new_create(target, value)

Next ==
    \/ \E v \in Values : opcode_sstore(v) \/ opcode_tstore(v)
    \/ OpcodeError
    \/ \E address \in Addresses, fits \in BOOLEAN :
           \/ \E value \in Values, valid \in BOOLEAN : opcode_call(address, value, valid, fits)
           \/ \E value \in Values : opcode_callcode(address, value, fits)
           \/ opcode_delegatecall(address, fits)
           \/ opcode_staticcall(address, fits)
           \/ opcode_sendall(address, fits)
    \/ \E address \in Accounts \ {Origin}, value \in Values : opcode_create(address, value)
    \/ \E size \in {0, 1, TooLong}, fits \in BOOLEAN : opcode_return(size, fits)
    \/ \E fits \in BOOLEAN : opcode_revert(fits) \/ opcode_stop(fits)
    \/ ExecutePrecompile
    \/ cancel

Spec == Init /\ [][Next]_vars
-----------------------------------------------------------------------------
(* Application of the log *)

(* One action of apply_state_change; ok is lost where the code returns an  *)
(* error.  Storage is collected here and written after the loop.           *)
ApplyAction(w, act) ==
    LET a == act.address v == act.value
    IN CASE act.kind = "Transfer" ->
              [w EXCEPT !.ok = @ /\ w.balance[a] >= v,
                        !.balance = [@ EXCEPT ![a] = @ - v, ![act.target] = @ + v]]
         [] act.kind = "Burn" ->
              [w EXCEPT !.ok = @ /\ w.balance[a] >= v, !.balance[a] = @ - v]
         [] act.kind = "EvmSetStorage" -> [w EXCEPT !.storage[a] = v]
         [] act.kind = "EvmSetTransientStorage" -> w
         [] act.kind = "EvmIncrementNonce" -> [w EXCEPT !.nonce[a] = @ + 1]
         [] act.kind = "EvmSetCode" ->
              [w EXCEPT !.ok = @ /\ w.code[a] = Absent, !.code[a] = v]
         [] act.kind = "ExternalInstruction" -> [w EXCEPT !.paid_out = @ + v]

apply_state_change(acts) ==
    FoldLeft(ApplyAction,
             [storage |-> backend.storage, nonce |-> backend.nonce, balance |-> backend.balance,
              code |-> backend.code, paid_out |-> 0, ok |-> TRUE],
             acts)

(* The chain as the code sees it through a log. *)
Seen(acts) ==
    [storage |-> [a \in Addresses |-> storage(acts, a)],
     nonce |-> [a \in Addresses |-> nonce(acts, a)],
     balance |-> [a \in Addresses |-> balance_internal(acts, a)],
     code |-> [a \in Addresses |-> code(acts, a)],
     transient |-> [a \in Addresses |-> transient_storage(acts, a)],
     paid_out |-> ValueOf(acts, Found(acts, "ExternalInstruction", Token))]
-----------------------------------------------------------------------------
(* Properties *)

(* The executor has exactly one snapshot for each frame of the machine, in *)
(* order and within the log, until the machine ends and none is left.  So  *)
(* "Inconsistent EVM Call Stack" is never reached, and the assertions of   *)
(* set_exit_status (no snapshot left) and of revert_snapshot (nothing left *)
(* of a transaction that is reverted) hold on every error path.            *)
SnapshotPerFrame ==
    LET stack == machine.stack
    IN IF Running
       THEN /\ Len(stack) = Len(machine.frames)
            /\ stack[1] = 0
            /\ \A i, j \in DOMAIN stack : i <= j => stack[i] <= stack[j]
            /\ stack[Len(stack)] <= Len(machine.actions)
       ELSE /\ stack = <<>>
            /\ machine.exit_status \in {"Revert", "Cancel"} => machine.actions = <<>>

(* A static call changes nothing, however deep it calls: nothing is added  *)
(* to the log above the snapshot of a static frame, not even by a frame    *)
(* that will fail, by a precompile extension or by a delegatecall.         *)
StaticChangesNothing ==
    Running => \A i \in DOMAIN machine.frames :
        machine.frames[i].is_static => Len(machine.actions) = machine.stack[i]

(* At every moment the log could be applied: no payment is short of funds, *)
(* no contract is created over another, and the accounts would then hold   *)
(* exactly what the code has seen.  Reads look for the last write, the     *)
(* first code, sums and counts; apply_state_change works in order.         *)
AppliedAsRead ==
    LET applied == apply_state_change(machine.actions)
        seen == Seen(machine.actions)
    IN /\ applied.ok
       /\ \A part \in {"storage", "nonce", "balance", "code", "paid_out"} :
              applied[part] = seen[part]

(* apply_storage expects ("contract already created") the contract account *)
(* of every address whose storage has been written to exist by the time    *)
(* the log of a transaction that succeeded is applied.                     *)
StorageHasContract ==
    machine.exit_status \in {"Stop", "Return", "Suicide"} =>
        \A a \in Addresses :
            Found(machine.actions, "EvmSetStorage", a) # {} =>
                apply_state_change(machine.actions).code[a] # Absent
=============================================================================
