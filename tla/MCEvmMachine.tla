---------------------------- MODULE MCEvmMachine ----------------------------
(***************************************************************************)
(* Words of two bytes of two bits.  In the plot "arithmetic" an opcode is  *)
(* applied to all words; in "memory" two opcodes are run one after the     *)
(* other, with their operands on the stack beforehand; in "program" every  *)
(* short code is run, of which each byte means one of four opcodes.  In    *)
(* "precompiles" a contract calls the precompiled contracts.               *)
(***************************************************************************)
EXTENDS EvmMachine

VARIABLES
    plot,
    script,         \* the opcodes that are still to be run
    p_mode, p_status, p_accounts, p_queue, p_stack, p_return_data, p_chain, p_saved, p_made

p_vars == <<p_mode, p_status, p_accounts, p_queue, p_stack, p_return_data, p_chain, p_saved, p_made>>

MCBackend(kind, key) ==
    CASE kind = "balance" -> 3 + key
      [] kind = "code_hash" -> 4 + key
      [] kind = "block_hash" -> IF key < 5 THEN 0 ELSE key
      [] kind = "storage" -> opcode_not(key)
      [] kind = "transient_storage" -> opcode_mul(3, key)
MCkeccak(bytes) == FoldLeft(LAMBDA h, b : (h * 5 + b + 1) % 16, 1, bytes)
MCCallData == <<1, 2, 3>>
MCReturnData == <<3, 1>>
MCContractCode == <<2, 0, 1>>
MCEnvironment == [contract |-> 1, origin |-> 2, caller |-> 3, value |-> 4, gas_price |-> 5,
                  gas_limit |-> 6, chain_id |-> 7, timestamp |-> 8, number |-> 9]

Stale == 9
StackOf(words) == [i \in 0 .. STACK_SIZE - 1 |-> IF i < Len(words) THEN words[i + 1] ELSE Stale]

Fresh ==
    /\ memory = [data |-> Zeros(MEMORY_CAPACITY), size |-> 0]
    /\ pc = 0 /\ logs = <<>> /\ status = "running" /\ last = "none"

AnyCode == [code |-> <<1, 3, 2, 1, 1>>, table |-> [b \in Byte |-> IF b = 0 THEN "STOP" ELSE "PC"]]

ArithmeticInit ==
    /\ plot = "arithmetic"
    /\ \E a, b, m \in Word : slots = StackOf(<<m, b, a>>)
    /\ top = 3 /\ program = AnyCode /\ is_static = FALSE
    /\ script \in {<<op>> : op \in IF slots[0] = 0 THEN Pure ELSE {"ADDMOD", "MULMOD"}}
-----------------------------------------------------------------------------
(* Opcodes with operands, the first of them the one on top. *)
Call(op, a) == [op |-> op, a |-> a]

Writes ==
    {Call(op, <<o, v>>) : op \in {"MSTORE", "MSTORE8"}, o \in {0, 1, 3, 7, 15}, v \in {6, 15}}
        \cup {Call("CALLDATACOPY", <<o, s, l>>) : o \in {0, 3, 13}, s \in {0, 2, 12, 13}, l \in {0, 3, 5}}
        \cup {Call("CODECOPY", <<2, 3, l>>) : l \in {1, 4}}
        \cup {Call("EXTCODECOPY", <<14, 1, 1, l>>) : l \in {1, 4}}
        \cup {Call("RETURNDATACOPY", <<o, s, l>>) : o \in {0, 3}, s \in {0, 1, 2}, l \in {0, 1, 2}}
Reads ==
    {Call("MLOAD", <<o>>) : o \in {0, 1, 2, 3, 6, 7, 15}}
        \cup {Call("MCOPY", <<d, s, l>>) : d \in {0, 1, 5}, s \in {0, 1, 4, 13}, l \in {0, 2, 3}}
        \cup {Call("KECCAK256", <<o, l>>) : o \in {0, 2, 7, 13}, l \in {0, 1, 3, 13}}
        \cup {Call("LOG0", <<o, 1>>) : o \in {1, 8}} \cup {Call("LOG1", <<o, 2, 5>>) : o \in {0, 7}}
Questions ==
    {Call(op, <<w>>) : op \in Query \cup {"CALLDATALOAD"}, w \in Word}
        \cup {Call(op, <<>>) : op \in OfContext \cup OfBlock}

Scripts == {<<w, r>> : w \in Writes, r \in Writes \cup Reads} \cup {<<q>> : q \in Questions}

MemoryInit ==
    /\ plot = "memory"
    /\ \E s \in Scripts :
          LET words == Reverse(FlattenSeq([i \in 1 .. Len(s) |-> s[i].a]))
          IN  /\ slots = StackOf(words) /\ top = Len(words)
              /\ script = [i \in 1 .. Len(s) |-> s[i].op] \o <<"MSIZE">>
    /\ program = AnyCode
    /\ is_static \in IF Len(script) = 3 /\ script[2] \in {"LOG0", "LOG1"} THEN BOOLEAN ELSE {FALSE}
-----------------------------------------------------------------------------
Table(first, second, third) ==
    [b \in Byte |-> IF b = 0 THEN "STOP" ELSE <<first, second, third>>[b]]
Tables == {Table("PUSH1", "JUMP", "JUMPDEST"), Table("PUSH2", "JUMPI", "JUMPDEST"),
           Table("PUSH1", "DUP2", "SWAP1"), Table("DUP1", "SWAP2", "POP"), Table("PC", "PUSH1", "UNKNOWN")}

ProgramInit ==
    /\ plot = "program"
    /\ \E code \in SeqOf(Byte, 4), table \in Tables : program = [code |-> code, table |-> table]
    /\ \E words \in {<<>>, <<3, 2, 1>>, [i \in 1 .. STACK_SIZE - 2 |-> i]} :
          slots = StackOf(words) /\ top = Len(words)
    /\ script = <<>> /\ is_static = FALSE

(* A contract A that holds tokens and a mint, another contract B, and its  *)
(* data accounts, one of which has been sent a lamport.                    *)
K == INSTANCE Precompiles WITH
    Start <- <<>>, Calls <- {}, Executions <- {}, MaxCalls <- 0, MaxDepth <- 0,
    mode <- p_mode, status <- p_status, accounts <- p_accounts, queue <- p_queue, stack <- p_stack,
    return_data <- p_return_data, chain <- p_chain, saved <- p_saved, made <- p_made

A == K!contract_pubkey("A")
B == K!contract_pubkey("B")
DataA == K!ContractData("A", "s")
DataB == K!ContractData("B", "s")
Plain == <<"mint">>
Special == <<"mint with extensions">>
Held == <<"tokens">>
Longer == <<"tokens with extensions">>
Shop == <<"shop">>

MCStart ==
    K!Operator :> K!Account(5, "system", 0, K!Blank) @@
    DataA :> K!Account(0, "system", 0, K!Blank) @@
    DataB :> K!Account(1, "system", 0, K!Blank) @@
    Plain :> K!Account(1, "token", 1, K!Mint(A, B, 3)) @@
    Special :> K!Account(3, "token", 3, K!Mint(A, A, 0)) @@
    Held :> K!Account(2, "token", 2, K!Token(Plain, A, 2)) @@
    Longer :> K!Account(3, "token", 3, K!Token(Plain, K!AUTH("A", "s"), 1)) @@
    K!PAYER("A") :> K!Account(1, "system", 0, K!Blank) @@
    Shop :> K!Account(0, "other", 0, K!Blank)

Ask(f, caller, source, target, mint, amount, authority) ==
    [f |-> f, caller |-> caller, how |-> "call", seed |-> "s", source |-> source, target |-> target,
     mint |-> mint, amount |-> amount, authority |-> authority, owner |-> "token"]
No == <<>>
Wallets == {Held, Longer, DataA}

MCCalls ==
    {Ask("initializeMint", "A", No, No, No, 0, No), Ask("initializeMint", "B", No, A, No, 0, A)}
        \cup {Ask("initializeAccount", "A", No, No, m, 0, o) : m \in {Plain, Special, DataB}, o \in {No, B}}
        \cup {Ask("initializeAccount", "B", No, No, Plain, 0, No)}
        \cup {Ask("createResource", "A", No, No, No, n, No) : n \in {1, 2}}
        \cup {[Ask("createResource", "A", No, No, No, 1, No) EXCEPT !.owner = "system"]}
        \cup {Ask("closeAccount", "A", s, No, No, 0, No) : s \in Wallets}
        \cup {Ask("approve", "A", Held, B, No, 1, No), Ask("revoke", "A", Held, No, No, 0, No),
              Ask("revoke", "B", Held, No, No, 0, No)}
        \cup {Ask("transfer", "A", Held, t, No, n, No) : t \in Wallets, n \in 0 .. 2}
        \cup {Ask("transfer", "B", Held, DataA, No, n, No) : n \in {1, 2}}
        \cup {Ask("transferWithSeed", "A", Longer, Held, No, 1, No)}
        \cup {Ask("mintTo", "A", No, t, Plain, n, No) : t \in {Held, DataA}, n \in {0, 1}}
        \cup {Ask("mintTo", "A", No, t, DataB, 1, No) : t \in {DataA}}
        \cup {Ask("burn", c, Held, No, Plain, 1, No) : c \in {"A", "B"}}
        \cup {Ask(f, "B", No, Held, Plain, 0, No) : f \in {"freeze", "thaw"}}
        \cup {Ask(f, "A", k, No, No, 1, No) : f \in {"isSystemAccount", "getAccount", "getMint", "info"},
                                              k \in Wallets \cup {DataB, Plain, Special}}
        \cup {Ask("data", "A", DataA, No, No, n, No) : n \in {0, 1, 2}}
        \cup {Ask(f, "A", Held, No, No, 0, No) : f \in {"findAccount", "getNeonAddress", "getResourceAddress",
                                                      "getExtAuthority", "getPayer"}}
        \cup {[Ask("burn", "A", Held, No, Plain, 1, No) EXCEPT !.how = h] : h \in {"value", "delegatecall", "staticcall"}}

Pay(n) == K!Ix("foreign", K!PAYER("A"), Shop, A, n)
MCExecutions ==
    {[caller |-> "A", how |-> "call", program |-> "other", required |-> r, ix |-> Pay(n)] : r \in {0, 2}, n \in 0 .. 2}
        \cup {[caller |-> "A", how |-> "call", program |-> p, required |-> 1, ix |-> i] :
                p \in {"other", "evm_loader"},
                i \in {K!Ix("foreign", Shop, Shop, A, 0), K!Ix("foreign", Shop, K!Operator, A, 0)}}

P == INSTANCE Precompiles WITH
    Start <- MCStart, Calls <- MCCalls, Executions <- MCExecutions, MaxCalls <- 3, MaxDepth <- 2,
    mode <- p_mode, status <- p_status, accounts <- p_accounts, queue <- p_queue, stack <- p_stack,
    return_data <- p_return_data, chain <- p_chain, saved <- p_saved, made <- p_made

NoPrecompiles ==
    /\ p_mode = "none" /\ p_status = "none" /\ p_accounts = <<>> /\ p_queue = <<>> /\ p_stack = <<>>
    /\ p_return_data = "none" /\ p_chain = P!Error /\ p_saved = <<>> /\ p_made = 0

PrecompileInit ==
    /\ plot = "precompiles" /\ P!PrecompileInit
    /\ slots = StackOf(<<>>) /\ top = 0 /\ program = AnyCode /\ is_static = FALSE /\ script = <<>>
-----------------------------------------------------------------------------
MachineInit ==
    /\ Fresh
    /\ \/ (ArithmeticInit \/ MemoryInit \/ ProgramInit) /\ NoPrecompiles
       \/ PrecompileInit

MachineNext ==
    \/ /\ plot # "program" /\ script # <<>>
       /\ Execute(Head(script)) /\ script' = Tail(script) /\ UNCHANGED <<plot, p_vars>>
    \/ plot = "program" /\ ExecuteNext /\ UNCHANGED <<plot, script, p_vars>>
    \/ plot = "program" /\ opcode_stop /\ UNCHANGED <<plot, script, p_vars>>
    \/ plot = "precompiles" /\ P!PrecompileNext /\ UNCHANGED <<machineVars, plot, script>>

MachineSpecification == MachineInit /\ [][MachineNext]_<<machineVars, plot, script, p_vars>>
-----------------------------------------------------------------------------
Reference == INSTANCE EvmReference WITH
    StackLimit <- STACK_SIZE - 1,
    MemoryLimit <- MAX_MEMORY_SIZE,
    stack <- [i \in 1 .. top |-> slots[i - 1]],
    mem <- [i \in 0 .. MAX_MEMORY_SIZE - 1 |-> IF i < Len(memory.data) THEN memory.data[i + 1] ELSE 0],
    msize <- memory.size

(* evm/opcode.rs cites the yellow paper: a frame does what the integers, a *)
(* sequence and an unbounded array of bytes do, whatever the slots above   *)
(* the stack hold, whenever the buffer is reallocated, and although sums,  *)
(* products and powers are computed in words.                              *)
FollowsReference == Reference!Spec

(* external_account answers a contract as if the instructions it has       *)
(* queued had been executed, and apply executes what was answered.         *)
EmulatedAsExecuted == plot = "precompiles" => P!EmulatedAsExecuted
=============================================================================
