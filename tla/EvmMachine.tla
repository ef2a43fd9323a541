----------------------------- MODULE EvmMachine -----------------------------
(***************************************************************************)
(* One frame of the EVM (evm/stack.rs, evm/memory.rs, and the opcodes of   *)
(* evm/opcode.rs that neither call nor create): a fixed array of slots of  *)
(* which those below top are the stack, a buffer that is reallocated to    *)
(* powers of two as memory, and the arithmetic of words.                   *)
(*                                                                         *)
(* A word is a number, and WordBytes bytes of ByteBits bits each when it   *)
(* is in memory.  An opcode that fails reverts the frame (EvmCalls), so    *)
(* nothing but the failure is kept of it.                                  *)
(***************************************************************************)
EXTENDS Integers, Bitwise, SequencesExt

CONSTANTS
    ByteBits, WordBytes,    \* 8 and 32
    AddressBytes,           \* 20
    UsizeMax,               \* 2^64 - 1
    STACK_SIZE,             \* slots: 128
    MEMORY_CAPACITY,        \* 1024
    MAX_MEMORY_SIZE,        \* 65536
    CallData, ReturnData,   \* sequences of bytes
    ContractCode,           \* the code of any other contract
    Environment,            \* the context, the transaction and the block, as words
    Backend(_, _),          \* what the database holds: kind and key to word
    keccak(_)               \* bytes to word

VARIABLES
    slots, top,             \* Stack: begin .. end, and the number of words in it
    memory,                 \* Memory: the buffer, as long as its capacity, and size
    pc,
    program,                \* execution_code, and what its bytes mean (opcode_table)
    is_static,
    logs,                   \* what collect_log was given
    status,                 \* "running", "stopped" or "error"
    last                    \* the opcode that was executed last

machineVars == <<slots, top, memory, pc, program, is_static, logs, status, last>>
-----------------------------------------------------------------------------
Bits == ByteBits * WordBytes
Modulus == 2 ^ Bits
Word == 0 .. Modulus - 1
Byte == 0 .. 2 ^ ByteBits - 1
Zeros(n) == [i \in 1 .. n |-> 0]

BytesOf(w) == [i \in 1 .. WordBytes |-> (w \div 2 ^ (ByteBits * (WordBytes - i))) % 2 ^ ByteBits]
OfBytes(bytes) == FoldLeft(LAMBDA w, b : w * 2 ^ ByteBits + b, 0, bytes)

Bool(b) == IF b THEN 1 ELSE 0

(* pop_i256, push_i256 *)
Signed(w) == IF 2 * w >= Modulus THEN w - Modulus ELSE w
Wrapped(i) == i % Modulus
Abs(i) == IF i < 0 THEN -i ELSE i
Truncated(a, b) == IF (a < 0) = (b < 0) THEN Abs(a) \div Abs(b) ELSE -(Abs(a) \div Abs(b))
-----------------------------------------------------------------------------
opcode_add(a, b) == (a + b) % Modulus
opcode_mul(a, b) == (a * b) % Modulus
opcode_sub(a, b) == (a - b) % Modulus
opcode_div(a, b) == IF b = 0 THEN 0 ELSE a \div b
opcode_mod(a, b) == IF b = 0 THEN 0 ELSE a % b
opcode_sdiv(a, b) == IF b = 0 THEN 0 ELSE Wrapped(Truncated(Signed(a), Signed(b)))
opcode_smod(a, b) ==
    IF b = 0 THEN 0
    ELSE Wrapped(Signed(a) - Signed(b) * Truncated(Signed(a), Signed(b)))

opcode_addmod(a, b, m) ==
    IF m = 0 THEN 0
    ELSE LET x == a % m
             y == m - (b % m)
         IN  IF b = 0 THEN x ELSE IF x >= y THEN x - y ELSE Wrapped((m - y) + x)

(* Double and add, in words that never overflow. *)
RECURSIVE MulmodLoop(_, _, _, _)
MulmodLoop(a, b, result, m) ==
    IF a = 0 THEN result
    ELSE LET base == IF b >= Wrapped(m - result) THEN Wrapped(result - m) ELSE result
             twice == IF b >= Wrapped(m - b) THEN Wrapped(b - m) ELSE b
         IN  MulmodLoop(a \div 2, Wrapped(b + twice),
                        IF a % 2 = 1 THEN Wrapped(base + b) ELSE result, m)

opcode_mulmod(a, b, m) ==
    LET larger == IF b < a THEN a ELSE b
        smaller == IF b < a THEN b ELSE a
    IN  IF m = 0 THEN 0
        ELSE MulmodLoop(smaller, IF larger >= m THEN larger % m ELSE larger, 0, m)

(* Squaring. *)
RECURSIVE ExpLoop(_, _, _)
ExpLoop(a, b, result) ==
    IF b > 1
    THEN ExpLoop(opcode_mul(a, a), b \div 2, IF b % 2 = 1 THEN opcode_mul(result, a) ELSE result)
    ELSE IF b = 1 THEN opcode_mul(result, a) ELSE result
opcode_exp(a, b) == ExpLoop(a, b, 1)

(* x is cut at the sign bit, and every bit from there on set or cleared. *)
opcode_signextend(b, x) ==
    LET bit == 2 ^ (ByteBits * b + ByteBits - 1)
    IN  IF b >= WordBytes THEN x
        ELSE IF (x \div bit) % 2 = 1 THEN (x % bit) + (Modulus - bit) ELSE x % bit

opcode_lt(a, b) == Bool(a < b)
opcode_gt(a, b) == Bool(a > b)
opcode_slt(a, b) == Bool(Signed(a) < Signed(b))
opcode_sgt(a, b) == Bool(Signed(a) > Signed(b))
opcode_eq(a, b) == Bool(a = b)
opcode_iszero(a) == Bool(a = 0)
opcode_and(a, b) == a & b
opcode_or(a, b) == a | b
opcode_xor(a, b) == a ^^ b
opcode_not(a) == Modulus - 1 - a
opcode_byte(i, x) == IF i >= WordBytes THEN 0 ELSE BytesOf(x)[i + 1]

opcode_shl(shift, value) == IF shift < Bits THEN Wrapped(value * 2 ^ shift) ELSE 0
opcode_shr(shift, value) == IF shift < Bits THEN value \div 2 ^ shift ELSE 0
opcode_sar(shift, value) == IF shift < Bits THEN Wrapped(Signed(value) \div 2 ^ shift) ELSE 0
-----------------------------------------------------------------------------
(* Memory *)

Failed == [data |-> <<>>, size |-> -1]

checked_next_multiple_of_32(n) == ((n + WordBytes - 1) \div WordBytes) * WordBytes
next_power_of_two(n) == CHOOSE p \in {2 ^ i : i \in 0 .. n} : p >= n /\ (p = 1 \/ p \div 2 < n)

(* Mutant: what the allocator returns is not cleared. *)
realloc_not_cleared(m, offset, length) ==
    LET new_size == checked_next_multiple_of_32(offset + length)
        new_capacity == next_power_of_two(new_size)
        size == IF new_size > m.size THEN new_size ELSE m.size
    IN  IF new_size > UsizeMax THEN Failed
        ELSE IF new_size <= Len(m.data) THEN [m EXCEPT !.size = size]
        ELSE IF new_capacity > MAX_MEMORY_SIZE THEN Failed
        ELSE [data |-> m.data \o [i \in 1 .. new_capacity - Len(m.data) |-> 1], size |-> size]

realloc(m, offset, length) ==
    LET new_size == checked_next_multiple_of_32(offset + length)
        new_capacity == next_power_of_two(new_size)
        size == IF new_size > m.size THEN new_size ELSE m.size
    IN  IF new_size > UsizeMax THEN Failed
        ELSE IF new_size <= Len(m.data) THEN [m EXCEPT !.size = size]
        ELSE IF new_capacity > MAX_MEMORY_SIZE THEN Failed
        ELSE [data |-> m.data \o Zeros(new_capacity - Len(m.data)), size |-> size]

(* The memory after a read or a write; Failed when there is not enough. *)
touch(m, offset, length) == IF length = 0 THEN m ELSE realloc(m, offset, length)

Slice(bytes, offset, length) == [i \in 1 .. length |-> bytes[offset + i]]
Overwritten(bytes, offset, new) ==
    [i \in 1 .. Len(bytes) |-> IF i - offset \in DOMAIN new THEN new[i - offset] ELSE bytes[i]]

write(m, offset, bytes) ==
    LET grown == touch(m, offset, Len(bytes))
    IN  IF grown = Failed THEN Failed ELSE [grown EXCEPT !.data = Overwritten(@, offset, bytes)]

(* get_or_default: zeros follow the end of the source. *)
Padded(source, offset, length) ==
    [i \in 1 .. length |-> IF offset + i <= Len(source) THEN source[offset + i] ELSE 0]

write_buffer(m, offset, length, source, source_offset) ==
    write(m, offset, Padded(source, source_offset, length))

copy_within(m, source, destination, length) ==
    LET grown == touch(m, IF source > destination THEN source ELSE destination, length)
    IN  IF grown = Failed THEN Failed
        ELSE [grown EXCEPT !.data = Overwritten(@, destination, Slice(@, source, length))]
-----------------------------------------------------------------------------
(* What an opcode does: the words it pushes, the memory, where the machine *)
(* continues, and the log record.                                          *)
Ok(pushed, mem, next) == [ok |-> TRUE, pushed |-> pushed, memory |-> mem, pc |-> next, log |-> <<>>]
Err == [ok |-> FALSE]

Push(word) == Ok(<<word>>, memory, pc + 1)
Grow(pushed, mem) == IF mem = Failed THEN Err ELSE Ok(pushed, mem, pc + 1)
Usize(words) == \A i \in DOMAIN words : words[i] <= UsizeMax

opcode_pure(op, a) ==
    CASE op = "ADD" -> opcode_add(a[1], a[2])      [] op = "MUL" -> opcode_mul(a[1], a[2])
      [] op = "SUB" -> opcode_sub(a[1], a[2])      [] op = "DIV" -> opcode_div(a[1], a[2])
      [] op = "SDIV" -> opcode_sdiv(a[1], a[2])    [] op = "MOD" -> opcode_mod(a[1], a[2])
      [] op = "SMOD" -> opcode_smod(a[1], a[2])    [] op = "EXP" -> opcode_exp(a[1], a[2])
      [] op = "ADDMOD" -> opcode_addmod(a[1], a[2], a[3])
      [] op = "MULMOD" -> opcode_mulmod(a[1], a[2], a[3])
      [] op = "SIGNEXTEND" -> opcode_signextend(a[1], a[2])
      [] op = "LT" -> opcode_lt(a[1], a[2])        [] op = "GT" -> opcode_gt(a[1], a[2])
      [] op = "SLT" -> opcode_slt(a[1], a[2])      [] op = "SGT" -> opcode_sgt(a[1], a[2])
      [] op = "EQ" -> opcode_eq(a[1], a[2])        [] op = "ISZERO" -> opcode_iszero(a[1])
      [] op = "AND" -> opcode_and(a[1], a[2])      [] op = "OR" -> opcode_or(a[1], a[2])
      [] op = "XOR" -> opcode_xor(a[1], a[2])      [] op = "NOT" -> opcode_not(a[1])
      [] op = "BYTE" -> opcode_byte(a[1], a[2])    [] op = "SHL" -> opcode_shl(a[1], a[2])
      [] op = "SHR" -> opcode_shr(a[1], a[2])      [] op = "SAR" -> opcode_sar(a[1], a[2])
Binary == {"ADD", "MUL", "SUB", "DIV", "SDIV", "MOD", "SMOD", "EXP", "SIGNEXTEND", "LT", "GT", "SLT",
           "SGT", "EQ", "AND", "OR", "XOR", "BYTE", "SHL", "SHR", "SAR"}
Pure == Binary \cup {"ADDMOD", "MULMOD", "ISZERO", "NOT"}
-----------------------------------------------------------------------------
(* Words of the context, of the transaction, and of the block. *)
environment(op) ==
    CASE op = "ADDRESS" -> Environment.contract       [] op = "ORIGIN" -> Environment.origin
      [] op = "CALLER" -> Environment.caller          [] op = "CALLVALUE" -> Environment.value
      [] op = "CALLDATASIZE" -> Len(CallData)         [] op = "CODESIZE" -> Len(program.code)
      [] op = "GASPRICE" -> Environment.gas_price     [] op = "RETURNDATASIZE" -> Len(ReturnData)
      [] op = "PC" -> pc                              [] op = "MSIZE" -> memory.size
      [] op = "GAS" -> Environment.gas_limit          [] op = "PUSH0" -> 0
block(op) ==
    CASE op \in {"COINBASE", "PREVRANDAO"} -> 0       [] op = "TIMESTAMP" -> Environment.timestamp
      [] op = "NUMBER" -> Environment.number          [] op = "GASLIMIT" -> Modulus - 1
      [] op = "CHAINID" -> Environment.chain_id       [] op = "BASEFEE" -> Environment.gas_price
      [] op = "SELFBALANCE" -> Backend("balance", Environment.contract)
OfContext == {"ADDRESS", "ORIGIN", "CALLER", "CALLVALUE", "CALLDATASIZE", "CODESIZE", "GASPRICE",
              "RETURNDATASIZE", "PC", "MSIZE", "GAS", "PUSH0"}
OfBlock == {"COINBASE", "PREVRANDAO", "TIMESTAMP", "NUMBER", "GASLIMIT", "CHAINID", "BASEFEE",
            "SELFBALANCE"}

(* pop_address drops the high bytes of a word. *)
AddressOf(w) == w % 2 ^ (ByteBits * AddressBytes)

opcode_query(op, w) ==
    CASE op = "BALANCE" -> Backend("balance", AddressOf(w))
      [] op = "EXTCODESIZE" -> Len(ContractCode)
      [] op = "EXTCODEHASH" -> Backend("code_hash", AddressOf(w))
      [] op = "BLOCKHASH" -> Backend("block_hash", w)
      [] op = "SLOAD" -> Backend("storage", w)
      [] op = "TLOAD" -> Backend("transient_storage", w)
Query == {"BALANCE", "EXTCODESIZE", "EXTCODEHASH", "BLOCKHASH", "SLOAD", "TLOAD"}
-----------------------------------------------------------------------------
opcode_sha3(a) ==
    LET mem == touch(memory, a[1], a[2])
    IN  IF ~Usize(a) \/ mem = Failed THEN Err
        ELSE Ok(<<keccak(Slice(mem.data, a[1], a[2]))>>, mem, pc + 1)

opcode_mload(a) ==
    LET mem == touch(memory, a[1], WordBytes)
    IN  IF ~Usize(a) \/ mem = Failed THEN Err
        ELSE Ok(<<OfBytes(Slice(mem.data, a[1], WordBytes))>>, mem, pc + 1)

opcode_mstore(a) ==
    IF ~Usize(<<a[1]>>) THEN Err ELSE Grow(<<>>, write(memory, a[1], BytesOf(a[2])))
opcode_mstore8(a) ==
    IF ~Usize(<<a[1]>>) THEN Err ELSE Grow(<<>>, write(memory, a[1], <<BytesOf(a[2])[WordBytes]>>))
opcode_mcopy(a) == IF ~Usize(a) THEN Err ELSE Grow(<<>>, copy_within(memory, a[2], a[1], a[3]))

opcode_calldataload(a) ==
    IF ~Usize(a) THEN Err ELSE Push(OfBytes(Padded(CallData, a[1], WordBytes)))

(* CALLDATACOPY, CODECOPY and EXTCODECOPY, which has an address before. *)
opcode_copy(source, a) ==
    IF ~Usize(a) THEN Err ELSE Grow(<<>>, write_buffer(memory, a[1], a[3], source, a[2]))

opcode_returndatacopy(a) ==
    IF ~Usize(a) \/ a[2] + a[3] > Len(ReturnData) THEN Err
    ELSE Grow(<<>>, write_buffer(memory, a[1], a[3], ReturnData, a[2]))

opcode_log_0_4(a) ==
    LET mem == touch(memory, a[1], a[2])
    IN  IF is_static \/ ~Usize(<<a[1], a[2]>>) \/ mem = Failed THEN Err
        ELSE [Ok(<<>>, mem, pc + 1) EXCEPT
                 !.log = <<[topics |-> SubSeq(a, 3, Len(a)), data |-> Slice(mem.data, a[1], a[2])]>>]
-----------------------------------------------------------------------------
Fetch(at) == program.table[IF at < Len(program.code) THEN program.code[at + 1] ELSE 0]

Jump(target) == IF Usize(<<target>>) /\ target < Len(program.code) /\ Fetch(target) = "JUMPDEST"
                THEN Ok(<<>>, memory, target) ELSE Err
opcode_jump(a) == Jump(a[1])
opcode_jumpi(a) ==
    IF ~Usize(<<a[1]>>) THEN Err
    ELSE IF a[2] = 0 THEN Ok(<<>>, memory, pc + 1) ELSE Jump(a[1])

(* The bytes after the opcode; a word of several needs one more after it. *)
opcode_push(n) ==
    IF Len(program.code) <= pc + n + (IF n = 1 THEN 0 ELSE 1) THEN Err
    ELSE Ok(<<OfBytes(Slice(program.code, pc + 1, n))>>, memory, pc + 1 + n)

dup_1_16(a) == Ok(Reverse(a) \o <<Last(a)>>, memory, pc + 1)
swap_1_16(a) == Ok(<<a[1]>> \o Reverse(SubSeq(a, 2, Len(a) - 1)) \o <<a[Len(a)]>>, memory, pc + 1)
-----------------------------------------------------------------------------
Arity(op) ==
    CASE op \in OfContext \cup OfBlock \cup {"PUSH1", "PUSH2", "JUMPDEST", "UNKNOWN"} -> 0
      [] op \in Query \cup {"ISZERO", "NOT", "POP", "MLOAD", "CALLDATALOAD", "JUMP", "DUP1"} -> 1
      [] op \in Binary \cup {"KECCAK256", "MSTORE", "MSTORE8", "JUMPI", "DUP2", "SWAP1", "LOG0"} -> 2
      [] op \in {"ADDMOD", "MULMOD", "MCOPY", "CALLDATACOPY", "CODECOPY", "RETURNDATACOPY", "SWAP2",
                 "LOG1"} -> 3
      [] op = "EXTCODECOPY" -> 4

execute_opcode(op, a) ==
    CASE op \in Pure -> Push(opcode_pure(op, a))
      [] op \in OfContext -> Push(environment(op))
      [] op \in OfBlock -> Push(block(op))
      [] op \in Query -> Push(opcode_query(op, a[1]))
      [] op = "KECCAK256" -> opcode_sha3(a)
      [] op = "MLOAD" -> opcode_mload(a)
      [] op = "MSTORE" -> opcode_mstore(a)
      [] op = "MSTORE8" -> opcode_mstore8(a)
      [] op = "MCOPY" -> opcode_mcopy(a)
      [] op = "CALLDATALOAD" -> opcode_calldataload(a)
      [] op = "CALLDATACOPY" -> opcode_copy(CallData, a)
      [] op = "CODECOPY" -> opcode_copy(program.code, a)
      [] op = "EXTCODECOPY" -> opcode_copy(ContractCode, Tail(a))
      [] op = "RETURNDATACOPY" -> opcode_returndatacopy(a)
      [] op \in {"LOG0", "LOG1"} -> opcode_log_0_4(a)
      [] op = "JUMP" -> opcode_jump(a)
      [] op = "JUMPI" -> opcode_jumpi(a)
      [] op \in {"JUMPDEST", "POP"} -> Ok(<<>>, memory, pc + 1)
      [] op = "PUSH1" -> opcode_push(1)
      [] op = "PUSH2" -> opcode_push(2)
      [] op \in {"DUP1", "DUP2"} -> dup_1_16(a)
      [] op \in {"SWAP1", "SWAP2"} -> swap_1_16(a)
      [] op = "UNKNOWN" -> Err

Executed(op) == last' = op /\ UNCHANGED <<program, is_static>>

Fail(op) ==
    /\ Executed(op) /\ status' = "error"
    /\ UNCHANGED <<slots, top, memory, pc, logs>>

(* One round of the loop of Machine::execute. *)
Execute(op) ==
    LET n == Arity(op)
        a == [i \in 1 .. n |-> slots[top - i]]
        r == execute_opcode(op, a)
        rest == top - n
    IN  /\ status = "running"
        /\ IF top < n \/ ~r.ok \/ rest + Len(r.pushed) > STACK_SIZE - 1 THEN Fail(op)
           ELSE /\ slots' = [i \in DOMAIN slots |->
                                IF i - rest + 1 \in DOMAIN r.pushed THEN r.pushed[i - rest + 1]
                                ELSE slots[i]]
                /\ top' = rest + Len(r.pushed)
                /\ memory' = r.memory /\ pc' = r.pc /\ logs' = logs \o r.log
                /\ Executed(op) /\ UNCHANGED status

ExecuteNext == Fetch(pc) # "STOP" /\ Execute(Fetch(pc))

opcode_stop ==
    /\ status = "running" /\ Fetch(pc) = "STOP"
    /\ status' = "stopped"
    /\ Executed("STOP") /\ UNCHANGED <<slots, top, memory, pc, logs>>
=============================================================================
