---------------------------- MODULE EvmReference ----------------------------
(***************************************************************************)
(* What one frame of the EVM promises, in the terms of the yellow paper    *)
(* that evm/opcode.rs cites: the stack is a sequence, memory an unbounded  *)
(* array of bytes that are zero until they are written, and arithmetic is  *)
(* that of the integers, reduced once to a word.                           *)
(*                                                                         *)
(* The limits of this implementation are part of it: fewer words on the    *)
(* stack, less memory, offsets and lengths of a machine word.  So are the  *)
(* places where it departs from the paper: SAR by a whole word gives zero  *)
(* for negative values too, a jump may enter the bytes of a PUSH, and a    *)
(* PUSH of several bytes fails at the very end of the code.                *)
(***************************************************************************)
EXTENDS Integers, SequencesExt

CONSTANTS
    ByteBits, WordBytes, AddressBytes, UsizeMax, StackLimit, MemoryLimit,
    CallData, ReturnData, ContractCode, Environment, Backend(_, _), keccak(_)

VARIABLES stack, mem, msize, pc, program, is_static, logs, status, last

referenceVars == <<stack, mem, msize, pc, program, is_static, logs, status, last>>

Width == ByteBits * WordBytes
Size == 2 ^ Width
Reduced(i) == i % Size
Value(w) == IF 2 * w >= Size THEN w - Size ELSE w
Magnitude(i) == IF i < 0 THEN -i ELSE i
Truth(b) == IF b THEN 1 ELSE 0

(* Big-endian bytes of a word: byte i counts from the most significant. *)
ByteAt(w, i) == (w \div 2 ^ (ByteBits * (WordBytes - 1 - i))) % 2 ^ ByteBits
Assembled(f) == MapThenSumSet(LAMBDA i : f[i] * 2 ^ (ByteBits * (WordBytes - 1 - i)), DOMAIN f)

(* Division towards zero: the remainder has the sign of the dividend. *)
Division(a, b) ==
    CHOOSE qr \in (-Size .. Size) \X (-Size .. Size) :
        /\ a = qr[1] * b + qr[2] /\ Magnitude(qr[2]) < Magnitude(b)
        /\ qr[2] # 0 => (qr[2] < 0) = (a < 0)

Power(a, n) == FoldLeft(LAMBDA p, i : Reduced(p * a), 1, [i \in 1 .. n |-> i])

BitSet(w) == {i \in 0 .. Width - 1 : (w \div 2 ^ i) % 2 = 1}
OfBits(S) == MapThenSumSet(LAMBDA i : 2 ^ i, S)

(* The low bytes 0 .. b of x as a signed number. *)
Extended(b, x) ==
    LET n == 2 ^ (ByteBits * (b + 1))
        low == x % n
    IN  Reduced(IF 2 * low >= n THEN low - n ELSE low)

Meaning(op, a) ==
    CASE op = "ADD" -> Reduced(a[1] + a[2])
      [] op = "MUL" -> Reduced(a[1] * a[2])
      [] op = "SUB" -> Reduced(a[1] - a[2])
      [] op \in {"DIV", "MOD", "SDIV", "SMOD"} /\ a[2] = 0 -> 0
      [] op = "DIV" /\ a[2] # 0 -> a[1] \div a[2]
      [] op = "MOD" /\ a[2] # 0 -> a[1] % a[2]
      [] op = "SDIV" /\ a[2] # 0 -> Reduced(Division(Value(a[1]), Value(a[2]))[1])
      [] op = "SMOD" /\ a[2] # 0 -> Reduced(Division(Value(a[1]), Value(a[2]))[2])
      [] op = "ADDMOD" -> IF a[3] = 0 THEN 0 ELSE (a[1] + a[2]) % a[3]
      [] op = "MULMOD" -> IF a[3] = 0 THEN 0 ELSE (a[1] * a[2]) % a[3]
      [] op = "EXP" -> Power(a[1], a[2])
      [] op = "SIGNEXTEND" -> IF a[1] >= WordBytes THEN a[2] ELSE Extended(a[1], a[2])
      [] op = "LT" -> Truth(a[1] < a[2])
      [] op = "GT" -> Truth(a[2] < a[1])
      [] op = "SLT" -> Truth(Value(a[1]) < Value(a[2]))
      [] op = "SGT" -> Truth(Value(a[2]) < Value(a[1]))
      [] op = "EQ" -> Truth(BitSet(a[1]) = BitSet(a[2]))
      [] op = "ISZERO" -> Truth(BitSet(a[1]) = {})
      [] op = "AND" -> OfBits(BitSet(a[1]) \cap BitSet(a[2]))
      [] op = "OR" -> OfBits(BitSet(a[1]) \cup BitSet(a[2]))
      [] op = "XOR" -> OfBits((BitSet(a[1]) \cup BitSet(a[2])) \ (BitSet(a[1]) \cap BitSet(a[2])))
      [] op = "NOT" -> OfBits((0 .. Width - 1) \ BitSet(a[1]))
      [] op = "BYTE" -> IF a[1] < WordBytes THEN ByteAt(a[2], a[1]) ELSE 0
      [] op = "SHL" -> OfBits({i + a[1] : i \in BitSet(a[2])} \cap 0 .. Width - 1)
      [] op = "SHR" -> OfBits({i - a[1] : i \in BitSet(a[2])} \cap 0 .. Width - 1)
      [] op = "SAR" -> IF a[1] < Width THEN Reduced(Value(a[2]) \div 2 ^ a[1]) ELSE 0
-----------------------------------------------------------------------------
(* Memory *)

Ceiling(n) == CHOOSE k \in n .. n + WordBytes - 1 : k % WordBytes = 0
Fits(offset, length) == length = 0 \/ Ceiling(offset + length) <= MemoryLimit
Expanded(offset, length) ==
    IF length = 0 \/ Ceiling(offset + length) <= msize THEN msize ELSE Ceiling(offset + length)

At(source, i) == IF i < Len(source) THEN source[i + 1] ELSE 0

(* mem with the bytes f(0), f(1), ... from offset on. *)
Written(offset, length, f(_)) ==
    [i \in DOMAIN mem |-> IF i \in offset .. offset + length - 1 THEN f(i - offset) ELSE mem[i]]

Bytes(offset, length) == [i \in 1 .. length |-> mem[offset + i - 1]]

(* The words that are offsets or lengths. *)
Offsets(op, a) ==
    CASE op \in {"MLOAD", "CALLDATALOAD", "MSTORE", "MSTORE8"} -> {a[1]}
      [] op \in {"KECCAK256", "LOG0", "LOG1"} -> {a[1], a[2]}
      [] op \in {"MCOPY", "CALLDATACOPY", "CODECOPY", "RETURNDATACOPY"} -> {a[1], a[2], a[3]}
      [] op = "EXTCODECOPY" -> {a[2], a[3], a[4]}
      [] OTHER -> {}

(* The part of memory that an opcode needs, as an offset and a length. *)
Touched(op, a) ==
    CASE op \in {"MLOAD", "MSTORE"} -> <<a[1], WordBytes>>
      [] op = "MSTORE8" -> <<a[1], 1>>
      [] op \in {"KECCAK256", "LOG0", "LOG1"} -> <<a[1], a[2]>>
      [] op = "MCOPY" -> <<IF a[1] < a[2] THEN a[2] ELSE a[1], a[3]>>
      [] op \in {"CALLDATACOPY", "CODECOPY", "RETURNDATACOPY"} -> <<a[1], a[3]>>
      [] op = "EXTCODECOPY" -> <<a[2], a[4]>>
      [] OTHER -> <<0, 0>>

Stored(op, a) ==
    CASE op = "MSTORE" -> Written(a[1], WordBytes, LAMBDA i : ByteAt(a[2], i))
      [] op = "MSTORE8" -> Written(a[1], 1, LAMBDA i : ByteAt(a[2], WordBytes - 1))
      [] op = "MCOPY" -> Written(a[1], a[3], LAMBDA i : mem[a[2] + i])
      [] op = "CALLDATACOPY" -> Written(a[1], a[3], LAMBDA i : At(CallData, a[2] + i))
      [] op = "CODECOPY" -> Written(a[1], a[3], LAMBDA i : At(program.code, a[2] + i))
      [] op = "RETURNDATACOPY" -> Written(a[1], a[3], LAMBDA i : At(ReturnData, a[2] + i))
      [] op = "EXTCODECOPY" -> Written(a[2], a[4], LAMBDA i : At(ContractCode, a[3] + i))
      [] OTHER -> mem
-----------------------------------------------------------------------------
Known(op) ==
    CASE op = "ADDRESS" -> Environment.contract   [] op = "ORIGIN" -> Environment.origin
      [] op = "CALLER" -> Environment.caller      [] op = "CALLVALUE" -> Environment.value
      [] op = "GASPRICE" -> Environment.gas_price [] op = "BASEFEE" -> Environment.gas_price
      [] op = "GAS" -> Environment.gas_limit      [] op = "CHAINID" -> Environment.chain_id
      [] op = "NUMBER" -> Environment.number      [] op = "TIMESTAMP" -> Environment.timestamp
      [] op = "GASLIMIT" -> Size - 1              [] op \in {"COINBASE", "PREVRANDAO", "PUSH0"} -> 0
      [] op = "CALLDATASIZE" -> Len(CallData)     [] op = "CODESIZE" -> Len(program.code)
      [] op = "RETURNDATASIZE" -> Len(ReturnData) [] op = "SELFBALANCE" -> Backend("balance", Environment.contract)
      [] op = "PC" -> pc                          [] op = "MSIZE" -> msize
Constants == {"ADDRESS", "ORIGIN", "CALLER", "CALLVALUE", "GASPRICE", "BASEFEE", "GAS", "CHAINID",
              "NUMBER", "TIMESTAMP", "GASLIMIT", "COINBASE", "PREVRANDAO", "PUSH0", "CALLDATASIZE",
              "CODESIZE", "RETURNDATASIZE", "SELFBALANCE", "PC", "MSIZE"}

Shortened(w) == w % 2 ^ (ByteBits * AddressBytes)
Answer(op, w) ==
    CASE op = "BALANCE" -> Backend("balance", Shortened(w))
      [] op = "EXTCODESIZE" -> Len(ContractCode)
      [] op = "EXTCODEHASH" -> Backend("code_hash", Shortened(w))
      [] op = "BLOCKHASH" -> Backend("block_hash", w)
      [] op = "SLOAD" -> Backend("storage", w)
      [] op = "TLOAD" -> Backend("transient_storage", w)
Questions == {"BALANCE", "EXTCODESIZE", "EXTCODEHASH", "BLOCKHASH", "SLOAD", "TLOAD"}

Silent == {"POP", "MSTORE", "MSTORE8", "MCOPY", "CALLDATACOPY", "CODECOPY", "EXTCODECOPY",
           "RETURNDATACOPY", "LOG0", "LOG1", "JUMP", "JUMPI", "JUMPDEST"}

(* The words that take the place of the operands, the top last. *)
Pushed(op, a) ==
    CASE op \in Silent -> <<>>
      [] op \in Constants -> <<Known(op)>>
      [] op \in Questions -> <<Answer(op, a[1])>>
      [] op = "KECCAK256" -> <<keccak(Bytes(a[1], a[2]))>>
      [] op = "MLOAD" -> <<Assembled([i \in 0 .. WordBytes - 1 |-> mem[a[1] + i]])>>
      [] op = "CALLDATALOAD" -> <<Assembled([i \in 0 .. WordBytes - 1 |-> At(CallData, a[1] + i)])>>
      [] op = "PUSH1" -> <<program.code[pc + 2]>>
      [] op = "PUSH2" -> <<program.code[pc + 2] * 2 ^ ByteBits + program.code[pc + 3]>>
      [] op = "DUP1" -> <<a[1], a[1]>>
      [] op = "DUP2" -> <<a[2], a[1], a[2]>>
      [] op = "SWAP1" -> <<a[1], a[2]>>
      [] op = "SWAP2" -> <<a[1], a[2], a[3]>>
      [] OTHER -> <<Meaning(op, a)>>

Operands(op) ==
    CASE op \in Constants \cup {"PUSH1", "PUSH2", "JUMPDEST", "UNKNOWN"} -> 0
      [] op \in Questions \cup {"ISZERO", "NOT", "POP", "MLOAD", "CALLDATALOAD", "JUMP", "DUP1"} -> 1
      [] op \in {"ADDMOD", "MULMOD", "MCOPY", "CALLDATACOPY", "CODECOPY", "RETURNDATACOPY", "SWAP2",
                 "LOG1"} -> 3
      [] op = "EXTCODECOPY" -> 4
      [] OTHER -> 2

MayJump(target) ==
    target < Len(program.code) /\ program.table[program.code[target + 1]] = "JUMPDEST"

(* What an opcode asks of its operands, its surroundings and the limits. *)
Possible(op, a) ==
    /\ op # "UNKNOWN"
    /\ \A w \in Offsets(op, a) : w <= UsizeMax
    /\ Fits(Touched(op, a)[1], Touched(op, a)[2])
    /\ op = "RETURNDATACOPY" => a[2] + a[3] <= Len(ReturnData)
    /\ op \in {"LOG0", "LOG1"} => ~is_static
    /\ op \in {"JUMP", "JUMPI"} => a[1] <= UsizeMax
    /\ (op = "JUMP" \/ (op = "JUMPI" /\ a[2] # 0)) => MayJump(a[1])
    /\ op = "PUSH1" => pc + 1 < Len(program.code)
    /\ op = "PUSH2" => pc + 3 < Len(program.code)

Onward(op, a) ==
    CASE op = "JUMP" \/ (op = "JUMPI" /\ a[2] # 0) -> a[1]
      [] op = "PUSH1" -> pc + 2
      [] op = "PUSH2" -> pc + 3
      [] OTHER -> pc + 1

Fails == status' = "error" /\ UNCHANGED <<stack, mem, msize, pc, logs>>

Step(op) ==
    LET n == Operands(op)
        rest == Len(stack) - n
        a == Reverse(SubSeq(stack, rest + 1, Len(stack)))
    IN  IF rest < 0 THEN Fails
        ELSE IF ~Possible(op, a) THEN Fails
        ELSE LET after == SubSeq(stack, 1, rest) \o Pushed(op, a)
             IN  IF Len(after) > StackLimit THEN Fails
                 ELSE /\ stack' = after
                      /\ mem' = Stored(op, a)
                      /\ msize' = Expanded(Touched(op, a)[1], Touched(op, a)[2])
                      /\ pc' = Onward(op, a)
                      /\ logs' = IF op \in {"LOG0", "LOG1"}
                                 THEN Append(logs, [topics |-> SubSeq(a, 3, n),
                                                    data |-> Bytes(a[1], a[2])])
                                 ELSE logs
                      /\ UNCHANGED status

Stop == status' = "stopped" /\ UNCHANGED <<stack, mem, msize, pc, logs>>

Init == status = "running" /\ msize = 0 /\ logs = <<>>
Next ==
    /\ status = "running" /\ UNCHANGED <<program, is_static>>
    /\ IF last' = "STOP" THEN Stop ELSE Step(last')
Spec == Init /\ [][Next]_referenceVars
=============================================================================
