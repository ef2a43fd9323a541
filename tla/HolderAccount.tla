---------------------------- MODULE HolderAccount ----------------------------
(***************************************************************************)
(* The holder of an operator: transactions that do not fit into an         *)
(* instruction are written to it in chunks, and every transaction that is  *)
(* executed with it has its heap there, in the place of the chunks.        *)
(*                                                                         *)
(* A transaction is the sequence of its bytes, and is its own hash.  Its   *)
(* encoding says how long it is: longer or shorter data is not decoded.    *)
(* The operator cuts transactions into any chunks and sends them in any    *)
(* order, more than once, and mixed with those of other transactions.      *)
(***************************************************************************)
EXTENDS Integers, Sequences

CONSTANTS
    HolderTrxs,     \* transactions
    HolderOwners,   \* operators
    BUFFER_LEN,     \* room behind the header
    Heaps,          \* what the heap may leave in the buffer
    OldHolders      \* holders of the first version, as they were left

ZeroHash == <<>>
Byte == 0 .. 255
Buffer == [1 .. BUFFER_LEN -> Byte]

ASSUME HolderAssumption ==
    /\ BUFFER_LEN \in Nat
    /\ \A t \in HolderTrxs : t \in Seq(Byte) /\ t # ZeroHash /\ Len(t) <= BUFFER_LEN
    /\ Heaps \subseteq Buffer
    /\ OldHolders \subseteq [tag : {"HOLDER_DEPRECATED", "STATE_FINALIZED_DEPRECATED"},
                             owner : HolderOwners, hash : HolderTrxs,
                             len : 0 .. BUFFER_LEN, buffer : Buffer]

VARIABLES
    holder,         \* the account
    delivered       \* history: bytes of the transaction with that hash that were
                    \* written since the buffer was last cleared or used as heap

holderVars == <<holder, delivered>>

ZeroBuffer == [i \in 1 .. BUFFER_LEN |-> 0]
NoHolder ==
    [tag |-> "EMPTY", owner |-> "none", hash |-> ZeroHash, len |-> 0, buffer |-> ZeroBuffer]

clear(h) == [h EXCEPT !.hash = ZeroHash, !.len = 0, !.buffer = ZeroBuffer]

(* update_holder_account: neither converts the buffer. *)
update_holder_account(h) ==
    IF h.tag = "HOLDER_DEPRECATED" THEN [h EXCEPT !.tag = "HOLDER", !.hash = ZeroHash, !.len = 0]
    ELSE IF h.tag = "STATE_FINALIZED_DEPRECATED" THEN [h EXCEPT !.tag = "STATE_FINALIZED"]
    ELSE h

IsHolder(h) == h.tag \in {"HOLDER", "STATE_FINALIZED"}
from_account(h) == IF h.tag = "STATE_FINALIZED" THEN clear([h EXCEPT !.tag = "HOLDER"]) ELSE h

transaction(h) == SubSeq(h.buffer, 1, h.len)
validate_transaction(h) == transaction(h) \in HolderTrxs /\ transaction(h) = h.hash

(* Mutant: the chunks of the transaction before it are overwritten. *)
update_transaction_hash_only(h, hash) == [h EXCEPT !.hash = hash]

update_transaction_hash(h, hash) == IF h.hash = hash THEN h ELSE [clear(h) EXCEPT !.hash = hash]

write(h, offset, bytes) ==
    [h EXCEPT !.len = IF @ > offset + Len(bytes) THEN @ ELSE offset + Len(bytes),
              !.buffer = [i \in DOMAIN @ |-> IF i \in offset + 1 .. offset + Len(bytes)
                                             THEN bytes[i - offset] ELSE @[i]]]
-----------------------------------------------------------------------------
HolderCreate(o) ==
    /\ holder.tag = "EMPTY"
    /\ holder' = clear([holder EXCEPT !.tag = "HOLDER", !.owner = o])
    /\ delivered' = {}

HolderDelete(o) ==
    /\ IsHolder(update_holder_account(holder)) /\ holder.owner = o
    /\ holder' = NoHolder
    /\ delivered' = {}

HolderWrite(o, t, offset, len) ==
    LET h == from_account(update_holder_account(holder))
    IN  /\ IsHolder(h) /\ h.owner = o
        /\ offset + len <= BUFFER_LEN
        /\ holder' = write(update_transaction_hash(h, t), offset, SubSeq(t, offset + 1, offset + len))
        /\ delivered' = (IF h.hash = t THEN delivered ELSE {}) \cup (offset + 1 .. offset + len)

(* TransactionExecuteFromInstruction, with or without Solana call. *)
HolderExecuteFromInstruction(o, heap) ==
    /\ IsHolder(holder) /\ holder.owner = o
    /\ holder' = [from_account(holder) EXCEPT !.buffer = heap]
    /\ delivered' = {}

(* TransactionExecuteFromAccount: the transaction is copied before its     *)
(* place becomes the heap.  The holder keeps its hash.                     *)
HolderExecuteFromAccount(o, heap) ==
    /\ holder.tag = "HOLDER" /\ holder.owner = o
    /\ validate_transaction(holder)
    /\ holder' = [holder EXCEPT !.buffer = heap]
    /\ delivered' = {}

(* TransactionStepFromAccount for a transaction that begins. *)
HolderBeginFromAccount(o, heap) ==
    LET h == update_holder_account(holder)
    IN  /\ h.tag = "HOLDER" /\ h.owner = o
        /\ validate_transaction(h)
        /\ holder' = [h EXCEPT !.tag = "STATE", !.buffer = heap]
        /\ delivered' = {}

(* TransactionStepFromInstruction for a transaction that begins: a holder  *)
(* that is finalized takes any transaction but the one it finalized.       *)
HolderBeginFromInstruction(o, t, heap) ==
    LET h == update_holder_account(holder)
    IN  /\ IsHolder(h) /\ h.owner = o
        /\ h.tag = "STATE_FINALIZED" => h.hash # t
        /\ holder' = [h EXCEPT !.tag = "STATE", !.hash = t, !.buffer = heap]
        /\ delivered' = {}

(* The last iteration, or the cancellation. *)
HolderFinalize ==
    /\ holder.tag = "STATE"
    /\ holder' = [holder EXCEPT !.tag = "STATE_FINALIZED"]
    /\ UNCHANGED delivered

HolderInit == holder \in {NoHolder} \cup OldHolders /\ delivered = {}

HolderNext ==
    \/ \E o \in HolderOwners :
          \/ HolderCreate(o)
          \/ HolderDelete(o)
          \/ \E t \in HolderTrxs : \E offset \in 0 .. Len(t) - 1 : \E len \in 1 .. Len(t) - offset :
                HolderWrite(o, t, offset, len)
          \/ \E heap \in Heaps :
                \/ HolderExecuteFromInstruction(o, heap)
                \/ HolderExecuteFromAccount(o, heap)
                \/ HolderBeginFromAccount(o, heap)
                \/ \E t \in HolderTrxs : HolderBeginFromInstruction(o, t, heap)
    \/ HolderFinalize

HolderSpec == HolderInit /\ [][HolderNext]_holderVars
-----------------------------------------------------------------------------
(* Once each byte of a transaction was written under its hash after the    *)
(* buffer last served another purpose, the holder has exactly that         *)
(* transaction: the chunks may have come in any order, overlapping,        *)
(* repeated, after those of a longer transaction, into what an executed    *)
(* transaction has left or into a holder of the first version.             *)
DeliveredIsComplete ==
    \A t \in HolderTrxs :
        holder.tag = "HOLDER" /\ holder.hash = t /\ delivered = 1 .. Len(t)
            => transaction(holder) = t
=============================================================================
