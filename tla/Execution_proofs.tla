-------------------------- MODULE Execution_proofs --------------------------
(***************************************************************************)
(* How a transaction reaches the program and what it then reads.           *)
(*                                                                         *)
(* A holder that was given every byte of a transaction has it, for any     *)
(* transactions, chunks, heaps and holders of the first version.           *)
(*                                                                         *)
(* Storage that a transaction goes on with is current, and the time that   *)
(* contracts are told never runs back, for any transactions, accounts and  *)
(* bounds.                                                                 *)
(***************************************************************************)
EXTENDS HolderAccount, OptimisticExecution, SequenceTheorems, FiniteSetTheorems, TLAPS

Tags ==
    {"EMPTY", "HOLDER", "HOLDER_DEPRECATED", "STATE", "STATE_FINALIZED", "STATE_FINALIZED_DEPRECATED"}
Holder ==
    [tag : Tags, owner : HolderOwners \cup {"none"}, hash : HolderTrxs \cup {ZeroHash},
     len : 0 .. BUFFER_LEN, buffer : Buffer]

(* While a transaction is collected, its chunks are where they belong and  *)
(* nothing is counted behind its end.  A holder in any other state holds   *)
(* what was left of one, and is cleared before it collects again.          *)
Collected(h, bytes) ==
    /\ h.hash = ZeroHash => bytes = {}
    /\ h.hash # ZeroHash =>
          /\ h.len <= Len(h.hash)
          /\ bytes \subseteq 1 .. h.len
          /\ \A i \in bytes : h.buffer[i] = h.hash[i]

HolderInv ==
    /\ holder \in Holder
    /\ holder.tag = "HOLDER" => Collected(holder, delivered)
    /\ holder.tag \in {"HOLDER_DEPRECATED", "STATE_FINALIZED_DEPRECATED"} => delivered = {}
-----------------------------------------------------------------------------
(* The empty buffer and the empty holder are of their types, and a transaction
   fits into the buffer. *)
LEMMA Sizes ==
    /\ BUFFER_LEN \in Nat /\ 0 \in 0 .. BUFFER_LEN
    /\ ZeroBuffer \in Buffer /\ NoHolder \in Holder
    /\ \A t \in HolderTrxs : /\ t \in Seq(Byte) /\ t # ZeroHash /\ Len(t) \in Nat
                             /\ Len(t) <= BUFFER_LEN /\ \A i \in 1 .. Len(t) : t[i] \in Byte
  <1>1. BUFFER_LEN \in Nat /\ 0 \in 0 .. BUFFER_LEN
    BY HolderAssumption
  <1>2. ZeroBuffer \in Buffer
    BY DEF ZeroBuffer, Buffer, Byte
  <1>3. NoHolder \in Holder
    BY <1>1, <1>2, Zenon DEF NoHolder, Holder, Tags
  <1>4. ASSUME NEW t \in HolderTrxs
        PROVE  /\ t \in Seq(Byte) /\ t # ZeroHash /\ Len(t) \in Nat
               /\ Len(t) <= BUFFER_LEN /\ \A i \in 1 .. Len(t) : t[i] \in Byte
    BY HolderAssumption
  <1> QED BY <1>1, <1>2, <1>3, <1>4, Zenon

(* A holder that is cleared has collected nothing. *)
LEMMA ClearCollects ==
    ASSUME NEW h \in Holder
    PROVE  clear(h) \in Holder /\ clear(h).tag = h.tag /\ clear(h).owner = h.owner
           /\ clear(h).hash = ZeroHash /\ clear(h).len = 0 /\ Collected(clear(h), {})
  BY Sizes, Zenon DEF clear, Holder, Collected

(* update_holder_account turns a deprecated holder into one of the current
   layout without losing a chunk. *)
LEMMA UpdateCollects ==
    ASSUME HolderInv
    PROVE  LET h == update_holder_account(holder)
           IN  h \in Holder /\ (h.tag = "HOLDER" => Collected(h, delivered))
  BY Sizes, Zenon DEF HolderInv, update_holder_account, Holder, Tags, Collected

(* One chunk of t, into a holder that has chunks of t or is cleared first. *)
LEMMA WriteCollects ==
    ASSUME NEW h \in Holder, NEW bytes, Collected(h, bytes), NEW t \in HolderTrxs,
           NEW offset \in 0 .. Len(t) - 1, NEW len \in 1 .. Len(t) - offset
    PROVE  LET w == write(update_transaction_hash(h, t), offset, SubSeq(t, offset + 1, offset + len))
               b == (IF h.hash = t THEN bytes ELSE {}) \cup (offset + 1 .. offset + len)
           IN  w \in Holder /\ w.tag = h.tag /\ Collected(w, b)
  <1> DEFINE u == update_transaction_hash(h, t)
             old == IF h.hash = t THEN bytes ELSE {}
             chunk == SubSeq(t, offset + 1, offset + len)
             w == write(u, offset, chunk)
  <1>1. /\ t \in Seq(Byte) /\ t # ZeroHash /\ Len(t) \in Nat /\ Len(t) <= BUFFER_LEN
        /\ \A i \in 1 .. Len(t) : t[i] \in Byte
        /\ offset \in Nat /\ len \in Nat /\ len > 0 /\ offset + len <= Len(t)
        /\ BUFFER_LEN \in Nat
    BY Sizes
  <1>2. u \in Holder /\ u.tag = h.tag /\ u.hash = t /\ Collected(u, old)
    <2>1. CASE h.hash = t
      BY <2>1, Zenon DEF update_transaction_hash
    <2>2. CASE h.hash # t
      <3> DEFINE c == clear(h)
      <3>1. c \in Holder /\ c.tag = h.tag /\ c.len = 0
        BY ClearCollects, Zenon
      <3>2. u = [c EXCEPT !.hash = t] /\ old = {}
        BY <2>2, Zenon DEF update_transaction_hash
      <3> HIDE DEF c, u, old
      <3>3. u \in Holder /\ u.tag = h.tag /\ u.hash = t /\ u.len = 0
        BY <3>1, <3>2, Zenon DEF Holder
      <3>4. Collected(u, old)
        BY <1>1, <3>2, <3>3 DEF Collected
      <3> QED BY <3>3, <3>4, Zenon
    <2> QED BY <2>1, <2>2, Zenon
  <1>3. Len(chunk) = len /\ \A i \in 1 .. len : chunk[i] = t[offset + i]
    <2>1. \A i \in offset + 1 .. offset + len : t[i] \in Byte
      BY <1>1
    <2>2. /\ Len(chunk) = IF offset + 1 <= offset + len THEN offset + len - (offset + 1) + 1 ELSE 0
          /\ \A i \in 1 .. offset + len - (offset + 1) + 1 : chunk[i] = t[offset + 1 + i - 1]
      <3>1. offset + 1 \in Int /\ offset + len \in Int
        BY <1>1
      <3> QED BY <2>1, <3>1, SubSeqProperties
    <2> HIDE DEF chunk
    <2> QED BY <1>1, <2>2
  <1> HIDE DEF u, chunk, old
  <1>4. /\ u.len \in Nat /\ u.len <= Len(t) /\ u.buffer \in Buffer
        /\ old \subseteq 1 .. u.len /\ \A i \in old : u.buffer[i] = t[i]
    BY <1>1, <1>2 DEF Holder, Collected
  <1>5. w = [u EXCEPT !.len = IF u.len > offset + len THEN u.len ELSE offset + len,
                      !.buffer = [i \in 1 .. BUFFER_LEN |->
                          IF i \in offset + 1 .. offset + len THEN chunk[i - offset] ELSE u.buffer[i]]]
    BY <1>2, <1>3, <1>4, Zenon DEF write, Buffer
  <1>6. /\ w.tag = h.tag /\ w.hash = t /\ w.owner = u.owner
        /\ w.len = (IF u.len > offset + len THEN u.len ELSE offset + len)
        /\ w.buffer = [i \in 1 .. BUFFER_LEN |->
              IF i \in offset + 1 .. offset + len THEN chunk[i - offset] ELSE u.buffer[i]]
    BY <1>2, <1>5, Zenon DEF Holder
  <1>7. \A i \in offset + 1 .. offset + len : i \in 1 .. BUFFER_LEN /\ w.buffer[i] = t[i]
    <2> SUFFICES ASSUME NEW i \in offset + 1 .. offset + len
                 PROVE  i \in 1 .. BUFFER_LEN /\ w.buffer[i] = t[i]
      BY Zenon
    <2>1. i \in 1 .. BUFFER_LEN /\ i - offset \in 1 .. len /\ offset + (i - offset) = i
      BY <1>1
    <2>2. w.buffer[i] = chunk[i - offset]
      BY <1>6, <2>1, Zenon
    <2> QED BY <1>3, <2>1, <2>2, Zenon
  <1>8. w.buffer \in Buffer
    <2>1. \A i \in 1 .. BUFFER_LEN : w.buffer[i] \in Byte
      <3> SUFFICES ASSUME NEW i \in 1 .. BUFFER_LEN PROVE w.buffer[i] \in Byte
        BY Zenon
      <3>1. CASE i \in offset + 1 .. offset + len
        BY <1>1, <1>7, <3>1
      <3>2. CASE i \notin offset + 1 .. offset + len
        BY <1>4, <1>6, <3>2, Zenon DEF Buffer
      <3> QED BY <3>1, <3>2, Zenon
    <2> QED BY <1>6, <2>1, Zenon DEF Buffer
  <1>9. w \in Holder
    <2>1. w.len \in 0 .. BUFFER_LEN
      BY <1>1, <1>4, <1>6
    <2> QED BY <1>2, <1>5, <1>6, <1>8, <2>1, Zenon DEF Holder
  <1>10. Collected(w, old \cup (offset + 1 .. offset + len))
    <2>1. w.len <= Len(w.hash)
      BY <1>1, <1>4, <1>6, Zenon
    <2>2. old \cup (offset + 1 .. offset + len) \subseteq 1 .. w.len
      BY <1>1, <1>4, <1>6
    <2>3. \A i \in old : w.buffer[i] = t[i]
      <3> SUFFICES ASSUME NEW i \in old PROVE w.buffer[i] = t[i]
        BY Zenon
      <3>1. CASE i \in offset + 1 .. offset + len
        BY <1>7, <3>1, Zenon
      <3>2. CASE i \notin offset + 1 .. offset + len
        <4>1. i \in 1 .. BUFFER_LEN
          BY <1>1, <1>4
        <4> QED BY <1>4, <1>6, <3>2, <4>1, Zenon
      <3> QED BY <3>1, <3>2, Zenon
    <2> HIDE DEF w
    <2> QED BY <1>1, <1>6, <1>7, <2>1, <2>2, <2>3, Zenon DEF Collected
  <1> QED BY <1>6, <1>9, <1>10, Zenon DEF u, chunk, old
-----------------------------------------------------------------------------
(* An account that is not a holder yet has nothing to keep. *)
LEMMA HolderInitInv == HolderInit => HolderInv
  <1> SUFFICES ASSUME HolderInit PROVE HolderInv
    BY Zenon
  <1>1. CASE holder = NoHolder
    BY <1>1, Sizes, Zenon DEF HolderInit, HolderInv, NoHolder
  <1>2. CASE holder \in OldHolders
    BY <1>2, Sizes, HolderAssumption, Zenon DEF HolderInit, HolderInv, Holder, Tags
  <1> QED BY <1>1, <1>2, Zenon DEF HolderInit

(* Creating, writing, deleting and executing each keep the chunks that were
   delivered. *)
LEMMA HolderStepInv == HolderInv /\ [HolderNext]_holderVars => HolderInv'
  <1> SUFFICES ASSUME HolderInv, [HolderNext]_holderVars PROVE HolderInv'
    BY Zenon
  <1> DEFINE h == update_holder_account(holder)
  <1>h. h \in Holder /\ (h.tag = "HOLDER" => Collected(h, delivered))
    BY UpdateCollects, Zenon
  <1>b. holder \in Holder /\ Heaps \subseteq Buffer
    BY HolderAssumption, Zenon DEF HolderInv
  <1>1. ASSUME NEW o \in HolderOwners, HolderCreate(o) PROVE HolderInv'
    <2> DEFINE n == [holder EXCEPT !.tag = "HOLDER", !.owner = o]
    <2>1. n \in Holder /\ n.tag = "HOLDER"
      BY <1>b, Zenon DEF Holder, Tags
    <2>2. holder' = clear(n) /\ delivered' = {}
      BY <1>1, Zenon DEF HolderCreate
    <2> HIDE DEF n
    <2> QED BY <2>1, <2>2, ClearCollects, Zenon DEF HolderInv
  <1>2. ASSUME NEW o \in HolderOwners, HolderDelete(o) PROVE HolderInv'
    BY <1>2, Sizes, Zenon DEF HolderDelete, HolderInv, NoHolder
  <1>3. ASSUME NEW o \in HolderOwners, NEW t \in HolderTrxs, NEW offset \in 0 .. Len(t) - 1,
               NEW len \in 1 .. Len(t) - offset, HolderWrite(o, t, offset, len)
        PROVE  HolderInv'
    <2> DEFINE g == from_account(h)
    <2>1. IsHolder(g) /\ g \in Holder /\ g.tag = "HOLDER"
      <3>1. IsHolder(g)
        BY <1>3, Zenon DEF HolderWrite
      <3>2. [h EXCEPT !.tag = "HOLDER"] \in Holder
        BY <1>h, Zenon DEF Holder, Tags
      <3>3. [h EXCEPT !.tag = "HOLDER"].tag = "HOLDER"
        BY <1>h, Zenon DEF Holder
      <3>4. g \in Holder /\ (h.tag = "STATE_FINALIZED" => g.tag = "HOLDER")
        BY <1>h, <3>2, <3>3, ClearCollects, Zenon DEF from_account
      <3>5. h.tag # "STATE_FINALIZED" => g = h
        BY Zenon DEF from_account
      <3> QED BY <3>1, <3>4, <3>5, Zenon DEF IsHolder
    <2>2. PICK bytes : Collected(g, bytes) /\ (g.hash = t => bytes = delivered)
      <3>1. CASE h.tag = "STATE_FINALIZED"
        <4>1. [h EXCEPT !.tag = "HOLDER"] \in Holder
          BY <1>h, Zenon DEF Holder, Tags
        <4>2. Collected(g, {}) /\ g.hash = ZeroHash
          BY <3>1, <4>1, ClearCollects, Zenon DEF from_account
        <4> QED BY <4>2, Sizes, Zenon
      <3>2. CASE h.tag # "STATE_FINALIZED"
        <4>1. g = h
          BY <3>2, Zenon DEF from_account
        <4> QED BY <1>h, <2>1, <4>1, Zenon
      <3> QED BY <3>1, <3>2, Zenon
    <2>3. /\ holder' = write(update_transaction_hash(g, t), offset, SubSeq(t, offset + 1, offset + len))
          /\ delivered' = (IF g.hash = t THEN delivered ELSE {}) \cup (offset + 1 .. offset + len)
      BY <1>3, Zenon DEF HolderWrite
    <2> HIDE DEF g
    <2>4. delivered' = (IF g.hash = t THEN bytes ELSE {}) \cup (offset + 1 .. offset + len)
      <3>1. CASE g.hash = t
        BY <2>2, <2>3, <3>1, Zenon
      <3>2. CASE g.hash # t
        BY <2>3, <3>2, Zenon
      <3> QED BY <3>1, <3>2, Zenon
    <2>5. holder' \in Holder /\ holder'.tag = "HOLDER" /\ Collected(holder', delivered')
      <3> DEFINE w == write(update_transaction_hash(g, t), offset, SubSeq(t, offset + 1, offset + len))
                 b == (IF g.hash = t THEN bytes ELSE {}) \cup (offset + 1 .. offset + len)
      <3>1. w \in Holder /\ w.tag = g.tag /\ Collected(w, b)
        <4>1. g \in Holder /\ Collected(g, bytes)
          BY <2>1, <2>2, Zenon
        <4> QED BY <4>1, WriteCollects, Zenon
      <3>2. holder' = w /\ delivered' = b
        BY <2>3, <2>4, Zenon
      <3> HIDE DEF w, b
      <3> QED BY <2>1, <3>1, <3>2, Zenon
    <2> QED BY <2>5, Zenon DEF HolderInv
  <1>4. ASSUME NEW o \in HolderOwners, NEW heap \in Heaps, HolderExecuteFromInstruction(o, heap)
        PROVE  HolderInv'
    <2> DEFINE g == from_account(holder)
    <2>1. g \in Holder /\ g.tag = "HOLDER" /\ Collected(g, {})
      <3>1. CASE holder.tag = "STATE_FINALIZED"
        <4>1. [holder EXCEPT !.tag = "HOLDER"] \in Holder /\ [holder EXCEPT !.tag = "HOLDER"].tag = "HOLDER"
          BY <1>b, Zenon DEF Holder, Tags
        <4> QED BY <3>1, <4>1, ClearCollects, Zenon DEF from_account
      <3>2. CASE holder.tag = "HOLDER"
        BY <1>b, <3>2, Zenon DEF from_account, HolderInv, Collected
      <3> QED BY <1>4, <3>1, <3>2, Zenon DEF HolderExecuteFromInstruction, IsHolder
    <2>2. holder' = [g EXCEPT !.buffer = heap] /\ delivered' = {}
      BY <1>4, Zenon DEF HolderExecuteFromInstruction
    <2> HIDE DEF g
    <2>3. holder' \in Holder /\ holder'.tag = "HOLDER" /\ Collected(holder', {})
      BY <1>b, <2>1, <2>2, Zenon DEF Holder, Collected
    <2> QED BY <2>2, <2>3, Zenon DEF HolderInv
  <1>5. ASSUME NEW o \in HolderOwners, NEW heap \in Heaps, HolderExecuteFromAccount(o, heap)
        PROVE  HolderInv'
    <2>1. holder.tag = "HOLDER" /\ holder' = [holder EXCEPT !.buffer = heap] /\ delivered' = {}
      BY <1>5, Zenon DEF HolderExecuteFromAccount
    <2>2. holder' \in Holder /\ holder'.tag = "HOLDER" /\ Collected(holder', {})
      BY <1>b, <2>1, Zenon DEF HolderInv, Holder, Collected
    <2> QED BY <2>1, <2>2, Zenon DEF HolderInv
  <1>6. ASSUME NEW o \in HolderOwners, NEW heap \in Heaps, HolderBeginFromAccount(o, heap)
        PROVE  HolderInv'
    <2>1. holder' = [h EXCEPT !.tag = "STATE", !.buffer = heap]
      BY <1>6, Zenon DEF HolderBeginFromAccount
    <2>2. holder' \in Holder /\ holder'.tag = "STATE"
      <3> HIDE DEF h
      <3> QED BY <1>b, <1>h, <2>1, Zenon DEF Holder, Tags
    <2> QED BY <2>2, Zenon DEF HolderInv
  <1>7. ASSUME NEW o \in HolderOwners, NEW heap \in Heaps, NEW t \in HolderTrxs,
               HolderBeginFromInstruction(o, t, heap)
        PROVE  HolderInv'
    <2>1. holder' = [h EXCEPT !.tag = "STATE", !.hash = t, !.buffer = heap]
      BY <1>7, Zenon DEF HolderBeginFromInstruction
    <2>2. holder' \in Holder /\ holder'.tag = "STATE"
      <3> HIDE DEF h
      <3> QED BY <1>b, <1>h, <2>1, Zenon DEF Holder, Tags
    <2> QED BY <2>2, Zenon DEF HolderInv
  <1>8. CASE HolderFinalize
    <2>1. holder' \in Holder /\ holder'.tag = "STATE_FINALIZED"
      BY <1>b, <1>8, Zenon DEF HolderFinalize, Holder, Tags
    <2> QED BY <2>1, Zenon DEF HolderInv
  <1>9. CASE UNCHANGED holderVars
    BY <1>9, Zenon DEF holderVars, HolderInv, Collected
  <1> QED BY <1>1, <1>2, <1>3, <1>4, <1>5, <1>6, <1>7, <1>8, <1>9, Zenon DEF HolderNext

(* Holder::write and update_transaction_hash: chunks that together are a   *)
(* transaction leave that transaction in the holder.                       *)
THEOREM DeliveredTransactionsAreComplete == HolderSpec => []DeliveredIsComplete
  <1>1. HolderInv => DeliveredIsComplete
    <2> SUFFICES ASSUME HolderInv, NEW t \in HolderTrxs, holder.tag = "HOLDER", holder.hash = t,
                        delivered = 1 .. Len(t)
                 PROVE  transaction(holder) = t
      BY Zenon DEF DeliveredIsComplete
    <2>1. t \in Seq(Byte) /\ t # ZeroHash /\ Len(t) \in Nat /\ Len(t) <= BUFFER_LEN
      BY Sizes, Zenon
    <2>2. Len(t) > 0
      BY <2>1, EmptySeq DEF ZeroHash
    <2>3. /\ holder.len \in Nat /\ holder.len <= Len(t) /\ delivered \subseteq 1 .. holder.len
          /\ \A i \in 1 .. Len(t) : holder.buffer[i] = t[i]
      BY <2>1 DEF HolderInv, Collected, Holder
    <2>4. holder.len = Len(t)
      <3>1. Len(t) \in delivered
        BY <2>1, <2>2
      <3> QED BY <2>1, <2>3, <3>1
    <2>5. \A i \in 1 .. Len(t) : holder.buffer[i] \in Byte
      BY <2>1, <2>3
    <2>6. /\ transaction(holder) \in Seq(Byte) /\ Len(transaction(holder)) = Len(t)
          /\ \A i \in 1 .. Len(t) : transaction(holder)[i] = t[i]
      <3>1. /\ SubSeq(holder.buffer, 1, Len(t)) \in Seq(Byte)
            /\ Len(SubSeq(holder.buffer, 1, Len(t))) = IF 1 <= Len(t) THEN Len(t) - 1 + 1 ELSE 0
            /\ \A i \in 1 .. Len(t) - 1 + 1 : SubSeq(holder.buffer, 1, Len(t))[i] = holder.buffer[1 + i - 1]
        BY <2>1, <2>5, SubSeqProperties
      <3> QED BY <2>1, <2>2, <2>3, <2>4, <3>1 DEF transaction
    <2> QED BY <2>1, <2>6, SeqEqual, Zenon
  <1> QED BY <1>1, HolderInitInv, HolderStepInv, PTL DEF HolderSpec
-----------------------------------------------------------------------------
Action ==
    [kind : {"EvmSetStorage"}, key : Cells, value : Nat]
        \cup [kind : {"Transfer"}, source : Purses, target : Purses, value : Nat]

(* What a state account keeps.  Balances that were read are not typed: what *)
(* a log of transfers leaves of them is a fold over it.                     *)
IsData(d) ==
    /\ DOMAIN d = {"touched", "revisions", "actions", "exited", "block", "stamped",
                   "reads", "blind"}
    /\ d.touched \in [Keys -> 0 .. 2]
    /\ d.revisions \in [Keys -> Nat \cup {Unknown}]
    /\ d.actions \in Seq(Action)
    /\ d.block \in Nat
    /\ DOMAIN d.reads = Keys

TypeInv ==
    /\ DOMAIN value = Keys
    /\ revision \in [Keys -> 0 .. MaxRevision]
    /\ timestamp_used_at \in Nat /\ clock \in Nat /\ last_block \in Nat
    /\ running \subseteq Trxs
    /\ DOMAIN data = Trxs
    /\ \A t \in Trxs : IsData(data[t])

(* The revision of the first touch tells whether the account has changed   *)
(* since: revisions only grow, and what they stood for is what was read.   *)
Agrees(d, rev, val) ==
    \A k \in Cells :
        /\ d.touched[k] > 0 => d.revisions[k] # Unknown
        /\ d.revisions[k] # Unknown => d.revisions[k] <= rev[k]
        /\ d.revisions[k] = rev[k] => d.reads[k] = val[k]
Current(d) == Agrees(d, revision, value)

(* Blocks are fixed in the past, and so are the recorded ones. *)
TimeInv ==
    /\ last_block <= timestamp_used_at /\ timestamp_used_at <= clock
    /\ \A t \in Trxs : data[t].block <= clock

Inv == TypeInv /\ TimeInv /\ \A t \in Trxs : Current(data[t])
-----------------------------------------------------------------------------
(* Storage cells and balances are different accounts, and the bounds are in
   order. *)
LEMMA KeysAreDisjoint ==
    /\ Cells \subseteq Keys /\ Purses \subseteq Keys /\ \A k \in Cells : k \notin Purses
    /\ \A n \in Nat : n # Unknown
    /\ MaxRevision \in Nat /\ REVISIONS \in Nat /\ MaxRevision < REVISIONS /\ MaxValue \in Nat
    /\ MaxClock \in Nat /\ 0 < MaxRevision
  BY KeysAssumption, BoundAssumption, Zenon DEF Keys

(* A state account that starts again knows nothing that could be stale. *)
LEMMA NewIsCurrent ==
    ASSUME TypeInv, NEW block \in Nat
    PROVE  /\ IsData(ExecutorStateData_new(block)) /\ Current(ExecutorStateData_new(block))
           /\ ExecutorStateData_new(block).block = block
  <1> DEFINE d == ExecutorStateData_new(block)
  <1>1. IsData(d)
    BY DEF IsData, ExecutorStateData_new
  <1>2. Current(d)
    BY KeysAreDisjoint DEF Current, Agrees, ExecutorStateData_new, TypeInv
  <1> QED BY <1>1, <1>2, Zenon DEF ExecutorStateData_new

(* What StateAccount::restore goes on with is current: it drops the cache when
   a revision has changed. *)
LEMMA RestoredIsCurrent ==
    ASSUME Inv, NEW t \in Trxs
    PROVE  /\ IsData(restore(data[t])) /\ Current(restore(data[t]))
           /\ restore(data[t]).block <= clock
  <1>1. CASE NeedRestart(data[t])
    <2>1. clock \in Nat /\ restore(data[t]) = ExecutorStateData_new(clock)
      BY <1>1, Zenon DEF restore, Inv, TypeInv
    <2> QED BY <2>1, NewIsCurrent DEF Inv
  <1>2. CASE ~NeedRestart(data[t])
    BY <1>2, Zenon DEF restore, Inv, TypeInv, TimeInv
  <1> QED BY <1>1, <1>2, Zenon

(* A read records the value with the revision that it has, unless an       *)
(* earlier touch has recorded one.                                         *)
LEMMA ReadingIsCurrent ==
    ASSUME TypeInv, NEW d, IsData(d), Current(d), NEW k \in Keys, NEW n \in 1 .. 2
    PROVE  /\ IsData(Reading(d, k, n)) /\ Current(Reading(d, k, n))
           /\ Reading(d, k, n).block = d.block
  <1> DEFINE r == Reading(d, k, n)
  <1>1. /\ DOMAIN r = DOMAIN d
        /\ r.touched = [j \in Keys |-> AtLeastTwo(d.touched[j] + Touches(k, n)[j])]
        /\ r.revisions = [j \in Keys |->
              IF Touches(k, n)[j] > 0 /\ d.revisions[j] = Unknown THEN revision[j]
              ELSE d.revisions[j]]
        /\ r.actions = d.actions /\ r.block = d.block
        /\ r.reads = [d.reads EXCEPT ![k] = value[k]]
    BY Zenon DEF Reading, update_touched_accounts, IsData
  <1>2. \A j \in Keys : Touches(k, n)[j] = IF j = k THEN n ELSE 0
    BY Zenon DEF Touches
  <1>3. \A j \in Keys : r.touched[j] \in 0 .. 2 /\ (r.touched[j] > 0 => j = k \/ d.touched[j] > 0)
    BY <1>1, <1>2 DEF IsData, AtLeastTwo
  <1>4. \A j \in Keys : r.revisions[j] =
           IF j = k /\ d.revisions[j] = Unknown THEN revision[j] ELSE d.revisions[j]
    BY <1>1, <1>2
  <1>5. DOMAIN r.reads = Keys /\ \A j \in Keys : r.reads[j] = IF j = k THEN value[k] ELSE d.reads[j]
    BY <1>1, Zenon DEF IsData
  <1>6. IsData(r)
    <2>1. r.touched \in [Keys -> 0 .. 2]
      BY <1>1, <1>3, Zenon
    <2>2. r.revisions \in [Keys -> Nat \cup {Unknown}]
      BY <1>1, <1>4 DEF IsData, TypeInv
    <2> QED BY <1>1, <1>5, <2>1, <2>2, Zenon DEF IsData
  <1>7. Current(r)
    <2> SUFFICES ASSUME NEW j \in Cells
                 PROVE  /\ r.touched[j] > 0 => r.revisions[j] # Unknown
                        /\ r.revisions[j] # Unknown => r.revisions[j] <= revision[j]
                        /\ r.revisions[j] = revision[j] => r.reads[j] = value[j]
      BY Zenon DEF Current, Agrees
    <2>1. j \in Keys /\ revision[j] \in Nat /\ revision[j] # Unknown
      BY KeysAreDisjoint DEF TypeInv
    <2>2. /\ d.touched[j] > 0 => d.revisions[j] # Unknown
          /\ d.revisions[j] # Unknown => d.revisions[j] <= revision[j]
          /\ d.revisions[j] = revision[j] => d.reads[j] = value[j]
      BY Zenon DEF Current, Agrees
    <2> QED BY <1>3, <1>4, <1>5, <2>1, <2>2
  <1> QED BY <1>1, <1>6, <1>7, Zenon
-----------------------------------------------------------------------------
(* A storage account that has another value has a later revision. *)
Revised(k) == revision'[k] >= revision[k] /\ (revision'[k] = revision[k] => value'[k] = value[k])

(* What a log does to storage: whatever it changes has a later revision.   *)
LEMMA ApplyRevises ==
    ASSUME TypeInv, NEW actions \in Seq(Action), apply_state_change(actions)
    PROVE  /\ revision' \in [Keys -> 0 .. MaxRevision] /\ DOMAIN value' = Keys
           /\ \A k \in Cells : Revised(k)
  <1>1. \A k \in Keys : Bumps(actions, k) \in Nat /\ (Writes(actions, k) # {} => Bumps(actions, k) > 0)
    <2> SUFFICES ASSUME NEW k \in Keys
                 PROVE  Bumps(actions, k) \in Nat /\ (Writes(actions, k) # {} => Bumps(actions, k) > 0)
      BY Zenon
    <2>1. IsFiniteSet(1 .. Len(actions))
      BY FS_Interval
    <2>2. Transfers(actions, k) \subseteq 1 .. Len(actions)
      BY DEF Transfers
    <2>3. Cardinality(Transfers(actions, k)) \in Nat
      BY <2>1, <2>2, FS_Subset, FS_CardinalityType, Zenon
    <2> QED BY <2>3 DEF Bumps
  <1>2. \A k \in Keys : revision'[k] = revision[k] + Bumps(actions, k) /\ revision'[k] <= MaxRevision
    <2> SUFFICES ASSUME NEW k \in Keys
                 PROVE  revision'[k] = revision[k] + Bumps(actions, k) /\ revision'[k] <= MaxRevision
      BY Zenon
    <2> DEFINE n == revision[k] + Bumps(actions, k)
    <2>1. n \in Nat /\ n <= MaxRevision /\ revision'[k] = n % REVISIONS
      BY <1>1 DEF apply_state_change, TypeInv
    <2>2. n % REVISIONS = n
      <3> HIDE DEF n
      <3> QED BY <2>1, KeysAreDisjoint
    <2> QED BY <2>1, <2>2, Zenon
  <1>3. revision' = [k \in Keys |-> revision'[k]]
    BY Zenon DEF apply_state_change
  <1>4. revision' \in [Keys -> 0 .. MaxRevision]
    <2>1. \A k \in Keys : revision'[k] \in 0 .. MaxRevision
      BY <1>1, <1>2, KeysAreDisjoint DEF TypeInv
    <2> QED BY <1>3, <2>1, Zenon
  <1>5. ASSUME NEW k \in Cells
        PROVE  Revised(k)
    <2>1. k \in Keys /\ k \notin Purses /\ revision[k] \in Nat
      BY KeysAreDisjoint DEF TypeInv
    <2>2. Writes(actions, k) = {} => value'[k] = value[k]
      BY <2>1, Zenon DEF apply_state_change
    <2> QED BY <1>1, <1>2, <2>1, <2>2 DEF Revised
  <1>6. DOMAIN value' = Keys
    BY Zenon DEF apply_state_change
  <1> QED BY <1>4, <1>5, <1>6, Zenon

(* A step that gives every storage account it writes a new revision leaves
   every current cache current or detectably old. *)
LEMMA StaysCurrent ==
    ASSUME TypeInv, NEW d, IsData(d), Current(d),
           revision' \in [Keys -> 0 .. MaxRevision],
           \A k \in Cells : Revised(k)
    PROVE  Agrees(d, revision', value')
  <1> SUFFICES ASSUME NEW k \in Cells
               PROVE  /\ d.touched[k] > 0 => d.revisions[k] # Unknown
                      /\ d.revisions[k] # Unknown => d.revisions[k] <= revision'[k]
                      /\ d.revisions[k] = revision'[k] => d.reads[k] = value'[k]
    BY Zenon DEF Agrees
  <1>1. /\ k \in Keys /\ revision[k] \in Nat /\ revision'[k] \in Nat /\ revision'[k] # Unknown
        /\ d.revisions[k] \in Nat \cup {Unknown}
    BY KeysAreDisjoint DEF TypeInv, IsData
  <1>2. /\ d.touched[k] > 0 => d.revisions[k] # Unknown
        /\ d.revisions[k] # Unknown => d.revisions[k] <= revision[k]
        /\ d.revisions[k] = revision[k] => d.reads[k] = value[k]
    BY Zenon DEF Current, Agrees
  <1>3. revision'[k] >= revision[k] /\ (revision'[k] = revision[k] => value'[k] = value[k])
    BY Zenon DEF Revised
  <1>4. d.revisions[k] # Unknown => d.revisions[k] <= revision'[k]
    BY <1>1, <1>2, <1>3
  <1>5. d.revisions[k] = revision'[k] => d.reads[k] = value'[k]
    BY <1>1, <1>2, <1>3
  <1> QED BY <1>2, <1>4, <1>5, Zenon

(* A step that leaves the accounts alone and gives one state account data  *)
(* that is current.                                                        *)
LEMMA IterateKeeps ==
    ASSUME Inv, NEW t \in Trxs, NEW d, IsData(d), Current(d), d.block <= clock, Iterate(t, d)
    PROVE  Inv'
  <1>1. /\ DOMAIN data' = Trxs /\ \A u \in Trxs : data'[u] = IF u = t THEN d ELSE data[u]
        /\ UNCHANGED <<value, revision, timestamp_used_at, clock, running, last_block>>
    BY Zenon DEF Iterate, Inv, TypeInv
  <1>2. \A u \in Trxs : IsData(data'[u]) /\ Agrees(data'[u], revision', value') /\ data'[u].block <= clock'
    BY <1>1, Zenon DEF Inv, TypeInv, TimeInv, Current
  <1>3. TypeInv'
    BY <1>1, <1>2, Zenon DEF Inv, TypeInv, IsData
  <1>4. TimeInv'
    BY <1>1, <1>2, Zenon DEF Inv, TimeInv
  <1> QED BY <1>2, <1>3, <1>4, Zenon DEF Inv, Current, Agrees

(* The last iteration and the transactions of one instruction. *)
LEMMA StampKeeps ==
    ASSUME TypeInv, TimeInv, NEW stamped, NEW block \in Nat, block <= clock, Stamp(stamped, block),
           clock' = clock
    PROVE  /\ timestamp_used_at' \in Nat /\ last_block' \in Nat
           /\ last_block' <= timestamp_used_at' /\ timestamp_used_at' <= clock'
  BY DEF TypeInv, TimeInv, Stamp

(* A log is applied; the state account it came from, if any, is closed. *)
LEMMA ApplyKeeps ==
    ASSUME Inv, NEW actions \in Seq(Action), apply_state_change(actions),
           NEW stamped, NEW block \in Nat, block <= clock, Stamp(stamped, block),
           clock' = clock, running' \subseteq running, DOMAIN data' = Trxs,
           \A u \in Trxs : data'[u] = data[u] \/ data'[u] = ExecutorStateData_new(0)
    PROVE  Inv'
  <1>1. /\ revision' \in [Keys -> 0 .. MaxRevision] /\ DOMAIN value' = Keys
        /\ \A k \in Cells : Revised(k)
    BY ApplyRevises, Zenon DEF Inv
  <1>2. /\ timestamp_used_at' \in Nat /\ last_block' \in Nat
        /\ last_block' <= timestamp_used_at' /\ timestamp_used_at' <= clock'
    BY StampKeeps, Zenon DEF Inv
  <1>3. ASSUME NEW u \in Trxs
        PROVE  IsData(data'[u]) /\ Agrees(data'[u], revision', value') /\ data'[u].block <= clock'
    <2>1. /\ IsData(ExecutorStateData_new(0)) /\ Current(ExecutorStateData_new(0))
          /\ ExecutorStateData_new(0).block = 0
      BY NewIsCurrent, Zenon DEF Inv
    <2>2. IsData(data'[u]) /\ Current(data'[u])
      BY <2>1, Zenon DEF Inv, TypeInv
    <2>3. data'[u].block <= clock'
      BY <2>1 DEF Inv, TypeInv, TimeInv
    <2> QED BY <1>1, <2>2, <2>3, StaysCurrent, Zenon DEF Inv
  <1>4. TypeInv'
    BY <1>1, <1>2, <1>3, Zenon DEF Inv, TypeInv, IsData
  <1>5. TimeInv'
    BY <1>2, <1>3, Zenon DEF TimeInv
  <1> QED BY <1>3, <1>4, <1>5, Zenon DEF Inv, Current, Agrees

(* Nothing has been read at first. *)
LEMMA InitInv == OptimisticInit => Inv
  <1> SUFFICES ASSUME OptimisticInit PROVE Inv
    BY Zenon
  <1>1. ASSUME NEW t \in Trxs
        PROVE  IsData(data[t]) /\ Current(data[t]) /\ data[t].block = 1
    <2>1. data[t] = ExecutorStateData_new(1)
      BY Zenon DEF OptimisticInit
    <2>2. IsData(ExecutorStateData_new(1))
      BY DEF IsData, ExecutorStateData_new
    <2>3. \A k \in Cells : revision[k] = 1 /\ 1 # Unknown /\ k \in Keys
      BY KeysAreDisjoint, Zenon DEF OptimisticInit
    <2>4. Current(ExecutorStateData_new(1))
      BY <2>3 DEF Current, Agrees, ExecutorStateData_new
    <2> QED BY <2>1, <2>2, <2>4 DEF ExecutorStateData_new
  <1>2. /\ DOMAIN data = Trxs /\ DOMAIN value = Keys /\ clock = 1 /\ timestamp_used_at = 0
        /\ last_block = 0 /\ running = Trxs
    BY Zenon DEF OptimisticInit
  <1>3. revision \in [Keys -> 0 .. MaxRevision]
    BY KeysAreDisjoint DEF OptimisticInit
  <1> QED BY <1>1, <1>2, <1>3 DEF Inv, TypeInv, TimeInv

(* Every step keeps the caches and the time stamps as Inv says. *)
LEMMA StepInv == Inv /\ [OptimisticNext]_optimisticVars => Inv'
  <1> SUFFICES ASSUME Inv, [OptimisticNext]_optimisticVars PROVE Inv'
    BY Zenon
  <1>1. ASSUME NEW t \in Trxs, NEW k \in Keys, Read(t, k) PROVE Inv'
    <2> DEFINE d == restore(data[t])
    <2>1. IsData(d) /\ Current(d) /\ d.block <= clock
      BY RestoredIsCurrent, Zenon
    <2>2. IsData(Reading(d, k, 2)) /\ Current(Reading(d, k, 2)) /\ Reading(d, k, 2).block <= clock
      BY <2>1, ReadingIsCurrent DEF Inv
    <2> QED BY <1>1, <2>2, IterateKeeps, Zenon DEF Read
  <1>2. ASSUME NEW t \in Trxs, NEW k \in Cells, NEW v \in 0 .. MaxValue, Write(t, k, v) PROVE Inv'
    <2> DEFINE d == restore(data[t])
               n == [d EXCEPT !.actions = Append(@, SetStorage(k, v))]
    <2>1. IsData(d) /\ Current(d) /\ d.block <= clock
      BY RestoredIsCurrent, Zenon
    <2>2. SetStorage(k, v) \in Action
      BY KeysAreDisjoint DEF SetStorage, Action
    <2>3. IsData(n) /\ Current(n) /\ n.block <= clock
      BY <2>1, <2>2 DEF IsData, Current, Agrees
    <2> QED BY <1>2, <2>3, IterateKeeps, Zenon DEF Write
  <1>3. ASSUME NEW t \in Trxs, NEW source \in Purses, NEW target \in Purses, NEW v \in 1 .. MaxValue,
               Pay(t, source, target, v)
        PROVE  Inv'
    <2> DEFINE d == restore(data[t])
               r == Reading(d, source, 1)
               n == [r EXCEPT !.actions = Append(@, Transfer(source, target, v))]
    <2>1. IsData(d) /\ Current(d) /\ d.block <= clock
      BY RestoredIsCurrent, Zenon
    <2>2. IsData(r) /\ Current(r) /\ r.block <= clock
      <3>1. source \in Keys /\ 1 \in 1 .. 2 /\ TypeInv
        BY KeysAreDisjoint DEF Inv
      <3> HIDE DEF d
      <3> QED BY <2>1, <3>1, ReadingIsCurrent, Zenon
    <2>3. Transfer(source, target, v) \in Action
      BY KeysAreDisjoint DEF Transfer, Action
    <2>4. IsData(n) /\ Current(n) /\ n.block <= clock
      <3> HIDE DEF r
      <3> QED BY <2>2, <2>3 DEF IsData, Current, Agrees
    <2> QED BY <1>3, <2>4, IterateKeeps, Zenon DEF Pay
  <1>4. ASSUME NEW t \in Trxs, AskTime(t) \/ Exit(t) PROVE Inv'
    <2> DEFINE d == restore(data[t])
               asked == [d EXCEPT !.stamped = TRUE]
               exited == [d EXCEPT !.exited = TRUE]
    <2>1. IsData(d) /\ Current(d) /\ d.block <= clock
      BY RestoredIsCurrent, Zenon
    <2>2. /\ IsData(asked) /\ Current(asked) /\ asked.block <= clock
          /\ IsData(exited) /\ Current(exited) /\ exited.block <= clock
      BY <2>1, Zenon DEF IsData, Current, Agrees
    <2> QED BY <1>4, <2>2, IterateKeeps, Zenon DEF AskTime, Exit
  <1>5. ASSUME NEW t \in Trxs, Apply(t) PROVE Inv'
    <2> DEFINE d == restore(data[t])
    <2>1. IsData(d) /\ d.block <= clock
      BY RestoredIsCurrent, Zenon
    <2>2. d.actions \in Seq(Action) /\ d.block \in Nat
      BY <2>1, Zenon DEF IsData
    <2>3. /\ apply_state_change(d.actions) /\ Stamp(d.stamped, d.block) /\ clock' = clock
          /\ running' \subseteq running
          /\ data' = [data EXCEPT ![t] = ExecutorStateData_new(0)]
      BY <1>5, Zenon DEF Apply
    <2>4. /\ DOMAIN data' = Trxs
          /\ \A u \in Trxs : data'[u] = data[u] \/ data'[u] = ExecutorStateData_new(0)
      BY <2>3, Zenon DEF Inv, TypeInv
    <2> HIDE DEF d
    <2> QED BY <2>1, <2>2, <2>3, <2>4, ApplyKeeps, Zenon
  <1>6. ASSUME NEW t \in Trxs, CancelIterative(t) PROVE Inv'
    <2>1. /\ IsData(ExecutorStateData_new(0)) /\ Current(ExecutorStateData_new(0))
          /\ ExecutorStateData_new(0).block = 0
      BY NewIsCurrent, Zenon DEF Inv
    <2>2. /\ DOMAIN data' = Trxs /\ running' \subseteq running
          /\ \A u \in Trxs : data'[u] = data[u] \/ data'[u] = ExecutorStateData_new(0)
          /\ UNCHANGED <<value, revision, timestamp_used_at, clock, last_block>>
      BY <1>6, Zenon DEF CancelIterative, Inv, TypeInv
    <2>3. \A u \in Trxs : IsData(data'[u]) /\ Agrees(data'[u], revision', value') /\ data'[u].block <= clock'
      BY <2>1, <2>2 DEF Inv, TypeInv, TimeInv, Current
    <2>4. TypeInv'
      BY <2>2, <2>3, Zenon DEF Inv, TypeInv, IsData
    <2>5. TimeInv'
      BY <2>2, <2>3, Zenon DEF Inv, TimeInv
    <2> QED BY <2>3, <2>4, <2>5, Zenon DEF Inv, Current, Agrees
  <1>7. ASSUME NEW action \in Action, NEW stamped, Execute(action, stamped) PROVE Inv'
    <2>1. <<action>> \in Seq(Action) /\ clock \in Nat /\ DOMAIN data = Trxs /\ clock <= clock
      BY DEF Inv, TypeInv
    <2>2. apply_state_change(<<action>>) /\ Stamp(stamped, clock) /\ UNCHANGED <<clock, running, data>>
      BY <1>7, Zenon DEF Execute
    <2> QED BY <2>1, <2>2, ApplyKeeps, Zenon
  <1>8. ASSUME NEW source \in Purses, NEW target \in Purses, NEW v \in 1 .. MaxValue,
               ExecuteSynced(source, target, v)
        PROVE  Inv'
    <2>1. UNCHANGED <<revision, timestamp_used_at, clock, running, last_block>>
      BY <1>8, Zenon DEF ExecuteSynced
    <2>2. DOMAIN value' = Keys /\ \A k \in Cells : value'[k] = value[k]
      BY <1>8, KeysAreDisjoint, Zenon DEF ExecuteSynced, Inv, TypeInv
    <2>3. DOMAIN data' = Trxs
      BY <1>8, Zenon DEF ExecuteSynced, Blinded
    <2>4. ASSUME NEW u \in Trxs
          PROVE  /\ DOMAIN data'[u] = DOMAIN data[u]
                 /\ data'[u].touched = data[u].touched /\ data'[u].revisions = data[u].revisions
                 /\ data'[u].actions = data[u].actions /\ data'[u].block = data[u].block
                 /\ data'[u].reads = data[u].reads
      <3>1. IsData(data[u])
        BY Zenon DEF Inv, TypeInv
      <3> QED BY <1>8, <3>1, Zenon DEF ExecuteSynced, Blinded, IsData
    <2>5. ASSUME NEW u \in Trxs
          PROVE  IsData(data'[u]) /\ Agrees(data'[u], revision', value') /\ data'[u].block <= clock'
      <3>1. IsData(data[u]) /\ Agrees(data[u], revision, value) /\ data[u].block <= clock
        BY Zenon DEF Inv, TypeInv, TimeInv, Current
      <3>2. IsData(data'[u])
        BY <2>4, <3>1, Zenon DEF IsData
      <3>3. Agrees(data'[u], revision', value')
        BY <2>1, <2>2, <2>4, <3>1, Zenon DEF Agrees
      <3> QED BY <2>1, <2>4, <3>1, <3>2, <3>3, Zenon
    <2>6. TypeInv'
      BY <2>1, <2>2, <2>3, <2>5, Zenon DEF Inv, TypeInv, IsData
    <2>7. TimeInv'
      BY <2>1, <2>5, Zenon DEF Inv, TimeInv
    <2> QED BY <2>5, <2>6, <2>7, Zenon DEF Inv, Current, Agrees
  <1>9. CASE ClockTicks
    <2>1. clock' = clock + 1 /\ UNCHANGED <<value, revision, timestamp_used_at, running, data, last_block>>
      BY <1>9, Zenon DEF ClockTicks
    <2>2. TypeInv'
      BY <2>1 DEF Inv, TypeInv, IsData
    <2>3. TimeInv'
      BY <2>1 DEF Inv, TypeInv, TimeInv, IsData
    <2> QED BY <2>1, <2>2, <2>3, Zenon DEF Inv, Current, Agrees
  <1>10. CASE UNCHANGED optimisticVars
    BY <1>10, Zenon DEF optimisticVars, Inv, TypeInv, TimeInv, IsData, Current, Agrees
  <1>11. CASE \E t \in Trxs : TransactionStep(t)
    BY <1>1, <1>2, <1>3, <1>4, <1>5, <1>6, <1>11, Zenon DEF TransactionStep
  <1>12. ASSUME NEW k \in Cells, NEW v \in 0 .. MaxValue, NEW stamped \in BOOLEAN,
                Execute(SetStorage(k, v), stamped)
         PROVE  Inv'
    <2>1. SetStorage(k, v) \in Action
      BY KeysAreDisjoint DEF SetStorage, Action
    <2> QED BY <1>7, <1>12, <2>1, Zenon
  <1>13. ASSUME NEW source \in Purses, NEW target \in Purses, NEW v \in 1 .. MaxValue,
                Execute(Transfer(source, target, v), FALSE)
         PROVE  Inv'
    <2>1. Transfer(source, target, v) \in Action
      BY KeysAreDisjoint DEF Transfer, Action
    <2> QED BY <1>7, <1>13, <2>1, Zenon
  <1> QED BY <1>8, <1>9, <1>10, <1>11, <1>12, <1>13, Zenon DEF OptimisticNext
-----------------------------------------------------------------------------
(* validate_revisions lets a transaction go on only with storage that      *)
(* holds what it has read.                                                 *)
THEOREM StorageReadsAreCurrent == OptimisticSpec => []StorageReadsCurrent
  <1>1. Inv => StorageReadsCurrent
    <2> SUFFICES ASSUME Inv, NEW t \in running, ~NeedRestart(data[t]), NEW k \in Cells,
                        data[t].touched[k] >= 2
                 PROVE  data[t].reads[k] = value[k]
      BY Zenon DEF StorageReadsCurrent
    <2>1. t \in Trxs /\ k \in Keys
      BY KeysAreDisjoint, Zenon DEF Inv, TypeInv
    <2>2. data[t].revisions[k] = revision[k]
      BY <2>1, Zenon DEF NeedRestart, validate_revisions
    <2> QED BY <2>1, <2>2, Zenon DEF Inv, Current, Agrees
  <1> QED BY <1>1, InitInv, StepInv, PTL DEF OptimisticSpec

(* validate_timestamps and update_timestamped_contracts: transactions that *)
(* ask for the time are applied in the order of their blocks.              *)
THEOREM TimeRunsForward == OptimisticSpec => []TimeNeverRunsBack
  <1>1. Inv => TimeNeverRunsBack
    <2> SUFFICES ASSUME Inv, NEW t \in running, ~NeedRestart(data[t]), data[t].stamped
                 PROVE  data[t].block >= last_block
      BY Zenon DEF TimeNeverRunsBack
    <2>1. t \in Trxs /\ IsData(data[t])
      BY Zenon DEF Inv, TypeInv
    <2>2. timestamp_used_at <= data[t].block
      BY Zenon DEF NeedRestart, validate_timestamps
    <2> QED BY <2>1, <2>2 DEF Inv, TypeInv, TimeInv, IsData
  <1> QED BY <1>1, InitInv, StepInv, PTL DEF OptimisticSpec
=============================================================================
