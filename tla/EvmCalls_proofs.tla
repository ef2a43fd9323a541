--------------------------- MODULE EvmCalls_proofs ---------------------------
(***************************************************************************)
(* The snapshots of the log and the frames of the machine agree, and a     *)
(* static call changes nothing: for every set of addresses and values, and *)
(* for calls and logs of any length.                                       *)
(***************************************************************************)
EXTENDS EvmCalls, TLAPS

IsList(s) == \E S : s \in Seq(S)

(* A creation is never static: its result is an action of the log. *)
IsFrame(f) == f.is_static \in BOOLEAN /\ (f.reason = "Create" => ~f.is_static)

IsMachine(m) ==
    /\ IsList(m.frames)
    /\ IsList(m.actions)
    /\ m.stack \in Seq(Nat)
    /\ \A i \in 1 .. Len(m.frames) : IsFrame(m.frames[i])

(* A machine that runs.  Besides what is to be shown: static frames call   *)
(* static frames only.                                                     *)
Live(m) ==
    /\ IsMachine(m)
    /\ m.exit_status = "None"
    /\ Len(m.frames) > 0 /\ Len(m.stack) = Len(m.frames)
    /\ m.stack[1] = 0
    /\ \A i, j \in 1 .. Len(m.stack) : i <= j => m.stack[i] <= m.stack[j]
    /\ m.stack[Len(m.stack)] <= Len(m.actions)
    /\ \A i, j \in 1 .. Len(m.frames) :
           i <= j /\ m.frames[i].is_static => m.frames[j].is_static
    /\ \A i \in 1 .. Len(m.frames) :
           m.frames[i].is_static => Len(m.actions) = m.stack[i]

Ended(m) ==
    /\ IsMachine(m)
    /\ m.exit_status # "None"
    /\ m.stack = <<>>
    /\ m.exit_status \in {"Revert", "Cancel"} => m.actions = <<>>

Consistent(m) == Live(m) \/ Ended(m)
-----------------------------------------------------------------------------
(* Appending to a list makes a list that is one longer. *)
LEMMA AppendList ==
    ASSUME NEW s, IsList(s), NEW e
    PROVE  /\ IsList(Append(s, e))
           /\ Len(Append(s, e)) = Len(s) + 1
           /\ Len(s) \in Nat
           /\ \A i \in 1 .. Len(s) : Append(s, e)[i] = s[i]
           /\ Append(s, e)[Len(s) + 1] = e
<1>1. PICK S : s \in Seq(S)
  BY Zenon DEF IsList
<1>2. s \in Seq(S \cup {e}) /\ e \in S \cup {e}
  BY <1>1
<1>3. Append(s, e) \in Seq(S \cup {e})
  BY <1>2
<1>4. IsList(Append(s, e))
  BY <1>3, Zenon DEF IsList
<1> QED
  BY <1>2, <1>4

(* A prefix of a list is a list with the length asked for. *)
LEMMA PrefixList ==
    ASSUME NEW s, IsList(s), NEW n \in Nat, n <= Len(s)
    PROVE  /\ IsList(SubSeq(s, 1, n))
           /\ Len(SubSeq(s, 1, n)) = n
           /\ \A i \in 1 .. n : SubSeq(s, 1, n)[i] = s[i]
<1>1. PICK S : s \in Seq(S)
  BY Zenon DEF IsList
<1>2. SubSeq(s, 1, n) \in Seq(S)
  BY <1>1
<1>3. IsList(SubSeq(s, 1, n))
  BY <1>2, Zenon DEF IsList
<1> QED
  BY <1>1, <1>3

(* The empty log is a list. *)
LEMMA EmptyList == IsList(<<>>) /\ Len(<<>>) = 0
<1>1. <<>> \in Seq({})
  OBVIOUS
<1> QED
  BY <1>1, Zenon DEF IsList

(* A list has a natural number for its length. *)
LEMMA ListLength == ASSUME NEW s, IsList(s) PROVE Len(s) \in Nat
  BY DEF IsList

(* A list of length zero is empty. *)
LEMMA ListEmpty == ASSUME NEW s, IsList(s), Len(s) = 0 PROVE s = <<>>
<1>1. PICK S : s \in Seq(S)
  BY Zenon DEF IsList
<1> QED
  BY <1>1
-----------------------------------------------------------------------------
(* push adds one action where no frame is static. *)
LEMMA PushLive ==
    ASSUME NEW m, Live(m), ~Last(m.frames).is_static, NEW e
    PROVE  Live(push(m, e)) /\ push(m, e).frames = m.frames
<1> DEFINE n == push(m, e)
<1>1. /\ n.frames = m.frames /\ n.stack = m.stack /\ n.exit_status = m.exit_status
      /\ n.actions = Append(m.actions, e)
  BY Zenon DEF push, Machine
<1> HIDE DEF n
<1>2. IsList(n.actions) /\ Len(n.actions) = Len(m.actions) + 1 /\ Len(m.actions) \in Nat
  BY <1>1, AppendList DEF Live, IsMachine
<1>3. Len(m.frames) \in Nat
  BY ListLength, Zenon DEF Live, IsMachine
<1>4. \A i \in 1 .. Len(m.frames) : ~m.frames[i].is_static
  BY <1>3 DEF Live, IsMachine, Last
<1>5. IsMachine(n)
  BY <1>1, <1>2, Zenon DEF Live, IsMachine
<1>6. m.stack[Len(m.stack)] \in Nat
  BY <1>3 DEF Live, IsMachine
<1>7. Live(n)
  BY <1>1, <1>2, <1>3, <1>4, <1>5, <1>6 DEF Live
<1> QED
  BY <1>1, <1>7, Zenon DEF n

(* A new frame with a snapshot; a static caller needs a static callee. *)
LEMMA EnterLive ==
    ASSUME NEW m, Live(m), NEW f, IsFrame(f),
           Last(m.frames).is_static => f.is_static
    PROVE  LET n == snapshot(fork(m, f))
           IN Live(n) /\ n.actions = m.actions /\ Last(n.frames) = f
<1> DEFINE n == snapshot(fork(m, f))
<1>3. /\ n.frames = Append(m.frames, f) /\ n.actions = m.actions
      /\ n.stack = Append(m.stack, Len(m.actions)) /\ n.exit_status = m.exit_status
  BY Zenon DEF fork, snapshot, Machine
<1> HIDE DEF n
<1>4. /\ Len(m.actions) \in Nat /\ Len(m.frames) \in Nat
      /\ m.stack \in Seq(Nat) /\ Len(m.stack) = Len(m.frames) /\ Len(m.frames) > 0
  BY ListLength, Zenon DEF Live, IsMachine
<1>5. /\ IsList(n.frames) /\ Len(n.frames) = Len(m.frames) + 1
      /\ \A i \in 1 .. Len(m.frames) : n.frames[i] = m.frames[i]
      /\ n.frames[Len(m.frames) + 1] = f
  BY <1>3, AppendList DEF Live, IsMachine
<1>6. /\ n.stack \in Seq(Nat) /\ Len(n.stack) = Len(m.frames) + 1
      /\ \A i \in 1 .. Len(m.frames) : n.stack[i] = m.stack[i]
      /\ n.stack[Len(m.frames) + 1] = Len(m.actions)
  BY <1>3, <1>4
<1>8. IsMachine(n)
  <2>1. \A i \in 1 .. Len(n.frames) : IsFrame(n.frames[i])
    BY <1>4, <1>5 DEF Live, IsMachine
  <2> QED
    BY <1>3, <1>5, <1>6, <2>1, Zenon DEF Live, IsMachine
<1>7. /\ \A i, j \in 1 .. Len(m.frames) : i <= j => m.stack[i] <= m.stack[j]
      /\ m.stack[Len(m.frames)] <= Len(m.actions)
      /\ \A i, j \in 1 .. Len(m.frames) :
             i <= j /\ m.frames[i].is_static => m.frames[j].is_static
      /\ \A i \in 1 .. Len(m.frames) :
             m.frames[i].is_static => Len(m.actions) = m.stack[i]
  BY Zenon DEF Live
<1>9. \A i \in 1 .. Len(m.frames) : m.stack[i] \in Nat /\ m.stack[i] <= Len(m.actions)
  <2> TAKE i \in 1 .. Len(m.frames)
  <2>1. i <= Len(m.frames) /\ Len(m.frames) \in 1 .. Len(m.frames)
    BY <1>4
  <2>2. m.stack[i] <= m.stack[Len(m.frames)]
    BY <1>7, <2>1, Zenon
  <2>3. m.stack[i] \in Nat /\ m.stack[Len(m.frames)] \in Nat
    BY <1>4
  <2> QED
    BY <1>4, <1>7, <2>2, <2>3
<1>10. \A i, j \in 1 .. Len(n.stack) : i <= j => n.stack[i] <= n.stack[j]
  <2> SUFFICES ASSUME NEW i \in 1 .. Len(m.frames) + 1, NEW j \in 1 .. Len(m.frames) + 1, i <= j
               PROVE  n.stack[i] <= n.stack[j]
    BY <1>6, Zenon
  <2>1. CASE j <= Len(m.frames)
    <3>1. i \in 1 .. Len(m.frames) /\ j \in 1 .. Len(m.frames)
      BY <1>4, <2>1
    <3> QED
      BY <1>6, <1>7, <3>1, Zenon
  <2>2. CASE i <= Len(m.frames) /\ j = Len(m.frames) + 1
    <3>1. i \in 1 .. Len(m.frames)
      BY <1>4, <2>2
    <3> QED
      BY <1>6, <1>9, <2>2, <3>1, Zenon
  <2>3. CASE i = Len(m.frames) + 1
    BY <1>4, <1>6, <2>3
  <2> QED
    BY <1>4, <2>1, <2>2, <2>3
<1>11. \A i, j \in 1 .. Len(n.frames) :
          i <= j /\ n.frames[i].is_static => n.frames[j].is_static
  <2> SUFFICES ASSUME NEW i \in 1 .. Len(m.frames) + 1, NEW j \in 1 .. Len(m.frames) + 1,
                      i <= j, n.frames[i].is_static
               PROVE  n.frames[j].is_static
    BY <1>5, Zenon
  <2>1. CASE j <= Len(m.frames)
    <3>1. i \in 1 .. Len(m.frames) /\ j \in 1 .. Len(m.frames)
      BY <1>4, <2>1
    <3> QED
      BY <1>5, <1>7, <3>1, Zenon
  <2>2. CASE i <= Len(m.frames) /\ j = Len(m.frames) + 1
    <3>1. m.frames[i].is_static
      BY <1>4, <1>5, <2>2
    <3>2. m.frames[Len(m.frames)].is_static
      BY <1>4, <1>7, <2>2, <3>1
    <3> QED
      BY <1>5, <2>2, <3>2, Zenon DEF Last
  <2>3. CASE i = Len(m.frames) + 1
    BY <1>4, <2>3
  <2> QED
    BY <1>4, <2>1, <2>2, <2>3
<1>12. \A i \in 1 .. Len(n.frames) : n.frames[i].is_static => Len(n.actions) = n.stack[i]
  <2> SUFFICES ASSUME NEW i \in 1 .. Len(m.frames) + 1, n.frames[i].is_static
               PROVE  Len(m.actions) = n.stack[i]
    BY <1>3, <1>5, Zenon
  <2>1. CASE i \in 1 .. Len(m.frames)
    BY <1>5, <1>6, <1>7, <2>1, Zenon
  <2>2. CASE i = Len(m.frames) + 1
    BY <1>6, <2>2, Zenon
  <2> QED
    BY <1>4, <2>1, <2>2
<1>13. Live(n)
  <2>1. n.exit_status = "None" /\ m.stack[1] = 0
    BY <1>3, Zenon DEF Live
  <2>2. 1 \in 1 .. Len(m.frames) /\ Len(m.frames) + 1 > 0
    BY <1>4
  <2>3. n.stack[1] = 0
    BY <1>6, <2>1, <2>2, Zenon
  <2>4. n.stack[Len(n.stack)] <= Len(n.actions)
    BY <1>3, <1>4, <1>6
  <2>5. Len(n.frames) > 0 /\ Len(n.stack) = Len(n.frames)
    BY <1>5, <1>6, <2>2, Zenon
  <2> QED
    BY <1>8, <1>10, <1>11, <1>12, <2>1, <2>3, <2>4, <2>5, Zenon DEF Live
<1>14. Last(n.frames) = f
  BY <1>5, Zenon DEF Last
<1> QED
  BY <1>3, <1>13, <1>14, Zenon DEF n

(* Without the last frame and its snapshot, whether the log is kept or cut *)
(* off at the snapshot.                                                    *)
LEMMA PopLive ==
    ASSUME NEW m, Live(m), Len(m.frames) > 1,
           NEW acts, IsList(acts), Len(acts) = Len(m.actions) \/ Len(acts) = Last(m.stack)
    PROVE  Live(Machine(Front(m.frames), acts, Front(m.stack), "None"))
<1> DEFINE n == Machine(Front(m.frames), acts, Front(m.stack), "None")
           d == Len(m.frames) - 1
<1>1. /\ n.frames = Front(m.frames) /\ n.actions = acts /\ n.stack = Front(m.stack)
      /\ n.exit_status = "None"
  BY Zenon DEF Machine
<1> HIDE DEF n
<1>2. /\ Len(m.actions) \in Nat /\ Len(m.frames) \in Nat /\ d \in Nat /\ d > 0
      /\ d <= Len(m.frames) /\ m.stack \in Seq(Nat) /\ Len(m.stack) = d + 1
      /\ Len(m.frames) = d + 1
  BY ListLength DEF Live, IsMachine
<1>3. /\ IsList(n.frames) /\ Len(n.frames) = d
      /\ \A i \in 1 .. d : n.frames[i] = m.frames[i]
  BY <1>1, <1>2, PrefixList DEF Live, IsMachine, Front
<1> HIDE DEF d
<1>4. /\ n.stack \in Seq(Nat) /\ Len(n.stack) = d
      /\ \A i \in 1 .. d : n.stack[i] = m.stack[i]
  <2>1. n.stack = SubSeq(m.stack, 1, d)
    BY <1>1, <1>2 DEF Front
  <2> QED
    BY <1>2, <2>1
<1>5. /\ \A i, j \in 1 .. d + 1 : i <= j => m.stack[i] <= m.stack[j]
      /\ m.stack[d + 1] <= Len(m.actions) /\ m.stack[1] = 0
      /\ \A i, j \in 1 .. d + 1 :
             i <= j /\ m.frames[i].is_static => m.frames[j].is_static
      /\ \A i \in 1 .. d + 1 :
             /\ m.frames[i].is_static => Len(m.actions) = m.stack[i]
             /\ IsFrame(m.frames[i])
  BY <1>2, Zenon DEF Live, IsMachine
<1>6. \A i \in 1 .. d + 1 : m.stack[i] \in Nat
  BY <1>2
<1>7. \A i \in 1 .. d : i \in 1 .. d + 1 /\ i <= d + 1 /\ d + 1 \in 1 .. d + 1
  BY <1>2
<1>8. IsMachine(n)
  BY <1>1, <1>3, <1>4, <1>5, <1>7, Zenon DEF IsMachine
<1>9. Last(m.stack) = m.stack[d + 1]
  BY <1>2, Zenon DEF Last
<1>10. \A i \in 1 .. d : m.stack[i] <= Len(acts)
  <2> TAKE i \in 1 .. d
  <2>1. m.stack[i] <= m.stack[d + 1]
    BY <1>5, <1>7, Zenon
  <2>2. m.stack[i] \in Nat /\ m.stack[d + 1] \in Nat
    BY <1>6, <1>7, Zenon
  <2> QED
    BY <1>2, <1>5, <1>9, <2>1, <2>2
<1>11. \A i \in 1 .. d : m.frames[i].is_static => Len(acts) = m.stack[i]
  <2> SUFFICES ASSUME NEW i \in 1 .. d, m.frames[i].is_static
               PROVE  Len(acts) = m.stack[i]
    BY Zenon
  <2>1. Len(m.actions) = m.stack[i]
    BY <1>5, <1>7, Zenon
  <2>2. m.stack[i] <= m.stack[d + 1]
    BY <1>5, <1>7, Zenon
  <2>3. m.stack[i] \in Nat /\ m.stack[d + 1] \in Nat
    BY <1>6, <1>7, Zenon
  <2> QED
    BY <1>5, <1>9, <2>1, <2>2, <2>3
<1>12. \A i, j \in 1 .. d : i <= j => n.stack[i] <= n.stack[j]
  BY <1>4, <1>5, <1>7, Zenon
<1>13. \A i, j \in 1 .. d : i <= j /\ n.frames[i].is_static => n.frames[j].is_static
  BY <1>3, <1>5, <1>7, Zenon
<1>14. n.stack[1] = 0 /\ n.stack[d] <= Len(n.actions)
  <2>1. 1 \in 1 .. d /\ d \in 1 .. d
    BY <1>2
  <2> QED
    BY <1>1, <1>4, <1>5, <1>10, <2>1, Zenon
<1>15. \A i \in 1 .. d : n.frames[i].is_static => Len(n.actions) = n.stack[i]
  BY <1>1, <1>3, <1>4, <1>11, Zenon
<1>16. Live(n)
  BY <1>1, <1>2, <1>3, <1>4, <1>8, <1>12, <1>13, <1>14, <1>15, Zenon DEF Live
<1> QED
  BY <1>16, Zenon DEF n

(* The last frame ends the machine: its snapshot was the only one. *)
LEMMA PopLastFrame ==
    ASSUME NEW m, Live(m), Len(m.frames) = 1
    PROVE  Front(m.stack) = <<>> /\ Last(m.stack) = 0
<1>1. m.stack \in Seq(Nat) /\ Len(m.stack) = 1 /\ m.stack[1] = 0
  BY Zenon DEF Live, IsMachine
<1> QED
  BY <1>1 DEF Front, Last

(* The end of a machine is consistent. *)
LEMMA EndEnded ==
    ASSUME NEW m, IsMachine(m), NEW acts, IsList(acts), NEW status, status # "None",
           status \in {"Revert", "Cancel"} => acts = <<>>
    PROVE  Ended(Machine(m.frames, acts, <<>>, status))
<1> DEFINE n == Machine(m.frames, acts, <<>>, status)
<1>1. /\ n.frames = m.frames /\ n.actions = acts /\ n.stack = <<>> /\ n.exit_status = status
  BY Zenon DEF Machine
<1> HIDE DEF n
<1>2. n.stack \in Seq(Nat)
  BY <1>1
<1>3. IsMachine(n)
  BY <1>1, <1>2, Zenon DEF IsMachine
<1>4. Ended(n)
  BY <1>1, <1>3, Zenon DEF Ended
<1> QED
  BY <1>4, Zenon DEF n

(* A machine that runs has one frame or more than one. *)
LEMMA FramesCount ==
    ASSUME NEW m, Live(m)
    PROVE  /\ Len(m.frames) = 1 \/ Len(m.frames) > 1
           /\ Len(m.frames) > 1 => Len(m.frames) # 1
<1> DEFINE l == Len(m.frames)
<1>1. l \in Nat /\ l > 0
  BY ListLength, Zenon DEF Live, IsMachine
<1> HIDE DEF l
<1>2. (l = 1 \/ l > 1) /\ (l > 1 => l # 1)
  BY <1>1
<1> QED
  BY <1>2, Zenon DEF l

(* opcode_revert_impl: whichever frame fails, the machine goes on in its   *)
(* caller or ends with an empty log.                                       *)
LEMMA RevertConsistent ==
    ASSUME NEW m, Live(m)
    PROVE  Consistent(opcode_revert_impl(m))
<1> DEFINE acts == SubSeq(m.actions, 1, Last(m.stack))
<1>1. /\ Len(m.actions) \in Nat /\ Len(m.frames) \in Nat /\ Len(m.frames) > 0
      /\ m.stack \in Seq(Nat) /\ Len(m.stack) = Len(m.frames)
      /\ m.stack[Len(m.stack)] <= Len(m.actions) /\ m.exit_status = "None"
      /\ IsList(m.actions)
  BY ListLength, Zenon DEF Live, IsMachine
<1>2. Last(m.stack) \in Nat /\ Last(m.stack) <= Len(m.actions)
  BY <1>1 DEF Last
<1>3. IsList(acts) /\ Len(acts) = Last(m.stack)
  BY <1>1, <1>2, PrefixList, Zenon
<1>4. CASE Len(m.frames) = 1
  <2>1. opcode_revert_impl(m) = Machine(m.frames, acts, <<>>, "Revert")
    BY <1>4, PopLastFrame, Zenon DEF opcode_revert_impl, leave, revert_snapshot, Machine
  <2>2. acts = <<>>
    BY <1>3, <1>4, PopLastFrame, ListEmpty, Zenon
  <2> HIDE DEF acts
  <2> QED
    BY <1>3, <2>1, <2>2, EndEnded, Zenon DEF Consistent, Live
<1>5. CASE Len(m.frames) > 1
  <2>1. opcode_revert_impl(m) = Machine(Front(m.frames), acts, Front(m.stack), "None")
    BY <1>1, <1>5 DEF opcode_revert_impl, leave, revert_snapshot, Machine
  <2> HIDE DEF acts
  <2> QED
    BY <1>3, <1>5, <2>1, PopLive, Zenon DEF Consistent
<1>6. Len(m.frames) = 1 \/ Len(m.frames) > 1
  BY FramesCount, Zenon
<1> QED
  BY <1>4, <1>5, <1>6, Zenon

(* Deliver: an error in the parent reverts the parent, which still runs. *)
LEMMA DeliverConsistent ==
    ASSUME NEW m, NEW left, Consistent(left), NEW fits
    PROVE  Consistent(Deliver(m, left, fits))
<1>1. CASE Deliver(m, left, fits) = left
  BY <1>1, Zenon
<1>2. CASE left.exit_status = "None" /\ Deliver(m, left, fits) = opcode_revert_impl(left)
  BY <1>2, RevertConsistent, Zenon DEF Consistent, Ended
<1> QED
  BY <1>1, <1>2, Zenon DEF Deliver

(* commit_snapshot and the way back to the caller. *)
LEMMA CommitConsistent ==
    ASSUME NEW m, Live(m), NEW status \in {"Stop", "Return", "Suicide"}
    PROVE  Consistent(leave(commit_snapshot(m), status))
<1>1. /\ Len(m.frames) \in Nat /\ Len(m.frames) > 0 /\ m.exit_status = "None"
      /\ IsList(m.actions)
  BY ListLength, Zenon DEF Live, IsMachine
<1>2. CASE Len(m.frames) = 1
  <2>1. leave(commit_snapshot(m), status) = Machine(m.frames, m.actions, <<>>, status)
    BY <1>2, PopLastFrame, Zenon DEF leave, commit_snapshot, Machine
  <2> QED
    BY <1>1, <2>1, EndEnded, Zenon DEF Consistent, Live
<1>3. CASE Len(m.frames) > 1
  <2>1. leave(commit_snapshot(m), status)
            = Machine(Front(m.frames), m.actions, Front(m.stack), "None")
    <3>1. Len(m.frames) # 1 /\ m.exit_status = "None"
      BY <1>1, <1>3, FramesCount, Zenon
    <3> QED
      BY <3>1, Zenon DEF leave, commit_snapshot, Machine
  <2>2. IsList(m.actions)
    BY <1>1, Zenon
  <2>3. Live(Machine(Front(m.frames), m.actions, Front(m.stack), "None"))
    <3>1. Len(m.actions) = Len(m.actions) \/ Len(m.actions) = Last(m.stack)
      BY Zenon
    <3> QED
      BY <1>3, <2>2, <3>1, PopLive, Zenon
  <2> QED
    BY <2>1, <2>3, Zenon DEF Consistent
<1>4. Len(m.frames) = 1 \/ Len(m.frames) > 1
  BY FramesCount, Zenon
<1> QED
  BY <1>2, <1>3, <1>4, Zenon

(* A frame that ends well. *)
LEMMA SucceedConsistent ==
    ASSUME NEW m, Live(m), NEW status \in {"Stop", "Return", "Suicide"}, NEW fits
    PROVE  Consistent(Succeed(m, status, fits))
  BY CommitConsistent, DeliverConsistent, Zenon DEF Succeed

(* A transfer in a static frame is one of nothing. *)
LEMMA TransferLive ==
    ASSUME NEW m, Live(m), NEW source, NEW target, NEW value,
           Last(m.frames).is_static => value = 0
    PROVE  /\ Live(transfer(m, source, target, value))
           /\ transfer(m, source, target, value).frames = m.frames
<1>1. CASE transfer(m, source, target, value) = m
  BY <1>1, Zenon
<1>2. CASE ~(value = 0 \/ source = target)
  <2>1. ~Last(m.frames).is_static
    BY <1>2, Zenon
  <2>2. transfer(m, source, target, value) = push(m, Act("Transfer", source, target, value))
    BY <1>2, Zenon DEF transfer
  <2> QED
    BY <2>1, <2>2, PushLive, Zenon
<1> QED
  BY <1>1, <1>2, Zenon DEF transfer

(* Precompiled contracts and extensions. *)
LEMMA PrecompileConsistent ==
    ASSUME NEW m, Live(m), NEW address, NEW value, NEW valid, NEW fits
    PROVE  Consistent(opcode_call_precompile_impl(m, address, value, valid, fits))
<1>1. Consistent(Succeed(m, "Return", fits))
  BY SucceedConsistent, Zenon
<1>2. Consistent(neon_token(m, value, valid, fits))
  <2>1. CASE neon_token(m, value, valid, fits) = opcode_revert_impl(m)
    BY <2>1, RevertConsistent, Zenon
  <2>2. CASE ~Last(m.frames).is_static
    <3> DEFINE burnt == push(m, Act("Burn", Token, Token, value))
               paid == push(burnt, Act("ExternalInstruction", Token, Token, value))
    <3>1. Live(burnt) /\ burnt.frames = m.frames
      BY <2>2, PushLive, Zenon
    <3> HIDE DEF burnt
    <3>2. Live(paid)
      BY <2>2, <3>1, PushLive, Zenon
    <3> HIDE DEF paid
    <3>3. Consistent(Succeed(paid, "Return", fits))
      BY <3>2, SucceedConsistent, Zenon
    <3>4. \/ neon_token(m, value, valid, fits) = opcode_revert_impl(m)
          \/ neon_token(m, value, valid, fits) = Succeed(paid, "Return", fits)
      BY Zenon DEF neon_token, paid, burnt
    <3> QED
      BY <2>1, <3>3, <3>4, Zenon
  <2>3. CASE Last(m.frames).is_static
    <3>1. neon_token(m, value, valid, fits) = opcode_revert_impl(m)
      BY <2>3, Zenon DEF neon_token
    <3> QED
      BY <2>1, <3>1, Zenon
  <2> QED
    BY <2>2, <2>3, Zenon
<1>3. Consistent(m)
  BY Zenon DEF Consistent
<1>4. CASE address = Precompile
  <2>1. opcode_call_precompile_impl(m, address, value, valid, fits) = Succeed(m, "Return", fits)
    BY <1>4, AddressAssumption, Zenon DEF opcode_call_precompile_impl
  <2> QED
    BY <1>1, <2>1, Zenon
<1>5. CASE address = Token
  <2>1. opcode_call_precompile_impl(m, address, value, valid, fits)
            = neon_token(m, value, valid, fits)
    BY <1>5, AddressAssumption, Zenon DEF opcode_call_precompile_impl
  <2> QED
    BY <1>2, <2>1, Zenon
<1>6. CASE address # Precompile /\ address # Token
  <2>1. opcode_call_precompile_impl(m, address, value, valid, fits) = m
    BY <1>6, Zenon DEF opcode_call_precompile_impl
  <2> QED
    BY <1>3, <2>1, Zenon
<1> QED
  BY <1>4, <1>5, <1>6, Zenon
-----------------------------------------------------------------------------
(* Machine::new, before a frame has been entered and after. *)
LEMMA InitConsistent == ASSUME Init PROVE Consistent(machine)
<1>1. ASSUME NEW f, f.is_static = FALSE
      PROVE  LET n == snapshot(fork(NoMachine, f)) IN Live(n) /\ Last(n.frames) = f
  <2> DEFINE n == snapshot(fork(NoMachine, f))
  <2>1. /\ n.frames = Append(<<>>, f) /\ n.actions = <<>> /\ n.stack = Append(<<>>, Len(<<>>))
        /\ n.exit_status = "None"
    BY Zenon DEF NoMachine, fork, snapshot, Machine
  <2> HIDE DEF n
  <2>2. /\ IsList(n.frames) /\ Len(n.frames) = 1 /\ n.frames[1] = f
    <3> DEFINE e == <<>>
    <3>1. IsList(e) /\ Len(e) = 0
      BY EmptyList, Zenon
    <3> HIDE DEF e
    <3>2. IsList(Append(e, f)) /\ Len(Append(e, f)) = 1 /\ Append(e, f)[1] = f
      <4>1. /\ IsList(Append(e, f)) /\ Len(Append(e, f)) = Len(e) + 1
            /\ Append(e, f)[Len(e) + 1] = f
        BY <3>1, AppendList, Zenon
      <4>2. Len(e) + 1 = 1
        BY <3>1
      <4> QED
        BY <4>1, <4>2, Zenon
    <3> QED
      BY <2>1, <3>2, Zenon DEF e
  <2>3. n.stack \in Seq(Nat) /\ Len(n.stack) = 1 /\ n.stack[1] = 0
    BY <2>1
  <2>4. IsList(n.actions) /\ Len(n.actions) = 0
    BY <2>1, EmptyList, Zenon
  <2>5. IsFrame(f)
    BY <1>1, Zenon DEF IsFrame
  <2>6. \A i \in 1 .. Len(n.frames) : n.frames[i] = f
    BY <2>2
  <2>10. IsMachine(n)
    BY <2>2, <2>3, <2>4, <2>5, <2>6, Zenon DEF IsMachine
  <2>7. \A i, j \in 1 .. Len(n.stack) : i <= j => n.stack[i] <= n.stack[j]
    BY <2>3
  <2>8. Live(n)
    <3>1. n.stack[Len(n.stack)] <= Len(n.actions) /\ Len(n.frames) > 0
      BY <2>2, <2>3, <2>4
    <3>2. \A i \in 1 .. Len(n.frames) : ~n.frames[i].is_static
      BY <1>1, <2>6, Zenon
    <3> QED
      BY <2>1, <2>2, <2>3, <2>7, <2>10, <3>1, <3>2, Zenon DEF Live
  <2>9. Last(n.frames) = f
    BY <2>2, Zenon DEF Last
  <2> QED
    BY <2>8, <2>9, Zenon DEF n
<1>2. ASSUME NEW target, NEW value, machine = new_call(target, value)
      PROVE  Live(machine)
  <2> DEFINE f == NewFrame(target, "Call", FALSE, has_code(<<>>, target))
             n == snapshot(fork(NoMachine, f))
  <2>1. f.is_static = FALSE
    BY Zenon DEF NewFrame
  <2> HIDE DEF f
  <2>2. Live(n) /\ Last(n.frames) = f
    BY <1>1, <2>1, Zenon
  <2>3. machine = transfer(n, Origin, target, value)
    BY <1>2, Zenon DEF new_call, f
  <2> HIDE DEF n
  <2>4. ~Last(n.frames).is_static
    BY <2>1, <2>2, Zenon
  <2> QED
    BY <2>2, <2>3, <2>4, TransferLive, Zenon
<1>3. ASSUME NEW target, NEW value, machine = new_create(target, value)
      PROVE  Live(machine)
  <2> DEFINE f == NewFrame(target, "Create", FALSE, TRUE)
             n == snapshot(fork(NoMachine, f))
             k == push(n, Act("EvmIncrementNonce", target, target, 0))
  <2>1. f.is_static = FALSE
    BY Zenon DEF NewFrame
  <2> HIDE DEF f
  <2>2. Live(n) /\ Last(n.frames) = f
    BY <1>1, <2>1, Zenon
  <2>3. machine = transfer(k, Origin, target, value)
    BY <1>3, Zenon DEF new_create, Created, f
  <2> HIDE DEF n
  <2>4. ~Last(n.frames).is_static
    BY <2>1, <2>2, Zenon
  <2>5. Live(k) /\ k.frames = n.frames
    BY <2>2, <2>4, PushLive, Zenon
  <2> HIDE DEF k
  <2> QED
    BY <2>3, <2>4, <2>5, TransferLive, Zenon
<1> QED
  BY <1>2, <1>3, Zenon DEF Init, Consistent

(* The frame that runs is static or is not. *)
LEMMA RunningLive ==
    ASSUME Consistent(machine), Running
    PROVE  Live(machine) /\ IsFrame(Frame) /\ Frame.is_static \in BOOLEAN
<1>1. Live(machine)
  BY Zenon DEF Consistent, Ended, Running
<1>2. Len(machine.frames) \in Nat
  BY <1>1, ListLength, Zenon DEF Live, IsMachine
<1>3. Len(machine.frames) \in 1 .. Len(machine.frames)
  BY <1>1, <1>2 DEF Live
<1> QED
  BY <1>1, <1>3, Zenon DEF Live, IsMachine, Frame, Last, IsFrame

(* What the calls enter is a machine that runs. *)
LEMMA CallLive ==
    ASSUME Consistent(machine), Running, NEW contract, NEW address,
           NEW is_static \in BOOLEAN, Frame.is_static => is_static
    PROVE  /\ Live(Enter(contract, is_static, address))
           /\ Last(Enter(contract, is_static, address).frames).is_static = is_static
<1> DEFINE f == NewFrame(contract, "Call", is_static, has_code(machine.actions, address))
<1>1. f.is_static = is_static /\ IsFrame(f)
  BY Zenon DEF NewFrame, IsFrame
<1>2. Enter(contract, is_static, address) = snapshot(fork(machine, f))
  BY Zenon DEF Enter
<1> HIDE DEF f
<1>3. Live(snapshot(fork(machine, f))) /\ Last(snapshot(fork(machine, f)).frames) = f
  BY <1>1, RunningLive, EnterLive, Zenon DEF Frame
<1> QED
  BY <1>1, <1>2, <1>3, Zenon

(* Every opcode, with all its error paths, and every end of a transaction. *)
LEMMA NextConsistent ==
    ASSUME Consistent(machine), Next
    PROVE  Consistent(machine')
<1>1. ASSUME Running PROVE Consistent(opcode_revert_impl(machine))
  BY <1>1, RunningLive, RevertConsistent, Zenon
<1>2. ASSUME Running, ~Frame.is_static, NEW e
      PROVE  Live(push(machine, e)) /\ Consistent(push(machine, e))
             /\ push(machine, e).frames = machine.frames
  BY <1>2, RunningLive, PushLive, Zenon DEF Frame, Consistent
<1>3. ASSUME NEW v, opcode_sstore(v) PROVE Consistent(machine')
  BY <1>1, <1>2, <1>3, Zenon DEF opcode_sstore, Executing, Step
<1>4. ASSUME NEW v, opcode_tstore(v) PROVE Consistent(machine')
  BY <1>1, <1>2, <1>4, Zenon DEF opcode_tstore, Executing, Step
<1>5. CASE OpcodeError
  BY <1>1, <1>5, Zenon DEF OpcodeError, Step
<1>6. ASSUME NEW address, NEW value, NEW valid, NEW fits,
             opcode_call(address, value, valid, fits)
      PROVE  Consistent(machine')
  <2> DEFINE entered == Enter(address, Frame.is_static, address)
             paid == transfer(entered, Self, address, value)
             result == opcode_call_precompile_impl(paid, address, value, valid, fits)
  <2>1. Running
    BY <1>6, Zenon DEF opcode_call, MayCall, Executing
  <2>2. Live(entered) /\ Last(entered.frames).is_static = Frame.is_static
    BY <2>1, RunningLive, CallLive, Zenon
  <2>3. \/ machine' = opcode_revert_impl(entered)
        \/ ~(Frame.is_static /\ value # 0) /\ machine' = result
    BY <1>6, Zenon DEF opcode_call, Step
  <2> HIDE DEF entered
  <2>4. CASE machine' = opcode_revert_impl(entered)
    BY <2>2, <2>4, RevertConsistent, Zenon
  <2>5. CASE ~(Frame.is_static /\ value # 0) /\ machine' = result
    <3>1. Live(paid)
      BY <2>2, <2>5, TransferLive, Zenon
    <3> HIDE DEF paid
    <3> QED
      BY <2>5, <3>1, PrecompileConsistent, Zenon
  <2> QED
    BY <2>3, <2>4, <2>5, Zenon
<1>7. ASSUME NEW contract, NEW is_static \in BOOLEAN, Running, Frame.is_static => is_static,
             NEW address, NEW value, NEW fits
      PROVE  LET entered == Enter(contract, is_static, address)
             IN /\ Consistent(opcode_revert_impl(entered))
                /\ Consistent(opcode_call_precompile_impl(entered, address, value, TRUE, fits))
  BY <1>7, CallLive, RevertConsistent, PrecompileConsistent, Zenon
<1>8. ASSUME NEW address, NEW value, NEW fits, opcode_callcode(address, value, fits)
      PROVE  Consistent(machine')
  <2>1. Running /\ Frame.is_static \in BOOLEAN
    BY <1>8, RunningLive, Zenon DEF opcode_callcode, MayCall, Executing
  <2> DEFINE entered == Enter(Self, Frame.is_static, address)
  <2>2. /\ Consistent(opcode_revert_impl(entered))
        /\ Consistent(opcode_call_precompile_impl(entered, address, value, TRUE, fits))
    BY <1>7, <2>1, Zenon
  <2>3. \/ machine' = opcode_revert_impl(entered)
        \/ machine' = opcode_call_precompile_impl(entered, address, value, TRUE, fits)
    BY <1>8, Zenon DEF opcode_callcode, Step
  <2> HIDE DEF entered
  <2> QED
    BY <2>2, <2>3, Zenon
<1>9. ASSUME NEW address, NEW fits, opcode_delegatecall(address, fits)
      PROVE  Consistent(machine')
  <2>1. Running /\ Frame.is_static \in BOOLEAN
    BY <1>9, RunningLive, Zenon DEF opcode_delegatecall, MayCall, Executing
  <2>2. Consistent(opcode_call_precompile_impl(Enter(Self, Frame.is_static, address),
                                               address, 0, TRUE, fits))
    BY <1>7, <2>1, Zenon
  <2> QED
    BY <1>9, <2>2, Zenon DEF opcode_delegatecall, Step
<1>10. ASSUME NEW address, NEW fits, opcode_staticcall(address, fits)
       PROVE  Consistent(machine')
  <2>1. Running
    BY <1>10, Zenon DEF opcode_staticcall, MayCall, Executing
  <2>2. Consistent(opcode_call_precompile_impl(Enter(address, TRUE, address),
                                               address, 0, TRUE, fits))
    BY <1>7, <2>1, Zenon
  <2> QED
    BY <1>10, <2>2, Zenon DEF opcode_staticcall, Step
<1>11. ASSUME NEW address, NEW value, opcode_create(address, value)
       PROVE  Consistent(machine')
  <2> DEFINE counted == push(machine, Act("EvmIncrementNonce", Self, Self, 0))
             f == NewFrame(address, "Create", Frame.is_static, TRUE)
             entered == snapshot(fork(counted, f))
             started == push(entered, Act("EvmIncrementNonce", address, address, 0))
  <2>1. Running
    BY <1>11, Zenon DEF opcode_create, MayCall, Executing
  <2>2. CASE Frame.is_static
    BY <1>1, <1>11, <2>1, <2>2, Zenon DEF opcode_create, Step
  <2>3. CASE ~Frame.is_static
    <3>1. Live(counted) /\ counted.frames = machine.frames
      BY <1>2, <2>1, <2>3, Zenon
    <3>2. f.is_static = Frame.is_static /\ IsFrame(f)
      BY <2>1, <2>3, RunningLive, Zenon DEF NewFrame, IsFrame
    <3>3. \/ machine' = opcode_revert_impl(entered)
          \/ machine' = transfer(started, Self, address, value)
      BY <1>11, <2>3, Zenon DEF opcode_create, Step, Created
    <3> HIDE DEF counted, f
    <3>4. Live(entered) /\ Last(entered.frames) = f
      BY <3>1, <3>2, EnterLive, Zenon DEF Frame
    <3> HIDE DEF entered
    <3>5. Live(started) /\ started.frames = entered.frames
      BY <2>3, <3>2, <3>4, PushLive, Zenon
    <3> HIDE DEF started
    <3>6. Live(transfer(started, Self, address, value))
      BY <2>3, <3>2, <3>4, <3>5, TransferLive, Zenon
    <3> QED
      BY <3>3, <3>4, <3>6, RevertConsistent, Zenon DEF Consistent
  <2> QED
    BY <2>2, <2>3, Zenon
<1>12. ASSUME NEW size, NEW fits, opcode_return(size, fits) PROVE Consistent(machine')
  <2>1. Running
    BY <1>12, Zenon DEF opcode_return, Executing
  <2>2. CASE machine' = Succeed(machine, "Return", fits)
    BY <2>1, <2>2, RunningLive, SucceedConsistent, Zenon
  <2>3. CASE machine' = opcode_revert_impl(machine)
    BY <1>1, <2>1, <2>3, Zenon
  <2>4. CASE Frame.reason = "Create"
    <3> DEFINE deployed == push(machine, Act("EvmSetCode", Self, Self, size))
    <3>1. ~Frame.is_static
      BY <2>1, <2>4, RunningLive, Zenon DEF IsFrame
    <3>2. Live(deployed)
      BY <1>2, <2>1, <3>1, Zenon
    <3>3. \/ machine' = opcode_revert_impl(machine)
          \/ machine' = Succeed(deployed, "Return", fits)
      BY <1>12, <2>4, Zenon DEF opcode_return, Step
    <3> HIDE DEF deployed
    <3> QED
      BY <2>3, <3>2, <3>3, SucceedConsistent, Zenon
  <2> QED
    <3>1. Frame.reason # "Create" => machine' = Succeed(machine, "Return", fits)
      BY <1>12, Zenon DEF opcode_return, Step
    <3> QED
      BY <2>2, <2>4, <3>1, Zenon
<1>13. ASSUME NEW fits, opcode_revert(fits) PROVE Consistent(machine')
  BY <1>1, <1>13, DeliverConsistent, Zenon DEF opcode_revert, Executing, Step
<1>14. ASSUME NEW address, NEW fits, opcode_sendall(address, fits) PROVE Consistent(machine')
  <2> DEFINE all == balance_internal(machine.actions, Self)
             sent == transfer(machine, Self, address, all)
  <2>1. Running
    BY <1>14, Zenon DEF opcode_sendall, Executing
  <2>2. \/ machine' = opcode_revert_impl(machine)
        \/ ~Frame.is_static /\ machine' = Succeed(sent, "Suicide", fits)
    BY <1>14, Zenon DEF opcode_sendall, Step
  <2> HIDE DEF all
  <2>3. ~Frame.is_static => Live(sent)
    BY <2>1, RunningLive, TransferLive, Zenon DEF Frame
  <2> HIDE DEF sent
  <2> QED
    BY <1>1, <2>1, <2>2, <2>3, SucceedConsistent, Zenon
<1>15. ASSUME NEW fits, opcode_stop(fits) PROVE Consistent(machine')
  BY <1>15, RunningLive, SucceedConsistent, Zenon DEF opcode_stop, Step
<1>16. CASE ExecutePrecompile
  BY <1>16, RunningLive, CommitConsistent, Zenon DEF ExecutePrecompile, Step
<1>17. CASE cancel
  <2>1. machine' = Machine(machine.frames, <<>>, <<>>, "Cancel")
    BY <1>17, Zenon DEF cancel, Step
  <2>2. IsMachine(machine)
    BY Zenon DEF Consistent, Live, Ended
  <2>3. Ended(Machine(machine.frames, <<>>, <<>>, "Cancel"))
    BY <2>2, EmptyList, EndEnded, Zenon
  <2> QED
    BY <2>1, <2>3, Zenon DEF Consistent
<1> QED
  BY <1>3, <1>4, <1>5, <1>6, <1>8, <1>9, <1>10, <1>11, <1>12, <1>13, <1>14, <1>15, <1>16, <1>17, Zenon
     DEF Next

(* In every reachable state the machine runs with its stacks in agreement  *)
(* or has ended without snapshots.                                         *)
THEOREM AlwaysConsistent == Spec => []Consistent(machine)
<1>1. Init => Consistent(machine)
  BY InitConsistent, Zenon
<1>2. Consistent(machine) /\ [Next]_vars => Consistent(machine)'
  <2>1. CASE Next
    BY <2>1, NextConsistent, Zenon
  <2>2. CASE UNCHANGED vars
    BY <2>2, Zenon DEF vars, Consistent, Live, Ended, IsMachine
  <2> QED
    BY <2>1, <2>2, Zenon
<1> QED
  BY <1>1, <1>2, PTL DEF Spec

(* One snapshot per frame until the end, none after it: the assertions of  *)
(* set_exit_status and revert_snapshot never fail, whatever the contracts  *)
(* do and however deep they call.                                          *)
THEOREM SnapshotsCorrect == Spec => []SnapshotPerFrame
<1>1. Consistent(machine) => SnapshotPerFrame
  <2>1. CASE Live(machine)
    <3>1. DOMAIN machine.stack = 1 .. Len(machine.stack)
      BY <2>1 DEF Live, IsMachine
    <3> QED
      BY <2>1, <3>1, Zenon DEF Live, SnapshotPerFrame, Running
  <2>2. CASE Ended(machine)
    BY <2>2, Zenon DEF Ended, SnapshotPerFrame, Running
  <2> QED
    BY <2>1, <2>2, Zenon DEF Consistent
<1> QED
  BY <1>1, AlwaysConsistent, PTL

(* Nothing is logged above the snapshot of a static frame, so a static     *)
(* call, with all it calls, has no effect on the chain.                    *)
THEOREM StaticCorrect == Spec => []StaticChangesNothing
<1>1. Consistent(machine) => StaticChangesNothing
  <2>1. CASE Live(machine)
    <3>1. DOMAIN machine.frames = 1 .. Len(machine.frames)
      BY <2>1 DEF Live, IsMachine, IsList
    <3> QED
      BY <2>1, <3>1, Zenon DEF Live, StaticChangesNothing
  <2>2. CASE Ended(machine)
    BY <2>2, Zenon DEF Ended, StaticChangesNothing, Running
  <2> QED
    BY <2>1, <2>2, Zenon DEF Consistent
<1> QED
  BY <1>1, AlwaysConsistent, PTL
=============================================================================
