----------------------------- MODULE TierProofs -----------------------------
(***************************************************************************)
(* Proofs about the file tier and the write budget in front of it.  For    *)
(* any number of slots, any page size and any set of page contents, the    *)
(* slots are partitioned between the held ones and the free stack and the  *)
(* tier implements the contract of a storage backend.  For any allowance,  *)
(* any length of a day and any sets of evictors, tickers and tick          *)
(* durations, the budget bounds what the device is asked to endure; and    *)
(* the tier that an eviction writes to after paying has both properties.   *)
(***************************************************************************)
EXTENDS BudgetedTier, FiniteSetTheorems, SequenceTheorems, WellFoundedInduction, TLAPS

-----------------------------------------------------------------------------
(* The file tier. *)

\* A held slot holds what a caller wrote: a torn write is never visible.
HeldHoldData == \A s \in Slots : allocated[s] => file[s] \in Data

Held == {s \in Slots : allocated[s]}

\* The inductive invariant.
TierInv == TypeOK /\ SlotPartition /\ HeldHoldData

-----------------------------------------------------------------------------
(***************************************************************************)
(* A location that validates names a slot of the file.                     *)
(***************************************************************************)
LEMMA LocationSlot ==
    ASSUME NEW loc \in Locations, ValidLocation(loc)
    PROVE  SlotOf(loc) \in Slots
<1> DEFINE k == loc \div PageUnits
<1>1. /\ loc \in Nat /\ PageUnits \in Nat \ {0} /\ SlotCount \in Nat \ {0}
      /\ loc % PageUnits = 0 /\ loc < SlotCount * PageUnits
  <2>1. SlotCount \in Nat \ {0} /\ PageUnits \in Nat \ {0}
    BY FileTierAssumption
  <2>2. capacity \in Nat
    BY <2>1 DEF capacity
  <2> QED
    BY <2>1, <2>2 DEF Locations, ValidLocation, capacity
<1>2. k \in Nat /\ loc = PageUnits * k + (loc % PageUnits)
  BY <1>1
<1>3. PageUnits * k < SlotCount * PageUnits
  BY <1>1, <1>2
<1>4. CASE k >= SlotCount
  <2>1. PageUnits * k >= PageUnits * SlotCount
    BY <1>1, <1>2, <1>4
  <2> QED
    BY <1>1, <1>2, <1>3, <2>1
<1> QED
  BY <1>1, <1>2, <1>4 DEF SlotOf, Slots

(***************************************************************************)
(* A set of slots is finite, and no larger than the capacity.              *)
(***************************************************************************)
LEMMA SlotSetFinite ==
    ASSUME NEW S \in SUBSET Slots
    PROVE  IsFiniteSet(S) /\ Cardinality(S) \in 0 .. SlotCount
<1>1. SlotCount \in Nat
  BY FileTierAssumption
<1>2. IsFiniteSet(Slots) /\ Cardinality(Slots) = SlotCount
  BY <1>1, FS_Interval DEF Slots
<1>3. IsFiniteSet(S) /\ Cardinality(S) <= Cardinality(Slots)
  BY <1>2, FS_Subset
<1> QED
  BY <1>1, <1>2, <1>3, FS_CardinalityType

(***************************************************************************)
(* Popping a stack without repetitions removes exactly its top.            *)
(***************************************************************************)
LEMMA StackPop ==
    ASSUME NEW q \in Seq(Slots), q # <<>>, IsInjective(q)
    PROVE  /\ Last(q) \in Slots /\ Last(q) \in ToSet(q)
           /\ Front(q) \in Seq(Slots) /\ IsInjective(Front(q))
           /\ ToSet(Front(q)) = ToSet(q) \ {Last(q)}
<1> DEFINE n == Len(q)
<1>1. n \in Nat \ {0} /\ DOMAIN q = 1 .. n /\ \A i \in 1 .. n : q[i] \in Slots
  BY EmptySeq, LenProperties, ElementOfSeq
<1>2. \A i \in 1 .. (n - 1) : q[i] \in Slots
  BY <1>1
<1>3. /\ Front(q) \in Seq(Slots)
      /\ Len(Front(q)) = n - 1
      /\ \A i \in 1 .. (n - 1) : Front(q)[i] = q[i]
  <2>1. /\ SubSeq(q, 1, n - 1) \in Seq(Slots)
        /\ Len(SubSeq(q, 1, n - 1)) = IF 1 <= n - 1 THEN n - 1 - 1 + 1 ELSE 0
        /\ \A i \in 1 .. (n - 1 - 1 + 1) : SubSeq(q, 1, n - 1)[i] = q[1 + i - 1]
    BY <1>1, <1>2, SubSeqProperties, 1 \in Int, n - 1 \in Int
  <2>2. \A i \in 1 .. (n - 1) : 1 + i - 1 = i
    BY <1>1
  <2> QED
    BY <1>1, <2>1, <2>2 DEF Front
<1>4. DOMAIN Front(q) = 1 .. (n - 1)
  BY <1>3, LenProperties
<1> QED
  BY <1>1, <1>3, <1>4 DEF Last, IsInjective, ToSet

(***************************************************************************)
(* Pushing a slot that is not on the stack adds exactly that slot.         *)
(***************************************************************************)
LEMMA StackPush ==
    ASSUME NEW q \in Seq(Slots), IsInjective(q), NEW e \in Slots, e \notin ToSet(q)
    PROVE  /\ Append(q, e) \in Seq(Slots) /\ IsInjective(Append(q, e))
           /\ ToSet(Append(q, e)) = ToSet(q) \cup {e}
<1> DEFINE n == Len(q)
           r == Append(q, e)
<1>1. n \in Nat /\ DOMAIN q = 1 .. n
  BY LenProperties
<1>2. /\ r \in Seq(Slots) /\ Len(r) = n + 1
      /\ \A i \in 1 .. n : r[i] = q[i]
      /\ r[n + 1] = e
  BY AppendProperties
<1>3. DOMAIN r = 1 .. (n + 1)
  BY <1>2, LenProperties
<1> HIDE DEF r, n
<1> QED
  BY <1>1, <1>2, <1>3 DEF IsInjective, ToSet, r

-----------------------------------------------------------------------------
(***************************************************************************)
(* An opened tier, truncated, satisfies the invariant.                     *)
(***************************************************************************)
LEMMA InitTierInv == Init => TierInv
<1> SUFFICES ASSUME Init PROVE TierInv
  OBVIOUS
<1>1. TypeOK
  BY FileTierAssumption, EmptySeq DEF Init, TypeOK, Contents
<1>2. ToSet(free_slots) = {} /\ IsInjective(free_slots)
  BY DEF Init, ToSet, IsInjective
<1>3. {s \in Slots : allocated[s]} = {}
  BY DEF Init
<1>4. SlotPartition
  <2>1. \A s \in Slots : ~(s < 0) /\ ~allocated[s]
    BY DEF Init, Slots
  <2>2. used_slots = Cardinality({s \in Slots : allocated[s]})
    BY <1>3, FS_EmptySet DEF Init
  <2>3. next_slot = 0
    BY DEF Init
  <2> QED
    BY <1>2, <2>1, <2>2, <2>3 DEF SlotPartition
<1>5. HeldHoldData
  BY DEF Init, HeldHoldData
<1> QED
  BY <1>1, <1>4, <1>5 DEF TierInv

(***************************************************************************)
(* The slot write selects exists and nobody holds it.                      *)
(***************************************************************************)
LEMMA SelectedFree ==
    ASSUME TierInv, HasSlot
    PROVE  Selected \in Slots /\ ~allocated[Selected]
<1>1. CASE free_slots # <<>>
  BY <1>1, StackPop DEF TierInv, TypeOK, SlotPartition, Selected
<1>2. CASE free_slots = <<>>
  <2>1. ToSet(free_slots) = {}
    BY <1>2 DEF ToSet
  <2>2. next_slot \in Slots
    BY <1>2, FileTierAssumption DEF HasSlot, Slots, TierInv, TypeOK
  <2>3. ~(next_slot < next_slot)
    BY DEF TierInv, TypeOK
  <2> QED
    BY <1>2, <2>1, <2>2, <2>3 DEF TierInv, SlotPartition, Selected
<1> QED
  BY <1>1, <1>2

(***************************************************************************)
(* A write that succeeds keeps the invariant: the slot leaves the stack,   *)
(* or the boundary moves up by one, exactly when it becomes held.          *)
(***************************************************************************)
LEMMA WriteKeeps ==
    ASSUME TierInv, NEW v \in Data, Write(v)
    PROVE  TierInv'
<1> DEFINE s0 == Selected
<1>1. HasSlot /\ s0 \in Slots /\ ~allocated[s0]
  BY SelectedFree DEF Write
<1> HIDE DEF s0
<1>2. /\ file' = [file EXCEPT ![s0] = v]
      /\ allocated' = [allocated EXCEPT ![s0] = TRUE]
      /\ used_slots' = used_slots + 1
      /\ result' = <<"written", s0>>
  BY DEF Write, s0
<1>3. /\ file' \in [Slots -> Contents] /\ allocated' \in [Slots -> BOOLEAN]
      /\ result'[1] = "written"
  BY <1>1, <1>2 DEF TierInv, TypeOK, Contents
<1>4. HeldHoldData'
  BY <1>1, <1>2 DEF TierInv, TypeOK, HeldHoldData
<1>5. Held' = Held \cup {s0} /\ s0 \notin Held
  BY <1>1, <1>2 DEF TierInv, TypeOK, Held
<1>6. used_slots' = Cardinality(Held')
  <2>1. Cardinality(Held \cup {s0}) = Cardinality(Held) + 1
    BY <1>5, SlotSetFinite, FS_AddElement DEF Held
  <2>2. used_slots = Cardinality(Held)
    BY DEF TierInv, SlotPartition, Held
  <2> QED
    BY <1>2, <1>5, <2>1, <2>2
<1>7. used_slots' \in 0 .. SlotCount
  <2>1. Cardinality(Held') \in 0 .. SlotCount
    BY SlotSetFinite DEF Held
  <2> QED
    BY <1>6, <2>1
<1>8. /\ free_slots' \in Seq(Slots) /\ next_slot' \in 0 .. SlotCount
      /\ IsInjective(free_slots')
      /\ \A s \in Slots : (s < next_slot') = (allocated'[s] \/ s \in ToSet(free_slots'))
      /\ \A s \in ToSet(free_slots') : ~allocated'[s]
  <2>1. CASE free_slots # <<>>
    <3>1. /\ free_slots' \in Seq(Slots) /\ IsInjective(free_slots')
          /\ ToSet(free_slots') = ToSet(free_slots) \ {s0}
          /\ s0 \in ToSet(free_slots) /\ next_slot' = next_slot
      BY <2>1, StackPop DEF TierInv, TypeOK, SlotPartition, Write, Selected, s0
    <3>2. ToSet(free_slots) \subseteq Slots
      BY ElementOfSeq, LenProperties DEF TierInv, TypeOK, ToSet
    <3> QED
      BY <1>1, <1>2, <3>1, <3>2 DEF TierInv, TypeOK, SlotPartition
  <2>2. CASE free_slots = <<>>
    <3>1. /\ free_slots' = <<>> /\ next_slot' = next_slot + 1
          /\ s0 = next_slot /\ next_slot < SlotCount
      BY <2>2, <1>1 DEF Write, Selected, s0, HasSlot
    <3>2. ToSet(<<>>) = {} /\ IsInjective(<<>>)
      BY DEF ToSet, IsInjective
    <3>3. \A s \in Slots : s < next_slot + 1 <=> s < next_slot \/ s = next_slot
      BY DEF Slots, TierInv, TypeOK
    <3>4. next_slot' \in 0 .. SlotCount
      BY <3>1, FileTierAssumption DEF TierInv, TypeOK
    <3>5. \A s \in Slots : s < next_slot <=> allocated[s]
      BY <2>2, <3>2 DEF TierInv, SlotPartition, TypeOK
    <3>6. \A s \in Slots : allocated'[s] <=> allocated[s] \/ s = s0
      BY <1>1, <1>2 DEF TierInv, TypeOK
    <3> QED
      BY <1>3, <3>1, <3>2, <3>3, <3>4, <3>5, <3>6, EmptySeq
  <2> QED
    BY <2>1, <2>2
<1> QED
  BY <1>3, <1>4, <1>6, <1>7, <1>8 DEF TierInv, TypeOK, SlotPartition, Held
(***************************************************************************)
(* free of a held slot pushes exactly that slot; a double free, or a free  *)
(* of a slot never written, changes nothing.                               *)
(***************************************************************************)
LEMMA FreeKeeps ==
    ASSUME TierInv, NEW loc \in Locations, Free(loc)
    PROVE  TierInv'
<1> DEFINE s0 == SlotOf(loc)
<1>1. s0 \in Slots
  BY LocationSlot DEF Free
<1> HIDE DEF s0
<1>2. file' = file /\ next_slot' = next_slot /\ result' = <<"freed">>
  BY DEF Free
<1>3. CASE ~allocated[s0]
  <2>1. UNCHANGED <<allocated, free_slots, used_slots>>
    BY <1>3 DEF Free, s0
  <2> QED
    BY <1>2, <2>1 DEF TierInv, TypeOK, SlotPartition, HeldHoldData
<1>4. CASE allocated[s0]
  <2>1. /\ allocated' = [allocated EXCEPT ![s0] = FALSE]
        /\ free_slots' = Append(free_slots, s0)
        /\ used_slots' = used_slots - 1
    BY <1>4 DEF Free, s0
  <2>2. s0 \notin ToSet(free_slots)
    BY <1>1, <1>4 DEF TierInv, SlotPartition
  <2>3. /\ free_slots' \in Seq(Slots) /\ IsInjective(free_slots')
        /\ ToSet(free_slots') = ToSet(free_slots) \cup {s0}
    BY <1>1, <2>1, <2>2, StackPush DEF TierInv, TypeOK, SlotPartition
  <2>4. Held' = Held \ {s0} /\ s0 \in Held
    BY <1>1, <1>4, <2>1 DEF TierInv, TypeOK, Held
  <2>5. used_slots' = Cardinality(Held') /\ used_slots' \in 0 .. SlotCount
    <3>1. Cardinality(Held \ {s0}) = Cardinality(Held) - 1
      BY <2>4, SlotSetFinite, FS_RemoveElement DEF Held
    <3>2. used_slots = Cardinality(Held)
      BY DEF TierInv, SlotPartition, Held
    <3>3. Cardinality(Held') \in 0 .. SlotCount
      BY SlotSetFinite DEF Held
    <3> QED
      BY <2>1, <2>4, <3>1, <3>2, <3>3
  <2>6. /\ allocated' \in [Slots -> BOOLEAN]
        /\ \A s \in Slots : allocated'[s] = (allocated[s] /\ s # s0)
    BY <1>1, <2>1 DEF TierInv, TypeOK
  <2>7. ToSet(free_slots') \subseteq Slots
    BY <2>3, ElementOfSeq, LenProperties DEF ToSet
  <2>8. /\ \A s \in Slots : (s < next_slot') = (allocated'[s] \/ s \in ToSet(free_slots'))
        /\ \A s \in ToSet(free_slots') : ~allocated'[s]
    BY <1>1, <1>2, <1>4, <2>3, <2>6, <2>7 DEF TierInv, TypeOK, SlotPartition
  <2>9. TypeOK'
    BY <1>2, <2>3, <2>5, <2>6 DEF TierInv, TypeOK
  <2>10. SlotPartition'
    BY <2>3, <2>5, <2>8 DEF SlotPartition, Held
  <2>11. HeldHoldData'
    BY <1>2, <2>6 DEF TierInv, HeldHoldData
  <2> QED
    BY <2>9, <2>10, <2>11 DEF TierInv
<1> QED
  BY <1>3, <1>4

(***************************************************************************)
(* A write that fails may tear the slot it selected, which nobody holds.   *)
(***************************************************************************)
LEMMA WriteFailsKeeps ==
    ASSUME TierInv, NEW v \in Data, WriteFails(v)
    PROVE  TierInv'
<1> DEFINE s0 == Selected
<1>1. s0 \in Slots /\ ~allocated[s0]
  BY SelectedFree DEF WriteFails
<1>2. PICK bytes \in Contents : file' = [file EXCEPT ![s0] = bytes]
  BY <1>1 DEF WriteFails, TierInv, TypeOK, Contents
<1>3. result' = <<"err", "Io">> /\ UNCHANGED <<allocated, free_slots, next_slot, used_slots>>
  BY DEF WriteFails, Fail, slotState
<1> HIDE DEF s0
<1>4. TypeOK' /\ SlotPartition'
  BY <1>1, <1>2, <1>3 DEF TierInv, TypeOK, SlotPartition
<1>5. HeldHoldData'
  BY <1>1, <1>2, <1>3 DEF TierInv, TypeOK, HeldHoldData
<1> QED
  BY <1>4, <1>5 DEF TierInv

(***************************************************************************)
(* Every operation keeps the invariant.                                    *)
(***************************************************************************)
LEMMA NextTierInv == TierInv /\ [Next]_vars => TierInv'
<1> SUFFICES ASSUME TierInv, [Next]_vars PROVE TierInv'
  OBVIOUS
<1>1. ASSUME UNCHANGED <<file, slotState>>, result'[1] \in {"none", "err", "freed", "page", "written"}
      PROVE  TierInv'
  BY <1>1 DEF TierInv, TypeOK, SlotPartition, HeldHoldData, slotState
<1>2. CASE UNCHANGED vars
  BY <1>1, <1>2 DEF vars, TierInv, TypeOK, slotState
<1>3. CASE RejectBuffer \/ WriteFull
  BY <1>1, <1>3 DEF RejectBuffer, WriteFull, Fail
<1>4. ASSUME NEW loc \in Locations,
             RejectLocation(loc) \/ ReadMissing(loc) \/ Read(loc) \/ ReadFails(loc)
      PROVE  TierInv'
  BY <1>1, <1>4 DEF RejectLocation, ReadMissing, Read, ReadFails, Fail
<1> QED
  BY <1>2, <1>3, <1>4, FreeKeeps, WriteKeeps, WriteFailsKeeps DEF Next, AccessStep

(***************************************************************************)
(* In every reachable state of the tier the invariant holds.               *)
(***************************************************************************)
THEOREM TierInductive == Spec => []TierInv
  BY InitTierInv, NextTierInv, PTL DEF Spec

(***************************************************************************)
(* The slot state stays well typed: used_slots and next_slot never leave   *)
(* the capacity of the file.                                               *)
(***************************************************************************)
THEOREM TierTypeCorrect == Spec => []TypeOK
<1>1. TierInv => TypeOK
  BY DEF TierInv
<1> QED
  BY <1>1, TierInductive, PTL

(***************************************************************************)
(* The slots ever used are partitioned between the held ones and the free  *)
(* stack, which repeats none, and used_slots counts the held ones.         *)
(***************************************************************************)
THEOREM SlotsPartitioned == Spec => []SlotPartition
<1>1. TierInv => SlotPartition
  BY DEF TierInv
<1> QED
  BY <1>1, TierInductive, PTL

-----------------------------------------------------------------------------
\* The refinement mapping: what a slot holds, as the callers see it.
Seen == [s \in Slots |-> IF allocated[s] THEN file[s] ELSE None]

(***************************************************************************)
(* A slot shows no page exactly when nobody holds it.                      *)
(***************************************************************************)
LEMMA SeenNone ==
    ASSUME TierInv, NEW s \in Slots
    PROVE  (Seen[s] = None) <=> ~allocated[s]
  BY FileTierAssumption DEF TierInv, HeldHoldData, Seen

(***************************************************************************)
(* A step that leaves the held slots and their bytes alone shows nothing.  *)
(***************************************************************************)
LEMMA SeenSame ==
    ASSUME \A s \in Slots : allocated'[s] = allocated[s],
           \A s \in Slots : allocated[s] => file'[s] = file[s]
    PROVE  Seen' = Seen
  BY DEF Seen

(***************************************************************************)
(* Every operation of the tier is one of the contract, or changes nothing  *)
(* that a caller sees.                                                     *)
(***************************************************************************)
LEMMA StepContract == TierInv /\ [Next]_vars => [store!Next]_(store!vars)
<1> SUFFICES ASSUME TierInv, [Next]_vars PROVE [store!Next]_(store!vars)
  OBVIOUS
<1>0. store!Slots = Slots
  BY DEF store!Slots, Slots
<1>1. ASSUME UNCHANGED <<file, slotState>> PROVE Seen' = Seen
  BY <1>1 DEF Seen, slotState
<1>2. CASE UNCHANGED vars
  <2>1. Seen' = Seen /\ result' = result
    BY <1>1, <1>2 DEF vars, slotState
  <2> QED
    BY <2>1 DEF store!vars, Seen
<1>3. CASE RejectBuffer
  <2>1. store!Invalid
    BY <1>1, <1>3 DEF RejectBuffer, Fail, store!Invalid, Seen
  <2> QED
    BY <2>1 DEF store!Next
<1>4. CASE WriteFull
  <2>1. free_slots = <<>> /\ ~(next_slot < SlotCount)
    BY <1>4 DEF WriteFull, HasSlot
  <2>2. ToSet(free_slots) = {}
    BY <2>1 DEF ToSet
  <2>3. \A s \in Slots : s < next_slot
    BY <2>1, FileTierAssumption DEF TierInv, TypeOK, Slots
  <2>4. \A s \in Slots : allocated[s]
    BY <2>2, <2>3 DEF TierInv, SlotPartition
  <2>5. store!StorageFull
    BY <1>0, <1>1, <1>4, <2>4, SeenNone DEF WriteFull, Fail, store!StorageFull, Seen
  <2> QED
    BY <2>5 DEF store!Next
<1>5. ASSUME NEW loc \in Locations, RejectLocation(loc) PROVE store!Next
  <2>1. store!Invalid
    BY <1>1, <1>5 DEF RejectLocation, store!Invalid, Seen
  <2> QED
    BY <2>1 DEF store!Next
<1>6. ASSUME NEW loc \in Locations, ReadMissing(loc) PROVE store!Next
  <2>1. SlotOf(loc) \in Slots
    BY <1>6, LocationSlot DEF ReadMissing
  <2>2. store!NotFound(SlotOf(loc))
    BY <1>1, <1>6, <2>1, SeenNone DEF ReadMissing, Fail, store!NotFound, Seen
  <2> QED
    BY <1>0, <2>1, <2>2 DEF store!Next
<1>7. ASSUME NEW loc \in Locations, Read(loc) PROVE store!Next
  <2>1. SlotOf(loc) \in Slots
    BY <1>7, LocationSlot DEF Read
  <2>2. Seen[SlotOf(loc)] # None /\ Seen[SlotOf(loc)] = file[SlotOf(loc)]
    BY <1>7, <2>1, SeenNone DEF Read, Seen
  <2>3. store!Read(SlotOf(loc))
    BY <1>1, <1>7, <2>2 DEF Read, store!Read, Seen
  <2> QED
    BY <1>0, <2>1, <2>3 DEF store!Next
<1>8. ASSUME NEW loc \in Locations, ReadFails(loc) PROVE store!Next
  <2>1. store!IoError
    BY <1>1, <1>8 DEF ReadFails, Fail, store!IoError, Seen
  <2> QED
    BY <2>1 DEF store!Next
<1>9. ASSUME NEW loc \in Locations, Free(loc) PROVE store!Next
  <2>1. SlotOf(loc) \in Slots
    BY <1>9, LocationSlot DEF Free
  <2>2. /\ allocated' = [allocated EXCEPT ![SlotOf(loc)] = FALSE]
        /\ file' = file /\ result' = <<"freed">>
    BY <1>9, <2>1 DEF Free, TierInv, TypeOK
  <2>3. Seen' = [Seen EXCEPT ![SlotOf(loc)] = None]
    BY <2>1, <2>2 DEF Seen, TierInv, TypeOK
  <2>4. store!Free(SlotOf(loc))
    BY <2>2, <2>3 DEF store!Free, Seen
  <2> QED
    BY <1>0, <2>1, <2>4 DEF store!Next
<1>10. ASSUME NEW v \in Data, Write(v) PROVE store!Next
  <2>1. Selected \in Slots /\ ~allocated[Selected]
    BY <1>10, SelectedFree DEF Write
  <2>2. /\ file' = [file EXCEPT ![Selected] = v]
        /\ allocated' = [allocated EXCEPT ![Selected] = TRUE]
        /\ result' = <<"written", Selected>>
    BY <1>10 DEF Write
  <2>3. Seen' = [Seen EXCEPT ![Selected] = v]
    BY <2>1, <2>2 DEF Seen, TierInv, TypeOK
  <2>4. store!Write(Selected, v)
    BY <2>1, <2>2, <2>3, SeenNone DEF store!Write, Seen
  <2> QED
    BY <1>0, <2>1, <2>4 DEF store!Next
<1>11. ASSUME NEW v \in Data, WriteFails(v) PROVE store!Next
  <2>1. Selected \in Slots /\ ~allocated[Selected]
    BY <1>11, SelectedFree DEF WriteFails
  <2>2. PICK bytes : file' = [file EXCEPT ![Selected] = bytes]
    BY <1>11 DEF WriteFails
  <2>3. allocated' = allocated /\ result' = <<"err", "Io">>
    BY <1>11 DEF WriteFails, Fail, slotState
  <2>4. \A s \in Slots : allocated[s] => file'[s] = file[s]
    BY <2>1, <2>2 DEF TierInv, TypeOK
  <2>5. Seen' = Seen
    BY <2>3, <2>4, SeenSame
  <2>6. store!IoError
    BY <2>3, <2>5 DEF store!IoError, Seen
  <2> QED
    BY <2>6 DEF store!Next
<1> QED
  BY <1>2, <1>3, <1>4, <1>5, <1>6, <1>7, <1>8, <1>9, <1>10, <1>11 DEF Next, AccessStep

(***************************************************************************)
(* The tier implements the backend contract: a page is placed only in a    *)
(* slot nobody holds, a read returns what was written last, no torn write  *)
(* shows, a failed write costs no slot and StorageFull means full.         *)
(***************************************************************************)
THEOREM TierRefinement == Spec => BackendContract
<1>1. Init => store!Init
  BY DEF Init, store!Init, store!Slots, Slots
<1> QED
  BY <1>1, TierInductive, StepContract, PTL DEF Spec, BackendContract, store!Spec

-----------------------------------------------------------------------------
(* The write budget, and the tier behind it. *)

(***************************************************************************)
(* Every non-empty set of natural numbers has a least element.             *)
(***************************************************************************)
LEMMA NatMinimum ==
    ASSUME NEW T \in SUBSET Nat, T # {}
    PROVE  \E n \in T : \A m \in T : n <= m
<1>1. PICK n \in T : \A m \in T : ~(<<m, n>> \in OpToRel(<, Nat))
  BY NatLessThanWellFounded, WFMin
<1>2. \A m \in T : ~(m < n)
  BY <1>1 DEF OpToRel
<1> QED
  BY <1>2

-----------------------------------------------------------------------------
\* The tickers that have taken their credit and not yet added it, and the
\* bytes each is about to add.
AddingTickers == {t \in Tickers : tick[t].at = "adding"}
Owed == [t \in Tickers |-> IF tick[t].at = "adding" THEN tick[t].added ELSE 0]

\* sum maps each set of tickers to the sum of f over it.
IsSum(sum, f) == /\ f \in [Tickers -> Nat]
                 /\ sum \in [SUBSET Tickers -> Nat]
                 /\ sum[{}] = 0
                 /\ \A S \in SUBSET Tickers : \A t \in S : sum[S] = sum[S \ {t}] + f[t]

\* new is sum after what ticker t owes has become n: f has become g.
SumAfter(sum, f, t, n, new, g) ==
    /\ t \in Tickers /\ n \in Nat
    /\ g \in [Tickers -> Nat] /\ g[t] = n /\ \A u \in Tickers \ {t} : g[u] = f[u]
    /\ new \in [SUBSET Tickers -> Nat]
    /\ \A S \in SUBSET Tickers : new[S] = IF t \in S THEN sum[S \ {t}] + n ELSE sum[S]

(***************************************************************************)
(* Changing what one ticker owes changes the sums of the sets it is in.    *)
(***************************************************************************)
LEMMA SumUpdate ==
    ASSUME NEW f, NEW sum, IsSum(sum, f), NEW t, NEW n, NEW new, NEW g,
           SumAfter(sum, f, t, n, new, g)
    PROVE  IsSum(new, g)
<1> USE DEF SumAfter
<1>1. /\ f \in [Tickers -> Nat] /\ sum \in [SUBSET Tickers -> Nat] /\ sum[{}] = 0
      /\ \A S \in SUBSET Tickers : \A u \in S : sum[S] = sum[S \ {u}] + f[u]
  BY DEF IsSum
<1>2. new \in [SUBSET Tickers -> Nat] /\ new[{}] = 0
  BY <1>1
<1>3. ASSUME NEW S \in SUBSET Tickers, NEW u \in S PROVE new[S] = new[S \ {u}] + g[u]
  <2>1. CASE u = t
    BY <1>1, <2>1
  <2>2. CASE u # t /\ t \in S
    <3>1. (S \ {u}) \ {t} = (S \ {t}) \ {u}
      OBVIOUS
    <3>2. new[S] = sum[S \ {t}] + n /\ new[S \ {u}] = sum[(S \ {t}) \ {u}] + n
      BY <2>2, <3>1
    <3>3. sum[S \ {t}] = sum[(S \ {t}) \ {u}] + f[u]
      BY <1>1, <2>2
    <3>4. sum[(S \ {t}) \ {u}] \in Nat /\ sum[S \ {t}] \in Nat /\ g[u] = f[u] /\ f[u] \in Nat
      BY <1>1, <2>2
    <3> QED
      BY <3>2, <3>3, <3>4
  <2>3. CASE u # t /\ t \notin S
    <3>1. t \notin S \ {u} /\ S \ {u} \in SUBSET Tickers /\ u \in Tickers
      BY <2>3
    <3>2. new[S] = sum[S] /\ new[S \ {u}] = sum[S \ {u}] /\ g[u] = f[u]
      BY <2>3, <3>1
    <3>3. sum[S] = sum[S \ {u}] + f[u]
      BY <1>1
    <3> QED
      BY <3>2, <3>3
  <2> QED
    BY <2>1, <2>2, <2>3
<1> QED
  BY <1>2, <1>3 DEF IsSum

(***************************************************************************)
(* Over a finite set of tickers the recursive sum of the model is the one  *)
(* any such function gives: by least counterexample on the cardinality.    *)
(***************************************************************************)
LEMMA PendingIsSum ==
    ASSUME NEW sum, IsSum(sum, Owed), IsFiniteSet(AddingTickers)
    PROVE  Pending = sum[AddingTickers]
<1> DEFINE A == AddingTickers
           Pick(s) == CHOOSE x \in s : TRUE
           Body(f) == [s \in SUBSET A |-> IF s = {} THEN 0
                          ELSE tick[Pick(s)].added + f[s \ {Pick(s)}]]
           iter == CHOOSE f : f = Body(f)
           g == [s \in SUBSET A |-> sum[s]]
<1>1. Pending = iter[A]
  BY DEF Pending, MapThenSumSet, MapThenFoldSet, AddingTickers
<1>2. \A s \in SUBSET A : s # {} => Pick(s) \in s
  OBVIOUS
<1>3. A \subseteq Tickers /\ \A t \in A : tick[t].added = Owed[t]
  BY DEF AddingTickers, Owed
<1>4. ASSUME NEW s \in SUBSET A, s # {}
      PROVE  sum[s] = sum[s \ {Pick(s)}] + tick[Pick(s)].added
  BY <1>2, <1>3, <1>4 DEF IsSum
<1>5. g = Body(g)
  <2>1. ASSUME NEW s \in SUBSET A
        PROVE  sum[s] = IF s = {} THEN 0 ELSE tick[Pick(s)].added + g[s \ {Pick(s)}]
    <3>1. CASE s = {}
      BY <3>1 DEF IsSum
    <3>2. CASE s # {}
      <4>1. sum[s] = sum[s \ {Pick(s)}] + tick[Pick(s)].added
        BY <1>4, <3>2
      <4>2. sum[s \ {Pick(s)}] \in Nat /\ tick[Pick(s)].added \in Nat
        BY <1>2, <1>3, <3>2 DEF IsSum
      <4>3. g[s \ {Pick(s)}] = sum[s \ {Pick(s)}]
        OBVIOUS
      <4> HIDE DEF g, Pick
      <4> QED
        BY <3>2, <4>1, <4>2, <4>3
    <3> QED
      BY <3>1, <3>2
  <2> QED
    BY <2>1
<1>6. iter = Body(iter)
  <2> HIDE DEF g, Body
  <2> QED
    BY <1>5
<1> HIDE DEF iter
<1>7. \A s \in SUBSET A : iter[s] = IF s = {} THEN 0
                                    ELSE tick[Pick(s)].added + iter[s \ {Pick(s)}]
  BY <1>6
<1> DEFINE Bad == {n \in Nat : \E s \in SUBSET A : Cardinality(s) = n /\ iter[s] # sum[s]}
<1>8. Bad = {}
  <2> SUFFICES ASSUME Bad # {} PROVE FALSE
    OBVIOUS
  <2>1. PICK n \in Bad : \A m \in Bad : n <= m
    BY NatMinimum
  <2>2. PICK s \in SUBSET A : Cardinality(s) = n /\ iter[s] # sum[s]
    BY <2>1
  <2>3. s # {}
    BY <1>7, <2>2 DEF IsSum
  <2> DEFINE x == Pick(s)
  <2>4. x \in s
    BY <1>2, <2>3
  <2> HIDE DEF x
  <2>5. IsFiniteSet(s)
    BY FS_Subset
  <2>6. Cardinality(s \ {x}) = n - 1 /\ Cardinality(s \ {x}) \in Nat
    BY <2>2, <2>4, <2>5, FS_RemoveElement, FS_CardinalityType
  <2>7. n - 1 \notin Bad
    BY <2>1, <2>6
  <2>8. iter[s \ {x}] = sum[s \ {x}]
    BY <2>6, <2>7
  <2>9. iter[s] = tick[x].added + iter[s \ {x}]
    BY <1>7, <2>3 DEF x
  <2>10. sum[s] = sum[s \ {x}] + tick[x].added
    BY <1>4, <2>3 DEF x
  <2>11. sum[s \ {x}] \in Nat /\ tick[x].added \in Nat
    BY <1>3, <2>4 DEF IsSum
  <2> QED
    BY <2>2, <2>8, <2>9, <2>10, <2>11
<1>9. Cardinality(A) \in Nat
  BY FS_CardinalityType
<1> QED
  BY <1>1, <1>8, <1>9
-----------------------------------------------------------------------------
(***************************************************************************)
(* Division with remainder, and its uniqueness.                            *)
(***************************************************************************)
LEMMA DivMod ==
    ASSUME NEW n \in Nat, NEW d \in Nat \ {0}
    PROVE  /\ n \div d \in Nat /\ n % d \in 0 .. d - 1
           /\ n = d * (n \div d) + (n % d)
  OBVIOUS

LEMMA DivModUnique ==
    ASSUME NEW n \in Nat, NEW d \in Nat \ {0}, NEW q \in Nat, NEW r \in 0 .. d - 1,
           n = d * q + r
    PROVE  n \div d = q /\ n % d = r
<1> DEFINE q0 == n \div d
           r0 == n % d
<1>1. q0 \in Nat /\ r0 \in 0 .. d - 1 /\ n = d * q0 + r0
  BY DivMod
<1> HIDE DEF q0, r0
<1>2. CASE q0 > q
  <2>1. PICK k \in Nat : q0 = q + 1 + k
    BY <1>1, <1>2, q0 - q - 1 \in Nat
  <2>2. d * q0 = d * q + d + d * k /\ d * k >= 0 /\ d * q \in Nat
    BY <2>1
  <2> QED
    BY <1>1, <2>2
<1>3. CASE q > q0
  <2>1. PICK k \in Nat : q = q0 + 1 + k
    BY <1>1, <1>3, q - q0 - 1 \in Nat
  <2>2. d * q = d * q0 + d + d * k /\ d * k >= 0 /\ d * q0 \in Nat
    BY <1>1, <2>1
  <2> QED
    BY <1>1, <2>2
<1>4. CASE q0 = q
  BY <1>1, <1>4 DEF q0, r0
<1> QED
  BY <1>1, <1>2, <1>3, <1>4

\* What a write took its tokens for: every byte written was consumed first.
PaidFor == /\ IsFiniteSet(writing)
           /\ written + PageSize * Cardinality(writing) <= consumed

\* Where the bytes issued are, with the bytes under way as a sum.
Accounted ==
    /\ IsFiniteSet(AddingTickers)
    /\ \E sum : /\ IsSum(sum, Owed)
                /\ available + consumed + spilled + sum[AddingTickers]
                     = Allowance + issued

\* The inductive invariant of the budget.
BudgetInv == BudgetTypeOK /\ FractionalCredit /\ PaidFor /\ Accounted

(***************************************************************************)
(* The numbers that the budget works with are natural numbers.             *)
(***************************************************************************)
LEMMA BudgetNumbers ==
    ASSUME BudgetTypeOK
    PROVE  /\ available \in Nat /\ available <= Allowance
           /\ remainder \in Nat /\ remainder < Day
           /\ clock \in Nat /\ credited \in Nat /\ issued \in Nat
           /\ spilled \in Nat /\ consumed \in Nat /\ written \in Nat
           /\ Allowance \in Nat /\ Day \in Nat \ {0} /\ PageSize \in Nat \ {0}
<1>1. Allowance \in Nat /\ Day \in Nat \ {0} /\ PageSize \in Nat \ {0}
  BY BudgetAssumption
<1> QED
  BY <1>1 DEF BudgetTypeOK

(***************************************************************************)
(* What a ticker may be doing, field by field.                             *)
(***************************************************************************)
LEMMA TickFields ==
    ASSUME BudgetTypeOK, NEW t \in Tickers
    PROVE  /\ tick[t] \in Ticks
           /\ tick[t].at = "loaded" =>
                /\ tick[t] = Loaded(tick[t].elapsed, tick[t].old)
                /\ tick[t].elapsed \in Elapsed \ {0} /\ tick[t].elapsed \in Nat \ {0}
                /\ tick[t].old \in 0 .. Day - 1 /\ tick[t].old \in Nat
           /\ tick[t].at = "adding" =>
                /\ tick[t].added \in 1 .. Allowance /\ tick[t].added \in Nat
           /\ tick[t].at \in {"idle", "loaded", "adding"}
<1>1. tick[t] \in Ticks
  BY DEF BudgetTypeOK
<1>2. CASE tick[t] = Idle
  BY <1>1, <1>2 DEF Idle
<1>3. CASE \E n \in 1 .. Allowance : tick[t] = Adding(n)
  BY <1>1, <1>3, BudgetAssumption DEF Adding
<1>4. CASE \E e \in Elapsed \ {0}, old \in 0 .. Day - 1 : tick[t] = Loaded(e, old)
  BY <1>1, <1>4, BudgetAssumption DEF Loaded
<1> QED
  BY <1>1, <1>2, <1>3, <1>4 DEF Ticks

(***************************************************************************)
(* A new budget satisfies the invariant.                                   *)
(***************************************************************************)
LEMMA InitBudgetInv == BudgetInit => BudgetInv
<1> SUFFICES ASSUME BudgetInit PROVE BudgetInv
  OBVIOUS
<1> USE DEF BudgetInit
<1>1. BudgetTypeOK
  <2>1. available \in 0 .. Allowance /\ remainder \in 0 .. Day - 1
    BY BudgetAssumption
  <2>2. tick \in [Tickers -> Ticks]
    BY DEF Ticks
  <2> QED
    <3>1. {clock, credited, issued, spilled, consumed, written} \subseteq Nat
      OBVIOUS
    <3>2. clipped \in BOOLEAN /\ writing \subseteq Evictors
      OBVIOUS
    <3> QED
      BY <2>1, <2>2, <3>1, <3>2 DEF BudgetTypeOK
<1>2. FractionalCredit
  <2>1. 0 * Allowance = 0 /\ 0 = Day * 0 + 0 /\ 0 \in 0 .. Day - 1
    BY BudgetAssumption
  <2>2. 0 \div Day = 0 /\ 0 % Day = 0
    BY <2>1, DivModUnique, BudgetAssumption
  <2> QED
    BY <2>1, <2>2 DEF FractionalCredit
<1>3. PaidFor
  BY BudgetAssumption, FS_EmptySet DEF PaidFor
<1>4. Accounted
  <2>1. AddingTickers = {} /\ Owed = [t \in Tickers |-> 0]
    BY DEF AddingTickers, Owed, Idle
  <2>2. IsSum([S \in SUBSET Tickers |-> 0], Owed)
    BY <2>1 DEF IsSum
  <2>3. available + consumed + spilled + [S \in SUBSET Tickers |-> 0][AddingTickers]
          = Allowance + issued
    BY <2>1, BudgetAssumption
  <2> QED
    BY <2>1, <2>2, <2>3, FS_EmptySet DEF Accounted
<1> QED
  BY <1>1, <1>2, <1>3, <1>4 DEF BudgetInv

(***************************************************************************)
(* A step that leaves the tickers and the issued bytes alone keeps them    *)
(* accounted for if it only moves bytes from the bucket to the consumed.   *)
(***************************************************************************)
LEMMA AccountedMoves ==
    ASSUME BudgetInv, tick' = tick, spilled' = spilled, issued' = issued,
           available' + consumed' = available + consumed,
           available' \in Nat, consumed' \in Nat
    PROVE  Accounted'
<1>1. AddingTickers' = AddingTickers /\ Owed' = Owed
  BY DEF AddingTickers, Owed
<1>2. PICK sum : IsSum(sum, Owed) /\ available + consumed + spilled + sum[AddingTickers]
                                       = Allowance + issued
  BY DEF BudgetInv, Accounted
<1>3. sum[AddingTickers] \in Nat
  BY <1>2 DEF IsSum, AddingTickers
<1>4. available' + consumed' + spilled' + sum[AddingTickers'] = Allowance + issued'
  BY <1>1, <1>2, <1>3, BudgetNumbers DEF BudgetInv
<1> QED
  BY <1>1, <1>2, <1>4 DEF Accounted, BudgetInv
(***************************************************************************)
(* Taking a page's tokens: they are consumed before they are written.      *)
(***************************************************************************)
LEMMA ConsumeKeeps ==
    ASSUME BudgetInv, NEW e \in Evictors, TryConsume(e)
    PROVE  BudgetInv'
<1>1. /\ e \notin writing /\ available >= PageSize
      /\ available' = available - PageSize /\ consumed' = consumed + PageSize
      /\ writing' = writing \cup {e}
      /\ UNCHANGED <<remainder, tick, clock, credited, issued, spilled, written, clipped>>
  BY DEF TryConsume
<1>2. available' \in 0 .. Allowance /\ consumed' \in Nat
      /\ available' + consumed' = available + consumed
  BY <1>1, BudgetNumbers DEF BudgetInv
<1>3. BudgetTypeOK'
  BY <1>1, <1>2 DEF BudgetInv, BudgetTypeOK
<1>4. FractionalCredit'
  BY <1>1 DEF BudgetInv, FractionalCredit
<1>5. PaidFor'
  <2>1. /\ IsFiniteSet(writing') /\ Cardinality(writing') = Cardinality(writing) + 1
        /\ Cardinality(writing) \in Nat
    BY <1>1, FS_AddElement, FS_CardinalityType DEF BudgetInv, PaidFor
  <2>2. PageSize * (Cardinality(writing) + 1) = PageSize * Cardinality(writing) + PageSize
    BY <2>1, BudgetAssumption
  <2>3. PageSize * Cardinality(writing) \in Nat
    BY <2>1, BudgetAssumption
  <2> QED
    BY <1>1, <2>1, <2>2, <2>3, BudgetNumbers DEF BudgetInv, PaidFor
<1>6. Accounted'
  BY <1>1, <1>2, AccountedMoves
<1> QED
  BY <1>3, <1>4, <1>5, <1>6 DEF BudgetInv

(***************************************************************************)
(* The end of a write, which wore the device or did not.                   *)
(***************************************************************************)
LEMMA WriteEndsKeeps ==
    ASSUME BudgetInv, NEW e \in Evictors, NEW worn \in BOOLEAN, WriteEnds(e, worn)
    PROVE  BudgetInv'
<1>1. /\ e \in writing /\ writing' = writing \ {e}
      /\ written' = IF worn THEN written + PageSize ELSE written
      /\ UNCHANGED <<available, remainder, tick, clock, credited, issued, spilled,
                     consumed, clipped>>
  BY DEF WriteEnds, bucket
<1>2. written' \in Nat /\ written' <= written + PageSize
  BY <1>1, BudgetNumbers DEF BudgetInv
<1>3. BudgetTypeOK'
  BY <1>1, <1>2 DEF BudgetInv, BudgetTypeOK
<1>4. FractionalCredit'
  BY <1>1 DEF BudgetInv, FractionalCredit
<1>5. PaidFor'
  <2>1. /\ IsFiniteSet(writing') /\ Cardinality(writing') = Cardinality(writing) - 1
        /\ Cardinality(writing') \in Nat
    BY <1>1, FS_RemoveElement, FS_CardinalityType DEF BudgetInv, PaidFor
  <2>2. Cardinality(writing) = Cardinality(writing') + 1
    BY <1>1, <2>1, FS_CardinalityType DEF BudgetInv, PaidFor
  <2>3. /\ PageSize * Cardinality(writing) = PageSize * Cardinality(writing') + PageSize
        /\ PageSize * Cardinality(writing') \in Nat
    BY <2>1, <2>2, BudgetAssumption
  <2> QED
    BY <1>1, <1>2, <2>1, <2>3, BudgetNumbers DEF BudgetInv, PaidFor
<1>6. Accounted'
  BY <1>1, AccountedMoves, BudgetNumbers DEF BudgetInv
<1> QED
  BY <1>3, <1>4, <1>5, <1>6 DEF BudgetInv

(***************************************************************************)
(* A step that only moves one ticker between idle and loaded.              *)
(***************************************************************************)
LEMMA TickMoves ==
    ASSUME BudgetInv, NEW t \in Tickers, NEW k \in Ticks,
           tick[t].at # "adding", k.at # "adding", tick' = [tick EXCEPT ![t] = k],
           clock' \in Nat,
           UNCHANGED <<available, remainder, writing, credited, issued, spilled,
                       consumed, written, clipped>>
    PROVE  BudgetInv'
<1>1. tick \in [Tickers -> Ticks]
  BY DEF BudgetInv, BudgetTypeOK
<1>2. BudgetTypeOK'
  BY <1>1 DEF BudgetInv, BudgetTypeOK
<1>3. FractionalCredit' /\ PaidFor'
  BY DEF BudgetInv, FractionalCredit, PaidFor
<1>4. AddingTickers' = AddingTickers /\ Owed' = Owed
  BY <1>1 DEF AddingTickers, Owed
<1>5. Accounted'
  BY <1>4 DEF BudgetInv, Accounted
<1> QED
  BY <1>2, <1>3, <1>5 DEF BudgetInv

(***************************************************************************)
(* Loading the fraction.                                                   *)
(***************************************************************************)
LEMMA LoadKeeps ==
    ASSUME BudgetInv, NEW t \in Tickers, NEW e \in Elapsed, TickLoad(t, e)
    PROVE  BudgetInv'
<1>1. e \in Elapsed \ {0} /\ e \in Nat /\ remainder \in 0 .. Day - 1
  BY BudgetAssumption DEF TickLoad, BudgetInv, BudgetTypeOK
<1>2. Loaded(e, remainder) \in Ticks /\ Loaded(e, remainder).at # "adding"
  BY <1>1 DEF Ticks, Loaded
<1>3. clock' \in Nat
  BY <1>1, BudgetNumbers DEF BudgetInv, TickLoad
<1>4. tick[t].at # "adding"
  BY DEF TickLoad, Idle
<1> QED
  BY <1>2, <1>3, <1>4, TickMoves DEF TickLoad, bucket

(***************************************************************************)
(* Loading the fraction again after a failed compare-exchange.             *)
(***************************************************************************)
LEMMA RetryKeeps ==
    ASSUME BudgetInv, NEW t \in Tickers, TickRetry(t)
    PROVE  BudgetInv'
<1> DEFINE k == Loaded(tick[t].elapsed, remainder)
<1>1. /\ tick[t] = Loaded(tick[t].elapsed, tick[t].old)
      /\ tick[t].elapsed \in Elapsed \ {0}
      /\ remainder \in 0 .. Day - 1
  BY TickFields DEF TickRetry, BudgetInv, BudgetTypeOK
<1>2. k \in Ticks /\ k.at # "adding" /\ tick[t].at # "adding"
  BY <1>1 DEF Ticks, Loaded, TickRetry
<1>3. tick' = [tick EXCEPT ![t] = k]
  <2>1. [tick[t] EXCEPT !.old = remainder] = k
    BY <1>1 DEF Loaded
  <2> QED
    BY <2>1 DEF TickRetry
<1>4. clock' \in Nat
  BY BudgetNumbers DEF TickRetry, history, BudgetInv
<1> HIDE DEF k
<1> QED
  BY <1>2, <1>3, <1>4, TickMoves DEF TickRetry, bucket, history

(***************************************************************************)
(* The credit of a tick, in whole bytes and a fraction of one: a tick of   *)
(* less than a day is worth less than the allowance plus one byte.         *)
(***************************************************************************)
LEMMA CreditSplit ==
    ASSUME BudgetInv, NEW t \in Tickers, tick[t].at = "loaded"
    PROVE  /\ Credit(t) \in Nat
           /\ Credit(t) \div Day \in 0 .. Allowance /\ Credit(t) % Day \in 0 .. Day - 1
           /\ Credit(t) = Day * (Credit(t) \div Day) + (Credit(t) % Day)
<1> DEFINE r == tick[t].elapsed % Day
           old == tick[t].old
           k == Credit(t) \div Day
<1>1. /\ Day \in Nat \ {0} /\ Allowance \in Nat /\ old \in 0 .. Day - 1
      /\ r \in 0 .. Day - 1
  BY TickFields, DivMod, BudgetAssumption DEF BudgetInv
<1>2. Credit(t) = r * Allowance + old
  BY DEF Credit
<1> HIDE DEF r, old
<1>3. Credit(t) \in Nat
  BY <1>1, <1>2
<1>4. k \in Nat /\ Credit(t) % Day \in 0 .. Day - 1 /\ Credit(t) = Day * k + (Credit(t) % Day)
  BY <1>1, <1>3, DivMod
<1> HIDE DEF k
<1>5. k <= Allowance
  <2>1. r * Allowance <= (Day - 1) * Allowance
    <3>1. (Day - 1 - r) * Allowance >= 0
      BY <1>1
    <3>2. (Day - 1 - r) * Allowance = (Day - 1) * Allowance - r * Allowance
      BY <1>1
    <3> QED
      BY <1>1, <3>1, <3>2
  <2>2. (Day - 1) * Allowance = Day * Allowance - Allowance
    BY <1>1
  <2>3. Credit(t) < Day * Allowance + Day
    BY <1>1, <1>2, <2>1, <2>2
  <2>4. CASE k > Allowance
    <3>1. PICK j \in Nat : k = Allowance + 1 + j
      BY <1>1, <1>4, <2>4, k - Allowance - 1 \in Nat
    <3>2. Day * k = Day * Allowance + Day + Day * j /\ Day * j >= 0
      BY <1>1, <3>1
    <3>3. Day * Allowance \in Nat /\ Day * j \in Nat /\ Credit(t) % Day \in Nat
      BY <1>1, <1>4
    <3> QED
      BY <1>1, <1>3, <1>4, <2>3, <3>2, <3>3
  <2> QED
    BY <1>1, <1>4, <2>4
<1> QED
  BY <1>1, <1>3, <1>4, <1>5 DEF k
(***************************************************************************)
(* FractionalCredit carries over a tick: the fraction and the whole bytes  *)
(* of all the time credited are those of the sum.                          *)
(***************************************************************************)
LEMMA CreditAdds ==
    ASSUME BudgetInv, NEW t \in Tickers, TickCas(t)
    PROVE  FractionalCredit'
<1> DEFINE e == tick[t].elapsed
           q == e \div Day
           c == Credit(t)
           m == c \div Day
           b == (credited * Allowance) \div Day
           n == (credited + e) * Allowance
<1>1. /\ Day \in Nat \ {0} /\ Allowance \in Nat /\ e \in Nat \ {0} /\ credited \in Nat
      /\ tick[t].at = "loaded" /\ remainder = tick[t].old /\ issued \in Nat
      /\ remainder \in Nat
  BY TickFields, BudgetNumbers DEF BudgetInv, TickCas, CreditCurrent
<1>2. q \in Nat /\ e % Day \in Nat /\ e = Day * q + (e % Day)
  <2> HIDE DEF e
  <2>1. e \div Day \in Nat /\ e % Day \in 0 .. Day - 1 /\ e = Day * (e \div Day) + (e % Day)
    BY <1>1, DivMod
  <2> QED
    BY <1>1, <2>1
<1>3. /\ c \in Nat /\ m \in Nat /\ c % Day \in 0 .. Day - 1
      /\ c = Day * m + (c % Day) /\ c = (e % Day) * Allowance + remainder
  BY <1>1, CreditSplit DEF Credit
<1>4. credited * Allowance \in Nat
  BY <1>1
<1>5. /\ b \in Nat /\ remainder = (credited * Allowance) % Day
      /\ credited * Allowance = Day * b + remainder
  BY <1>1, <1>4, DivMod DEF BudgetInv, FractionalCredit
<1> HIDE DEF q, b, e
<1>6. n = Day * (q * Allowance + b + m) + (c % Day)
  <2> DEFINE r == e % Day
  <2>1. r \in Nat /\ e = Day * q + r /\ c = r * Allowance + remainder
    BY <1>2, <1>3
  <2> HIDE DEF r
  <2>2. n = credited * Allowance + e * Allowance
    BY <1>1
  <2>3. e * Allowance = Day * (q * Allowance) + r * Allowance
    BY <1>1, <1>2, <2>1
  <2>4. Day * (q * Allowance + b + m) = Day * (q * Allowance) + Day * b + Day * m
    <3>1. ASSUME NEW i \in Nat, NEW j \in Nat, NEW k \in Nat
          PROVE  Day * (i + j + k) = Day * i + Day * j + Day * k
      BY <1>1
    <3>2. q * Allowance \in Nat
      BY <1>1, <1>2
    <3> HIDE DEF m
    <3> QED
      BY <1>3, <1>5, <3>1, <3>2
  <2> DEFINE x == Day * (q * Allowance)
             y == r * Allowance
             z == Day * b
             w == Day * m
             f == c % Day
  <2>5. /\ x \in Nat /\ y \in Nat /\ z \in Nat /\ w \in Nat /\ f \in Nat
        /\ credited * Allowance = z + remainder /\ e * Allowance = x + y
        /\ c = y + remainder /\ c = w + f
    BY <1>1, <1>2, <1>3, <1>5, <2>1, <2>3
  <2>6. n = (z + remainder) + (x + y)
    BY <2>2, <2>5
  <2> HIDE DEF x, y, z, w, f, n, c
  <2>7. n = x + z + w + f
    BY <1>1, <2>5, <2>6
  <2> QED
    BY <2>4, <2>7 DEF x, z, w, f
<1>7. q * Allowance + b + m \in Nat /\ n \in Nat
  BY <1>1, <1>2, <1>3, <1>5
<1>8. n \div Day = q * Allowance + b + m /\ n % Day = c % Day
  <2> DEFINE whole == q * Allowance + b + m
             part == c % Day
  <2>1. whole \in Nat /\ part \in 0 .. Day - 1 /\ n \in Nat /\ n = Day * whole + part
    BY <1>3, <1>6, <1>7
  <2> HIDE DEF whole, part, n
  <2>2. n \div Day = whole /\ n % Day = part
    BY <1>1, <2>1, DivModUnique
  <2> QED
    BY <2>2 DEF whole, part
<1>9. /\ remainder' = c % Day /\ credited' = credited + e
      /\ issued' = issued + RefillBytes(t) /\ clipped' = (clipped \/ FullDay(t))
  BY DEF TickCas, e
<1>10. issued <= b /\ (clipped \/ issued = b)
  BY DEF BudgetInv, FractionalCredit, b
<1> HIDE DEF n, c, m
<1>11. CASE FullDay(t)
  <2>1. RefillBytes(t) = Allowance /\ e >= Day
    BY <1>11 DEF RefillBytes, FullDay, e
  <2>2. q >= 1
    <3>1. CASE q = 0
      <4>1. Day * q = 0
        BY <1>1, <3>1
      <4>2. e % Day < Day
        BY <1>1
      <4> QED
        BY <1>1, <1>2, <2>1, <4>1, <4>2
    <3> QED
      BY <1>2, <3>1
  <2>3. q * Allowance >= Allowance
    <3>1. (q - 1) * Allowance >= 0 /\ (q - 1) * Allowance = q * Allowance - Allowance
      BY <1>1, <1>2, <2>2
    <3>2. q * Allowance \in Nat
      BY <1>1, <1>2
    <3> QED
      BY <1>1, <3>1, <3>2
  <2>4. issued' <= q * Allowance + b + m
    <3>1. q * Allowance \in Nat
      BY <1>1, <1>2
    <3> QED
      BY <1>1, <1>3, <1>5, <1>9, <1>10, <2>1, <2>3, <3>1
  <2>5. clipped'
    BY <1>9, <1>11
  <2> QED
    BY <1>8, <1>9, <2>4, <2>5 DEF FractionalCredit, n
<1>12. CASE ~FullDay(t)
  <2>1. RefillBytes(t) = m /\ e < Day
    BY <1>1, <1>12 DEF RefillBytes, FullDay, e, m, c
  <2>2. q = 0
    <3>1. e = Day * 0 + e /\ e \in 0 .. Day - 1
      BY <1>1, <2>1
    <3> QED
      BY <1>1, <3>1, DivModUnique DEF q
  <2>3. q * Allowance = 0
    BY <1>1, <2>2
  <2>4. issued' <= q * Allowance + b + m /\ (clipped \/ issued' = q * Allowance + b + m)
    <3>1. q * Allowance + b + m = b + m
      BY <1>3, <1>5, <2>3
    <3>2. issued' = issued + m
      BY <1>9, <2>1
    <3>3. issued' <= b + m
      BY <1>1, <1>3, <1>5, <1>10, <3>2
    <3>4. clipped \/ issued' = b + m
      BY <1>10, <3>2
    <3> QED
      BY <3>1, <3>3, <3>4
  <2>5. clipped' = clipped
    BY <1>9, <1>12 DEF BudgetInv, BudgetTypeOK
  <2> QED
    BY <1>8, <1>9, <2>4, <2>5 DEF FractionalCredit, n
<1> QED
  BY <1>11, <1>12
\* Ticker t goes on to k, and owes n from then on.
TickGoesTo(t, k, n) == /\ k \in Ticks
                       /\ tick' = [tick EXCEPT ![t] = k]
                       /\ n = IF k.at = "adding" THEN k.added ELSE 0

\* The sum over the tickers under way, with n in place of what t owed.
OwedAfter(sum, t, n) ==
    /\ IsFiniteSet(AddingTickers')
    /\ \E new : /\ IsSum(new, Owed')
                /\ new[AddingTickers'] = sum[AddingTickers \ {t}] + n
    /\ sum[AddingTickers] = sum[AddingTickers \ {t}] + Owed[t]
    /\ sum[AddingTickers \ {t}] \in Nat /\ n \in Nat /\ Owed[t] \in Nat

(***************************************************************************)
(* The bytes a ticker takes under way, or delivers, are accounted for.     *)
(***************************************************************************)
LEMMA OwedChanges ==
    ASSUME BudgetInv, NEW sum, IsSum(sum, Owed),
           NEW t \in Tickers, NEW k, NEW n, TickGoesTo(t, k, n)
    PROVE  OwedAfter(sum, t, n)
<1> DEFINE new == [S \in SUBSET Tickers |-> IF t \in S THEN sum[S \ {t}] + n ELSE sum[S]]
<1>1. /\ tick \in [Tickers -> Ticks] /\ k \in Ticks
      /\ tick' = [tick EXCEPT ![t] = k]
      /\ n = IF k.at = "adding" THEN k.added ELSE 0
  BY DEF BudgetInv, BudgetTypeOK, TickGoesTo
<1>2. n \in Nat
  <2>1. CASE k = Idle
    BY <1>1, <2>1 DEF Idle
  <2>2. CASE \E j \in 1 .. Allowance : k = Adding(j)
    BY <1>1, <2>2, BudgetAssumption DEF Adding
  <2>3. CASE \E e \in Elapsed \ {0}, old \in 0 .. Day - 1 : k = Loaded(e, old)
    BY <1>1, <2>3 DEF Loaded
  <2> QED
    BY <1>1, <2>1, <2>2, <2>3 DEF Ticks
<1>3. Owed \in [Tickers -> Nat] /\ sum \in [SUBSET Tickers -> Nat]
  BY DEF IsSum
<1>4. tick'[t] = k /\ \A u \in Tickers \ {t} : tick'[u] = tick[u]
  BY <1>1
<1>5. Owed'[t] = n /\ \A u \in Tickers \ {t} : Owed'[u] = Owed[u]
  BY <1>1, <1>4 DEF Owed
<1>6. Owed' \in [Tickers -> Nat]
  <2>1. \A u \in Tickers : Owed'[u] \in Nat
    BY <1>2, <1>3, <1>5
  <2> QED
    BY <2>1 DEF Owed
<1>7. IsSum(new, Owed')
  <2> DEFINE f == Owed
             g == Owed'
  <2>1. g[t] = n /\ (\A u \in Tickers \ {t} : g[u] = f[u]) /\ g \in [Tickers -> Nat]
    BY <1>5, <1>6
  <2>2. IsSum(sum, f)
    OBVIOUS
  <2>3. SumAfter(sum, f, t, n, new, g)
    BY <1>2, <1>3, <2>1 DEF SumAfter
  <2> HIDE DEF f, g, new
  <2>4. IsSum(new, g)
    BY <2>2, <2>3, SumUpdate
  <2> QED
    BY <2>4 DEF g
<1>8. AddingTickers' = IF k.at = "adding" THEN AddingTickers \cup {t}
                       ELSE AddingTickers \ {t}
  BY <1>4 DEF AddingTickers
<1>9. IsFiniteSet(AddingTickers')
  BY <1>8, FS_AddElement, FS_RemoveElement DEF BudgetInv, Accounted
<1>10. AddingTickers \subseteq Tickers /\ AddingTickers' \subseteq Tickers
  BY DEF AddingTickers
<1>11. new[AddingTickers'] = sum[AddingTickers \ {t}] + n
  <2>1. CASE k.at = "adding"
    <3>1. t \in AddingTickers' /\ AddingTickers' \ {t} = AddingTickers \ {t}
      BY <1>8, <2>1
    <3> QED
      BY <1>10, <3>1
  <2>2. CASE k.at # "adding"
    <3>1. t \notin AddingTickers' /\ AddingTickers' = AddingTickers \ {t} /\ n = 0
      BY <1>1, <1>8, <2>2
    <3>2. sum[AddingTickers \ {t}] \in Nat
      BY <1>3, <1>10
    <3> QED
      BY <1>10, <3>1, <3>2
  <2> QED
    BY <2>1, <2>2
<1>12. sum[AddingTickers] = sum[AddingTickers \ {t}] + Owed[t]
  <2>1. CASE t \in AddingTickers
    BY <1>10, <2>1 DEF IsSum
  <2>2. CASE t \notin AddingTickers
    <3>1. AddingTickers \ {t} = AddingTickers /\ Owed[t] = 0
      BY <2>2 DEF AddingTickers, Owed
    <3> QED
      <4>1. sum[AddingTickers] \in Nat
        BY <1>3, <1>10
      <4> QED
        BY <3>1, <4>1
  <2> QED
    BY <2>1, <2>2
<1>13. sum[AddingTickers \ {t}] \in Nat /\ Owed[t] \in Nat
  BY <1>3, <1>10
<1> HIDE DEF new
<1> QED
  BY <1>2, <1>7, <1>9, <1>11, <1>12, <1>13 DEF OwedAfter

(***************************************************************************)
(* The compare-exchange that wins takes its bytes under way.               *)
(***************************************************************************)
LEMMA CasKeeps ==
    ASSUME BudgetInv, NEW t \in Tickers, TickCas(t)
    PROVE  BudgetInv'
<1> DEFINE b == RefillBytes(t)
           k == IF b = 0 THEN Idle ELSE Adding(b)
<1>1. /\ tick[t].at = "loaded" /\ tick' = [tick EXCEPT ![t] = k]
      /\ remainder' = Credit(t) % Day
      /\ credited' = credited + tick[t].elapsed /\ issued' = issued + b
      /\ clipped' = (clipped \/ FullDay(t))
      /\ UNCHANGED <<available, writing, clock, spilled, consumed, written>>
  BY DEF TickCas
<1>2. b \in 0 .. Allowance /\ b \in Nat /\ Allowance \in Nat
  BY <1>1, CreditSplit, BudgetAssumption DEF RefillBytes
<1> HIDE DEF b
<1>3. k \in Ticks /\ (IF k.at = "adding" THEN k.added ELSE 0) = b
  <2>1. CASE b = 0
    BY <2>1 DEF Ticks, Idle
  <2>2. CASE b # 0
    <3>1. b \in 1 .. Allowance
      BY <1>2, <2>2
    <3> QED
      BY <2>2, <3>1 DEF Ticks, Adding
  <2> QED
    BY <2>1, <2>2
<1> HIDE DEF k
<1>4. BudgetTypeOK'
  <2>1. remainder' \in 0 .. Day - 1 /\ credited' \in Nat /\ issued' \in Nat
    BY <1>1, <1>2, CreditSplit, TickFields, BudgetNumbers DEF BudgetInv
  <2>2. tick' \in [Tickers -> Ticks]
    BY <1>1, <1>3 DEF BudgetInv, BudgetTypeOK
  <2>3. clipped' \in BOOLEAN
    BY <1>1
  <2> QED
    BY <1>1, <2>1, <2>2, <2>3 DEF BudgetInv, BudgetTypeOK
<1>5. FractionalCredit'
  BY CreditAdds
<1>6. PaidFor'
  BY <1>1 DEF BudgetInv, PaidFor
<1>7. Accounted'
  <2>1. PICK sum : IsSum(sum, Owed) /\ available + consumed + spilled + sum[AddingTickers]
                                         = Allowance + issued
    BY DEF BudgetInv, Accounted
  <2> DEFINE rest == sum[AddingTickers \ {t}]
  <2>2. OwedAfter(sum, t, b)
    BY <1>1, <1>3, <2>1, OwedChanges DEF TickGoesTo
  <2>3. PICK new : IsSum(new, Owed') /\ new[AddingTickers'] = rest + b
    BY <2>2 DEF OwedAfter
  <2>4. /\ IsFiniteSet(AddingTickers') /\ rest \in Nat
        /\ sum[AddingTickers] = rest + Owed[t]
    BY <2>2 DEF OwedAfter
  <2>5. Owed[t] = 0
    BY <1>1 DEF Owed
  <2> HIDE DEF rest
  <2>6. available' + consumed' + spilled' + new[AddingTickers'] = Allowance + issued'
    BY <1>1, <1>2, <2>1, <2>3, <2>4, <2>5, BudgetNumbers DEF BudgetInv
  <2> QED
    BY <2>3, <2>4, <2>6 DEF Accounted
<1> QED
  BY <1>4, <1>5, <1>6, <1>7 DEF BudgetInv

(***************************************************************************)
(* The bytes under way reach the bucket or are thrown away by the cap.     *)
(***************************************************************************)
LEMMA AddKeeps ==
    ASSUME BudgetInv, NEW t \in Tickers, TickAdd(t)
    PROVE  BudgetInv'
<1> DEFINE b == tick[t].added
<1>1. /\ tick[t].at = "adding" /\ tick' = [tick EXCEPT ![t] = Idle]
      /\ available' = Min({available + b, Allowance})
      /\ spilled' = spilled + available + b - available'
      /\ UNCHANGED <<remainder, writing, clock, credited, issued, consumed, written, clipped>>
  BY DEF TickAdd
<1>2. b \in Nat /\ b = Owed[t]
  BY <1>1, TickFields DEF BudgetInv, Owed
<1> HIDE DEF b
<1>3. available' \in 0 .. Allowance /\ available' <= available + b
  <2>1. available + b \in Nat /\ Allowance \in Nat /\ available \in Nat /\ available <= Allowance
    BY <1>2, BudgetNumbers DEF BudgetInv
  <2>2. \E x \in {available + b, Allowance} : \A y \in {available + b, Allowance} : x <= y
    BY <2>1
  <2>3. /\ available' \in {available + b, Allowance}
        /\ \A y \in {available + b, Allowance} : available' <= y
    BY <1>1, <2>2 DEF Min
  <2> QED
    BY <1>2, <2>1, <2>3
<1>4. spilled' \in Nat
  BY <1>1, <1>2, <1>3, BudgetNumbers DEF BudgetInv
<1>5. Idle \in Ticks /\ Idle.at # "adding"
  BY DEF Ticks, Idle
<1>6. BudgetTypeOK'
  BY <1>1, <1>3, <1>4, <1>5 DEF BudgetInv, BudgetTypeOK
<1>7. FractionalCredit' /\ PaidFor'
  BY <1>1 DEF BudgetInv, FractionalCredit, PaidFor
<1>8. Accounted'
  <2>1. PICK sum : IsSum(sum, Owed) /\ available + consumed + spilled + sum[AddingTickers]
                                         = Allowance + issued
    BY DEF BudgetInv, Accounted
  <2> DEFINE rest == sum[AddingTickers \ {t}]
  <2>2. OwedAfter(sum, t, 0)
    BY <1>1, <1>5, <2>1, OwedChanges DEF TickGoesTo
  <2>3. PICK new : IsSum(new, Owed') /\ new[AddingTickers'] = rest + 0
    BY <2>2 DEF OwedAfter
  <2>4. /\ IsFiniteSet(AddingTickers') /\ rest \in Nat
        /\ sum[AddingTickers] = rest + Owed[t]
    BY <2>2 DEF OwedAfter
  <2> HIDE DEF rest
  <2>5. available' + consumed' + spilled' + new[AddingTickers'] = Allowance + issued'
    BY <1>1, <1>2, <1>3, <2>1, <2>3, <2>4, BudgetNumbers DEF BudgetInv
  <2> QED
    BY <2>3, <2>4, <2>5 DEF Accounted
<1> QED
  BY <1>6, <1>7, <1>8 DEF BudgetInv

(***************************************************************************)
(* Every step of the budget keeps the invariant.                           *)
(***************************************************************************)
LEMMA NextBudgetInv == BudgetInv /\ [BudgetNext]_budgetVars => BudgetInv'
<1> SUFFICES ASSUME BudgetInv, [BudgetNext]_budgetVars PROVE BudgetInv'
  OBVIOUS
<1>1. CASE UNCHANGED budgetVars
  <2>1. AddingTickers' = AddingTickers /\ Owed' = Owed
    BY <1>1 DEF budgetVars, AddingTickers, Owed
  <2> QED
    BY <1>1, <2>1 DEF budgetVars, BudgetInv, BudgetTypeOK, FractionalCredit, PaidFor, Accounted
<1>2. ASSUME NEW e \in Evictors, Denied(e) PROVE BudgetInv'
  BY <1>1, <1>2 DEF Denied
<1> QED
  BY <1>1, <1>2, ConsumeKeeps, WriteEndsKeeps, LoadKeeps, RetryKeeps, CasKeeps, AddKeeps
  DEF BudgetNext, ConsumeStep, RefillStep

(***************************************************************************)
(* The invariant bounds what is written by what was ever in the bucket.    *)
(***************************************************************************)
LEMMA BudgetImplies == BudgetInv => EnduranceBound /\ TokensConserved
<1> SUFFICES ASSUME BudgetInv PROVE EnduranceBound /\ TokensConserved
  OBVIOUS
<1>1. PICK sum : IsSum(sum, Owed) /\ available + consumed + spilled + sum[AddingTickers]
                                       = Allowance + issued
  BY DEF BudgetInv, Accounted
<1>2. sum[AddingTickers] \in Nat /\ Pending = sum[AddingTickers]
  BY <1>1, PendingIsSum DEF BudgetInv, Accounted, IsSum, AddingTickers
<1>3. TokensConserved
  BY <1>1, <1>2 DEF TokensConserved
<1>4. consumed <= Allowance + issued
  BY <1>1, <1>2, BudgetNumbers DEF BudgetInv
<1>5. written <= consumed
  <2>1. Cardinality(writing) \in Nat
    BY FS_CardinalityType DEF BudgetInv, PaidFor
  <2>2. PageSize * Cardinality(writing) \in Nat
    BY <2>1, BudgetAssumption
  <2> QED
    BY <2>2, BudgetNumbers DEF BudgetInv, PaidFor
<1> DEFINE b == (credited * Allowance) \div Day
           r == (credited * Allowance) % Day
<1>6. /\ credited * Allowance \in Nat
      /\ b \in Nat /\ r \in Nat /\ credited * Allowance = Day * b + r
  <2>1. credited * Allowance \in Nat
    BY BudgetNumbers DEF BudgetInv
  <2> QED
    <3>1. ASSUME NEW n \in Nat
          PROVE  n \div Day \in Nat /\ n % Day \in Nat /\ n = Day * (n \div Day) + (n % Day)
      BY DivMod, BudgetAssumption
    <3> QED
      BY <2>1, <3>1
<1>7. issued <= b
  BY DEF BudgetInv, FractionalCredit
<1> HIDE DEF b, r
<1>8. written <= Allowance + b
  BY <1>4, <1>5, <1>6, <1>7, BudgetNumbers DEF BudgetInv
<1>9. written * Day <= (Allowance + b) * Day
  <2>1. PICK k \in Nat : Allowance + b = written + k
    BY <1>6, <1>8, BudgetNumbers, Allowance + b - written \in Nat DEF BudgetInv
  <2>2. (written + k) * Day = written * Day + k * Day /\ k * Day \in Nat /\ written * Day \in Nat
    BY <2>1, BudgetNumbers DEF BudgetInv
  <2> QED
    BY <2>1, <2>2
<1>10. (Allowance + b) * Day = Allowance * Day + Day * b
  BY <1>6, BudgetAssumption
<1>11. EnduranceBound
  <2>1. /\ written * Day \in Nat /\ Allowance * Day \in Nat /\ Day * b \in Nat
    BY <1>6, BudgetNumbers DEF BudgetInv
  <2> QED
    BY <1>6, <1>9, <1>10, <2>1 DEF EnduranceBound
<1> QED
  BY <1>3, <1>11
-----------------------------------------------------------------------------
(***************************************************************************)
(* In every reachable state of the budget the invariant holds.             *)
(***************************************************************************)
THEOREM BudgetInductive == BudgetSpec => []BudgetInv
  BY InitBudgetInv, NextBudgetInv, PTL DEF BudgetSpec

(***************************************************************************)
(* The tier that evictions pay for behaves as a file tier, and its budget  *)
(* as a write budget: what is shown of either part holds of the whole.     *)
(***************************************************************************)
THEOREM TierComposes == TierSpec => Spec /\ BudgetSpec
<1>1. TierInit => Init /\ BudgetInit
  BY DEF TierInit
<1>2. [TierNext]_<<vars, budgetVars>> => [Next]_vars /\ [BudgetNext]_budgetVars
  <2> SUFFICES ASSUME [TierNext]_<<vars, budgetVars>>
               PROVE  [Next]_vars /\ [BudgetNext]_budgetVars
    OBVIOUS
  <2>1. CASE UNCHANGED <<vars, budgetVars>>
    BY <2>1
  <2>2. ASSUME NEW e \in Evictors, Written(e) \/ WriteErrs(e) \/ WriteRefused(e)
        PROVE  Next /\ BudgetNext
    BY <2>2 DEF Written, WriteErrs, WriteRefused, Next, BudgetNext
  <2>3. CASE (ConsumeStep \/ RefillStep) /\ UNCHANGED vars
    BY <2>3 DEF BudgetNext
  <2>4. CASE AccessStep /\ UNCHANGED budgetVars
    BY <2>4 DEF Next
  <2> QED
    BY <2>1, <2>2, <2>3, <2>4 DEF TierNext
<1> QED
  BY <1>1, <1>2, PTL DEF TierSpec, Spec, BudgetSpec

(***************************************************************************)
(* The slot state and the bucket stay well typed: the bucket never holds   *)
(* more than a day's allowance.                                            *)
(***************************************************************************)
THEOREM TypeCorrect == TierSpec => []TierTypeOK
<1>1. BudgetInv /\ TypeOK => TierTypeOK
  BY DEF BudgetInv, TierTypeOK
<1> QED
  BY <1>1, BudgetInductive, TierTypeCorrect, TierComposes, PTL

(***************************************************************************)
(* However evictions race ticks and each other, the bytes written stay     *)
(* within one full bucket plus the allowance of the time credited.         *)
(***************************************************************************)
THEOREM DeviceEndures == TierSpec => []EnduranceBound
  BY BudgetInductive, BudgetImplies, TierComposes, PTL

(***************************************************************************)
(* The fraction kept, and the whole bytes issued, are those of all the     *)
(* time credited, however it was cut into ticks and whichever ticker won.  *)
(***************************************************************************)
THEOREM NoCreditLost == TierSpec => []FractionalCredit
<1>1. BudgetInv => FractionalCredit
  BY DEF BudgetInv
<1> QED
  BY <1>1, BudgetInductive, TierComposes, PTL

(***************************************************************************)
(* Every byte issued is in the bucket, consumed, on its way or thrown away *)
(* by the cap.                                                             *)
(***************************************************************************)
THEOREM TokensAccounted == TierSpec => []TokensConserved
  BY BudgetInductive, BudgetImplies, TierComposes, PTL

(***************************************************************************)
(* With evictors paying and writing, the slots stay partitioned.           *)
(***************************************************************************)
THEOREM PaidSlotsPartitioned == TierSpec => []SlotPartition
  BY SlotsPartitioned, TierComposes, PTL

(***************************************************************************)
(* With evictors paying and writing, the tier keeps the backend contract.  *)
(***************************************************************************)
THEOREM PaidTierRefinement == TierSpec => BackendContract
  BY TierRefinement, TierComposes, PTL

=============================================================================
