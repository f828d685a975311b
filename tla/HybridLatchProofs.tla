--------------------------- MODULE HybridLatchProofs ---------------------------
(***************************************************************************)
(* Proofs about the versioned latch, for any finite set of threads, any    *)
(* capacity of the shared count and any width of the version.              *)
(***************************************************************************)
EXTENDS HybridLatch, FiniteSetTheorems, TLAPS

\* What a thread about to compare-exchange remembers of its load.
LoadedFits ==
    \A t \in Threads :
        /\ pc[t] = "cas_shared" => loaded[t].state < MAX_SHARED
        /\ pc[t] = "cas_exclusive" => loaded[t].state = 0
        /\ pc[t] = "cas_upgrade" => loaded[t].state = 1

\* The version is the snapshot's plus the sections since, modulo VersionMod;
\* a writer that entered without a section ended is still inside.
VersionTracks(t) ==
    since[t] < VersionMod =>
        \/ word.version = loaded[t].version + since[t]
        \/ word.version = loaded[t].version + since[t] - VersionMod

WriterInside(t) == since[t] = 0 /\ entered[t] => word.state = EXCLUSIVE_STATE

SnapshotTracks ==
    \A t \in Threads : pc[t] = "snapshot" => VersionTracks(t) /\ WriterInside(t)

\* Who holds the latch, and what the word says about it.
HoldersOK == MutualExclusion /\ StateCountsGuards

\* The inductive invariant.
IInv ==
    /\ TypeOK
    /\ HoldersOK
    /\ ReleaseOverwritesNothing
    /\ OptimisticSound
    /\ LoadedFits
    /\ SnapshotTracks

\* The steps that change neither the word nor who holds the latch.
Quiet(t) ==
    \/ CallShared(t) \/ LoadShared(t) \/ RetryShared(t)
    \/ CallExclusive(t) \/ LoadExclusive(t) \/ RetryExclusive(t)
    \/ LoadRelease(t) \/ LoadUpgrade(t) \/ FailUpgrade(t)
    \/ Snapshot(t) \/ Validate(t) \/ UseReads(t)

-----------------------------------------------------------------------------
(***************************************************************************)
(* next_version in linear arithmetic: it wraps from the last version to 0. *)
(***************************************************************************)
LEMMA NextVersion ==
    ASSUME NEW w \in Words
    PROVE  next_version(w) = IF w.version + 1 = VersionMod THEN 0 ELSE w.version + 1
<1>1. VersionMod \in Nat \ {0} /\ w.version \in 0 .. (VersionMod - 1)
  BY LatchAssumption DEF Words
<1> QED
  BY <1>1, SMTT(30) DEF next_version

(***************************************************************************)
(* The shared holders are a finite set.                                    *)
(***************************************************************************)
LEMMA HoldersFinite == IsFiniteSet(SharedHolders) /\ Cardinality(SharedHolders) \in Nat
<1>1. SharedHolders \subseteq Threads
  BY DEF SharedHolders
<1>2. IsFiniteSet(SharedHolders)
  BY <1>1, LatchAssumption, FS_Subset
<1> QED
  BY <1>2, FS_CardinalityType

-----------------------------------------------------------------------------
(***************************************************************************)
(* A new latch satisfies the inductive invariant.                          *)
(***************************************************************************)
LEMMA InitIInv == Init => IInv
<1> SUFFICES ASSUME Init PROVE IInv
  OBVIOUS
<1>1. TypeOK
  BY LatchAssumption DEF Init, TypeOK, Words, Unlocked, Places, EXCLUSIVE_STATE
<1>2. SharedHolders = {} /\ ExclusiveHolders = {}
  BY DEF Init, SharedHolders, ExclusiveHolders
<1>3. word.state = 0 /\ EXCLUSIVE_STATE # 0
  BY LatchAssumption DEF Init, Unlocked, EXCLUSIVE_STATE
<1>4. HoldersOK
  BY <1>2, <1>3, FS_EmptySet DEF HoldersOK, MutualExclusion, StateCountsGuards
<1>5. ReleaseOverwritesNothing /\ OptimisticSound /\ LoadedFits /\ SnapshotTracks
  BY DEF Init, ReleaseOverwritesNothing, OptimisticSound, LoadedFits, SnapshotTracks
<1> QED
  BY <1>1, <1>4, <1>5 DEF IInv

(***************************************************************************)
(* A quiet step leaves the word and the holders alone.                     *)
(***************************************************************************)
LEMMA QuietStep ==
    ASSUME TypeOK, NEW t \in Threads, Quiet(t)
    PROVE  /\ word' = word
           /\ SharedHolders' = SharedHolders
           /\ ExclusiveHolders' = ExclusiveHolders
           /\ \A u \in Threads \ {t} :
                /\ pc'[u] = pc[u] /\ loaded'[u] = loaded[u]
                /\ since'[u] = since[u] /\ entered'[u] = entered[u]
<1> USE DEF Goto, Load, history, SharedHolders, ExclusiveHolders, TypeOK
<1>1. CASE CallShared(t) \/ RetryShared(t) \/ CallExclusive(t) \/ RetryExclusive(t)
  BY <1>1 DEF CallShared, RetryShared, CallExclusive, RetryExclusive
<1>2. CASE LoadShared(t) \/ LoadExclusive(t)
  BY <1>2 DEF LoadShared, LoadExclusive
<1>3. CASE LoadRelease(t) \/ LoadUpgrade(t)
  BY <1>3 DEF LoadRelease, LoadUpgrade
<1>4. CASE FailUpgrade(t) \/ UseReads(t)
  BY <1>4 DEF FailUpgrade, UseReads
<1>5. CASE Snapshot(t)
  BY <1>5 DEF Snapshot
<1>6. CASE Validate(t)
  BY <1>6 DEF Validate
<1> QED
  BY <1>1, <1>2, <1>3, <1>4, <1>5, <1>6 DEF Quiet

(***************************************************************************)
(* Every step keeps the word's packed shape: in particular a release finds *)
(* a count to decrement, because it is the count of the live guards.       *)
(***************************************************************************)
LEMMA NextTypeOK == IInv /\ [Next]_vars => TypeOK'
<1> SUFFICES ASSUME IInv, [Next]_vars PROVE TypeOK'
  OBVIOUS
<1> USE DEF IInv, Goto, Load, history, Places, with_state
<1>1. CASE UNCHANGED vars
  BY <1>1 DEF vars, TypeOK
<1>2. ASSUME NEW t \in Threads, Quiet(t) PROVE TypeOK'
  <2> USE DEF TypeOK
  <2>1. CASE CallShared(t) \/ RetryShared(t) \/ CallExclusive(t) \/ RetryExclusive(t)
    BY <2>1 DEF CallShared, RetryShared, CallExclusive, RetryExclusive
  <2>2. CASE LoadShared(t) \/ LoadExclusive(t)
    BY <2>2 DEF LoadShared, LoadExclusive
  <2>3. CASE LoadRelease(t) \/ LoadUpgrade(t)
    BY <2>3 DEF LoadRelease, LoadUpgrade
  <2>4. CASE FailUpgrade(t) \/ UseReads(t)
    BY <2>4 DEF FailUpgrade, UseReads
  <2>5. CASE Snapshot(t)
    BY <2>5, LatchAssumption DEF Snapshot
  <2>6. CASE Validate(t)
    BY <2>6 DEF Validate
  <2> QED
    BY <1>2, <2>1, <2>2, <2>3, <2>4, <2>5, <2>6 DEF Quiet
<1>3. ASSUME NEW t \in Threads, CasShared(t) PROVE TypeOK'
  <2>1. word.state < MAX_SHARED
    BY <1>3 DEF CasShared, LoadedFits
  <2>2. word' \in Words
    BY <1>3, <2>1, LatchAssumption DEF CasShared, TypeOK, Words, EXCLUSIVE_STATE
  <2> QED
    BY <1>3, <2>2 DEF CasShared, TypeOK
<1>4. ASSUME NEW t \in Threads, ReleaseShared(t) PROVE TypeOK'
  <2>1. t \in SharedHolders
    BY <1>4 DEF ReleaseShared, SharedHolders
  <2>2. word.state = Cardinality(SharedHolders)
    BY <2>1 DEF HoldersOK, MutualExclusion, StateCountsGuards
  <2>3. Cardinality(SharedHolders) # 0
    BY <2>1, HoldersFinite, FS_EmptySet
  <2>4. word.state - 1 \in 0 .. EXCLUSIVE_STATE
    <3>1. word.state \in 0 .. EXCLUSIVE_STATE /\ EXCLUSIVE_STATE \in Nat
      BY LatchAssumption DEF TypeOK, Words, EXCLUSIVE_STATE
    <3> QED
      BY <2>2, <2>3, <3>1
  <2>5. word' \in Words
    BY <1>4, <2>4 DEF ReleaseShared, TypeOK, Words
  <2> QED
    BY <1>4, <2>5 DEF ReleaseShared, TypeOK
<1>5. ASSUME NEW t \in Threads, CasExclusive(t) \/ CasUpgrade(t) PROVE TypeOK'
  <2>1. word' \in Words
    <3>1. word' = [word EXCEPT !.state = EXCLUSIVE_STATE]
      BY <1>5 DEF CasExclusive, CasUpgrade
    <3>2. EXCLUSIVE_STATE \in 0 .. EXCLUSIVE_STATE
      BY LatchAssumption DEF EXCLUSIVE_STATE
    <3> QED
      BY <3>1, <3>2 DEF TypeOK, Words
  <2> QED
    BY <1>5, <2>1 DEF CasExclusive, CasUpgrade, WriterEnters, TypeOK
<1>6. ASSUME NEW t \in Threads, StoreRelease(t) PROVE TypeOK'
  <2>1. next_version(loaded[t]) \in 0 .. (VersionMod - 1)
    <3>1. loaded[t] \in Words
      BY DEF TypeOK
    <3>2. loaded[t].version \in 0 .. (VersionMod - 1)
      BY <3>1 DEF Words
    <3>3. next_version(loaded[t]) = IF loaded[t].version + 1 = VersionMod THEN 0
                                    ELSE loaded[t].version + 1
      BY <3>1, NextVersion
    <3> QED
      BY <3>2, <3>3, LatchAssumption
  <2>2. word' \in Words
    BY <1>6, <2>1, LatchAssumption DEF StoreRelease, Words, EXCLUSIVE_STATE
  <2>3. since' \in [Threads -> 0 .. VersionMod]
    BY <1>6, LatchAssumption DEF StoreRelease, SectionEnds, TypeOK
  <2> QED
    BY <1>6, <2>2, <2>3 DEF StoreRelease, SectionEnds, TypeOK
<1> QED
  BY <1>1, <1>2, <1>3, <1>4, <1>5, <1>6 DEF Next, Quiet

(***************************************************************************)
(* The word keeps counting the holders.  A compare-exchange that succeeds  *)
(* sees the word it loaded, and with it how many holders there are now.    *)
(***************************************************************************)
LEMMA NextHolders == IInv /\ [Next]_vars => HoldersOK'
<1> SUFFICES ASSUME IInv, [Next]_vars PROVE HoldersOK'
  OBVIOUS
<1> USE DEF IInv, Goto, with_state
<1>1. CASE UNCHANGED vars
  BY <1>1 DEF vars, HoldersOK, MutualExclusion, StateCountsGuards, SharedHolders,
              ExclusiveHolders
<1>2. ASSUME NEW t \in Threads, Quiet(t) PROVE HoldersOK'
  BY <1>2, QuietStep DEF HoldersOK, MutualExclusion, StateCountsGuards
<1>3. ASSUME NEW t \in Threads, CasShared(t) PROVE HoldersOK'
  <2>1. word.state < MAX_SHARED /\ word.state \in Nat /\ word.state # EXCLUSIVE_STATE
    BY <1>3, LatchAssumption DEF CasShared, LoadedFits, TypeOK, Words, EXCLUSIVE_STATE
  <2>2. word'.state = word.state + 1 /\ word'.state # EXCLUSIVE_STATE
    BY <1>3, <2>1, LatchAssumption DEF CasShared, TypeOK, Words, EXCLUSIVE_STATE
  <2>3. ExclusiveHolders = {} /\ ExclusiveHolders' = {}
    BY <1>3, <2>1 DEF CasShared, HoldersOK, StateCountsGuards, ExclusiveHolders, TypeOK
  <2>4. SharedHolders' = SharedHolders \cup {t} /\ t \notin SharedHolders
    BY <1>3 DEF CasShared, SharedHolders, TypeOK
  <2>5. Cardinality(SharedHolders') = Cardinality(SharedHolders) + 1
    BY <2>4, HoldersFinite, FS_AddElement
  <2>6. word.state = Cardinality(SharedHolders)
    BY <2>1 DEF HoldersOK, StateCountsGuards
  <2> QED
    BY <2>2, <2>3, <2>5, <2>6 DEF HoldersOK, MutualExclusion, StateCountsGuards
<1>4. ASSUME NEW t \in Threads, ReleaseShared(t) PROVE HoldersOK'
  <2>1. SharedHolders' = SharedHolders \ {t} /\ t \in SharedHolders
    BY <1>4 DEF ReleaseShared, SharedHolders, TypeOK
  <2>2. ExclusiveHolders = {}
    BY <2>1 DEF HoldersOK, MutualExclusion
  <2>3. word.state # EXCLUSIVE_STATE /\ word.state = Cardinality(SharedHolders)
    BY <2>2 DEF HoldersOK, StateCountsGuards
  <2>4. ExclusiveHolders' = {}
    BY <1>4, <2>2 DEF ReleaseShared, ExclusiveHolders, TypeOK
  <2>5. Cardinality(SharedHolders') = Cardinality(SharedHolders) - 1
    BY <2>1, HoldersFinite, FS_RemoveElement
  <2>6. word.state \in 0 .. EXCLUSIVE_STATE /\ EXCLUSIVE_STATE \in Nat
    BY LatchAssumption DEF TypeOK, Words, EXCLUSIVE_STATE
  <2>7. word'.state = word.state - 1
    BY <1>4 DEF ReleaseShared, TypeOK, Words
  <2> QED
    BY <2>3, <2>4, <2>5, <2>6, <2>7 DEF HoldersOK, MutualExclusion, StateCountsGuards
<1>5. ASSUME NEW t \in Threads, CasExclusive(t) PROVE HoldersOK'
  <2>1. word.state = 0 /\ EXCLUSIVE_STATE # 0
    BY <1>5, LatchAssumption DEF CasExclusive, LoadedFits, EXCLUSIVE_STATE
  <2>2. ExclusiveHolders = {}
    BY <2>1 DEF HoldersOK, StateCountsGuards
  <2>3. SharedHolders = {}
    BY <2>1, HoldersFinite, FS_EmptySet DEF HoldersOK, StateCountsGuards
  <2>4. SharedHolders' = {} /\ ExclusiveHolders' = {t}
    BY <1>5, <2>2, <2>3 DEF CasExclusive, SharedHolders, ExclusiveHolders, TypeOK
  <2>5. word'.state = EXCLUSIVE_STATE
    BY <1>5 DEF CasExclusive, TypeOK, Words
  <2> QED
    BY <2>4, <2>5 DEF HoldersOK, MutualExclusion, StateCountsGuards
<1>6. ASSUME NEW t \in Threads, CasUpgrade(t) PROVE HoldersOK'
  <2>1. t \in SharedHolders
    BY <1>6 DEF CasUpgrade, SharedHolders
  <2>2. ExclusiveHolders = {}
    BY <2>1 DEF HoldersOK, MutualExclusion
  <2>3. Cardinality(SharedHolders) = 1
    BY <1>6, <2>2 DEF CasUpgrade, LoadedFits, HoldersOK, StateCountsGuards
  <2>4. SharedHolders' = SharedHolders \ {t} /\ ExclusiveHolders' = {t}
    BY <1>6, <2>2 DEF CasUpgrade, SharedHolders, ExclusiveHolders, TypeOK
  <2>5. /\ IsFiniteSet(SharedHolders')
        /\ Cardinality(SharedHolders') = Cardinality(SharedHolders) - 1
    BY <2>1, <2>4, HoldersFinite, FS_RemoveElement
  <2>6. SharedHolders' = {}
    BY <2>3, <2>5, FS_EmptySet
  <2>7. word'.state = EXCLUSIVE_STATE
    BY <1>6 DEF CasUpgrade, TypeOK, Words
  <2> QED
    BY <2>4, <2>6, <2>7 DEF HoldersOK, MutualExclusion, StateCountsGuards
<1>7. ASSUME NEW t \in Threads, StoreRelease(t) PROVE HoldersOK'
  <2>1. t \in ExclusiveHolders
    BY <1>7 DEF StoreRelease, ExclusiveHolders
  <2>2. ExclusiveHolders = {t} /\ SharedHolders = {}
    BY <2>1 DEF HoldersOK, MutualExclusion
  <2>3. ExclusiveHolders' = {} /\ SharedHolders' = {}
    BY <1>7, <2>2 DEF StoreRelease, ExclusiveHolders, SharedHolders, TypeOK
  <2>4. word'.state = 0 /\ EXCLUSIVE_STATE # 0
    BY <1>7, LatchAssumption DEF StoreRelease, EXCLUSIVE_STATE
  <2> QED
    BY <2>3, <2>4, FS_EmptySet DEF HoldersOK, MutualExclusion, StateCountsGuards
<1> QED
  BY <1>1, <1>2, <1>3, <1>4, <1>5, <1>6, <1>7 DEF Next, Quiet

(***************************************************************************)
(* While a thread is between the load and the store of release_exclusive,  *)
(* the word stays what it loaded: a shared release or a compare-exchange   *)
(* of another thread would need the word to say there is no writer.        *)
(***************************************************************************)
LEMMA NextRelease == IInv /\ [Next]_vars => ReleaseOverwritesNothing'
<1> SUFFICES ASSUME IInv, [Next]_vars,
                    NEW u \in Threads, pc'[u] = "releasing"
             PROVE  word' = loaded'[u]
  BY DEF ReleaseOverwritesNothing
<1> USE DEF IInv, Goto, Load, history
<1>1. CASE UNCHANGED vars
  BY <1>1 DEF vars, ReleaseOverwritesNothing
<1>2. ASSUME NEW t \in Threads, Quiet(t) PROVE word' = loaded'[u]
  <2>1. CASE u # t
    BY <1>2, <2>1, QuietStep DEF ReleaseOverwritesNothing
  <2>2. CASE u = t
    <3>1. LoadRelease(t)
      BY <1>2, <2>2 DEF Quiet, CallShared, LoadShared, RetryShared, CallExclusive,
           LoadExclusive, RetryExclusive, LoadUpgrade, FailUpgrade, Snapshot,
           Validate, UseReads, TypeOK
    <3> QED
      BY <2>2, <3>1 DEF LoadRelease, TypeOK
  <2> QED
    BY <2>1, <2>2
<1>3. ASSUME NEW t \in Threads,
             CasShared(t) \/ ReleaseShared(t) \/ CasExclusive(t) \/ CasUpgrade(t)
                \/ StoreRelease(t)
      PROVE  word' = loaded'[u]
  <2>1. pc[u] = "releasing" /\ u # t
    BY <1>3 DEF CasShared, ReleaseShared, CasExclusive, CasUpgrade, StoreRelease, TypeOK
  <2>2. u \in ExclusiveHolders
    BY <2>1 DEF ExclusiveHolders
  <2>3. /\ word.state = EXCLUSIVE_STATE
        /\ SharedHolders = {}
        /\ t \notin ExclusiveHolders
    BY <2>1, <2>2 DEF HoldersOK, MutualExclusion, StateCountsGuards
  <2>4. EXCLUSIVE_STATE # 0 /\ EXCLUSIVE_STATE # 1 /\ ~(EXCLUSIVE_STATE < MAX_SHARED)
    BY LatchAssumption DEF EXCLUSIVE_STATE
  <2> QED
    BY <1>3, <2>3, <2>4 DEF CasShared, ReleaseShared, CasExclusive, CasUpgrade,
         StoreRelease, SharedHolders, ExclusiveHolders, LoadedFits
<1> QED
  BY <1>1, <1>2, <1>3 DEF Next, Quiet

(***************************************************************************)
(* What a thread remembers of its load is what let it go on.               *)
(***************************************************************************)
LEMMA NextLoaded == IInv /\ [Next]_vars => LoadedFits'
<1> SUFFICES ASSUME IInv, [Next]_vars PROVE LoadedFits'
  OBVIOUS
<1> USE DEF IInv, Goto, Load, history, LoadedFits, TypeOK
<1>1. CASE UNCHANGED vars
  BY <1>1 DEF vars
<1>2. ASSUME NEW t \in Threads, Quiet(t) PROVE LoadedFits'
  <2>1. CASE CallShared(t) \/ RetryShared(t) \/ CallExclusive(t) \/ RetryExclusive(t)
    BY <2>1 DEF CallShared, RetryShared, CallExclusive, RetryExclusive
  <2>2. CASE LoadShared(t) \/ LoadExclusive(t)
    BY <2>2 DEF LoadShared, LoadExclusive
  <2>3. CASE LoadRelease(t) \/ LoadUpgrade(t)
    BY <2>3 DEF LoadRelease, LoadUpgrade
  <2>4. CASE FailUpgrade(t) \/ UseReads(t)
    BY <2>4 DEF FailUpgrade, UseReads
  <2>5. CASE Snapshot(t)
    BY <2>5 DEF Snapshot
  <2>6. CASE Validate(t)
    BY <2>6 DEF Validate
  <2> QED
    BY <1>2, <2>1, <2>2, <2>3, <2>4, <2>5, <2>6 DEF Quiet
<1>3. ASSUME NEW t \in Threads, CasShared(t) \/ ReleaseShared(t) PROVE LoadedFits'
  BY <1>3 DEF CasShared, ReleaseShared
<1>4. ASSUME NEW t \in Threads, CasExclusive(t) \/ CasUpgrade(t) \/ StoreRelease(t)
      PROVE  LoadedFits'
  BY <1>4 DEF CasExclusive, CasUpgrade, StoreRelease
<1> QED
  BY <1>1, <1>2, <1>3, <1>4 DEF Next, Quiet

(***************************************************************************)
(* The version an optimistic reader compares with has moved by exactly the *)
(* exclusive sections that ended since its snapshot.                       *)
(***************************************************************************)
LEMMA NextSnapshot == IInv /\ [Next]_vars => SnapshotTracks'
<1> SUFFICES ASSUME IInv, [Next]_vars,
                    NEW u \in Threads, pc'[u] = "snapshot"
             PROVE  VersionTracks(u)' /\ WriterInside(u)'
  BY DEF SnapshotTracks
<1> USE DEF IInv, Goto, Load, history, VersionTracks, WriterInside
<1>1. CASE UNCHANGED vars
  BY <1>1 DEF vars, SnapshotTracks
<1>2. ASSUME NEW t \in Threads, Quiet(t) PROVE VersionTracks(u)' /\ WriterInside(u)'
  <2>1. CASE u # t
    BY <1>2, <2>1, QuietStep DEF SnapshotTracks
  <2>2. CASE u = t
    <3>1. Snapshot(t)
      BY <1>2, <2>2 DEF Quiet, CallShared, LoadShared, RetryShared, CallExclusive,
           LoadExclusive, RetryExclusive, LoadRelease, LoadUpgrade, FailUpgrade,
           Validate, UseReads, TypeOK
    <3>2. since'[t] = 0 /\ entered'[t] = FALSE /\ loaded'[t] = word /\ word' = word
      BY <3>1 DEF Snapshot, TypeOK
    <3>3. word.version \in Int
      BY DEF TypeOK, Words
    <3> QED
      BY <2>2, <3>2, <3>3
  <2> QED
    BY <2>1, <2>2
<1>3. ASSUME NEW t \in Threads, CasShared(t) \/ ReleaseShared(t)
      PROVE  VersionTracks(u)' /\ WriterInside(u)'
  <2>1. /\ pc[u] = "snapshot"
        /\ loaded' = loaded /\ since' = since /\ entered' = entered
    BY <1>3 DEF CasShared, ReleaseShared, TypeOK
  <2>2. word'.version = word.version
    BY <1>3 DEF CasShared, ReleaseShared, with_state, TypeOK, Words
  <2>3. word.state # EXCLUSIVE_STATE
    <3>1. CASE CasShared(t)
      BY <3>1, LatchAssumption DEF CasShared, LoadedFits, EXCLUSIVE_STATE
    <3>2. CASE ReleaseShared(t)
      BY <3>2 DEF ReleaseShared, SharedHolders, HoldersOK, MutualExclusion,
                  StateCountsGuards
    <3> QED
      BY <1>3, <3>1, <3>2
  <2> QED
    BY <2>1, <2>2, <2>3 DEF SnapshotTracks
<1>4. ASSUME NEW t \in Threads, CasExclusive(t) \/ CasUpgrade(t)
      PROVE  VersionTracks(u)' /\ WriterInside(u)'
  <2>1. pc[u] = "snapshot" /\ loaded' = loaded /\ since' = since
    BY <1>4 DEF CasExclusive, CasUpgrade, WriterEnters, TypeOK
  <2>2. word'.version = word.version /\ word'.state = EXCLUSIVE_STATE
    BY <1>4 DEF CasExclusive, CasUpgrade, with_state, TypeOK, Words
  <2> QED
    BY <2>1, <2>2 DEF SnapshotTracks
<1>5. ASSUME NEW t \in Threads, StoreRelease(t)
      PROVE  VersionTracks(u)' /\ WriterInside(u)'
  <2>1. pc[u] = "snapshot" /\ loaded'[u] = loaded[u]
    BY <1>5 DEF StoreRelease, TypeOK
  <2>2. since'[u] = IF since[u] < VersionMod THEN since[u] + 1 ELSE since[u]
    BY <1>5, <2>1 DEF StoreRelease, SectionEnds, Reading
  <2>3. /\ since[u] \in 0 .. VersionMod
        /\ word.version \in 0 .. (VersionMod - 1)
        /\ loaded[u].version \in 0 .. (VersionMod - 1)
        /\ VersionMod \in Nat \ {0}
    BY LatchAssumption DEF TypeOK, Words
  <2>4. word = loaded[t] /\ word \in Words
    BY <1>5 DEF StoreRelease, ReleaseOverwritesNothing, TypeOK
  <2>5. word'.version = IF word.version + 1 = VersionMod THEN 0 ELSE word.version + 1
    BY <1>5, <2>4, NextVersion DEF StoreRelease
  <2>6. VersionTracks(u)
    BY <2>1 DEF SnapshotTracks
  <2>7. VersionTracks(u)'
    BY <2>1, <2>2, <2>3, <2>5, <2>6
  <2>8. WriterInside(u)'
    BY <2>2, <2>3
  <2> QED
    BY <2>7, <2>8
<1> QED
  BY <1>1, <1>2, <1>3, <1>4, <1>5 DEF Next, Quiet

(***************************************************************************)
(* A validation that succeeds found the snapshot's version and no writer:  *)
(* short of a full turn of the version, no section ended and none is open. *)
(***************************************************************************)
LEMMA NextSound == IInv /\ [Next]_vars => OptimisticSound'
<1> SUFFICES ASSUME IInv, [Next]_vars,
                    NEW u \in Threads, pc'[u] = "valid", since'[u] < VersionMod
             PROVE  ~entered'[u]
  BY DEF OptimisticSound
<1> USE DEF IInv, Goto, Load, history
<1>1. CASE UNCHANGED vars
  BY <1>1 DEF vars, OptimisticSound
<1>2. ASSUME NEW t \in Threads, Quiet(t) PROVE ~entered'[u]
  <2>1. CASE u # t
    BY <1>2, <2>1, QuietStep DEF OptimisticSound
  <2>2. CASE u = t
    <3>1. Validate(t)
      BY <1>2, <2>2 DEF Quiet, CallShared, LoadShared, RetryShared, CallExclusive,
           LoadExclusive, RetryExclusive, LoadRelease, LoadUpgrade, FailUpgrade,
           Snapshot, UseReads, TypeOK
    <3>2. /\ pc[t] = "snapshot" /\ Valid(t)
          /\ since' = since /\ entered' = entered
      BY <2>2, <3>1 DEF Validate, TypeOK
    <3>3. VersionTracks(t) /\ WriterInside(t)
      BY <3>2 DEF SnapshotTracks
    <3>4. /\ since[t] \in Nat /\ VersionMod \in Nat /\ since[t] < VersionMod
          /\ loaded[t].version \in Int
      BY <2>2, <3>2, LatchAssumption DEF TypeOK, Words
    <3>5. since[t] = 0
      <4>1. \/ loaded[t].version = loaded[t].version + since[t]
            \/ loaded[t].version = loaded[t].version + since[t] - VersionMod
        BY <3>2, <3>3, <3>4 DEF VersionTracks, Valid
      <4> QED
        BY <3>4, <4>1
    <3> QED
      BY <2>2, <3>2, <3>3, <3>5 DEF WriterInside, Valid
  <2> QED
    BY <2>1, <2>2
<1>3. ASSUME NEW t \in Threads, CasShared(t) \/ ReleaseShared(t) PROVE ~entered'[u]
  BY <1>3 DEF CasShared, ReleaseShared, OptimisticSound, TypeOK
<1>4. ASSUME NEW t \in Threads, CasExclusive(t) \/ CasUpgrade(t) PROVE ~entered'[u]
  <2>1. pc[u] = "valid" /\ since' = since
    BY <1>4 DEF CasExclusive, CasUpgrade, WriterEnters, TypeOK
  <2>2. entered'[u] = (entered[u] \/ Reading(u))
    BY <1>4 DEF CasExclusive, CasUpgrade, WriterEnters
  <2> QED
    BY <2>1, <2>2 DEF OptimisticSound, Reading
<1>5. ASSUME NEW t \in Threads, StoreRelease(t) PROVE ~entered'[u]
  <2>1. pc[u] = "valid" /\ entered' = entered
    BY <1>5 DEF StoreRelease, SectionEnds, TypeOK
  <2>2. since'[u] = since[u]
    BY <1>5, <2>1 DEF StoreRelease, SectionEnds, Reading
  <2> QED
    BY <2>1, <2>2 DEF OptimisticSound
<1> QED
  BY <1>1, <1>2, <1>3, <1>4, <1>5 DEF Next, Quiet

(***************************************************************************)
(* The inductive invariant holds in every reachable state of the latch.    *)
(***************************************************************************)
THEOREM Inductive == Spec => []IInv
<1>1. IInv /\ [Next]_vars => IInv'
  BY NextTypeOK, NextHolders, NextRelease, NextSound, NextLoaded, NextSnapshot DEF IInv
<1> QED
  BY InitIInv, <1>1, PTL DEF Spec

(***************************************************************************)
(* The word keeps its packed shape.                                        *)
(***************************************************************************)
THEOREM TypeCorrect == Spec => []TypeOK
<1>1. IInv => TypeOK
  BY DEF IInv
<1> QED
  BY <1>1, Inductive, PTL

(***************************************************************************)
(* A writer excludes every other holder, also one that got the latch by    *)
(* try_upgrade.                                                            *)
(***************************************************************************)
THEOREM Exclusion == Spec => []MutualExclusion
<1>1. IInv => MutualExclusion
  BY DEF IInv, HoldersOK
<1> QED
  BY <1>1, Inductive, PTL

(***************************************************************************)
(* The lock state counts the live guards exactly, so the debug_asserts of  *)
(* both release functions hold.                                            *)
(***************************************************************************)
THEOREM GuardsCounted == Spec => []StateCountsGuards
<1>1. IInv => StateCountsGuards
  BY DEF IInv, HoldersOK
<1> QED
  BY <1>1, Inductive, PTL

(***************************************************************************)
(* The plain store of release_exclusive overwrites nobody's update.        *)
(***************************************************************************)
THEOREM ReleaseSafe == Spec => []ReleaseOverwritesNothing
<1>1. IInv => ReleaseOverwritesNothing
  BY DEF IInv
<1> QED
  BY <1>1, Inductive, PTL

(***************************************************************************)
(* A validated optimistic read overlapped no exclusive section, unless the *)
(* version made a full turn in between.                                    *)
(***************************************************************************)
THEOREM ValidatedReadsSound == Spec => []OptimisticSound
<1>1. IInv => OptimisticSound
  BY DEF IInv
<1> QED
  BY <1>1, Inductive, PTL
=============================================================================
