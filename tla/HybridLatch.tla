------------------------------ MODULE HybridLatch ------------------------------
(***************************************************************************)
(* The versioned latch of latch.rs.  One 64-bit atomic word packs a 48-bit *)
(* version and a 16-bit lock state; a thread loads the word and then tries *)
(* a compare-exchange against what it loaded, so any other thread's step   *)
(* may come between the two.  An optimistic reader only takes a version    *)
(* snapshot, reads, and validates the version.                             *)
(*                                                                         *)
(* The word is the record [version, state]: state(), version(),            *)
(* with_state() and pack() are its field accesses.  The widths are         *)
(* constants so that the wrap-around of the version and the saturation of  *)
(* the shared count both happen in small instances.                        *)
(***************************************************************************)
EXTENDS Integers, FiniteSets

CONSTANTS Threads,
          MAX_SHARED,   \* most shared holders the state can count (2^16 - 2)
          VersionMod    \* versions are 0 .. VersionMod-1 (2^48)

ASSUME LatchAssumption ==
    /\ IsFiniteSet(Threads)
    /\ MAX_SHARED \in Nat \ {0}
    /\ VersionMod \in Nat \ {0}

EXCLUSIVE_STATE == MAX_SHARED + 1
Words == [version : 0 .. (VersionMod - 1), state : 0 .. EXCLUSIVE_STATE]

VARIABLES
    word,     \* the atomic word
    pc,       \* what each thread is doing with the latch
    loaded,   \* loaded[t]: the word t last loaded
    since,    \* history: exclusive sections completed since t's snapshot,
              \* counted up to VersionMod
    entered   \* history: a writer got the latch after t's snapshot

vars == <<word, pc, loaded, since, entered>>

Places == {"idle", "want_shared", "cas_shared", "shared", "cas_upgrade",
           "want_exclusive", "cas_exclusive", "exclusive", "releasing",
           "snapshot", "valid"}

(***************************************************************************)
(* Type correctness: the word keeps its packed shape, so the shared count  *)
(* neither borrows from the version nor runs into the exclusive sentinel.  *)
(***************************************************************************)
TypeOK ==
    /\ word \in Words
    /\ pc \in [Threads -> Places]
    /\ loaded \in [Threads -> Words]
    /\ since \in [Threads -> 0 .. VersionMod]
    /\ entered \in [Threads -> BOOLEAN]

Unlocked == [version |-> 0, state |-> 0]

Init ==
    /\ word = Unlocked
    /\ pc = [t \in Threads |-> "idle"]
    /\ loaded = [t \in Threads |-> Unlocked]
    /\ since = [t \in Threads |-> 0]
    /\ entered = [t \in Threads |-> FALSE]

-----------------------------------------------------------------------------
with_state(w, s) == [w EXCEPT !.state = s]
next_version(w) == (w.version + 1) % VersionMod

Goto(t, from, to) == pc[t] = from /\ pc' = [pc EXCEPT ![t] = to]
Load(t) == loaded' = [loaded EXCEPT ![t] = word]

history == <<since, entered>>
Reading(u) == pc[u] = "snapshot"

\* What the optimistic readers do not see: a writer got in, a section ended.
WriterEnters ==
    /\ entered' = [u \in Threads |-> entered[u] \/ Reading(u)]
    /\ UNCHANGED since
SectionEnds ==
    /\ since' = [u \in Threads |->
                    IF Reading(u) /\ since[u] < VersionMod THEN since[u] + 1
                    ELSE since[u]]
    /\ UNCHANGED entered

-----------------------------------------------------------------------------
\* lock_shared / try_lock_shared_once
CallShared(t) ==
    /\ Goto(t, "idle", "want_shared")
    /\ UNCHANGED <<word, loaded, history>>

\* Mutant: one shared holder too many is let in.
LoadSharedPastMax(t) ==
    /\ Goto(t, "want_shared", "cas_shared")
    /\ word.state <= MAX_SHARED
    /\ Load(t)
    /\ UNCHANGED <<word, history>>

\* Mutant: a reader does not look for the exclusive sentinel.
LoadSharedAnyState(t) ==
    /\ Goto(t, "want_shared", "cas_shared")
    /\ Load(t)
    /\ UNCHANGED <<word, history>>

LoadShared(t) ==
    /\ Goto(t, "want_shared", "cas_shared")
    /\ word.state < MAX_SHARED
    /\ Load(t)
    /\ UNCHANGED <<word, history>>

CasShared(t) ==
    /\ word = loaded[t]
    /\ Goto(t, "cas_shared", "shared")
    /\ word' = with_state(word, word.state + 1)
    /\ UNCHANGED <<loaded, history>>

\* compare_exchange_weak may fail on a matching word too.
RetryShared(t) ==
    /\ Goto(t, "cas_shared", "want_shared")
    /\ UNCHANGED <<word, loaded, history>>

\* release_shared: fetch_sub(1)
ReleaseShared(t) ==
    /\ Goto(t, "shared", "idle")
    /\ word' = with_state(word, word.state - 1)
    /\ UNCHANGED <<loaded, history>>

\* lock_exclusive
CallExclusive(t) ==
    /\ Goto(t, "idle", "want_exclusive")
    /\ UNCHANGED <<word, loaded, history>>

LoadExclusive(t) ==
    /\ Goto(t, "want_exclusive", "cas_exclusive")
    /\ word.state = 0
    /\ Load(t)
    /\ UNCHANGED <<word, history>>

CasExclusive(t) ==
    /\ word = loaded[t]
    /\ Goto(t, "cas_exclusive", "exclusive")
    /\ word' = with_state(word, EXCLUSIVE_STATE)
    /\ WriterEnters
    /\ UNCHANGED loaded

RetryExclusive(t) ==
    /\ Goto(t, "cas_exclusive", "want_exclusive")
    /\ UNCHANGED <<word, loaded, history>>

\* release_exclusive is a load followed by a plain store.
LoadRelease(t) ==
    /\ Goto(t, "exclusive", "releasing")
    /\ Load(t)
    /\ UNCHANGED <<word, history>>

\* Mutant: releasing leaves the version alone.
StoreReleaseSameVersion(t) ==
    /\ Goto(t, "releasing", "idle")
    /\ word' = [version |-> loaded[t].version, state |-> 0]
    /\ SectionEnds
    /\ UNCHANGED loaded

StoreRelease(t) ==
    /\ Goto(t, "releasing", "idle")
    /\ word' = [version |-> next_version(loaded[t]), state |-> 0]
    /\ SectionEnds
    /\ UNCHANGED loaded

\* Mutant: an upgrade does not require a sole holder.
LoadUpgradeShared(t) ==
    /\ Goto(t, "shared", "cas_upgrade")
    /\ Load(t)
    /\ UNCHANGED <<word, history>>

\* try_upgrade: the load sees a sole holder; otherwise the guard comes back
\* unchanged, which is no step of the latch.
LoadUpgrade(t) ==
    /\ Goto(t, "shared", "cas_upgrade")
    /\ word.state = 1
    /\ Load(t)
    /\ UNCHANGED <<word, history>>

CasUpgrade(t) ==
    /\ word = loaded[t]
    /\ Goto(t, "cas_upgrade", "exclusive")
    /\ word' = with_state(word, EXCLUSIVE_STATE)
    /\ WriterEnters
    /\ UNCHANGED loaded

FailUpgrade(t) ==
    /\ word # loaded[t]
    /\ Goto(t, "cas_upgrade", "shared")
    /\ UNCHANGED <<word, loaded, history>>

\* optimistic: Contended while a writer holds the latch.
Snapshot(t) ==
    /\ Goto(t, "idle", "snapshot")
    /\ word.state # EXCLUSIVE_STATE
    /\ Load(t)
    /\ since' = [since EXCEPT ![t] = 0]
    /\ entered' = [entered EXCEPT ![t] = FALSE]
    /\ UNCHANGED word

\* validate: the reads made since Snapshot(t) are used, or thrown away.
Valid(t) == word.state # EXCLUSIVE_STATE /\ word.version = loaded[t].version

Validate(t) ==
    /\ Goto(t, "snapshot", IF Valid(t) THEN "valid" ELSE "idle")
    /\ UNCHANGED <<word, loaded, history>>

UseReads(t) ==
    /\ Goto(t, "valid", "idle")
    /\ UNCHANGED <<word, loaded, history>>

Next ==
    \E t \in Threads :
        \/ CallShared(t) \/ LoadShared(t) \/ CasShared(t) \/ RetryShared(t)
        \/ ReleaseShared(t)
        \/ CallExclusive(t) \/ LoadExclusive(t) \/ CasExclusive(t)
        \/ RetryExclusive(t) \/ LoadRelease(t) \/ StoreRelease(t)
        \/ LoadUpgrade(t) \/ CasUpgrade(t) \/ FailUpgrade(t)
        \/ Snapshot(t) \/ Validate(t) \/ UseReads(t)

Spec == Init /\ [][Next]_vars

-----------------------------------------------------------------------------
SharedHolders == {t \in Threads : pc[t] \in {"shared", "cas_upgrade"}}
ExclusiveHolders == {t \in Threads : pc[t] \in {"exclusive", "releasing"}}

(***************************************************************************)
(* A writer excludes every other holder: at most one exclusive guard       *)
(* exists and no shared guard lives beside it, also when the exclusive     *)
(* guard came from try_upgrade.                                            *)
(***************************************************************************)
MutualExclusion ==
    /\ \A t, u \in ExclusiveHolders : t = u
    /\ ExclusiveHolders # {} => SharedHolders = {}

(***************************************************************************)
(* The lock state counts the live guards exactly: the debug_asserts of     *)
(* both release functions hold, and no guard's release is lost.            *)
(***************************************************************************)
StateCountsGuards ==
    /\ word.state = EXCLUSIVE_STATE <=> ExclusiveHolders # {}
    /\ word.state # EXCLUSIVE_STATE => word.state = Cardinality(SharedHolders)

(***************************************************************************)
(* release_exclusive is not atomic, yet its plain store never overwrites   *)
(* an update that another thread made after the load.                      *)
(***************************************************************************)
ReleaseOverwritesNothing ==
    \A t \in Threads : pc[t] = "releasing" => word = loaded[t]

(***************************************************************************)
(* A validated optimistic read overlapped no exclusive section, except     *)
(* after a full turn of the version counter (the 2^48 the docs name).      *)
(***************************************************************************)
OptimisticSound ==
    \A t \in Threads :
        pc[t] = "valid" /\ since[t] < VersionMod => ~entered[t]
=============================================================================
