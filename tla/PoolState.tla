------------------------------- MODULE PoolState -------------------------------
(***************************************************************************)
(* The shared state of a BufferManager (pool.rs, frame.rs, swip.rs,        *)
(* cooling.rs) and the atomic operations every protocol of the pool is     *)
(* made of: tagged-pointer transitions, pins and eviction reservations,    *)
(* the frame latch, the free queue and the cooling queue.                  *)
(*                                                                         *)
(* Data is abstracted: a page's 64 KiB are one value of Values, a backing  *)
(* Location (tier and offset) is one of Slots, a resident address is the   *)
(* frame itself.  HybridLatch models the latch word; here it is the set of *)
(* its holders.  A frame's owner_swip is always the Swip of the page in    *)
(* its pid (they are written together under the exclusive latch), so pid   *)
(* stands for both.                                                        *)
(***************************************************************************)
EXTENDS Integers, Sequences, FiniteSets

CONSTANTS
    Threads,
    Roles,           \* Roles[t]: what t does: callers' operations or a worker
    FrameCount,      \* number of DRAM frames
    MaxPid,          \* PageId::MAX: pages are 0 .. MaxPid
    Slots,           \* every page slot of every lower tier
    Values,          \* page contents; 0 is the zero-filled page
    GenerationMod,   \* the frame generation wraps here (2^32)
    CoolingTarget,   \* cooling_target
    LowWatermark,    \* low_watermark
    MaxRounds,       \* ceil(frames / MAX_COOLING_SAMPLE) + 2 tries
    MaxInFlight,     \* MAX_PREFETCH_IN_FLIGHT
    MayDecline,      \* the policy may decline DRAM admission
    MayFail,         \* tier I/O may fail, write budgets may deny
    None             \* Option::None, PageId::INVALID, "no thread"

Pages == 0 .. MaxPid
Frames == 0 .. (FrameCount - 1)
Operations == {"alloc", "shared", "exclusive", "optimistic", "submit", "cool",
               "prefetch", "shutdown"}
EVICTING == -1

ASSUME PoolAssumption ==
    /\ Roles \in [Threads -> SUBSET Operations]
    /\ FrameCount \in Nat \ {0}
    /\ MaxPid \in Nat
    /\ 0 \in Values
    /\ GenerationMod \in Nat \ {0}
    /\ CoolingTarget \in Nat /\ LowWatermark \in Nat \ {0}
    /\ MaxRounds \in Nat \ {0} /\ MaxInFlight \in Nat
    /\ MayDecline \in BOOLEAN /\ MayFail \in BOOLEAN
    /\ None \notin Frames \cup Threads \cup Slots \cup Pages \cup Values
    /\ None \notin Operations

VARIABLES
    swip,        \* swip[p]: the tagged word shared by every handle of p
    pages,       \* the canonical pages of the manager's map
    next_pid,    \* the allocator of page identifiers
    frames,      \* frame metadata and bytes
    free,        \* the free queue (its membership bits: being in it)
    cooling,     \* the cooling FIFO
    directory,   \* directory[p]: p's backing slot
    slots,       \* slots[s]: what tier slot s holds, None when free
    leader,      \* leader[p]: the thread leading p's fault (see SingleFlight)
    prefetched,  \* prefetched[p]: the marker of a prefetched page
    pending,     \* pages with an accepted prefetch (and prefetch_in_flight)
    channel,     \* accepted prefetch tasks not yet received
    stopping,    \* the shutdown flag
    th           \* th[t]: program counter and locals of thread t

poolVars == <<swip, pages, next_pid, frames, free, cooling, directory, slots,
              leader, prefetched, pending, channel, stopping, th>>
pageVars == <<swip, pages, next_pid>>
queues == <<free, cooling>>
tiers == <<directory, slots>>
prefetchVars == <<prefetched, pending, channel>>

-----------------------------------------------------------------------------
\* SwipState.
Evicted == [tag |-> "evicted", frame |-> None]
Hot(f) == [tag |-> "hot", frame |-> f]
Cooling(f) == [tag |-> "cooling", frame |-> f]
SwipStates ==
    {Evicted} \cup [tag : {"hot", "cooling"}, frame : Frames]

Generations == 0 .. (GenerationMod - 1)

\* Frame: pin is pin_control (EVICTING or a pin count); writer and readers
\* are the holders of its latch; data is its page of the AlignedPool.
\* snaps are the threads that captured the latch version it still has.
FrameType ==
    [pid : Pages \cup {None}, generation : Generations, dirty : BOOLEAN,
     pin : Int, writer : Threads \cup {None}, readers : SUBSET Threads,
     data : Values, snaps : SUBSET Threads]

EmptyFrame ==
    [pid |-> None, generation |-> 0, dirty |-> FALSE, pin |-> 0,
     writer |-> None, readers |-> {}, data |-> 0, snaps |-> {}]

CoolingTicket == [frame : Frames, pid : Pages, generation : Generations]
PrefetchMarker == [frame : Frames, generation : Generations]
PrefetchTask == [pid : Pages, frame : Frames]

\* Locals of the call a thread is in.
Idle ==
    [pc |-> "idle", op |-> None, page |-> None, frame |-> None,
     faulted |-> FALSE,                  \* fix: this fix has faulted
     src |-> None,                       \* fault: location looked up
     snap |-> None,                      \* fix_optimistic: the page copied
     ticket |-> None, old |-> None, new |-> None,   \* evict_ticket
     cand |-> {}, want |-> 0,            \* sampling: candidates, desired
     left |-> 0, rounds |-> 0,           \* acquire_frame: loop counters
     result |-> None]                    \* outcome of a fault

-----------------------------------------------------------------------------
\* Moves of one thread.
At(t, place) == th[t].pc = place
Goto(t, place) == th' = [th EXCEPT ![t].pc = place]
Leave(t) == th' = [th EXCEPT ![t] = Idle]

\* Frame::try_pin, unpin, try_claim_eviction, release_eviction.
CanPin(f) == frames[f].pin # EVICTING
Pin(f) == frames' = [frames EXCEPT ![f].pin = @ + 1]
Unpin(f) == frames' = [frames EXCEPT ![f].pin = @ - 1]
CanClaim(f) == frames[f].pin = 0
Claim(f) == frames' = [frames EXCEPT ![f].pin = EVICTING]
Release(f) == frames' = [frames EXCEPT ![f].pin = 0]

\* The frame latch.
CanLockShared(f) == frames[f].writer = None
CanLockExclusive(f) == frames[f].writer = None /\ frames[f].readers = {}
LockShared(t, f) == frames' = [frames EXCEPT ![f].readers = @ \cup {t}]
\* Mutant: a writer does not change the version.
LockKeepingVersion(t, f) == frames' = [frames EXCEPT ![f].writer = t]
\* A new version: no snapshot taken before it will validate.
LockExclusive(t, f) == frames' = [frames EXCEPT ![f].writer = t, ![f].snaps = {}]
Unlock(t, f) ==
    frames' = [frames EXCEPT ![f].readers = @ \ {t},
                             ![f].writer = IF @ = t THEN None ELSE @]

\* Mutant: the popped frame stays in the queue.
PeekFree == free # <<>> /\ free' = free

\* FrameTable::pop_free and push_free.
PopFree == free # <<>> /\ free' = Tail(free)
PushFree(f) == free' = Append(free, f)
InFree(f) == \E i \in 1 .. Len(free) : free[i] = f

\* CoolingQueue::push_unique.
Queued(ticket) == \E i \in 1 .. Len(cooling) : cooling[i] = ticket
PushUnique(ticket) ==
    cooling' = IF Queued(ticket) THEN cooling ELSE Append(cooling, ticket)

\* Compare-exchange transitions of a Swip.  try_resurrect is only ever used
\* with its result ignored.
SetSwip(p, state) == swip' = [swip EXCEPT ![p] = state]
TryResurrect(p, f) ==
    swip' = [swip EXCEPT ![p] = IF @ = Cooling(f) THEN Hot(f) ELSE @]
ResidentAt(p, f) == swip[p] \in {Hot(f), Cooling(f)}

\* resident_is_exact.
ResidentIsExact(p, f) == ResidentAt(p, f) /\ frames[f].pid = p

\* consume_prefetched: removes whatever marker p has.
ConsumePrefetched(p) == prefetched' = [prefetched EXCEPT ![p] = None]

-----------------------------------------------------------------------------
PoolInit ==
    /\ swip = [p \in Pages |-> Evicted]
    /\ pages = {}
    /\ next_pid = 0
    /\ frames = [f \in Frames |-> EmptyFrame]
    /\ free = [i \in 1 .. FrameCount |-> i - 1]
    /\ cooling = <<>>
    /\ directory = [p \in Pages |-> None]
    /\ slots = [s \in Slots |-> None]
    /\ leader = [p \in Pages |-> None]
    /\ prefetched = [p \in Pages |-> None]
    /\ pending = {}
    /\ channel = <<>>
    /\ stopping = FALSE
    /\ th = [t \in Threads |-> Idle]
=============================================================================
