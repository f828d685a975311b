---------------------------- MODULE PoolProperties ----------------------------
(***************************************************************************)
(* What the pool's specification is checked against: who may own a frame,  *)
(* a pin, a reservation or a slot at any moment, and that the pool as a    *)
(* whole behaves as the abstract PageStore.                                *)
(***************************************************************************)
EXTENDS BufferPool

\* Places where a thread owns the frame th[t].frame, in the order of a
\* checkout: unreserved, reserved, and published with the first pin.
Unreserved == {"claim", "pf_claim", "undo_push"}
Reserved == {"pid", "fill", "install", "publish", "undo_release", "pf_gate", "pf_send"}
Published == {"marker", "swizzle"}
\* A prefetch task keeps its reserved frame while it enters the flight.
TaskPlaces == {"fault", "follow", "answered", "lead", "land"}

\* Places of evict_ticket where t has reserved th[t].ticket.frame, and where
\* the frame has left its page.
EvictReserved == {"ev_latch", "ev_recheck", "ev_write", "ev_abort", "ev_unreserve",
                  "ev_publish", "ev_unswizzle", "ev_marker", "ev_unlatch",
                  "ev_clear", "ev_release"}
EvictDetached == {"ev_marker", "ev_unlatch", "ev_clear", "ev_release", "ev_push"}

Fixing == {"latch", "check", "guard", "guard_cooling", "captured", "retry", "register"}
GuardPlaces == {"guard", "guard_cooling", "captured"}

HoldsTaskFrame(t, f) ==
    th[t].op = "prefetch" /\ th[t].pc \in TaskPlaces /\ th[t].frame = f
TasksWith(f) == {i \in 1 .. Len(channel) : channel[i].frame = f}

Reservers(f) ==
    {t \in Threads :
        \/ th[t].pc \in Reserved /\ th[t].frame = f
        \/ HoldsTaskFrame(t, f)
        \/ th[t].pc \in EvictReserved /\ th[t].ticket.frame = f}

Pinners(f) ==
    {t \in Threads :
        th[t].pc \in Fixing \cup Published \cup {"unpin"} /\ th[t].frame = f}

Owners(f) ==
    {t \in Threads :
        \/ th[t].pc \in Unreserved \cup Reserved \cup Published /\ th[t].frame = f
        \/ HoldsTaskFrame(t, f)
        \/ th[t].pc \in EvictDetached /\ th[t].ticket.frame = f}

Occupants(f) == {p \in Pages : ResidentAt(p, f)}

Places ==
    {"idle", "exited", "acquire", "round", "sample", "mark", "enqueue", "take", "freed",
     "ev_check", "ev_claim", "ev_push", "ev_free", "unpin", "load", "pin", "unpinned",
     "snapshot", "validate", "pf_pop", "unreserve", "sd_gate", "flush", "sd_done", "sd_failed"}
        \cup Unreserved \cup Reserved \cup Published \cup TaskPlaces \cup EvictReserved
        \cup Fixing

Locals ==
    [pc : Places, op : Operations \cup {None}, page : Pages \cup {None},
     frame : Frames \cup {None}, faulted : BOOLEAN, src : Slots \cup {None},
     snap : Values \cup {None},
     ticket : CoolingTicket \cup {None}, old : Slots \cup {None},
     new : Slots \cup {None}, cand : SUBSET Frames, want : Nat, left : Nat,
     rounds : 0 .. MaxRounds, result : {"ok", "error", "stale", None}]

(***************************************************************************)
(* Type correctness of the pool's state.                                   *)
(***************************************************************************)
TypeOK ==
    /\ swip \in [Pages -> SwipStates]
    /\ pages \in SUBSET Pages
    /\ next_pid \in 0 .. (MaxPid + 1)
    /\ frames \in [Frames -> FrameType]
    /\ free \in Seq(Frames)
    /\ cooling \in Seq(CoolingTicket)
    /\ directory \in [Pages -> Slots \cup {None}]
    /\ slots \in [Slots -> Values \cup {None}]
    /\ leader \in [Pages -> Threads \cup {None}]
    /\ prefetched \in [Pages -> PrefetchMarker \cup {None}]
    /\ pending \in SUBSET Pages
    /\ channel \in Seq(PrefetchTask)
    /\ stopping \in BOOLEAN
    /\ th \in [Threads -> Locals]

(***************************************************************************)
(* A guard handed to a caller names the frame that holds exactly its page, *)
(* pinned, and keeps doing so whatever the cooler, evictors and other      *)
(* faults do meanwhile.                                                    *)
(***************************************************************************)
GuardExact ==
    \A t \in Threads :
        th[t].pc \in GuardPlaces =>
            /\ ResidentIsExact(th[t].page, th[t].frame)
            /\ frames[th[t].frame].pin > 0
            /\ IF SharedFix(t) THEN t \in frames[th[t].frame].readers
               ELSE frames[th[t].frame].writer = t

(***************************************************************************)
(* Every frame is, at every moment, in exactly one place: in the free      *)
(* queue, owned by one thread or queued prefetch task, or resident for one *)
(* page.  No frame is handed out twice and none leaks.                     *)
(***************************************************************************)
FrameConservation ==
    \A f \in Frames :
        Cardinality({i \in 1 .. Len(free) : free[i] = f})
            + Cardinality(Owners(f)) + Cardinality(TasksWith(f))
            + Cardinality(Occupants(f)) = 1

(***************************************************************************)
(* pin_control is EVICTING exactly while one actor holds the reservation,  *)
(* and otherwise counts the pins that will be released: none of the        *)
(* assertions in unpin, release_eviction and publish_reserved_pin can fire.*)
(***************************************************************************)
PinAccounting ==
    \A f \in Frames :
        IF frames[f].pin = EVICTING
        THEN /\ Cardinality(Reservers(f)) + Cardinality(TasksWith(f)) = 1
             /\ Pinners(f) = {}
        ELSE /\ Reservers(f) = {} /\ TasksWith(f) = {}
             /\ frames[f].pin = Cardinality(Pinners(f))

(***************************************************************************)
(* The compare-exchanges that publish and withdraw a frame always succeed, *)
(* so their recovery branches (which would clear a frame others may have   *)
(* pinned) are dead code.                                                  *)
(***************************************************************************)
PublishCannotFail ==
    \A t \in Threads :
        /\ At(t, "swizzle") => swip[th[t].page] = Evicted
        /\ At(t, "ev_unswizzle") =>
              swip[th[t].ticket.pid] = Cooling(th[t].ticket.frame)

(***************************************************************************)
(* A snapshot that validates is the page as it is now: while the captured  *)
(* latch version is current, the page is still in the frame it was copied  *)
(* from and nobody has written it, although the snapshot holds neither pin *)
(* nor latch and the frame may have been emptied, refilled or given to     *)
(* another page and back (fix_optimistic and OptimisticGuard::read_with).  *)
(***************************************************************************)
OptimisticCurrent ==
    \A t \in Threads :
        th[t].pc \in {"captured", "unpinned", "snapshot", "validate"}
            /\ th[t].snap # None /\ t \in frames[th[t].frame].snaps =>
                /\ ResidentIsExact(th[t].page, th[t].frame)
                /\ frames[th[t].frame].data = th[t].snap

(***************************************************************************)
(* A fault leader looks the backing slot up long before it reads it, with  *)
(* evictions of its own in between; until the read the slot stays the      *)
(* page's current one, allocated and not rewritten.                        *)
(***************************************************************************)
FaultSourceLive ==
    \A t \in Threads :
        th[t].pc \notin {"land", "idle"} /\ th[t].src # None /\ leader[th[t].page] = t
            /\ swip[th[t].page] = Evicted =>
                /\ th[t].src = directory[th[t].page]
                /\ slots[th[t].src] # None

(***************************************************************************)
(* A tier slot is allocated exactly while it is some page's backing, or    *)
(* while the evictor that wrote it, or has still to free it, is at work:   *)
(* no slot leaks, and no page's backing is freed or shared.                *)
(***************************************************************************)
HoldsSlot(t, s) == th[t].new = s \/ (th[t].old = s /\ th[t].pc \in EvictReserved \cup {"ev_push", "ev_free"})

SlotAccounting ==
    /\ \A p \in Pages : directory[p] # None => slots[directory[p]] # None
    /\ \A p, q \in Pages : p # q /\ directory[p] # None => directory[p] # directory[q]
    /\ \A s \in Slots :
          slots[s] # None =>
              \/ \E p \in Pages : directory[p] = s
              \/ \E t \in Threads : HoldsSlot(t, s)

(***************************************************************************)
(* A prefetch marker never outlives the residency it describes: it names   *)
(* the frame and generation its page occupies, or its prefetch is about to *)
(* publish that frame, or the evictor that withdrew the page is about to   *)
(* remove it.  Frame reuse cannot turn it into a false prefetch hit.       *)
(***************************************************************************)
MarkerCurrent ==
    \A p \in Pages :
        prefetched[p] # None =>
            LET m == prefetched[p] IN
            \/ /\ ResidentAt(p, m.frame)
               /\ frames[m.frame].generation = m.generation
            \/ \E t \in Threads :
                  At(t, "swizzle") /\ th[t].page = p /\ th[t].frame = m.frame
            \/ \E t \in Threads : At(t, "ev_marker") /\ th[t].ticket.pid = p

(***************************************************************************)
(* The debug_assert of perform_prefetch_fault: an evicted page retains no  *)
(* prior prefetch marker when its next prefetch places one.                *)
(***************************************************************************)
NoPriorMarker ==
    \A t \in Threads : At(t, "marker") => prefetched[th[t].page] = None

(***************************************************************************)
(* Each accepted prefetch is in exactly one place, the submitter's hands,  *)
(* the channel or a worker's hands, and each of those holds exactly one    *)
(* in-flight slot: no reservation leaks and none is released twice.        *)
(***************************************************************************)
HandlesTask(t, p) ==
    th[t].op \in {"submit", "prefetch"} /\ th[t].page = p

PrefetchAccounting ==
    \A p \in Pages :
        Cardinality({t \in Threads : HandlesTask(t, p)})
            + Cardinality({i \in 1 .. Len(channel) : channel[i].pid = p})
            = IF p \in pending THEN 1 ELSE 0

(***************************************************************************)
(* A shutdown that returned Ok has left every page of the manager on a     *)
(* lower tier and every frame empty.                                       *)
(***************************************************************************)
ShutdownFlushed ==
    \A t \in Threads :
        At(t, "sd_done") =>
            /\ \A p \in pages : swip[p] = Evicted /\ directory[p] # None
            /\ \A f \in Frames : frames[f].pid = None

(***************************************************************************)
(* Shutdown drains accepted prefetch work: none is left queued once it has *)
(* returned.                                                               *)
(***************************************************************************)
ShutdownDrainsPrefetch ==
    \A t \in Threads : At(t, "sd_done") => channel = <<>>

(***************************************************************************)
(* The pool implements PageStore: wherever a page's bytes are, its value   *)
(* changes only by a write under its exclusive guard, and guards exclude   *)
(* each other per page.                                                    *)
(***************************************************************************)
valueBar ==
    [p \in Pages |->
        IF swip[p] # Evicted THEN frames[swip[p].frame].data
        ELSE IF directory[p] # None THEN slots[directory[p]] ELSE None]

Guards(p, ops) ==
    {t \in Threads : th[t].pc \in GuardPlaces /\ th[t].op \in ops /\ th[t].page = p}

sharedBar == [p \in Pages |-> Guards(p, {"shared", "optimistic"})]
ownerBar ==
    [p \in Pages |-> IF Guards(p, {"exclusive"}) = {} THEN None
                     ELSE CHOOSE t \in Threads : t \in Guards(p, {"exclusive"})]

Store == INSTANCE PageStore
            WITH PSThreads <- Threads, PSPages <- Pages, PSValues <- Values,
                 Zero <- 0, NoValue <- None, NoThread <- None,
                 value <- valueBar, shared <- sharedBar, owner <- ownerBar

ImplementsPageStore == Store!PSSpec

-----------------------------------------------------------------------------
(***************************************************************************)
(* Fairness.  A thread inside a call keeps running (the scheduler), and a  *)
(* compare-exchange or latch it waits for is eventually taken when it      *)
(* stays available.  Nothing obliges a caller to start an operation.       *)
(***************************************************************************)
CallStep(t) ==
    \/ AllocatePid(t) \/ RegisterPage(t) \/ FixStops(t) \/ LoadSwip(t)
    \/ PinFrame(t) \/ PinRefused(t) \/ LatchFrame(t) \/ FixSucceeds(t)
    \/ EnqueueDeclined(t) \/ FixRetries(t) \/ UnpinRetry(t) \/ DropLatch(t)
    \/ CaptureSnapshot(t) \/ (th[t].op = "optimistic" /\ DropGuard(t))
    \/ SnapshotValidates(t)
    \/ FaultStep(t) \/ EvictionStep(t)
    \/ CheckoutPops(t) \/ CheckoutClaims(t) \/ SubmitChecks(t) \/ SendTask(t)
    \/ ReceiveTask(t) \/ DropPrefetchReservation(t) \/ WorkerExits(t)
    \/ ShutdownJoins(t) \/ FlushFrame(t)

Fairness == \A t \in Threads : WF_poolVars(CallStep(t))

Running(operation) == {t \in Threads : operation \in Roles[t]}
Callers == UNION {Running(o) : o \in {"alloc", "shared", "exclusive"}}

\* flush_resident_pages ends a pass, and gives up once its deadline passed.
FlushGivesUp(t) == At(t, "flush") /\ FlushPassEnds(t) /\ th'[t].pc # "flush"
FlushFairness ==
    \A t \in Running("shutdown") :
        WF_poolVars(FlushPassEnds(t)) /\ SF_poolVars(FlushGivesUp(t))

FairSpec == Spec /\ Fairness /\ FlushFairness

(***************************************************************************)
(* A fault always lands, with success or an error, so a follower is always *)
(* answered.  It waits for no guard: guards may be held for ever.          *)
(***************************************************************************)
FollowersAnswered == \A t \in Threads : At(t, "follow") ~> ~At(t, "follow")

(***************************************************************************)
(* shutdown returns, with Ok or with an error.                             *)
(***************************************************************************)
ShutdownReturns ==
    \A t \in Running("shutdown") :
        At(t, "sd_gate") ~> th[t].pc \in {"sd_done", "sd_failed"}

(***************************************************************************)
(* When callers drop their guards sooner or later, shutdown returns,       *)
(* whatever faults, prefetches and evictions it meets, fail or stop.       *)
(***************************************************************************)
ShutdownReturnsOnceDropped ==
    (\A t \in Callers : []<>(th[t].pc \notin GuardPlaces)) => ShutdownReturns
=============================================================================
