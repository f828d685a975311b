-------------------------------- MODULE FaultIn --------------------------------
(***************************************************************************)
(* How pages enter DRAM (pool.rs): acquire_frame, and the fault of one     *)
(* page led by one thread while the others follow it.  The flight itself   *)
(* is the abstract one of SingleFlight, which FaultCoordinator is shown to *)
(* implement: leader[p] leads, and landing answers every follower.         *)
(***************************************************************************)
EXTENDS Eviction

Max(a, b) == IF a >= b THEN a ELSE b

-----------------------------------------------------------------------------
(* acquire_frame                                                           *)

\* The caller of acquire_frame gets an error: allocate returns it, a fault
\* leader lands with it.
FailAcquire(t) ==
    th' = IF th[t].op = "alloc" THEN [th EXCEPT ![t] = Idle]
          ELSE [th EXCEPT ![t].pc = "land", ![t].result = "error",
                          ![t].left = 0, ![t].rounds = 0]

\* ensure_running and the two pop_free at the head of acquire_frame and of
\* each of its rounds.
AcquireStops(t) ==
    /\ th[t].pc \in {"acquire", "round"}
    /\ stopping
    /\ FailAcquire(t)
    /\ UNCHANGED <<pageVars, frames, queues, tiers, leader, prefetchVars, stopping>>

AcquirePops(t) ==
    /\ \/ th[t].pc \in {"acquire", "round"} /\ ~stopping
       \/ At(t, "freed")
    /\ PopFree
    /\ th' = [th EXCEPT ![t].pc = "claim", ![t].frame = Head(free),
                        ![t].left = 0, ![t].rounds = 0]
    /\ UNCHANGED <<pageVars, frames, cooling, tiers, leader, prefetchVars, stopping>>

\* No free frame: start the rounds, ...
AcquireStarts(t) ==
    /\ At(t, "acquire")
    /\ ~stopping
    /\ free = <<>>
    /\ th' = [th EXCEPT ![t].pc = "round", ![t].rounds = MaxRounds]
    /\ UNCHANGED <<pageVars, frames, queues, tiers, leader, prefetchVars, stopping>>

\* ... sample (force_one), ...
AcquireSamples(t) ==
    /\ At(t, "round")
    /\ ~stopping
    /\ free = <<>>
    /\ th' = [th EXCEPT ![t].pc = "sample", ![t].cand = ColdCandidates,
                        ![t].want = Max(Len(cooling) + 1, CoolingTarget)]
    /\ UNCHANGED <<pageVars, frames, queues, tiers, leader, prefetchVars, stopping>>

\* ... and evict.  A frame this thread freed may have been taken by another.
AcquireMisses(t) ==
    /\ At(t, "freed")
    /\ free = <<>>
    /\ Goto(t, "take")
    /\ UNCHANGED <<pageVars, frames, queues, tiers, leader, prefetchVars, stopping>>

\* The cooler stops taking tickets at the low watermark.
Satisfied(t) == th[t].op = "cool" /\ Len(free) >= LowWatermark

TakeTicket(t) ==
    /\ At(t, "take")
    /\ th[t].left > 0
    /\ cooling # <<>>
    /\ ~Satisfied(t)
    /\ cooling' = Tail(cooling)
    /\ th' = [th EXCEPT ![t].pc = "ev_check", ![t].left = @ - 1,
                        ![t].ticket = Head(cooling)]
    /\ UNCHANGED <<pageVars, frames, free, tiers, leader, prefetchVars, stopping>>

EndRound(t) ==
    /\ At(t, "take")
    /\ th[t].left = 0 \/ cooling = <<>> \/ Satisfied(t)
    /\ \/ th[t].op = "cool" /\ Leave(t)
       \/ /\ th[t].op # "cool"
          /\ th[t].rounds > 1
          /\ th' = [th EXCEPT ![t].pc = "round", ![t].rounds = @ - 1, ![t].left = 0]
       \/ /\ th[t].op # "cool"
          /\ th[t].rounds <= 1
          /\ FailAcquire(t)
    /\ UNCHANGED <<pageVars, frames, queues, tiers, leader, prefetchVars, stopping>>

\* FreeFrame::from_index spins until stale pins are gone.
ClaimFree(t) ==
    /\ At(t, "claim")
    /\ CanClaim(th[t].frame)
    /\ Claim(th[t].frame)
    /\ Goto(t, IF th[t].op = "alloc" THEN "pid" ELSE "fill")
    /\ UNCHANGED <<pageVars, queues, tiers, leader, prefetchVars, stopping>>

\* Drop of a checked-out frame that was never published.
DropReservation(t) ==
    /\ At(t, "undo_release")
    /\ Release(th[t].frame)
    /\ Goto(t, "undo_push")
    /\ UNCHANGED <<pageVars, queues, tiers, leader, prefetchVars, stopping>>

DropFrame(t) ==
    /\ At(t, "undo_push")
    /\ PushFree(th[t].frame)
    /\ th' = IF th[t].op = "alloc" THEN [th EXCEPT ![t] = Idle]
             ELSE [th EXCEPT
                     ![t].frame = None,
                     ![t].pc = IF th[t].op # "submit" /\ leader[th[t].page] = t
                               THEN "land" ELSE "unreserve"]
    /\ UNCHANGED <<pageVars, frames, cooling, tiers, leader, prefetchVars, stopping>>

-----------------------------------------------------------------------------
(* fault and prefetch_fault                                                *)

\* Mutant: a prefetch that did not lead forgets the frame it checked out.
AfterFaultLeaks(t, result) ==
    IF th[t].op = "prefetch"
    THEN [th[t] EXCEPT !.pc = "unreserve", !.src = None, !.result = None]
    ELSE IF result = "ok"
    THEN [th[t] EXCEPT !.pc = "load", !.src = None, !.result = None, !.frame = None]
    ELSE Idle

\* Where a call goes after its fault: fix loops or returns the error, a
\* prefetch drops its task, with the frame it still owns if any.
AfterFault(t, result) ==
    IF th[t].op = "prefetch"
    THEN [th[t] EXCEPT !.pc = IF th[t].frame = None THEN "unreserve" ELSE "undo_release",
                       !.src = None, !.result = None]
    ELSE IF result = "ok"
    THEN [th[t] EXCEPT !.pc = "load", !.src = None, !.result = None, !.frame = None]
    ELSE Idle

FaultStops(t) ==
    /\ At(t, "fault")
    /\ stopping
    /\ th' = [th EXCEPT ![t] = AfterFault(t, "error")]
    /\ UNCHANGED <<pageVars, frames, queues, tiers, leader, prefetchVars, stopping>>

\* Mutant: faults of one page do not wait for each other.
FaultLeadsAlways(t) ==
    /\ At(t, "fault")
    /\ ~stopping
    /\ leader' = [leader EXCEPT ![th[t].page] = t]
    /\ Goto(t, "lead")
    /\ UNCHANGED <<pageVars, frames, queues, tiers, prefetchVars, stopping>>

FaultLeads(t) ==
    /\ At(t, "fault")
    /\ ~stopping
    /\ leader[th[t].page] = None
    /\ leader' = [leader EXCEPT ![th[t].page] = t]
    /\ Goto(t, "lead")
    /\ UNCHANGED <<pageVars, frames, queues, tiers, prefetchVars, stopping>>

FaultFollows(t) ==
    /\ At(t, "fault")
    /\ ~stopping
    /\ leader[th[t].page] # None
    /\ Goto(t, "follow")
    /\ UNCHANGED <<pageVars, frames, queues, tiers, leader, prefetchVars, stopping>>

FollowerReturns(t) ==
    /\ At(t, "answered")
    /\ th' = [th EXCEPT ![t] = AfterFault(t, th[t].result)]
    /\ UNCHANGED <<pageVars, frames, queues, tiers, leader, prefetchVars, stopping>>

\* The head of perform_demand_fault and perform_prefetch_fault: shutting
\* down, already resident, or look up the backing location.
LeadStops(t) ==
    /\ At(t, "lead")
    /\ stopping
    /\ th' = [th EXCEPT ![t].pc = "land", ![t].result = "error"]
    /\ UNCHANGED <<pageVars, frames, queues, tiers, leader, prefetchVars, stopping>>

LeadFindsResident(t) ==
    /\ At(t, "lead")
    /\ ~stopping
    /\ swip[th[t].page] # Evicted
    /\ th' = [th EXCEPT ![t].pc = "land", ![t].result = "ok"]
    /\ UNCHANGED <<pageVars, frames, queues, tiers, leader, prefetchVars, stopping>>

LeadLooksUp(t) ==
    /\ At(t, "lead")
    /\ ~stopping
    /\ swip[th[t].page] = Evicted
    /\ th' = [th EXCEPT ![t].pc = IF th[t].op = "prefetch" THEN "fill" ELSE "acquire",
                        ![t].src = directory[th[t].page]]
    /\ UNCHANGED <<pageVars, frames, queues, tiers, leader, prefetchVars, stopping>>

\* The page bytes: zeroes for a new page, the backing slot for a fault.
FillFrame(t) ==
    /\ At(t, "fill")
    /\ CanLockExclusive(th[t].frame)
    /\ frames' = [frames EXCEPT
                    ![th[t].frame].data = IF th[t].op = "alloc" THEN 0 ELSE slots[th[t].src],
                    ![th[t].frame].snaps = {}]
    /\ Goto(t, "install")
    /\ UNCHANGED <<pageVars, queues, tiers, leader, prefetchVars, stopping>>

\* The backing read fails: the checked-out frame goes back.
FillFails(t) ==
    /\ At(t, "fill")
    /\ MayFail
    /\ th[t].op # "alloc"
    /\ th' = [th EXCEPT ![t].pc = "undo_release", ![t].result = "error"]
    /\ UNCHANGED <<pageVars, frames, queues, tiers, leader, prefetchVars, stopping>>

\* Frame::install; allocate then marks the new page dirty.
Install(t) ==
    /\ At(t, "install")
    /\ CanLockExclusive(th[t].frame)
    /\ frames' = [frames EXCEPT
                    ![th[t].frame].pid = th[t].page,
                    ![th[t].frame].dirty = (th[t].op = "alloc"),
                    ![th[t].frame].generation = (@ + 1) % GenerationMod,
                    ![th[t].frame].snaps = {}]
    /\ Goto(t, "publish")
    /\ UNCHANGED <<pageVars, queues, tiers, leader, prefetchVars, stopping>>

\* publish_reserved_pin.
PublishPin(t) ==
    /\ At(t, "publish")
    /\ frames' = [frames EXCEPT ![th[t].frame].pin = 1]
    /\ Goto(t, IF th[t].op = "prefetch" THEN "marker" ELSE "swizzle")
    /\ UNCHANGED <<pageVars, queues, tiers, leader, prefetchVars, stopping>>

PlaceMarker(t) ==
    /\ At(t, "marker")
    /\ prefetched' = [prefetched EXCEPT ![th[t].page] =
                        [frame |-> th[t].frame,
                         generation |-> frames[th[t].frame].generation]]
    /\ Goto(t, "swizzle")
    /\ UNCHANGED <<pageVars, frames, queues, tiers, leader, pending, channel, stopping>>

\* try_swizzle.  Its failure branch is dead code: see PublishCannotFail.
Swizzle(t) ==
    /\ At(t, "swizzle")
    /\ swip[th[t].page] = Evicted
    /\ SetSwip(th[t].page, Hot(th[t].frame))
    /\ Goto(t, IF th[t].op = "alloc" THEN "latch" ELSE "unpin")
    /\ UNCHANGED <<pages, next_pid, frames, queues, tiers, leader, prefetchVars, stopping>>

UnpinFaulted(t) ==
    /\ At(t, "unpin")
    /\ Unpin(th[t].frame)
    /\ th' = [th EXCEPT ![t].pc = "land", ![t].result = "ok", ![t].frame = None]
    /\ UNCHANGED <<pageVars, queues, tiers, leader, prefetchVars, stopping>>

\* Mutant: the leader leaves without answering its followers.
LandAlone(t) ==
    /\ At(t, "land")
    /\ leader' = [leader EXCEPT ![th[t].page] = None]
    /\ th' = [th EXCEPT ![t] = AfterFault(t, th[t].result)]
    /\ UNCHANGED <<pageVars, frames, queues, tiers, prefetchVars, stopping>>

\* leader.finish: every follower is answered with this flight's outcome.
Land(t) ==
    /\ At(t, "land")
    /\ leader' = [leader EXCEPT ![th[t].page] = None]
    /\ th' = [u \in Threads |->
                IF u = t THEN AfterFault(t, th[t].result)
                ELSE IF th[u].pc = "follow" /\ th[u].page = th[t].page
                THEN [th[u] EXCEPT !.pc = "answered", !.result = th[t].result]
                ELSE th[u]]
    /\ UNCHANGED <<pageVars, frames, queues, tiers, prefetchVars, stopping>>

FaultStep(t) ==
    \/ AcquireStops(t) \/ AcquirePops(t) \/ AcquireStarts(t) \/ AcquireSamples(t)
    \/ AcquireMisses(t) \/ TakeTicket(t) \/ EndRound(t) \/ ClaimFree(t)
    \/ DropReservation(t) \/ DropFrame(t)
    \/ FaultStops(t) \/ FaultLeads(t) \/ FaultFollows(t) \/ FollowerReturns(t)
    \/ LeadStops(t) \/ LeadFindsResident(t) \/ LeadLooksUp(t)
    \/ FillFrame(t) \/ FillFails(t) \/ Install(t) \/ PublishPin(t) \/ PlaceMarker(t)
    \/ Swizzle(t) \/ UnpinFaulted(t) \/ Land(t)
=============================================================================
