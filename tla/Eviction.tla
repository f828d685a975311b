------------------------------- MODULE Eviction -------------------------------
(***************************************************************************)
(* How pages leave DRAM (pool.rs): sampling of cold candidates, cooling    *)
(* tickets, and evict_ticket.  evict_ticket is run by the background       *)
(* cooler, by a foreground thread that needs a frame, and by the shutdown  *)
(* flush; EvictionReturns says where each of them continues.               *)
(***************************************************************************)
EXTENDS PoolState

Ticket(f, p) == [frame |-> f, pid |-> p, generation |-> frames[f].generation]

SameOccupant(k) ==
    frames[k.frame].pid = k.pid /\ frames[k.frame].generation = k.generation

\* exact_cooling_owner.
ExactCoolingOwner(k) ==
    /\ SameOccupant(k)
    /\ swip[k.pid] = Cooling(k.frame)
    /\ k.pid \in pages

\* The continuation of evict_ticket's caller.
AfterEvict(t, outcome) ==
    IF th[t].op = "shutdown"
    THEN IF outcome = "error" THEN "sd_failed" ELSE "flush"
    ELSE IF outcome = "freed" /\ th[t].op # "cool" THEN "freed" ELSE "take"

EvictionReturns(t, outcome) ==
    th' = [th EXCEPT ![t].pc = AfterEvict(t, outcome),
                     ![t].ticket = None, ![t].old = None, ![t].new = None,
                     ![t].left = IF th[t].op = "shutdown" /\ outcome = "freed"
                                 THEN 1 ELSE @]

-----------------------------------------------------------------------------
(* enqueue_cold_candidates                                                 *)

\* The sampling pass: frames that hold an unpinned page.
ColdCandidates == {f \in Frames : frames[f].pid # None /\ frames[f].pin = 0}

\* The loop ends when the queue is long enough or nothing is left to look at;
\* the caller then reads how many tickets it may try.
SampleDone(t) ==
    /\ At(t, "sample")
    /\ th[t].cand = {} \/ Len(cooling) >= th[t].want
    /\ th' = [th EXCEPT ![t].pc = "take", ![t].cand = {}, ![t].want = 0,
                        ![t].left = Len(cooling)]
    /\ UNCHANGED <<pageVars, frames, queues, tiers, leader, prefetchVars, stopping>>

\* Heat decides the order, so any remaining candidate may be next.
SampleFrame(t) ==
    /\ At(t, "sample")
    /\ Len(cooling) < th[t].want
    /\ \E f \in th[t].cand :
          th' = IF frames[f].pin = 0 /\ frames[f].pid # None
                THEN [th EXCEPT ![t].pc = "mark", ![t].cand = @ \ {f},
                                ![t].ticket = Ticket(f, frames[f].pid)]
                ELSE [th EXCEPT ![t].cand = @ \ {f}]
    /\ UNCHANGED <<pageVars, frames, queues, tiers, leader, prefetchVars, stopping>>

\* The owner's word is loaded; Hot goes to Cooling by compare-exchange.  The
\* pin check is already in the past here, and the owner is read after the pid:
\* it may be the Swip of a page installed in between.
MarkCandidate(t) ==
    /\ At(t, "mark")
    /\ LET k == th[t].ticket IN
       \E o \in {k.pid, frames[k.frame].pid} \ {None} :
          IF ResidentAt(o, k.frame)
          THEN SetSwip(o, Cooling(k.frame)) /\ Goto(t, "enqueue")
          ELSE /\ th' = [th EXCEPT ![t].pc = "sample", ![t].ticket = None]
               /\ UNCHANGED swip
    /\ UNCHANGED <<pages, next_pid, frames, queues, tiers, leader, prefetchVars, stopping>>

\* enqueue_ticket: the frame must still hold the page, still cooling; the
\* ticket carries the generation the frame has now.
EnqueueTicket(f, p) ==
    IF frames[f].pid = p /\ swip[p] = Cooling(f)
    THEN PushUnique(Ticket(f, p)) ELSE UNCHANGED cooling

EnqueueCandidate(t) ==
    /\ At(t, "enqueue")
    /\ EnqueueTicket(th[t].ticket.frame, th[t].ticket.pid)
    /\ th' = [th EXCEPT ![t].pc = "sample", ![t].ticket = None]
    /\ UNCHANGED <<pageVars, frames, free, tiers, leader, prefetchVars, stopping>>

-----------------------------------------------------------------------------
(* evict_ticket                                                            *)

EvictCheck(t) ==
    /\ At(t, "ev_check")
    /\ IF ExactCoolingOwner(th[t].ticket)
       THEN Goto(t, "ev_claim") ELSE EvictionReturns(t, "stale")
    /\ UNCHANGED <<pageVars, frames, queues, tiers, leader, prefetchVars, stopping>>

\* Mutant: the reservation does not require zero pins.
EvictClaimPinned(t) ==
    /\ At(t, "ev_claim")
    /\ Claim(th[t].ticket.frame)
    /\ Goto(t, "ev_latch")
    /\ UNCHANGED <<pageVars, queues, tiers, leader, prefetchVars, stopping>>

EvictClaim(t) ==
    /\ At(t, "ev_claim")
    /\ CanClaim(th[t].ticket.frame)
    /\ Claim(th[t].ticket.frame)
    /\ Goto(t, "ev_latch")
    /\ UNCHANGED <<pageVars, queues, tiers, leader, prefetchVars, stopping>>

\* Busy: the frame is pinned or reserved.  The flush drops the ticket, the
\* other callers put it back.
EvictBusy(t) ==
    /\ At(t, "ev_claim")
    /\ ~CanClaim(th[t].ticket.frame)
    /\ IF th[t].op = "shutdown" THEN UNCHANGED cooling
       ELSE PushUnique(th[t].ticket)
    /\ EvictionReturns(t, "busy")
    /\ UNCHANGED <<pageVars, frames, free, tiers, leader, prefetchVars, stopping>>

EvictLatch(t) ==
    /\ At(t, "ev_latch")
    /\ CanLockExclusive(th[t].ticket.frame)
    /\ LockExclusive(t, th[t].ticket.frame)
    /\ Goto(t, "ev_recheck")
    /\ UNCHANGED <<pageVars, queues, tiers, leader, prefetchVars, stopping>>

\* Under reservation and latch: is the ticket still exact, and does the page
\* have to be written?
EvictRecheck(t) ==
    /\ At(t, "ev_recheck")
    /\ LET k == th[t].ticket IN
          th' = IF ExactCoolingOwner(k)
                THEN [th EXCEPT
                        ![t].old = directory[k.pid],
                        ![t].pc = IF frames[k.frame].dirty \/ directory[k.pid] = None
                                  THEN "ev_write" ELSE "ev_publish"]
                ELSE [th EXCEPT ![t].pc = "ev_abort", ![t].result = "stale"]
    /\ IF ~ExactCoolingOwner(th[t].ticket) /\ SameOccupant(th[t].ticket)
       THEN TryResurrect(th[t].ticket.pid, th[t].ticket.frame)
       ELSE UNCHANGED swip
    /\ UNCHANGED <<pages, next_pid, frames, queues, tiers, leader, prefetchVars, stopping>>

\* Some tier at or below the policy's target has budget and a free slot.
EvictWrite(t) ==
    /\ At(t, "ev_write")
    /\ \E s \in Slots :
          /\ slots[s] = None
          /\ slots' = [slots EXCEPT ![s] = frames[th[t].ticket.frame].data]
          /\ th' = [th EXCEPT ![t].pc = "ev_publish", ![t].new = s]
    /\ UNCHANGED <<pageVars, frames, queues, directory, leader, prefetchVars, stopping>>

\* Every tier tried denied the write: over budget, full, or an I/O error.
EvictWriteFails(t) ==
    /\ At(t, "ev_write")
    /\ MayFail \/ \A s \in Slots : slots[s] # None
    /\ TryResurrect(th[t].ticket.pid, th[t].ticket.frame)
    /\ th' = [th EXCEPT ![t].pc = "ev_abort", ![t].result = "error"]
    /\ UNCHANGED <<pages, next_pid, frames, queues, tiers, leader, prefetchVars, stopping>>

\* Giving up: drop(latch), then the reservation's Drop.
EvictAbort(t) ==
    /\ At(t, "ev_abort")
    /\ Unlock(t, th[t].ticket.frame)
    /\ Goto(t, "ev_unreserve")
    /\ UNCHANGED <<pageVars, queues, tiers, leader, prefetchVars, stopping>>

EvictUnreserve(t) ==
    /\ At(t, "ev_unreserve")
    /\ Release(th[t].ticket.frame)
    /\ th' = [th EXCEPT ![t].pc = AfterEvict(t, th[t].result), ![t].result = None,
                        ![t].ticket = None, ![t].old = None, ![t].new = None]
    /\ UNCHANGED <<pageVars, queues, tiers, leader, prefetchVars, stopping>>

\* Mutant: the new location is not published.
EvictForgets(t) ==
    /\ At(t, "ev_publish")
    /\ directory' = [directory EXCEPT ![th[t].ticket.pid] =
                        IF @ = None THEN th[t].new ELSE @]
    /\ frames' = [frames EXCEPT ![th[t].ticket.frame].dirty = FALSE]
    /\ Goto(t, "ev_unswizzle")
    /\ UNCHANGED <<pageVars, queues, slots, leader, prefetchVars, stopping>>

\* The new location is published before the page loses its frame.
EvictPublish(t) ==
    /\ At(t, "ev_publish")
    /\ directory' = [directory EXCEPT ![th[t].ticket.pid] =
                        IF th[t].new = None THEN @ ELSE th[t].new]
    /\ frames' = [frames EXCEPT ![th[t].ticket.frame].dirty = FALSE]
    /\ Goto(t, "ev_unswizzle")
    /\ UNCHANGED <<pageVars, queues, slots, leader, prefetchVars, stopping>>

\* try_unswizzle.  Its failure branch is dead code: see PublishCannotFail.
EvictUnswizzle(t) ==
    /\ At(t, "ev_unswizzle")
    /\ swip[th[t].ticket.pid] = Cooling(th[t].ticket.frame)
    /\ SetSwip(th[t].ticket.pid, Evicted)
    /\ Goto(t, "ev_marker")
    /\ UNCHANGED <<pages, next_pid, frames, queues, tiers, leader, prefetchVars, stopping>>

\* Mutant: eviction leaves the prefetch marker behind.
EvictKeepsMarker(t) ==
    /\ At(t, "ev_marker")
    /\ Goto(t, "ev_unlatch")
    /\ UNCHANGED <<pageVars, frames, queues, tiers, leader, prefetchVars, stopping>>

EvictMarker(t) ==
    /\ At(t, "ev_marker")
    /\ ConsumePrefetched(th[t].ticket.pid)
    /\ Goto(t, "ev_unlatch")
    /\ UNCHANGED <<pageVars, frames, queues, tiers, leader, pending, channel, stopping>>

EvictUnlatch(t) ==
    /\ At(t, "ev_unlatch")
    /\ Unlock(t, th[t].ticket.frame)
    /\ Goto(t, "ev_clear")
    /\ UNCHANGED <<pageVars, queues, tiers, leader, prefetchVars, stopping>>

\* clear_after_eviction takes the latch again for the metadata.
EvictClear(t) ==
    /\ At(t, "ev_clear")
    /\ CanLockExclusive(th[t].ticket.frame)
    /\ frames' = [frames EXCEPT ![th[t].ticket.frame].pid = None,
                                ![th[t].ticket.frame].dirty = FALSE,
                                ![th[t].ticket.frame].snaps = {}]
    /\ Goto(t, "ev_release")
    /\ UNCHANGED <<pageVars, queues, tiers, leader, prefetchVars, stopping>>

EvictRelease(t) ==
    /\ At(t, "ev_release")
    /\ Release(th[t].ticket.frame)
    /\ Goto(t, "ev_push")
    /\ UNCHANGED <<pageVars, queues, tiers, leader, prefetchVars, stopping>>

EvictPush(t) ==
    /\ At(t, "ev_push")
    /\ PushFree(th[t].ticket.frame)
    /\ Goto(t, "ev_free")
    /\ UNCHANGED <<pageVars, frames, cooling, tiers, leader, prefetchVars, stopping>>

\* Mutant: the superseded slot is never freed.
EvictLeaksOld(t) ==
    /\ At(t, "ev_free")
    /\ EvictionReturns(t, "freed")
    /\ UNCHANGED <<pageVars, frames, queues, tiers, leader, prefetchVars, stopping>>

\* The superseded slot is freed last, after the frame is up for reuse.
EvictFreeOld(t) ==
    /\ At(t, "ev_free")
    /\ slots' = IF th[t].new # None /\ th[t].old # None
                THEN [slots EXCEPT ![th[t].old] = None] ELSE slots
    /\ EvictionReturns(t, "freed")
    /\ UNCHANGED <<pageVars, frames, queues, directory, leader, prefetchVars, stopping>>

EvictionStep(t) ==
    \/ SampleDone(t) \/ SampleFrame(t) \/ MarkCandidate(t) \/ EnqueueCandidate(t)
    \/ EvictCheck(t) \/ EvictClaim(t) \/ EvictBusy(t) \/ EvictLatch(t)
    \/ EvictRecheck(t) \/ EvictWrite(t) \/ EvictWriteFails(t) \/ EvictAbort(t)
    \/ EvictUnreserve(t) \/ EvictPublish(t) \/ EvictUnswizzle(t) \/ EvictMarker(t)
    \/ EvictUnlatch(t) \/ EvictClear(t) \/ EvictRelease(t) \/ EvictPush(t)
    \/ EvictFreeOld(t)
=============================================================================
