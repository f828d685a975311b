------------------------------ MODULE BufferPool ------------------------------
(***************************************************************************)
(* The BufferManager: its public operations (allocate, fix_shared,         *)
(* fix_exclusive, fix_optimistic, the guards, prefetch, shutdown), its     *)
(* background workers (cooler, prefetch workers), and the pool's           *)
(* specification.  A thread runs one operation at a time; Roles says which *)
(* ones it may run.                                                        *)
(***************************************************************************)
EXTENDS FaultIn

\* A thread that is free to start an operation of its role.
Starts(t, operation) == At(t, "idle") /\ operation \in Roles[t]

-----------------------------------------------------------------------------
(* allocate                                                                *)

Allocate(t) ==
    /\ Starts(t, "alloc")
    /\ ~stopping
    /\ th' = [th EXCEPT ![t].pc = "acquire", ![t].op = "alloc"]
    /\ UNCHANGED <<pageVars, frames, queues, tiers, leader, prefetchVars, stopping>>

\* allocate_pid: identifiers are never reused and may run out.
AllocatePid(t) ==
    /\ At(t, "pid")
    /\ \/ /\ next_pid <= MaxPid
          /\ next_pid' = next_pid + 1
          /\ th' = [th EXCEPT ![t].pc = "fill", ![t].page = next_pid]
       \/ /\ next_pid > MaxPid
          /\ UNCHANGED next_pid
          /\ Goto(t, "undo_release")
    /\ UNCHANGED <<swip, pages, frames, queues, tiers, leader, prefetchVars, stopping>>

\* The new page becomes known to the manager, and its first guard is returned.
RegisterPage(t) ==
    /\ At(t, "register")
    /\ pages' = pages \cup {th[t].page}
    /\ th' = [th EXCEPT ![t].pc = "guard", ![t].op = "exclusive"]
    /\ UNCHANGED <<swip, next_pid, frames, queues, tiers, leader, prefetchVars, stopping>>

-----------------------------------------------------------------------------
(* fix_shared_with and fix_exclusive; fix_optimistic is a shared fix       *)

Fix(t) ==
    /\ ~stopping
    /\ \E o \in {"shared", "exclusive", "optimistic"}, p \in pages :
          /\ Starts(t, o)
          /\ th' = [th EXCEPT ![t].pc = "load", ![t].op = o, ![t].page = p]
    /\ UNCHANGED <<pageVars, frames, queues, tiers, leader, prefetchVars, stopping>>

SharedFix(t) == th[t].op \in {"shared", "optimistic"}

FixStops(t) ==
    /\ At(t, "load")
    /\ stopping
    /\ Leave(t)
    /\ UNCHANGED <<pageVars, frames, queues, tiers, leader, prefetchVars, stopping>>

\* The tagged pointer: resident pages are reached without the directory.
LoadSwip(t) ==
    /\ At(t, "load")
    /\ ~stopping
    /\ LET s == swip[th[t].page] IN
          th' = IF s = Evicted
                THEN [th EXCEPT ![t].pc = "fault", ![t].faulted = TRUE]
                ELSE [th EXCEPT ![t].pc = "pin", ![t].frame = s.frame]
    /\ UNCHANGED <<pageVars, frames, queues, tiers, leader, prefetchVars, stopping>>

PinFrame(t) ==
    /\ At(t, "pin")
    /\ CanPin(th[t].frame)
    /\ Pin(th[t].frame)
    /\ Goto(t, "latch")
    /\ UNCHANGED <<pageVars, queues, tiers, leader, prefetchVars, stopping>>

PinRefused(t) ==
    /\ At(t, "pin")
    /\ ~CanPin(th[t].frame)
    /\ th' = [th EXCEPT ![t].pc = "load", ![t].frame = None]
    /\ UNCHANGED <<pageVars, frames, queues, tiers, leader, prefetchVars, stopping>>

LatchFrame(t) ==
    /\ At(t, "latch")
    /\ \/ /\ SharedFix(t)
          /\ CanLockShared(th[t].frame)
          /\ LockShared(t, th[t].frame)
       \/ /\ ~SharedFix(t)
          /\ CanLockExclusive(th[t].frame)
          /\ LockExclusive(t, th[t].frame)
    /\ Goto(t, IF th[t].op = "alloc" THEN "register" ELSE "check")
    /\ UNCHANGED <<pageVars, queues, tiers, leader, prefetchVars, stopping>>

\* A shared fix with AccessHint::Prefetch leaves the marker alone.
HitPrefetched(t) ==
    \/ ~th[t].faulted /\ ConsumePrefetched(th[t].page)
    \/ (th[t].faulted \/ th[t].op = "shared") /\ UNCHANGED prefetched

\* Mutant: a pinned and latched frame is not checked for its page.
FixTrusting(t) ==
    /\ At(t, "check")
    /\ TryResurrect(th[t].page, th[t].frame)
    /\ HitPrefetched(t)
    /\ Goto(t, "guard")
    /\ UNCHANGED <<pages, next_pid, frames, queues, tiers, leader, pending, channel, stopping>>

\* Pinned and latched: the frame is the page's.  A second chance is taken,
\* and a fix that did not fault itself consumes the prefetch marker.
FixSucceeds(t) ==
    /\ At(t, "check")
    /\ ResidentIsExact(th[t].page, th[t].frame)
    /\ TryResurrect(th[t].page, th[t].frame)
    /\ HitPrefetched(t)
    /\ Goto(t, "guard")
    /\ UNCHANGED <<pages, next_pid, frames, queues, tiers, leader, pending, channel, stopping>>

\* The policy declines DRAM admission of a page this shared fix faulted in:
\* the page is handed out, but already cooling.
FixSucceedsDeclined(t) ==
    /\ At(t, "check")
    /\ MayDecline
    /\ SharedFix(t)
    /\ th[t].faulted
    /\ ResidentIsExact(th[t].page, th[t].frame)
    /\ SetSwip(th[t].page, Cooling(th[t].frame))
    /\ Goto(t, "guard_cooling")
    /\ UNCHANGED <<pages, next_pid, frames, queues, tiers, leader, prefetchVars, stopping>>

EnqueueDeclined(t) ==
    /\ At(t, "guard_cooling")
    /\ EnqueueTicket(th[t].frame, th[t].page)
    /\ Goto(t, "guard")
    /\ UNCHANGED <<pageVars, frames, free, tiers, leader, prefetchVars, stopping>>

\* The frame was reused in between: drop(latch), then unpin, then retry.
FixRetries(t) ==
    /\ At(t, "check")
    /\ ~ResidentIsExact(th[t].page, th[t].frame)
    /\ Unlock(t, th[t].frame)
    /\ Goto(t, "retry")
    /\ UNCHANGED <<pageVars, queues, tiers, leader, prefetchVars, stopping>>

UnpinRetry(t) ==
    /\ At(t, "retry")
    /\ Unpin(th[t].frame)
    /\ th' = [th EXCEPT ![t].pc = "load", ![t].frame = None]
    /\ UNCHANGED <<pageVars, queues, tiers, leader, prefetchVars, stopping>>

-----------------------------------------------------------------------------
(* SharedGuard and ExclusiveGuard                                          *)

\* Mutant: writing does not mark the frame dirty.
WriteClean(t) ==
    /\ At(t, "guard")
    /\ th[t].op = "exclusive"
    /\ \E v \in Values : frames' = [frames EXCEPT ![th[t].frame].data = v]
    /\ UNCHANGED <<pageVars, queues, tiers, leader, prefetchVars, stopping, th>>

\* write_with: the frame is marked dirty before the closure runs.
WriteGuard(t) ==
    /\ At(t, "guard")
    /\ th[t].op = "exclusive"
    /\ \E v \in Values :
          frames' = [frames EXCEPT ![th[t].frame].dirty = TRUE,
                                   ![th[t].frame].data = v]
    /\ UNCHANGED <<pageVars, queues, tiers, leader, prefetchVars, stopping, th>>

\* fix_optimistic copies the page and the latch version under its shared
\* guard, which it then drops.
CaptureSnapshot(t) ==
    /\ At(t, "guard")
    /\ th[t].op = "optimistic"
    /\ frames' = [frames EXCEPT ![th[t].frame].snaps = @ \cup {t}]
    /\ th' = [th EXCEPT ![t].pc = "captured", ![t].snap = frames[th[t].frame].data]
    /\ UNCHANGED <<pageVars, queues, tiers, leader, prefetchVars, stopping>>

\* Drop runs the guard's own Drop (unpin) and then drops its latch field.
DropGuard(t) ==
    /\ At(t, IF th[t].op = "optimistic" THEN "captured" ELSE "guard")
    /\ Unpin(th[t].frame)
    /\ Goto(t, "unpinned")
    /\ UNCHANGED <<pageVars, queues, tiers, leader, prefetchVars, stopping>>

DropLatch(t) ==
    /\ At(t, "unpinned")
    /\ Unlock(t, th[t].frame)
    /\ IF th[t].op = "optimistic" THEN Goto(t, "snapshot") ELSE Leave(t)
    /\ UNCHANGED <<pageVars, queues, tiers, leader, prefetchVars, stopping>>

\* OptimisticGuard::read_with, after its closure: is the page still where it
\* was, and then, is the version still the captured one?  Retry otherwise.
\* The guard may be used again, or dropped.
DropSnapshot(t) ==
    /\ frames' = [frames EXCEPT ![th[t].frame].snaps = @ \ {t}]
    /\ Leave(t)

SnapshotExact(t) ==
    /\ At(t, "snapshot")
    /\ \/ /\ ResidentIsExact(th[t].page, th[t].frame)
          /\ Goto(t, "validate")
          /\ UNCHANGED frames
       \/ DropSnapshot(t)
    /\ UNCHANGED <<pageVars, queues, tiers, leader, prefetchVars, stopping>>

SnapshotValidates(t) ==
    /\ At(t, "validate")
    /\ \/ /\ t \in frames[th[t].frame].snaps
          /\ Goto(t, "snapshot")
          /\ UNCHANGED frames
       \/ DropSnapshot(t)
    /\ UNCHANGED <<pageVars, queues, tiers, leader, prefetchVars, stopping>>

-----------------------------------------------------------------------------
(* prefetch and its workers                                                *)

\* One page of a prefetch call, admitted by the policy: it must be canonical
\* and evicted, with no accepted request, and within the in-flight limit.
SubmitPrefetch(t) ==
    /\ Starts(t, "submit")
    /\ ~stopping
    /\ Cardinality(pending) < MaxInFlight
    /\ \E p \in pages \ pending :
          /\ swip[p] = Evicted
          /\ pending' = pending \cup {p}
          /\ th' = [th EXCEPT ![t].pc = "pf_pop", ![t].op = "submit", ![t].page = p]
    /\ UNCHANGED <<pageVars, frames, queues, tiers, leader, prefetched, channel, stopping>>

\* OwnedFreeFrame::try_checkout never waits: no free frame, or one that a
\* stale fixer has pinned, and the request is dropped.
CheckoutPops(t) ==
    /\ At(t, "pf_pop")
    /\ \/ PopFree /\ th' = [th EXCEPT ![t].pc = "pf_claim", ![t].frame = Head(free)]
       \/ free = <<>> /\ UNCHANGED free /\ Goto(t, "unreserve")
    /\ UNCHANGED <<pageVars, frames, cooling, tiers, leader, prefetchVars, stopping>>

\* Mutant: the checked-out frame is not reserved.
CheckoutUnreserved(t) ==
    /\ At(t, "pf_claim")
    /\ Goto(t, "pf_gate")
    /\ UNCHANGED <<pageVars, frames, queues, tiers, leader, prefetchVars, stopping>>

CheckoutClaims(t) ==
    /\ At(t, "pf_claim")
    /\ \/ CanClaim(th[t].frame) /\ Claim(th[t].frame) /\ Goto(t, "pf_gate")
       \/ ~CanClaim(th[t].frame) /\ UNCHANGED frames /\ Goto(t, "undo_push")
    /\ UNCHANGED <<pageVars, queues, tiers, leader, prefetchVars, stopping>>

\* stopping is read once more, and the task is sent in a later step.
SubmitChecks(t) ==
    /\ At(t, "pf_gate")
    /\ Goto(t, IF stopping THEN "undo_release" ELSE "pf_send")
    /\ UNCHANGED <<pageVars, frames, queues, tiers, leader, prefetchVars, stopping>>

SendTask(t) ==
    /\ At(t, "pf_send")
    /\ channel' = Append(channel, [pid |-> th[t].page, frame |-> th[t].frame])
    /\ Leave(t)
    /\ UNCHANGED <<pageVars, frames, queues, tiers, leader, prefetched, pending, stopping>>

\* A worker owns the task; once stopping is set it only drops it.
ReceiveTask(t) ==
    /\ Starts(t, "prefetch")
    /\ channel # <<>>
    /\ channel' = Tail(channel)
    /\ th' = [th EXCEPT ![t].pc = IF stopping THEN "undo_release" ELSE "fault",
                        ![t].op = "prefetch", ![t].page = Head(channel).pid,
                        ![t].frame = Head(channel).frame]
    /\ UNCHANGED <<pageVars, frames, queues, tiers, leader, prefetched, pending, stopping>>

\* Mutant: the pending entry of a finished request stays.
KeepPrefetchReservation(t) ==
    /\ At(t, "unreserve")
    /\ Leave(t)
    /\ UNCHANGED <<pageVars, frames, queues, tiers, leader, prefetchVars, stopping>>

\* PrefetchReservation::drop.
DropPrefetchReservation(t) ==
    /\ At(t, "unreserve")
    /\ pending' = pending \ {th[t].page}
    /\ Leave(t)
    /\ UNCHANGED <<pageVars, frames, queues, tiers, leader, prefetched, channel, stopping>>

-----------------------------------------------------------------------------
(* The cooler, and the end of the workers                                  *)

CoolingStep(t) ==
    /\ Starts(t, "cool")
    /\ ~stopping
    /\ Len(free) < LowWatermark
    /\ CoolingTarget # 0
    /\ th' = IF Len(cooling) < CoolingTarget
             THEN [th EXCEPT ![t].pc = "sample", ![t].op = "cool",
                             ![t].cand = ColdCandidates, ![t].want = CoolingTarget]
             ELSE [th EXCEPT ![t].pc = "take", ![t].op = "cool",
                             ![t].left = Len(cooling)]
    /\ UNCHANGED <<pageVars, frames, queues, tiers, leader, prefetchVars, stopping>>

IsWorker(t) == Roles[t] \cap {"cool", "prefetch"} # {}

\* A prefetch worker exits only once it has seen the channel empty.
WorkerExits(t) ==
    /\ IsWorker(t)
    /\ At(t, "idle")
    /\ stopping
    /\ "prefetch" \in Roles[t] => channel = <<>>
    /\ Goto(t, "exited")
    /\ UNCHANGED <<pageVars, frames, queues, tiers, leader, prefetchVars, stopping>>

-----------------------------------------------------------------------------
(* shutdown                                                                *)

\* A call inside allocate or a fix holds the operation gate for reading; a
\* guard outlives the call that returned it.
InGate(t) ==
    /\ th[t].op \in {"alloc", "shared", "exclusive", "optimistic"}
    /\ th[t].pc \notin {"guard", "captured", "unpinned", "snapshot", "validate"}

ShutdownStarts(t) ==
    /\ "shutdown" \in Roles[t]
    /\ th[t].pc \in {"idle", "sd_failed"}
    /\ stopping' = TRUE
    /\ th' = [th EXCEPT ![t] = [Idle EXCEPT !.pc = "sd_gate", !.op = "shutdown"]]
    /\ UNCHANGED <<pageVars, frames, queues, tiers, leader, prefetchVars>>

\* operation_gate.write(), then join_workers().
ShutdownJoins(t) ==
    /\ At(t, "sd_gate")
    /\ \A u \in Threads : ~InGate(u) /\ (IsWorker(u) => th[u].pc = "exited")
    /\ th' = [th EXCEPT ![t].pc = "flush", ![t].cand = Frames]
    /\ UNCHANGED <<pageVars, frames, queues, tiers, leader, prefetchVars, stopping>>

\* flush_resident_pages.  want is 1 once the pass has seen a resident page,
\* left is 1 once it has freed a frame.
FlushFrame(t) ==
    /\ At(t, "flush")
    /\ \E f \in th[t].cand :
          /\ \A g \in th[t].cand : f <= g
          /\ LET p == frames[f].pid
                 seen == [th EXCEPT ![t].cand = @ \ {f},
                                    ![t].want = IF p = None THEN @ ELSE 1]
             IN IF p # None /\ ResidentAt(p, f)
                THEN /\ SetSwip(p, Cooling(f))
                     /\ th' = [seen EXCEPT ![t].pc = "ev_check",
                                           ![t].ticket = Ticket(f, p)]
                ELSE UNCHANGED swip /\ th' = seen
    /\ UNCHANGED <<pages, next_pid, frames, queues, tiers, leader, prefetchVars, stopping>>

\* Mutant: a pass without progress counts as a finished flush.
FlushGivesUpSilently(t) ==
    /\ At(t, "flush")
    /\ th[t].cand = {}
    /\ \/ th[t].left = 0 /\ Goto(t, "sd_done")
       \/ /\ th[t].left = 1
          /\ th' = [th EXCEPT ![t].cand = Frames, ![t].want = 0, ![t].left = 0]
    /\ UNCHANGED <<pageVars, frames, queues, tiers, leader, prefetchVars, stopping>>

\* The end of a pass: done, another pass, or Contended after the deadline.
FlushPassEnds(t) ==
    /\ At(t, "flush")
    /\ th[t].cand = {}
    /\ \/ th[t].want = 0 /\ Goto(t, "sd_done")
       \/ /\ th[t].want = 1
          /\ th' = [th EXCEPT ![t].cand = Frames, ![t].want = 0, ![t].left = 0]
       \/ th[t].want = 1 /\ th[t].left = 0 /\ Goto(t, "sd_failed")
    /\ UNCHANGED <<pageVars, frames, queues, tiers, leader, prefetchVars, stopping>>

-----------------------------------------------------------------------------
ApiStep(t) ==
    \/ Allocate(t) \/ AllocatePid(t) \/ RegisterPage(t)
    \/ Fix(t) \/ FixStops(t) \/ LoadSwip(t) \/ PinFrame(t) \/ PinRefused(t)
    \/ LatchFrame(t) \/ FixSucceeds(t) \/ FixSucceedsDeclined(t)
    \/ EnqueueDeclined(t) \/ FixRetries(t) \/ UnpinRetry(t)
    \/ WriteGuard(t) \/ CaptureSnapshot(t) \/ DropGuard(t) \/ DropLatch(t)
    \/ SnapshotExact(t) \/ SnapshotValidates(t)

PrefetchStep(t) ==
    \/ SubmitPrefetch(t) \/ CheckoutPops(t) \/ CheckoutClaims(t)
    \/ SubmitChecks(t) \/ SendTask(t) \/ ReceiveTask(t) \/ DropPrefetchReservation(t)

WorkerStep(t) == CoolingStep(t) \/ WorkerExits(t)

ShutdownStep(t) ==
    ShutdownStarts(t) \/ ShutdownJoins(t) \/ FlushFrame(t) \/ FlushPassEnds(t)

Next ==
    \E t \in Threads :
        \/ ApiStep(t) \/ FaultStep(t) \/ EvictionStep(t) \/ PrefetchStep(t)
        \/ WorkerStep(t) \/ ShutdownStep(t)

Spec == PoolInit /\ [][Next]_poolVars
=============================================================================
