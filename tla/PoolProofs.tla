----------------------------- MODULE PoolProofs -----------------------------
(***************************************************************************)
(* What the pool guarantees whatever its threads do: every step of a       *)
(* fault, a fix, a prefetch, a worker and a shutdown preserves the         *)
(* invariant of PoolInvariant, and then that of the prefetch requests,     *)
(* their markers and the flush, so the theorems after each hold in every   *)
(* reachable state.                                                        *)
(***************************************************************************)
EXTENDS PoolInvariant

(***************************************************************************)
(* The bytes read into a reserved frame, whatever they are.                *)
(***************************************************************************)
LEMMA FillKeeps ==
    ASSUME IInv, NEW t \in Threads,
           FillFrame(t)
    PROVE  IInv'
<1> USE DEF FixOps, FillPlaces, UndoPlaces, AcquirePlaces, EvictPlaces, EvictReserved, TaskPlaces,
            Fixing, GuardPlaces, Unreserved, Reserved, Published, EvictDetached,
            pageVars, queues, tiers, prefetchVars
<1>3. PICK C : TypedOver(C)
  BY DEF IInv
<1>4. TypedOver(C \cup {0, slots[th[t].src]})
  BY <1>3, Widen
<1>1. PICK D : TypedOver(D) /\ 0 \in D /\ slots[th[t].src] \in D
  BY <1>4
<1>2. th[t] \in LocalsOver(D) /\ SharedOver(D) /\ Values \subseteq D /\ ThreadOK(t)
  BY <1>1 DEF IInv, TypedOver
<1> DEFINE v == IF th[t].op = "alloc" THEN 0 ELSE slots[th[t].src]
<1>5. v \in D
  BY <1>1
<1> HIDE DEF v
<1>7. CASE FillFrame(t)
  <2>15. Going(t, D, "install")
    BY <1>7, <1>1, GotoGoes DEF FillFrame, At, Places
  <2> DEFINE r == [frames[th[t].frame] EXCEPT !.data = v, !.snaps = {}]
  <2>30. frames \in [Frames -> FrameOver(D)]
    BY <1>2, <1>5 DEF SharedOver, FrameOver
  <2>31. th[t].frame \in Frames
    BY <1>7, <1>2 DEF FillFrame, At, v, ThreadOK, LocalsOK, CoolingTicket
  <2>32. r \in FrameOver(D)
    BY <2>30, <2>31, <1>2, <1>5 DEF FrameOver
  <2>33. frames' = [frames EXCEPT ![th[t].frame] = r]
    BY <1>7 DEF FillFrame, At, v
  <2>34. /\ r.pid = frames[th[t].frame].pid /\ r.pin = frames[th[t].frame].pin
        /\ r.writer = frames[th[t].frame].writer /\ r.readers = frames[th[t].frame].readers
    BY <2>30, <2>31 DEF FrameOver
  <2> HIDE DEF r
  <2>35. frames' \in [Frames -> FrameOver(D)] /\ FramesKept
    BY <2>30, <2>31, <2>32, <2>33, <2>34, FrameSet
  <2>16. SharedOver(D)' /\ Calm
    BY <1>2, <1>7, <2>35 DEF FillFrame, SharedOver, Calm, SwipsKept
  <2>19. At(t, "fill") /\ UNCHANGED <<swip, pages, next_pid, leader>>
    BY <1>7 DEF FillFrame, At
  <2>17. ThreadOK(t)'
    BY <2>19, <1>2, <2>15, <2>31, <2>35 DEF At, Going, ThreadOK, PlaceOK, LocalsOK, LeadOK,
       VacantOK, InstalledOK, ExactOK, EvictorOK, LatchOK, FramesKept
  <2>18. ViewsKept(t)
    BY <2>19, <1>2, <2>15, <2>31, <2>35 DEF At, Going, ViewsKept, OwnedBy, ReservedBy, PinnedBy,
       ThreadOK, PlaceOK
  <2> QED
    BY <1>2, <2>15, <2>16, <2>17, <2>18, QuietKeeps DEF Going, Quiet, TypedOver
<1> QED
  BY <1>7

(***************************************************************************)
(* A frame is popped, reserved, and put back when it is not used.          *)
(***************************************************************************)
LEMMA CheckoutKeeps ==
    ASSUME IInv, NEW t \in Threads,
           \/ AcquirePops(t) \/ ClaimFree(t) \/ DropReservation(t)
           \/ DropFrame(t)
    PROVE  IInv'
<1> USE DEF FixOps, FillPlaces, UndoPlaces, AcquirePlaces, EvictPlaces, EvictReserved, TaskPlaces,
            Fixing, GuardPlaces, Unreserved, Reserved, Published, EvictDetached,
            pageVars, queues, tiers, prefetchVars
<1>1. PICK D : TypedOver(D)
  BY DEF IInv
<1>2. th[t] \in LocalsOver(D) /\ SharedOver(D) /\ Values \subseteq D /\ ThreadOK(t)
  BY <1>1 DEF IInv, TypedOver
<1>3. CASE AcquirePops(t)
  <2> DEFINE l == [th[t] EXCEPT !.pc = "claim", !.frame = Head(free), !.left = 0, !.rounds = 0]
  <2>10. {"claim"} \subseteq Places
    BY DEF Places
  <2>11. Head(free) \in Frames /\ Tail(free) \in Seq(Frames) /\ 0 \in 0 .. MaxRounds
    BY <1>3, <1>2, PoolAssumption DEF AcquirePops, At, SharedOver, LocalsOver, PopFree
  <2>12. l \in LocalsOver(D)
    BY <1>2, <2>10, <2>11 DEF LocalsOver
  <2>13. th' = [th EXCEPT ![t] = l]
    BY <1>3, <1>1, <1>2 DEF AcquirePops, At, TypedOver, LocalsOver
  <2>14. /\ l.pc = "claim" /\ l.op = th[t].op /\ l.page = th[t].page
        /\ l.frame = Head(free) /\ l.ticket = th[t].ticket
    BY <1>3, <1>2 DEF AcquirePops, At, LocalsOver
  <2> HIDE DEF l
  <2>15. th' \in [Threads -> LocalsOver(D)] /\ Moves(t) /\ th'[t] = l
    BY <1>1, <2>12, <2>13, Becomes
  <2>19. /\ th[t].pc \in {"acquire", "round", "freed"} /\ UNCHANGED <<swip, pages, next_pid, frames, leader, channel>>
        /\ PopFree /\ free' = Tail(free)
    BY <1>3 DEF AcquirePops, At, PopFree
  <2>16. SharedOver(D)'
    BY <1>3, <1>2, <2>11 DEF AcquirePops, At, PopFree, SharedOver
  <2>20. OwnedBy(th[t]) = {} /\ OwnedBy(th'[t]) = {Head(free)}
    BY <1>2, <2>11, <2>14, <2>15, <2>19 DEF At, OwnedBy, ThreadOK, PlaceOK
  <2>21. /\ ReservedBy(th'[t]) = ReservedBy(th[t]) /\ PinnedBy(th'[t]) = PinnedBy(th[t])
        /\ NoNewPage(t)
    BY <1>2, <2>14, <2>15, <2>19 DEF At, ReservedBy, PinnedBy, NoNewPage, ThreadOK, PlaceOK
  <2>17. ThreadOK(t)'
    BY <1>2, <2>11, <2>14, <2>15, <2>19 DEF At, ThreadOK, PlaceOK, LocalsOK, LeadOK, VacantOK,
       InstalledOK, ExactOK, EvictorOK, LatchOK
  <2> QED
    BY <1>2, <2>15, <2>16, <2>17, <2>19, <2>20, <2>21, PopKeeps DEF TypedOver
<1>4. CASE ClaimFree(t)
  <2>19. At(t, "claim") /\ UNCHANGED <<swip, pages, next_pid, leader>>
    BY <1>4 DEF ClaimFree, Claim, CanClaim, At
  <2>10. th[t].frame \in Frames
    BY <1>2, <2>19 DEF At, LocalsOK, ThreadOK
  <2>15. Going(t, D, IF th[t].op = "alloc" THEN "pid" ELSE "fill")
    BY <1>4, <1>1, <2>10, GotoGoes DEF ClaimFree, Claim, CanClaim, At, Places
  <2>9. frames' = [frames EXCEPT ![th[t].frame].pin = EVICTING]
    BY <1>4 DEF ClaimFree, Claim, CanClaim, At
  <2>8. EVICTING \in Int
    BY <1>2, <2>10 DEF EVICTING, SharedOver, FrameOver
  <2>20. /\ frames' \in [Frames -> FrameOver(D)] /\ OnlyPin(th[t].frame)
        /\ frames'[th[t].frame].pin = EVICTING
    BY <1>2, <2>8, <2>9, <2>10, PinSet
  <2>16. SharedOver(D)' /\ Rest
    BY <1>4, <1>2, <2>20 DEF ClaimFree, Claim, CanClaim, At, SharedOver, Rest
  <2>18. ReservedBy(th[t]) = {} /\ ReservedBy(th'[t]) = {th[t].frame} /\ PinnedBy(th'[t]) = PinnedBy(th[t])
    BY <1>2, <2>10, <2>15, <2>19 DEF At, Going, OwnedBy, ReservedBy, PinnedBy, ThreadOK, PlaceOK
  <2>11. OwnedBy(th'[t]) = OwnedBy(th[t]) /\ NoNewPage(t)
    BY <1>2, <2>10, <2>15, <2>19 DEF At, Going, NoNewPage, OwnedBy, ReservedBy, PinnedBy,
       ThreadOK, PlaceOK
  <2>12. (\A g \in Frames : PinOK(g))'
    BY <1>4, <2>10, <2>15, <2>16, <2>18, <2>20, ClaimPins DEF ClaimFree, Claim, CanClaim, At,
       Going, Rest, OnlyPin, PinnersKept, ReserversKept
  <2>17. ThreadOK(t)'
    BY <1>2, <2>10, <2>15, <2>19, <2>20 DEF At, OnlyPin, Going, ThreadOK, PlaceOK, LocalsOK,
       LeadOK, VacantOK, InstalledOK, ExactOK, EvictorOK, LatchOK
  <2> QED
    BY <1>2, <2>10, <2>11, <2>12, <2>15, <2>16, <2>17, <2>20, PinStepKeeps DEF Going, OwnersKept,
       TypedOver
<1>5. CASE DropReservation(t)
  <2>19. At(t, "undo_release") /\ UNCHANGED <<swip, pages, next_pid, leader>>
    BY <1>5 DEF DropReservation, Release, At
  <2>10. th[t].frame \in Frames
    BY <1>2, <2>19 DEF At, LocalsOK, ThreadOK
  <2>15. Going(t, D, "undo_push")
    BY <1>5, <1>1, <2>10, GotoGoes DEF DropReservation, Release, At, Places
  <2>9. frames' = [frames EXCEPT ![th[t].frame].pin = 0]
    BY <1>5 DEF DropReservation, Release, At
  <2>8. 0 \in Int
    BY <1>2, <2>10 DEF EVICTING, SharedOver, FrameOver
  <2>20. /\ frames' \in [Frames -> FrameOver(D)] /\ OnlyPin(th[t].frame)
        /\ frames'[th[t].frame].pin = 0
    BY <1>2, <2>8, <2>9, <2>10, PinSet
  <2>16. SharedOver(D)' /\ Rest
    BY <1>5, <1>2, <2>20 DEF DropReservation, Release, At, SharedOver, Rest
  <2>18. ReservedBy(th[t]) = {th[t].frame} /\ ReservedBy(th'[t]) = {} /\ PinnedBy(th'[t]) = PinnedBy(th[t])
    BY <1>2, <2>10, <2>15, <2>19 DEF At, Going, OwnedBy, ReservedBy, PinnedBy, ThreadOK, PlaceOK
  <2>11. OwnedBy(th'[t]) = OwnedBy(th[t]) /\ NoNewPage(t)
    BY <1>2, <2>10, <2>15, <2>19 DEF At, Going, NoNewPage, OwnedBy, ReservedBy, PinnedBy,
       ThreadOK, PlaceOK
  <2>12. (\A g \in Frames : PinOK(g))'
    BY <2>10, <2>15, <2>16, <2>18, <2>20, ReleasePins DEF Going, Rest, OnlyPin, PinnersKept,
       ReserversKept
  <2>17. ThreadOK(t)'
    BY <1>2, <2>10, <2>15, <2>19, <2>20 DEF At, OnlyPin, Going, ThreadOK, PlaceOK, LocalsOK,
       LeadOK, VacantOK, InstalledOK, ExactOK, EvictorOK, LatchOK
  <2> QED
    BY <1>2, <2>10, <2>11, <2>12, <2>15, <2>16, <2>17, <2>20, PinStepKeeps DEF Going, OwnersKept,
       TypedOver
<1>6. CASE DropFrame(t)
  <2>1. At(t, "undo_push") /\ UNCHANGED <<swip, pages, next_pid, frames, leader, channel>>
    BY <1>6 DEF DropFrame, At
  <2> DEFINE f == th[t].frame
  <2>2. f \in Frames
    BY <1>2, <2>1 DEF At, ThreadOK, LocalsOK
  <2>3. PushFree(f) /\ free' \in Seq(Frames)
    BY <1>2, <1>6, <2>2 DEF DropFrame, PushFree, SharedOver
  <2>4. SharedOver(D)'
    BY <1>2, <1>6, <2>3 DEF DropFrame, SharedOver
  <2>5. OwnedBy(th[t]) = {f} /\ ReservedBy(th[t]) = {} /\ PinnedBy(th[t]) = {}
    BY <1>2, <2>1, <2>2 DEF At, OwnedBy, ReservedBy, PinnedBy, ThreadOK, PlaceOK
  <2>6. CASE th[t].op = "alloc"
    <3>1. Gone(t, D) /\ ThreadOK(t)'
      BY <1>1, <1>6, <2>6, LeaveGoes DEF DropFrame
    <3>2. th'[t].pc = "idle" /\ th'[t].op = None /\ None \notin Operations
      BY <3>1, PoolAssumption DEF Gone, Idle
    <3>3. OwnedBy(th'[t]) = {} /\ ReservedBy(th'[t]) = {} /\ PinnedBy(th'[t]) = {} /\ NoNewPage(t)
      BY <3>2 DEF OwnedBy, ReservedBy, PinnedBy, NoNewPage, Operations
    <3> QED
      BY <1>2, <2>1, <2>2, <2>3, <2>4, <2>5, <3>1, <3>3, PushKeeps DEF Gone, TypedOver
  <2>7. CASE th[t].op # "alloc"
    <3> DEFINE to == IF th[t].op # "submit" /\ leader[th[t].page] = t THEN "land" ELSE "unreserve"
               l == [th[t] EXCEPT !.frame = None, !.pc = to]
    <3>1. to \in Places
      BY DEF Places
    <3>2. to = "land" \/ (to = "unreserve" /\ th[t].op \notin FixOps)
      BY <1>2, <2>1 DEF At, ThreadOK, LeadOK
    <3>3. to = "land" => leader[th[t].page] = t /\ th[t].op # "submit"
      OBVIOUS
    <3> HIDE DEF to
    <3>4. l \in LocalsOver(D)
      BY <1>2, <3>1 DEF LocalsOver
    <3>5. th' = [th EXCEPT ![t] = l]
      BY <1>6, <2>7 DEF DropFrame, to
    <3>6. l.pc = to /\ l.op = th[t].op /\ l.page = th[t].page /\ l.frame = None /\ l.ticket = th[t].ticket
      BY <1>2 DEF LocalsOver
    <3> HIDE DEF l
    <3>7. th' \in [Threads -> LocalsOver(D)] /\ Moves(t) /\ th'[t] = l
      BY <1>1, <3>4, <3>5, Becomes
    <3>8. None \notin Frames
      BY PoolAssumption
    <3>9. OwnedBy(th'[t]) = {} /\ ReservedBy(th'[t]) = {} /\ PinnedBy(th'[t]) = {} /\ NoNewPage(t)
      BY <2>7, <3>2, <3>6, <3>7, <3>8 DEF OwnedBy, ReservedBy, PinnedBy, NoNewPage
    <3>10. ThreadOK(t)'
      BY <1>2, <2>1, <2>7, <3>2, <3>3, <3>6, <3>7 DEF At, ThreadOK, PlaceOK, LocalsOK, LeadOK, VacantOK, InstalledOK, ExactOK, EvictorOK, LatchOK
    <3> QED
      BY <1>2, <2>1, <2>2, <2>3, <2>4, <2>5, <3>7, <3>9, <3>10, PushKeeps DEF TypedOver
  <2> QED
    BY <2>6, <2>7
<1> QED
  BY <1>3, <1>4, <1>5, <1>6

(***************************************************************************)
(* The loader's pin is published with the frame and ends with the fault.   *)
(***************************************************************************)
LEMMA PublishKeeps ==
    ASSUME IInv, NEW t \in Threads,
           \/ PublishPin(t) \/ UnpinFaulted(t)
    PROVE  IInv'
<1> USE DEF FixOps, FillPlaces, UndoPlaces, AcquirePlaces, EvictPlaces, EvictReserved, TaskPlaces,
            Fixing, GuardPlaces, Unreserved, Reserved, Published, EvictDetached,
            pageVars, queues, tiers, prefetchVars
<1>1. PICK D : TypedOver(D)
  BY DEF IInv
<1>2. th[t] \in LocalsOver(D) /\ SharedOver(D) /\ Values \subseteq D /\ ThreadOK(t)
  BY <1>1 DEF IInv, TypedOver
<1>3. CASE PublishPin(t)
  <2>19. At(t, "publish") /\ UNCHANGED <<swip, pages, next_pid, leader>>
    BY <1>3 DEF PublishPin, At
  <2>10. th[t].frame \in Frames
    BY <1>2, <2>19 DEF At, LocalsOK, ThreadOK
  <2>15. Going(t, D, IF th[t].op = "prefetch" THEN "marker" ELSE "swizzle")
    BY <1>3, <1>1, <2>10, GotoGoes DEF PublishPin, At, Places
  <2>9. frames' = [frames EXCEPT ![th[t].frame].pin = 1]
    BY <1>3 DEF PublishPin, At
  <2>8. 1 \in Int
    BY <1>2, <2>10 DEF EVICTING, SharedOver, FrameOver
  <2>20. /\ frames' \in [Frames -> FrameOver(D)] /\ OnlyPin(th[t].frame)
        /\ frames'[th[t].frame].pin = 1
    BY <1>2, <2>8, <2>9, <2>10, PinSet
  <2>16. SharedOver(D)' /\ Rest
    BY <1>3, <1>2, <2>20 DEF PublishPin, At, SharedOver, Rest
  <2>18. /\ ReservedBy(th[t]) = {th[t].frame} /\ ReservedBy(th'[t]) = {}
        /\ PinnedBy(th[t]) = {} /\ PinnedBy(th'[t]) = {th[t].frame}
    BY <1>2, <2>10, <2>15, <2>19 DEF At, Going, OwnedBy, ReservedBy, PinnedBy, ThreadOK, PlaceOK
  <2>11. OwnedBy(th'[t]) = OwnedBy(th[t]) /\ NoNewPage(t)
    BY <1>2, <2>10, <2>15, <2>19 DEF At, Going, NoNewPage, OwnedBy, ReservedBy, PinnedBy,
       ThreadOK, PlaceOK
  <2>12. (\A g \in Frames : PinOK(g))'
    BY <2>10, <2>15, <2>16, <2>18, <2>20, PublishPins DEF Going, Rest, OnlyPin, PinnersKept,
       ReserversKept
  <2>17. ThreadOK(t)'
    BY <1>2, <2>10, <2>15, <2>19, <2>20 DEF At, OnlyPin, Going, ThreadOK, PlaceOK, LocalsOK,
       LeadOK, VacantOK, InstalledOK, ExactOK, EvictorOK, LatchOK
  <2> QED
    BY <1>2, <2>10, <2>11, <2>12, <2>15, <2>16, <2>17, <2>20, PinStepKeeps DEF Going, OwnersKept,
       TypedOver
<1>4. CASE UnpinFaulted(t)
  <2>19. At(t, "unpin") /\ UNCHANGED <<swip, pages, next_pid, leader>>
    BY <1>4 DEF UnpinFaulted, Unpin, At
  <2>10. th[t].frame \in Frames
    BY <1>2, <2>19 DEF At, LocalsOK, ThreadOK
  <2> DEFINE l == [th[t] EXCEPT !.pc = "land", !.result = "ok", !.frame = None]
  <2>13. "land" \in Places /\ None \notin Frames
    BY PoolAssumption DEF Places
  <2>14. l \in LocalsOver(D)
    BY <1>2, <2>13 DEF LocalsOver
  <2>21. th' = [th EXCEPT ![t] = l]
    BY <1>4 DEF UnpinFaulted
  <2>22. /\ l.pc = "land" /\ l.op = th[t].op /\ l.page = th[t].page /\ l.frame = None
         /\ l.ticket = th[t].ticket
    BY <1>2 DEF LocalsOver
  <2> HIDE DEF l
  <2>15. th' \in [Threads -> LocalsOver(D)] /\ Moves(t) /\ th'[t] = l
    BY <1>1, <2>14, <2>21, Becomes
  <2>9. frames' = [frames EXCEPT ![th[t].frame].pin = frames[th[t].frame].pin - 1]
    BY <1>4 DEF UnpinFaulted, Unpin, At
  <2>8. frames[th[t].frame].pin - 1 \in Int
    BY <1>2, <2>10 DEF EVICTING, SharedOver, FrameOver
  <2>20. /\ frames' \in [Frames -> FrameOver(D)] /\ OnlyPin(th[t].frame)
        /\ frames'[th[t].frame].pin = frames[th[t].frame].pin - 1
    BY <1>2, <2>8, <2>9, <2>10, PinSet
  <2>16. SharedOver(D)' /\ Rest
    BY <1>4, <1>2, <2>20 DEF UnpinFaulted, Unpin, At, SharedOver, Rest
  <2>18. /\ PinnedBy(th[t]) = {th[t].frame} /\ PinnedBy(th'[t]) = {}
        /\ ReservedBy(th'[t]) = ReservedBy(th[t])
    BY <1>2, <2>10, <2>15, <2>19, <2>13, <2>22 DEF At, OwnedBy, ReservedBy, PinnedBy, ThreadOK,
       PlaceOK
  <2>11. OwnedBy(th'[t]) = OwnedBy(th[t]) /\ NoNewPage(t)
    BY <1>2, <2>10, <2>15, <2>19, <2>13, <2>22 DEF At, NoNewPage, OwnedBy, ReservedBy, PinnedBy,
       ThreadOK, PlaceOK
  <2>12. (\A g \in Frames : PinOK(g))'
    BY <2>10, <2>15, <2>16, <2>18, <2>20, UnpinPins DEF Rest, OnlyPin, PinnersKept, ReserversKept
  <2>17. ThreadOK(t)'
    BY <1>2, <2>10, <2>15, <2>19, <2>20, <2>22 DEF At, OnlyPin, ThreadOK, PlaceOK, LocalsOK,
       LeadOK, VacantOK, InstalledOK, ExactOK, EvictorOK, LatchOK
  <2> QED
    BY <1>2, <2>10, <2>11, <2>12, <2>15, <2>16, <2>17, <2>20, PinStepKeeps DEF OwnersKept,
       TypedOver
<1> QED
  BY <1>3, <1>4

(***************************************************************************)
(* The first thread to fault a page becomes the leader of its flight;      *)
(* nobody led it before.                                                   *)
(***************************************************************************)
LEMMA LeadKeeps ==
    ASSUME IInv, NEW t \in Threads,
           FaultLeads(t)
    PROVE  IInv'
<1> USE DEF FixOps, FillPlaces, UndoPlaces, AcquirePlaces, EvictPlaces, EvictReserved, TaskPlaces,
            Fixing, GuardPlaces, Unreserved, Reserved, Published, EvictDetached,
            pageVars, queues, tiers, prefetchVars
<1>1. PICK D : TypedOver(D)
  BY DEF IInv
<1>2. th[t] \in LocalsOver(D) /\ SharedOver(D) /\ Values \subseteq D /\ ThreadOK(t)
  BY <1>1 DEF IInv, TypedOver
<1>3. /\ At(t, "fault") /\ UNCHANGED <<swip, pages, next_pid, frames, free, channel>>
      /\ leader[th[t].page] = None /\ leader' = [leader EXCEPT ![th[t].page] = t]
  BY DEF FaultLeads, At
<1>4. th[t].page \in Pages
  BY <1>2, <1>3, Needs DEF At, ThreadOK, PlaceOK, Backed, Operations, LocalsOver
<1>5. Going(t, D, "lead")
  BY <1>1, GotoGoes DEF FaultLeads, Places
<1>6. leader' \in [Pages -> Threads \cup {None}]
  BY <1>2, <1>3, <1>4 DEF SharedOver
<1>7. SharedOver(D)'
  BY <1>2, <1>6 DEF FaultLeads, SharedOver
<1>8. OwnersKept(t) /\ ReserversKept(t) /\ PinnersKept(t) /\ FreshKept(t)
  BY <1>2, <1>3, <1>5 DEF At, Going, OwnersKept, ReserversKept, PinnersKept, FreshKept,
     OwnedBy, ReservedBy, PinnedBy, ThreadOK, PlaceOK, IInv, FreshOK
<1>9. (\E E : TypedOver(E))' /\ Moves(t) /\ HomesKept /\ SwipsKept /\ PidsKept
  BY <1>2, <1>3, <1>5, <1>7 DEF Going, TypedOver, HomesKept, SwipsKept, PidsKept
<1>10. ThreadOK(t)'
  BY <1>2, <1>3, <1>4, <1>5 DEF At, Going, SharedOver, ThreadOK, PlaceOK, LocalsOK, LeadOK, VacantOK, InstalledOK, ExactOK, EvictorOK, LatchOK
<1>11. ASSUME NEW u \in Threads \ {t} PROVE ThreadOK(u)'
  <2>1. th'[u] = th[u] /\ Backed(u) /\ ThreadOK(u)
    BY <1>9, Needs DEF Moves, IInv
  <2>2. VacantOK(u)' /\ ExactOK(u)' /\ EvictorOK(u)' /\ InstalledOK(u)' /\ LatchOK(u)'
    BY <1>3, <1>9, <2>1, PageStays, TicketStays, FrameStays, LatchStays DEF LatchesKept
  <2>3. PlaceOK(u)' /\ LocalsOK(u)'
    BY <1>3, <2>1 DEF ThreadOK, PlaceOK, LocalsOK
  <2>4. u # None
    BY PoolAssumption
  <2>5. LeadOK(u)'
    BY <1>2, <1>3, <1>4, <2>1, <2>4 DEF ThreadOK, LeadOK, SharedOver, Backed
  <2> QED
    BY <2>2, <2>3, <2>5 DEF ThreadOK
<1>12. (\A g \in Frames : InOnePlace(g))' /\ (\A g \in Frames : PinOK(g))'
  BY <1>3, <1>8, <1>9, PlaceStays, PinsStay
<1>13. OccupantOK' /\ FreshOK'
  BY <1>8, <1>9, OccupantsStay, FreshStays
<1>14. LatchExcludes'
  BY <1>3 DEF IInv, LatchExcludes
<1> QED
  BY <1>9, <1>10, <1>11, <1>12, <1>13, <1>14 DEF IInv

(***************************************************************************)
(* Frame::install names the page in a frame that only the loader owns.     *)
(***************************************************************************)
LEMMA InstallKeeps ==
    ASSUME IInv, NEW t \in Threads,
           Install(t)
    PROVE  IInv'
<1> USE DEF FixOps, FillPlaces, UndoPlaces, AcquirePlaces, EvictPlaces, EvictReserved, TaskPlaces,
            Fixing, GuardPlaces, Unreserved, Reserved, Published, EvictDetached,
            pageVars, queues, tiers, prefetchVars
<1>1. PICK D : TypedOver(D)
  BY DEF IInv
<1>2. th[t] \in LocalsOver(D) /\ SharedOver(D) /\ Values \subseteq D /\ ThreadOK(t)
  BY <1>1 DEF IInv, TypedOver
<1> DEFINE f == th[t].frame
<1>3. At(t, "install") /\ UNCHANGED <<swip, pages, next_pid, free, leader, channel>>
  BY DEF Install, At
<1>4. f \in Frames /\ th[t].page \in Pages
  BY <1>2, <1>3, Needs DEF At, ThreadOK, PlaceOK, Backed, LocalsOK, Operations, LocalsOver
<1>5. Going(t, D, "publish")
  BY <1>1, GotoGoes DEF Install, Places
<1> DEFINE n == (frames[f].generation + 1) % GenerationMod
           d == (th[t].op = "alloc")
           r == [frames[f] EXCEPT !.pid = th[t].page, !.dirty = d, !.generation = n, !.snaps = {}]
<1>6. frames \in [Frames -> FrameOver(D)]
  BY <1>2 DEF SharedOver
<1>20. frames' = [frames EXCEPT ![f] = r]
  BY DEF Install
<1>23. frames[f].generation + 1 \in Nat /\ GenerationMod \in Nat \ {0}
  BY <1>4, <1>6, PoolAssumption DEF FrameOver, Generations
<1>21. n \in Generations
  BY <1>23 DEF Generations
<1>22. d \in BOOLEAN
  OBVIOUS
<1> HIDE DEF n, d
<1>7. r \in FrameOver(D)
  BY <1>4, <1>6, <1>21, <1>22 DEF FrameOver
<1>8. r.pin = frames[f].pin /\ r.writer = frames[f].writer /\ r.readers = frames[f].readers /\ r.pid = th[t].page
  BY <1>4, <1>6 DEF FrameOver
<1> HIDE DEF r
<1>9. /\ frames' \in [Frames -> FrameOver(D)] /\ frames'[f].pid = th[t].page
      /\ \A g \in Frames :
             /\ frames'[g].pin = frames[g].pin /\ frames'[g].writer = frames[g].writer
             /\ frames'[g].readers = frames[g].readers
      /\ \A g \in Frames \ {f} : frames'[g] = frames[g]
  BY <1>4, <1>6, <1>7, <1>8, <1>20
<1>10. SharedOver(D)'
  BY <1>2, <1>9 DEF Install, SharedOver
<1>11. (\E E : TypedOver(E))' /\ Moves(t) /\ HomesKept /\ SwipsKept
  BY <1>2, <1>3, <1>5, <1>10 DEF Going, TypedOver, HomesKept, SwipsKept
<1>12. /\ OwnedBy(th[t]) = {f} /\ OwnedBy(th'[t]) = OwnedBy(th[t])
       /\ ReservedBy(th'[t]) = ReservedBy(th[t])
       /\ PinnedBy(th'[t]) = PinnedBy(th[t]) /\ NoNewPage(t)
  BY <1>2, <1>3, <1>4, <1>5
     DEF At, Going, OwnedBy, ReservedBy, PinnedBy, NoNewPage, ThreadOK, PlaceOK
<1>13. ThreadOK(t)'
  BY <1>2, <1>3, <1>5, <1>9 DEF At, Going, ThreadOK, PlaceOK, LocalsOK, LeadOK, VacantOK, InstalledOK, ExactOK, EvictorOK, LatchOK
<1> HIDE DEF f
<1>14. ASSUME NEW u \in Threads \ {t} PROVE ThreadOK(u)'
  <2>1. th'[u] = th[u] /\ Backed(u) /\ InstalledOK(u)
    BY <1>11, Needs DEF Moves, IInv, ThreadOK
  <2>2. LatchesKept(u)
    BY <1>9 DEF LatchesKept
  <2>3. PlaceOK(u)' /\ LocalsOK(u)' /\ LeadOK(u)' /\ VacantOK(u)' /\ ExactOK(u)' /\ EvictorOK(u)' /\ LatchOK(u)'
    BY <1>3, <1>11, <2>1, <2>2, LocalsStay, PageStays, TicketStays, LatchStays
  <2>4. f \notin OwnedBy(th[u])
    BY <1>4, <1>12, Sole
  <2>5. InstalledOK(u)'
    BY <1>9, <2>1, <2>4 DEF InstalledOK, Backed, OwnedBy
  <2> QED
    BY <2>3, <2>5 DEF ThreadOK
<1>15. (\A g \in Frames : InOnePlace(g))'
  BY <1>3, <1>11, <1>12, PlaceStays DEF OwnersKept
<1>16. (\A g \in Frames : PinOK(g))'
  BY <1>3, <1>9, <1>11, <1>12, PinsStay DEF ReserversKept, PinnersKept
<1>17. OccupantOK'
  <2> SUFFICES ASSUME NEW q \in Pages, NEW g \in Frames, ResidentAt(q, g)' PROVE frames'[g].pid = q
    BY DEF OccupantOK
  <2>1. ResidentAt(q, g)
    BY <1>3 DEF ResidentAt
  <2>2. g # f
    BY <1>12, <2>1, Sole
  <2> QED
    BY <1>9, <2>1, <2>2 DEF IInv, OccupantOK
<1>18. FreshOK'
  BY <1>3, <1>11, <1>12, FreshStays DEF FreshKept, NoNewPage, IInv, FreshOK
<1>19. LatchExcludes'
  BY <1>9 DEF IInv, LatchExcludes
<1> QED
  BY <1>11, <1>13, <1>14, <1>15, <1>16, <1>17, <1>18, <1>19 DEF IInv

(***************************************************************************)
(* try_swizzle makes the owned frame the page's: nobody else is filling    *)
(* the page in, and it had no frame.                                       *)
(***************************************************************************)
LEMMA SwizzleKeeps ==
    ASSUME IInv, NEW t \in Threads,
           Swizzle(t)
    PROVE  IInv'
<1> USE DEF FixOps, FillPlaces, UndoPlaces, AcquirePlaces, EvictPlaces, EvictReserved, TaskPlaces,
            Fixing, GuardPlaces, Unreserved, Reserved, Published, EvictDetached,
            pageVars, queues, tiers, prefetchVars
<1>1. PICK D : TypedOver(D)
  BY DEF IInv
<1>2. th[t] \in LocalsOver(D) /\ SharedOver(D) /\ Values \subseteq D /\ ThreadOK(t)
  BY <1>1 DEF IInv, TypedOver
<1>30. PICK f : f = th[t].frame
  OBVIOUS
<1>31. PICK p : p = th[t].page
  OBVIOUS
<1> DEFINE to == IF th[t].op = "alloc" THEN "latch" ELSE "unpin"
<1>3. /\ At(t, "swizzle") /\ UNCHANGED <<pages, next_pid, frames, free, leader, channel>>
      /\ swip[p] = Evicted /\ swip' = [swip EXCEPT ![p] = Hot(f)]
  BY <1>30, <1>31 DEF Swizzle, SetSwip, At
<1>4. f \in Frames /\ p \in Pages
  BY <1>2, <1>3, <1>30, <1>31, Needs DEF At, ThreadOK, PlaceOK, Backed, LocalsOK, Operations, LocalsOver
<1>5. Going(t, D, to)
  BY <1>1, GotoGoes DEF Swizzle, Places
<1>20. (to = "latch" /\ th[t].op = "alloc") \/ (to = "unpin" /\ th[t].op # "alloc")
  OBVIOUS
<1>6. swip \in [Pages -> SwipStates] /\ swip' \in [Pages -> SwipStates]
  BY <1>2, <1>3, <1>4 DEF SharedOver, SwipStates, Hot
<1>7. SharedOver(D)'
  BY <1>2, <1>6 DEF Swizzle, SharedOver
<1> HIDE DEF to
<1>8. /\ OwnedBy(th[t]) = {f} /\ OwnedBy(th'[t]) = {} /\ ReservedBy(th'[t]) = ReservedBy(th[t])
      /\ PinnedBy(th'[t]) = PinnedBy(th[t]) /\ NoNewPage(t)
  BY <1>2, <1>3, <1>4, <1>5, <1>20, <1>30
     DEF At, Going, OwnedBy, ReservedBy, PinnedBy, NoNewPage, ThreadOK, PlaceOK
<1>9. (\E E : TypedOver(E))' /\ Moves(t)
  BY <1>2, <1>5, <1>7 DEF Going, TypedOver
<1>32. /\ \A q \in Pages \ {p} : swip'[q] = swip[q]
       /\ swip'[p] = Hot(f)
  BY <1>3, <1>4, <1>6
<1>33. Hot(f) # Evicted /\ \A g : Evicted \notin {Hot(g), Cooling(g)}
  BY DEF Hot, Cooling, Evicted
<1>34. \A g : Hot(f) \in {Hot(g), Cooling(g)} <=> (g = f)
  BY DEF Hot, Cooling
<1>35. \A g \in Frames : ~ResidentAt(p, g)
  BY <1>3, <1>33 DEF ResidentAt
<1>36. \A g \in Frames, q \in Pages \ {p} : ResidentAt(q, g)' <=> ResidentAt(q, g)
  BY <1>32 DEF ResidentAt
<1>37. \A g \in Frames : ResidentAt(p, g)' <=> (g = f)
  BY <1>32, <1>34 DEF ResidentAt
<1>21. /\ th[t].op \in FixOps \cup {"prefetch"} => leader[p] = t /\ p \in pages
       /\ th[t].op \notin FixOps \cup {"prefetch"} => th[t].op = "alloc" /\ p \notin pages /\ p < next_pid
  BY <1>2, <1>3, <1>31 DEF At, ThreadOK, LeadOK, PlaceOK, LocalsOK, Operations, LocalsOver
<1>22. frames[f].pid = p /\ p \in 0 .. MaxPid
  BY <1>2, <1>3, <1>4, <1>30, <1>31 DEF At, ThreadOK, InstalledOK, Pages
<1>11. ThreadOK(t)'
  BY <1>30, <1>31, <1>2, <1>3, <1>4, <1>5, <1>32, <1>33, <1>35, <1>36, <1>37, <1>20 DEF At, Going, ThreadOK, PlaceOK, LocalsOK, LeadOK, VacantOK, InstalledOK, ExactOK, EvictorOK, LatchOK
<1>12. ASSUME NEW u \in Threads \ {t} PROVE ThreadOK(u)'
  <2>1. th'[u] = th[u] /\ Backed(u) /\ ThreadOK(u)
    BY <1>9, Needs DEF Moves, IInv
  <2>2. PlaceOK(u)' /\ LocalsOK(u)' /\ LeadOK(u)' /\ InstalledOK(u)' /\ LatchOK(u)'
    BY <1>3, <2>1, LocalsStay, FrameStays, LatchStays DEF PidsKept, LatchesKept
  <2>3. VacantOK(u)'
    <3> SUFFICES ASSUME \/ th[u].op \in FixOps /\ th[u].pc \in AcquirePlaces \cup FillPlaces
                        \/ th[u].op \in {"prefetch", "alloc"} /\ th[u].pc \in FillPlaces \cup {"marker"}
                 PROVE  swip'[th[u].page] = Evicted
      BY <2>1 DEF VacantOK
    <3>1. swip[th[u].page] = Evicted /\ th[u].page \in Pages
      BY <2>1 DEF ThreadOK, VacantOK, Backed
    <3>2. CASE th[u].op \in FixOps \cup {"prefetch"}
      <4>1. leader[th[u].page] = u /\ th[u].page \in pages
        BY <2>1, <3>2 DEF ThreadOK, LeadOK, LocalsOK
      <4> QED
        BY <1>32, <1>33, <1>35, <1>36, <1>37, <1>21, <3>1, <4>1
    <3>3. CASE th[u].op = "alloc"
      <4>1. th[u].page \in Pages \ pages
        BY <2>1, <3>3 DEF ThreadOK, PlaceOK, LocalsOK
      <4>2. None \notin Pages
        BY PoolAssumption
      <4>3. th[u].page # p
        BY <1>21, <1>31, <3>3, <4>1, <4>2 DEF IInv, FreshOK
      <4> QED
        BY <1>32, <1>33, <1>35, <1>36, <1>37, <3>1, <4>3
    <3> QED
      BY <3>2, <3>3
  <2>4. ExactOK(u)'
    BY <1>32, <1>33, <1>35, <1>36, <1>37, <2>1 DEF ExactOK, Backed, ThreadOK
  <2>5. EvictorOK(u)'
    <3> SUFFICES ASSUME th[u].pc \in {"ev_write", "ev_publish", "ev_unswizzle"}
                 PROVE  swip'[th[u].ticket.pid] = Cooling(th[u].ticket.frame)
      BY <2>1 DEF EvictorOK
    <3>1. /\ th[u].ticket.pid \in Pages /\ th[u].ticket.frame \in Frames
          /\ swip[th[u].ticket.pid] = Cooling(th[u].ticket.frame)
      BY <2>1 DEF Backed, ThreadOK, EvictorOK
    <3>2. th[u].ticket.pid # p
      BY <1>32, <1>33, <1>35, <1>36, <1>37, <3>1 DEF ResidentAt
    <3> QED
      BY <1>32, <1>33, <1>35, <1>36, <1>37, <3>1, <3>2
  <2> QED
    BY <2>2, <2>3, <2>4, <2>5 DEF ThreadOK
<1>13. ASSUME NEW g \in Frames PROVE InOnePlace(g)'
  <2>1. FreeAt(g)' = FreeAt(g) /\ TasksWith(g)' = TasksWith(g) /\ InOnePlace(g)
    BY <1>3 DEF FreeAt, TasksWith, IInv
  <2>2. CASE g = f
    <3>1. t \in Owners(g)
      BY <1>8, <1>9, <2>2, ViewsMove
    <3>2. Owners(g) = {t} /\ Occupants(g) = {} /\ FreeAt(g) = {} /\ TasksWith(g) = {}
      BY <2>1, <3>1 DEF InOnePlace, Single
    <3>3. Occupants(g)' = {p}
      BY <1>4, <1>32, <1>33, <1>35, <1>36, <1>37, <2>2, <3>2 DEF Occupants
    <3>4. Owners(g)' = {}
      BY <1>8, <1>9, <2>2, <3>2, ViewsMove
    <3> QED
      BY <2>1, <3>2, <3>3, <3>4 DEF InOnePlace, Single
  <2>3. CASE g # f
    <3>1. Owners(g)' = Owners(g)
      BY <1>8, <1>9, <2>3, ViewsSame
    <3>2. Occupants(g)' = Occupants(g)
      BY <1>32, <1>33, <1>35, <1>36, <1>37, <2>3 DEF Occupants
    <3> QED
      BY <2>1, <3>1, <3>2 DEF InOnePlace
  <2> QED
    BY <2>2, <2>3
<1>14. (\A g \in Frames : PinOK(g))'
  BY <1>3, <1>8, <1>9, PinsStay DEF ReserversKept, PinnersKept
<1>15. OccupantOK'
  BY <1>3, <1>32, <1>33, <1>35, <1>36, <1>37, <1>22 DEF IInv, OccupantOK
<1>16. FreshOK'
  <2>1. \A u, v \in Threads :
            th'[u].op = "alloc" /\ th'[v].op = "alloc" /\ th'[u].page = th'[v].page
                /\ th'[u].page # None => u = v
    BY <1>8, <1>9 DEF NoNewPage, Moves, IInv, FreshOK
  <2>2. p < next_pid
    BY <1>21 DEF IInv, FreshOK
  <2> QED
    BY <1>3, <1>32, <1>33, <1>35, <1>36, <1>37, <2>1, <2>2 DEF IInv, FreshOK
<1>17. LatchExcludes'
  BY <1>3 DEF IInv, LatchExcludes
<1> QED
  BY <1>9, <1>11, <1>12, <1>13, <1>14, <1>15, <1>16, <1>17 DEF IInv

(***************************************************************************)
(* The leader lands: its followers are answered, and the page may be       *)
(* faulted again.                                                          *)
(***************************************************************************)
LEMMA LandKeeps ==
    ASSUME IInv, NEW t \in Threads,
           Land(t)
    PROVE  IInv'
<1> USE DEF FixOps, FillPlaces, UndoPlaces, AcquirePlaces, EvictPlaces, EvictReserved, TaskPlaces,
            Fixing, GuardPlaces, Unreserved, Reserved, Published, EvictDetached,
            pageVars, queues, tiers, prefetchVars
<1>1. PICK D : TypedOver(D)
  BY DEF IInv
<1>2. th[t] \in LocalsOver(D) /\ SharedOver(D) /\ Values \subseteq D /\ ThreadOK(t)
  BY <1>1 DEF IInv, TypedOver
<1>3. At(t, "land") /\ UNCHANGED <<swip, pages, next_pid, frames, free, channel>>
  BY DEF Land, At
<1>4. PICK p : p = th[t].page
  OBVIOUS
<1>5. PICK l : l = AfterFault(t, th[t].result)
  OBVIOUS
<1>6. Outcome(t, D, l)
  BY <1>1, <1>2, <1>3, <1>5, AfterFaultGoes DEF At, ThreadOK
<1>7. p \in Pages /\ leader[p] = t
  BY <1>2, <1>3, <1>4, Needs DEF At, ThreadOK, PlaceOK, LeadOK, Backed, Operations, LocalsOver
<1>8. leader' = [leader EXCEPT ![p] = None]
  BY <1>4 DEF Land
<1>9. th'[t] = l /\ DOMAIN th' = Threads /\ th' = [u \in Threads |-> th'[u]]
  BY <1>5 DEF Land
<1>10. ASSUME NEW u \in Threads \ {t}
       PROVE  \/ th'[u] = th[u]
              \/ th[u].pc = "follow" /\ th'[u] = [th[u] EXCEPT !.pc = "answered", !.result = th[t].result]
  BY DEF Land
<1>11. ASSUME NEW u \in Threads \ {t}
       PROVE  /\ th'[u] \in LocalsOver(D)
              /\ th'[u] = th[u] \/ (th[u].pc = "follow" /\ th'[u].pc = "answered")
              /\ th'[u].op = th[u].op /\ th'[u].page = th[u].page
              /\ th'[u].frame = th[u].frame /\ th'[u].ticket = th[u].ticket
  <2>1. th[u] \in LocalsOver(D)
    BY <1>1 DEF TypedOver
  <2>2. CASE th'[u] = th[u]
    BY <2>1, <2>2
  <2>3. CASE th[u].pc = "follow" /\ th'[u] = [th[u] EXCEPT !.pc = "answered", !.result = th[t].result]
    <3> DEFINE m == [th[u] EXCEPT !.pc = "answered", !.result = th[t].result]
    <3>1. "answered" \in Places
      BY DEF Places
    <3>2. th[t].result \in {"ok", "error", "stale", None}
      BY <1>2 DEF LocalsOver
    <3>3. m \in LocalsOver(D)
      BY <2>1, <3>1, <3>2 DEF LocalsOver
    <3>4. /\ m.pc = "answered" /\ m.op = th[u].op /\ m.page = th[u].page
          /\ m.frame = th[u].frame /\ m.ticket = th[u].ticket
      BY <2>1 DEF LocalsOver
    <3> QED
      BY <2>3, <3>3, <3>4
  <2> QED
    BY <1>10, <2>2, <2>3
<1>12. th' \in [Threads -> LocalsOver(D)]
  BY <1>6, <1>9, <1>11 DEF Outcome
<1>13. leader' \in [Pages -> Threads \cup {None}]
  BY <1>2, <1>8 DEF SharedOver
<1>14. SharedOver(D)' /\ (\E E : TypedOver(E))'
  BY <1>2, <1>12, <1>13 DEF Land, SharedOver, TypedOver
<1>15. ASSUME NEW u \in Threads \ {t}
       PROVE  /\ OwnedBy(th'[u]) = OwnedBy(th[u]) /\ ReservedBy(th'[u]) = ReservedBy(th[u])
              /\ PinnedBy(th'[u]) = PinnedBy(th[u])
  BY <1>11 DEF OwnedBy, ReservedBy, PinnedBy
<1>16. /\ th[t].op # "alloc" /\ l.op # "alloc"
       /\ th[t].op \in FixOps \cup {"prefetch"}
  BY <1>2, <1>3, <1>6, PoolAssumption
     DEF At, Outcome, Idle, Operations, ThreadOK, PlaceOK, LocalsOver
<1>17. None \notin Frames
  BY PoolAssumption
<1>18. th[t].frame \in Frames \cup {None}
  BY <1>2 DEF LocalsOver
<1>19. /\ OwnedBy(l) = OwnedBy(th[t]) /\ ReservedBy(l) = ReservedBy(th[t])
       /\ PinnedBy(l) = PinnedBy(th[t])
  <2>1. CASE th[t].op \in FixOps
    <3>1. l.pc = "load" \/ l.pc = "idle"
      BY <1>6, <2>1 DEF Outcome, Idle
    <3> QED
      BY <1>3, <2>1, <3>1 DEF At, OwnedBy, ReservedBy, PinnedBy
  <2>2. CASE th[t].op = "prefetch"
    <3>1. /\ l.pc = IF th[t].frame = None THEN "unreserve" ELSE "undo_release"
          /\ l.op = th[t].op /\ l.frame = th[t].frame
      BY <1>6, <2>2 DEF Outcome
    <3> QED
      BY <1>3, <1>17, <2>2, <3>1 DEF At, OwnedBy, ReservedBy, PinnedBy
  <2> QED
    BY <1>16, <2>1, <2>2
<1>20. ASSUME NEW f \in Frames
       PROVE  Owners(f)' = Owners(f) /\ Reservers(f)' = Reservers(f) /\ Pinners(f)' = Pinners(f)
  <2>1. \A u \in Threads : /\ OwnedBy(th'[u]) = OwnedBy(th[u]) /\ ReservedBy(th'[u]) = ReservedBy(th[u])
                           /\ PinnedBy(th'[u]) = PinnedBy(th[u])
    BY <1>9, <1>15, <1>19
  <2>2. Owners(f) = {u \in Threads : f \in OwnedBy(th[u])} /\ Owners(f)' = {u \in Threads : f \in OwnedBy(th'[u])}
    BY Views
  <2>3. Reservers(f) = {u \in Threads : f \in ReservedBy(th[u])} /\ Reservers(f)' = {u \in Threads : f \in ReservedBy(th'[u])}
    BY Views
  <2>4. Pinners(f) = {u \in Threads : f \in PinnedBy(th[u])} /\ Pinners(f)' = {u \in Threads : f \in PinnedBy(th'[u])}
    BY Views
  <2> QED
    BY <2>1, <2>2, <2>3, <2>4
<1>21. ASSUME NEW f \in Frames PROVE InOnePlace(f)' /\ PinOK(f)'
  <2>1. FreeAt(f)' = FreeAt(f) /\ TasksWith(f)' = TasksWith(f) /\ Occupants(f)' = Occupants(f)
    BY <1>3 DEF FreeAt, TasksWith, Occupants, ResidentAt
  <2>2. InOnePlace(f) /\ PinOK(f)
    BY DEF IInv
  <2> QED
    BY <1>3, <1>20, <2>1, <2>2 DEF InOnePlace, PinOK
<1>22. ThreadOK(t)'
  <2>1. CASE l = Idle
    <3>1. th'[t].pc = "idle" /\ th'[t].op = None /\ th'[t] = Idle /\ None \notin Operations
      BY <1>9, <2>1, PoolAssumption DEF Idle
    <3> QED
      BY <3>1 DEF Operations, ThreadOK, PlaceOK, LocalsOK, LeadOK, VacantOK, InstalledOK, ExactOK, EvictorOK, LatchOK
  <2>2. CASE l # Idle /\ th[t].op \in FixOps
    <3>1. th'[t].pc = "load" /\ th'[t].op = th[t].op /\ th'[t].page = th[t].page
      BY <1>6, <1>9, <2>2 DEF Outcome
    <3> QED
      BY <1>2, <1>3, <2>2, <3>1 DEF At, ThreadOK, PlaceOK, LocalsOK, LeadOK, VacantOK, InstalledOK, ExactOK, EvictorOK, LatchOK
  <2>3. CASE th[t].op = "prefetch"
    <3>1. /\ th'[t].pc = IF th[t].frame = None THEN "unreserve" ELSE "undo_release"
          /\ th'[t].op = th[t].op /\ th'[t].page = th[t].page /\ th'[t].frame = th[t].frame
      BY <1>6, <1>9, <2>3 DEF Outcome
    <3> QED
      BY <1>2, <1>3, <1>18, <2>3, <3>1 DEF At, ThreadOK, PlaceOK, LocalsOK, LeadOK, VacantOK, InstalledOK, ExactOK, EvictorOK, LatchOK
  <2> QED
    BY <1>16, <2>1, <2>2, <2>3
<1>23. ASSUME NEW u \in Threads \ {t} PROVE ThreadOK(u)'
  <2>1. ThreadOK(u) /\ Backed(u)
    BY Needs DEF IInv
  <2>2. LeadOK(u)'
    BY <1>2, <1>7, <1>8, <1>11, <2>1 DEF ThreadOK, LeadOK, Backed, SharedOver
  <2>3. PlaceOK(u)' /\ LocalsOK(u)'
    BY <1>3, <1>11, <2>1 DEF ThreadOK, PlaceOK, LocalsOK
  <2>4. VacantOK(u)' /\ InstalledOK(u)' /\ ExactOK(u)' /\ EvictorOK(u)'
    BY <1>3, <1>11, <2>1 DEF ThreadOK, VacantOK, InstalledOK, ExactOK, EvictorOK, ResidentAt
  <2>5. LatchOK(u)'
    BY <1>3, <1>11, <2>1 DEF ThreadOK, LatchOK, SharedFix
  <2> QED
    BY <2>2, <2>3, <2>4, <2>5 DEF ThreadOK
<1>24. FreshOK'
  <2>1. \A u \in Threads : th'[u].op = "alloc" => u # t /\ th[u].op = "alloc" /\ th'[u].page = th[u].page
    BY <1>9, <1>11, <1>16
  <2> QED
    BY <1>3, <2>1 DEF IInv, FreshOK
<1>25. OccupantOK' /\ LatchExcludes'
  BY <1>3 DEF IInv, OccupantOK, LatchExcludes, ResidentAt
<1>26. \A u \in Threads : ThreadOK(u)'
  BY <1>22, <1>23
<1> QED
  BY <1>14, <1>21, <1>24, <1>25, <1>26 DEF IInv

(***************************************************************************)
(* The calls that start, look at the tagged word, or stop.                 *)
(***************************************************************************)
LEMMA CallsKeep ==
    ASSUME IInv, NEW t \in Threads,
           \/ Allocate(t) \/ Fix(t) \/ FixStops(t) \/ LoadSwip(t)
           \/ PinRefused(t)
    PROVE  IInv'
<1> USE DEF FixOps, FillPlaces, UndoPlaces, AcquirePlaces, EvictPlaces, EvictReserved, TaskPlaces,
            Fixing, GuardPlaces, Unreserved, Reserved, Published, EvictDetached,
            pageVars, queues, tiers, prefetchVars
<1>1. PICK D : TypedOver(D)
  BY DEF IInv
<1>2. th[t] \in LocalsOver(D) /\ SharedOver(D) /\ Values \subseteq D /\ ThreadOK(t)
  BY <1>1 DEF IInv, TypedOver
<1>3. CASE Allocate(t)
  <2> DEFINE l == [th[t] EXCEPT !.pc = "acquire", !.op = "alloc"]
  <2>10. {"acquire"} \subseteq Places
    BY DEF Places
  <2>11. "alloc" \in Operations
    BY <1>3, <1>2 DEF Allocate, Starts, At, SharedOver, LocalsOver, Operations
  <2>12. l \in LocalsOver(D)
    BY <1>2, <2>10, <2>11 DEF LocalsOver
  <2>13. th' = [th EXCEPT ![t] = l]
    BY <1>3, <1>1, <1>2 DEF Allocate, Starts, At, TypedOver, LocalsOver
  <2>14. /\ l.pc = "acquire" /\ l.op = "alloc" /\ l.page = th[t].page
        /\ l.frame = th[t].frame /\ l.ticket = th[t].ticket
    BY <1>3, <1>2 DEF Allocate, Starts, At, LocalsOver
  <2> HIDE DEF l
  <2>15. th' \in [Threads -> LocalsOver(D)] /\ Moves(t) /\ th'[t] = l
    BY <1>1, <2>12, <2>13, Becomes
  <2>19. At(t, "idle") /\ UNCHANGED <<swip, pages, next_pid, frames, leader>>
    BY <1>3 DEF Allocate, Starts, At
  <2>16. SharedOver(D)' /\ Calm
    BY <1>3, <1>2 DEF Allocate, Starts, At, SharedOver, Calm, FramesKept, SwipsKept
  <2>17. ThreadOK(t)'
    BY <2>19, <1>2, <2>14, <2>15 DEF At, ThreadOK, PlaceOK, LocalsOK, LeadOK, VacantOK,
       InstalledOK, ExactOK, EvictorOK, LatchOK, Idle
  <2>18. ViewsKept(t)
    BY <2>19, <1>2, <2>14, <2>15 DEF At, ViewsKept, OwnedBy, ReservedBy, PinnedBy, ThreadOK,
       PlaceOK, Idle
  <2> QED
    BY <1>2, <2>15, <2>16, <2>17, <2>18, QuietKeeps DEF Quiet, TypedOver
<1>4. CASE Fix(t)
  <2>1. PICK o \in FixOps, p \in pages :
            Starts(t, o) /\ th' = [th EXCEPT ![t].pc = "load", ![t].op = o, ![t].page = p]
    BY <1>4 DEF Fix
  <2>2. CASE TRUE
    <3> DEFINE l == [th[t] EXCEPT !.pc = "load", !.op = o, !.page = p]
    <3>10. {"load"} \subseteq Places
      BY DEF Places
    <3>11. o \in Operations /\ p \in Pages
      BY <2>2, <1>4, <2>1, <1>2 DEF Fix, Starts, At, SharedOver, LocalsOver, Operations
    <3>12. l \in LocalsOver(D)
      BY <1>2, <3>10, <3>11 DEF LocalsOver
    <3>13. th' = [th EXCEPT ![t] = l]
      BY <2>2, <1>4, <2>1, <1>1, <1>2 DEF Fix, Starts, At, TypedOver, LocalsOver
    <3>14. /\ l.pc = "load" /\ l.op = o /\ l.page = p
          /\ l.frame = th[t].frame /\ l.ticket = th[t].ticket
      BY <2>2, <1>4, <2>1, <1>2 DEF Fix, Starts, At, LocalsOver
    <3> HIDE DEF l
    <3>15. th' \in [Threads -> LocalsOver(D)] /\ Moves(t) /\ th'[t] = l
      BY <1>1, <3>12, <3>13, Becomes
    <3>19. At(t, "idle") /\ UNCHANGED <<swip, pages, next_pid, frames, leader>>
      BY <2>2, <1>4, <2>1 DEF Fix, Starts, At
    <3>16. SharedOver(D)' /\ Calm
      BY <2>2, <1>4, <2>1, <1>2 DEF Fix, Starts, At, SharedOver, Calm, FramesKept, SwipsKept
    <3>17. ThreadOK(t)'
      BY <3>19, <1>2, <3>14, <3>15, <2>1 DEF At, ThreadOK, PlaceOK, LocalsOK, LeadOK, VacantOK,
         InstalledOK, ExactOK, EvictorOK, LatchOK, Idle
    <3>18. ViewsKept(t)
      BY <3>19, <1>2, <3>14, <3>15, <2>1 DEF At, ViewsKept, OwnedBy, ReservedBy, PinnedBy,
         ThreadOK, PlaceOK, Idle
    <3> QED
      BY <1>2, <3>15, <3>16, <3>17, <3>18, QuietKeeps DEF Quiet, TypedOver
  <2> QED
    BY <2>2
<1>5. CASE FixStops(t)
  <2>15. Gone(t, D) /\ ThreadOK(t)'
    BY <1>5, <1>1, LeaveGoes DEF FixStops, Leave, At
  <2>16. SharedOver(D)' /\ Calm
    BY <1>5, <1>2 DEF FixStops, Leave, At, SharedOver, Calm, FramesKept, SwipsKept
  <2>17. OwnedBy(th[t]) = {} /\ ReservedBy(th[t]) = {} /\ PinnedBy(th[t]) = {}
    BY <1>5, <1>2 DEF FixStops, Leave, At, OwnedBy, ReservedBy, PinnedBy, ThreadOK, PlaceOK
  <2> QED
    BY <1>1, <2>15, <2>16, <2>17, LeaveKeeps
<1>6. CASE LoadSwip(t)
  <2>1. th[t].page \in Pages
    BY <1>2, <1>6, Needs DEF LoadSwip, At, ThreadOK, PlaceOK, Backed, Operations, LocalsOver
  <2>2. CASE swip[th[t].page] = Evicted
    <3> DEFINE l == [th[t] EXCEPT !.pc = "fault", !.faulted = TRUE]
    <3>10. {"fault"} \subseteq Places
      BY DEF Places
    <3>12. l \in LocalsOver(D)
      BY <1>2, <3>10 DEF LocalsOver
    <3>13. th' = [th EXCEPT ![t] = l]
      BY <2>2, <1>6, <1>1, <1>2 DEF LoadSwip, At, TypedOver, LocalsOver
    <3>14. /\ l.pc = "fault" /\ l.op = th[t].op /\ l.page = th[t].page
          /\ l.frame = th[t].frame /\ l.ticket = th[t].ticket
      BY <2>2, <1>6, <1>2 DEF LoadSwip, At, LocalsOver
    <3> HIDE DEF l
    <3>15. th' \in [Threads -> LocalsOver(D)] /\ Moves(t) /\ th'[t] = l
      BY <1>1, <3>12, <3>13, Becomes
    <3>19. At(t, "load") /\ UNCHANGED <<swip, pages, next_pid, frames, leader>>
      BY <2>2, <1>6 DEF LoadSwip, At
    <3>16. SharedOver(D)' /\ Calm
      BY <2>2, <1>6, <1>2 DEF LoadSwip, At, SharedOver, Calm, FramesKept, SwipsKept
    <3>17. ThreadOK(t)'
      BY <3>19, <1>2, <3>14, <3>15 DEF At, ThreadOK, PlaceOK, LocalsOK, LeadOK, VacantOK,
         InstalledOK, ExactOK, EvictorOK, LatchOK
    <3>18. ViewsKept(t)
      BY <3>19, <1>2, <3>14, <3>15 DEF At, ViewsKept, OwnedBy, ReservedBy, PinnedBy, ThreadOK,
         PlaceOK
    <3> QED
      BY <1>2, <3>15, <3>16, <3>17, <3>18, QuietKeeps DEF Quiet, TypedOver
  <2>3. CASE swip[th[t].page] # Evicted
    <3> DEFINE l == [th[t] EXCEPT !.pc = "pin", !.frame = swip[th[t].page].frame]
    <3>10. {"pin"} \subseteq Places
      BY DEF Places
    <3>11. swip[th[t].page].frame \in Frames
      BY <2>3, <1>6, <1>2, <2>1 DEF LoadSwip, At, SharedOver, LocalsOver, SwipStates
    <3>12. l \in LocalsOver(D)
      BY <1>2, <3>10, <3>11 DEF LocalsOver
    <3>13. th' = [th EXCEPT ![t] = l]
      BY <2>3, <1>6, <1>1, <1>2 DEF LoadSwip, At, TypedOver, LocalsOver
    <3>14. /\ l.pc = "pin" /\ l.op = th[t].op /\ l.page = th[t].page
          /\ l.frame = swip[th[t].page].frame /\ l.ticket = th[t].ticket
      BY <2>3, <1>6, <1>2 DEF LoadSwip, At, LocalsOver
    <3> HIDE DEF l
    <3>15. th' \in [Threads -> LocalsOver(D)] /\ Moves(t) /\ th'[t] = l
      BY <1>1, <3>12, <3>13, Becomes
    <3>19. At(t, "load") /\ UNCHANGED <<swip, pages, next_pid, frames, leader>>
      BY <2>3, <1>6 DEF LoadSwip, At
    <3>16. SharedOver(D)' /\ Calm
      BY <2>3, <1>6, <1>2 DEF LoadSwip, At, SharedOver, Calm, FramesKept, SwipsKept
    <3>17. ThreadOK(t)'
      BY <3>19, <1>2, <3>14, <3>15, <3>11 DEF At, ThreadOK, PlaceOK, LocalsOK, LeadOK, VacantOK,
         InstalledOK, ExactOK, EvictorOK, LatchOK
    <3>18. ViewsKept(t)
      BY <3>19, <1>2, <3>14, <3>15, <3>11 DEF At, ViewsKept, OwnedBy, ReservedBy, PinnedBy,
         ThreadOK, PlaceOK
    <3> QED
      BY <1>2, <3>15, <3>16, <3>17, <3>18, QuietKeeps DEF Quiet, TypedOver
  <2> QED
    BY <2>2, <2>3
<1>7. CASE PinRefused(t)
  <2> DEFINE l == [th[t] EXCEPT !.pc = "load", !.frame = None]
  <2>10. {"load"} \subseteq Places
    BY DEF Places
  <2>12. l \in LocalsOver(D)
    BY <1>2, <2>10 DEF LocalsOver
  <2>13. th' = [th EXCEPT ![t] = l]
    BY <1>7, <1>1, <1>2 DEF PinRefused, At, TypedOver, LocalsOver
  <2>14. /\ l.pc = "load" /\ l.op = th[t].op /\ l.page = th[t].page
        /\ l.frame = None /\ l.ticket = th[t].ticket
    BY <1>7, <1>2 DEF PinRefused, At, LocalsOver
  <2> HIDE DEF l
  <2>15. th' \in [Threads -> LocalsOver(D)] /\ Moves(t) /\ th'[t] = l
    BY <1>1, <2>12, <2>13, Becomes
  <2>19. At(t, "pin") /\ UNCHANGED <<swip, pages, next_pid, frames, leader>>
    BY <1>7 DEF PinRefused, At
  <2>16. SharedOver(D)' /\ Calm
    BY <1>7, <1>2 DEF PinRefused, At, SharedOver, Calm, FramesKept, SwipsKept
  <2>17. ThreadOK(t)'
    BY <2>19, <1>2, <2>14, <2>15 DEF At, ThreadOK, PlaceOK, LocalsOK, LeadOK, VacantOK,
       InstalledOK, ExactOK, EvictorOK, LatchOK
  <2>18. ViewsKept(t)
    BY <2>19, <1>2, <2>14, <2>15 DEF At, ViewsKept, OwnedBy, ReservedBy, PinnedBy, ThreadOK,
       PlaceOK
  <2> QED
    BY <1>2, <2>15, <2>16, <2>17, <2>18, QuietKeeps DEF Quiet, TypedOver
<1> QED
  BY <1>3, <1>4, <1>5, <1>6, <1>7

(***************************************************************************)
(* A prefetch request before it has a frame and after it has lost it, and  *)
(* the gate it passes.                                                     *)
(***************************************************************************)
LEMMA RequestsKeep ==
    ASSUME IInv, NEW t \in Threads,
           \/ SubmitPrefetch(t) \/ SubmitChecks(t) \/ DropPrefetchReservation(t)
    PROVE  IInv'
<1> USE DEF FixOps, FillPlaces, UndoPlaces, AcquirePlaces, EvictPlaces, EvictReserved, TaskPlaces,
            Fixing, GuardPlaces, Unreserved, Reserved, Published, EvictDetached,
            pageVars, queues, tiers, prefetchVars
<1>1. PICK D : TypedOver(D)
  BY DEF IInv
<1>2. th[t] \in LocalsOver(D) /\ SharedOver(D) /\ Values \subseteq D /\ ThreadOK(t)
  BY <1>1 DEF IInv, TypedOver
<1>3. CASE SubmitPrefetch(t)
  <2>1. PICK p \in pages \ pending :
            /\ swip[p] = Evicted
            /\ pending' = pending \cup {p}
            /\ th' = [th EXCEPT ![t].pc = "pf_pop", ![t].op = "submit", ![t].page = p]
    BY <1>3 DEF SubmitPrefetch
  <2>3. pending' \in SUBSET Pages
    BY <1>2, <2>1 DEF SharedOver
  <2>2. CASE TRUE
    <3> DEFINE l == [th[t] EXCEPT !.pc = "pf_pop", !.op = "submit", !.page = p]
    <3>10. {"pf_pop"} \subseteq Places
      BY DEF Places
    <3>11. "submit" \in Operations /\ p \in Pages
      BY <2>2, <1>3, <2>1, <1>2 DEF SubmitPrefetch, Starts, At, SharedOver, LocalsOver, Operations
    <3>12. l \in LocalsOver(D)
      BY <1>2, <3>10, <3>11 DEF LocalsOver
    <3>13. th' = [th EXCEPT ![t] = l]
      BY <2>2, <1>3, <2>1, <1>1, <1>2 DEF SubmitPrefetch, Starts, At, TypedOver, LocalsOver
    <3>14. /\ l.pc = "pf_pop" /\ l.op = "submit" /\ l.page = p
          /\ l.frame = th[t].frame /\ l.ticket = th[t].ticket
      BY <2>2, <1>3, <2>1, <1>2 DEF SubmitPrefetch, Starts, At, LocalsOver
    <3> HIDE DEF l
    <3>15. th' \in [Threads -> LocalsOver(D)] /\ Moves(t) /\ th'[t] = l
      BY <1>1, <3>12, <3>13, Becomes
    <3>19. At(t, "idle") /\ UNCHANGED <<swip, pages, next_pid, frames, leader>>
      BY <2>2, <1>3, <2>1 DEF SubmitPrefetch, Starts, At
    <3>16. SharedOver(D)' /\ Calm
      BY <2>2, <1>3, <2>1, <1>2, <2>3 DEF SubmitPrefetch, Starts, At, SharedOver, Calm,
         FramesKept, SwipsKept
    <3>17. ThreadOK(t)'
      BY <3>19, <1>2, <3>14, <3>15, <2>1 DEF At, ThreadOK, PlaceOK, LocalsOK, LeadOK, VacantOK,
         InstalledOK, ExactOK, EvictorOK, LatchOK, Idle
    <3>18. ViewsKept(t)
      BY <3>19, <1>2, <3>14, <3>15, <2>1 DEF At, ViewsKept, OwnedBy, ReservedBy, PinnedBy,
         ThreadOK, PlaceOK, Idle
    <3> QED
      BY <1>2, <3>15, <3>16, <3>17, <3>18, QuietKeeps DEF Quiet, TypedOver
  <2> QED
    BY <2>2
<1>4. CASE SubmitChecks(t)
  <2>15. Going(t, D, IF stopping THEN "undo_release" ELSE "pf_send")
    BY <1>4, <1>1, GotoGoes DEF SubmitChecks, At, Places
  <2>19. At(t, "pf_gate") /\ UNCHANGED <<swip, pages, next_pid, frames, leader>>
    BY <1>4 DEF SubmitChecks, At
  <2>16. SharedOver(D)' /\ Calm
    BY <1>4, <1>2 DEF SubmitChecks, At, SharedOver, Calm, FramesKept, SwipsKept
  <2>17. ThreadOK(t)'
    BY <2>19, <1>2, <2>15 DEF At, Going, ThreadOK, PlaceOK, LocalsOK, LeadOK, VacantOK,
       InstalledOK, ExactOK, EvictorOK, LatchOK
  <2>18. ViewsKept(t)
    BY <2>19, <1>2, <2>15 DEF At, Going, ViewsKept, OwnedBy, ReservedBy, PinnedBy, ThreadOK,
       PlaceOK
  <2> QED
    BY <1>2, <2>15, <2>16, <2>17, <2>18, QuietKeeps DEF Going, Quiet, TypedOver
<1>5. CASE DropPrefetchReservation(t)
  <2>15. Gone(t, D) /\ ThreadOK(t)'
    BY <1>5, <1>1, LeaveGoes DEF DropPrefetchReservation, Leave, At
  <2>16. SharedOver(D)' /\ Calm
    BY <1>5, <1>2 DEF DropPrefetchReservation, Leave, At, SharedOver, Calm, FramesKept, SwipsKept
  <2>17. OwnedBy(th[t]) = {} /\ ReservedBy(th[t]) = {} /\ PinnedBy(th[t]) = {}
    BY <1>5, <1>2 DEF DropPrefetchReservation, Leave, At, OwnedBy, ReservedBy, PinnedBy, ThreadOK,
       PlaceOK
  <2> QED
    BY <1>1, <2>15, <2>16, <2>17, LeaveKeeps
<1> QED
  BY <1>3, <1>4, <1>5

(***************************************************************************)
(* The cooler's step and the end of a worker.                              *)
(***************************************************************************)
LEMMA WorkersKeep ==
    ASSUME IInv, NEW t \in Threads,
           \/ CoolingStep(t) \/ WorkerExits(t)
    PROVE  IInv'
<1> USE DEF FixOps, FillPlaces, UndoPlaces, AcquirePlaces, EvictPlaces, EvictReserved, TaskPlaces,
            Fixing, GuardPlaces, Unreserved, Reserved, Published, EvictDetached,
            pageVars, queues, tiers, prefetchVars
<1>1. PICK D : TypedOver(D)
  BY DEF IInv
<1>2. th[t] \in LocalsOver(D) /\ SharedOver(D) /\ Values \subseteq D /\ ThreadOK(t)
  BY <1>1 DEF IInv, TypedOver
<1>3. CASE CoolingStep(t)
  <2>1. CASE Len(cooling) < CoolingTarget
    <3> DEFINE l == [th[t] EXCEPT !.pc = "sample", !.op = "cool", !.cand = ColdCandidates, !.want = CoolingTarget]
    <3>10. {"sample"} \subseteq Places
      BY DEF Places
    <3>11. "cool" \in Operations /\ ColdCandidates \in SUBSET Frames /\ CoolingTarget \in Nat
      BY <2>1, <1>3, <1>2, WantOK, PoolAssumption DEF CoolingStep, Starts, At, SharedOver,
         LocalsOver, Operations
    <3>12. l \in LocalsOver(D)
      BY <1>2, <3>10, <3>11 DEF LocalsOver
    <3>13. th' = [th EXCEPT ![t] = l]
      BY <2>1, <1>3, <1>1, <1>2 DEF CoolingStep, Starts, At, TypedOver, LocalsOver
    <3>14. /\ l.pc = "sample" /\ l.op = "cool" /\ l.page = th[t].page
          /\ l.frame = th[t].frame /\ l.ticket = th[t].ticket
      BY <2>1, <1>3, <1>2 DEF CoolingStep, Starts, At, LocalsOver
    <3> HIDE DEF l
    <3>15. th' \in [Threads -> LocalsOver(D)] /\ Moves(t) /\ th'[t] = l
      BY <1>1, <3>12, <3>13, Becomes
    <3>19. At(t, "idle") /\ UNCHANGED <<swip, pages, next_pid, frames, leader>>
      BY <2>1, <1>3 DEF CoolingStep, Starts, At
    <3>16. SharedOver(D)' /\ Calm
      BY <2>1, <1>3, <1>2 DEF CoolingStep, Starts, At, SharedOver, Calm, FramesKept, SwipsKept
    <3>17. ThreadOK(t)'
      BY <3>19, <1>2, <3>14, <3>15 DEF At, ThreadOK, PlaceOK, LocalsOK, LeadOK, VacantOK,
         InstalledOK, ExactOK, EvictorOK, LatchOK, Idle
    <3>18. ViewsKept(t)
      BY <3>19, <1>2, <3>14, <3>15 DEF At, ViewsKept, OwnedBy, ReservedBy, PinnedBy, ThreadOK,
         PlaceOK, Idle
    <3> QED
      BY <1>2, <3>15, <3>16, <3>17, <3>18, QuietKeeps DEF Quiet, TypedOver
  <2>2. CASE ~(Len(cooling) < CoolingTarget)
    <3> DEFINE l == [th[t] EXCEPT !.pc = "take", !.op = "cool", !.left = Len(cooling)]
    <3>10. {"take"} \subseteq Places
      BY DEF Places
    <3>11. "cool" \in Operations /\ Len(cooling) \in Nat
      BY <2>2, <1>3, <1>2 DEF CoolingStep, Starts, At, SharedOver, LocalsOver, Operations
    <3>12. l \in LocalsOver(D)
      BY <1>2, <3>10, <3>11 DEF LocalsOver
    <3>13. th' = [th EXCEPT ![t] = l]
      BY <2>2, <1>3, <1>1, <1>2 DEF CoolingStep, Starts, At, TypedOver, LocalsOver
    <3>14. /\ l.pc = "take" /\ l.op = "cool" /\ l.page = th[t].page
          /\ l.frame = th[t].frame /\ l.ticket = th[t].ticket
      BY <2>2, <1>3, <1>2 DEF CoolingStep, Starts, At, LocalsOver
    <3> HIDE DEF l
    <3>15. th' \in [Threads -> LocalsOver(D)] /\ Moves(t) /\ th'[t] = l
      BY <1>1, <3>12, <3>13, Becomes
    <3>19. At(t, "idle") /\ UNCHANGED <<swip, pages, next_pid, frames, leader>>
      BY <2>2, <1>3 DEF CoolingStep, Starts, At
    <3>16. SharedOver(D)' /\ Calm
      BY <2>2, <1>3, <1>2 DEF CoolingStep, Starts, At, SharedOver, Calm, FramesKept, SwipsKept
    <3>17. ThreadOK(t)'
      BY <3>19, <1>2, <3>14, <3>15 DEF At, ThreadOK, PlaceOK, LocalsOK, LeadOK, VacantOK,
         InstalledOK, ExactOK, EvictorOK, LatchOK, Idle
    <3>18. ViewsKept(t)
      BY <3>19, <1>2, <3>14, <3>15 DEF At, ViewsKept, OwnedBy, ReservedBy, PinnedBy, ThreadOK,
         PlaceOK, Idle
    <3> QED
      BY <1>2, <3>15, <3>16, <3>17, <3>18, QuietKeeps DEF Quiet, TypedOver
  <2> QED
    BY <2>1, <2>2
<1>4. CASE WorkerExits(t)
  <2>15. Going(t, D, "exited")
    BY <1>4, <1>1, GotoGoes DEF WorkerExits, At, Places
  <2>19. At(t, "idle") /\ UNCHANGED <<swip, pages, next_pid, frames, leader>>
    BY <1>4 DEF WorkerExits, At
  <2>16. SharedOver(D)' /\ Calm
    BY <1>4, <1>2 DEF WorkerExits, At, SharedOver, Calm, FramesKept, SwipsKept
  <2>17. ThreadOK(t)'
    BY <2>19, <1>2, <2>15, PoolAssumption DEF At, Going, ThreadOK, PlaceOK, LocalsOK, LeadOK,
       VacantOK, InstalledOK, ExactOK, EvictorOK, LatchOK, Idle
  <2>18. ViewsKept(t)
    BY <2>19, <1>2, <2>15, PoolAssumption DEF At, Going, ViewsKept, OwnedBy, ReservedBy, PinnedBy,
       ThreadOK, PlaceOK, Idle
  <2> QED
    BY <1>2, <2>15, <2>16, <2>17, <2>18, QuietKeeps DEF Going, Quiet, TypedOver
<1> QED
  BY <1>3, <1>4

(***************************************************************************)
(* Shutdown joins the workers, and its flush marks the resident pages one  *)
(* by one.                                                                 *)
(***************************************************************************)
LEMMA ShutdownKeeps ==
    ASSUME IInv, NEW t \in Threads,
           \/ ShutdownStarts(t) \/ ShutdownJoins(t) \/ FlushFrame(t)
           \/ FlushPassEnds(t)
    PROVE  IInv'
<1> USE DEF FixOps, FillPlaces, UndoPlaces, AcquirePlaces, EvictPlaces, EvictReserved, TaskPlaces,
            Fixing, GuardPlaces, Unreserved, Reserved, Published, EvictDetached,
            pageVars, queues, tiers, prefetchVars
<1>1. PICK D : TypedOver(D)
  BY DEF IInv
<1>2. th[t] \in LocalsOver(D) /\ SharedOver(D) /\ Values \subseteq D /\ ThreadOK(t)
  BY <1>1 DEF IInv, TypedOver
<1>3. CASE ShutdownStarts(t)
  <2> DEFINE l == [Idle EXCEPT !.pc = "sd_gate", !.op = "shutdown"]
  <2>10. {"sd_gate"} \subseteq Places
    BY DEF Places
  <2>11. "shutdown" \in Operations /\ 0 \in 0 .. MaxRounds
    BY <1>3, <1>2, PoolAssumption DEF ShutdownStarts, Idle, SharedOver, LocalsOver, Operations
  <2>12. l \in LocalsOver(D)
    BY <1>2, <2>10, <2>11 DEF LocalsOver, Idle
  <2>13. th' = [th EXCEPT ![t] = l]
    BY <1>3, <1>1, <1>2 DEF ShutdownStarts, Idle, TypedOver, LocalsOver
  <2>14. /\ l.pc = "sd_gate" /\ l.op = "shutdown" /\ l.page = None
        /\ l.frame = None /\ l.ticket = None
    BY <1>3, <1>2 DEF ShutdownStarts, Idle, LocalsOver
  <2> HIDE DEF l
  <2>15. th' \in [Threads -> LocalsOver(D)] /\ Moves(t) /\ th'[t] = l
    BY <1>1, <2>12, <2>13, Becomes
  <2>9. None # "shutdown"
    BY PoolAssumption DEF Operations
  <2>19. th[t].pc \in {"idle", "sd_failed"} /\ UNCHANGED <<swip, pages, next_pid, frames, leader>>
    BY <1>3 DEF ShutdownStarts, Idle
  <2>16. SharedOver(D)' /\ Calm
    BY <1>3, <1>2 DEF ShutdownStarts, Idle, SharedOver, Calm, FramesKept, SwipsKept
  <2>17. ThreadOK(t)'
    BY <2>19, <1>2, <2>14, <2>15, <2>9 DEF At, ThreadOK, PlaceOK, LocalsOK, LeadOK, VacantOK,
       InstalledOK, ExactOK, EvictorOK, LatchOK
  <2>18. ViewsKept(t)
    BY <2>19, <1>2, <2>14, <2>15, <2>9 DEF At, ViewsKept, OwnedBy, ReservedBy, PinnedBy, ThreadOK,
       PlaceOK
  <2> QED
    BY <1>2, <2>15, <2>16, <2>17, <2>18, QuietKeeps DEF Quiet, TypedOver
<1>4. CASE ShutdownJoins(t)
  <2> DEFINE l == [th[t] EXCEPT !.pc = "flush", !.cand = Frames]
  <2>10. {"flush"} \subseteq Places
    BY DEF Places
  <2>12. l \in LocalsOver(D)
    BY <1>2, <2>10 DEF LocalsOver
  <2>13. th' = [th EXCEPT ![t] = l]
    BY <1>4, <1>1, <1>2 DEF ShutdownJoins, At, TypedOver, LocalsOver
  <2>14. /\ l.pc = "flush" /\ l.op = th[t].op /\ l.page = th[t].page
        /\ l.frame = th[t].frame /\ l.ticket = th[t].ticket
    BY <1>4, <1>2 DEF ShutdownJoins, At, LocalsOver
  <2> HIDE DEF l
  <2>15. th' \in [Threads -> LocalsOver(D)] /\ Moves(t) /\ th'[t] = l
    BY <1>1, <2>12, <2>13, Becomes
  <2>19. At(t, "sd_gate") /\ UNCHANGED <<swip, pages, next_pid, frames, leader>>
    BY <1>4 DEF ShutdownJoins, At
  <2>16. SharedOver(D)' /\ Calm
    BY <1>4, <1>2 DEF ShutdownJoins, At, SharedOver, Calm, FramesKept, SwipsKept
  <2>17. ThreadOK(t)'
    BY <2>19, <1>2, <2>14, <2>15 DEF At, ThreadOK, PlaceOK, LocalsOK, LeadOK, VacantOK,
       InstalledOK, ExactOK, EvictorOK, LatchOK
  <2>18. ViewsKept(t)
    BY <2>19, <1>2, <2>14, <2>15 DEF At, ViewsKept, OwnedBy, ReservedBy, PinnedBy, ThreadOK,
       PlaceOK
  <2> QED
    BY <1>2, <2>15, <2>16, <2>17, <2>18, QuietKeeps DEF Quiet, TypedOver
<1>5. CASE FlushFrame(t)
  <2>1. PICK f \in th[t].cand :
            LET p == frames[f].pid
                seen == [th EXCEPT ![t].cand = @ \ {f}, ![t].want = IF p = None THEN @ ELSE 1]
            IN IF p # None /\ ResidentAt(p, f)
               THEN /\ SetSwip(p, Cooling(f))
                    /\ th' = [seen EXCEPT ![t].pc = "ev_check", ![t].ticket = Ticket(f, p)]
               ELSE UNCHANGED swip /\ th' = seen
    BY <1>5 DEF FlushFrame
  <2>2. f \in Frames /\ frames[f].pid \in Pages \cup {None} /\ th[t].want \in Nat
    BY <1>2 DEF LocalsOver, SharedOver, FrameOver
  <2>3. PICK p : p = frames[f].pid
    OBVIOUS
  <2> DEFINE w == IF p = None THEN th[t].want ELSE 1
  <2>6. w \in Nat
    BY <2>2
  <2> HIDE DEF w
  <2>4. CASE p # None /\ ResidentAt(p, f)
    <3> DEFINE l == [th[t] EXCEPT !.cand = @ \ {f}, !.want = w, !.pc = "ev_check", !.ticket = Ticket(f, p)]
    <3>10. {"ev_check"} \subseteq Places
      BY DEF Places
    <3>11. Ticket(f, p) \in CoolingTicket /\ th[t].cand \ {f} \in SUBSET Frames /\ w \in Nat
      BY <2>4, <1>5, <2>1, <2>2, <2>3, <1>2, <2>6 DEF FlushFrame, At, SharedOver, LocalsOver,
         FrameOver, Ticket, CoolingTicket
    <3>12. l \in LocalsOver(D)
      BY <1>2, <3>10, <3>11 DEF LocalsOver
    <3>13. th' = [th EXCEPT ![t] = l]
      BY <2>4, <1>5, <2>1, <2>2, <2>3, <1>1, <1>2, <2>6 DEF FlushFrame, At, TypedOver, LocalsOver, w
    <3>14. /\ l.pc = "ev_check" /\ l.op = th[t].op /\ l.page = th[t].page
          /\ l.frame = th[t].frame /\ l.ticket = Ticket(f, p)
      BY <2>4, <1>5, <2>1, <2>2, <2>3, <1>2 DEF FlushFrame, At, LocalsOver
    <3> HIDE DEF l
    <3>15. th' \in [Threads -> LocalsOver(D)] /\ Moves(t) /\ th'[t] = l
      BY <1>1, <3>12, <3>13, Becomes
    <3>1. swip' = [swip EXCEPT ![p] = Cooling(f)]
      BY <2>1, <2>3, <2>4 DEF SetSwip
    <3>5. p \in Pages
      BY <2>2, <2>3, <2>4
    <3>2. swip' \in [Pages -> SwipStates]
      BY <1>2, <2>2, <3>5, <3>1 DEF SharedOver, SwipStates, Cooling
    <3>3. SwipsKept
      BY <1>2, <2>2, <3>5, <2>4, <3>1, PoolAssumption DEF SharedOver, SwipsKept, SwipStates,
         ResidentAt, Hot, Cooling, Evicted
    <3>16. SharedOver(D)' /\ Calm
      BY <1>2, <1>5, <3>2, <3>3 DEF FlushFrame, SharedOver, Calm, FramesKept
    <3>4. th[t].op \in FixOps /\ swip[th[t].page] = Evicted => swip'[th[t].page] = Evicted
      BY <1>2, <3>15, <3>16, <3>3, SwipsStay, Needs DEF TypedOver, Going, Backed, SwipsKept,
         HomesKept
    <3>19. At(t, "flush") /\ UNCHANGED <<pages, next_pid, frames, leader>>
      BY <2>4, <1>5, <2>1, <2>2, <2>3 DEF FlushFrame, At
    <3>17. ThreadOK(t)'
      BY <3>19, <1>2, <3>14, <3>15, <3>11, <3>4 DEF At, ThreadOK, PlaceOK, LocalsOK, LeadOK,
         VacantOK, InstalledOK, ExactOK, EvictorOK, LatchOK
    <3>18. ViewsKept(t)
      BY <3>19, <1>2, <3>14, <3>15, <3>11, <3>4 DEF At, ViewsKept, OwnedBy, ReservedBy, PinnedBy,
         ThreadOK, PlaceOK
    <3> QED
      BY <1>2, <3>15, <3>16, <3>17, <3>18, QuietKeeps DEF Quiet, TypedOver
  <2>5. CASE ~(p # None /\ ResidentAt(p, f))
    <3> DEFINE l == [th[t] EXCEPT !.cand = @ \ {f}, !.want = w]
    <3>10. {"flush"} \subseteq Places
      BY DEF Places
    <3>11. th[t].cand \ {f} \in SUBSET Frames /\ w \in Nat
      BY <2>5, <1>5, <2>1, <2>2, <2>3, <1>2, <2>6 DEF FlushFrame, At, SharedOver, LocalsOver
    <3>12. l \in LocalsOver(D)
      BY <1>2, <3>10, <3>11 DEF LocalsOver
    <3>13. th' = [th EXCEPT ![t] = l]
      BY <2>5, <1>5, <2>1, <2>2, <2>3, <1>1, <1>2, <2>6 DEF FlushFrame, At, TypedOver, LocalsOver, w
    <3>14. /\ l.pc = th[t].pc /\ l.op = th[t].op /\ l.page = th[t].page
          /\ l.frame = th[t].frame /\ l.ticket = th[t].ticket
      BY <2>5, <1>5, <2>1, <2>2, <2>3, <1>2 DEF FlushFrame, At, LocalsOver
    <3> HIDE DEF l
    <3>15. th' \in [Threads -> LocalsOver(D)] /\ Moves(t) /\ th'[t] = l
      BY <1>1, <3>12, <3>13, Becomes
    <3>19. At(t, "flush") /\ UNCHANGED <<swip, pages, next_pid, frames, leader>>
      BY <2>5, <1>5, <2>1, <2>2, <2>3 DEF FlushFrame, At
    <3>16. SharedOver(D)' /\ Calm
      BY <2>5, <1>5, <2>1, <2>2, <2>3, <1>2 DEF FlushFrame, At, SharedOver, Calm, FramesKept,
         SwipsKept
    <3>17. ThreadOK(t)'
      BY <3>19, <1>2, <3>14, <3>15 DEF At, ThreadOK, PlaceOK, LocalsOK, LeadOK, VacantOK,
         InstalledOK, ExactOK, EvictorOK, LatchOK
    <3>18. ViewsKept(t)
      BY <3>19, <1>2, <3>14, <3>15 DEF At, ViewsKept, OwnedBy, ReservedBy, PinnedBy, ThreadOK,
         PlaceOK
    <3> QED
      BY <1>2, <3>15, <3>16, <3>17, <3>18, QuietKeeps DEF Quiet, TypedOver
  <2> QED
    BY <2>4, <2>5
<1>6. CASE FlushPassEnds(t)
  <2>1. CASE Goto(t, "sd_done")
    <3>15. Going(t, D, "sd_done")
      BY <2>1, <1>6, <1>1, GotoGoes DEF FlushPassEnds, At, Places
    <3>19. At(t, "flush") /\ UNCHANGED <<swip, pages, next_pid, frames, leader>>
      BY <2>1, <1>6 DEF FlushPassEnds, At
    <3>16. SharedOver(D)' /\ Calm
      BY <2>1, <1>6, <1>2 DEF FlushPassEnds, At, SharedOver, Calm, FramesKept, SwipsKept
    <3>17. ThreadOK(t)'
      BY <3>19, <1>2, <3>15 DEF At, Going, ThreadOK, PlaceOK, LocalsOK, LeadOK, VacantOK,
         InstalledOK, ExactOK, EvictorOK, LatchOK
    <3>18. ViewsKept(t)
      BY <3>19, <1>2, <3>15 DEF At, Going, ViewsKept, OwnedBy, ReservedBy, PinnedBy, ThreadOK,
         PlaceOK
    <3> QED
      BY <1>2, <3>15, <3>16, <3>17, <3>18, QuietKeeps DEF Going, Quiet, TypedOver
  <2>2. CASE Goto(t, "sd_failed")
    <3>15. Going(t, D, "sd_failed")
      BY <2>2, <1>6, <1>1, GotoGoes DEF FlushPassEnds, At, Places
    <3>19. At(t, "flush") /\ UNCHANGED <<swip, pages, next_pid, frames, leader>>
      BY <2>2, <1>6 DEF FlushPassEnds, At
    <3>16. SharedOver(D)' /\ Calm
      BY <2>2, <1>6, <1>2 DEF FlushPassEnds, At, SharedOver, Calm, FramesKept, SwipsKept
    <3>17. ThreadOK(t)'
      BY <3>19, <1>2, <3>15 DEF At, Going, ThreadOK, PlaceOK, LocalsOK, LeadOK, VacantOK,
         InstalledOK, ExactOK, EvictorOK, LatchOK
    <3>18. ViewsKept(t)
      BY <3>19, <1>2, <3>15 DEF At, Going, ViewsKept, OwnedBy, ReservedBy, PinnedBy, ThreadOK,
         PlaceOK
    <3> QED
      BY <1>2, <3>15, <3>16, <3>17, <3>18, QuietKeeps DEF Going, Quiet, TypedOver
  <2>3. CASE th' = [th EXCEPT ![t].cand = Frames, ![t].want = 0, ![t].left = 0]
    <3> DEFINE l == [th[t] EXCEPT !.cand = Frames, !.want = 0, !.left = 0]
    <3>10. {"flush"} \subseteq Places
      BY DEF Places
    <3>12. l \in LocalsOver(D)
      BY <1>2, <3>10 DEF LocalsOver
    <3>13. th' = [th EXCEPT ![t] = l]
      BY <2>3, <1>6, <1>1, <1>2 DEF FlushPassEnds, At, TypedOver, LocalsOver
    <3>14. /\ l.pc = th[t].pc /\ l.op = th[t].op /\ l.page = th[t].page
          /\ l.frame = th[t].frame /\ l.ticket = th[t].ticket
      BY <2>3, <1>6, <1>2 DEF FlushPassEnds, At, LocalsOver
    <3> HIDE DEF l
    <3>15. th' \in [Threads -> LocalsOver(D)] /\ Moves(t) /\ th'[t] = l
      BY <1>1, <3>12, <3>13, Becomes
    <3>19. At(t, "flush") /\ UNCHANGED <<swip, pages, next_pid, frames, leader>>
      BY <2>3, <1>6 DEF FlushPassEnds, At
    <3>16. SharedOver(D)' /\ Calm
      BY <2>3, <1>6, <1>2 DEF FlushPassEnds, At, SharedOver, Calm, FramesKept, SwipsKept
    <3>17. ThreadOK(t)'
      BY <3>19, <1>2, <3>14, <3>15 DEF At, ThreadOK, PlaceOK, LocalsOK, LeadOK, VacantOK,
         InstalledOK, ExactOK, EvictorOK, LatchOK
    <3>18. ViewsKept(t)
      BY <3>19, <1>2, <3>14, <3>15 DEF At, ViewsKept, OwnedBy, ReservedBy, PinnedBy, ThreadOK,
         PlaceOK
    <3> QED
      BY <1>2, <3>15, <3>16, <3>17, <3>18, QuietKeeps DEF Quiet, TypedOver
  <2> QED
    BY <1>6, <2>1, <2>2, <2>3 DEF FlushPassEnds
<1> QED
  BY <1>3, <1>4, <1>5, <1>6

(***************************************************************************)
(* allocate_pid hands out an identifier nobody has, or none when they have *)
(* run out.                                                                *)
(***************************************************************************)
LEMMA AllocatesPidKeeps ==
    ASSUME IInv, NEW t \in Threads,
           AllocatePid(t)
    PROVE  IInv'
<1> USE DEF FixOps, FillPlaces, UndoPlaces, AcquirePlaces, EvictPlaces, EvictReserved, TaskPlaces,
            Fixing, GuardPlaces, Unreserved, Reserved, Published, EvictDetached,
            pageVars, queues, tiers, prefetchVars
<1>1. PICK D : TypedOver(D)
  BY DEF IInv
<1>2. th[t] \in LocalsOver(D) /\ SharedOver(D) /\ Values \subseteq D /\ ThreadOK(t)
  BY <1>1 DEF IInv, TypedOver
<1>11. next_pid \in Int /\ MaxPid \in Int
  BY <1>2, PoolAssumption DEF SharedOver
<1>3. CASE ~(next_pid <= MaxPid)
  <2>1. CASE TRUE
    <3>15. Going(t, D, "undo_release")
      BY <2>1, <1>3, <1>1, <1>11, GotoGoes DEF AllocatePid, At, Places
    <3>19. At(t, "pid") /\ UNCHANGED <<swip, pages, next_pid, frames, leader>>
      BY <2>1, <1>3, <1>11 DEF AllocatePid, At
    <3>16. SharedOver(D)' /\ Calm
      BY <2>1, <1>3, <1>2, <1>11 DEF AllocatePid, At, SharedOver, Calm, FramesKept, SwipsKept
    <3>17. ThreadOK(t)'
      BY <3>19, <1>2, <3>15 DEF At, Going, ThreadOK, PlaceOK, LocalsOK, LeadOK, VacantOK,
         InstalledOK, ExactOK, EvictorOK, LatchOK
    <3>18. ViewsKept(t)
      BY <3>19, <1>2, <3>15 DEF At, Going, ViewsKept, OwnedBy, ReservedBy, PinnedBy, ThreadOK,
         PlaceOK
    <3> QED
      BY <1>2, <3>15, <3>16, <3>17, <3>18, QuietKeeps DEF Going, Quiet, TypedOver
  <2> QED
    BY <2>1
<1>4. CASE next_pid <= MaxPid
  <2>1. CASE TRUE
    <3>31. th' = [th EXCEPT ![t].pc = "fill", ![t].page = next_pid]
      BY <1>4, <1>11 DEF AllocatePid
    <3> DEFINE l == [th[t] EXCEPT !.pc = "fill", !.page = next_pid]
    <3>10. {"fill"} \subseteq Places
      BY DEF Places
    <3>11. next_pid \in Pages
      BY <2>1, <1>4, <1>2, <1>11 DEF AllocatePid, At, SharedOver, LocalsOver, Pages
    <3>12. l \in LocalsOver(D)
      BY <1>2, <3>10, <3>11 DEF LocalsOver
    <3>13. th' = [th EXCEPT ![t] = l]
      BY <1>1, <3>31 DEF TypedOver, LocalsOver
    <3>14. /\ l.pc = "fill" /\ l.op = th[t].op /\ l.page = next_pid
          /\ l.frame = th[t].frame /\ l.ticket = th[t].ticket
      BY <2>1, <1>4, <1>2 DEF AllocatePid, At, LocalsOver
    <3> HIDE DEF l
    <3>15. th' \in [Threads -> LocalsOver(D)] /\ Moves(t) /\ th'[t] = l
      BY <1>1, <3>12, <3>13, Becomes
    <3>1. /\ At(t, "pid") /\ UNCHANGED <<swip, pages, frames, free, leader, channel>>
          /\ next_pid' = next_pid + 1
      BY <1>4, <1>11 DEF AllocatePid, At
    <3>2. next_pid' \in 0 .. (MaxPid + 1)
      BY <1>2, <1>4, <1>11, <3>1 DEF SharedOver
    <3>3. SharedOver(D)' /\ (\E E : TypedOver(E))'
      BY <1>2, <3>1, <3>2, <3>15 DEF AllocatePid, SharedOver, TypedOver
    <3>4. HomesKept /\ SwipsKept /\ PidsKept /\ \A u \in Threads : LatchesKept(u)
      BY <3>1 DEF HomesKept, SwipsKept, PidsKept, LatchesKept
    <3>5. swip[next_pid] = Evicted /\ next_pid \notin pages
      BY <1>11, <3>11 DEF IInv, FreshOK
    <3>6. /\ OwnedBy(th'[t]) = OwnedBy(th[t]) /\ ReservedBy(th'[t]) = ReservedBy(th[t])
          /\ PinnedBy(th'[t]) = PinnedBy(th[t])
      BY <1>2, <3>1, <3>14, <3>15 DEF At, OwnedBy, ReservedBy, PinnedBy, ThreadOK, PlaceOK
    <3>7. th[t].op = "alloc"
      BY <1>2, <3>1 DEF At, ThreadOK, PlaceOK, LocalsOver, Operations
    <3>8. ThreadOK(t)'
      BY <1>2, <1>11, <3>1, <3>5, <3>7, <3>11, <3>14, <3>15 DEF At, ThreadOK, PlaceOK, LocalsOK, LeadOK, VacantOK, InstalledOK, ExactOK, EvictorOK, LatchOK
    <3>9. ASSUME NEW u \in Threads \ {t} PROVE ThreadOK(u)'
      <4>1. th'[u] = th[u] /\ ThreadOK(u)
        BY <3>15 DEF Moves, IInv
      <4>2. VacantOK(u)' /\ ExactOK(u)' /\ EvictorOK(u)' /\ InstalledOK(u)' /\ LatchOK(u)'
        BY <3>3, <3>4, <4>1, PageStays, TicketStays, FrameStays, LatchStays
      <4>3. PlaceOK(u)' /\ LeadOK(u)'
        BY <3>1, <4>1 DEF ThreadOK, PlaceOK, LeadOK
      <4>4. th[u].page \in Pages /\ th[u].page < next_pid => th[u].page < next_pid'
        BY <1>11, <3>1 DEF Pages
      <4>5. LocalsOK(u)'
        BY <3>1, <4>1, <4>4 DEF ThreadOK, LocalsOK
      <4> QED
        BY <4>2, <4>3, <4>5 DEF ThreadOK
    <3>20. (\A f \in Frames : InOnePlace(f))' /\ (\A f \in Frames : PinOK(f))'
      BY <3>1, <3>3, <3>4, <3>6, <3>15, PlaceStays, PinsStay DEF OwnersKept, ReserversKept, PinnersKept
    <3>21. ASSUME NEW u \in Threads \ {t}, th[u].op = "alloc" PROVE th[u].page # next_pid
      <4>1. th[u].page = None \/ (th[u].page \in Pages /\ th[u].page < next_pid)
        BY <3>21 DEF IInv, ThreadOK, LocalsOK
      <4>2. None \notin Pages
        BY PoolAssumption
      <4> QED
        BY <1>11, <3>11, <4>1, <4>2 DEF Pages
    <3>22. \A u, v \in Threads :
              th'[u].op = "alloc" /\ th'[v].op = "alloc" /\ th'[u].page = th'[v].page
                  /\ th'[u].page # None => u = v
      BY <3>14, <3>15, <3>21 DEF Moves, IInv, FreshOK
    <3>23. \A p \in Pages : p < next_pid => p < next_pid'
      BY <1>11, <3>1 DEF Pages
    <3>24. FreshOK'
      BY <1>2, <3>1, <3>22, <3>23 DEF IInv, FreshOK, SharedOver
    <3>25. OccupantOK' /\ LatchExcludes'
      BY <3>1 DEF IInv, OccupantOK, LatchExcludes, ResidentAt
    <3> QED
      BY <3>3, <3>8, <3>9, <3>20, <3>24, <3>25 DEF IInv
  <2> QED
    BY <2>1
<1> QED
  BY <1>3, <1>4

(***************************************************************************)
(* The new page becomes known; nobody else was given its identifier.       *)
(***************************************************************************)
LEMMA RegisterKeeps ==
    ASSUME IInv, NEW t \in Threads,
           RegisterPage(t)
    PROVE  IInv'
<1> USE DEF FixOps, FillPlaces, UndoPlaces, AcquirePlaces, EvictPlaces, EvictReserved, TaskPlaces,
            Fixing, GuardPlaces, Unreserved, Reserved, Published, EvictDetached,
            pageVars, queues, tiers, prefetchVars
<1>1. PICK D : TypedOver(D)
  BY DEF IInv
<1>2. th[t] \in LocalsOver(D) /\ SharedOver(D) /\ Values \subseteq D /\ ThreadOK(t)
  BY <1>1 DEF IInv, TypedOver
<1>3. CASE TRUE
  <2> DEFINE l == [th[t] EXCEPT !.pc = "guard", !.op = "exclusive"]
  <2>10. {"guard"} \subseteq Places
    BY DEF Places
  <2>11. "exclusive" \in Operations
    BY <1>3, <1>2 DEF RegisterPage, At, SharedOver, LocalsOver, Operations
  <2>12. l \in LocalsOver(D)
    BY <1>2, <2>10, <2>11 DEF LocalsOver
  <2>13. th' = [th EXCEPT ![t] = l]
    BY <1>3, <1>1, <1>2 DEF RegisterPage, At, TypedOver, LocalsOver
  <2>14. /\ l.pc = "guard" /\ l.op = "exclusive" /\ l.page = th[t].page
        /\ l.frame = th[t].frame /\ l.ticket = th[t].ticket
    BY <1>3, <1>2 DEF RegisterPage, At, LocalsOver
  <2> HIDE DEF l
  <2>15. th' \in [Threads -> LocalsOver(D)] /\ Moves(t) /\ th'[t] = l
    BY <1>1, <2>12, <2>13, Becomes
  <2>1. At(t, "register") /\ UNCHANGED <<swip, next_pid, frames, free, leader, channel>>
    BY DEF RegisterPage, At
  <2>2. PICK p : p = th[t].page
    OBVIOUS
  <2>3. pages' = pages \cup {p}
    BY <2>2 DEF RegisterPage
  <2>4. /\ th[t].op = "alloc" /\ p \in Pages \ pages /\ p < next_pid
    BY <1>2, <2>1, <2>2 DEF At, ThreadOK, PlaceOK, LocalsOK, LocalsOver, Operations
  <2>5. SharedOver(D)' /\ (\E E : TypedOver(E))'
    BY <1>2, <2>3, <2>4, <2>15 DEF RegisterPage, SharedOver, TypedOver
  <2>6. HomesKept /\ SwipsKept /\ PidsKept /\ \A u \in Threads : LatchesKept(u)
    BY <2>1 DEF HomesKept, SwipsKept, PidsKept, LatchesKept
  <2>7. /\ OwnedBy(th'[t]) = OwnedBy(th[t]) /\ ReservedBy(th'[t]) = ReservedBy(th[t])
        /\ PinnedBy(th'[t]) = PinnedBy(th[t])
    BY <1>2, <2>1, <2>4, <2>14, <2>15 DEF At, OwnedBy, ReservedBy, PinnedBy
  <2>8. ThreadOK(t)'
    <3>1. /\ ResidentAt(th[t].page, th[t].frame) /\ frames[th[t].frame].writer = t /\ th[t].frame \in Frames
      BY <1>2, <2>1, <2>4 DEF At, SharedFix, ThreadOK, ExactOK, LatchOK, LocalsOK
    <3>2. th'[t].pc = "guard" /\ th'[t].op = "exclusive" /\ th'[t].page = p /\ th'[t].frame = th[t].frame
      BY <2>2, <2>14, <2>15
    <3>3. PlaceOK(t)' /\ LocalsOK(t)'
      BY <2>3, <2>4, <3>1, <3>2, PoolAssumption DEF PlaceOK, LocalsOK, Operations
    <3>4. LeadOK(t)' /\ VacantOK(t)' /\ InstalledOK(t)' /\ EvictorOK(t)'
      BY <3>2 DEF LeadOK, VacantOK, InstalledOK, EvictorOK
    <3>5. ExactOK(t)' /\ LatchOK(t)'
      BY <2>1, <2>2, <3>1, <3>2 DEF ExactOK, LatchOK, SharedFix, ResidentAt
    <3> QED
      BY <3>3, <3>4, <3>5 DEF ThreadOK
  <2>9. ASSUME NEW u \in Threads \ {t} PROVE ThreadOK(u)'
    <3>1. th'[u] = th[u] /\ ThreadOK(u)
      BY <2>15 DEF Moves, IInv
    <3>2. VacantOK(u)' /\ ExactOK(u)' /\ EvictorOK(u)' /\ InstalledOK(u)' /\ LatchOK(u)'
      BY <2>5, <2>6, <3>1, PageStays, TicketStays, FrameStays, LatchStays
    <3>3. PlaceOK(u)' /\ LeadOK(u)'
      BY <2>1, <3>1 DEF ThreadOK, PlaceOK, LeadOK
    <3>4. None \notin Pages
      BY PoolAssumption
    <3>5. th[u].op = "alloc" => th[u].page # p
      BY <2>2, <2>4, <3>4 DEF IInv, FreshOK
    <3>6. LocalsOK(u)'
      BY <2>1, <2>3, <3>1, <3>5 DEF ThreadOK, LocalsOK
    <3> QED
      BY <3>2, <3>3, <3>6 DEF ThreadOK
  <2>20. (\A f \in Frames : InOnePlace(f))' /\ (\A f \in Frames : PinOK(f))'
    BY <2>1, <2>5, <2>6, <2>7, <2>15, PlaceStays, PinsStay DEF OwnersKept, ReserversKept, PinnersKept
  <2>22. \A u, v \in Threads :
            th'[u].op = "alloc" /\ th'[v].op = "alloc" /\ th'[u].page = th'[v].page
                /\ th'[u].page # None => u = v
    BY <2>14, <2>15 DEF Moves, IInv, FreshOK
  <2>24. FreshOK'
    BY <2>1, <2>3, <2>4, <2>22 DEF IInv, FreshOK
  <2>25. OccupantOK' /\ LatchExcludes'
    BY <2>1 DEF IInv, OccupantOK, LatchExcludes, ResidentAt
  <2> QED
    BY <2>5, <2>8, <2>9, <2>20, <2>24, <2>25 DEF IInv
<1> QED
  BY <1>3

(***************************************************************************)
(* A fix pins the frame it found, and unpins it when it was not the page's *)
(* any more.                                                               *)
(***************************************************************************)
LEMMA PinsKeep ==
    ASSUME IInv, NEW t \in Threads,
           \/ PinFrame(t) \/ UnpinRetry(t)
    PROVE  IInv'
<1> USE DEF FixOps, FillPlaces, UndoPlaces, AcquirePlaces, EvictPlaces, EvictReserved, TaskPlaces,
            Fixing, GuardPlaces, Unreserved, Reserved, Published, EvictDetached,
            pageVars, queues, tiers, prefetchVars
<1>1. PICK D : TypedOver(D)
  BY DEF IInv
<1>2. th[t] \in LocalsOver(D) /\ SharedOver(D) /\ Values \subseteq D /\ ThreadOK(t)
  BY <1>1 DEF IInv, TypedOver
<1>3. CASE PinFrame(t)
  <2>19. At(t, "pin") /\ UNCHANGED <<swip, pages, next_pid, leader>>
    BY <1>3 DEF PinFrame, Pin, CanPin, At
  <2>10. th[t].frame \in Frames
    BY <1>2, <2>19 DEF At, LocalsOK, ThreadOK
  <2>15. Going(t, D, "latch")
    BY <1>3, <1>1, <2>10, GotoGoes DEF PinFrame, Pin, CanPin, At, Places
  <2>9. frames' = [frames EXCEPT ![th[t].frame].pin = frames[th[t].frame].pin + 1]
    BY <1>3 DEF PinFrame, Pin, CanPin, At
  <2>8. frames[th[t].frame].pin + 1 \in Int
    BY <1>2, <2>10 DEF EVICTING, SharedOver, FrameOver
  <2>20. /\ frames' \in [Frames -> FrameOver(D)] /\ OnlyPin(th[t].frame)
        /\ frames'[th[t].frame].pin = frames[th[t].frame].pin + 1
    BY <1>2, <2>8, <2>9, <2>10, PinSet
  <2>16. SharedOver(D)' /\ Rest
    BY <1>3, <1>2, <2>20 DEF PinFrame, Pin, CanPin, At, SharedOver, Rest
  <2>18. /\ PinnedBy(th[t]) = {} /\ PinnedBy(th'[t]) = {th[t].frame}
        /\ ReservedBy(th'[t]) = ReservedBy(th[t])
    BY <1>2, <2>10, <2>15, <2>19 DEF At, Going, OwnedBy, ReservedBy, PinnedBy, ThreadOK, PlaceOK
  <2>11. OwnedBy(th'[t]) = OwnedBy(th[t]) /\ NoNewPage(t)
    BY <1>2, <2>10, <2>15, <2>19 DEF At, Going, NoNewPage, OwnedBy, ReservedBy, PinnedBy,
       ThreadOK, PlaceOK
  <2>12. (\A g \in Frames : PinOK(g))'
    BY <1>3, <2>10, <2>15, <2>16, <2>18, <2>20, PinPins DEF PinFrame, Pin, CanPin, At, Going,
       Rest, OnlyPin, PinnersKept, ReserversKept
  <2>17. ThreadOK(t)'
    BY <1>2, <2>10, <2>15, <2>19, <2>20 DEF At, OnlyPin, Going, ThreadOK, PlaceOK, LocalsOK,
       LeadOK, VacantOK, InstalledOK, ExactOK, EvictorOK, LatchOK
  <2> QED
    BY <1>2, <2>10, <2>11, <2>12, <2>15, <2>16, <2>17, <2>20, PinStepKeeps DEF Going, OwnersKept,
       TypedOver
<1>4. CASE UnpinRetry(t)
  <2>19. At(t, "retry") /\ UNCHANGED <<swip, pages, next_pid, leader>>
    BY <1>4 DEF UnpinRetry, Unpin, At
  <2>10. th[t].frame \in Frames
    BY <1>2, <2>19 DEF At, LocalsOK, ThreadOK
  <2> DEFINE l == [th[t] EXCEPT !.pc = "load", !.frame = None]
  <2>13. "load" \in Places /\ None \notin Frames
    BY PoolAssumption DEF Places
  <2>14. l \in LocalsOver(D)
    BY <1>2, <2>13 DEF LocalsOver
  <2>21. th' = [th EXCEPT ![t] = l]
    BY <1>4 DEF UnpinRetry
  <2>22. /\ l.pc = "load" /\ l.op = th[t].op /\ l.page = th[t].page /\ l.frame = None
         /\ l.ticket = th[t].ticket
    BY <1>2 DEF LocalsOver
  <2> HIDE DEF l
  <2>15. th' \in [Threads -> LocalsOver(D)] /\ Moves(t) /\ th'[t] = l
    BY <1>1, <2>14, <2>21, Becomes
  <2>9. frames' = [frames EXCEPT ![th[t].frame].pin = frames[th[t].frame].pin - 1]
    BY <1>4 DEF UnpinRetry, Unpin, At
  <2>8. frames[th[t].frame].pin - 1 \in Int
    BY <1>2, <2>10 DEF EVICTING, SharedOver, FrameOver
  <2>20. /\ frames' \in [Frames -> FrameOver(D)] /\ OnlyPin(th[t].frame)
        /\ frames'[th[t].frame].pin = frames[th[t].frame].pin - 1
    BY <1>2, <2>8, <2>9, <2>10, PinSet
  <2>16. SharedOver(D)' /\ Rest
    BY <1>4, <1>2, <2>20 DEF UnpinRetry, Unpin, At, SharedOver, Rest
  <2>18. /\ PinnedBy(th[t]) = {th[t].frame} /\ PinnedBy(th'[t]) = {}
        /\ ReservedBy(th'[t]) = ReservedBy(th[t])
    BY <1>2, <2>10, <2>15, <2>19, <2>13, <2>22 DEF At, OwnedBy, ReservedBy, PinnedBy, ThreadOK,
       PlaceOK
  <2>11. OwnedBy(th'[t]) = OwnedBy(th[t]) /\ NoNewPage(t)
    BY <1>2, <2>10, <2>15, <2>19, <2>13, <2>22 DEF At, NoNewPage, OwnedBy, ReservedBy, PinnedBy,
       ThreadOK, PlaceOK
  <2>12. (\A g \in Frames : PinOK(g))'
    BY <2>10, <2>15, <2>16, <2>18, <2>20, UnpinPins DEF Rest, OnlyPin, PinnersKept, ReserversKept
  <2>17. ThreadOK(t)'
    BY <1>2, <2>10, <2>15, <2>19, <2>20, <2>22 DEF At, OnlyPin, ThreadOK, PlaceOK, LocalsOK,
       LeadOK, VacantOK, InstalledOK, ExactOK, EvictorOK, LatchOK
  <2> QED
    BY <1>2, <2>10, <2>11, <2>12, <2>15, <2>16, <2>17, <2>20, PinStepKeeps DEF OwnersKept,
       TypedOver
<1> QED
  BY <1>3, <1>4

(***************************************************************************)
(* A fix latches the pinned frame, and lets it go when it was not the      *)
(* page's any more.                                                        *)
(***************************************************************************)
LEMMA LatchesKeep ==
    ASSUME IInv, NEW t \in Threads,
           \/ LatchFrame(t) \/ FixRetries(t)
    PROVE  IInv'
<1> USE DEF FixOps, FillPlaces, UndoPlaces, AcquirePlaces, EvictPlaces, EvictReserved, TaskPlaces,
            Fixing, GuardPlaces, Unreserved, Reserved, Published, EvictDetached,
            pageVars, queues, tiers, prefetchVars
<1>1. PICK D : TypedOver(D)
  BY DEF IInv
<1>2. th[t] \in LocalsOver(D) /\ SharedOver(D) /\ Values \subseteq D /\ ThreadOK(t)
  BY <1>1 DEF IInv, TypedOver
<1>3. CASE LatchFrame(t)
  <2>1. CASE SharedFix(t)
    <3>19. At(t, "latch") /\ UNCHANGED <<swip, pages, next_pid, leader>>
      BY <2>1, <1>3 DEF LatchFrame, At
    <3>10. th[t].frame \in Frames
      BY <1>2, <3>19 DEF At, LocalsOK, ThreadOK, CoolingTicket
    <3>15. Going(t, D, IF th[t].op = "alloc" THEN "register" ELSE "check")
      BY <2>1, <1>3, <1>1, GotoGoes DEF LatchFrame, At, Places
    <3>20. frames' \in [Frames -> FrameOver(D)] /\ OnlyLatch(t) /\ t \in frames'[th[t].frame].readers
      BY <2>1, <1>3, <1>2, <3>10, LockSharedSet DEF LatchFrame, At
    <3>16. SharedOver(D)' /\ Rest
      BY <2>1, <1>3, <1>2, <3>20 DEF LatchFrame, At, SharedOver, Rest
    <3>17. ThreadOK(t)'
      BY <1>2, <3>10, <3>15, <3>19, <3>20, <2>1 DEF At, OnlyLatch, Going, ThreadOK, PlaceOK,
         LocalsOK, LeadOK, VacantOK, InstalledOK, ExactOK, EvictorOK, LatchOK, SharedFix
    <3>18. ViewsKept(t)
      BY <1>2, <3>15, <3>19, <2>1 DEF At, Going, ViewsKept, OwnedBy, ReservedBy, PinnedBy,
         ThreadOK, PlaceOK
    <3> QED
      BY <1>2, <3>15, <3>16, <3>17, <3>18, <3>20, LatchStepKeeps DEF Going, TypedOver
  <2>2. CASE ~SharedFix(t)
    <3>19. At(t, "latch") /\ UNCHANGED <<swip, pages, next_pid, leader>>
      BY <2>2, <1>3 DEF LatchFrame, At
    <3>10. th[t].frame \in Frames
      BY <1>2, <3>19 DEF At, LocalsOK, ThreadOK, CoolingTicket
    <3>15. Going(t, D, IF th[t].op = "alloc" THEN "register" ELSE "check")
      BY <2>2, <1>3, <1>1, GotoGoes DEF LatchFrame, At, Places
    <3>20. frames' \in [Frames -> FrameOver(D)] /\ OnlyLatch(t) /\ frames'[th[t].frame].writer = t
      BY <2>2, <1>3, <1>2, <3>10, LockExclusiveSet DEF LatchFrame, At
    <3>16. SharedOver(D)' /\ Rest
      BY <2>2, <1>3, <1>2, <3>20 DEF LatchFrame, At, SharedOver, Rest
    <3>17. ThreadOK(t)'
      BY <1>2, <3>10, <3>15, <3>19, <3>20, <2>2 DEF At, OnlyLatch, Going, ThreadOK, PlaceOK,
         LocalsOK, LeadOK, VacantOK, InstalledOK, ExactOK, ResidentAt, EvictorOK, LatchOK, SharedFix
    <3>18. ViewsKept(t)
      BY <1>2, <3>15, <3>19, <2>2 DEF At, Going, ViewsKept, OwnedBy, ReservedBy, PinnedBy,
         ThreadOK, PlaceOK
    <3> QED
      BY <1>2, <3>15, <3>16, <3>17, <3>18, <3>20, LatchStepKeeps DEF Going, TypedOver
  <2> QED
    BY <2>1, <2>2
<1>4. CASE FixRetries(t)
  <2>19. At(t, "check") /\ UNCHANGED <<swip, pages, next_pid, leader>>
    BY <1>4 DEF FixRetries, At
  <2>10. th[t].frame \in Frames
    BY <1>2, <2>19 DEF At, LocalsOK, ThreadOK, CoolingTicket
  <2>15. Going(t, D, "retry")
    BY <1>4, <1>1, GotoGoes DEF FixRetries, At, Places
  <2>20. frames' \in [Frames -> FrameOver(D)] /\ OnlyLatch(t)
    BY <1>4, <1>2, <2>10, UnlockSet DEF FixRetries, At
  <2>16. SharedOver(D)' /\ Rest
    BY <1>4, <1>2, <2>20 DEF FixRetries, At, SharedOver, Rest
  <2>17. ThreadOK(t)'
    BY <1>2, <2>10, <2>15, <2>19, <2>20 DEF At, OnlyLatch, Going, ThreadOK, PlaceOK, LocalsOK,
       LeadOK, VacantOK, InstalledOK, ExactOK, EvictorOK, LatchOK
  <2>18. ViewsKept(t)
    BY <1>2, <2>15, <2>19 DEF At, Going, ViewsKept, OwnedBy, ReservedBy, PinnedBy, ThreadOK,
       PlaceOK
  <2> QED
    BY <1>2, <2>15, <2>16, <2>17, <2>18, <2>20, LatchStepKeeps DEF Going, TypedOver
<1> QED
  BY <1>3, <1>4

(***************************************************************************)
(* A fix that succeeds has its page in the frame it pinned and latched,    *)
(* and marks it hot, or cooling when DRAM admission is declined.           *)
(***************************************************************************)
LEMMA SucceedsKeeps ==
    ASSUME IInv, NEW t \in Threads,
           \/ FixSucceeds(t) \/ FixSucceedsDeclined(t) \/ EnqueueDeclined(t)
    PROVE  IInv'
<1> USE DEF FixOps, FillPlaces, UndoPlaces, AcquirePlaces, EvictPlaces, EvictReserved, TaskPlaces,
            Fixing, GuardPlaces, Unreserved, Reserved, Published, EvictDetached,
            pageVars, queues, tiers, prefetchVars
<1>1. PICK D : TypedOver(D)
  BY DEF IInv
<1>2. th[t] \in LocalsOver(D) /\ SharedOver(D) /\ Values \subseteq D /\ ThreadOK(t)
  BY <1>1 DEF IInv, TypedOver
<1>3. CASE FixSucceeds(t)
  <2>15. Going(t, D, "guard")
    BY <1>1, <1>3, GotoGoes DEF FixSucceeds, Places
  <2>19. At(t, "check") /\ UNCHANGED <<pages, next_pid, frames, leader>>
    BY <1>3 DEF FixSucceeds
  <2>20. th[t].page \in Pages /\ th[t].frame \in Frames
    BY <1>2, <2>19, Needs DEF At, Backed, ThreadOK, PlaceOK, Operations, LocalsOver
  <2>21. th[t].frame \in ReservedBy(th[t]) \/ th[t].frame \in PinnedBy(th[t])
    BY <2>19, <2>20 DEF At, ReservedBy, PinnedBy
  <2>22. /\ swip' \in [Pages -> SwipStates] /\ HomesKept
        /\ \A u \in Threads \ {t} : EvictorOK(u)'
    BY <1>3, <1>2, <2>15, <2>20, <2>21, ResurrectSpares DEF FixSucceeds, Going
  <2>16. SharedOver(D)' /\ Waking
    BY <1>3, <1>2, <2>22 DEF FixSucceeds, SharedOver, Waking, FramesKept, HitPrefetched,
       ConsumePrefetched
  <2>23. th[t].op \in FixOps /\ swip[th[t].page] = Evicted => swip'[th[t].page] = Evicted
    BY <1>2, <2>15, <2>16, <2>22, SwipsStay, Needs DEF Going, TypedOver, Backed
  <2>24. swip'[th[t].page] \in {Hot(th[t].frame), Cooling(th[t].frame)}
    BY <1>2, <1>3, <2>20 DEF FixSucceeds, TryResurrect, ResidentIsExact, ResidentAt, SharedOver
  <2>17. ThreadOK(t)'
    BY <1>2, <2>19, <2>15, <2>23, <2>24 DEF At, Going, ThreadOK, PlaceOK, LocalsOK, LeadOK,
       VacantOK, InstalledOK, ExactOK, ResidentAt, EvictorOK, LatchOK, SharedFix
  <2>18. ViewsKept(t)
    BY <1>2, <2>19, <2>15 DEF At, Going, ViewsKept, OwnedBy, ReservedBy, PinnedBy, ThreadOK,
       PlaceOK
  <2> QED
    BY <1>2, <2>15, <2>16, <2>17, <2>18, <2>22, WakingKeeps DEF Going, TypedOver
<1>4. CASE FixSucceedsDeclined(t)
  <2>15. Going(t, D, "guard_cooling")
    BY <1>4, <1>1, GotoGoes DEF FixSucceedsDeclined, At, Places
  <2>0. th[t].page \in Pages /\ th[t].frame \in Frames
    BY <1>2, <1>4, Needs DEF FixSucceedsDeclined, At, Backed, ThreadOK, PlaceOK, Operations,
       LocalsOver
  <2>1. swip' = [swip EXCEPT ![th[t].page] = Cooling(th[t].frame)] /\ ResidentAt(th[t].page, th[t].frame)
    BY <1>4 DEF FixSucceedsDeclined, SetSwip, ResidentIsExact
  <2>2. swip' \in [Pages -> SwipStates]
    BY <1>2, <2>0, <2>1 DEF SharedOver, SwipStates, Cooling
  <2>3. SwipsKept
    BY <1>2, <2>0, <2>1, PoolAssumption DEF SharedOver, SwipsKept, SwipStates, ResidentAt, Hot,
       Cooling, Evicted
  <2>16. SharedOver(D)' /\ Calm
    BY <1>2, <1>4, <2>2, <2>3 DEF FixSucceedsDeclined, SharedOver, Calm, FramesKept
  <2>4. th[t].op \in FixOps /\ swip[th[t].page] = Evicted => swip'[th[t].page] = Evicted
    BY <1>2, <2>15, <2>16, <2>3, SwipsStay, Needs DEF TypedOver, Going, Backed, SwipsKept,
       HomesKept
  <2>5. swip'[th[t].page] = Cooling(th[t].frame)
    BY <1>2, <2>0, <2>1 DEF SharedOver
  <2>6. th[t].op \in {"shared", "optimistic"}
    BY <1>4 DEF FixSucceedsDeclined, SharedFix
  <2>19. At(t, "check") /\ UNCHANGED <<pages, next_pid, frames, leader>>
    BY <1>4 DEF FixSucceedsDeclined, At
  <2>17. ThreadOK(t)'
    BY <2>19, <1>2, <2>15, <2>4, <2>5, <2>6 DEF At, Going, ThreadOK, PlaceOK, LocalsOK, LeadOK,
       VacantOK, InstalledOK, ExactOK, ResidentAt, EvictorOK, LatchOK, SharedFix
  <2>18. ViewsKept(t)
    BY <2>19, <1>2, <2>15, <2>4, <2>5, <2>6 DEF At, Going, ViewsKept, OwnedBy, ReservedBy,
       PinnedBy, ThreadOK, PlaceOK
  <2> QED
    BY <1>2, <2>15, <2>16, <2>17, <2>18, QuietKeeps DEF Going, Quiet, TypedOver
<1>5. CASE EnqueueDeclined(t)
  <2>15. Going(t, D, "guard")
    BY <1>5, <1>1, GotoGoes DEF EnqueueDeclined, At, Places
  <2>1. th[t].page \in Pages /\ th[t].frame \in Frames
    BY <1>2, <1>5, Needs DEF EnqueueDeclined, At, Backed, ThreadOK, PlaceOK, Operations,
       LocalsOver
  <2>2. cooling' \in Seq(CoolingTicket)
    BY <1>2, <1>5, <2>1, EnqueuesTicket DEF EnqueueDeclined
  <2>16. SharedOver(D)' /\ Calm
    BY <1>2, <1>5, <2>2 DEF EnqueueDeclined, SharedOver, Calm, FramesKept, SwipsKept
  <2>19. At(t, "guard_cooling") /\ UNCHANGED <<swip, pages, next_pid, frames, leader>>
    BY <1>5 DEF EnqueueDeclined, At
  <2>17. ThreadOK(t)'
    BY <2>19, <1>2, <2>15 DEF At, Going, ThreadOK, PlaceOK, LocalsOK, LeadOK, VacantOK,
       InstalledOK, ExactOK, EvictorOK, LatchOK, SharedFix, ResidentAt
  <2>18. ViewsKept(t)
    BY <2>19, <1>2, <2>15 DEF At, Going, ViewsKept, OwnedBy, ReservedBy, PinnedBy, ThreadOK,
       PlaceOK
  <2> QED
    BY <1>2, <2>15, <2>16, <2>17, <2>18, QuietKeeps DEF Going, Quiet, TypedOver
<1> QED
  BY <1>3, <1>4, <1>5

(***************************************************************************)
(* What a guard is used for: writing the page, or copying it with the      *)
(* version of its latch.                                                   *)
(***************************************************************************)
LEMMA GuardsKeep ==
    ASSUME IInv, NEW t \in Threads,
           \/ WriteGuard(t) \/ CaptureSnapshot(t)
    PROVE  IInv'
<1> USE DEF FixOps, FillPlaces, UndoPlaces, AcquirePlaces, EvictPlaces, EvictReserved, TaskPlaces,
            Fixing, GuardPlaces, Unreserved, Reserved, Published, EvictDetached,
            pageVars, queues, tiers, prefetchVars
<1>1. PICK D : TypedOver(D)
  BY DEF IInv
<1>2. th[t] \in LocalsOver(D) /\ SharedOver(D) /\ Values \subseteq D /\ ThreadOK(t)
  BY <1>1 DEF IInv, TypedOver
<1>3. CASE WriteGuard(t)
  <2>1. PICK v \in Values :
            frames' = [frames EXCEPT ![th[t].frame].dirty = TRUE, ![th[t].frame].data = v]
    BY <1>3 DEF WriteGuard
  <2>2. v \in D
    BY <1>2
  <2>3. At(t, "guard") /\ UNCHANGED <<swip, pages, next_pid, free, leader, channel, th>>
    BY <1>3 DEF WriteGuard, At
  <2>4. th[t].frame \in Frames
    BY <1>2, <2>3 DEF At, ThreadOK, LocalsOK
  <2> DEFINE r == [frames[th[t].frame] EXCEPT !.dirty = TRUE, !.data = v]
  <2>30. frames \in [Frames -> FrameOver(D)]
    BY <1>2, <2>2, <2>4 DEF SharedOver, FrameOver
  <2>31. th[t].frame \in Frames
    BY <2>1, <2>4, <1>2 DEF ThreadOK, LocalsOK, CoolingTicket
  <2>32. r \in FrameOver(D)
    BY <2>30, <2>31, <1>2, <2>2, <2>4 DEF FrameOver
  <2>33. frames' = [frames EXCEPT ![th[t].frame] = r]
    BY <2>1, <2>4
  <2>34. /\ r.pid = frames[th[t].frame].pid /\ r.pin = frames[th[t].frame].pin
        /\ r.writer = frames[th[t].frame].writer /\ r.readers = frames[th[t].frame].readers
    BY <2>30, <2>31 DEF FrameOver
  <2> HIDE DEF r
  <2>35. frames' \in [Frames -> FrameOver(D)] /\ FramesKept
    BY <2>30, <2>31, <2>32, <2>33, <2>34, FrameSet
  <2>5. SharedOver(D)' /\ Calm
    BY <1>2, <1>3, <2>3, <2>35 DEF WriteGuard, SharedOver, Calm, SwipsKept
  <2>6. Moves(t) /\ ViewsKept(t) /\ (\E E : TypedOver(E))'
    BY <1>1, <2>3, <2>5 DEF Moves, ViewsKept, TypedOver
  <2>7. ThreadOK(t)'
    BY <1>2, <2>3, <2>4, <2>35 DEF At, FramesKept, ResidentAt, SharedFix, ThreadOK, PlaceOK, LocalsOK, LeadOK, VacantOK, InstalledOK, ExactOK, EvictorOK, LatchOK
  <2> QED
    BY <2>5, <2>6, <2>7, QuietKeeps DEF Quiet
<1>4. CASE CaptureSnapshot(t)
  <2> DEFINE l == [th[t] EXCEPT !.pc = "captured", !.snap = frames[th[t].frame].data]
  <2>10. {"captured"} \subseteq Places
    BY DEF Places
  <2>11. th[t].frame \in Frames /\ frames[th[t].frame].data \in D
    BY <1>4, <1>2 DEF CaptureSnapshot, At, SharedOver, LocalsOver, ThreadOK, LocalsOK, FrameOver
  <2>12. l \in LocalsOver(D)
    BY <1>2, <2>10, <2>11 DEF LocalsOver
  <2>13. th' = [th EXCEPT ![t] = l]
    BY <1>4, <1>1, <1>2 DEF CaptureSnapshot, At, TypedOver, LocalsOver
  <2>14. /\ l.pc = "captured" /\ l.op = th[t].op /\ l.page = th[t].page
        /\ l.frame = th[t].frame /\ l.ticket = th[t].ticket
    BY <1>4, <1>2 DEF CaptureSnapshot, At, LocalsOver
  <2> HIDE DEF l
  <2>15. th' \in [Threads -> LocalsOver(D)] /\ Moves(t) /\ th'[t] = l
    BY <1>1, <2>12, <2>13, Becomes
  <2> DEFINE r == [frames[th[t].frame] EXCEPT !.snaps = @ \cup {t}]
  <2>30. frames \in [Frames -> FrameOver(D)]
    BY <1>2 DEF SharedOver, FrameOver
  <2>31. th[t].frame \in Frames
    BY <1>4, <1>2 DEF CaptureSnapshot, At, ThreadOK, LocalsOK, CoolingTicket
  <2>32. r \in FrameOver(D)
    BY <2>30, <2>31, <1>2 DEF FrameOver
  <2>33. frames' = [frames EXCEPT ![th[t].frame] = r]
    BY <1>4 DEF CaptureSnapshot, At
  <2>34. /\ r.pid = frames[th[t].frame].pid /\ r.pin = frames[th[t].frame].pin
        /\ r.writer = frames[th[t].frame].writer /\ r.readers = frames[th[t].frame].readers
    BY <2>30, <2>31 DEF FrameOver
  <2> HIDE DEF r
  <2>35. frames' \in [Frames -> FrameOver(D)] /\ FramesKept
    BY <2>30, <2>31, <2>32, <2>33, <2>34, FrameSet
  <2>36. th[t].op = "optimistic"
    BY <1>4 DEF CaptureSnapshot
  <2>16. SharedOver(D)' /\ Calm
    BY <1>2, <1>4, <2>35 DEF CaptureSnapshot, SharedOver, Calm, SwipsKept
  <2>19. At(t, "guard") /\ UNCHANGED <<swip, pages, next_pid, leader>>
    BY <1>4 DEF CaptureSnapshot, At
  <2>17. ThreadOK(t)'
    BY <2>19, <1>2, <2>14, <2>15, <2>31, <2>35, <2>36 DEF At, ThreadOK, PlaceOK, LocalsOK, LeadOK,
       VacantOK, InstalledOK, ExactOK, ResidentAt, EvictorOK, LatchOK, SharedFix, FramesKept
  <2>18. ViewsKept(t)
    BY <2>19, <1>2, <2>14, <2>15, <2>31, <2>35, <2>36 DEF At, ViewsKept, OwnedBy, ReservedBy,
       PinnedBy, ThreadOK, PlaceOK
  <2> QED
    BY <1>2, <2>15, <2>16, <2>17, <2>18, QuietKeeps DEF Quiet, TypedOver
<1> QED
  BY <1>3, <1>4

(***************************************************************************)
(* A guard unpins before it gives up its latch.                            *)
(***************************************************************************)
LEMMA DropsKeep ==
    ASSUME IInv, NEW t \in Threads,
           \/ DropGuard(t) \/ DropLatch(t)
    PROVE  IInv'
<1> USE DEF FixOps, FillPlaces, UndoPlaces, AcquirePlaces, EvictPlaces, EvictReserved, TaskPlaces,
            Fixing, GuardPlaces, Unreserved, Reserved, Published, EvictDetached,
            pageVars, queues, tiers, prefetchVars
<1>1. PICK D : TypedOver(D)
  BY DEF IInv
<1>2. th[t] \in LocalsOver(D) /\ SharedOver(D) /\ Values \subseteq D /\ ThreadOK(t)
  BY <1>1 DEF IInv, TypedOver
<1>3. CASE DropGuard(t)
  <2>19. th[t].pc \in {"guard", "captured"} /\ UNCHANGED <<swip, pages, next_pid, leader>>
    BY <1>3 DEF DropGuard, Unpin, At
  <2>10. th[t].frame \in Frames
    BY <1>2, <2>19 DEF At, LocalsOK, ThreadOK
  <2>15. Going(t, D, "unpinned")
    BY <1>3, <1>1, <2>10, GotoGoes DEF DropGuard, Unpin, At, Places
  <2>9. frames' = [frames EXCEPT ![th[t].frame].pin = frames[th[t].frame].pin - 1]
    BY <1>3 DEF DropGuard, Unpin, At
  <2>8. frames[th[t].frame].pin - 1 \in Int
    BY <1>2, <2>10 DEF EVICTING, SharedOver, FrameOver
  <2>20. /\ frames' \in [Frames -> FrameOver(D)] /\ OnlyPin(th[t].frame)
        /\ frames'[th[t].frame].pin = frames[th[t].frame].pin - 1
    BY <1>2, <2>8, <2>9, <2>10, PinSet
  <2>16. SharedOver(D)' /\ Rest
    BY <1>3, <1>2, <2>20 DEF DropGuard, Unpin, At, SharedOver, Rest
  <2>18. /\ PinnedBy(th[t]) = {th[t].frame} /\ PinnedBy(th'[t]) = {}
        /\ ReservedBy(th'[t]) = ReservedBy(th[t])
    BY <1>2, <2>10, <2>15, <2>19 DEF At, Going, OwnedBy, ReservedBy, PinnedBy, ThreadOK, PlaceOK
  <2>11. OwnedBy(th'[t]) = OwnedBy(th[t]) /\ NoNewPage(t)
    BY <1>2, <2>10, <2>15, <2>19 DEF At, Going, NoNewPage, OwnedBy, ReservedBy, PinnedBy,
       ThreadOK, PlaceOK
  <2>12. (\A g \in Frames : PinOK(g))'
    BY <2>10, <2>15, <2>16, <2>18, <2>20, UnpinPins DEF Going, Rest, OnlyPin, PinnersKept,
       ReserversKept
  <2>17. ThreadOK(t)'
    <3>1. PlaceOK(t)' /\ LocalsOK(t)'
      BY <1>2, <2>10, <2>15, <2>19 DEF Going, ThreadOK, PlaceOK, LocalsOK
    <3>2. LeadOK(t)' /\ VacantOK(t)' /\ InstalledOK(t)' /\ ExactOK(t)' /\ EvictorOK(t)'
      BY <1>2, <2>15, <2>19 DEF Going, LeadOK, VacantOK, InstalledOK, ExactOK, EvictorOK, ThreadOK, PlaceOK
    <3>3. LatchOK(t)'
      BY <1>2, <2>10, <2>15, <2>19, <2>20 DEF Going, OnlyPin, LatchOK, ThreadOK, SharedFix
    <3> QED
      BY <3>1, <3>2, <3>3 DEF ThreadOK
  <2> QED
    BY <1>2, <2>10, <2>11, <2>12, <2>15, <2>16, <2>17, <2>20, PinStepKeeps DEF Going, OwnersKept,
       TypedOver
<1>4. CASE DropLatch(t)
  <2>1. CASE th[t].op = "optimistic"
    <3>19. At(t, "unpinned") /\ UNCHANGED <<swip, pages, next_pid, leader>>
      BY <2>1, <1>4 DEF DropLatch, At
    <3>10. th[t].frame \in Frames
      BY <1>2, <3>19 DEF At, LocalsOK, ThreadOK, CoolingTicket
    <3>15. Going(t, D, "snapshot")
      BY <2>1, <1>4, <1>1, GotoGoes DEF DropLatch, At, Places
    <3>20. frames' \in [Frames -> FrameOver(D)] /\ OnlyLatch(t)
      BY <2>1, <1>4, <1>2, <3>10, UnlockSet DEF DropLatch, At
    <3>16. SharedOver(D)' /\ Rest
      BY <2>1, <1>4, <1>2, <3>20 DEF DropLatch, At, SharedOver, Rest
    <3>17. ThreadOK(t)'
      <4>1. PlaceOK(t)' /\ LocalsOK(t)'
        BY <1>2, <2>1, <3>10, <3>15, <3>19 DEF At, Going, ThreadOK, PlaceOK, LocalsOK
      <4>2. /\ LeadOK(t)' /\ VacantOK(t)' /\ InstalledOK(t)' /\ ExactOK(t)' /\ EvictorOK(t)'
            /\ LatchOK(t)'
        BY <3>15 DEF Going, LeadOK, VacantOK, InstalledOK, ExactOK, EvictorOK, LatchOK
      <4> QED
        BY <4>1, <4>2 DEF ThreadOK
    <3>18. ViewsKept(t)
      BY <1>2, <3>15, <3>19 DEF At, Going, ViewsKept, OwnedBy, ReservedBy, PinnedBy, ThreadOK,
         PlaceOK
    <3> QED
      BY <1>2, <3>15, <3>16, <3>17, <3>18, <3>20, LatchStepKeeps DEF Going, TypedOver
  <2>2. CASE th[t].op # "optimistic"
    <3>1. At(t, "unpinned") /\ UNCHANGED <<swip, pages, next_pid, leader>>
      BY <1>4 DEF DropLatch, At
    <3>2. th[t].frame \in Frames
      BY <1>2, <3>1 DEF At, LocalsOK, ThreadOK
    <3>3. Gone(t, D) /\ ThreadOK(t)'
      BY <1>1, <1>4, <2>2, LeaveGoes DEF DropLatch, Leave
    <3>4. frames' \in [Frames -> FrameOver(D)] /\ OnlyLatch(t)
      BY <1>2, <1>4, <3>2, UnlockSet DEF DropLatch
    <3>5. SharedOver(D)' /\ Rest
      BY <1>2, <1>4, <3>4 DEF DropLatch, SharedOver, Rest
    <3>6. th'[t].pc = "idle" /\ th'[t].op = None /\ None \notin Operations
      BY <3>3, PoolAssumption DEF Gone, Idle
    <3>7. OwnedBy(th'[t]) = {} /\ ReservedBy(th'[t]) = {} /\ PinnedBy(th'[t]) = {} /\ th'[t].op # "alloc"
      BY <3>6 DEF OwnedBy, ReservedBy, PinnedBy, Operations
    <3>8. OwnedBy(th[t]) = {} /\ ReservedBy(th[t]) = {} /\ PinnedBy(th[t]) = {}
      BY <1>2, <3>1 DEF At, OwnedBy, ReservedBy, PinnedBy
    <3> QED
      BY <1>2, <3>3, <3>4, <3>5, <3>7, <3>8, LatchStepKeeps DEF Gone, ViewsKept, TypedOver
  <2> QED
    BY <2>1, <2>2
<1> QED
  BY <1>3, <1>4

(***************************************************************************)
(* A snapshot holds neither pin nor latch: validating it and dropping it   *)
(* touch nobody else.                                                      *)
(***************************************************************************)
LEMMA SnapshotsKeep ==
    ASSUME IInv, NEW t \in Threads,
           \/ SnapshotExact(t) \/ SnapshotValidates(t)
    PROVE  IInv'
<1> USE DEF FixOps, FillPlaces, UndoPlaces, AcquirePlaces, EvictPlaces, EvictReserved, TaskPlaces,
            Fixing, GuardPlaces, Unreserved, Reserved, Published, EvictDetached,
            pageVars, queues, tiers, prefetchVars
<1>1. PICK D : TypedOver(D)
  BY DEF IInv
<1>2. th[t] \in LocalsOver(D) /\ SharedOver(D) /\ Values \subseteq D /\ ThreadOK(t)
  BY <1>1 DEF IInv, TypedOver
<1>3. CASE SnapshotExact(t)
  <2>1. CASE Goto(t, "validate") /\ UNCHANGED frames
    <3>15. Going(t, D, "validate")
      BY <2>1, <1>3, <1>1, GotoGoes DEF SnapshotExact, At, Places
    <3>19. At(t, "snapshot") /\ UNCHANGED <<swip, pages, next_pid, frames, leader>>
      BY <2>1, <1>3 DEF SnapshotExact, At
    <3>16. SharedOver(D)' /\ Calm
      BY <2>1, <1>3, <1>2 DEF SnapshotExact, At, SharedOver, Calm, FramesKept, SwipsKept
    <3>17. ThreadOK(t)'
      BY <3>19, <1>2, <3>15 DEF At, Going, ThreadOK, PlaceOK, LocalsOK, LeadOK, VacantOK,
         InstalledOK, ExactOK, EvictorOK, LatchOK
    <3>18. ViewsKept(t)
      BY <3>19, <1>2, <3>15 DEF At, Going, ViewsKept, OwnedBy, ReservedBy, PinnedBy, ThreadOK,
         PlaceOK
    <3> QED
      BY <1>2, <3>15, <3>16, <3>17, <3>18, QuietKeeps DEF Going, Quiet, TypedOver
  <2>2. CASE DropSnapshot(t)
    <3> DEFINE r == [frames[th[t].frame] EXCEPT !.snaps = @ \ {t}]
    <3>30. frames \in [Frames -> FrameOver(D)]
      BY <1>2 DEF SharedOver, FrameOver
    <3>31. th[t].frame \in Frames
      BY <1>3, <2>2, <1>2 DEF SnapshotExact, DropSnapshot, At, ThreadOK, LocalsOK, CoolingTicket
    <3>32. r \in FrameOver(D)
      BY <3>30, <3>31, <1>2 DEF FrameOver
    <3>33. frames' = [frames EXCEPT ![th[t].frame] = r]
      BY <1>3, <2>2 DEF SnapshotExact, DropSnapshot, At
    <3>34. /\ r.pid = frames[th[t].frame].pid /\ r.pin = frames[th[t].frame].pin
          /\ r.writer = frames[th[t].frame].writer /\ r.readers = frames[th[t].frame].readers
      BY <3>30, <3>31 DEF FrameOver
    <3> HIDE DEF r
    <3>35. frames' \in [Frames -> FrameOver(D)] /\ FramesKept
      BY <3>30, <3>31, <3>32, <3>33, <3>34, FrameSet
    <3>15. Gone(t, D) /\ ThreadOK(t)'
      BY <2>2, <1>3, <1>1, LeaveGoes DEF SnapshotExact, DropSnapshot, Leave, At
    <3>16. SharedOver(D)' /\ Calm
      BY <2>2, <1>3, <1>2, <3>35 DEF SnapshotExact, DropSnapshot, Leave, At, SharedOver, Calm,
         FramesKept, SwipsKept
    <3>17. OwnedBy(th[t]) = {} /\ ReservedBy(th[t]) = {} /\ PinnedBy(th[t]) = {}
      BY <2>2, <1>3, <1>2 DEF SnapshotExact, DropSnapshot, Leave, At, OwnedBy, ReservedBy,
         PinnedBy, ThreadOK, PlaceOK
    <3> QED
      BY <1>1, <3>15, <3>16, <3>17, LeaveKeeps
  <2> QED
    BY <1>3, <2>1, <2>2 DEF SnapshotExact
<1>4. CASE SnapshotValidates(t)
  <2>1. CASE Goto(t, "snapshot") /\ UNCHANGED frames
    <3>15. Going(t, D, "snapshot")
      BY <2>1, <1>4, <1>1, GotoGoes DEF SnapshotValidates, At, Places
    <3>19. At(t, "validate") /\ UNCHANGED <<swip, pages, next_pid, frames, leader>>
      BY <2>1, <1>4 DEF SnapshotValidates, At
    <3>16. SharedOver(D)' /\ Calm
      BY <2>1, <1>4, <1>2 DEF SnapshotValidates, At, SharedOver, Calm, FramesKept, SwipsKept
    <3>17. ThreadOK(t)'
      BY <3>19, <1>2, <3>15 DEF At, Going, ThreadOK, PlaceOK, LocalsOK, LeadOK, VacantOK,
         InstalledOK, ExactOK, EvictorOK, LatchOK
    <3>18. ViewsKept(t)
      BY <3>19, <1>2, <3>15 DEF At, Going, ViewsKept, OwnedBy, ReservedBy, PinnedBy, ThreadOK,
         PlaceOK
    <3> QED
      BY <1>2, <3>15, <3>16, <3>17, <3>18, QuietKeeps DEF Going, Quiet, TypedOver
  <2>2. CASE DropSnapshot(t)
    <3> DEFINE r == [frames[th[t].frame] EXCEPT !.snaps = @ \ {t}]
    <3>30. frames \in [Frames -> FrameOver(D)]
      BY <1>2 DEF SharedOver, FrameOver
    <3>31. th[t].frame \in Frames
      BY <1>4, <2>2, <1>2 DEF SnapshotValidates, DropSnapshot, At, ThreadOK, LocalsOK,
         CoolingTicket
    <3>32. r \in FrameOver(D)
      BY <3>30, <3>31, <1>2 DEF FrameOver
    <3>33. frames' = [frames EXCEPT ![th[t].frame] = r]
      BY <1>4, <2>2 DEF SnapshotValidates, DropSnapshot, At
    <3>34. /\ r.pid = frames[th[t].frame].pid /\ r.pin = frames[th[t].frame].pin
          /\ r.writer = frames[th[t].frame].writer /\ r.readers = frames[th[t].frame].readers
      BY <3>30, <3>31 DEF FrameOver
    <3> HIDE DEF r
    <3>35. frames' \in [Frames -> FrameOver(D)] /\ FramesKept
      BY <3>30, <3>31, <3>32, <3>33, <3>34, FrameSet
    <3>15. Gone(t, D) /\ ThreadOK(t)'
      BY <2>2, <1>4, <1>1, LeaveGoes DEF SnapshotValidates, DropSnapshot, Leave, At
    <3>16. SharedOver(D)' /\ Calm
      BY <2>2, <1>4, <1>2, <3>35 DEF SnapshotValidates, DropSnapshot, Leave, At, SharedOver, Calm,
         FramesKept, SwipsKept
    <3>17. OwnedBy(th[t]) = {} /\ ReservedBy(th[t]) = {} /\ PinnedBy(th[t]) = {}
      BY <2>2, <1>4, <1>2 DEF SnapshotValidates, DropSnapshot, Leave, At, OwnedBy, ReservedBy,
         PinnedBy, ThreadOK, PlaceOK
    <3> QED
      BY <1>1, <3>15, <3>16, <3>17, LeaveKeeps
  <2> QED
    BY <1>4, <2>1, <2>2 DEF SnapshotValidates
<1> QED
  BY <1>3, <1>4

(***************************************************************************)
(* OwnedFreeFrame::try_checkout pops a frame and reserves it, or gives up. *)
(***************************************************************************)
LEMMA TryCheckoutKeeps ==
    ASSUME IInv, NEW t \in Threads,
           \/ CheckoutPops(t) \/ CheckoutClaims(t)
    PROVE  IInv'
<1> USE DEF FixOps, FillPlaces, UndoPlaces, AcquirePlaces, EvictPlaces, EvictReserved, TaskPlaces,
            Fixing, GuardPlaces, Unreserved, Reserved, Published, EvictDetached,
            pageVars, queues, tiers, prefetchVars
<1>1. PICK D : TypedOver(D)
  BY DEF IInv
<1>2. th[t] \in LocalsOver(D) /\ SharedOver(D) /\ Values \subseteq D /\ ThreadOK(t)
  BY <1>1 DEF IInv, TypedOver
<1>3. CASE CheckoutPops(t)
  <2>1. CASE PopFree /\ th' = [th EXCEPT ![t].pc = "pf_claim", ![t].frame = Head(free)]
    <3> DEFINE l == [th[t] EXCEPT !.pc = "pf_claim", !.frame = Head(free)]
    <3>10. {"pf_claim"} \subseteq Places
      BY DEF Places
    <3>11. Head(free) \in Frames /\ Tail(free) \in Seq(Frames)
      BY <2>1, <1>3, <1>2 DEF CheckoutPops, At, SharedOver, LocalsOver, PopFree
    <3>12. l \in LocalsOver(D)
      BY <1>2, <3>10, <3>11 DEF LocalsOver
    <3>13. th' = [th EXCEPT ![t] = l]
      BY <2>1, <1>3, <1>1, <1>2 DEF CheckoutPops, At, TypedOver, LocalsOver
    <3>14. /\ l.pc = "pf_claim" /\ l.op = th[t].op /\ l.page = th[t].page
          /\ l.frame = Head(free) /\ l.ticket = th[t].ticket
      BY <2>1, <1>3, <1>2 DEF CheckoutPops, At, LocalsOver
    <3> HIDE DEF l
    <3>15. th' \in [Threads -> LocalsOver(D)] /\ Moves(t) /\ th'[t] = l
      BY <1>1, <3>12, <3>13, Becomes
    <3>19. /\ At(t, "pf_pop") /\ UNCHANGED <<swip, pages, next_pid, frames, leader, channel>>
          /\ PopFree /\ free' = Tail(free)
      BY <2>1, <1>3 DEF CheckoutPops, At, PopFree
    <3>16. SharedOver(D)'
      BY <2>1, <1>3, <1>2, <3>11 DEF CheckoutPops, At, PopFree, SharedOver
    <3>20. OwnedBy(th[t]) = {} /\ OwnedBy(th'[t]) = {Head(free)}
      BY <1>2, <3>11, <3>14, <3>15, <3>19 DEF At, OwnedBy, ThreadOK, PlaceOK
    <3>21. /\ ReservedBy(th'[t]) = ReservedBy(th[t]) /\ PinnedBy(th'[t]) = PinnedBy(th[t])
          /\ NoNewPage(t)
      BY <1>2, <3>14, <3>15, <3>19 DEF At, ReservedBy, PinnedBy, NoNewPage, ThreadOK, PlaceOK
    <3>17. ThreadOK(t)'
      BY <1>2, <3>11, <3>14, <3>15, <3>19 DEF At, ThreadOK, PlaceOK, LocalsOK, LeadOK, VacantOK,
         InstalledOK, ExactOK, EvictorOK, LatchOK
    <3> QED
      BY <1>2, <3>15, <3>16, <3>17, <3>19, <3>20, <3>21, PopKeeps DEF TypedOver
  <2>2. CASE free = <<>> /\ UNCHANGED free /\ Goto(t, "unreserve")
    <3>15. Going(t, D, "unreserve")
      BY <2>2, <1>3, <1>1, GotoGoes DEF CheckoutPops, At, Places
    <3>19. At(t, "pf_pop") /\ UNCHANGED <<swip, pages, next_pid, frames, leader>>
      BY <2>2, <1>3 DEF CheckoutPops, At
    <3>16. SharedOver(D)' /\ Calm
      BY <2>2, <1>3, <1>2 DEF CheckoutPops, At, SharedOver, Calm, FramesKept, SwipsKept
    <3>17. ThreadOK(t)'
      BY <3>19, <1>2, <3>15 DEF At, Going, ThreadOK, PlaceOK, LocalsOK, LeadOK, VacantOK,
         InstalledOK, ExactOK, EvictorOK, LatchOK
    <3>18. ViewsKept(t)
      BY <3>19, <1>2, <3>15 DEF At, Going, ViewsKept, OwnedBy, ReservedBy, PinnedBy, ThreadOK,
         PlaceOK
    <3> QED
      BY <1>2, <3>15, <3>16, <3>17, <3>18, QuietKeeps DEF Going, Quiet, TypedOver
  <2> QED
    BY <1>3, <2>1, <2>2 DEF CheckoutPops
<1>4. CASE CheckoutClaims(t)
  <2>1. CASE CanClaim(th[t].frame) /\ Claim(th[t].frame) /\ Goto(t, "pf_gate")
    <3>19. At(t, "pf_claim") /\ UNCHANGED <<swip, pages, next_pid, leader>>
      BY <2>1, <1>4 DEF CheckoutClaims, Claim, CanClaim, At
    <3>10. th[t].frame \in Frames
      BY <1>2, <3>19 DEF At, LocalsOK, ThreadOK
    <3>15. Going(t, D, "pf_gate")
      BY <2>1, <1>4, <1>1, <3>10, GotoGoes DEF CheckoutClaims, Claim, CanClaim, At, Places
    <3>9. frames' = [frames EXCEPT ![th[t].frame].pin = EVICTING]
      BY <2>1, <1>4 DEF CheckoutClaims, Claim, CanClaim, At
    <3>8. EVICTING \in Int
      BY <1>2, <3>10 DEF EVICTING, SharedOver, FrameOver
    <3>20. /\ frames' \in [Frames -> FrameOver(D)] /\ OnlyPin(th[t].frame)
          /\ frames'[th[t].frame].pin = EVICTING
      BY <1>2, <3>8, <3>9, <3>10, PinSet
    <3>16. SharedOver(D)' /\ Rest
      BY <2>1, <1>4, <1>2, <3>20 DEF CheckoutClaims, Claim, CanClaim, At, SharedOver, Rest
    <3>18. ReservedBy(th[t]) = {} /\ ReservedBy(th'[t]) = {th[t].frame} /\ PinnedBy(th'[t]) = PinnedBy(th[t])
      BY <1>2, <3>10, <3>15, <3>19 DEF At, Going, OwnedBy, ReservedBy, PinnedBy, ThreadOK, PlaceOK
    <3>11. OwnedBy(th'[t]) = OwnedBy(th[t]) /\ NoNewPage(t)
      BY <1>2, <3>10, <3>15, <3>19 DEF At, Going, NoNewPage, OwnedBy, ReservedBy, PinnedBy,
         ThreadOK, PlaceOK
    <3>12. (\A g \in Frames : PinOK(g))'
      BY <2>1, <1>4, <3>10, <3>15, <3>16, <3>18, <3>20, ClaimPins DEF CheckoutClaims, Claim,
         CanClaim, At, Going, Rest, OnlyPin, PinnersKept, ReserversKept
    <3>17. ThreadOK(t)'
      BY <1>2, <3>10, <3>15, <3>19, <3>20 DEF At, OnlyPin, Going, ThreadOK, PlaceOK, LocalsOK,
         LeadOK, VacantOK, InstalledOK, ExactOK, EvictorOK, LatchOK
    <3> QED
      BY <1>2, <3>10, <3>11, <3>12, <3>15, <3>16, <3>17, <3>20, PinStepKeeps DEF Going,
         OwnersKept, TypedOver
  <2>2. CASE ~CanClaim(th[t].frame) /\ UNCHANGED frames /\ Goto(t, "undo_push")
    <3>15. Going(t, D, "undo_push")
      BY <2>2, <1>4, <1>1, GotoGoes DEF CheckoutClaims, At, Places
    <3>19. At(t, "pf_claim") /\ UNCHANGED <<swip, pages, next_pid, frames, leader>>
      BY <2>2, <1>4 DEF CheckoutClaims, At
    <3>16. SharedOver(D)' /\ Calm
      BY <2>2, <1>4, <1>2 DEF CheckoutClaims, At, SharedOver, Calm, FramesKept, SwipsKept
    <3>17. ThreadOK(t)'
      BY <3>19, <1>2, <3>15 DEF At, Going, ThreadOK, PlaceOK, LocalsOK, LeadOK, VacantOK,
         InstalledOK, ExactOK, EvictorOK, LatchOK
    <3>18. ViewsKept(t)
      BY <3>19, <1>2, <3>15 DEF At, Going, ViewsKept, OwnedBy, ReservedBy, PinnedBy, ThreadOK,
         PlaceOK
    <3> QED
      BY <1>2, <3>15, <3>16, <3>17, <3>18, QuietKeeps DEF Going, Quiet, TypedOver
  <2> QED
    BY <1>4, <2>1, <2>2 DEF CheckoutClaims
<1> QED
  BY <1>3, <1>4

(***************************************************************************)
(* A sent task takes the frame along.                                      *)
(***************************************************************************)
LEMMA SendKeeps ==
    ASSUME IInv, NEW t \in Threads,
           SendTask(t)
    PROVE  IInv'
<1> USE DEF FixOps, FillPlaces, UndoPlaces, AcquirePlaces, EvictPlaces, EvictReserved, TaskPlaces,
            Fixing, GuardPlaces, Unreserved, Reserved, Published, EvictDetached,
            pageVars, queues, tiers, prefetchVars
<1>1. PICK D : TypedOver(D)
  BY DEF IInv
<1>2. th[t] \in LocalsOver(D) /\ SharedOver(D) /\ Values \subseteq D /\ ThreadOK(t)
  BY <1>1 DEF IInv, TypedOver
<1>3. At(t, "pf_send") /\ UNCHANGED <<swip, pages, next_pid, frames, free, leader>>
  BY DEF SendTask, At
<1>4. PICK k : k = [pid |-> th[t].page, frame |-> th[t].frame]
  OBVIOUS
<1>5. channel' = Append(channel, k) /\ k.frame = th[t].frame /\ k.pid = th[t].page
  BY <1>4 DEF SendTask
<1>6. th[t].frame \in Frames /\ th[t].page \in pages
  BY <1>2, <1>3 DEF At, ThreadOK, PlaceOK, LocalsOK, LocalsOver, Operations
<1>7. k \in PrefetchTask /\ channel \in Seq(PrefetchTask)
  BY <1>2, <1>4, <1>6 DEF PrefetchTask, SharedOver
<1>8. SharedOver(D)'
  BY <1>2, <1>5, <1>7 DEF SendTask, SharedOver
<1>9. Gone(t, D) /\ ThreadOK(t)'
  BY <1>1, LeaveGoes DEF SendTask, Leave
<1>10. Moves(t) /\ (\E E : TypedOver(E))'
  BY <1>2, <1>8, <1>9 DEF Gone, TypedOver
<1>11. th'[t].pc = "idle" /\ th'[t].op = None /\ None \notin Operations
  BY <1>9, PoolAssumption DEF Gone, Idle
<1>12. OwnedBy(th'[t]) = {} /\ ReservedBy(th'[t]) = {} /\ PinnedBy(th'[t]) = {} /\ th'[t].op # "alloc"
  BY <1>11 DEF OwnedBy, ReservedBy, PinnedBy, Operations
<1>13. OwnedBy(th[t]) = {k.frame} /\ ReservedBy(th[t]) = {k.frame} /\ PinnedBy(th[t]) = {}
  BY <1>2, <1>3, <1>5, <1>6 DEF At, OwnedBy, ReservedBy, PinnedBy
<1>14. (\A g \in Frames : InOnePlace(g))' /\ (\A g \in Frames : PinOK(g))'
  <2>1. HomesKept /\ PinnersKept(t) /\ (\A g \in Frames : frames'[g].pin = frames[g].pin)
    BY <1>3, <1>10, <1>12, <1>13 DEF HomesKept, PinnersKept
  <2> QED
    BY <1>3, <1>5, <1>7, <1>10, <1>12, <1>13, <2>1, SendPlaces
<1>15. \A i \in 1 .. Len(channel') : channel'[i].pid \in pages
  <2> SUFFICES ASSUME NEW i \in 1 .. Len(channel') PROVE channel'[i].pid \in pages
    OBVIOUS
  <2>1. Len(channel') = Len(channel) + 1 /\ Len(channel) \in Nat
    BY <1>5, <1>7
  <2>2. CASE i = Len(channel) + 1
    BY <1>5, <1>6, <1>7, <2>2
  <2>3. CASE i \in 1 .. Len(channel)
    <3>1. channel'[i] = channel[i]
      BY <1>5, <1>7, <2>3
    <3> QED
      BY <2>3, <3>1 DEF IInv, FreshOK
  <2> QED
    BY <2>1, <2>2, <2>3
<1>16. Orderly(t)
  <2>1. HomesKept /\ SwipsKept /\ PidsKept /\ (\A u \in Threads : LatchesKept(u))
    BY <1>3 DEF HomesKept, SwipsKept, PidsKept, LatchesKept
  <2>2. \A u \in Threads \ {t} : EvictorOK(u)'
    BY <2>1, <1>10, TicketStays DEF Moves
  <2> QED
    BY <1>3, <2>1, <2>2, <1>10, <1>12, <1>15 DEF Orderly, FreshKept
<1>17. LatchExcludes'
  BY <1>3 DEF IInv, LatchExcludes
<1> QED
  BY <1>9, <1>10, <1>14, <1>16, <1>17, OrderlyKeeps

(***************************************************************************)
(* A worker owns the task it has received, with its frame.                 *)
(***************************************************************************)
LEMMA ReceiveKeeps ==
    ASSUME IInv, NEW t \in Threads,
           ReceiveTask(t)
    PROVE  IInv'
<1> USE DEF FixOps, FillPlaces, UndoPlaces, AcquirePlaces, EvictPlaces, EvictReserved, TaskPlaces,
            Fixing, GuardPlaces, Unreserved, Reserved, Published, EvictDetached,
            pageVars, queues, tiers, prefetchVars
<1>1. PICK D : TypedOver(D)
  BY DEF IInv
<1>2. th[t] \in LocalsOver(D) /\ SharedOver(D) /\ Values \subseteq D /\ ThreadOK(t)
  BY <1>1 DEF IInv, TypedOver
<1>3. At(t, "idle") /\ UNCHANGED <<swip, pages, next_pid, frames, free, leader>>
  BY DEF ReceiveTask, Starts, At
<1>4. PICK k : k = Head(channel)
  OBVIOUS
<1>5. channel \in Seq(PrefetchTask) /\ channel # <<>> /\ channel' = Tail(channel)
  BY <1>2 DEF ReceiveTask, SharedOver
<1>6. k \in PrefetchTask /\ k = channel[1] /\ 1 \in 1 .. Len(channel)
  BY <1>4, <1>5
<1>7. k.frame \in Frames /\ k.pid \in Pages /\ k.pid \in pages
  BY <1>6 DEF PrefetchTask, IInv, FreshOK
<1>8. SharedOver(D)'
  BY <1>2, <1>5 DEF ReceiveTask, SharedOver
<1> DEFINE to == IF stopping THEN "undo_release" ELSE "fault"
           l == [th[t] EXCEPT !.pc = to, !.op = "prefetch", !.page = k.pid, !.frame = k.frame]
<1>9. to \in {"undo_release", "fault"} /\ {"undo_release", "fault"} \subseteq Places
  BY DEF Places
<1>10. th' = [th EXCEPT ![t] = l]
  BY <1>1, <1>4 DEF ReceiveTask, TypedOver, LocalsOver
<1> HIDE DEF to
<1>11. l \in LocalsOver(D)
  BY <1>2, <1>7, <1>9 DEF LocalsOver, Operations
<1>12. l.pc = to /\ l.op = "prefetch" /\ l.page = k.pid /\ l.frame = k.frame
  BY <1>2 DEF LocalsOver
<1> HIDE DEF l
<1>13. th' \in [Threads -> LocalsOver(D)] /\ Moves(t) /\ th'[t] = l
  BY <1>1, <1>10, <1>11, Becomes
<1>14. (\E E : TypedOver(E))'
  BY <1>2, <1>8, <1>13 DEF TypedOver
<1>15. OwnedBy(th'[t]) = {k.frame} /\ ReservedBy(th'[t]) = {k.frame} /\ PinnedBy(th'[t]) = {}
  BY <1>7, <1>9, <1>12, <1>13 DEF OwnedBy, ReservedBy, PinnedBy
<1>16. OwnedBy(th[t]) = {} /\ ReservedBy(th[t]) = {} /\ PinnedBy(th[t]) = {}
  BY <1>3 DEF At, OwnedBy, ReservedBy, PinnedBy
<1>17. (\A g \in Frames : InOnePlace(g))' /\ (\A g \in Frames : PinOK(g))'
  <2>1. HomesKept /\ PinnersKept(t) /\ (\A g \in Frames : frames'[g].pin = frames[g].pin)
    BY <1>3, <1>13, <1>15, <1>16 DEF HomesKept, PinnersKept
  <2> QED
    BY <1>3, <1>4, <1>5, <1>13, <1>14, <1>15, <1>16, <2>1, ReceivePlaces
<1>18. \A i \in 1 .. Len(channel') : channel'[i].pid \in pages
  <2> SUFFICES ASSUME NEW i \in 1 .. Len(channel') PROVE channel'[i].pid \in pages
    OBVIOUS
  <2>1. channel'[i] = channel[i + 1] /\ i + 1 \in 1 .. Len(channel)
    BY <1>5, <1>7, ReceiveIndices
  <2> QED
    BY <2>1 DEF IInv, FreshOK
<1>19. ThreadOK(t)'
  BY <1>3, <1>7, <1>9, <1>12, <1>13, PoolAssumption DEF Operations, ThreadOK, PlaceOK, LocalsOK, LeadOK, VacantOK, InstalledOK, ExactOK, EvictorOK, LatchOK
<1>20. Orderly(t)
  <2>1. HomesKept /\ SwipsKept /\ PidsKept /\ (\A u \in Threads : LatchesKept(u))
    BY <1>3 DEF HomesKept, SwipsKept, PidsKept, LatchesKept
  <2>2. \A u \in Threads \ {t} : EvictorOK(u)'
    BY <2>1, <1>13, TicketStays DEF Moves
  <2> QED
    BY <1>3, <2>1, <2>2, <1>13, <1>12, <1>18 DEF Orderly, FreshKept
<1>21. LatchExcludes'
  BY <1>3 DEF IInv, LatchExcludes
<1> QED
  BY <1>14, <1>17, <1>19, <1>20, <1>21, OrderlyKeeps

(***************************************************************************)
(* The initial state: every frame is free and every thread idle.           *)
(***************************************************************************)
LEMMA InitOK == PoolInit => IInv
<1> SUFFICES ASSUME PoolInit PROVE IInv
  OBVIOUS
<1> USE DEF PoolInit
<1>1. TypedOver(Values)
  <2>1. "idle" \in Places
    BY DEF Places
  <2>2. Idle \in LocalsOver(Values)
    BY <2>1, PoolAssumption DEF LocalsOver, Idle
  <2>3. EmptyFrame \in FrameOver(Values)
    BY PoolAssumption DEF FrameOver, EmptyFrame, Generations
  <2>4. free \in Seq(Frames)
    <3>1. FrameCount \in Nat
      BY PoolAssumption
    <3>2. \A i \in 1 .. FrameCount : i - 1 \in Frames
      BY <3>1 DEF Frames
    <3>3. free \in [1 .. FrameCount -> Frames]
      BY <3>2
    <3> QED
      BY <3>1, <3>3
  <2>5. cooling \in Seq(CoolingTicket) /\ channel \in Seq(PrefetchTask)
    OBVIOUS
  <2>6. next_pid \in 0 .. (MaxPid + 1)
    BY PoolAssumption
  <2> QED
    BY <2>2, <2>3, <2>4, <2>5, <2>6 DEF TypedOver, SharedOver, SwipStates
<1>2. ASSUME NEW t \in Threads PROVE ThreadOK(t) /\ OwnedBy(th[t]) = {} /\ ReservedBy(th[t]) = {} /\ PinnedBy(th[t]) = {}
  <2>1. th[t].pc = "idle" /\ th[t].op = None /\ th[t] = Idle /\ None \notin Operations
    BY PoolAssumption DEF Idle
  <2>2. ThreadOK(t)
    BY <2>1 DEF Operations, ThreadOK, PlaceOK, LocalsOK, LeadOK, VacantOK, InstalledOK, ExactOK,
       EvictorOK, LatchOK, FixOps, FillPlaces, UndoPlaces, AcquirePlaces, EvictPlaces, EvictReserved,
       TaskPlaces, Fixing, GuardPlaces, Unreserved, Reserved, Published, EvictDetached
  <2>3. OwnedBy(th[t]) = {} /\ ReservedBy(th[t]) = {} /\ PinnedBy(th[t]) = {}
    BY <2>1 DEF OwnedBy, ReservedBy, PinnedBy, Unreserved, Reserved, Published, TaskPlaces,
       EvictDetached, EvictReserved, Fixing
  <2> QED
    BY <2>2, <2>3
<1>3. ASSUME NEW p \in Pages, NEW f PROVE ~ResidentAt(p, f)
  BY DEF ResidentAt, Evicted, Hot, Cooling
<1>4. ASSUME NEW f \in Frames PROVE InOnePlace(f) /\ PinOK(f)
  <2>1. Owners(f) = {} /\ Reservers(f) = {} /\ Pinners(f) = {}
    BY <1>2, Views
  <2>2. TasksWith(f) = {}
    BY DEF TasksWith
  <2>3. Occupants(f) = {}
    BY <1>3 DEF Occupants
  <2>4. FreeAt(f) = {f + 1}
    <3>1. Len(free) = FrameCount /\ FrameCount \in Nat
      BY PoolAssumption
    <3>2. \A i \in 1 .. FrameCount : free[i] = i - 1
      OBVIOUS
    <3>3. f \in 0 .. (FrameCount - 1)
      BY DEF Frames
    <3>4. \A i : i \in 1 .. FrameCount /\ free[i] = f <=> i = f + 1
      BY <3>1, <3>2, <3>3
    <3> QED
      BY <3>1, <3>4 DEF FreeAt
  <2>5. frames[f].pin = 0
    BY DEF EmptyFrame
  <2> QED
    BY <2>1, <2>2, <2>3, <2>4, <2>5, FS_EmptySet DEF InOnePlace, PinOK, Single, EVICTING
<1>5. OccupantOK
  BY <1>3 DEF OccupantOK
<1>6. FreshOK
  <2>1. \A t \in Threads : th[t].op = None /\ None \notin Operations
    BY PoolAssumption DEF Idle
  <2> QED
    BY <2>1 DEF FreshOK, Operations
<1>7. LatchExcludes
  BY DEF LatchExcludes, EmptyFrame
<1> QED
  BY <1>1, <1>2, <1>4, <1>5, <1>6, <1>7 DEF IInv

(***************************************************************************)
(* A stuttering step.                                                      *)
(***************************************************************************)
LEMMA StutterKeeps == IInv /\ UNCHANGED poolVars => IInv'
<1> SUFFICES ASSUME IInv, UNCHANGED poolVars PROVE IInv'
  OBVIOUS
<1> USE DEF poolVars
<1>1. (\E D : TypedOver(D))'
  BY DEF IInv, TypedOver, SharedOver
<1>2. \A t \in Threads : ThreadOK(t)'
  BY DEF IInv, ThreadOK, PlaceOK, LocalsOK, LeadOK, VacantOK, InstalledOK, ExactOK, EvictorOK,
     LatchOK, ResidentAt, SharedFix
<1>3. ASSUME NEW f \in Frames PROVE InOnePlace(f)' /\ PinOK(f)'
  <2>1. Owners(f)' = Owners(f) /\ Reservers(f)' = Reservers(f) /\ Pinners(f)' = Pinners(f)
    BY DEF Owners, Reservers, Pinners, HoldsTaskFrame
  <2>2. FreeAt(f)' = FreeAt(f) /\ TasksWith(f)' = TasksWith(f) /\ Occupants(f)' = Occupants(f)
    BY DEF FreeAt, TasksWith, Occupants, ResidentAt
  <2> QED
    BY <2>1, <2>2 DEF IInv, InOnePlace, PinOK
<1>4. OccupantOK' /\ FreshOK' /\ LatchExcludes'
  BY DEF IInv, OccupantOK, FreshOK, LatchExcludes, ResidentAt
<1> QED
  BY <1>1, <1>2, <1>3, <1>4 DEF IInv

-----------------------------------------------------------------------------
(***************************************************************************)
(* IInv is an inductive invariant of the pool: a thread's place determines *)
(* which frames it owns, has reserved and has pinned, and no step of any   *)
(* thread disturbs another's.                                              *)
(***************************************************************************)
THEOREM Inductive == Spec => []IInv
<1>1. ASSUME IInv, NEW t \in Threads, ApiStep(t) \/ FaultStep(t) \/ EvictionStep(t)
                                         \/ PrefetchStep(t) \/ WorkerStep(t) \/ ShutdownStep(t)
      PROVE  IInv'
  <2>1. CASE EvictionStep(t)
    <3>1. CASE \/ SampleDone(t) \/ SampleFrame(t) \/ MarkCandidate(t)
              \/ EnqueueCandidate(t)
      BY <1>1, <3>1, SamplingKeeps
    <3>2. CASE \/ EvictCheck(t) \/ EvictBusy(t) \/ EvictWrite(t) \/ EvictPublish(t)
              \/ EvictMarker(t) \/ EvictFreeOld(t)
      BY <1>1, <3>2, TicketKeeps
    <3>3. CASE EvictClaim(t) \/ EvictUnreserve(t) \/ EvictRelease(t)
      BY <1>1, <3>3, ReservationKeeps
    <3>4. CASE EvictLatch(t) \/ EvictAbort(t) \/ EvictUnlatch(t)
      BY <1>1, <3>4, EvictionLatchKeeps
    <3>5. CASE EvictRecheck(t) \/ EvictWriteFails(t)
      BY <1>1, <3>5, RecheckKeeps
    <3>6. CASE EvictUnswizzle(t)
      BY <1>1, <3>6, UnswizzleKeeps
    <3>7. CASE EvictClear(t)
      BY <1>1, <3>7, ClearKeeps
    <3>8. CASE EvictPush(t)
      BY <1>1, <3>8, EvictPushKeeps
    <3> QED
      BY <2>1, <3>1, <3>2, <3>3, <3>4, <3>5, <3>6, <3>7, <3>8 DEF EvictionStep
  <2>2. CASE FaultStep(t)
    <3>1. CASE \/ AcquireStops(t) \/ AcquireStarts(t) \/ AcquireSamples(t)
              \/ AcquireMisses(t) \/ TakeTicket(t) \/ EndRound(t)
      BY <1>1, <3>1, RoundsKeep
    <3>2. CASE AcquirePops(t) \/ ClaimFree(t) \/ DropReservation(t) \/ DropFrame(t)
      BY <1>1, <3>2, CheckoutKeeps
    <3>3. CASE \/ FaultStops(t) \/ FaultFollows(t) \/ FollowerReturns(t) \/ LeadStops(t)
              \/ LeadFindsResident(t) \/ LeadLooksUp(t) \/ FillFails(t)
              \/ PlaceMarker(t)
      BY <1>1, <3>3, FlightsKeep
    <3>4. CASE FaultLeads(t)
      BY <1>1, <3>4, LeadKeeps
    <3>5. CASE FillFrame(t)
      BY <1>1, <3>5, FillKeeps
    <3>6. CASE Install(t)
      BY <1>1, <3>6, InstallKeeps
    <3>7. CASE PublishPin(t) \/ UnpinFaulted(t)
      BY <1>1, <3>7, PublishKeeps
    <3>8. CASE Swizzle(t)
      BY <1>1, <3>8, SwizzleKeeps
    <3>9. CASE Land(t)
      BY <1>1, <3>9, LandKeeps
    <3> QED
      BY <2>2, <3>1, <3>2, <3>3, <3>4, <3>5, <3>6, <3>7, <3>8, <3>9 DEF FaultStep
  <2>3. CASE ApiStep(t)
    <3>1. CASE Allocate(t) \/ Fix(t) \/ FixStops(t) \/ LoadSwip(t) \/ PinRefused(t)
      BY <1>1, <3>1, CallsKeep
    <3>2. CASE AllocatePid(t)
      BY <1>1, <3>2, AllocatesPidKeeps
    <3>3. CASE RegisterPage(t)
      BY <1>1, <3>3, RegisterKeeps
    <3>4. CASE PinFrame(t) \/ UnpinRetry(t)
      BY <1>1, <3>4, PinsKeep
    <3>5. CASE LatchFrame(t) \/ FixRetries(t)
      BY <1>1, <3>5, LatchesKeep
    <3>6. CASE FixSucceeds(t) \/ FixSucceedsDeclined(t) \/ EnqueueDeclined(t)
      BY <1>1, <3>6, SucceedsKeeps
    <3>7. CASE WriteGuard(t) \/ CaptureSnapshot(t)
      BY <1>1, <3>7, GuardsKeep
    <3>8. CASE DropGuard(t) \/ DropLatch(t)
      BY <1>1, <3>8, DropsKeep
    <3>9. CASE SnapshotExact(t) \/ SnapshotValidates(t)
      BY <1>1, <3>9, SnapshotsKeep
    <3> QED
      BY <2>3, <3>1, <3>2, <3>3, <3>4, <3>5, <3>6, <3>7, <3>8, <3>9 DEF ApiStep
  <2>4. CASE PrefetchStep(t)
    <3>1. CASE SubmitPrefetch(t) \/ SubmitChecks(t) \/ DropPrefetchReservation(t)
      BY <1>1, <3>1, RequestsKeep
    <3>2. CASE CheckoutPops(t) \/ CheckoutClaims(t)
      BY <1>1, <3>2, TryCheckoutKeeps
    <3>3. CASE SendTask(t)
      BY <1>1, <3>3, SendKeeps
    <3>4. CASE ReceiveTask(t)
      BY <1>1, <3>4, ReceiveKeeps
    <3> QED
      BY <2>4, <3>1, <3>2, <3>3, <3>4 DEF PrefetchStep
  <2>5. CASE WorkerStep(t)
    <3>1. CASE CoolingStep(t) \/ WorkerExits(t)
      BY <1>1, <3>1, WorkersKeep
    <3> QED
      BY <2>5, <3>1 DEF WorkerStep
  <2>6. CASE ShutdownStep(t)
    <3>1. CASE \/ ShutdownStarts(t) \/ ShutdownJoins(t) \/ FlushFrame(t)
              \/ FlushPassEnds(t)
      BY <1>1, <3>1, ShutdownKeeps
    <3> QED
      BY <2>6, <3>1 DEF ShutdownStep
  <2> QED
    BY <1>1, <2>1, <2>2, <2>3, <2>4, <2>5, <2>6
<1>2. IInv /\ [Next]_poolVars => IInv'
  BY <1>1, StutterKeeps DEF Next
<1> QED
  BY <1>2, InitOK, PTL DEF Spec

(***************************************************************************)
(* A guard names the frame that holds exactly its page, pinned and         *)
(* latched, whatever the cooler, evictors and other faults do              *)
(* (SharedGuard, ExclusiveGuard).                                          *)
(***************************************************************************)
THEOREM GuardsExact == Spec => []GuardExact
<1>1. IInv => GuardExact
  <2> SUFFICES ASSUME IInv, NEW t \in Threads, th[t].pc \in GuardPlaces
               PROVE  /\ ResidentIsExact(th[t].page, th[t].frame)
                      /\ frames[th[t].frame].pin > 0
                      /\ IF SharedFix(t) THEN t \in frames[th[t].frame].readers
                         ELSE frames[th[t].frame].writer = t
    BY DEF GuardExact
  <2>1. ThreadOK(t) /\ Backed(t)
    BY Needs DEF IInv
  <2>2. PICK f : f = th[t].frame
    OBVIOUS
  <2>3. f \in Frames /\ th[t].page \in Pages
    BY <2>1, <2>2 DEF Backed
  <2>4. ResidentAt(th[t].page, f)
    BY <2>1, <2>2 DEF ThreadOK, ExactOK
  <2>5. frames[f].pid = th[t].page
    BY <2>3, <2>4 DEF IInv, OccupantOK
  <2>6. IF SharedFix(t) THEN t \in frames[f].readers ELSE frames[f].writer = t
    BY <2>1, <2>2 DEF ThreadOK, LatchOK
  <2>7. t \in Pinners(f)
    BY <2>2 DEF Pinners, Fixing, GuardPlaces
  <2>8. IsFiniteSet(Pinners(f)) /\ frames[f].pin = Cardinality(Pinners(f))
    BY <2>3, <2>7 DEF IInv, PinOK
  <2>9. frames[f].pin > 0
    BY <2>7, <2>8, FS_EmptySet, FS_CardinalityType
  <2> QED
    BY <2>2, <2>4, <2>5, <2>6, <2>9 DEF ResidentIsExact
<1> QED
  BY <1>1, Inductive, PTL

(***************************************************************************)
(* No frame is handed out twice and none leaks: each is once in the free   *)
(* queue, owned once, in one queued task, or resident for one page.        *)
(***************************************************************************)
THEOREM FramesConserved == Spec => []FrameConservation
<1>1. IInv => FrameConservation
  <2> SUFFICES ASSUME IInv, NEW f \in Frames
               PROVE  Cardinality(FreeAt(f)) + Cardinality(Owners(f)) + Cardinality(TasksWith(f))
                          + Cardinality(Occupants(f)) = 1
    BY DEF FrameConservation, FreeAt
  <2>1. InOnePlace(f)
    BY DEF IInv
  <2>2. Cardinality({}) = 0
    BY FS_EmptySet
  <2>3. \A S : Single(S) => Cardinality(S) = 1
    BY FS_Singleton DEF Single
  <2> QED
    BY <2>1, <2>2, <2>3 DEF InOnePlace
<1> QED
  BY <1>1, Inductive, PTL

(***************************************************************************)
(* pin_control is EVICTING exactly while one actor holds the reservation   *)
(* and otherwise counts the pins that will be released, so no assertion of *)
(* unpin, release_eviction and publish_reserved_pin can fire.              *)
(***************************************************************************)
THEOREM PinsAccounted == Spec => []PinAccounting
<1>1. IInv => PinAccounting
  <2> SUFFICES ASSUME IInv, NEW f \in Frames
               PROVE  IF frames[f].pin = EVICTING
                      THEN /\ Cardinality(Reservers(f)) + Cardinality(TasksWith(f)) = 1
                           /\ Pinners(f) = {}
                      ELSE /\ Reservers(f) = {} /\ TasksWith(f) = {}
                           /\ frames[f].pin = Cardinality(Pinners(f))
    BY DEF PinAccounting
  <2>1. PinOK(f)
    BY DEF IInv
  <2>2. Cardinality({}) = 0
    BY FS_EmptySet
  <2>3. \A S : Single(S) => Cardinality(S) = 1
    BY FS_Singleton DEF Single
  <2>4. IsFiniteSet(Pinners(f)) => Cardinality(Pinners(f)) # EVICTING
    BY FS_CardinalityType DEF EVICTING
  <2> QED
    BY <2>1, <2>2, <2>3, <2>4 DEF PinOK
<1> QED
  BY <1>1, Inductive, PTL

(***************************************************************************)
(* try_swizzle always finds the page evicted and try_unswizzle always      *)
(* finds it cooling in the evicted frame: their recovery branches are dead *)
(* code.                                                                   *)
(***************************************************************************)
THEOREM PublishSucceeds == Spec => []PublishCannotFail
<1>1. IInv => PublishCannotFail
  <2> SUFFICES ASSUME IInv, NEW t \in Threads
               PROVE  /\ At(t, "swizzle") => swip[th[t].page] = Evicted
                      /\ At(t, "ev_unswizzle") =>
                            swip[th[t].ticket.pid] = Cooling(th[t].ticket.frame)
    BY DEF PublishCannotFail
  <2>1. ThreadOK(t)
    BY DEF IInv
  <2>2. th[t].op \in Operations \cup {None}
    BY DEF IInv, TypedOver, LocalsOver
  <2>3. At(t, "swizzle") => th[t].op \in FixOps \cup {"prefetch", "alloc"}
    BY <2>1, <2>2 DEF At, ThreadOK, PlaceOK, Operations, FixOps, UndoPlaces, EvictPlaces, EvictReserved
  <2> QED
    BY <2>1, <2>3 DEF At, ThreadOK, VacantOK, EvictorOK, FillPlaces
<1> QED
  BY <1>1, Inductive, PTL

-----------------------------------------------------------------------------
(* Prefetch requests, their markers, and the flush of shutdown.            *)

(***************************************************************************)
(* A frame has one owner, and none while a page is resident in it.         *)
(***************************************************************************)
LEMMA OneOwner ==
    ASSUME IInv, NEW t \in Threads, NEW f \in Frames, f \in OwnedBy(th[t])
    PROVE  /\ \A u \in Threads \ {t} : f \notin OwnedBy(th[u])
           /\ \A p \in Pages : ~ResidentAt(p, f)
<1>1. InOnePlace(f)
  BY DEF IInv
<1>2. Owners(f) = {u \in Threads : f \in OwnedBy(th[u])}
  BY Views
<1>3. Occupants(f) = {p \in Pages : ResidentAt(p, f)}
  BY DEF Occupants
<1>4. Single(Owners(f)) /\ Occupants(f) = {}
  BY <1>1, <1>2 DEF InOnePlace
<1> QED
  BY <1>2, <1>3, <1>4 DEF Single

(***************************************************************************)
(* A resident page marked as cooling, or resurrected, stays where it is.   *)
(***************************************************************************)
LEMMA SwipSet ==
    ASSUME NEW D, TypedOver(D), NEW p \in Pages, NEW f \in Frames,
           TryResurrect(p, f) \/ (ResidentAt(p, f) /\ SetSwip(p, Cooling(f)))
    PROVE  HomesKept
<1>1. swip \in [Pages -> SwipStates]
  BY DEF TypedOver, SharedOver
<1>2. CASE TryResurrect(p, f)
  BY <1>1, <1>2, PoolAssumption DEF TryResurrect, HomesKept, Cooling, Hot, Evicted
<1>3. CASE ResidentAt(p, f) /\ SetSwip(p, Cooling(f))
  BY <1>1, <1>3, PoolAssumption DEF SetSwip, ResidentAt, HomesKept, Cooling, Hot, Evicted
<1> QED
  BY <1>2, <1>3

TaskOps == {"submit", "prefetch"}
Handlers(p) == {t \in Threads : HandlesTask(t, p)}
QueuedTasks(p) == {i \in 1 .. Len(channel) : channel[i].pid = p}

\* An accepted prefetch is in one place, ...
InFlightOK ==
    \A p \in Pages :
        \/ p \notin pending /\ Handlers(p) = {} /\ QueuedTasks(p) = {}
        \/ p \in pending /\ Single(Handlers(p)) /\ QueuedTasks(p) = {}
        \/ p \in pending /\ Handlers(p) = {} /\ Single(QueuedTasks(p))

\* ... a marker names a residency that is, that is about to begin or whose
\* evictor is about to remove it, ...
MarkerOK(p, m) ==
    \/ /\ ResidentAt(p, m.frame)
       /\ frames[m.frame].generation = m.generation
    \/ \E t \in Threads :
          /\ At(t, "swizzle") /\ th[t].page = p /\ th[t].frame = m.frame
          /\ frames[m.frame].generation = m.generation
    \/ \E t \in Threads : At(t, "ev_marker") /\ th[t].ticket.pid = p
MarkersOK == \A p \in Pages : prefetched[p] # None => MarkerOK(p, prefetched[p])

\* ... and while a flush is under way nobody brings a page in: the frames
\* that a pass has found empty stay so.
Flushing(t) == th[t].op = "shutdown" /\ th[t].pc \in {"flush", "sd_done"} \cup EvictPlaces
FlushOK ==
    /\ \A t \in Threads : th[t].op = "prefetch" => IsWorker(t)
    /\ \A t \in Threads : th[t].op = "shutdown" => stopping
    /\ \A t \in Threads :
          Flushing(t) =>
             /\ \A u \in Threads : ~InGate(u) /\ (IsWorker(u) => th[u].pc = "exited")
             /\ th[t].want = 0 => \A f \in Frames \ th[t].cand : frames[f].pid = None
             /\ th[t].pc = "sd_done" => th[t].want = 0 /\ th[t].cand = {}

RInv == InFlightOK /\ MarkersOK /\ FlushOK

\* A step of t that neither moves a request nor a page, marks nothing and is
\* none of the flush's own: what it does to t, ...
ThreadSteady(t) ==
    /\ Moves(t)
    /\ th[t].op \in TaskOps \/ th'[t].op \in TaskOps =>
          th'[t].op = th[t].op /\ th'[t].page = th[t].page
    /\ th[t].pc \notin {"swizzle", "ev_marker", "exited"}
    /\ InGate(t)' => InGate(t) \/ ~stopping
    /\ th'[t].op = "shutdown" =>
          /\ th[t].op = "shutdown" /\ th[t].pc \in EvictPlaces /\ th'[t].pc # "sd_done"
          /\ th'[t].cand = th[t].cand /\ th'[t].want = th[t].want

\* ... and to what the threads share.
FramesSteady ==
    \A f \in Frames : /\ frames'[f].generation = frames[f].generation
                      /\ frames'[f].pid \in {frames[f].pid, None}
SharedSteady ==
    UNCHANGED <<pending, channel, prefetched, stopping>> /\ HomesKept /\ FramesSteady

Steady(t) == ThreadSteady(t) /\ SharedSteady

\* Which operation is in which place.
PlacesFit(t) ==
    /\ th[t].op \in Operations \cup {None}
    /\ th[t].pc = "idle" => th[t] = Idle
    /\ th[t].op = "submit" =>
          th[t].pc \in {"pf_pop", "pf_claim", "pf_gate", "pf_send", "unreserve"} \cup UndoPlaces
    /\ th[t].op = "prefetch" =>
          th[t].pc \in TaskPlaces \cup FillPlaces \cup UndoPlaces \cup {"marker", "unpin", "unreserve"}
    /\ th[t].op = "shutdown" =>
          th[t].pc \in {"sd_gate", "flush", "sd_done", "sd_failed"} \cup EvictPlaces
    /\ th[t].op = "cool" => th[t].pc \in {"sample", "mark", "enqueue", "take"} \cup EvictPlaces
    /\ th[t].pc = "unreserve" => th[t].op \in TaskOps
    /\ th[t].pc = "pf_send" => th[t].op = "submit"
    /\ th[t].pc = "sd_done" => th[t].op = "shutdown"
    /\ th[t].pc = "exited" => th[t].op = None

(***************************************************************************)
(* It is by the table of places.                                           *)
(***************************************************************************)
LEMMA OperationPlaces ==
    ASSUME IInv, NEW t \in Threads
    PROVE  PlacesFit(t)
<1>1. PlaceOK(t) /\ th[t].op \in Operations \cup {None}
  BY DEF IInv, ThreadOK, TypedOver, LocalsOver
<1> QED
  BY <1>1 DEF PlacesFit, PlaceOK, TaskOps, Operations, FixOps, FillPlaces, UndoPlaces,
     AcquirePlaces, EvictPlaces, EvictReserved, TaskPlaces, Fixing

(***************************************************************************)
(* The steps that mark a page or resurrect it leave it where it is.        *)
(***************************************************************************)
LEMMA MarksMoveNothing ==
    ASSUME IInv, NEW t \in Threads,
           \/ MarkCandidate(t) \/ EvictRecheck(t) \/ EvictWriteFails(t)
           \/ FixSucceeds(t) \/ FixSucceedsDeclined(t) \/ FlushFrame(t)
    PROVE  HomesKept
<1>1. PICK D : TypedOver(D)
  BY DEF IInv
<1>2. /\ th[t] \in LocalsOver(D) /\ Backed(t) /\ PlaceOK(t)
      /\ frames \in [Frames -> FrameOver(D)]
  BY <1>1, Needs DEF TypedOver, SharedOver, IInv, ThreadOK
<1>3. CASE FixSucceeds(t) \/ FixSucceedsDeclined(t)
  <2>1. /\ th[t].pc = "check"
        /\ \/ TryResurrect(th[t].page, th[t].frame)
           \/ ResidentAt(th[t].page, th[t].frame) /\ SetSwip(th[t].page, Cooling(th[t].frame))
    BY <1>3 DEF FixSucceeds, FixSucceedsDeclined, ResidentIsExact, At
  <2>2. th[t].op \in FixOps
    BY <1>2, <2>1 DEF LocalsOver, Operations, PlaceOK, FixOps, TaskPlaces, FillPlaces, UndoPlaces,
       AcquirePlaces, EvictPlaces, EvictReserved
  <2>3. th[t].page \in Pages /\ th[t].frame \in Frames
    BY <1>2, <2>1, <2>2 DEF Backed, Fixing
  <2> QED
    BY <1>1, <2>1, <2>3, SwipSet
<1>4. CASE EvictRecheck(t) \/ EvictWriteFails(t)
  <2>1. /\ th[t].pc \in {"ev_recheck", "ev_write"}
        /\ \/ TryResurrect(th[t].ticket.pid, th[t].ticket.frame)
           \/ UNCHANGED swip
    BY <1>4 DEF EvictRecheck, EvictWriteFails, At
  <2>2. th[t].ticket.pid \in Pages /\ th[t].ticket.frame \in Frames
    BY <1>2, <2>1 DEF Backed, EvictPlaces, EvictReserved
  <2>3. CASE UNCHANGED swip
    BY <2>3 DEF HomesKept
  <2> QED
    BY <1>1, <2>1, <2>2, <2>3, SwipSet
<1>5. CASE MarkCandidate(t)
  <2>1. PICK o \in {th[t].ticket.pid, frames[th[t].ticket.frame].pid} \ {None} :
            IF ResidentAt(o, th[t].ticket.frame)
            THEN SetSwip(o, Cooling(th[t].ticket.frame)) ELSE UNCHANGED swip
    BY <1>5 DEF MarkCandidate
  <2>2. th[t].ticket.pid \in Pages /\ th[t].ticket.frame \in Frames
    BY <1>2, <1>5 DEF Backed, MarkCandidate, At
  <2>3. o \in Pages
    BY <1>2, <2>1, <2>2 DEF FrameOver
  <2>4. CASE ~ResidentAt(o, th[t].ticket.frame)
    BY <2>1, <2>4 DEF HomesKept
  <2> QED
    BY <1>1, <2>1, <2>2, <2>3, <2>4, SwipSet
<1>6. CASE FlushFrame(t)
  <2>1. PICK f \in th[t].cand :
            IF frames[f].pid # None /\ ResidentAt(frames[f].pid, f)
            THEN SetSwip(frames[f].pid, Cooling(f)) ELSE UNCHANGED swip
    BY <1>6 DEF FlushFrame
  <2>2. f \in Frames /\ frames[f].pid \in Pages \cup {None}
    BY <1>2, <2>1 DEF LocalsOver, FrameOver
  <2>3. CASE ~(frames[f].pid # None /\ ResidentAt(frames[f].pid, f))
    BY <2>1, <2>3 DEF HomesKept
  <2> QED
    BY <1>1, <2>1, <2>2, <2>3, SwipSet
<1> QED
  BY <1>3, <1>4, <1>5, <1>6

(***************************************************************************)
(* Sampling, tickets and the cooler.                                       *)
(***************************************************************************)
LEMMA SamplingSteady ==
    ASSUME IInv, NEW t \in Threads,
           \/ SampleDone(t) \/ SampleFrame(t) \/ MarkCandidate(t) \/ EnqueueCandidate(t)
           \/ EvictCheck(t) \/ EvictClaim(t) \/ EvictBusy(t) \/ EvictLatch(t) \/ CoolingStep(t)
           \/ WorkerExits(t)
    PROVE  Steady(t)
<1> USE DEF Idle, EvictPlaces, EvictReserved, TaskPlaces, FillPlaces, UndoPlaces, PlacesFit,
            ThreadSteady, Moves, InGate, TaskOps, pageVars, queues, tiers, prefetchVars
<1>1. PICK D : TypedOver(D)
  BY DEF IInv
<1>2. /\ th \in [Threads -> LocalsOver(D)] /\ th[t] \in LocalsOver(D)
      /\ frames \in [Frames -> FrameOver(D)] /\ PlacesFit(t)
      /\ None \notin {"alloc", "shared", "exclusive", "optimistic", "submit", "prefetch", "shutdown"}
  BY <1>1, OperationPlaces, PoolAssumption DEF TypedOver, SharedOver, Operations
<1>3. SampleDone(t) => ThreadSteady(t)
  BY <1>2 DEF SampleDone, At, LocalsOver
<1>4. SampleFrame(t) => ThreadSteady(t)
  <2> SUFFICES ASSUME SampleFrame(t) PROVE ThreadSteady(t)
    OBVIOUS
  <2>1. th[t].pc = "sample"
    BY DEF SampleFrame, At
  <2>2. PICK f \in th[t].cand :
           th' = IF frames[f].pin = 0 /\ frames[f].pid # None
                 THEN [th EXCEPT ![t].pc = "mark", ![t].cand = @ \ {f},
                                 ![t].ticket = Ticket(f, frames[f].pid)]
                 ELSE [th EXCEPT ![t].cand = @ \ {f}]
    BY DEF SampleFrame
  <2> QED
    BY <1>2, <2>1, <2>2 DEF LocalsOver
<1>5. MarkCandidate(t) => ThreadSteady(t)
  BY <1>2 DEF MarkCandidate, Goto, At, LocalsOver
<1>6. EnqueueCandidate(t) => ThreadSteady(t)
  BY <1>2 DEF EnqueueCandidate, At, LocalsOver
<1>7. EvictCheck(t) => ThreadSteady(t)
  BY <1>2 DEF EvictCheck, EvictionReturns, AfterEvict, Goto, At, LocalsOver
<1>8. EvictClaim(t) => ThreadSteady(t)
  BY <1>2 DEF EvictClaim, Goto, At, LocalsOver
<1>9. EvictBusy(t) => ThreadSteady(t)
  BY <1>2 DEF EvictBusy, EvictionReturns, AfterEvict, At, LocalsOver
<1>10. EvictLatch(t) => ThreadSteady(t)
  BY <1>2 DEF EvictLatch, Goto, At, LocalsOver
<1>11. CoolingStep(t) => ThreadSteady(t)
  BY <1>2 DEF CoolingStep, Starts, At, LocalsOver
<1>12. WorkerExits(t) => ThreadSteady(t)
  BY <1>2 DEF WorkerExits, Goto, At, LocalsOver
<1>13. \/ SampleDone(t) \/ SampleFrame(t) \/ EnqueueCandidate(t)
       \/ EvictCheck(t) \/ CoolingStep(t) \/ WorkerExits(t)
      => SharedSteady
  BY DEF SampleDone, SampleFrame, EnqueueCandidate, EvictCheck, CoolingStep, WorkerExits,
     SharedSteady, HomesKept, FramesSteady
<1>14. EvictClaim(t) => SharedSteady
  BY <1>2 DEF EvictClaim, Claim, SharedSteady, HomesKept, FramesSteady, FrameOver
<1>15. EvictBusy(t) => SharedSteady
  BY <1>2 DEF EvictBusy, SharedSteady, HomesKept, FramesSteady, FrameOver
<1>16. EvictLatch(t) => SharedSteady
  BY <1>2 DEF EvictLatch, LockExclusive, SharedSteady, HomesKept, FramesSteady, FrameOver
<1>17. MarkCandidate(t) => SharedSteady
  BY MarksMoveNothing DEF MarkCandidate, SharedSteady, FramesSteady
<1> QED
  BY <1>3, <1>4, <1>5, <1>6, <1>7, <1>8, <1>9, <1>10, <1>11, <1>12, <1>13, <1>14, <1>15, <1>16,
     <1>17 DEF Steady

(***************************************************************************)
(* The rest of evict_ticket, but for its withdrawal of the page.           *)
(***************************************************************************)
LEMMA EvictionSteady ==
    ASSUME IInv, NEW t \in Threads,
           \/ EvictRecheck(t) \/ EvictWrite(t) \/ EvictWriteFails(t) \/ EvictAbort(t)
           \/ EvictUnreserve(t) \/ EvictPublish(t) \/ EvictUnlatch(t) \/ EvictClear(t)
           \/ EvictRelease(t) \/ EvictPush(t) \/ EvictFreeOld(t)
    PROVE  Steady(t)
<1> USE DEF Idle, EvictPlaces, EvictReserved, TaskPlaces, FillPlaces, UndoPlaces, PlacesFit,
            ThreadSteady, Moves, InGate, TaskOps, pageVars, queues, tiers, prefetchVars
<1>1. PICK D : TypedOver(D)
  BY DEF IInv
<1>2. /\ th \in [Threads -> LocalsOver(D)] /\ th[t] \in LocalsOver(D)
      /\ frames \in [Frames -> FrameOver(D)] /\ PlacesFit(t)
      /\ None \notin {"alloc", "shared", "exclusive", "optimistic", "submit", "prefetch", "shutdown"}
  BY <1>1, OperationPlaces, PoolAssumption DEF TypedOver, SharedOver, Operations
<1>3. EvictRecheck(t) => ThreadSteady(t)
  BY <1>2 DEF EvictRecheck, At, LocalsOver
<1>4. EvictWrite(t) => ThreadSteady(t)
  <2> SUFFICES ASSUME EvictWrite(t) PROVE ThreadSteady(t)
    OBVIOUS
  <2>1. th[t].pc = "ev_write"
    BY DEF EvictWrite, At
  <2>2. PICK s \in Slots : th' = [th EXCEPT ![t].pc = "ev_publish", ![t].new = s]
    BY DEF EvictWrite
  <2> QED
    BY <1>2, <2>1, <2>2 DEF LocalsOver
<1>5. EvictWriteFails(t) => ThreadSteady(t)
  BY <1>2 DEF EvictWriteFails, At, LocalsOver
<1>6. EvictAbort(t) => ThreadSteady(t)
  BY <1>2 DEF EvictAbort, Goto, At, LocalsOver
<1>7. EvictUnreserve(t) => ThreadSteady(t)
  BY <1>2 DEF EvictUnreserve, AfterEvict, At, LocalsOver
<1>8. EvictPublish(t) => ThreadSteady(t)
  BY <1>2 DEF EvictPublish, Goto, At, LocalsOver
<1>9. EvictUnlatch(t) => ThreadSteady(t)
  BY <1>2 DEF EvictUnlatch, Goto, At, LocalsOver
<1>10. EvictClear(t) => ThreadSteady(t)
  BY <1>2 DEF EvictClear, Goto, At, LocalsOver
<1>11. EvictRelease(t) => ThreadSteady(t)
  BY <1>2 DEF EvictRelease, Goto, At, LocalsOver
<1>12. EvictPush(t) => ThreadSteady(t)
  BY <1>2 DEF EvictPush, Goto, At, LocalsOver
<1>13. EvictFreeOld(t) => ThreadSteady(t)
  BY <1>2 DEF EvictFreeOld, EvictionReturns, AfterEvict, At, LocalsOver
<1>14. EvictWrite(t) \/ EvictPush(t) \/ EvictFreeOld(t) => SharedSteady
  BY DEF EvictWrite, EvictPush, EvictFreeOld, SharedSteady, HomesKept, FramesSteady
<1>15. EvictAbort(t) => SharedSteady
  BY <1>2 DEF EvictAbort, Unlock, SharedSteady, HomesKept, FramesSteady, FrameOver
<1>16. EvictUnreserve(t) => SharedSteady
  BY <1>2 DEF EvictUnreserve, Release, SharedSteady, HomesKept, FramesSteady, FrameOver
<1>17. EvictPublish(t) => SharedSteady
  BY <1>2 DEF EvictPublish, SharedSteady, HomesKept, FramesSteady, FrameOver
<1>18. EvictUnlatch(t) => SharedSteady
  BY <1>2 DEF EvictUnlatch, Unlock, SharedSteady, HomesKept, FramesSteady, FrameOver
<1>19. EvictClear(t) => SharedSteady
  BY <1>2 DEF EvictClear, SharedSteady, HomesKept, FramesSteady, FrameOver
<1>20. EvictRelease(t) => SharedSteady
  BY <1>2 DEF EvictRelease, Release, SharedSteady, HomesKept, FramesSteady, FrameOver
<1>21. EvictRecheck(t) \/ EvictWriteFails(t) => SharedSteady
  BY MarksMoveNothing DEF EvictRecheck, EvictWriteFails, SharedSteady, FramesSteady
<1> QED
  BY <1>3, <1>4, <1>5, <1>6, <1>7, <1>8, <1>9, <1>10, <1>11, <1>12, <1>13, <1>14, <1>15, <1>16,
     <1>17, <1>18, <1>19, <1>20, <1>21 DEF Steady

(***************************************************************************)
(* The search for a frame.                                                 *)
(***************************************************************************)
LEMMA AcquireSteady ==
    ASSUME IInv, NEW t \in Threads,
           \/ AcquireStops(t) \/ AcquirePops(t) \/ AcquireStarts(t) \/ AcquireSamples(t)
           \/ AcquireMisses(t) \/ TakeTicket(t) \/ EndRound(t) \/ ClaimFree(t)
           \/ DropReservation(t) \/ DropFrame(t)
    PROVE  Steady(t)
<1> USE DEF Idle, EvictPlaces, EvictReserved, TaskPlaces, FillPlaces, UndoPlaces, PlacesFit,
            ThreadSteady, Moves, InGate, TaskOps, pageVars, queues, tiers, prefetchVars
<1>1. PICK D : TypedOver(D)
  BY DEF IInv
<1>2. /\ th \in [Threads -> LocalsOver(D)] /\ th[t] \in LocalsOver(D)
      /\ frames \in [Frames -> FrameOver(D)] /\ PlacesFit(t)
      /\ None \notin {"alloc", "shared", "exclusive", "optimistic", "submit", "prefetch", "shutdown"}
  BY <1>1, OperationPlaces, PoolAssumption DEF TypedOver, SharedOver, Operations
<1>3. AcquireStops(t) => ThreadSteady(t)
  BY <1>2 DEF AcquireStops, FailAcquire, LocalsOver
<1>4. AcquirePops(t) => ThreadSteady(t)
  BY <1>2 DEF AcquirePops, At, LocalsOver
<1>5. AcquireStarts(t) => ThreadSteady(t)
  BY <1>2 DEF AcquireStarts, At, LocalsOver
<1>6. AcquireSamples(t) => ThreadSteady(t)
  BY <1>2 DEF AcquireSamples, At, LocalsOver
<1>7. AcquireMisses(t) => ThreadSteady(t)
  BY <1>2 DEF AcquireMisses, Goto, At, LocalsOver
<1>8. TakeTicket(t) => ThreadSteady(t)
  BY <1>2 DEF TakeTicket, At, LocalsOver
<1>9. EndRound(t) => ThreadSteady(t)
  BY <1>2 DEF EndRound, FailAcquire, Leave, At, LocalsOver
<1>10. ClaimFree(t) => ThreadSteady(t)
  BY <1>2 DEF ClaimFree, Goto, At, LocalsOver
<1>11. DropReservation(t) => ThreadSteady(t)
  BY <1>2 DEF DropReservation, Goto, At, LocalsOver
<1>12. DropFrame(t) => ThreadSteady(t)
  BY <1>2 DEF DropFrame, At, LocalsOver
<1>13. \/ AcquireStops(t) \/ AcquirePops(t) \/ AcquireStarts(t)
       \/ AcquireSamples(t) \/ AcquireMisses(t) \/ TakeTicket(t)
      => SharedSteady
  BY DEF AcquireStops, AcquirePops, AcquireStarts, AcquireSamples, AcquireMisses, TakeTicket,
     SharedSteady, HomesKept, FramesSteady
<1>14. EndRound(t) \/ DropFrame(t) => SharedSteady
  BY DEF EndRound, DropFrame, SharedSteady, HomesKept, FramesSteady
<1>15. ClaimFree(t) => SharedSteady
  BY <1>2 DEF ClaimFree, Claim, SharedSteady, HomesKept, FramesSteady, FrameOver
<1>16. DropReservation(t) => SharedSteady
  BY <1>2 DEF DropReservation, Release, SharedSteady, HomesKept, FramesSteady, FrameOver
<1> QED
  BY <1>3, <1>4, <1>5, <1>6, <1>7, <1>8, <1>9, <1>10, <1>11, <1>12, <1>13, <1>14, <1>15,
     <1>16 DEF Steady

(***************************************************************************)
(* Faults, but for the publication of the page.                            *)
(***************************************************************************)
LEMMA FaultSteady ==
    ASSUME IInv, NEW t \in Threads,
           \/ FaultStops(t) \/ FaultLeads(t) \/ FaultFollows(t) \/ FollowerReturns(t)
           \/ LeadStops(t) \/ LeadFindsResident(t) \/ LeadLooksUp(t) \/ FillFrame(t)
           \/ FillFails(t) \/ PublishPin(t) \/ UnpinFaulted(t)
    PROVE  Steady(t)
<1> USE DEF Idle, EvictPlaces, EvictReserved, TaskPlaces, FillPlaces, UndoPlaces, PlacesFit,
            ThreadSteady, Moves, InGate, TaskOps, pageVars, queues, tiers, prefetchVars
<1>1. PICK D : TypedOver(D)
  BY DEF IInv
<1>2. /\ th \in [Threads -> LocalsOver(D)] /\ th[t] \in LocalsOver(D)
      /\ frames \in [Frames -> FrameOver(D)] /\ PlacesFit(t)
      /\ None \notin {"alloc", "shared", "exclusive", "optimistic", "submit", "prefetch", "shutdown"}
  BY <1>1, OperationPlaces, PoolAssumption DEF TypedOver, SharedOver, Operations
<1>3. FaultStops(t) => ThreadSteady(t)
  BY <1>2 DEF FaultStops, AfterFault, At, LocalsOver
<1>4. FaultLeads(t) => ThreadSteady(t)
  BY <1>2 DEF FaultLeads, Goto, At, LocalsOver
<1>5. FaultFollows(t) => ThreadSteady(t)
  BY <1>2 DEF FaultFollows, Goto, At, LocalsOver
<1>6. FollowerReturns(t) => ThreadSteady(t)
  BY <1>2 DEF FollowerReturns, AfterFault, At, LocalsOver
<1>7. LeadStops(t) => ThreadSteady(t)
  BY <1>2 DEF LeadStops, At, LocalsOver
<1>8. LeadFindsResident(t) => ThreadSteady(t)
  BY <1>2 DEF LeadFindsResident, At, LocalsOver
<1>9. LeadLooksUp(t) => ThreadSteady(t)
  BY <1>2 DEF LeadLooksUp, At, LocalsOver
<1>10. FillFrame(t) => ThreadSteady(t)
  BY <1>2 DEF FillFrame, Goto, At, LocalsOver
<1>11. FillFails(t) => ThreadSteady(t)
  BY <1>2 DEF FillFails, At, LocalsOver
<1>12. PublishPin(t) => ThreadSteady(t)
  BY <1>2 DEF PublishPin, Goto, At, LocalsOver
<1>13. UnpinFaulted(t) => ThreadSteady(t)
  BY <1>2 DEF UnpinFaulted, At, LocalsOver
<1>14. \/ FaultStops(t) \/ FaultLeads(t) \/ FaultFollows(t)
       \/ FollowerReturns(t) \/ LeadStops(t) \/ LeadFindsResident(t)
      => SharedSteady
  BY DEF FaultStops, FaultLeads, FaultFollows, FollowerReturns, LeadStops, LeadFindsResident,
     SharedSteady, HomesKept, FramesSteady
<1>15. LeadLooksUp(t) \/ FillFails(t) => SharedSteady
  BY DEF LeadLooksUp, FillFails, SharedSteady, HomesKept, FramesSteady
<1>16. FillFrame(t) => SharedSteady
  BY <1>2 DEF FillFrame, SharedSteady, HomesKept, FramesSteady, FrameOver
<1>17. PublishPin(t) => SharedSteady
  BY <1>2 DEF PublishPin, SharedSteady, HomesKept, FramesSteady, FrameOver
<1>18. UnpinFaulted(t) => SharedSteady
  BY <1>2 DEF UnpinFaulted, Unpin, SharedSteady, HomesKept, FramesSteady, FrameOver
<1> QED
  BY <1>3, <1>4, <1>5, <1>6, <1>7, <1>8, <1>9, <1>10, <1>11, <1>12, <1>13, <1>14, <1>15, <1>16,
     <1>17, <1>18 DEF Steady

(***************************************************************************)
(* allocate and the fixes.                                                 *)
(***************************************************************************)
LEMMA CallSteady ==
    ASSUME IInv, NEW t \in Threads,
           \/ Allocate(t) \/ AllocatePid(t) \/ RegisterPage(t) \/ Fix(t) \/ FixStops(t)
           \/ LoadSwip(t) \/ PinFrame(t) \/ PinRefused(t) \/ LatchFrame(t)
           \/ FixSucceedsDeclined(t) \/ EnqueueDeclined(t) \/ FixRetries(t) \/ UnpinRetry(t)
    PROVE  Steady(t)
<1> USE DEF Idle, EvictPlaces, EvictReserved, TaskPlaces, FillPlaces, UndoPlaces, PlacesFit,
            ThreadSteady, Moves, InGate, TaskOps, pageVars, queues, tiers, prefetchVars
<1>1. PICK D : TypedOver(D)
  BY DEF IInv
<1>2. /\ th \in [Threads -> LocalsOver(D)] /\ th[t] \in LocalsOver(D)
      /\ frames \in [Frames -> FrameOver(D)] /\ PlacesFit(t)
      /\ None \notin {"alloc", "shared", "exclusive", "optimistic", "submit", "prefetch", "shutdown"}
  BY <1>1, OperationPlaces, PoolAssumption DEF TypedOver, SharedOver, Operations
<1>3. Allocate(t) => ThreadSteady(t)
  BY <1>2 DEF Allocate, Starts, At, LocalsOver
<1>4. AllocatePid(t) => ThreadSteady(t)
  BY <1>2 DEF AllocatePid, Goto, At, LocalsOver
<1>5. RegisterPage(t) => ThreadSteady(t)
  BY <1>2 DEF RegisterPage, At, LocalsOver
<1>6. Fix(t) => ThreadSteady(t)
  <2> SUFFICES ASSUME Fix(t) PROVE ThreadSteady(t)
    OBVIOUS
  <2>1. th[t].pc = "idle" /\ ~stopping
    BY DEF Fix, Starts, At
  <2>2. PICK o \in {"shared", "exclusive", "optimistic"}, p \in pages :
           th' = [th EXCEPT ![t].pc = "load", ![t].op = o, ![t].page = p]
    BY DEF Fix
  <2> QED
    BY <1>2, <2>1, <2>2 DEF LocalsOver
<1>7. FixStops(t) => ThreadSteady(t)
  BY <1>2 DEF FixStops, Leave, At, LocalsOver
<1>8. LoadSwip(t) => ThreadSteady(t)
  BY <1>2 DEF LoadSwip, At, LocalsOver
<1>9. PinFrame(t) => ThreadSteady(t)
  BY <1>2 DEF PinFrame, Goto, At, LocalsOver
<1>10. PinRefused(t) => ThreadSteady(t)
  BY <1>2 DEF PinRefused, At, LocalsOver
<1>11. LatchFrame(t) => ThreadSteady(t)
  BY <1>2 DEF LatchFrame, Goto, At, LocalsOver
<1>12. FixSucceedsDeclined(t) => ThreadSteady(t)
  BY <1>2 DEF FixSucceedsDeclined, Goto, At, LocalsOver
<1>13. EnqueueDeclined(t) => ThreadSteady(t)
  BY <1>2 DEF EnqueueDeclined, Goto, At, LocalsOver
<1>14. FixRetries(t) => ThreadSteady(t)
  BY <1>2 DEF FixRetries, Goto, At, LocalsOver
<1>15. UnpinRetry(t) => ThreadSteady(t)
  BY <1>2 DEF UnpinRetry, At, LocalsOver
<1>16. \/ Allocate(t) \/ AllocatePid(t) \/ RegisterPage(t)
       \/ Fix(t) \/ FixStops(t) \/ LoadSwip(t)
      => SharedSteady
  BY DEF Allocate, AllocatePid, RegisterPage, Fix, FixStops, LoadSwip, SharedSteady, HomesKept,
     FramesSteady
<1>17. EnqueueDeclined(t) => SharedSteady
  BY DEF EnqueueDeclined, SharedSteady, HomesKept, FramesSteady
<1>18. PinFrame(t) => SharedSteady
  BY <1>2 DEF PinFrame, Pin, SharedSteady, HomesKept, FramesSteady, FrameOver
<1>19. PinRefused(t) => SharedSteady
  BY <1>2 DEF PinRefused, SharedSteady, HomesKept, FramesSteady, FrameOver
<1>20. LatchFrame(t) => SharedSteady
  BY <1>2 DEF LatchFrame, LockExclusive, LockShared, SharedSteady, HomesKept, FramesSteady,
     FrameOver
<1>21. FixRetries(t) => SharedSteady
  BY <1>2 DEF FixRetries, Unlock, SharedSteady, HomesKept, FramesSteady, FrameOver
<1>22. UnpinRetry(t) => SharedSteady
  BY <1>2 DEF UnpinRetry, Unpin, SharedSteady, HomesKept, FramesSteady, FrameOver
<1>23. FixSucceedsDeclined(t) => SharedSteady
  BY MarksMoveNothing DEF FixSucceedsDeclined, SharedSteady, FramesSteady
<1> QED
  BY <1>3, <1>4, <1>5, <1>6, <1>7, <1>8, <1>9, <1>10, <1>11, <1>12, <1>13, <1>14, <1>15, <1>16,
     <1>17, <1>18, <1>19, <1>20, <1>21, <1>22, <1>23 DEF Steady

(***************************************************************************)
(* The guards.                                                             *)
(***************************************************************************)
LEMMA GuardSteady ==
    ASSUME IInv, NEW t \in Threads,
           \/ WriteGuard(t) \/ CaptureSnapshot(t) \/ DropGuard(t) \/ DropLatch(t)
           \/ SnapshotExact(t) \/ SnapshotValidates(t)
    PROVE  Steady(t)
<1> USE DEF Idle, EvictPlaces, EvictReserved, TaskPlaces, FillPlaces, UndoPlaces, PlacesFit,
            ThreadSteady, Moves, InGate, TaskOps, pageVars, queues, tiers, prefetchVars
<1>1. PICK D : TypedOver(D)
  BY DEF IInv
<1>2. /\ th \in [Threads -> LocalsOver(D)] /\ th[t] \in LocalsOver(D)
      /\ frames \in [Frames -> FrameOver(D)] /\ PlacesFit(t)
      /\ None \notin {"alloc", "shared", "exclusive", "optimistic", "submit", "prefetch", "shutdown"}
  BY <1>1, OperationPlaces, PoolAssumption DEF TypedOver, SharedOver, Operations
<1>3. WriteGuard(t) => ThreadSteady(t)
  BY <1>2 DEF WriteGuard, At, LocalsOver
<1>4. CaptureSnapshot(t) => ThreadSteady(t)
  BY <1>2 DEF CaptureSnapshot, At, LocalsOver
<1>5. DropGuard(t) => ThreadSteady(t)
  BY <1>2 DEF DropGuard, Goto, At, LocalsOver
<1>6. DropLatch(t) => ThreadSteady(t)
  BY <1>2 DEF DropLatch, Leave, Goto, At, LocalsOver
<1>7. SnapshotExact(t) => ThreadSteady(t)
  BY <1>2 DEF SnapshotExact, DropSnapshot, Leave, Goto, At, LocalsOver
<1>8. SnapshotValidates(t) => ThreadSteady(t)
  BY <1>2 DEF SnapshotValidates, DropSnapshot, Leave, Goto, At, LocalsOver
<1>9. WriteGuard(t) => SharedSteady
  BY <1>2 DEF WriteGuard, SharedSteady, HomesKept, FramesSteady, FrameOver
<1>10. CaptureSnapshot(t) => SharedSteady
  BY <1>2 DEF CaptureSnapshot, SharedSteady, HomesKept, FramesSteady, FrameOver
<1>11. DropGuard(t) => SharedSteady
  BY <1>2 DEF DropGuard, Unpin, SharedSteady, HomesKept, FramesSteady, FrameOver
<1>12. DropLatch(t) => SharedSteady
  BY <1>2 DEF DropLatch, Unlock, SharedSteady, HomesKept, FramesSteady, FrameOver
<1>13. SnapshotExact(t) => SharedSteady
  BY <1>2 DEF SnapshotExact, DropSnapshot, SharedSteady, HomesKept, FramesSteady, FrameOver
<1>14. SnapshotValidates(t) => SharedSteady
  BY <1>2 DEF SnapshotValidates, DropSnapshot, SharedSteady, HomesKept, FramesSteady, FrameOver
<1> QED
  BY <1>3, <1>4, <1>5, <1>6, <1>7, <1>8, <1>9, <1>10, <1>11, <1>12, <1>13, <1>14 DEF Steady

(***************************************************************************)
(* The frame of a prefetch.                                                *)
(***************************************************************************)
LEMMA CheckoutSteady ==
    ASSUME IInv, NEW t \in Threads,
           \/ CheckoutPops(t) \/ CheckoutClaims(t) \/ SubmitChecks(t)
    PROVE  Steady(t)
<1> USE DEF Idle, EvictPlaces, EvictReserved, TaskPlaces, FillPlaces, UndoPlaces, PlacesFit,
            ThreadSteady, Moves, InGate, TaskOps, pageVars, queues, tiers, prefetchVars
<1>1. PICK D : TypedOver(D)
  BY DEF IInv
<1>2. /\ th \in [Threads -> LocalsOver(D)] /\ th[t] \in LocalsOver(D)
      /\ frames \in [Frames -> FrameOver(D)] /\ PlacesFit(t)
      /\ None \notin {"alloc", "shared", "exclusive", "optimistic", "submit", "prefetch", "shutdown"}
  BY <1>1, OperationPlaces, PoolAssumption DEF TypedOver, SharedOver, Operations
<1>3. CheckoutPops(t) => ThreadSteady(t)
  BY <1>2 DEF CheckoutPops, Goto, At, LocalsOver
<1>4. CheckoutClaims(t) => ThreadSteady(t)
  BY <1>2 DEF CheckoutClaims, Goto, At, LocalsOver
<1>5. SubmitChecks(t) => ThreadSteady(t)
  BY <1>2 DEF SubmitChecks, Goto, At, LocalsOver
<1>6. CheckoutPops(t) \/ SubmitChecks(t) => SharedSteady
  BY DEF CheckoutPops, SubmitChecks, SharedSteady, HomesKept, FramesSteady
<1>7. CheckoutClaims(t) => SharedSteady
  BY <1>2 DEF CheckoutClaims, Claim, SharedSteady, HomesKept, FramesSteady, FrameOver
<1> QED
  BY <1>3, <1>4, <1>5, <1>6, <1>7 DEF Steady

\* What a step of t leaves alone: requests, ...
RequestsKept ==
    /\ UNCHANGED <<pending, channel>>
    /\ \A u \in Threads :
          th[u].op \in TaskOps \/ th'[u].op \in TaskOps =>
             th'[u].op = th[u].op /\ th'[u].page = th[u].page
\* ... markers, ...
MarkersKept(t) ==
    /\ HomesKept
    /\ \A p \in Pages : prefetched'[p] \in {prefetched[p], None}
    /\ \A u \in Threads : th[u].pc \in {"swizzle", "ev_marker"} => u # t /\ th'[u] = th[u]
    /\ \A f \in Frames : frames'[f].generation = frames[f].generation \/ f \in OwnedBy(th[t])
\* ... and the flush.
Flushless == \A u \in Threads : ~Flushing(u)
FlushKept(t) ==
    /\ UNCHANGED stopping
    /\ \A u \in Threads \ {t} :
          th'[u] = th[u] \/ (th[u].pc = "follow" /\ th'[u].pc = "answered" /\ th'[u].op = th[u].op)
    /\ th[t].pc # "exited"
    /\ th'[t].op = "prefetch" => th[t].op = "prefetch" \/ IsWorker(t)
    /\ th'[t].op = "shutdown" => th[t].op = "shutdown"
    /\ InGate(t)' => InGate(t) \/ ~stopping
    /\ Flushing(t)' =>
          /\ Flushing(t) /\ th'[t].pc # "sd_done"
          /\ th'[t].cand = th[t].cand /\ th'[t].want = th[t].want
    /\ Flushless \/ \A f \in Frames : frames'[f].pid \in {frames[f].pid, None}

(***************************************************************************)
(* Requests that nobody touched.                                           *)
(***************************************************************************)
LEMMA RequestsStay ==
    ASSUME InFlightOK, RequestsKept
    PROVE  InFlightOK'
<1>1. ASSUME NEW p \in Pages PROVE Handlers(p)' = Handlers(p) /\ QueuedTasks(p)' = QueuedTasks(p)
  BY DEF RequestsKept, Handlers, QueuedTasks, HandlesTask, TaskOps
<1> HIDE DEF Handlers, QueuedTasks
<1> QED
  BY <1>1 DEF RequestsKept, InFlightOK

(***************************************************************************)
(* Markers of residencies that stay.                                       *)
(***************************************************************************)
LEMMA MarkersStay ==
    ASSUME IInv, IInv', MarkersOK, NEW t \in Threads, MarkersKept(t)
    PROVE  MarkersOK'
<1> SUFFICES ASSUME NEW p \in Pages, prefetched'[p] # None PROVE MarkerOK(p, prefetched[p])'
  BY DEF MarkersOK
<1>1. prefetched'[p] = prefetched[p]
  BY DEF MarkersKept
<1>2. PICK m : m = prefetched[p]
  OBVIOUS
<1>3. MarkerOK(p, m) /\ m.frame \in Frames
  <2>1. prefetched[p] \in PrefetchMarker \cup {None}
    BY DEF IInv, TypedOver, SharedOver
  <2> QED
    BY <1>1, <1>2, <2>1 DEF MarkersOK, PrefetchMarker
<1>4. CASE ResidentAt(p, m.frame) /\ frames[m.frame].generation = m.generation
  <2>1. m.frame \notin OwnedBy(th[t])
    BY <1>3, <1>4, OneOwner
  <2>2. (\E D : TypedOver(D))' /\ HomesKept
    BY DEF IInv, MarkersKept
  <2>3. ResidentAt(p, m.frame)'
    BY <1>3, <1>4, <2>2, SwipsStay DEF ResidentAt
  <2> QED
    BY <1>1, <1>2, <1>3, <1>4, <2>1, <2>3 DEF MarkersKept, MarkerOK
<1>5. ASSUME NEW u \in Threads, At(u, "swizzle"), th[u].page = p, th[u].frame = m.frame,
             frames[m.frame].generation = m.generation
      PROVE  MarkerOK(p, m)'
  <2>1. u # t /\ th'[u] = th[u]
    BY <1>5 DEF MarkersKept, At
  <2>2. m.frame \in OwnedBy(th[u])
    BY <1>3, <1>5 DEF OwnedBy, Published, At
  <2>3. m.frame \notin OwnedBy(th[t])
    BY <1>3, <2>1, <2>2, OneOwner
  <2>4. frames'[m.frame].generation = m.generation
    BY <1>3, <1>5, <2>3 DEF MarkersKept
  <2> QED
    BY <1>5, <2>1, <2>4 DEF MarkerOK, At
<1>6. ASSUME NEW u \in Threads, At(u, "ev_marker"), th[u].ticket.pid = p
      PROVE  MarkerOK(p, m)'
  <2>1. th'[u] = th[u]
    BY <1>6 DEF MarkersKept, At
  <2> QED
    BY <1>6, <2>1 DEF MarkerOK, At
<1> QED
  BY <1>1, <1>2, <1>3, <1>4, <1>5, <1>6 DEF MarkerOK

(***************************************************************************)
(* A flush that nobody disturbs.                                           *)
(***************************************************************************)
LEMMA FlushStays ==
    ASSUME IInv, FlushOK, NEW t \in Threads, FlushKept(t)
    PROVE  FlushOK'
<1>1. ASSUME NEW u \in Threads \ {t}
      PROVE  /\ th'[u].op = th[u].op
             /\ InGate(u)' => InGate(u)
             /\ th[u].pc = "exited" => th'[u].pc = "exited"
             /\ Flushing(u)' =>
                   /\ Flushing(u) /\ th'[u].pc = th[u].pc
                   /\ th'[u].want = th[u].want /\ th'[u].cand = th[u].cand
  <2>1. PlacesFit(u)
    BY OperationPlaces
  <2>2. CASE th'[u] = th[u]
    BY <2>2 DEF InGate, Flushing
  <2>3. CASE th[u].pc = "follow" /\ th'[u].pc = "answered" /\ th'[u].op = th[u].op
    BY <2>1, <2>3 DEF InGate, Flushing, PlacesFit, EvictPlaces, EvictReserved
  <2> QED
    BY <2>2, <2>3 DEF FlushKept
<1>2. ASSUME NEW u \in Threads PROVE th'[u].op = "prefetch" => IsWorker(u)
  BY <1>1 DEF FlushKept, FlushOK
<1>3. ASSUME NEW u \in Threads PROVE th'[u].op = "shutdown" => stopping'
  BY <1>1 DEF FlushKept, FlushOK
<1>4. ASSUME NEW s \in Threads, Flushing(s)'
      PROVE  /\ \A u \in Threads : ~InGate(u)' /\ (IsWorker(u) => th'[u].pc = "exited")
             /\ th'[s].want = 0 => \A f \in Frames \ th'[s].cand : frames'[f].pid = None
             /\ th'[s].pc = "sd_done" => th'[s].want = 0 /\ th'[s].cand = {}
  <2>1. Flushing(s) /\ th'[s].want = th[s].want /\ th'[s].cand = th[s].cand
    BY <1>1, <1>4 DEF FlushKept
  <2>2. stopping
    BY <2>1 DEF FlushOK, Flushing
  <2>3. \A u \in Threads : ~InGate(u) /\ (IsWorker(u) => th[u].pc = "exited")
    BY <2>1 DEF FlushOK
  <2>4. ~IsWorker(t) /\ ~InGate(t)'
    BY <2>2, <2>3 DEF FlushKept
  <2>5. \A f \in Frames : frames'[f].pid \in {frames[f].pid, None}
    BY <2>1 DEF FlushKept, Flushless
  <2>6. /\ th[s].want = 0 => \A f \in Frames \ th[s].cand : frames[f].pid = None
        /\ th'[s].pc = "sd_done" => th'[s].want = 0 /\ th'[s].cand = {}
    BY <1>1, <1>4, <2>1 DEF FlushOK, FlushKept
  <2> QED
    BY <1>1, <2>1, <2>3, <2>4, <2>5, <2>6
<1> HIDE DEF Flushing, InGate
<1> QED
  BY <1>2, <1>3, <1>4 DEF FlushOK

(***************************************************************************)
(* The ordinary steps disturb none of them.                                *)
(***************************************************************************)
LEMMA SteadyKeeps ==
    ASSUME IInv, IInv', RInv, NEW t \in Threads, Steady(t)
    PROVE  RInv'
<1>1. RequestsKept
  BY DEF Steady, ThreadSteady, SharedSteady, Moves, RequestsKept
<1>2. MarkersKept(t)
  BY DEF Steady, ThreadSteady, SharedSteady, FramesSteady, Moves, MarkersKept
<1>3. FlushKept(t)
  <2>1. th[t].op = "prefetch" \/ th'[t].op = "prefetch" => th'[t].op = th[t].op
    BY DEF Steady, ThreadSteady, TaskOps
  <2>2. Flushing(t)' =>
           /\ Flushing(t) /\ th'[t].pc # "sd_done"
           /\ th'[t].cand = th[t].cand /\ th'[t].want = th[t].want
    BY DEF Steady, ThreadSteady, Flushing
  <2>3. /\ th[t].pc # "exited" /\ (InGate(t)' => InGate(t) \/ ~stopping) /\ Moves(t)
        /\ th'[t].op = "shutdown" => th[t].op = "shutdown"
    BY DEF Steady, ThreadSteady
  <2>4. UNCHANGED stopping /\ \A f \in Frames : frames'[f].pid \in {frames[f].pid, None}
    BY DEF Steady, SharedSteady, FramesSteady
  <2> QED
    BY <2>1, <2>2, <2>3, <2>4 DEF FlushKept, Moves
<1> QED
  BY <1>1, <1>2, <1>3, RequestsStay, MarkersStay, FlushStays DEF RInv

-----------------------------------------------------------------------------
(***************************************************************************)
(* The steps that move a request: the submitter takes a slot, ...          *)
(***************************************************************************)
LEMMA SubmitMoves ==
    ASSUME IInv, InFlightOK, NEW t \in Threads, SubmitPrefetch(t)
    PROVE  InFlightOK'
<1>1. PICK D : TypedOver(D)
  BY DEF IInv
<1>2. PICK p \in pages \ pending :
          /\ pending' = pending \cup {p}
          /\ th' = [th EXCEPT ![t].pc = "pf_pop", ![t].op = "submit", ![t].page = p]
  BY DEF SubmitPrefetch
<1>3. th[t].pc = "idle" /\ UNCHANGED channel /\ p \in Pages
  BY <1>1, <1>2 DEF SubmitPrefetch, Starts, At, TypedOver, SharedOver
<1>4. th[t] = Idle /\ th[t] \in LocalsOver(D)
  BY <1>1, <1>3, OperationPlaces DEF PlacesFit, TypedOver
<1>5. None \notin {"submit", "prefetch"}
  BY PoolAssumption DEF Operations
<1>6. \A q \in Pages : ~HandlesTask(t, q)
  BY <1>4, <1>5 DEF HandlesTask, Idle
<1>7. th'[t].op = "submit" /\ th'[t].page = p /\ \A u \in Threads \ {t} : th'[u] = th[u]
  BY <1>1, <1>2, <1>4 DEF TypedOver, LocalsOver
<1>8. \A q \in Pages : Handlers(q)' = IF q = p THEN Handlers(q) \cup {t} ELSE Handlers(q)
  BY <1>6, <1>7 DEF Handlers, HandlesTask
<1>9. \A q \in Pages : QueuedTasks(q)' = QueuedTasks(q)
  BY <1>3 DEF QueuedTasks
<1>10. ASSUME NEW q \in Pages
       PROVE  \/ q \notin pending' /\ Handlers(q)' = {} /\ QueuedTasks(q)' = {}
              \/ q \in pending' /\ Single(Handlers(q)') /\ QueuedTasks(q)' = {}
              \/ q \in pending' /\ Handlers(q)' = {} /\ Single(QueuedTasks(q)')
  <2> HIDE DEF Handlers, QueuedTasks
  <2>1. CASE q = p
    <3>1. Handlers(q) = {} /\ QueuedTasks(q) = {}
      BY <1>2, <2>1 DEF InFlightOK
    <3>2. Handlers(q)' = {t} /\ QueuedTasks(q)' = {} /\ q \in pending'
      BY <1>2, <1>8, <1>9, <2>1, <3>1
    <3> QED
      BY <3>2 DEF Single
  <2>2. CASE q # p
    <3>1. (q \in pending' <=> q \in pending) /\ Handlers(q)' = Handlers(q)
      BY <1>2, <1>8, <2>2
    <3> QED
      BY <1>9, <3>1 DEF InFlightOK
  <2> QED
    BY <2>1, <2>2
<1> HIDE DEF Handlers, QueuedTasks
<1> QED
  BY <1>10 DEF InFlightOK, Single

(***************************************************************************)
(* ... hands it to the channel with its task, ...                          *)
(***************************************************************************)
LEMMA SendMoves ==
    ASSUME IInv, InFlightOK, NEW t \in Threads, SendTask(t)
    PROVE  InFlightOK'
<1>1. PICK D : TypedOver(D)
  BY DEF IInv
<1>2. PICK p, k : p = th[t].page /\ k = [pid |-> th[t].page, frame |-> th[t].frame]
  OBVIOUS
<1>3. th[t].pc = "pf_send" /\ channel' = Append(channel, k) /\ UNCHANGED pending
  BY <1>2 DEF SendTask, At
<1>4. th[t].op = "submit"
  BY <1>3, OperationPlaces DEF PlacesFit
<1>5. p \in Pages /\ k \in PrefetchTask /\ k.pid = p
  BY <1>2, <1>3, <1>4, Needs DEF Backed, PrefetchTask, Reserved
<1>6. th'[t] = Idle /\ \A u \in Threads \ {t} : th'[u] = th[u]
  BY <1>1 DEF SendTask, Leave, TypedOver
<1>7. ~HandlesTask(t, p)' /\ \A q \in Pages : HandlesTask(t, q) <=> q = p
  BY <1>2, <1>4, <1>6, PoolAssumption DEF HandlesTask, Idle, Operations
<1>8. \A q \in Pages : ~HandlesTask(t, q)'
  BY <1>6, PoolAssumption DEF HandlesTask, Idle, Operations
<1>9. \A q \in Pages : Handlers(q)' = Handlers(q) \ {t}
  BY <1>6, <1>8 DEF Handlers, HandlesTask
<1>10. t \in Handlers(p) /\ \A q \in Pages : q # p => t \notin Handlers(q)
  BY <1>5, <1>7 DEF Handlers
<1>11. ASSUME NEW q \in Pages
       PROVE  QueuedTasks(q)' = IF q = p THEN QueuedTasks(q) \cup {Len(channel) + 1} ELSE QueuedTasks(q)
  <2>1. channel \in Seq(PrefetchTask)
    BY <1>1 DEF TypedOver, SharedOver
  <2>2. /\ Len(channel) \in Nat /\ Len(channel') = Len(channel) + 1
        /\ \A i \in 1 .. Len(channel) : channel'[i] = channel[i]
        /\ channel'[Len(channel) + 1] = k
    BY <1>3, <1>5, <2>1
  <2>3. \A i : i \in 1 .. (Len(channel) + 1) <=> i \in 1 .. Len(channel) \/ i = Len(channel) + 1
    BY <2>2
  <2>4. QueuedTasks(q)' = {i \in 1 .. (Len(channel) + 1) : channel'[i].pid = q}
    BY <2>2 DEF QueuedTasks
  <2>5. QueuedTasks(q) = {i \in 1 .. Len(channel) : channel[i].pid = q}
    BY DEF QueuedTasks
  <2> HIDE DEF QueuedTasks
  <2>6. \A i : i \in QueuedTasks(q)' <=> i \in QueuedTasks(q) \/ (q = p /\ i = Len(channel) + 1)
    BY <1>5, <2>2, <2>3, <2>4, <2>5
  <2> QED
    BY <2>6
<1>12. ASSUME NEW q \in Pages
       PROVE  \/ q \notin pending' /\ Handlers(q)' = {} /\ QueuedTasks(q)' = {}
              \/ q \in pending' /\ Single(Handlers(q)') /\ QueuedTasks(q)' = {}
              \/ q \in pending' /\ Handlers(q)' = {} /\ Single(QueuedTasks(q)')
  <2> HIDE DEF Handlers, QueuedTasks
  <2>1. CASE q = p
    <3>1. q \in pending /\ Handlers(q) = {t} /\ QueuedTasks(q) = {}
      BY <1>10, <2>1 DEF InFlightOK, Single
    <3>2. Handlers(q)' = {} /\ QueuedTasks(q)' = {Len(channel) + 1}
      BY <1>9, <1>11, <2>1, <3>1
    <3> QED
      BY <1>3, <3>1, <3>2 DEF Single
  <2>2. CASE q # p
    <3>1. Handlers(q)' = Handlers(q) /\ QueuedTasks(q)' = QueuedTasks(q)
      BY <1>9, <1>10, <1>11, <2>2
    <3> QED
      BY <1>3, <3>1 DEF InFlightOK
  <2> QED
    BY <2>1, <2>2
<1> HIDE DEF Handlers, QueuedTasks
<1> QED
  BY <1>12 DEF InFlightOK, Single

(***************************************************************************)
(* ... from which a worker takes it, ...                                   *)
(***************************************************************************)
LEMMA ReceiveMoves ==
    ASSUME IInv, InFlightOK, NEW t \in Threads, ReceiveTask(t)
    PROVE  InFlightOK'
<1>1. PICK D : TypedOver(D)
  BY DEF IInv
<1>2. PICK p : p = Head(channel).pid
  OBVIOUS
<1>3. /\ th[t].pc = "idle" /\ channel # <<>> /\ channel' = Tail(channel) /\ UNCHANGED pending
      /\ channel \in Seq(PrefetchTask)
  BY <1>1 DEF ReceiveTask, Starts, At, TypedOver, SharedOver
<1>4. th[t] = Idle /\ th[t] \in LocalsOver(D)
  BY <1>1, <1>3, OperationPlaces DEF PlacesFit, TypedOver
<1>5. /\ Len(channel) \in Nat \ {0} /\ Head(channel) = channel[1] /\ Head(channel) \in PrefetchTask
      /\ Len(channel') = Len(channel) - 1
      /\ \A i \in 1 .. Len(channel') : channel'[i] = channel[i + 1] /\ i + 1 \in 1 .. Len(channel)
  BY <1>3
<1>6. p \in Pages
  BY <1>2, <1>5 DEF PrefetchTask
<1>7. th'[t].op = "prefetch" /\ th'[t].page = p /\ \A u \in Threads \ {t} : th'[u] = th[u]
  BY <1>1, <1>2, <1>4 DEF ReceiveTask, TypedOver, LocalsOver
<1>8. \A q \in Pages : ~HandlesTask(t, q)
  BY <1>4, PoolAssumption DEF HandlesTask, Idle, Operations
<1>9. \A q \in Pages : Handlers(q)' = IF q = p THEN Handlers(q) \cup {t} ELSE Handlers(q)
  BY <1>7, <1>8 DEF Handlers, HandlesTask
<1>10. 1 \in QueuedTasks(p)
  BY <1>2, <1>5 DEF QueuedTasks
<1>11. ASSUME NEW q \in Pages, NEW i \in QueuedTasks(q)' PROVE i + 1 \in QueuedTasks(q) /\ i + 1 # 1 /\ i \in Nat
  <2>1. i \in 1 .. Len(channel') /\ channel'[i].pid = q
    BY DEF QueuedTasks
  <2> QED
    BY <1>5, <2>1 DEF QueuedTasks
<1>12. ASSUME NEW q \in Pages, NEW k, QueuedTasks(q) = {k}, q # p PROVE Single(QueuedTasks(q)')
  <2>1. k \in 1 .. Len(channel) /\ channel[k].pid = q
    BY <1>12 DEF QueuedTasks
  <2>2. k # 1
    BY <1>2, <1>5, <1>12, <2>1
  <2>3. k - 1 \in 1 .. Len(channel') /\ channel'[k - 1].pid = q
    <3>1. k - 1 \in 1 .. Len(channel') /\ (k - 1) + 1 = k
      BY <1>5, <2>1, <2>2
    <3> QED
      BY <1>5, <2>1, <3>1
  <2>4. k - 1 \in QueuedTasks(q)'
    BY <2>3 DEF QueuedTasks
  <2> HIDE DEF QueuedTasks
  <2>5. ASSUME NEW i \in QueuedTasks(q)' PROVE i = k - 1
    <3>1. i + 1 = k /\ i \in Nat
      BY <1>11, <1>12
    <3> QED
      BY <3>1
  <2> QED
    BY <2>4, <2>5 DEF Single
<1>13. ASSUME NEW q \in Pages
       PROVE  \/ q \notin pending' /\ Handlers(q)' = {} /\ QueuedTasks(q)' = {}
              \/ q \in pending' /\ Single(Handlers(q)') /\ QueuedTasks(q)' = {}
              \/ q \in pending' /\ Handlers(q)' = {} /\ Single(QueuedTasks(q)')
  <2> HIDE DEF Handlers, QueuedTasks
  <2>1. CASE q = p
    <3>1. q \in pending /\ Handlers(q) = {} /\ QueuedTasks(q) = {1}
      BY <1>10, <2>1 DEF InFlightOK, Single
    <3>2. QueuedTasks(q)' = {}
      BY <1>11, <3>1
    <3>3. Handlers(q)' = {t}
      BY <1>9, <2>1, <3>1
    <3> QED
      BY <1>3, <3>1, <3>2, <3>3 DEF Single
  <2>2. CASE q # p
    <3>1. Handlers(q)' = Handlers(q)
      BY <1>9, <2>2
    <3>2. QueuedTasks(q) = {} => QueuedTasks(q)' = {}
      BY <1>11
    <3>3. Single(QueuedTasks(q)) => Single(QueuedTasks(q)')
      BY <1>12, <2>2 DEF Single
    <3> QED
      BY <1>3, <3>1, <3>2, <3>3 DEF InFlightOK
  <2> QED
    BY <2>1, <2>2
<1> HIDE DEF Handlers, QueuedTasks
<1> QED
  BY <1>13 DEF InFlightOK, Single

(***************************************************************************)
(* ... and whoever has it last gives it back.                              *)
(***************************************************************************)
LEMMA ReservationMoves ==
    ASSUME IInv, InFlightOK, NEW t \in Threads, DropPrefetchReservation(t)
    PROVE  InFlightOK'
<1>1. PICK D : TypedOver(D)
  BY DEF IInv
<1>2. PICK p : p = th[t].page
  OBVIOUS
<1>3. th[t].pc = "unreserve" /\ pending' = pending \ {p} /\ UNCHANGED channel
  BY <1>2 DEF DropPrefetchReservation, At
<1>4. th[t].op \in TaskOps
  BY <1>3, OperationPlaces DEF PlacesFit
<1>5. p \in Pages
  BY <1>2, <1>4, Needs DEF Backed, TaskOps
<1>6. th'[t] = Idle /\ \A u \in Threads \ {t} : th'[u] = th[u]
  BY <1>1 DEF DropPrefetchReservation, Leave, TypedOver
<1>7. \A q \in Pages : ~HandlesTask(t, q)' /\ (HandlesTask(t, q) <=> q = p)
  BY <1>2, <1>4, <1>6, PoolAssumption DEF HandlesTask, Idle, Operations, TaskOps
<1>8. \A q \in Pages : Handlers(q)' = Handlers(q) \ {t}
  BY <1>6, <1>7 DEF Handlers, HandlesTask
<1>9. t \in Handlers(p) /\ \A q \in Pages : q # p => t \notin Handlers(q)
  BY <1>5, <1>7 DEF Handlers
<1>10. \A q \in Pages : QueuedTasks(q)' = QueuedTasks(q)
  BY <1>3 DEF QueuedTasks
<1>11. ASSUME NEW q \in Pages
       PROVE  \/ q \notin pending' /\ Handlers(q)' = {} /\ QueuedTasks(q)' = {}
              \/ q \in pending' /\ Single(Handlers(q)') /\ QueuedTasks(q)' = {}
              \/ q \in pending' /\ Handlers(q)' = {} /\ Single(QueuedTasks(q)')
  <2> HIDE DEF Handlers, QueuedTasks
  <2>1. CASE q = p
    <3>1. Handlers(q) = {t} /\ QueuedTasks(q) = {}
      BY <1>9, <2>1 DEF InFlightOK, Single
    <3> QED
      BY <1>3, <1>8, <1>10, <2>1, <3>1
  <2>2. CASE q # p
    <3>1. Handlers(q)' = Handlers(q) /\ (q \in pending' <=> q \in pending)
      BY <1>3, <1>8, <1>9, <2>2
    <3> QED
      BY <1>10, <3>1 DEF InFlightOK
  <2> QED
    BY <2>1, <2>2
<1> HIDE DEF Handlers, QueuedTasks
<1> QED
  BY <1>11 DEF InFlightOK, Single

(***************************************************************************)
(* The request steps disturb neither markers nor a flush.                  *)
(***************************************************************************)
LEMMA RequestKeeps ==
    ASSUME IInv, IInv', RInv, NEW t \in Threads,
           SubmitPrefetch(t) \/ SendTask(t) \/ ReceiveTask(t) \/ DropPrefetchReservation(t)
    PROVE  RInv'
<1> USE DEF EvictPlaces, EvictReserved, PlacesFit
<1>1. PICK D : TypedOver(D)
  BY DEF IInv
<1>2. th \in [Threads -> LocalsOver(D)] /\ th[t] \in LocalsOver(D) /\ PlacesFit(t)
  BY <1>1, OperationPlaces DEF TypedOver
<1>3. None \notin {"alloc", "shared", "exclusive", "optimistic", "submit", "prefetch", "shutdown"}
  BY PoolAssumption DEF Operations
<1>4. InFlightOK'
  BY SubmitMoves, SendMoves, ReceiveMoves, ReservationMoves DEF RInv
<1>5. UNCHANGED <<swip, frames, prefetched, stopping>> /\ th[t].pc \in {"idle", "pf_send", "unreserve"}
  BY DEF SubmitPrefetch, SendTask, ReceiveTask, DropPrefetchReservation, pageVars, Starts, At
<1>6. /\ Moves(t)
      /\ \/ th'[t] = Idle
         \/ th'[t].op = "submit" /\ th'[t].pc = "pf_pop"
         \/ th'[t].op = "prefetch" /\ IsWorker(t)
  <2>1. CASE SendTask(t) \/ DropPrefetchReservation(t)
    BY <1>2, <2>1 DEF SendTask, DropPrefetchReservation, Leave, Moves
  <2>2. CASE SubmitPrefetch(t)
    <3>1. PICK p \in pages \ pending :
             th' = [th EXCEPT ![t].pc = "pf_pop", ![t].op = "submit", ![t].page = p]
      BY <2>2 DEF SubmitPrefetch
    <3> QED
      BY <1>2, <3>1 DEF Moves, LocalsOver
  <2>3. CASE ReceiveTask(t)
    <3>1. "prefetch" \in Roles[t]
      BY <2>3 DEF ReceiveTask, Starts
    <3> QED
      BY <1>2, <2>3, <3>1 DEF ReceiveTask, Moves, LocalsOver, IsWorker
  <2> QED
    BY <2>1, <2>2, <2>3
<1>7. MarkersKept(t)
  BY <1>5, <1>6 DEF MarkersKept, HomesKept, Moves
<1>8. FlushKept(t)
  BY <1>3, <1>5, <1>6 DEF FlushKept, Moves, Flushing, InGate, Idle
<1> QED
  BY <1>4, <1>7, <1>8, MarkersStay, FlushStays DEF RInv

(***************************************************************************)
(* The other steps of a flight and the removal of a marker leave requests  *)
(* and the flush alone.                                                    *)
(***************************************************************************)
LEMMA FlightApart ==
    ASSUME IInv, FlushOK, NEW t \in Threads,
           \/ FixSucceeds(t) \/ EvictUnswizzle(t) \/ EvictMarker(t) \/ PlaceMarker(t)
           \/ Swizzle(t) \/ Install(t)
    PROVE  RequestsKept /\ FlushKept(t)
<1> USE DEF EvictPlaces, EvictReserved, PlacesFit, FillPlaces, UndoPlaces
<1>1. PICK D : TypedOver(D)
  BY DEF IInv
<1>2. th \in [Threads -> LocalsOver(D)] /\ th[t] \in LocalsOver(D) /\ PlacesFit(t)
      /\ frames \in [Frames -> FrameOver(D)]
  BY <1>1, OperationPlaces DEF TypedOver, SharedOver
<1>3. UNCHANGED <<pending, channel, stopping>>
  BY DEF FixSucceeds, EvictUnswizzle, EvictMarker, PlaceMarker, Swizzle, Install, prefetchVars
<1>4. PICK to \in {"guard", "ev_marker", "ev_unlatch", "swizzle", "latch", "unpin", "publish"} :
          /\ th' = [th EXCEPT ![t].pc = to]
          /\ th[t].op = "shutdown" => to \in EvictPlaces
          /\ th[t].pc \in {"check", "ev_unswizzle", "ev_marker", "marker", "swizzle", "install"}
  <2>1. CASE FixSucceeds(t)
    BY <1>2, <2>1 DEF FixSucceeds, Goto, At
  <2>2. CASE EvictUnswizzle(t)
    BY <2>2 DEF EvictUnswizzle, Goto, At
  <2>3. CASE EvictMarker(t)
    BY <2>3 DEF EvictMarker, Goto, At
  <2>4. CASE PlaceMarker(t)
    BY <1>2, <2>4 DEF PlaceMarker, Goto, At
  <2>5. CASE Swizzle(t)
    BY <1>2, <2>5 DEF Swizzle, Goto, At
  <2>6. CASE Install(t)
    BY <1>2, <2>6 DEF Install, Goto, At
  <2> QED
    BY <2>1, <2>2, <2>3, <2>4, <2>5, <2>6
<1>5. Moves(t) /\ th'[t].op = th[t].op /\ th'[t].page = th[t].page /\ th'[t].pc = to
      /\ th'[t].cand = th[t].cand /\ th'[t].want = th[t].want
  BY <1>2, <1>4 DEF Moves, LocalsOver
<1>6. RequestsKept
  BY <1>3, <1>5 DEF RequestsKept, Moves
<1>7. InGate(t)' => InGate(t)
  BY <1>4, <1>5 DEF InGate
<1>8. Flushing(t)' => Flushing(t)
  BY <1>2, <1>4, <1>5 DEF Flushing
<1>9. Flushless \/ \A f \in Frames : frames'[f].pid \in {frames[f].pid, None}
  <2>1. CASE ~Install(t)
    BY <2>1 DEF FixSucceeds, EvictUnswizzle, EvictMarker, PlaceMarker, Swizzle
  <2>2. CASE Install(t)
    <3>1. th[t].pc = "install"
      BY <2>2 DEF Install, At
    <3>2. th[t].op \in {"alloc", "prefetch"} \cup FixOps
      <4>1. PlaceOK(t) /\ th[t].op \in Operations \cup {None}
        BY <1>2 DEF IInv, ThreadOK, LocalsOver
      <4> QED
        BY <3>1, <4>1 DEF PlaceOK, Operations, FixOps
    <3>3. InGate(t) \/ IsWorker(t)
      BY <3>1, <3>2 DEF InGate, FixOps, FlushOK
    <3> QED
      BY <3>1, <3>3 DEF Flushless, FlushOK
  <2> QED
    BY <2>1, <2>2
<1>10. FlushKept(t)
  <2> HIDE DEF Flushing, InGate
  <2> QED
    BY <1>3, <1>4, <1>5, <1>7, <1>8, <1>9 DEF FlushKept, Moves
<1> QED
  BY <1>6, <1>10

(***************************************************************************)
(* A hit may consume a marker, and a frame is installed before anybody can *)
(* have marked it.                                                         *)
(***************************************************************************)
LEMMA HitKeeps ==
    ASSUME IInv, IInv', RInv, NEW t \in Threads,
           FixSucceeds(t) \/ Install(t)
    PROVE  RInv'
<1>1. PICK D : TypedOver(D)
  BY DEF IInv
<1>2. th \in [Threads -> LocalsOver(D)] /\ frames \in [Frames -> FrameOver(D)]
      /\ prefetched \in [Pages -> PrefetchMarker \cup {None}]
  BY <1>1 DEF TypedOver, SharedOver
<1>3. th[t].pc \in {"check", "install"} /\ Moves(t)
  BY <1>2 DEF FixSucceeds, Install, At, Goto, Moves
<1>4. HomesKept
  <2>1. CASE FixSucceeds(t)
    BY <2>1, MarksMoveNothing
  <2>2. CASE Install(t)
    BY <2>2 DEF Install, pageVars, HomesKept
  <2> QED
    BY <2>1, <2>2
<1>5. \A p \in Pages : prefetched'[p] \in {prefetched[p], None}
  BY <1>2 DEF FixSucceeds, HitPrefetched, ConsumePrefetched, Install, prefetchVars
<1>6. \A f \in Frames : frames'[f].generation = frames[f].generation \/ f \in OwnedBy(th[t])
  <2>1. CASE FixSucceeds(t)
    BY <2>1 DEF FixSucceeds
  <2>2. CASE Install(t)
    <3> SUFFICES ASSUME NEW f \in Frames, f \notin OwnedBy(th[t])
                 PROVE  frames'[f].generation = frames[f].generation
      OBVIOUS
    <3>1. f # th[t].frame
      BY <2>2 DEF Install, At, OwnedBy, Reserved
    <3> QED
      BY <1>2, <2>2, <3>1 DEF Install
  <2> QED
    BY <2>1, <2>2
<1>7. MarkersKept(t)
  BY <1>3, <1>4, <1>5, <1>6 DEF MarkersKept, Moves
<1> QED
  BY <1>7, FlightApart, RequestsStay, MarkersStay, FlushStays DEF RInv

(***************************************************************************)
(* The leader's answer reaches only those that wait for it.                *)
(***************************************************************************)
LEMMA LandRest ==
    ASSUME IInv, IInv', RInv, NEW t \in Threads, Land(t)
    PROVE  RInv'
<1> USE DEF PlacesFit, EvictPlaces, EvictReserved
<1>1. PICK D : TypedOver(D)
  BY DEF IInv
<1>2. th \in [Threads -> LocalsOver(D)] /\ th[t] \in LocalsOver(D) /\ PlacesFit(t)
  BY <1>1, OperationPlaces DEF TypedOver
<1>3. th[t].pc = "land" /\ UNCHANGED <<swip, frames, prefetched, pending, channel, stopping>>
  BY DEF Land, At, pageVars, prefetchVars
<1>4. ASSUME NEW u \in Threads \ {t}
      PROVE  \/ th'[u] = th[u]
             \/ /\ th[u].pc = "follow" /\ th'[u].pc = "answered"
                /\ th'[u].op = th[u].op /\ th'[u].page = th[u].page
  <2>1. \/ th'[u] = th[u]
        \/ th[u].pc = "follow" /\ th'[u] = [th[u] EXCEPT !.pc = "answered", !.result = th[t].result]
    BY DEF Land
  <2>2. th[u] \in LocalsOver(D)
    BY <1>2
  <2> QED
    BY <2>1, <2>2 DEF LocalsOver
<1>5. th'[t] = AfterFault(t, th[t].result)
  BY DEF Land
<1>6. /\ th[t].op \in TaskOps \/ th'[t].op \in TaskOps =>
             th'[t].op = th[t].op /\ th'[t].page = th[t].page
      /\ th'[t].op # "shutdown"
      /\ InGate(t)' => InGate(t)
  <2>1. th[t].op \notin {"submit", "shutdown"}
    BY <1>2, <1>3 DEF UndoPlaces
  <2>2. CASE th[t].op = "prefetch"
    <3>1. th'[t].op = "prefetch" /\ th'[t].page = th[t].page
      BY <1>2, <1>5, <2>2 DEF AfterFault, LocalsOver
    <3> QED
      BY <2>2, <3>1 DEF InGate
  <2>3. CASE th[t].op # "prefetch"
    <3>1. (th'[t].op = th[t].op /\ th'[t].pc = "load") \/ th'[t] = Idle
      BY <1>2, <1>5, <2>3 DEF AfterFault, LocalsOver
    <3>2. None \notin {"alloc", "shared", "exclusive", "optimistic", "submit", "prefetch", "shutdown"}
      BY PoolAssumption DEF Operations
    <3> QED
      BY <1>3, <2>1, <2>3, <3>1, <3>2 DEF InGate, TaskOps, Idle
  <2> QED
    BY <2>2, <2>3
<1>7. RequestsKept
  BY <1>3, <1>4, <1>6 DEF RequestsKept
<1>8. MarkersKept(t)
  BY <1>3, <1>4 DEF MarkersKept, HomesKept
<1>9. FlushKept(t)
  <2>1. ~Flushing(t)'
    BY <1>6 DEF Flushing
  <2> HIDE DEF Flushing, InGate
  <2> QED
    BY <1>3, <1>4, <1>6, <2>1 DEF FlushKept, TaskOps
<1> QED
  BY <1>7, <1>8, <1>9, RequestsStay, MarkersStay, FlushStays DEF RInv

(***************************************************************************)
(* A marker is placed for the residency that is about to begin, ...        *)
(***************************************************************************)
LEMMA PlaceMarkerKeeps ==
    ASSUME IInv, RInv, NEW t \in Threads, PlaceMarker(t)
    PROVE  RInv'
<1>1. PICK D : TypedOver(D)
  BY DEF IInv
<1>2. PICK p, f : p = th[t].page /\ f = th[t].frame
  OBVIOUS
<1>3. /\ th[t].pc = "marker" /\ UNCHANGED <<swip, frames>> /\ p \in Pages
      /\ prefetched' = [prefetched EXCEPT ![p] = [frame |-> f, generation |-> frames[f].generation]]
  BY <1>2, Needs DEF PlaceMarker, At, pageVars, Backed, Published
<1>4. /\ Moves(t) /\ th'[t].pc = "swizzle" /\ th'[t].page = p /\ th'[t].frame = f
      /\ prefetched \in [Pages -> PrefetchMarker \cup {None}]
  BY <1>1, <1>2 DEF PlaceMarker, Goto, Moves, TypedOver, SharedOver, LocalsOver
<1>5. ASSUME NEW q \in Pages, prefetched'[q] # None PROVE MarkerOK(q, prefetched[q])'
  <2>1. CASE q = p
    <3>1. prefetched'[q] = [frame |-> f, generation |-> frames[f].generation]
      BY <1>3, <1>4, <2>1
    <3>2. prefetched'[q].frame = f /\ prefetched'[q].generation = frames[f].generation
      BY <3>1
    <3> QED
      BY <1>3, <1>4, <2>1, <3>2 DEF MarkerOK, At
  <2>2. CASE q # p
    <3>1. prefetched'[q] = prefetched[q]
      BY <1>3, <1>4, <2>2
    <3>2. PICK m : m = prefetched[q]
      OBVIOUS
    <3>3. MarkerOK(q, m)
      BY <1>5, <3>1, <3>2 DEF RInv, MarkersOK
    <3>4. \A u \in Threads : At(u, "swizzle") \/ At(u, "ev_marker") => th'[u] = th[u]
      BY <1>3, <1>4 DEF At, Moves
    <3>5. MarkerOK(q, m)'
      BY <1>3, <3>3, <3>4 DEF MarkerOK, ResidentAt, At
    <3> QED
      BY <3>1, <3>2, <3>5
  <2> QED
    BY <2>1, <2>2
<1>6. MarkersOK'
  BY <1>5 DEF MarkersOK
<1> QED
  BY <1>6, FlightApart, RequestsStay, FlushStays DEF RInv

(***************************************************************************)
(* ... which begins when its page is published.                            *)
(***************************************************************************)
LEMMA SwizzleMarks ==
    ASSUME IInv, RInv, NEW t \in Threads, Swizzle(t)
    PROVE  RInv'
<1>1. PICK D : TypedOver(D)
  BY DEF IInv
<1>2. PICK p, f : p = th[t].page /\ f = th[t].frame
  OBVIOUS
<1>3. /\ th[t].pc = "swizzle" /\ UNCHANGED <<prefetched, frames>> /\ p \in Pages /\ f \in Frames
      /\ swip[p] = Evicted /\ swip' = [swip EXCEPT ![p] = Hot(f)]
      /\ ThreadOK(t)
  BY <1>2, Needs DEF Swizzle, SetSwip, At, prefetchVars, Backed, Published, IInv
<1>4. /\ Moves(t) /\ swip \in [Pages -> SwipStates]
      /\ prefetched \in [Pages -> PrefetchMarker \cup {None}]
  BY <1>1 DEF Swizzle, Goto, Moves, TypedOver, SharedOver
<1>5. \A u \in Threads : At(u, "ev_marker") => th'[u] = th[u]
  BY <1>3, <1>4 DEF At, Moves
<1>6. ASSUME NEW u \in Threads, At(u, "swizzle"), th[u].page = p PROVE u = t
  <2>1. \A v \in {t, u} : ThreadOK(v) /\ th[v].op \in Operations \cup {None} /\ th[v].pc = "swizzle"
    BY <1>1, <1>3, <1>6 DEF IInv, At, TypedOver, LocalsOver
  <2>2. \A v \in {t, u} :
           \/ th[v].op \in FixOps \cup {"prefetch"} /\ leader[p] = v /\ p \in pages
           \/ th[v].op = "alloc" /\ p \notin pages
    <3> SUFFICES ASSUME NEW v \in {t, u}
                 PROVE  \/ th[v].op \in FixOps \cup {"prefetch"} /\ leader[p] = v /\ p \in pages
                        \/ th[v].op = "alloc" /\ p \notin pages
      OBVIOUS
    <3>1. PlaceOK(v) /\ LeadOK(v) /\ LocalsOK(v) /\ th[v].page = p
      BY <1>2, <1>6, <2>1 DEF ThreadOK
    <3>2. th[v].op \in FixOps \cup {"prefetch", "alloc"}
      BY <2>1, <3>1 DEF PlaceOK, Operations, FixOps, EvictPlaces, EvictReserved, UndoPlaces
    <3> QED
      BY <2>1, <3>1, <3>2 DEF LeadOK, LocalsOK, FillPlaces
  <2>3. CASE p \in pages
    BY <2>2, <2>3
  <2>4. CASE p \notin pages
    <3>1. th[t].op = "alloc" /\ th[u].op = "alloc" /\ p # None
      BY <1>3, <2>2, <2>4, PoolAssumption
    <3> QED
      BY <1>2, <1>6, <3>1 DEF IInv, FreshOK
  <2> QED
    BY <2>3, <2>4
<1>7. ASSUME NEW q \in Pages, prefetched'[q] # None PROVE MarkerOK(q, prefetched[q])'
  <2>1. PICK m : m = prefetched[q]
    OBVIOUS
  <2>2. MarkerOK(q, m) /\ prefetched' = prefetched
    BY <1>3, <1>7, <2>1 DEF RInv, MarkersOK
  <2>3. CASE q = p
    <3>1. ~ResidentAt(q, m.frame)
      BY <1>3, <2>3 DEF ResidentAt, Evicted, Hot, Cooling
    <3>2. CASE \E u \in Threads : At(u, "ev_marker") /\ th[u].ticket.pid = q
      BY <1>5, <2>1, <2>2, <3>2 DEF MarkerOK, At
    <3>3. CASE \E u \in Threads :
                  /\ At(u, "swizzle") /\ th[u].page = q /\ th[u].frame = m.frame
                  /\ frames[m.frame].generation = m.generation
      <4>1. m.frame = f /\ frames[f].generation = m.generation
        BY <1>2, <1>6, <2>3, <3>3
      <4>2. ResidentAt(q, f)'
        BY <1>3, <1>4, <2>3 DEF ResidentAt
      <4> QED
        BY <1>3, <2>1, <2>2, <4>1, <4>2 DEF MarkerOK
    <3> QED
      BY <2>2, <3>1, <3>2, <3>3 DEF MarkerOK
  <2>4. CASE q # p
    <3>1. swip'[q] = swip[q]
      BY <1>3, <1>4, <2>4
    <3>2. \A u \in Threads : At(u, "swizzle") /\ th[u].page = q => th'[u] = th[u]
      BY <1>2, <1>4, <2>4 DEF Moves
    <3>3. MarkerOK(q, m)'
      BY <1>3, <1>5, <2>2, <3>1, <3>2 DEF MarkerOK, ResidentAt, At
    <3> QED
      BY <2>1, <2>2, <3>3
  <2> QED
    BY <2>3, <2>4
<1>8. MarkersOK'
  BY <1>7 DEF MarkersOK
<1> QED
  BY <1>8, FlightApart, RequestsStay, FlushStays DEF RInv

(***************************************************************************)
(* An evictor that withdraws a page owes the removal of its marker.        *)
(***************************************************************************)
LEMMA UnmarkKeeps ==
    ASSUME IInv, RInv, NEW t \in Threads, EvictUnswizzle(t) \/ EvictMarker(t)
    PROVE  RInv'
<1>1. PICK D : TypedOver(D)
  BY DEF IInv
<1>2. PICK p : p = th[t].ticket.pid
  OBVIOUS
<1>3. /\ th[t].pc \in {"ev_unswizzle", "ev_marker"} /\ UNCHANGED frames /\ p \in Pages
      /\ \A q \in Pages \ {p} : swip'[q] = swip[q] /\ prefetched'[q] = prefetched[q]
      /\ Moves(t)
  <2>1. /\ swip \in [Pages -> SwipStates] /\ prefetched \in [Pages -> PrefetchMarker \cup {None}]
        /\ th \in [Threads -> LocalsOver(D)]
    BY <1>1 DEF TypedOver, SharedOver
  <2>2. th[t].pc \in {"ev_unswizzle", "ev_marker"}
    BY DEF EvictUnswizzle, EvictMarker, At
  <2>3. p \in Pages
    BY <1>2, <2>2, Needs DEF Backed, EvictPlaces, EvictReserved
  <2>4. CASE EvictUnswizzle(t)
    BY <1>2, <2>1, <2>2, <2>3, <2>4 DEF EvictUnswizzle, SetSwip, prefetchVars, Goto, Moves
  <2>5. CASE EvictMarker(t)
    BY <1>2, <2>1, <2>2, <2>3, <2>5 DEF EvictMarker, ConsumePrefetched, pageVars, Goto, Moves
  <2> QED
    BY <2>4, <2>5
<1>4. \/ prefetched'[p] = None
      \/ prefetched'[p] = prefetched[p] /\ th'[t].pc = "ev_marker" /\ th'[t].ticket.pid = p
  <2>1. /\ prefetched \in [Pages -> PrefetchMarker \cup {None}]
        /\ th \in [Threads -> LocalsOver(D)] /\ th[t] \in LocalsOver(D)
    BY <1>1 DEF TypedOver, SharedOver
  <2>2. CASE EvictUnswizzle(t)
    BY <1>2, <2>1, <2>2 DEF EvictUnswizzle, prefetchVars, Goto, LocalsOver
  <2>3. CASE EvictMarker(t)
    BY <1>2, <1>3, <2>1, <2>3 DEF EvictMarker, ConsumePrefetched
  <2> QED
    BY <2>2, <2>3
<1>5. ASSUME NEW q \in Pages, prefetched'[q] # None PROVE MarkerOK(q, prefetched[q])'
  <2>1. CASE q = p
    BY <1>4, <1>5, <2>1 DEF MarkerOK, At
  <2>2. CASE q # p
    <3>1. PICK m : m = prefetched[q]
      OBVIOUS
    <3>2. MarkerOK(q, m) /\ prefetched'[q] = m /\ swip'[q] = swip[q]
      BY <1>3, <1>5, <2>2, <3>1 DEF RInv, MarkersOK
    <3>3. \A u \in Threads :
             At(u, "swizzle") \/ (At(u, "ev_marker") /\ th[u].ticket.pid = q) => th'[u] = th[u]
      BY <1>2, <1>3, <2>2 DEF At, Moves
    <3>4. MarkerOK(q, m)'
      BY <1>3, <3>2, <3>3 DEF MarkerOK, ResidentAt, At
    <3> QED
      BY <3>2, <3>4
  <2> QED
    BY <2>1, <2>2
<1>6. MarkersOK'
  BY <1>5 DEF MarkersOK
<1> QED
  BY <1>6, FlightApart, RequestsStay, FlushStays DEF RInv

(***************************************************************************)
(* shutdown: the flush begins when the gate is empty and the workers are   *)
(* gone, and a pass counts the pages it has seen.                          *)
(***************************************************************************)
LEMMA ShutdownRest ==
    ASSUME IInv, IInv', RInv, NEW t \in Threads, ShutdownStep(t)
    PROVE  RInv'
<1> USE DEF PlacesFit, EvictPlaces, EvictReserved
<1>1. PICK D : TypedOver(D)
  BY DEF IInv
<1>2. th \in [Threads -> LocalsOver(D)] /\ th[t] \in LocalsOver(D) /\ PlacesFit(t)
  BY <1>1, OperationPlaces DEF TypedOver
<1>3. None \notin {"alloc", "shared", "exclusive", "optimistic", "submit", "prefetch", "shutdown"}
  BY PoolAssumption DEF Operations
<1>4. UNCHANGED <<frames, prefetched, pending, channel>>
  BY DEF ShutdownStep, ShutdownStarts, ShutdownJoins, FlushFrame, FlushPassEnds, prefetchVars
<1>5. HomesKept
  <2>1. CASE FlushFrame(t)
    BY <2>1, MarksMoveNothing
  <2>2. CASE ~FlushFrame(t)
    BY <2>2 DEF ShutdownStep, ShutdownStarts, ShutdownJoins, FlushPassEnds, pageVars, HomesKept
  <2> QED
    BY <2>1, <2>2
<1>6. /\ th[t].op \in {None, "shutdown"}
      /\ th[t].pc \in {"idle", "sd_failed", "sd_gate", "flush"}
      /\ th[t].pc \in {"sd_gate", "flush"} => th[t].op = "shutdown"
  <2>1. th[t].pc \in {"idle", "sd_failed", "sd_gate", "flush"}
    BY DEF ShutdownStep, ShutdownStarts, ShutdownJoins, FlushFrame, FlushPassEnds, At
  <2>2. PlaceOK(t) /\ th[t].op \in Operations \cup {None}
    BY <1>2 DEF IInv, ThreadOK, LocalsOver
  <2> QED
    BY <2>1, <2>2 DEF PlaceOK, Operations, FixOps, AcquirePlaces, FillPlaces, UndoPlaces, TaskPlaces,
       Fixing, Idle
<1>7. Moves(t)
  <2>1. CASE ShutdownStarts(t)
    BY <1>2, <2>1 DEF ShutdownStarts, Moves
  <2>2. CASE ShutdownJoins(t)
    BY <1>2, <2>2 DEF ShutdownJoins, Moves
  <2>3. CASE FlushFrame(t)
    BY <1>2, <2>3 DEF FlushFrame, Moves
  <2>4. CASE FlushPassEnds(t)
    BY <1>2, <2>4 DEF FlushPassEnds, Goto, Moves
  <2> QED
    BY <2>1, <2>2, <2>3, <2>4 DEF ShutdownStep
<1>8. /\ th'[t].op = "shutdown"
      /\ \/ ShutdownStarts(t) /\ th'[t].pc = "sd_gate"
         \/ ShutdownJoins(t) /\ th'[t].pc = "flush" /\ th'[t].cand = Frames
         \/ /\ th[t].pc = "flush" /\ th'[t].pc \in {"flush", "ev_check"}
            /\ th'[t].want = 0 => th[t].want = 0 /\ \E f \in th[t].cand :
                                th'[t].cand = th[t].cand \ {f} /\ frames[f].pid = None
         \/ /\ th[t].pc = "flush" /\ th'[t].pc \in {"flush", "sd_done", "sd_failed"}
            /\ th'[t].cand = Frames \/ (th'[t].cand = th[t].cand /\ th'[t].want = th[t].want)
            /\ th'[t].pc = "sd_done" => th'[t].want = 0 /\ th'[t].cand = {}
  <2>1. CASE ShutdownStarts(t)
    BY <1>2, <2>1 DEF ShutdownStarts, Idle
  <2>2. CASE ShutdownJoins(t)
    BY <1>2, <1>6, <2>2 DEF ShutdownJoins, At, LocalsOver
  <2>3. CASE FlushFrame(t)
    <3>1. th[t].pc = "flush"
      BY <2>3 DEF FlushFrame, At
    <3>2. PICK f \in th[t].cand :
             LET seen == [th EXCEPT ![t].cand = @ \ {f},
                                    ![t].want = IF frames[f].pid = None THEN @ ELSE 1]
             IN  \/ th' = seen
                 \/ th' = [seen EXCEPT ![t].pc = "ev_check", ![t].ticket = Ticket(f, frames[f].pid)]
      BY <2>3 DEF FlushFrame
    <3>5. PICK want \in Nat : want = IF frames[f].pid = None THEN th[t].want ELSE 1
      BY <1>2 DEF LocalsOver
    <3>6. PICK seen : seen = [th EXCEPT ![t].cand = th[t].cand \ {f}, ![t].want = want]
      OBVIOUS
    <3>7. \/ th' = seen
          \/ th' = [seen EXCEPT ![t].pc = "ev_check", ![t].ticket = Ticket(f, frames[f].pid)]
      BY <1>2, <3>2, <3>5, <3>6 DEF LocalsOver
    <3>3. /\ seen[t].op = "shutdown" /\ seen[t].pc = "flush" /\ seen[t].cand = th[t].cand \ {f}
          /\ seen[t].want = want /\ seen \in [Threads -> LocalsOver(D)]
      <4>1. PICK l : l = [th[t] EXCEPT !.cand = th[t].cand \ {f}, !.want = want]
        OBVIOUS
      <4>2. /\ l \in LocalsOver(D) /\ l.op = "shutdown" /\ l.pc = "flush"
            /\ l.cand = th[t].cand \ {f} /\ l.want = want
        BY <1>2, <1>6, <3>1, <3>5, <4>1 DEF LocalsOver
      <4>3. seen = [th EXCEPT ![t] = l]
        BY <1>2, <3>6, <4>1
      <4> QED
        BY <1>2, <4>2, <4>3
    <3>4. /\ th'[t].op = seen[t].op /\ th'[t].cand = seen[t].cand /\ th'[t].want = seen[t].want
          /\ th'[t].pc \in {"flush", "ev_check"}
      BY <3>3, <3>7 DEF LocalsOver
    <3> QED
      BY <3>1, <3>3, <3>4, <3>5
  <2>4. CASE FlushPassEnds(t)
    <3>1. th[t].pc = "flush"
      BY <2>4 DEF FlushPassEnds, At
    <3>2. CASE th' = [th EXCEPT ![t].pc = "sd_done"] /\ th[t].want = 0 /\ th[t].cand = {}
      BY <1>2, <1>6, <3>1, <3>2 DEF LocalsOver
    <3>4. CASE th' = [th EXCEPT ![t].pc = "sd_failed"]
      BY <1>2, <1>6, <3>1, <3>4 DEF LocalsOver
    <3>3. CASE th' = [th EXCEPT ![t].cand = Frames, ![t].want = 0, ![t].left = 0]
      BY <1>2, <1>6, <3>1, <3>3 DEF LocalsOver
    <3> QED
      BY <2>4, <3>2, <3>3, <3>4 DEF FlushPassEnds, Goto
  <2> QED
    BY <2>1, <2>2, <2>3, <2>4 DEF ShutdownStep
<1>9. RequestsKept
  BY <1>3, <1>4, <1>6, <1>7, <1>8 DEF RequestsKept, Moves, TaskOps
<1>10. MarkersKept(t)
  BY <1>4, <1>5, <1>6, <1>7 DEF MarkersKept, Moves
<1>11. FlushOK'
  <2>1. stopping' = stopping \/ stopping' = TRUE
    BY DEF ShutdownStep, ShutdownStarts, ShutdownJoins, FlushFrame, FlushPassEnds
  <2>2. stopping'
    <3>1. CASE ShutdownStarts(t)
      BY <3>1 DEF ShutdownStarts
    <3>2. CASE ~ShutdownStarts(t)
      <4>1. th[t].pc \in {"sd_gate", "flush"}
        BY <3>2 DEF ShutdownStep, ShutdownJoins, FlushFrame, FlushPassEnds, At
      <4>2. th[t].op = "shutdown"
        BY <1>6, <4>1
      <4> QED
        BY <2>1, <4>2 DEF RInv, FlushOK
    <3> QED
      BY <3>1, <3>2
  <2>3. ASSUME NEW u \in Threads PROVE th'[u].op = "prefetch" => IsWorker(u)
    BY <1>7, <1>8 DEF RInv, FlushOK, Moves
  <2>4. ~InGate(t)'
    BY <1>8 DEF InGate
  <2>5. ASSUME NEW s \in Threads, Flushing(s)'
        PROVE  /\ \A u \in Threads : ~InGate(u)' /\ (IsWorker(u) => th'[u].pc = "exited")
               /\ th'[s].want = 0 => \A f \in Frames \ th'[s].cand : frames'[f].pid = None
               /\ th'[s].pc = "sd_done" => th'[s].want = 0 /\ th'[s].cand = {}
    <3>1. Flushing(s) \/ (ShutdownJoins(t) /\ s = t)
      BY <1>6, <1>7, <1>8, <2>5 DEF Flushing, Moves
    <3>2. \A u \in Threads : ~InGate(u) /\ (IsWorker(u) => th[u].pc = "exited")
      BY <3>1 DEF RInv, FlushOK, ShutdownJoins
    <3>3. ~IsWorker(t)
      BY <1>6, <3>2
    <3>4. \A u \in Threads : ~InGate(u)' /\ (IsWorker(u) => th'[u].pc = "exited")
      BY <1>7, <2>4, <3>2, <3>3 DEF Moves, InGate
    <3>5. ASSUME th'[s].want = 0, NEW f \in Frames \ th'[s].cand PROVE frames[f].pid = None
      <4>1. CASE s # t
        BY <1>7, <3>1, <3>5, <4>1 DEF Moves, RInv, FlushOK
      <4>2. CASE s = t /\ th'[t].cand = Frames
        BY <3>5, <4>2
      <4>3. CASE s = t /\ th'[t].cand # Frames
        <5>1. /\ th[t].want = 0 /\ th[t].pc = "flush"
              /\ \/ th'[t].cand = th[t].cand
                 \/ \E g \in th[t].cand : th'[t].cand = th[t].cand \ {g} /\ frames[g].pid = None
          BY <1>8, <2>5, <3>5, <4>3 DEF Flushing
        <5>2. Flushing(t)
          BY <1>6, <5>1 DEF Flushing
        <5>3. th[t].want = 0 => \A g \in Frames \ th[t].cand : frames[g].pid = None
          BY <5>2 DEF RInv, FlushOK
        <5> QED
          BY <3>5, <4>3, <5>1, <5>3
      <4> QED
        BY <4>1, <4>2, <4>3
    <3>6. th'[s].pc = "sd_done" => th'[s].want = 0 /\ th'[s].cand = {}
      <4>1. CASE s = t
        BY <1>8, <4>1
      <4>2. CASE s # t
        BY <1>7, <3>1, <4>2 DEF Moves, RInv, FlushOK
      <4> QED
        BY <4>1, <4>2
    <3> QED
      BY <1>4, <3>4, <3>5, <3>6
  <2> HIDE DEF Flushing, InGate
  <2> QED
    BY <2>2, <2>3, <2>5 DEF FlushOK
<1> QED
  BY <1>9, <1>10, <1>11, RequestsStay, MarkersStay DEF RInv

(***************************************************************************)
(* Every step keeps the accounts of requests, markers and the flush.       *)
(***************************************************************************)
LEMMA StepRest ==
    ASSUME IInv, IInv', RInv, NEW t \in Threads,
           \/ ApiStep(t) \/ FaultStep(t) \/ EvictionStep(t)
           \/ PrefetchStep(t) \/ WorkerStep(t) \/ ShutdownStep(t)
    PROVE  RInv'
<1>1. CASE EvictionStep(t)
  <2>1. CASE \/ SampleDone(t) \/ SampleFrame(t) \/ MarkCandidate(t) \/ EnqueueCandidate(t)
            \/ EvictCheck(t) \/ EvictClaim(t) \/ EvictBusy(t) \/ EvictLatch(t)
    BY <2>1, SamplingSteady, SteadyKeeps
  <2>2. CASE \/ EvictRecheck(t) \/ EvictWrite(t) \/ EvictWriteFails(t) \/ EvictAbort(t)
            \/ EvictUnreserve(t) \/ EvictPublish(t) \/ EvictUnlatch(t) \/ EvictClear(t)
            \/ EvictRelease(t) \/ EvictPush(t) \/ EvictFreeOld(t)
    BY <2>2, EvictionSteady, SteadyKeeps
  <2>3. CASE EvictUnswizzle(t) \/ EvictMarker(t)
    BY <2>3, UnmarkKeeps
  <2> QED
    BY <1>1, <2>1, <2>2, <2>3 DEF EvictionStep
<1>2. CASE FaultStep(t)
  <2>1. CASE \/ AcquireStops(t) \/ AcquirePops(t) \/ AcquireStarts(t) \/ AcquireSamples(t)
            \/ AcquireMisses(t) \/ TakeTicket(t) \/ EndRound(t) \/ ClaimFree(t)
            \/ DropReservation(t) \/ DropFrame(t)
    BY <2>1, AcquireSteady, SteadyKeeps
  <2>2. CASE \/ FaultStops(t) \/ FaultLeads(t) \/ FaultFollows(t) \/ FollowerReturns(t)
            \/ LeadStops(t) \/ LeadFindsResident(t) \/ LeadLooksUp(t)
            \/ FillFrame(t) \/ FillFails(t) \/ PublishPin(t) \/ UnpinFaulted(t)
    BY <2>2, FaultSteady, SteadyKeeps
  <2>3. CASE Install(t)
    BY <2>3, HitKeeps
  <2>4. CASE PlaceMarker(t)
    BY <2>4, PlaceMarkerKeeps
  <2>5. CASE Swizzle(t)
    BY <2>5, SwizzleMarks
  <2>6. CASE Land(t)
    BY <2>6, LandRest
  <2> QED
    BY <1>2, <2>1, <2>2, <2>3, <2>4, <2>5, <2>6 DEF FaultStep
<1>3. CASE ApiStep(t)
  <2>1. CASE FixSucceeds(t)
    BY <2>1, HitKeeps
  <2>2. CASE \/ WriteGuard(t) \/ CaptureSnapshot(t) \/ DropGuard(t) \/ DropLatch(t)
            \/ SnapshotExact(t) \/ SnapshotValidates(t)
    BY <2>2, GuardSteady, SteadyKeeps
  <2>3. CASE \/ Allocate(t) \/ AllocatePid(t) \/ RegisterPage(t) \/ Fix(t) \/ FixStops(t)
            \/ LoadSwip(t) \/ PinFrame(t) \/ PinRefused(t) \/ LatchFrame(t)
            \/ FixSucceedsDeclined(t) \/ EnqueueDeclined(t) \/ FixRetries(t) \/ UnpinRetry(t)
    BY <2>3, CallSteady, SteadyKeeps
  <2> QED
    BY <1>3, <2>1, <2>2, <2>3 DEF ApiStep
<1>4. CASE PrefetchStep(t)
  <2>1. CASE SubmitPrefetch(t) \/ SendTask(t) \/ ReceiveTask(t) \/ DropPrefetchReservation(t)
    BY <2>1, RequestKeeps
  <2>2. CASE CheckoutPops(t) \/ CheckoutClaims(t) \/ SubmitChecks(t)
    BY <2>2, CheckoutSteady, SteadyKeeps
  <2> QED
    BY <1>4, <2>1, <2>2 DEF PrefetchStep
<1>5. CASE WorkerStep(t)
  BY <1>5, SamplingSteady, SteadyKeeps DEF WorkerStep
<1>6. CASE ShutdownStep(t)
  BY <1>6, ShutdownRest
<1> QED
  BY <1>1, <1>2, <1>3, <1>4, <1>5, <1>6

(***************************************************************************)
(* At first there is no request, no marker and no flush.                   *)
(***************************************************************************)
LEMMA InitRest == PoolInit => RInv
<1> SUFFICES ASSUME PoolInit PROVE RInv
  OBVIOUS
<1>1. \A t \in Threads : th[t].op = None /\ th[t].pc = "idle"
  BY DEF PoolInit, Idle
<1>2. None \notin {"submit", "prefetch", "shutdown"}
  BY PoolAssumption DEF Operations
<1>3. InFlightOK
  <2>1. \A p \in Pages : Handlers(p) = {} /\ QueuedTasks(p) = {} /\ p \notin pending
    BY <1>1, <1>2 DEF PoolInit, Handlers, QueuedTasks, HandlesTask
  <2> HIDE DEF Handlers, QueuedTasks
  <2> QED
    BY <2>1 DEF InFlightOK
<1>4. MarkersOK
  BY DEF PoolInit, MarkersOK
<1>5. FlushOK
  BY <1>1, <1>2 DEF FlushOK, Flushing
<1> QED
  BY <1>3, <1>4, <1>5 DEF RInv

(***************************************************************************)
(* They are kept when nothing happens.                                     *)
(***************************************************************************)
LEMMA StutterRest == RInv /\ UNCHANGED poolVars => RInv'
<1> SUFFICES ASSUME RInv, UNCHANGED poolVars PROVE RInv'
  OBVIOUS
<1>1. UNCHANGED <<swip, frames, prefetched, pending, channel, stopping, th>>
  BY DEF poolVars
<1>2. InFlightOK'
  <2>1. RequestsKept
    BY <1>1 DEF RequestsKept
  <2> QED
    BY <2>1, RequestsStay DEF RInv
<1>3. MarkersOK'
  BY <1>1 DEF RInv, MarkersOK, MarkerOK, ResidentAt, At
<1>4. FlushOK'
  BY <1>1 DEF RInv, FlushOK, Flushing, InGate
<1> QED
  BY <1>2, <1>3, <1>4 DEF RInv

(***************************************************************************)
(* Requests, markers and the flush are in order in every reachable state.  *)
(***************************************************************************)
THEOREM RequestsInductive == Spec => [](IInv /\ RInv)
<1>1. IInv /\ IInv' /\ RInv /\ [Next]_poolVars => RInv'
  BY StepRest, StutterRest DEF Next
<1> QED
  BY <1>1, InitRest, Inductive, PTL DEF Spec

(***************************************************************************)
(* Each accepted prefetch is with its submitter, in the channel or with a  *)
(* worker, once, and pages without a request are in none of them.          *)
(***************************************************************************)
THEOREM PrefetchesAccounted == Spec => []PrefetchAccounting
<1>1. RInv => PrefetchAccounting
  <2> SUFFICES ASSUME RInv, NEW p \in Pages
               PROVE  Cardinality(Handlers(p)) + Cardinality(QueuedTasks(p))
                         = IF p \in pending THEN 1 ELSE 0
    BY DEF PrefetchAccounting, Handlers, QueuedTasks
  <2> HIDE DEF Handlers, QueuedTasks
  <2>1. Cardinality({}) = 0
    BY FS_EmptySet
  <2>2. ASSUME NEW S, Single(S) PROVE Cardinality(S) = 1
    BY <2>2, FS_Singleton DEF Single
  <2>3. \/ p \notin pending /\ Handlers(p) = {} /\ QueuedTasks(p) = {}
        \/ p \in pending /\ Single(Handlers(p)) /\ QueuedTasks(p) = {}
        \/ p \in pending /\ Handlers(p) = {} /\ Single(QueuedTasks(p))
    BY DEF RInv, InFlightOK
  <2> QED
    BY <2>1, <2>2, <2>3
<1> QED
  BY <1>1, RequestsInductive, PTL

(***************************************************************************)
(* A marker never outlives its residency: reusing the frame cannot make it *)
(* count a false prefetch hit.                                             *)
(***************************************************************************)
THEOREM MarkersCurrent == Spec => []MarkerCurrent
<1>1. RInv => MarkerCurrent
  BY DEF RInv, MarkersOK, MarkerOK, MarkerCurrent
<1> QED
  BY <1>1, RequestsInductive, PTL

=============================================================================
