-------------------------- MODULE PoolDataProofs --------------------------
(***************************************************************************)
(* Where the bytes of a page are, for any number of threads, frames, pages *)
(* and slots: which tier slots are live and why, that a clean frame agrees *)
(* with its page's backing slot, that a fault reads the slot its page is   *)
(* in, that a snapshot that validates is current, and that the pool        *)
(* implements PageStore.                                                   *)
(***************************************************************************)
EXTENDS PoolProofs

\* Where an evictor has published the location it wrote and must still free
\* the one it replaced.
EvictPublished == {"ev_unswizzle", "ev_free"} \cup EvictDetached
SlotPlaces == {"ev_publish"} \cup EvictPublished

\* t has allocated s and not published it yet, or has still to free it.
Owes(t, s) ==
    \/ th[t].pc = "ev_publish" /\ th[t].new = s
    \/ th[t].pc \in EvictPublished /\ th[t].new # None /\ th[t].old = s

\* Every canonical page outside DRAM is backed, by a live slot of its own, ...
BackingOK ==
    /\ \A p \in Pages : directory[p] # None => p \in pages /\ slots[directory[p]] # None
    /\ \A p \in pages : swip[p] = Evicted => directory[p] # None
    /\ \A p, q \in Pages : p # q /\ directory[p] # None => directory[p] # directory[q]

\* ... and the other live slots are owed by one evictor each.
OwedOK ==
    /\ \A t \in Threads, s \in Slots :
          Owes(t, s) => slots[s] # None /\ \A p \in Pages : directory[p] # s
    /\ \A t, u \in Threads, s \in Slots : Owes(t, s) /\ Owes(u, s) => t = u
    /\ \A s \in Slots :
          slots[s] # None => (\E p \in Pages : directory[p] = s) \/ \E t \in Threads : Owes(t, s)

\* A frame that is not dirty agrees with its page's backing slot.
Agrees(p, f) == directory[p] # None /\ slots[directory[p]] = frames[f].data
CleanOK ==
    \A p \in Pages, f \in Frames : ResidentAt(p, f) /\ ~frames[f].dirty => Agrees(p, f)

\* Only pages' contents are stored, and a latched frame has no snapshot.
StoredOK ==
    /\ \A f \in Frames : frames[f].data \in Values
    /\ \A s \in Slots : slots[s] \in Values \cup {None}
    /\ \A f \in Frames : frames[f].writer # None => frames[f].snaps = {}

\* What evict_ticket knows of the page it writes back.
EvictData(t) ==
    LET pc == th[t].pc
        k == th[t].ticket
    IN
    /\ pc \in {"ev_write", "ev_publish"} => k.pid \in pages /\ th[t].old = directory[k.pid]
    /\ pc = "ev_publish" =>
          IF th[t].new = None THEN ~frames[k.frame].dirty
          ELSE slots[th[t].new] = frames[k.frame].data
    /\ pc = "ev_unswizzle" => ~frames[k.frame].dirty
    /\ pc \notin SlotPlaces => th[t].new = None

\* What a leader knows of the slot it has looked up, ...
LeadPlaces == AcquirePlaces \cup FillPlaces \cup {"marker"}
SourceData(t) ==
    LET pc == th[t].pc
        p == th[t].page
    IN
    /\ th[t].src # None =>
          /\ th[t].op \in FixOps \cup {"prefetch"}
          /\ pc \in LeadPlaces \cup UndoPlaces \cup {"unpin", "land"}
    /\ th[t].src # None /\ pc \notin {"unpin", "land"} =>
          leader[p] = t /\ swip[p] = Evicted /\ th[t].src = directory[p]
    /\ th[t].op \in FixOps \cup {"prefetch"} /\ pc \in LeadPlaces => th[t].src # None
    /\ pc = "unpin" => ResidentAt(p, th[t].frame)

\* ... and of the frame it has read it into.
HeldPlaces == {"install", "publish"} \cup Published
FillData(t) ==
    LET pc == th[t].pc
        f == th[t].frame
    IN
    /\ pc \in HeldPlaces =>
          IF th[t].op = "alloc" THEN frames[f].data = 0 ELSE Agrees(th[t].page, f)
    /\ pc \in {"publish"} \cup Published => frames[f].dirty = (th[t].op = "alloc")

\* A snapshot that will validate is the page.
SnapPlaces == {"captured", "unpinned", "snapshot", "validate"}
SnapData(t) ==
    /\ th[t].snap \in Values \cup {None}
    /\ th[t].snap # None =>
          /\ th[t].pc \in SnapPlaces
          /\ t \in frames[th[t].frame].snaps =>
                ResidentAt(th[t].page, th[t].frame) /\ frames[th[t].frame].data = th[t].snap

ThreadData(t) == EvictData(t) /\ SourceData(t) /\ FillData(t) /\ SnapData(t)

\* The part of the invariant about bytes and slots.
DInv ==
    /\ BackingOK
    /\ OwedOK
    /\ CleanOK
    /\ StoredOK
    /\ \A t \in Threads : ThreadData(t)

-----------------------------------------------------------------------------
\* A step of t that writes no slot and moves no page.
PagesGrow == pages \subseteq pages' /\ \A p \in pages' \ pages : swip[p] # Evicted
FrameStill(t, f) ==
    /\ \/ frames'[f].data = frames[f].data /\ frames'[f].dirty = frames[f].dirty
       \/ f \in OwnedBy(th[t])
    /\ frames'[f].data \in Values
    /\ frames'[f].snaps \ {t} \subseteq frames[f].snaps
    /\ frames'[f].writer # None => frames'[f].snaps = {}
Still(t) ==
    /\ Moves(t) /\ UNCHANGED tiers /\ HomesKept /\ PagesGrow
    /\ \A p \in Pages : leader'[p] = leader[p] \/ leader[p] \in {None, t}
    /\ \A f \in Frames : FrameStill(t, f)
OwesKept(t) == \A s \in Slots : Owes(t, s)' <=> Owes(t, s)

(***************************************************************************)
(* An evictor's page stays what it was under another thread's step.        *)
(***************************************************************************)
LEMMA EvictDataStays ==
    ASSUME IInv, DInv, NEW t \in Threads, Still(t), NEW u \in Threads \ {t}
    PROVE  EvictData(u)'
<1>1. EvictData(u) /\ EvictorOK(u) /\ Backed(u)
  BY Needs DEF IInv, DInv, ThreadData, ThreadOK
<1>2. th'[u] = th[u] /\ UNCHANGED <<directory, slots>> /\ pages \subseteq pages'
  BY DEF Still, Moves, tiers, PagesGrow
<1>3. PICK k : k = th[u].ticket
  OBVIOUS
<1>4. ASSUME th[u].pc \in {"ev_publish", "ev_unswizzle"}
      PROVE  /\ frames'[k.frame].data = frames[k.frame].data
             /\ frames'[k.frame].dirty = frames[k.frame].dirty
  <2>1. k.pid \in Pages /\ k.frame \in Frames
    BY <1>1, <1>3, <1>4 DEF Backed, EvictPlaces, EvictReserved
  <2>2. ResidentAt(k.pid, k.frame)
    BY <1>1, <1>3, <1>4 DEF EvictorOK, ResidentAt
  <2>3. k.frame \notin OwnedBy(th[t])
    BY <2>1, <2>2, OneOwner
  <2> QED
    BY <2>1, <2>3 DEF Still, FrameStill
<1> QED
  BY <1>1, <1>2, <1>3, <1>4 DEF EvictData

(***************************************************************************)
(* So does the slot a leader has looked up.                                *)
(***************************************************************************)
LEMMA SourceDataStays ==
    ASSUME IInv, IInv', DInv, NEW t \in Threads, Still(t), NEW u \in Threads \ {t}
    PROVE  SourceData(u)'
<1>1. SourceData(u) /\ Backed(u)
  BY Needs DEF IInv, DInv, ThreadData, ThreadOK
<1>2. th'[u] = th[u] /\ UNCHANGED directory /\ HomesKept
  BY DEF Still, Moves, tiers
<1>3. PICK p, f : p = th[u].page /\ f = th[u].frame
  OBVIOUS
<1>4. th[u].src # None => p \in Pages
  BY <1>1, <1>3 DEF SourceData, Backed
<1>5. th[u].src # None /\ th[u].pc \notin {"unpin", "land"} =>
          leader'[p] = u /\ swip'[p] = Evicted /\ th[u].src = directory[p]
  <2> SUFFICES ASSUME th[u].src # None, th[u].pc \notin {"unpin", "land"}
               PROVE  leader'[p] = u /\ swip'[p] = Evicted /\ th[u].src = directory[p]
    OBVIOUS
  <2>1. leader[p] = u /\ swip[p] = Evicted /\ th[u].src = directory[p]
    BY <1>1, <1>3 DEF SourceData
  <2>2. u # None
    BY PoolAssumption
  <2> QED
    BY <1>4, <2>1, <2>2 DEF Still, HomesKept
<1>6. th[u].pc = "unpin" => swip'[p] \in {Hot(f), Cooling(f)}
  <2> SUFFICES ASSUME th[u].pc = "unpin" PROVE swip'[p] \in {Hot(f), Cooling(f)}
    OBVIOUS
  <2>1. ResidentAt(p, f)
    BY <1>1, <1>3 DEF SourceData
  <2>2. th[u].op \in FixOps \cup {"prefetch"}
    <3>1. PlaceOK(u) /\ th[u].op \in Operations \cup {None}
      BY DEF IInv, ThreadOK, TypedOver, LocalsOver
    <3> QED
      BY <3>1 DEF PlaceOK, Operations, FixOps, AcquirePlaces, EvictPlaces, EvictReserved, FillPlaces,
         UndoPlaces
  <2>3. p \in Pages /\ f \in Frames
    BY <1>1, <1>3, <2>2 DEF Backed
  <2>4. (\E D : TypedOver(D))'
    BY DEF IInv
  <2> QED
    BY <1>2, <2>1, <2>3, <2>4, SwipsStay DEF ResidentAt
<1> QED
  BY <1>1, <1>2, <1>3, <1>5, <1>6 DEF SourceData, ResidentAt

(***************************************************************************)
(* So do the bytes read into another thread's frame.                       *)
(***************************************************************************)
LEMMA FillDataStays ==
    ASSUME IInv, DInv, NEW t \in Threads, Still(t), NEW u \in Threads \ {t}
    PROVE  FillData(u)'
<1>1. FillData(u) /\ Backed(u)
  BY Needs DEF IInv, DInv, ThreadData, ThreadOK
<1>2. th'[u] = th[u] /\ UNCHANGED <<directory, slots>>
  BY DEF Still, Moves, tiers
<1>3. PICK f : f = th[u].frame
  OBVIOUS
<1>4. ASSUME th[u].pc \in HeldPlaces
      PROVE  frames'[f].data = frames[f].data /\ frames'[f].dirty = frames[f].dirty
  <2>1. f \in Frames
    BY <1>1, <1>3, <1>4 DEF Backed, Reserved, HeldPlaces
  <2>2. f \in OwnedBy(th[u])
    BY <1>3, <1>4, <2>1 DEF OwnedBy, Reserved, HeldPlaces
  <2>3. f \notin OwnedBy(th[t])
    BY <2>1, <2>2, OneOwner
  <2> QED
    BY <2>1, <2>3 DEF Still, FrameStill
<1> QED
  BY <1>1, <1>2, <1>3, <1>4 DEF FillData, Agrees, HeldPlaces

(***************************************************************************)
(* And so does another thread's snapshot.                                  *)
(***************************************************************************)
LEMMA SnapDataStays ==
    ASSUME IInv, IInv', DInv, NEW t \in Threads, Still(t), NEW u \in Threads \ {t}
    PROVE  SnapData(u)'
<1>1. SnapData(u) /\ Backed(u) /\ PlaceOK(u)
  BY Needs DEF IInv, DInv, ThreadData, ThreadOK
<1>2. th'[u] = th[u] /\ HomesKept
  BY DEF Still, Moves
<1>3. PICK p, f : p = th[u].page /\ f = th[u].frame
  OBVIOUS
<1>4. ASSUME th[u].snap # None, u \in frames'[f].snaps
      PROVE  swip'[p] \in {Hot(f), Cooling(f)} /\ frames'[f].data = th[u].snap
  <2>1. f \in Frames
    BY <1>1, <1>3, <1>4 DEF SnapData, SnapPlaces, Backed, Fixing, GuardPlaces
  <2>2. u \in frames[f].snaps
    BY <1>4, <2>1 DEF Still, FrameStill
  <2>3. ResidentAt(p, f) /\ frames[f].data = th[u].snap
    BY <1>1, <1>3, <1>4, <2>2 DEF SnapData
  <2>4. p \in Pages
    <3>1. \E D : TypedOver(D)
      BY DEF IInv
    <3>2. th[u].op \in Operations \cup {None} /\ p \in Pages \cup {None} /\ swip \in [Pages -> SwipStates]
      BY <1>3, <3>1 DEF TypedOver, SharedOver, LocalsOver
    <3>3. th[u].op \in FixOps
      BY <1>1, <1>4, <3>2 DEF SnapData, SnapPlaces, PlaceOK, Operations, FixOps, AcquirePlaces,
         EvictPlaces, EvictReserved, FillPlaces, UndoPlaces, TaskPlaces, Fixing
    <3> QED
      BY <1>1, <1>3, <3>3 DEF Backed
  <2>5. f \notin OwnedBy(th[t])
    BY <2>1, <2>3, <2>4, OneOwner
  <2>6. (\E D : TypedOver(D))'
    BY DEF IInv
  <2> QED
    BY <1>2, <2>1, <2>3, <2>4, <2>5, <2>6, SwipsStay DEF ResidentAt, Still, FrameStill
<1> QED
  BY <1>1, <1>2, <1>3, <1>4 DEF SnapData, ResidentAt

-----------------------------------------------------------------------------
\* A page's value, wherever its bytes are.
ValueOf(p) ==
    IF swip[p] # Evicted THEN frames[swip[p].frame].data
    ELSE IF directory[p] # None THEN slots[directory[p]] ELSE None

(***************************************************************************)
(* The value of a resident page is in its frame.                           *)
(***************************************************************************)
LEMMA PageValue ==
    ASSUME IInv, IInv', NEW p \in Pages
    PROVE  /\ \A f : ResidentAt(p, f) => ValueOf(p) = frames[f].data
           /\ \A f : ResidentAt(p, f)' => ValueOf(p)' = frames'[f].data
           /\ swip[p] # Evicted => \E f \in Frames : ResidentAt(p, f)
           /\ swip'[p] # Evicted => \E f \in Frames : ResidentAt(p, f)'
<1>1. (\E D : SharedOver(D)) /\ (\E D : SharedOver(D))'
  BY DEF IInv, TypedOver
<1>2. swip[p] \in SwipStates /\ swip'[p] \in SwipStates
  BY <1>1 DEF SharedOver
<1>3. \A f : ResidentAt(p, f) => swip[p] # Evicted /\ swip[p].frame = f
  BY DEF ResidentAt, Evicted, Hot, Cooling
<1>4. \A f : ResidentAt(p, f)' => swip'[p] # Evicted /\ swip'[p].frame = f
  BY DEF ResidentAt, Evicted, Hot, Cooling
<1>5. swip[p] # Evicted => \E f \in Frames : ResidentAt(p, f)
  BY <1>2 DEF SwipStates, ResidentAt, Hot, Cooling
<1>6. swip'[p] # Evicted => \E f \in Frames : ResidentAt(p, f)'
  BY <1>2 DEF SwipStates, ResidentAt, Hot, Cooling
<1> QED
  BY <1>3, <1>4, <1>5, <1>6 DEF ValueOf

(***************************************************************************)
(* What the pool stores is each page's value.                              *)
(***************************************************************************)
LEMMA Bars ==
    /\ valueBar = [p \in Pages |-> ValueOf(p)]
    /\ valueBar' = [p \in Pages |-> ValueOf(p)']
  BY DEF valueBar, ValueOf

(***************************************************************************)
(* A step that writes no slot, moves no page and owes what it owed keeps   *)
(* the invariant when its own thread's data are in order, and every page   *)
(* has the value it had.                                                   *)
(***************************************************************************)
LEMMA StillKeeps ==
    ASSUME IInv, IInv', DInv, NEW t \in Threads, Still(t), OwesKept(t), ThreadData(t)'
    PROVE  DInv' /\ UNCHANGED valueBar
<1>1. (\E D : TypedOver(D))' /\ HomesKept
  BY DEF IInv, Still
<1>2. UNCHANGED <<directory, slots>> /\ \A u \in Threads \ {t} : th'[u] = th[u]
  BY DEF Still, Moves, tiers
<1>3. BackingOK'
  <2>1. \A p \in Pages : swip'[p] = Evicted <=> swip[p] = Evicted
    BY <1>1, SwipsStay
  <2>2. pages' \subseteq Pages
    BY <1>1 DEF TypedOver, SharedOver
  <2> QED
    BY <1>2, <2>1, <2>2 DEF DInv, BackingOK, Still, PagesGrow
<1>4. OwedOK'
  <2>1. ASSUME NEW u \in Threads, NEW s \in Slots PROVE Owes(u, s)' <=> Owes(u, s)
    <3>1. CASE u = t
      BY <3>1 DEF OwesKept
    <3>2. CASE u # t
      BY <1>2, <3>2 DEF Owes
    <3> QED
      BY <3>1, <3>2
  <2>2. OwedOK
    BY DEF DInv
  <2> HIDE DEF Owes
  <2> QED
    BY <1>2, <2>1, <2>2 DEF OwedOK
<1>5. CleanOK'
  <2> SUFFICES ASSUME NEW p \in Pages, NEW f \in Frames, ResidentAt(p, f)', ~frames'[f].dirty
               PROVE  Agrees(p, f)'
    BY DEF CleanOK
  <2>1. ResidentAt(p, f)
    BY <1>1, SwipsStay DEF ResidentAt
  <2>2. f \notin OwnedBy(th[t])
    BY <2>1, OneOwner
  <2>3. frames'[f].data = frames[f].data /\ frames'[f].dirty = frames[f].dirty
    BY <2>2 DEF Still, FrameStill
  <2> QED
    BY <1>2, <2>1, <2>3 DEF DInv, CleanOK, Agrees
<1>6. StoredOK'
  BY <1>2 DEF DInv, StoredOK, Still, FrameStill
<1>7. ASSUME NEW u \in Threads PROVE ThreadData(u)'
  <2>1. CASE u # t
    BY <2>1, EvictDataStays, SourceDataStays, FillDataStays, SnapDataStays DEF ThreadData
  <2> QED
    BY <2>1
<1>8. ASSUME NEW p \in Pages PROVE ValueOf(p)' = ValueOf(p)
  <2>1. CASE swip[p] = Evicted
    <3>1. swip'[p] = Evicted
      BY <1>1, <2>1, SwipsStay
    <3> QED
      BY <1>2, <2>1, <3>1 DEF ValueOf
  <2>2. CASE swip[p] # Evicted
    <3>1. PICK f \in Frames : ResidentAt(p, f)
      BY <2>2, PageValue
    <3>2. ResidentAt(p, f)'
      BY <1>1, <3>1, SwipsStay DEF ResidentAt
    <3>3. frames'[f].data = frames[f].data
      BY <3>1, OneOwner DEF Still, FrameStill
    <3> QED
      BY <3>1, <3>2, <3>3, PageValue
  <2> QED
    BY <2>1, <2>2
<1>9. UNCHANGED valueBar
  <2> HIDE DEF ValueOf
  <2> QED
    BY <1>8, Bars
<1> QED
  BY <1>3, <1>4, <1>5, <1>6, <1>7, <1>9 DEF DInv

-----------------------------------------------------------------------------
\* A step that touches no slot, no frame's bytes and no snapshot of its own.
Plain(t) ==
    /\ Moves(t)
    /\ th[t].pc \notin SlotPlaces \cup SnapPlaces
    /\ th'[t].pc \notin SlotPlaces \cup HeldPlaces \cup {"ev_write", "unpin"}
    /\ th'[t].new \in {None, th[t].new} /\ th'[t].snap \in {None, th[t].snap}

\* It keeps the slot it has looked up, or has none.
SourceKept(t) ==
    /\ leader'[th[t].page] = leader[th[t].page]
    /\ th'[t].op = th[t].op /\ th'[t].page = th[t].page /\ th'[t].src = th[t].src
    /\ th[t].pc \notin {"unpin", "land"}
    /\ th[t].src # None => th'[t].pc \in LeadPlaces \cup UndoPlaces \cup {"land"}
    /\ th[t].op \in FixOps \cup {"prefetch"} /\ th'[t].pc \in LeadPlaces => th[t].pc \in LeadPlaces
SourceGone(t) ==
    /\ th'[t].src = None
    /\ th'[t].op \in FixOps \cup {"prefetch"} => th'[t].pc \notin LeadPlaces

(***************************************************************************)
(* A leader that moves on keeps the slot it has looked up.                 *)
(***************************************************************************)
LEMMA SourceStays ==
    ASSUME IInv, DInv, NEW t \in Threads, Still(t), SourceKept(t) \/ SourceGone(t),
           th'[t].pc # "unpin"
    PROVE  SourceData(t)'
<1>1. SourceData(t) /\ Backed(t)
  BY Needs DEF IInv, DInv, ThreadData, ThreadOK
<1>2. UNCHANGED directory /\ HomesKept
  BY DEF Still, tiers
<1>3. CASE SourceGone(t)
  BY <1>3 DEF SourceGone, SourceData
<1>4. CASE SourceKept(t)
  <2>1. th'[t].op = th[t].op /\ th'[t].page = th[t].page /\ th'[t].src = th[t].src
    BY <1>4 DEF SourceKept
  <2>2. PICK p : p = th[t].page
    OBVIOUS
  <2>3. ASSUME th[t].src # None, th'[t].pc # "land"
        PROVE  leader'[p] = t /\ swip'[p] = Evicted /\ th[t].src = directory[p]
    <3>1. leader[p] = t /\ swip[p] = Evicted /\ th[t].src = directory[p]
      BY <1>1, <1>4, <2>2, <2>3 DEF SourceData, SourceKept
    <3>2. p \in Pages
      BY <1>1, <2>2, <2>3 DEF SourceData, Backed
    <3> QED
      BY <1>2, <1>4, <2>2, <3>1, <3>2 DEF HomesKept, SourceKept
  <2>4. th'[t].op \in FixOps \cup {"prefetch"} /\ th'[t].pc \in LeadPlaces => th'[t].src # None
    BY <1>1, <1>4 DEF SourceData, SourceKept
  <2>5. th'[t].src # None =>
          /\ th'[t].op \in FixOps \cup {"prefetch"}
          /\ th'[t].pc \in LeadPlaces \cup UndoPlaces \cup {"unpin", "land"}
    BY <1>1, <1>4 DEF SourceData, SourceKept
  <2> QED
    BY <1>2, <2>1, <2>2, <2>3, <2>4, <2>5 DEF SourceData
<1> QED
  BY <1>3, <1>4

(***************************************************************************)
(* Such a step keeps the invariant.                                        *)
(***************************************************************************)
LEMMA PlainKeeps ==
    ASSUME IInv, IInv', DInv, NEW t \in Threads, Still(t), Plain(t), SourceKept(t) \/ SourceGone(t)
    PROVE  DInv' /\ UNCHANGED valueBar
<1>1. ThreadData(t)
  BY DEF DInv
<1>2. th'[t].new = None /\ th'[t].snap = None
  BY <1>1 DEF Plain, ThreadData, EvictData, SnapData
<1>3. OwesKept(t)
  BY DEF Plain, OwesKept, Owes, SlotPlaces
<1>4. EvictData(t)'
  BY <1>2 DEF Plain, EvictData, SlotPlaces, EvictPublished
<1>5. SourceData(t)'
  BY SourceStays DEF Plain
<1>6. FillData(t)'
  BY DEF Plain, FillData, HeldPlaces
<1>7. SnapData(t)'
  BY <1>2 DEF SnapData
<1> QED
  BY <1>3, <1>4, <1>5, <1>6, <1>7, StillKeeps DEF ThreadData

(***************************************************************************)
(* A step that touches neither pages nor frames leaves the data alone.     *)
(***************************************************************************)
LEMMA StillApart ==
    ASSUME DInv, NEW t \in Threads, Moves(t), UNCHANGED <<swip, pages, frames, directory, slots>>,
           \A p \in Pages : leader'[p] = leader[p] \/ leader[p] \in {None, t}
    PROVE  Still(t)
<1>1. HomesKept /\ PagesGrow
  BY DEF HomesKept, PagesGrow
<1>2. \A f \in Frames : FrameStill(t, f)
  BY DEF FrameStill, DInv, StoredOK
<1> QED
  BY <1>1, <1>2 DEF Still, tiers

(***************************************************************************)
(* So does one that changes a frame's metadata.                            *)
(***************************************************************************)
LEMMA StillFrame ==
    ASSUME IInv, DInv, NEW t \in Threads, Moves(t), UNCHANGED <<swip, pages, directory, slots, leader>>,
           NEW f \in Frames, NEW r, frames' = [frames EXCEPT ![f] = r],
           (r.data = frames[f].data /\ r.dirty = frames[f].dirty) \/ f \in OwnedBy(th[t]),
           r.data \in Values, r.snaps \ {t} \subseteq frames[f].snaps,
           r.writer # None => r.snaps = {}
    PROVE  Still(t)
<1>1. HomesKept /\ PagesGrow
  BY DEF HomesKept, PagesGrow
<1>2. \E D : frames \in [Frames -> FrameOver(D)]
  BY DEF IInv, TypedOver, SharedOver
<1>3. \A g \in Frames : frames'[g] = IF g = f THEN r ELSE frames[g]
  BY <1>2
<1>4. \A g \in Frames : FrameStill(t, g)
  BY <1>3 DEF FrameStill, DInv, StoredOK
<1> QED
  BY <1>1, <1>4 DEF Still, tiers

(***************************************************************************)
(* Pins.                                                                   *)
(***************************************************************************)
LEMMA StillPin ==
    ASSUME IInv, DInv, NEW t \in Threads, Moves(t), UNCHANGED <<swip, pages, directory, slots, leader>>,
           NEW f \in Frames, NEW v, frames' = [frames EXCEPT ![f].pin = v]
    PROVE  Still(t)
<1> DEFINE r == [frames[f] EXCEPT !.pin = v]
<1>1. PICK D : frames \in [Frames -> FrameOver(D)]
  BY DEF IInv, TypedOver, SharedOver
<1>2. /\ r.data = frames[f].data /\ r.dirty = frames[f].dirty
      /\ r.writer = frames[f].writer /\ r.snaps = frames[f].snaps
  BY <1>1 DEF FrameOver
<1>3. frames' = [frames EXCEPT ![f] = r]
  OBVIOUS
<1> HIDE DEF r
<1> QED
  BY <1>2, <1>3, StillFrame DEF DInv, StoredOK

(***************************************************************************)
(* Latches.                                                                *)
(***************************************************************************)
LEMMA StillLatch ==
    ASSUME IInv, DInv, NEW t \in Threads, Moves(t), UNCHANGED <<swip, pages, directory, slots, leader>>,
           NEW f \in Frames,
           \/ LockExclusive(t, f)
           \/ CanLockShared(f) /\ LockShared(t, f)
           \/ Unlock(t, f)
    PROVE  Still(t)
<1>1. PICK D : frames \in [Frames -> FrameOver(D)]
  BY DEF IInv, TypedOver, SharedOver
<1>2. CASE LockExclusive(t, f)
  <2> DEFINE r == [frames[f] EXCEPT !.writer = t, !.snaps = {}]
  <2>1. r.data = frames[f].data /\ r.dirty = frames[f].dirty /\ r.snaps = {}
    BY <1>1 DEF FrameOver
  <2>2. frames' = [frames EXCEPT ![f] = r]
    BY <1>2 DEF LockExclusive
  <2> HIDE DEF r
  <2> QED
    BY <2>1, <2>2, StillFrame DEF DInv, StoredOK
<1>3. CASE CanLockShared(f) /\ LockShared(t, f)
  <2> DEFINE r == [frames[f] EXCEPT !.readers = @ \cup {t}]
  <2>1. /\ r.data = frames[f].data /\ r.dirty = frames[f].dirty
        /\ r.snaps = frames[f].snaps /\ r.writer = None
    BY <1>1, <1>3 DEF FrameOver, CanLockShared
  <2>2. frames' = [frames EXCEPT ![f] = r]
    BY <1>3 DEF LockShared
  <2> HIDE DEF r
  <2> QED
    BY <2>1, <2>2, StillFrame DEF DInv, StoredOK
<1>4. CASE Unlock(t, f)
  <2> DEFINE r == [frames[f] EXCEPT !.readers = @ \ {t}, !.writer = IF @ = t THEN None ELSE @]
  <2>1. /\ r.data = frames[f].data /\ r.dirty = frames[f].dirty
        /\ r.snaps = frames[f].snaps /\ r.writer \in {None, frames[f].writer}
    BY <1>1 DEF FrameOver
  <2>2. frames' = [frames EXCEPT ![f] = r]
    BY <1>4 DEF Unlock
  <2> HIDE DEF r
  <2> QED
    BY <2>1, <2>2, StillFrame DEF DInv, StoredOK
<1> QED
  BY <1>2, <1>3, <1>4

(***************************************************************************)
(* A page marked as cooling, or resurrected.                               *)
(***************************************************************************)
LEMMA StillSwip ==
    ASSUME DInv, NEW t \in Threads, Moves(t), UNCHANGED <<pages, frames, directory, slots, leader>>,
           HomesKept
    PROVE  Still(t)
<1>1. \A f \in Frames : FrameStill(t, f)
  BY DEF FrameStill, DInv, StoredOK
<1> QED
  BY <1>1 DEF Still, tiers, PagesGrow


\* A step of t that keeps its operation, its page and what it knows of slots,
\* but for a slot it is done with; one that forgets all of that; and the end
\* of the call.
Carries(t) ==
    /\ Moves(t)
    /\ th'[t].op = th[t].op /\ th'[t].page = th[t].page /\ th'[t].src = th[t].src
    /\ th'[t].new \in {None, th[t].new} /\ th'[t].snap = th[t].snap
Sheds(t) ==
    /\ Moves(t)
    /\ th'[t].src = None
    /\ th'[t].new \in {None, th[t].new} /\ th'[t].snap \in {None, th[t].snap}
Ended(t) == Moves(t) /\ th'[t] = Idle

(***************************************************************************)
(* A call that gets no frame ends, or its flight lands with an error.      *)
(***************************************************************************)
LEMMA FailEnds ==
    ASSUME NEW D, th \in [Threads -> LocalsOver(D)], NEW t \in Threads, FailAcquire(t)
    PROVE  \/ Ended(t)
           \/ Carries(t) /\ th'[t].pc = "land" /\ th[t].op # "alloc"
<1>1. CASE th[t].op = "alloc"
  BY <1>1 DEF FailAcquire, Ended, Moves
<1>2. CASE th[t].op # "alloc"
  BY <1>2 DEF FailAcquire, Carries, Moves, LocalsOver
<1> QED
  BY <1>1, <1>2

(***************************************************************************)
(* After a fault a call forgets the slot, and tries again or is over.      *)
(***************************************************************************)
LEMMA AfterFaultForgets ==
    ASSUME NEW D, th \in [Threads -> LocalsOver(D)], NEW t \in Threads, NEW result, NEW l,
           l = AfterFault(t, result)
    PROVE  /\ l.src = None /\ l.new \in {None, th[t].new} /\ l.snap \in {None, th[t].snap}
           /\ l.pc \in {"idle", "load", "unreserve", "undo_release"}
<1>1. CASE th[t].op = "prefetch"
  BY <1>1 DEF AfterFault, LocalsOver
<1>2. CASE th[t].op # "prefetch" /\ result = "ok"
  BY <1>2 DEF AfterFault, LocalsOver
<1>3. CASE th[t].op # "prefetch" /\ result # "ok"
  BY <1>3 DEF AfterFault, Idle
<1> QED
  BY <1>1, <1>2, <1>3

(***************************************************************************)
(* So does the thread that takes that step.                                *)
(***************************************************************************)
LEMMA FaultSheds ==
    ASSUME NEW D, th \in [Threads -> LocalsOver(D)], NEW t \in Threads, NEW result,
           Moves(t), th'[t] = AfterFault(t, result)
    PROVE  Sheds(t) /\ th'[t].pc \in {"idle", "load", "unreserve", "undo_release"}
<1>1. PICK l : l = AfterFault(t, result)
  OBVIOUS
<1> QED
  BY <1>1, AfterFaultForgets DEF Sheds

(***************************************************************************)
(* Sampling, and a ticket that is stale or busy, move no data.             *)
(***************************************************************************)
LEMMA SampleData ==
    ASSUME IInv, IInv', DInv, NEW t \in Threads,
           \/ SampleDone(t) \/ SampleFrame(t) \/ EnqueueCandidate(t) \/ EvictCheck(t)
           \/ EvictBusy(t)
    PROVE  DInv' /\ UNCHANGED valueBar
<1> USE DEF SlotPlaces, SnapPlaces, HeldPlaces, EvictPublished, EvictDetached, Published, LeadPlaces,
            AcquirePlaces, EvictPlaces, EvictReserved, FillPlaces, UndoPlaces, FixOps
<1>1. PICK D : TypedOver(D)
  BY DEF IInv
<1>2. th \in [Threads -> LocalsOver(D)]
  BY <1>1 DEF TypedOver
<1>3. ThreadOK(t) /\ Backed(t) /\ SourceData(t) /\ SnapData(t)
  BY Needs DEF IInv, DInv, ThreadData
<1>4. CASE SampleDone(t)
  <2>1. /\ th[t].pc = "sample"
        /\ UNCHANGED <<swip, pages, frames, directory, slots, leader>>
    BY <1>4 DEF SampleDone, At, Starts, pageVars, queues, tiers, prefetchVars
  <2>2. Carries(t) /\ th'[t].pc = "take"
    BY <1>2, <1>4 DEF SampleDone, At, Goto, Leave, Carries, Moves, LocalsOver
  <2>3. Still(t)
    BY <2>1, <2>2, StillApart DEF Carries
  <2> QED
    BY <1>3, <2>1, <2>2, <2>3, PlainKeeps DEF Plain, SourceKept, SourceGone, Carries,
       SourceData, ThreadOK, PlaceOK, Idle
<1>5. CASE SampleFrame(t)
  <2>0. PICK f \in th[t].cand :
            th' = IF frames[f].pin = 0 /\ frames[f].pid # None
                  THEN [th EXCEPT ![t].pc = "mark", ![t].cand = @ \ {f},
                                  ![t].ticket = Ticket(f, frames[f].pid)]
                  ELSE [th EXCEPT ![t].cand = @ \ {f}]
    BY <1>5 DEF SampleFrame
  <2>1. /\ th[t].pc = "sample"
        /\ UNCHANGED <<swip, pages, frames, directory, slots, leader>>
    BY <2>0, <1>5 DEF SampleFrame, At, Starts, pageVars, queues, tiers, prefetchVars
  <2>2. Carries(t) /\ th'[t].pc \in {"sample", "mark"}
    <3>1. CASE frames[f].pin = 0 /\ frames[f].pid # None
      BY <1>2, <2>0, <3>1, <2>1 DEF At, Goto, Leave, Carries, Moves, LocalsOver
    <3>2. CASE ~(frames[f].pin = 0 /\ frames[f].pid # None)
      BY <1>2, <2>0, <3>2, <2>1 DEF At, Goto, Leave, Carries, Moves, LocalsOver
    <3> QED
      BY <3>1, <3>2
  <2>3. Still(t)
    BY <2>1, <2>2, StillApart DEF Carries
  <2> QED
    BY <1>3, <2>1, <2>2, <2>3, PlainKeeps DEF Plain, SourceKept, SourceGone, Carries,
       SourceData, ThreadOK, PlaceOK, Idle
<1>6. CASE EnqueueCandidate(t)
  <2>1. /\ th[t].pc = "enqueue"
        /\ UNCHANGED <<swip, pages, frames, directory, slots, leader>>
    BY <1>6 DEF EnqueueCandidate, At, Starts, pageVars, queues, tiers, prefetchVars
  <2>2. Carries(t) /\ th'[t].pc = "sample"
    BY <1>2, <1>6 DEF EnqueueCandidate, At, Goto, Leave, Carries, Moves, LocalsOver
  <2>3. Still(t)
    BY <2>1, <2>2, StillApart DEF Carries
  <2> QED
    BY <1>3, <2>1, <2>2, <2>3, PlainKeeps DEF Plain, SourceKept, SourceGone, Carries,
       SourceData, ThreadOK, PlaceOK, Idle
<1>7. CASE EvictCheck(t)
  <2>1. /\ th[t].pc = "ev_check"
        /\ UNCHANGED <<swip, pages, frames, directory, slots, leader>>
    BY <1>7 DEF EvictCheck, At, Starts, pageVars, queues, tiers, prefetchVars
  <2>2. /\ Carries(t) /\ th'[t].pc \in {"ev_claim", "sd_failed", "flush", "take"}
        /\ (th'[t].pc \in {"sd_failed", "flush"} => th[t].op = "shutdown")
    BY <1>2, <1>7 DEF EvictCheck, At, Goto, Leave, Carries, Moves, LocalsOver, EvictionReturns,
       AfterEvict
  <2>3. Still(t)
    BY <2>1, <2>2, StillApart DEF Carries
  <2> QED
    BY <1>3, <2>1, <2>2, <2>3, PlainKeeps DEF Plain, SourceKept, SourceGone, Carries,
       SourceData, ThreadOK, PlaceOK, Idle
<1>8. CASE EvictBusy(t)
  <2>1. /\ th[t].pc = "ev_claim"
        /\ UNCHANGED <<swip, pages, frames, directory, slots, leader>>
    BY <1>8 DEF EvictBusy, At, Starts, pageVars, queues, tiers, prefetchVars
  <2>2. /\ Carries(t) /\ th'[t].pc \in {"sd_failed", "flush", "take"}
        /\ (th'[t].pc \in {"sd_failed", "flush"} => th[t].op = "shutdown")
    BY <1>2, <1>8 DEF EvictBusy, At, Goto, Leave, Carries, Moves, LocalsOver, EvictionReturns,
       AfterEvict
  <2>3. Still(t)
    BY <2>1, <2>2, StillApart DEF Carries
  <2> QED
    BY <1>3, <2>1, <2>2, <2>3, PlainKeeps DEF Plain, SourceKept, SourceGone, Carries,
       SourceData, ThreadOK, PlaceOK, Idle
<1> QED
  BY <1>4, <1>5, <1>6, <1>7, <1>8

(***************************************************************************)
(* Nor does the search for a frame.                                        *)
(***************************************************************************)
LEMMA RoundsData ==
    ASSUME IInv, IInv', DInv, NEW t \in Threads,
           \/ AcquireStops(t) \/ AcquirePops(t) \/ AcquireStarts(t) \/ AcquireSamples(t)
           \/ AcquireMisses(t) \/ TakeTicket(t) \/ EndRound(t)
    PROVE  DInv' /\ UNCHANGED valueBar
<1> USE DEF SlotPlaces, SnapPlaces, HeldPlaces, EvictPublished, EvictDetached, Published, LeadPlaces,
            AcquirePlaces, EvictPlaces, EvictReserved, FillPlaces, UndoPlaces, FixOps
<1>1. PICK D : TypedOver(D)
  BY DEF IInv
<1>2. th \in [Threads -> LocalsOver(D)]
  BY <1>1 DEF TypedOver
<1>3. ThreadOK(t) /\ Backed(t) /\ SourceData(t) /\ SnapData(t)
  BY Needs DEF IInv, DInv, ThreadData
<1>4. CASE AcquireStops(t)
  <2>1. /\ th[t].pc \in {"acquire", "round"}
        /\ UNCHANGED <<swip, pages, frames, directory, slots, leader>>
    BY <1>4 DEF AcquireStops, At, pageVars, tiers
  <2>2. \/ Ended(t)
        \/ Carries(t) /\ th'[t].pc = "land" /\ th[t].op # "alloc"
    BY <1>2, <1>4, FailEnds DEF AcquireStops
  <2>3. Still(t)
    BY <2>1, <2>2, StillApart DEF Carries, Ended
  <2> QED
    BY <1>3, <2>1, <2>2, <2>3, PlainKeeps DEF Plain, SourceKept, SourceGone, Carries, Ended,
       SourceData, Idle
<1>5. CASE AcquirePops(t)
  <2>1. /\ th[t].pc \in {"acquire", "round", "freed"}
        /\ UNCHANGED <<swip, pages, frames, directory, slots, leader>>
    BY <1>5 DEF AcquirePops, At, Starts, pageVars, queues, tiers, prefetchVars
  <2>2. Carries(t) /\ th'[t].pc = "claim"
    BY <1>2, <1>5 DEF AcquirePops, At, Goto, Leave, Carries, Moves, LocalsOver
  <2>3. Still(t)
    BY <2>1, <2>2, StillApart DEF Carries
  <2> QED
    BY <1>3, <2>1, <2>2, <2>3, PlainKeeps DEF Plain, SourceKept, SourceGone, Carries,
       SourceData, ThreadOK, PlaceOK, Idle
<1>6. CASE AcquireStarts(t)
  <2>1. /\ th[t].pc = "acquire"
        /\ UNCHANGED <<swip, pages, frames, directory, slots, leader>>
    BY <1>6 DEF AcquireStarts, At, Starts, pageVars, queues, tiers, prefetchVars
  <2>2. Carries(t) /\ th'[t].pc = "round"
    BY <1>2, <1>6 DEF AcquireStarts, At, Goto, Leave, Carries, Moves, LocalsOver
  <2>3. Still(t)
    BY <2>1, <2>2, StillApart DEF Carries
  <2> QED
    BY <1>3, <2>1, <2>2, <2>3, PlainKeeps DEF Plain, SourceKept, SourceGone, Carries,
       SourceData, ThreadOK, PlaceOK, Idle
<1>7. CASE AcquireSamples(t)
  <2>1. /\ th[t].pc = "round"
        /\ UNCHANGED <<swip, pages, frames, directory, slots, leader>>
    BY <1>7 DEF AcquireSamples, At, Starts, pageVars, queues, tiers, prefetchVars
  <2>2. Carries(t) /\ th'[t].pc = "sample"
    BY <1>2, <1>7 DEF AcquireSamples, At, Goto, Leave, Carries, Moves, LocalsOver
  <2>3. Still(t)
    BY <2>1, <2>2, StillApart DEF Carries
  <2> QED
    BY <1>3, <2>1, <2>2, <2>3, PlainKeeps DEF Plain, SourceKept, SourceGone, Carries,
       SourceData, ThreadOK, PlaceOK, Idle
<1>8. CASE AcquireMisses(t)
  <2>1. /\ th[t].pc = "freed"
        /\ UNCHANGED <<swip, pages, frames, directory, slots, leader>>
    BY <1>8 DEF AcquireMisses, At, Starts, pageVars, queues, tiers, prefetchVars
  <2>2. Carries(t) /\ th'[t].pc = "take"
    BY <1>2, <1>8 DEF AcquireMisses, At, Goto, Leave, Carries, Moves, LocalsOver
  <2>3. Still(t)
    BY <2>1, <2>2, StillApart DEF Carries
  <2> QED
    BY <1>3, <2>1, <2>2, <2>3, PlainKeeps DEF Plain, SourceKept, SourceGone, Carries,
       SourceData, ThreadOK, PlaceOK, Idle
<1>9. CASE TakeTicket(t)
  <2>1. /\ th[t].pc = "take"
        /\ UNCHANGED <<swip, pages, frames, directory, slots, leader>>
    BY <1>9 DEF TakeTicket, At, Starts, pageVars, queues, tiers, prefetchVars
  <2>2. Carries(t) /\ th'[t].pc = "ev_check"
    BY <1>2, <1>9 DEF TakeTicket, At, Goto, Leave, Carries, Moves, LocalsOver
  <2>3. Still(t)
    BY <2>1, <2>2, StillApart DEF Carries
  <2> QED
    BY <1>3, <2>1, <2>2, <2>3, PlainKeeps DEF Plain, SourceKept, SourceGone, Carries,
       SourceData, ThreadOK, PlaceOK, Idle
<1>10. CASE EndRound(t)
  <2>1. /\ th[t].pc = "take"
        /\ UNCHANGED <<swip, pages, frames, directory, slots, leader>>
    BY <1>10 DEF EndRound, At, pageVars, tiers
  <2>2. \/ Ended(t)
        \/ Carries(t) /\ th'[t].pc = "round"
        \/ Carries(t) /\ th'[t].pc = "land" /\ th[t].op # "alloc"
    <3>1. CASE th[t].op = "cool"
      BY <1>2, <1>10, <3>1 DEF EndRound, Leave, Ended, Moves
    <3>2. CASE th[t].op # "cool" /\ th[t].rounds > 1
      BY <1>2, <1>10, <3>2 DEF EndRound, Carries, Moves, LocalsOver
    <3>3. CASE th[t].op # "cool" /\ ~(th[t].rounds > 1)
      BY <1>2, <1>10, <3>3, FailEnds DEF EndRound
    <3> QED
      BY <3>1, <3>2, <3>3
  <2>3. Still(t)
    BY <2>1, <2>2, StillApart DEF Carries, Ended
  <2> QED
    BY <1>3, <2>1, <2>2, <2>3, PlainKeeps DEF Plain, SourceKept, SourceGone, Carries, Ended,
       SourceData, Idle
<1> QED
  BY <1>4, <1>5, <1>6, <1>7, <1>8, <1>9, <1>10

(***************************************************************************)
(* Nor does a flight that reads no slot.                                   *)
(***************************************************************************)
LEMMA FlightsData ==
    ASSUME IInv, IInv', DInv, NEW t \in Threads,
           \/ FaultStops(t) \/ FaultFollows(t) \/ FollowerReturns(t) \/ LeadStops(t)
           \/ LeadFindsResident(t) \/ FillFails(t) \/ FaultLeads(t)
    PROVE  DInv' /\ UNCHANGED valueBar
<1> USE DEF SlotPlaces, SnapPlaces, HeldPlaces, EvictPublished, EvictDetached, Published, LeadPlaces,
            AcquirePlaces, EvictPlaces, EvictReserved, FillPlaces, UndoPlaces, FixOps
<1>1. PICK D : TypedOver(D)
  BY DEF IInv
<1>2. th \in [Threads -> LocalsOver(D)]
  BY <1>1 DEF TypedOver
<1>3. ThreadOK(t) /\ Backed(t) /\ SourceData(t) /\ SnapData(t)
  BY Needs DEF IInv, DInv, ThreadData
<1>4. CASE FaultStops(t)
  <2>1. /\ th[t].pc = "fault"
        /\ UNCHANGED <<swip, pages, frames, directory, slots, leader>>
    BY <1>4 DEF FaultStops, At, pageVars, tiers
  <2>2. Moves(t) /\ th'[t] = AfterFault(t, "error")
    BY <1>2, <1>4 DEF FaultStops, Moves
  <2>3. Sheds(t) /\ th'[t].pc \in {"idle", "load", "unreserve", "undo_release"}
    BY <1>2, <1>3, <2>1, <2>2, FaultSheds DEF SnapData
  <2>4. Still(t)
    BY <2>1, <2>2, StillApart
  <2> QED
    BY <2>1, <2>3, <2>4, PlainKeeps DEF Plain, SourceGone, Sheds
<1>5. CASE FaultFollows(t)
  <2>1. /\ th[t].pc = "fault"
        /\ UNCHANGED <<swip, pages, frames, directory, slots, leader>>
    BY <1>5 DEF FaultFollows, At, Starts, pageVars, queues, tiers, prefetchVars
  <2>2. Carries(t) /\ th'[t].pc = "follow"
    BY <1>2, <1>5 DEF FaultFollows, At, Goto, Leave, Carries, Moves, LocalsOver
  <2>3. Still(t)
    BY <2>1, <2>2, StillApart DEF Carries
  <2> QED
    BY <1>3, <2>1, <2>2, <2>3, PlainKeeps DEF Plain, SourceKept, SourceGone, Carries,
       SourceData, ThreadOK, PlaceOK, Idle
<1>6. CASE FollowerReturns(t)
  <2>1. /\ th[t].pc = "answered"
        /\ UNCHANGED <<swip, pages, frames, directory, slots, leader>>
    BY <1>6 DEF FollowerReturns, At, pageVars, tiers
  <2>2. Moves(t) /\ th'[t] = AfterFault(t, th[t].result)
    BY <1>2, <1>6 DEF FollowerReturns, Moves
  <2>3. Sheds(t) /\ th'[t].pc \in {"idle", "load", "unreserve", "undo_release"}
    BY <1>2, <1>3, <2>1, <2>2, FaultSheds DEF SnapData
  <2>4. Still(t)
    BY <2>1, <2>2, StillApart
  <2> QED
    BY <2>1, <2>3, <2>4, PlainKeeps DEF Plain, SourceGone, Sheds
<1>7. CASE LeadStops(t)
  <2>1. /\ th[t].pc = "lead"
        /\ UNCHANGED <<swip, pages, frames, directory, slots, leader>>
    BY <1>7 DEF LeadStops, At, Starts, pageVars, queues, tiers, prefetchVars
  <2>2. Carries(t) /\ th'[t].pc = "land"
    BY <1>2, <1>7 DEF LeadStops, At, Goto, Leave, Carries, Moves, LocalsOver
  <2>3. Still(t)
    BY <2>1, <2>2, StillApart DEF Carries
  <2> QED
    BY <1>3, <2>1, <2>2, <2>3, PlainKeeps DEF Plain, SourceKept, SourceGone, Carries,
       SourceData, ThreadOK, PlaceOK, Idle
<1>8. CASE LeadFindsResident(t)
  <2>1. /\ th[t].pc = "lead"
        /\ UNCHANGED <<swip, pages, frames, directory, slots, leader>>
    BY <1>8 DEF LeadFindsResident, At, Starts, pageVars, queues, tiers, prefetchVars
  <2>2. Carries(t) /\ th'[t].pc = "land"
    BY <1>2, <1>8 DEF LeadFindsResident, At, Goto, Leave, Carries, Moves, LocalsOver
  <2>3. Still(t)
    BY <2>1, <2>2, StillApart DEF Carries
  <2> QED
    BY <1>3, <2>1, <2>2, <2>3, PlainKeeps DEF Plain, SourceKept, SourceGone, Carries,
       SourceData, ThreadOK, PlaceOK, Idle
<1>9. CASE FillFails(t)
  <2>1. /\ th[t].pc = "fill"
        /\ UNCHANGED <<swip, pages, frames, directory, slots, leader>>
    BY <1>9 DEF FillFails, At, Starts, pageVars, queues, tiers, prefetchVars
  <2>2. Carries(t) /\ th'[t].pc = "undo_release"
    BY <1>2, <1>9 DEF FillFails, At, Goto, Leave, Carries, Moves, LocalsOver
  <2>3. Still(t)
    BY <2>1, <2>2, StillApart DEF Carries
  <2> QED
    BY <1>3, <2>1, <2>2, <2>3, PlainKeeps DEF Plain, SourceKept, SourceGone, Carries,
       SourceData, ThreadOK, PlaceOK, Idle
<1>10. CASE FaultLeads(t)
  <2>1. /\ th[t].pc = "fault"
        /\ UNCHANGED <<swip, pages, frames, directory, slots>>
    BY <1>10 DEF FaultLeads, At, Starts, pageVars, queues, tiers, prefetchVars
  <2>s. th[t].src = None
    BY <1>3, <2>1 DEF SourceData
  <2>2. Sheds(t) /\ th'[t].pc = "lead"
    BY <1>2, <1>10, <2>s DEF FaultLeads, At, Goto, Leave, Sheds, Moves, LocalsOver
  <2>3. Still(t)
    <3>1. leader \in [Pages -> Threads \cup {None}] /\ th[t].page \in Pages
      <4>1. th[t].op \in Operations \cup {None}
        BY <1>2 DEF LocalsOver
      <4>2. th[t].op \in FixOps \cup {"prefetch"}
        BY <1>3, <2>1, <4>1 DEF Operations, ThreadOK, PlaceOK
      <4> QED
        BY <1>1, <1>3, <4>2 DEF TypedOver, SharedOver, Backed
    <3>2. \A p \in Pages : leader'[p] = leader[p] \/ leader[p] = None
      BY <3>1, <1>10 DEF FaultLeads
    <3> QED
      BY <2>1, <2>2, <3>2, StillApart DEF Sheds
  <2> QED
    BY <1>3, <2>1, <2>2, <2>3, PlainKeeps DEF Plain, SourceKept, SourceGone, Sheds, SourceData,
       ThreadOK, PlaceOK, Idle
<1> QED
  BY <1>4, <1>5, <1>6, <1>7, <1>8, <1>9, <1>10

(***************************************************************************)
(* Calls that touch no page move no data.                                  *)
(***************************************************************************)
LEMMA CallsData ==
    ASSUME IInv, IInv', DInv, NEW t \in Threads,
           \/ Allocate(t) \/ AllocatePid(t) \/ Fix(t) \/ FixStops(t) \/ LoadSwip(t)
           \/ PinRefused(t) \/ EnqueueDeclined(t)
    PROVE  DInv' /\ UNCHANGED valueBar
<1> USE DEF SlotPlaces, SnapPlaces, HeldPlaces, EvictPublished, EvictDetached, Published, LeadPlaces,
            AcquirePlaces, EvictPlaces, EvictReserved, FillPlaces, UndoPlaces, FixOps
<1>1. PICK D : TypedOver(D)
  BY DEF IInv
<1>2. th \in [Threads -> LocalsOver(D)]
  BY <1>1 DEF TypedOver
<1>3. ThreadOK(t) /\ Backed(t) /\ SourceData(t) /\ SnapData(t)
  BY Needs DEF IInv, DInv, ThreadData
<1>4. CASE Allocate(t)
  <2>1. /\ th[t].pc = "idle"
        /\ UNCHANGED <<swip, pages, frames, directory, slots, leader>>
    BY <1>4 DEF Allocate, At, Starts, pageVars, queues, tiers, prefetchVars
  <2>s. th[t].src = None
    BY <1>3, <2>1 DEF SourceData, ThreadOK, PlaceOK, Idle
  <2>i. th[t] = Idle
    BY <1>3, <2>1 DEF ThreadOK, PlaceOK
  <2>2. /\ Sheds(t) /\ th'[t].pc = "acquire"
        /\ th'[t].op = "alloc"
    BY <1>2, <1>4, <2>s, <2>i DEF Allocate, At, Goto, Leave, Sheds, Moves, LocalsOver, Idle
  <2>3. Still(t)
    BY <2>1, <2>2, StillApart DEF Sheds
  <2> QED
    BY <1>3, <2>1, <2>2, <2>3, PlainKeeps DEF Plain, SourceKept, SourceGone, Sheds, SourceData,
       ThreadOK, PlaceOK, Idle
<1>5. CASE AllocatePid(t)
  <2>1. /\ th[t].pc = "pid"
        /\ UNCHANGED <<swip, pages, frames, directory, slots, leader>>
    BY <1>5 DEF AllocatePid, At, Starts, pageVars, queues, tiers, prefetchVars
  <2>s. th[t].src = None
    BY <1>3, <2>1 DEF SourceData
  <2>2. /\ Sheds(t) /\ th'[t].pc \in {"fill", "undo_release"}
        /\ th'[t].op = th[t].op
    <3>1. CASE next_pid <= MaxPid
      BY <1>2, <1>5, <2>s, <3>1 DEF AllocatePid, At, Goto, Leave, Sheds, Moves, LocalsOver
    <3>2. CASE ~(next_pid <= MaxPid)
      BY <1>2, <1>5, <2>s, <3>2 DEF AllocatePid, At, Goto, Leave, Sheds, Moves, LocalsOver
    <3> QED
      BY <3>1, <3>2
  <2>3. Still(t)
    BY <2>1, <2>2, StillApart DEF Sheds
  <2> QED
    BY <1>3, <2>1, <2>2, <2>3, PlainKeeps DEF Plain, SourceKept, SourceGone, Sheds, SourceData,
       ThreadOK, PlaceOK, Idle, TaskPlaces, Fixing
<1>6. CASE Fix(t)
  <2>0. PICK o \in {"shared", "exclusive", "optimistic"}, p \in pages :
            /\ Starts(t, o)
            /\ th' = [th EXCEPT ![t].pc = "load", ![t].op = o, ![t].page = p]
    BY <1>6 DEF Fix
  <2>1. /\ th[t].pc = "idle"
        /\ UNCHANGED <<swip, pages, frames, directory, slots, leader>>
    BY <2>0, <1>6 DEF Fix, At, Starts, pageVars, queues, tiers, prefetchVars
  <2>s. th[t].src = None
    BY <1>3, <2>1 DEF SourceData, ThreadOK, PlaceOK, Idle
  <2>i. th[t] = Idle
    BY <1>3, <2>1 DEF ThreadOK, PlaceOK
  <2>2. Sheds(t) /\ th'[t].pc = "load"
    BY <1>2, <2>0, <2>s, <2>i DEF At, Goto, Leave, Sheds, Moves, LocalsOver, Idle
  <2>3. Still(t)
    BY <2>1, <2>2, StillApart DEF Sheds
  <2> QED
    BY <1>3, <2>1, <2>2, <2>3, PlainKeeps DEF Plain, SourceKept, SourceGone, Sheds, SourceData,
       ThreadOK, PlaceOK, Idle
<1>7. CASE FixStops(t)
  <2>1. /\ th[t].pc = "load"
        /\ UNCHANGED <<swip, pages, frames, directory, slots, leader>>
    BY <1>7 DEF FixStops, At, Starts, pageVars, queues, tiers, prefetchVars
  <2>2. Ended(t)
    BY <1>2, <1>7 DEF FixStops, At, Goto, Leave, Ended, Moves, LocalsOver
  <2>3. Still(t)
    BY <2>1, <2>2, StillApart DEF Ended
  <2> QED
    BY <1>3, <2>1, <2>2, <2>3, PlainKeeps DEF Plain, SourceKept, SourceGone, Ended, SourceData,
       ThreadOK, PlaceOK, Idle
<1>8. CASE LoadSwip(t)
  <2>1. /\ th[t].pc = "load"
        /\ UNCHANGED <<swip, pages, frames, directory, slots, leader>>
    BY <1>8 DEF LoadSwip, At, Starts, pageVars, queues, tiers, prefetchVars
  <2>s. th[t].src = None
    BY <1>3, <2>1 DEF SourceData
  <2>2. Sheds(t) /\ th'[t].pc \in {"fault", "pin"}
    BY <1>2, <1>8, <2>s DEF LoadSwip, At, Goto, Leave, Sheds, Moves, LocalsOver
  <2>3. Still(t)
    BY <2>1, <2>2, StillApart DEF Sheds
  <2> QED
    BY <1>3, <2>1, <2>2, <2>3, PlainKeeps DEF Plain, SourceKept, SourceGone, Sheds, SourceData,
       ThreadOK, PlaceOK, Idle
<1>9. CASE PinRefused(t)
  <2>1. /\ th[t].pc = "pin"
        /\ UNCHANGED <<swip, pages, frames, directory, slots, leader>>
    BY <1>9 DEF PinRefused, At, Starts, pageVars, queues, tiers, prefetchVars
  <2>s. th[t].src = None
    BY <1>3, <2>1 DEF SourceData
  <2>2. Sheds(t) /\ th'[t].pc = "load"
    BY <1>2, <1>9, <2>s DEF PinRefused, At, Goto, Leave, Sheds, Moves, LocalsOver
  <2>3. Still(t)
    BY <2>1, <2>2, StillApart DEF Sheds
  <2> QED
    BY <1>3, <2>1, <2>2, <2>3, PlainKeeps DEF Plain, SourceKept, SourceGone, Sheds, SourceData,
       ThreadOK, PlaceOK, Idle
<1>10. CASE EnqueueDeclined(t)
  <2>1. /\ th[t].pc = "guard_cooling"
        /\ UNCHANGED <<swip, pages, frames, directory, slots, leader>>
    BY <1>10 DEF EnqueueDeclined, At, Starts, pageVars, queues, tiers, prefetchVars
  <2>2. Carries(t) /\ th'[t].pc = "guard"
    BY <1>2, <1>10 DEF EnqueueDeclined, At, Goto, Leave, Carries, Moves, LocalsOver
  <2>3. Still(t)
    BY <2>1, <2>2, StillApart DEF Carries
  <2> QED
    BY <1>3, <2>1, <2>2, <2>3, PlainKeeps DEF Plain, SourceKept, SourceGone, Carries,
       SourceData, ThreadOK, PlaceOK, Idle
<1> QED
  BY <1>4, <1>5, <1>6, <1>7, <1>8, <1>9, <1>10

(***************************************************************************)
(* Nor do the handling of a prefetch task, ...                             *)
(***************************************************************************)
LEMMA RequestsData ==
    ASSUME IInv, IInv', DInv, NEW t \in Threads,
           \/ SubmitPrefetch(t) \/ CheckoutPops(t) \/ SubmitChecks(t) \/ SendTask(t)
           \/ ReceiveTask(t) \/ DropPrefetchReservation(t)
    PROVE  DInv' /\ UNCHANGED valueBar
<1> USE DEF SlotPlaces, SnapPlaces, HeldPlaces, EvictPublished, EvictDetached, Published, LeadPlaces,
            AcquirePlaces, EvictPlaces, EvictReserved, FillPlaces, UndoPlaces, FixOps
<1>1. PICK D : TypedOver(D)
  BY DEF IInv
<1>2. th \in [Threads -> LocalsOver(D)]
  BY <1>1 DEF TypedOver
<1>3. ThreadOK(t) /\ Backed(t) /\ SourceData(t) /\ SnapData(t)
  BY Needs DEF IInv, DInv, ThreadData
<1>4. CASE SubmitPrefetch(t)
  <2>0. PICK p \in pages \ pending :
            th' = [th EXCEPT ![t].pc = "pf_pop", ![t].op = "submit", ![t].page = p]
    BY <1>4 DEF SubmitPrefetch
  <2>1. /\ th[t].pc = "idle"
        /\ UNCHANGED <<swip, pages, frames, directory, slots, leader>>
    BY <2>0, <1>4 DEF SubmitPrefetch, At, Starts, pageVars, queues, tiers, prefetchVars
  <2>s. th[t].src = None
    BY <1>3, <2>1 DEF SourceData, ThreadOK, PlaceOK, Idle
  <2>i. th[t] = Idle
    BY <1>3, <2>1 DEF ThreadOK, PlaceOK
  <2>2. Sheds(t) /\ th'[t].pc = "pf_pop"
    BY <1>2, <2>0, <2>s, <2>i DEF At, Goto, Leave, Sheds, Moves, LocalsOver, Idle
  <2>3. Still(t)
    BY <2>1, <2>2, StillApart DEF Sheds
  <2> QED
    BY <1>3, <2>1, <2>2, <2>3, PlainKeeps DEF Plain, SourceKept, SourceGone, Sheds, SourceData,
       ThreadOK, PlaceOK, Idle
<1>5. CASE CheckoutPops(t)
  <2>1. /\ th[t].pc = "pf_pop"
        /\ UNCHANGED <<swip, pages, frames, directory, slots, leader>>
    BY <1>5 DEF CheckoutPops, At, Starts, pageVars, queues, tiers, prefetchVars
  <2>2. Carries(t) /\ th'[t].pc \in {"pf_claim", "unreserve"}
    BY <1>2, <1>5 DEF CheckoutPops, At, Goto, Leave, Carries, Moves, LocalsOver
  <2>3. Still(t)
    BY <2>1, <2>2, StillApart DEF Carries
  <2> QED
    BY <1>3, <2>1, <2>2, <2>3, PlainKeeps DEF Plain, SourceKept, SourceGone, Carries,
       SourceData, ThreadOK, PlaceOK, Idle
<1>6. CASE SubmitChecks(t)
  <2>1. /\ th[t].pc = "pf_gate"
        /\ UNCHANGED <<swip, pages, frames, directory, slots, leader>>
    BY <1>6 DEF SubmitChecks, At, Starts, pageVars, queues, tiers, prefetchVars
  <2>2. Carries(t) /\ th'[t].pc \in {"undo_release", "pf_send"}
    BY <1>2, <1>6 DEF SubmitChecks, At, Goto, Leave, Carries, Moves, LocalsOver
  <2>3. Still(t)
    BY <2>1, <2>2, StillApart DEF Carries
  <2> QED
    BY <1>3, <2>1, <2>2, <2>3, PlainKeeps DEF Plain, SourceKept, SourceGone, Carries,
       SourceData, ThreadOK, PlaceOK, Idle
<1>7. CASE SendTask(t)
  <2>1. /\ th[t].pc = "pf_send"
        /\ UNCHANGED <<swip, pages, frames, directory, slots, leader>>
    BY <1>7 DEF SendTask, At, Starts, pageVars, queues, tiers, prefetchVars
  <2>2. Ended(t)
    BY <1>2, <1>7 DEF SendTask, At, Goto, Leave, Ended, Moves, LocalsOver
  <2>3. Still(t)
    BY <2>1, <2>2, StillApart DEF Ended
  <2> QED
    BY <1>3, <2>1, <2>2, <2>3, PlainKeeps DEF Plain, SourceKept, SourceGone, Ended, SourceData,
       ThreadOK, PlaceOK, Idle
<1>8. CASE ReceiveTask(t)
  <2>1. /\ th[t].pc = "idle"
        /\ UNCHANGED <<swip, pages, frames, directory, slots, leader>>
    BY <1>8 DEF ReceiveTask, At, Starts, pageVars, queues, tiers, prefetchVars
  <2>s. th[t].src = None
    BY <1>3, <2>1 DEF SourceData, ThreadOK, PlaceOK, Idle
  <2>i. th[t] = Idle
    BY <1>3, <2>1 DEF ThreadOK, PlaceOK
  <2>2. Sheds(t) /\ th'[t].pc \in {"undo_release", "fault"}
    BY <1>2, <1>8, <2>s, <2>i DEF ReceiveTask, At, Goto, Leave, Sheds, Moves, LocalsOver, Idle
  <2>3. Still(t)
    BY <2>1, <2>2, StillApart DEF Sheds
  <2> QED
    BY <1>3, <2>1, <2>2, <2>3, PlainKeeps DEF Plain, SourceKept, SourceGone, Sheds, SourceData,
       ThreadOK, PlaceOK, Idle
<1>9. CASE DropPrefetchReservation(t)
  <2>1. /\ th[t].pc = "unreserve"
        /\ UNCHANGED <<swip, pages, frames, directory, slots, leader>>
    BY <1>9 DEF DropPrefetchReservation, At, Starts, pageVars, queues, tiers, prefetchVars
  <2>2. Ended(t)
    BY <1>2, <1>9 DEF DropPrefetchReservation, At, Goto, Leave, Ended, Moves, LocalsOver
  <2>3. Still(t)
    BY <2>1, <2>2, StillApart DEF Ended
  <2> QED
    BY <1>3, <2>1, <2>2, <2>3, PlainKeeps DEF Plain, SourceKept, SourceGone, Ended, SourceData,
       ThreadOK, PlaceOK, Idle
<1> QED
  BY <1>4, <1>5, <1>6, <1>7, <1>8, <1>9

(***************************************************************************)
(* ... the workers, and the course of a shutdown.                          *)
(***************************************************************************)
LEMMA WorkersData ==
    ASSUME IInv, IInv', DInv, NEW t \in Threads,
           \/ CoolingStep(t) \/ WorkerExits(t) \/ ShutdownStarts(t) \/ ShutdownJoins(t)
           \/ FlushPassEnds(t)
    PROVE  DInv' /\ UNCHANGED valueBar
<1> USE DEF SlotPlaces, SnapPlaces, HeldPlaces, EvictPublished, EvictDetached, Published, LeadPlaces,
            AcquirePlaces, EvictPlaces, EvictReserved, FillPlaces, UndoPlaces, FixOps
<1>1. PICK D : TypedOver(D)
  BY DEF IInv
<1>2. th \in [Threads -> LocalsOver(D)]
  BY <1>1 DEF TypedOver
<1>3. ThreadOK(t) /\ Backed(t) /\ SourceData(t) /\ SnapData(t)
  BY Needs DEF IInv, DInv, ThreadData
<1>4. CASE CoolingStep(t)
  <2>1. /\ th[t].pc = "idle"
        /\ UNCHANGED <<swip, pages, frames, directory, slots, leader>>
    BY <1>4 DEF CoolingStep, At, Starts, pageVars, queues, tiers, prefetchVars
  <2>s. th[t].src = None
    BY <1>3, <2>1 DEF SourceData, ThreadOK, PlaceOK, Idle
  <2>i. th[t] = Idle
    BY <1>3, <2>1 DEF ThreadOK, PlaceOK
  <2>2. /\ Sheds(t) /\ th'[t].pc \in {"sample", "take"}
        /\ th'[t].op = "cool"
    <3>1. CASE Len(cooling) < CoolingTarget
      BY <1>2, <1>4, <2>s, <2>i, <3>1 DEF CoolingStep, At, Goto, Leave, Sheds, Moves,
         LocalsOver, Idle
    <3>2. CASE ~(Len(cooling) < CoolingTarget)
      BY <1>2, <1>4, <2>s, <2>i, <3>2 DEF CoolingStep, At, Goto, Leave, Sheds, Moves,
         LocalsOver, Idle
    <3> QED
      BY <3>1, <3>2
  <2>3. Still(t)
    BY <2>1, <2>2, StillApart DEF Sheds
  <2> QED
    BY <1>3, <2>1, <2>2, <2>3, PlainKeeps DEF Plain, SourceKept, SourceGone, Sheds, SourceData,
       ThreadOK, PlaceOK, Idle
<1>5. CASE WorkerExits(t)
  <2>1. /\ th[t].pc = "idle"
        /\ UNCHANGED <<swip, pages, frames, directory, slots, leader>>
    BY <1>5 DEF WorkerExits, At, Starts, pageVars, queues, tiers, prefetchVars
  <2>s. th[t].src = None
    BY <1>3, <2>1 DEF SourceData, ThreadOK, PlaceOK, Idle
  <2>i. th[t] = Idle
    BY <1>3, <2>1 DEF ThreadOK, PlaceOK
  <2>2. Sheds(t) /\ th'[t].pc = "exited"
    BY <1>2, <1>5, <2>s, <2>i DEF WorkerExits, At, Goto, Leave, Sheds, Moves, LocalsOver, Idle
  <2>3. Still(t)
    BY <2>1, <2>2, StillApart DEF Sheds
  <2> QED
    BY <1>3, <2>1, <2>2, <2>3, PlainKeeps DEF Plain, SourceKept, SourceGone, Sheds, SourceData,
       ThreadOK, PlaceOK, Idle
<1>6. CASE ShutdownStarts(t)
  <2>1. /\ th[t].pc \in {"idle", "sd_failed"}
        /\ UNCHANGED <<swip, pages, frames, directory, slots, leader>>
    BY <1>6 DEF ShutdownStarts, At, Starts, pageVars, queues, tiers, prefetchVars
  <2>s. th[t].src = None
    BY <1>3, <2>1 DEF SourceData
  <2>2. Sheds(t) /\ th'[t].pc = "sd_gate"
    BY <1>2, <1>6, <2>s DEF ShutdownStarts, At, Goto, Leave, Sheds, Moves, LocalsOver, Idle
  <2>3. Still(t)
    BY <2>1, <2>2, StillApart DEF Sheds
  <2> QED
    BY <1>3, <2>1, <2>2, <2>3, PlainKeeps DEF Plain, SourceKept, SourceGone, Sheds, SourceData,
       ThreadOK, PlaceOK, Idle
<1>7. CASE ShutdownJoins(t)
  <2>1. /\ th[t].pc = "sd_gate"
        /\ UNCHANGED <<swip, pages, frames, directory, slots, leader>>
    BY <1>7 DEF ShutdownJoins, At, Starts, pageVars, queues, tiers, prefetchVars
  <2>s. th[t].src = None
    BY <1>3, <2>1 DEF SourceData
  <2>2. Sheds(t) /\ th'[t].pc = "flush"
    BY <1>2, <1>7, <2>s DEF ShutdownJoins, At, Goto, Leave, Sheds, Moves, LocalsOver
  <2>3. Still(t)
    BY <2>1, <2>2, StillApart DEF Sheds
  <2> QED
    BY <1>3, <2>1, <2>2, <2>3, PlainKeeps DEF Plain, SourceKept, SourceGone, Sheds, SourceData,
       ThreadOK, PlaceOK, Idle
<1>8. CASE FlushPassEnds(t)
  <2>1. /\ th[t].pc = "flush"
        /\ UNCHANGED <<swip, pages, frames, directory, slots, leader>>
    BY <1>8 DEF FlushPassEnds, At, Starts, pageVars, queues, tiers, prefetchVars
  <2>2. Carries(t) /\ th'[t].pc \in {"flush", "sd_done", "sd_failed"}
    BY <1>2, <1>8 DEF FlushPassEnds, At, Goto, Leave, Carries, Moves, LocalsOver
  <2>3. Still(t)
    BY <2>1, <2>2, StillApart DEF Carries
  <2> QED
    BY <1>3, <2>1, <2>2, <2>3, PlainKeeps DEF Plain, SourceKept, SourceGone, Carries,
       SourceData, ThreadOK, PlaceOK, Idle
<1> QED
  BY <1>4, <1>5, <1>6, <1>7, <1>8

(***************************************************************************)
(* A pin or a reservation moves no data.                                   *)
(***************************************************************************)
LEMMA PinsData ==
    ASSUME IInv, IInv', DInv, NEW t \in Threads,
           \/ PinFrame(t) \/ UnpinRetry(t) \/ ClaimFree(t) \/ DropReservation(t)
           \/ EvictClaim(t) \/ EvictUnreserve(t)
    PROVE  DInv' /\ UNCHANGED valueBar
<1> USE DEF SlotPlaces, SnapPlaces, HeldPlaces, EvictPublished, EvictDetached, Published, LeadPlaces,
            AcquirePlaces, EvictPlaces, EvictReserved, FillPlaces, UndoPlaces, FixOps
<1>1. PICK D : TypedOver(D)
  BY DEF IInv
<1>2. th \in [Threads -> LocalsOver(D)]
  BY <1>1 DEF TypedOver
<1>3. ThreadOK(t) /\ Backed(t) /\ SourceData(t) /\ SnapData(t)
  BY Needs DEF IInv, DInv, ThreadData
<1>4. CASE PinFrame(t)
  <2>1. /\ th[t].pc = "pin"
        /\ UNCHANGED <<swip, pages, directory, slots, leader>>
    BY <1>4 DEF PinFrame, At, Starts, pageVars, queues, tiers, prefetchVars
  <2>s. th[t].src = None
    BY <1>3, <2>1 DEF SourceData
  <2>2. Sheds(t) /\ th'[t].pc = "latch"
    BY <1>2, <1>4, <2>s DEF PinFrame, At, Goto, Leave, Sheds, Moves, LocalsOver
  <2>3. Still(t)
    <3>1. th[t].frame \in Frames
      BY <1>3, <2>1 DEF Backed, Unreserved, Reserved, Fixing
    <3>2. PICK v : frames' = [frames EXCEPT ![th[t].frame].pin = v]
      BY <1>4 DEF PinFrame, Pin
    <3> QED
      BY <2>1, <2>2, <3>1, <3>2, StillPin DEF Sheds
  <2> QED
    BY <1>3, <2>1, <2>2, <2>3, PlainKeeps DEF Plain, SourceKept, SourceGone, Sheds, SourceData,
       ThreadOK, PlaceOK, Idle
<1>5. CASE UnpinRetry(t)
  <2>1. /\ th[t].pc = "retry"
        /\ UNCHANGED <<swip, pages, directory, slots, leader>>
    BY <1>5 DEF UnpinRetry, At, Starts, pageVars, queues, tiers, prefetchVars
  <2>s. th[t].src = None
    BY <1>3, <2>1 DEF SourceData
  <2>2. Sheds(t) /\ th'[t].pc = "load"
    BY <1>2, <1>5, <2>s DEF UnpinRetry, At, Goto, Leave, Sheds, Moves, LocalsOver
  <2>3. Still(t)
    <3>1. th[t].frame \in Frames
      BY <1>3, <2>1 DEF Backed, Unreserved, Reserved, Fixing
    <3>2. PICK v : frames' = [frames EXCEPT ![th[t].frame].pin = v]
      BY <1>5 DEF UnpinRetry, Unpin
    <3> QED
      BY <2>1, <2>2, <3>1, <3>2, StillPin DEF Sheds
  <2> QED
    BY <1>3, <2>1, <2>2, <2>3, PlainKeeps DEF Plain, SourceKept, SourceGone, Sheds, SourceData,
       ThreadOK, PlaceOK, Idle
<1>6. CASE ClaimFree(t)
  <2>1. /\ th[t].pc = "claim"
        /\ UNCHANGED <<swip, pages, directory, slots, leader>>
    BY <1>6 DEF ClaimFree, At, Starts, pageVars, queues, tiers, prefetchVars
  <2>2. /\ Carries(t) /\ th'[t].pc \in {"pid", "fill"}
        /\ (th'[t].pc = "pid" => th[t].op = "alloc")
    BY <1>2, <1>6 DEF ClaimFree, At, Goto, Leave, Carries, Moves, LocalsOver
  <2>3. Still(t)
    <3>1. th[t].frame \in Frames
      BY <1>3, <2>1 DEF Backed, Unreserved, Reserved, Fixing
    <3>2. PICK v : frames' = [frames EXCEPT ![th[t].frame].pin = v]
      BY <1>6 DEF ClaimFree, Claim
    <3> QED
      BY <2>1, <2>2, <3>1, <3>2, StillPin DEF Carries
  <2> QED
    BY <1>3, <2>1, <2>2, <2>3, PlainKeeps DEF Plain, SourceKept, SourceGone, Carries,
       SourceData, ThreadOK, PlaceOK, Idle
<1>7. CASE DropReservation(t)
  <2>1. /\ th[t].pc = "undo_release"
        /\ UNCHANGED <<swip, pages, directory, slots, leader>>
    BY <1>7 DEF DropReservation, At, Starts, pageVars, queues, tiers, prefetchVars
  <2>2. Carries(t) /\ th'[t].pc = "undo_push"
    BY <1>2, <1>7 DEF DropReservation, At, Goto, Leave, Carries, Moves, LocalsOver
  <2>3. Still(t)
    <3>1. th[t].frame \in Frames
      BY <1>3, <2>1 DEF Backed, Unreserved, Reserved, Fixing
    <3>2. PICK v : frames' = [frames EXCEPT ![th[t].frame].pin = v]
      BY <1>7 DEF DropReservation, Release
    <3> QED
      BY <2>1, <2>2, <3>1, <3>2, StillPin DEF Carries
  <2> QED
    BY <1>3, <2>1, <2>2, <2>3, PlainKeeps DEF Plain, SourceKept, SourceGone, Carries,
       SourceData, ThreadOK, PlaceOK, Idle
<1>8. CASE EvictClaim(t)
  <2>1. /\ th[t].pc = "ev_claim"
        /\ UNCHANGED <<swip, pages, directory, slots, leader>>
    BY <1>8 DEF EvictClaim, At, Starts, pageVars, queues, tiers, prefetchVars
  <2>2. Carries(t) /\ th'[t].pc = "ev_latch"
    BY <1>2, <1>8 DEF EvictClaim, At, Goto, Leave, Carries, Moves, LocalsOver
  <2>3. Still(t)
    <3>1. th[t].ticket.frame \in Frames
      BY <1>3, <2>1 DEF Backed, Unreserved, Reserved, Fixing
    <3>2. PICK v : frames' = [frames EXCEPT ![th[t].ticket.frame].pin = v]
      BY <1>8 DEF EvictClaim, Claim
    <3> QED
      BY <2>1, <2>2, <3>1, <3>2, StillPin DEF Carries
  <2> QED
    BY <1>3, <2>1, <2>2, <2>3, PlainKeeps DEF Plain, SourceKept, SourceGone, Carries,
       SourceData, ThreadOK, PlaceOK, Idle
<1>9. CASE EvictUnreserve(t)
  <2>1. /\ th[t].pc = "ev_unreserve"
        /\ UNCHANGED <<swip, pages, directory, slots, leader>>
    BY <1>9 DEF EvictUnreserve, At, Starts, pageVars, queues, tiers, prefetchVars
  <2>2. /\ Carries(t) /\ th'[t].pc \in {"sd_failed", "flush", "freed", "take"}
        /\ (th'[t].pc \in {"sd_failed", "flush"} => th[t].op = "shutdown")
    BY <1>2, <1>9 DEF EvictUnreserve, At, Goto, Leave, Carries, Moves, LocalsOver, AfterEvict
  <2>3. Still(t)
    <3>1. th[t].ticket.frame \in Frames
      BY <1>3, <2>1 DEF Backed, Unreserved, Reserved, Fixing
    <3>2. PICK v : frames' = [frames EXCEPT ![th[t].ticket.frame].pin = v]
      BY <1>9 DEF EvictUnreserve, Release
    <3> QED
      BY <2>1, <2>2, <3>1, <3>2, StillPin DEF Carries
  <2> QED
    BY <1>3, <2>1, <2>2, <2>3, PlainKeeps DEF Plain, SourceKept, SourceGone, Carries,
       SourceData, ThreadOK, PlaceOK, Idle
<1> QED
  BY <1>4, <1>5, <1>6, <1>7, <1>8, <1>9

(***************************************************************************)
(* Nor does taking a latch, or dropping it without having written.         *)
(***************************************************************************)
LEMMA LatchesData ==
    ASSUME IInv, IInv', DInv, NEW t \in Threads,
           \/ LatchFrame(t) \/ FixRetries(t) \/ EvictLatch(t) \/ EvictAbort(t)
    PROVE  DInv' /\ UNCHANGED valueBar
<1> USE DEF SlotPlaces, SnapPlaces, HeldPlaces, EvictPublished, EvictDetached, Published, LeadPlaces,
            AcquirePlaces, EvictPlaces, EvictReserved, FillPlaces, UndoPlaces, FixOps
<1>1. PICK D : TypedOver(D)
  BY DEF IInv
<1>2. th \in [Threads -> LocalsOver(D)]
  BY <1>1 DEF TypedOver
<1>3. ThreadOK(t) /\ Backed(t) /\ SourceData(t) /\ SnapData(t)
  BY Needs DEF IInv, DInv, ThreadData
<1>4. CASE LatchFrame(t)
  <2>1. /\ th[t].pc = "latch"
        /\ UNCHANGED <<swip, pages, directory, slots, leader>>
    BY <1>4 DEF LatchFrame, At, Starts, pageVars, queues, tiers, prefetchVars
  <2>s. th[t].src = None
    BY <1>3, <2>1 DEF SourceData
  <2>2. Sheds(t) /\ th'[t].pc \in {"register", "check"}
    BY <1>2, <1>4, <2>s DEF LatchFrame, At, Goto, Leave, Sheds, Moves, LocalsOver
  <2>3. Still(t)
    <3>1. th[t].frame \in Frames
      BY <1>3, <2>1 DEF Backed, Unreserved, Reserved, Fixing
    <3>2. \/ LockExclusive(t, th[t].frame)
          \/ CanLockShared(th[t].frame) /\ LockShared(t, th[t].frame)
      BY <1>4 DEF LatchFrame
    <3> QED
      BY <2>1, <2>2, <3>1, <3>2, StillLatch DEF Sheds
  <2> QED
    BY <1>3, <2>1, <2>2, <2>3, PlainKeeps DEF Plain, SourceKept, SourceGone, Sheds, SourceData,
       ThreadOK, PlaceOK, Idle
<1>5. CASE FixRetries(t)
  <2>1. /\ th[t].pc = "check"
        /\ UNCHANGED <<swip, pages, directory, slots, leader>>
    BY <1>5 DEF FixRetries, At, Starts, pageVars, queues, tiers, prefetchVars
  <2>s. th[t].src = None
    BY <1>3, <2>1 DEF SourceData
  <2>2. Sheds(t) /\ th'[t].pc = "retry"
    BY <1>2, <1>5, <2>s DEF FixRetries, At, Goto, Leave, Sheds, Moves, LocalsOver
  <2>3. Still(t)
    <3>1. th[t].frame \in Frames
      BY <1>3, <2>1 DEF Backed, Unreserved, Reserved, Fixing
    <3>2. Unlock(t, th[t].frame)
      BY <1>5 DEF FixRetries
    <3> QED
      BY <2>1, <2>2, <3>1, <3>2, StillLatch DEF Sheds
  <2> QED
    BY <1>3, <2>1, <2>2, <2>3, PlainKeeps DEF Plain, SourceKept, SourceGone, Sheds, SourceData,
       ThreadOK, PlaceOK, Idle
<1>6. CASE EvictLatch(t)
  <2>1. /\ th[t].pc = "ev_latch"
        /\ UNCHANGED <<swip, pages, directory, slots, leader>>
    BY <1>6 DEF EvictLatch, At, Starts, pageVars, queues, tiers, prefetchVars
  <2>2. Carries(t) /\ th'[t].pc = "ev_recheck"
    BY <1>2, <1>6 DEF EvictLatch, At, Goto, Leave, Carries, Moves, LocalsOver
  <2>3. Still(t)
    <3>1. th[t].ticket.frame \in Frames
      BY <1>3, <2>1 DEF Backed, Unreserved, Reserved, Fixing
    <3>2. LockExclusive(t, th[t].ticket.frame)
      BY <1>6 DEF EvictLatch
    <3> QED
      BY <2>1, <2>2, <3>1, <3>2, StillLatch DEF Carries
  <2> QED
    BY <1>3, <2>1, <2>2, <2>3, PlainKeeps DEF Plain, SourceKept, SourceGone, Carries,
       SourceData, ThreadOK, PlaceOK, Idle
<1>7. CASE EvictAbort(t)
  <2>1. /\ th[t].pc = "ev_abort"
        /\ UNCHANGED <<swip, pages, directory, slots, leader>>
    BY <1>7 DEF EvictAbort, At, Starts, pageVars, queues, tiers, prefetchVars
  <2>2. Carries(t) /\ th'[t].pc = "ev_unreserve"
    BY <1>2, <1>7 DEF EvictAbort, At, Goto, Leave, Carries, Moves, LocalsOver
  <2>3. Still(t)
    <3>1. th[t].ticket.frame \in Frames
      BY <1>3, <2>1 DEF Backed, Unreserved, Reserved, Fixing
    <3>2. Unlock(t, th[t].ticket.frame)
      BY <1>7 DEF EvictAbort
    <3> QED
      BY <2>1, <2>2, <3>1, <3>2, StillLatch DEF Carries
  <2> QED
    BY <1>3, <2>1, <2>2, <2>3, PlainKeeps DEF Plain, SourceKept, SourceGone, Carries,
       SourceData, ThreadOK, PlaceOK, Idle
<1> QED
  BY <1>4, <1>5, <1>6, <1>7

(***************************************************************************)
(* Nor does marking a page as cooling, or resurrecting it.                 *)
(***************************************************************************)
LEMMA SwipsData ==
    ASSUME IInv, IInv', DInv, NEW t \in Threads,
           \/ FixSucceeds(t) \/ FixSucceedsDeclined(t) \/ EvictWriteFails(t)
           \/ MarkCandidate(t) \/ FlushFrame(t)
    PROVE  DInv' /\ UNCHANGED valueBar
<1> USE DEF SlotPlaces, SnapPlaces, HeldPlaces, EvictPublished, EvictDetached, Published, LeadPlaces,
            AcquirePlaces, EvictPlaces, EvictReserved, FillPlaces, UndoPlaces, FixOps
<1>1. PICK D : TypedOver(D)
  BY DEF IInv
<1>2. th \in [Threads -> LocalsOver(D)]
  BY <1>1 DEF TypedOver
<1>3. ThreadOK(t) /\ Backed(t) /\ SourceData(t) /\ SnapData(t)
  BY Needs DEF IInv, DInv, ThreadData
<1>4. CASE FixSucceeds(t)
  <2>1. /\ th[t].pc = "check"
        /\ UNCHANGED <<pages, frames, directory, slots, leader>>
    BY <1>4 DEF FixSucceeds, At, Starts, pageVars, queues, tiers, prefetchVars
  <2>s. th[t].src = None
    BY <1>3, <2>1 DEF SourceData
  <2>2. Sheds(t) /\ th'[t].pc = "guard"
    BY <1>2, <1>4, <2>s DEF FixSucceeds, At, Goto, Leave, Sheds, Moves, LocalsOver
  <2>3. Still(t)
    <3>1. th[t].page \in Pages /\ th[t].frame \in Frames
      <4>1. th[t].op \in Operations \cup {None}
        BY <1>2 DEF LocalsOver
      <4>2. th[t].op \in FixOps
        BY <1>3, <2>1, <4>1 DEF Operations, ThreadOK, PlaceOK, TaskPlaces
      <4> QED
        BY <1>3, <2>1, <4>2 DEF Backed, Fixing
    <3>2. TryResurrect(th[t].page, th[t].frame)
      BY <1>4 DEF FixSucceeds
    <3> QED
      BY <1>1, <2>1, <2>2, <3>1, <3>2, SwipSet, StillSwip DEF Sheds
  <2> QED
    BY <1>3, <2>1, <2>2, <2>3, PlainKeeps DEF Plain, SourceKept, SourceGone, Sheds, SourceData,
       ThreadOK, PlaceOK, Idle
<1>5. CASE FixSucceedsDeclined(t)
  <2>1. /\ th[t].pc = "check"
        /\ UNCHANGED <<pages, frames, directory, slots, leader>>
    BY <1>5 DEF FixSucceedsDeclined, At, Starts, pageVars, queues, tiers, prefetchVars
  <2>s. th[t].src = None
    BY <1>3, <2>1 DEF SourceData
  <2>2. Sheds(t) /\ th'[t].pc = "guard_cooling"
    BY <1>2, <1>5, <2>s DEF FixSucceedsDeclined, At, Goto, Leave, Sheds, Moves, LocalsOver
  <2>3. Still(t)
    <3>1. th[t].page \in Pages /\ th[t].frame \in Frames
      <4>1. th[t].op \in Operations \cup {None}
        BY <1>2 DEF LocalsOver
      <4>2. th[t].op \in FixOps
        BY <1>3, <2>1, <4>1 DEF Operations, ThreadOK, PlaceOK, TaskPlaces
      <4> QED
        BY <1>3, <2>1, <4>2 DEF Backed, Fixing
    <3>2. ResidentAt(th[t].page, th[t].frame) /\ SetSwip(th[t].page, Cooling(th[t].frame))
      BY <1>5 DEF FixSucceedsDeclined, ResidentIsExact
    <3> QED
      BY <1>1, <2>1, <2>2, <3>1, <3>2, SwipSet, StillSwip DEF Sheds
  <2> QED
    BY <1>3, <2>1, <2>2, <2>3, PlainKeeps DEF Plain, SourceKept, SourceGone, Sheds, SourceData,
       ThreadOK, PlaceOK, Idle
<1>6. CASE EvictWriteFails(t)
  <2>1. /\ th[t].pc = "ev_write"
        /\ UNCHANGED <<pages, frames, directory, slots, leader>>
    BY <1>6 DEF EvictWriteFails, At, Starts, pageVars, queues, tiers, prefetchVars
  <2>2. Carries(t) /\ th'[t].pc = "ev_abort"
    BY <1>2, <1>6 DEF EvictWriteFails, At, Goto, Leave, Carries, Moves, LocalsOver
  <2>3. Still(t)
    <3>1. th[t].ticket.pid \in Pages /\ th[t].ticket.frame \in Frames
      BY <1>3, <2>1 DEF Backed, Fixing
    <3>2. TryResurrect(th[t].ticket.pid, th[t].ticket.frame)
      BY <1>6 DEF EvictWriteFails
    <3> QED
      BY <1>1, <2>1, <2>2, <3>1, <3>2, SwipSet, StillSwip DEF Carries
  <2> QED
    BY <1>3, <2>1, <2>2, <2>3, PlainKeeps DEF Plain, SourceKept, SourceGone, Carries,
       SourceData, ThreadOK, PlaceOK, Idle
<1>7. CASE MarkCandidate(t)
  <2>1. PICK o \in {th[t].ticket.pid, frames[th[t].ticket.frame].pid} \ {None} :
            IF ResidentAt(o, th[t].ticket.frame)
            THEN SetSwip(o, Cooling(th[t].ticket.frame)) /\ Goto(t, "enqueue")
            ELSE /\ th' = [th EXCEPT ![t].pc = "sample", ![t].ticket = None]
                 /\ UNCHANGED swip
    BY <1>7 DEF MarkCandidate
  <2>2. th[t].pc = "mark" /\ UNCHANGED <<pages, frames, directory, slots, leader>>
    BY <1>7 DEF MarkCandidate, At, queues, tiers, prefetchVars
  <2>3. Carries(t) /\ th'[t].pc \in {"enqueue", "sample"}
    <3>1. CASE ResidentAt(o, th[t].ticket.frame)
      BY <1>2, <2>1, <3>1 DEF Goto, Carries, Moves, LocalsOver
    <3>2. CASE ~ResidentAt(o, th[t].ticket.frame)
      BY <1>2, <2>1, <3>2 DEF Carries, Moves, LocalsOver
    <3> QED
      BY <3>1, <3>2
  <2>4. HomesKept
    <3>1. th[t].ticket.pid \in Pages /\ th[t].ticket.frame \in Frames
      BY <1>3, <2>2 DEF Backed
    <3>2. o \in Pages
      BY <1>1, <2>1, <3>1 DEF TypedOver, SharedOver, FrameOver
    <3>3. CASE ResidentAt(o, th[t].ticket.frame)
      BY <1>1, <2>1, <3>1, <3>2, <3>3, SwipSet
    <3>4. CASE ~ResidentAt(o, th[t].ticket.frame)
      BY <2>1, <3>4 DEF HomesKept
    <3> QED
      BY <3>3, <3>4
  <2>5. Still(t)
    BY <2>2, <2>3, <2>4, StillSwip DEF Carries
  <2> QED
    BY <1>3, <2>2, <2>3, <2>5, PlainKeeps DEF Plain, SourceKept, Carries
<1>8. CASE FlushFrame(t)
  <2>1. PICK f \in th[t].cand :
            LET p == frames[f].pid
                seen == [th EXCEPT ![t].cand = @ \ {f}, ![t].want = IF p = None THEN @ ELSE 1]
            IN  IF p # None /\ ResidentAt(p, f)
                THEN /\ SetSwip(p, Cooling(f))
                     /\ th' = [seen EXCEPT ![t].pc = "ev_check", ![t].ticket = Ticket(f, p)]
                ELSE UNCHANGED swip /\ th' = seen
    BY <1>8 DEF FlushFrame
  <2>2. th[t].pc = "flush" /\ UNCHANGED <<pages, frames, directory, slots, leader>>
    BY <1>8 DEF FlushFrame, At, queues, tiers, prefetchVars
  <2>3. PICK p : p = frames[f].pid
    OBVIOUS
  <2>4. f \in Frames /\ p \in Pages \cup {None}
    BY <1>1, <1>2, <2>1, <2>3 DEF TypedOver, SharedOver, FrameOver, LocalsOver
  <2>5. Carries(t) /\ th'[t].pc \in {"flush", "ev_check"} /\ HomesKept
    <3>1. CASE p # None /\ ResidentAt(p, f)
      <4>1. SetSwip(p, Cooling(f)) /\ Carries(t) /\ th'[t].pc = "ev_check"
        BY <1>2, <2>1, <2>3, <3>1 DEF Carries, Moves, LocalsOver
      <4> QED
        BY <1>1, <2>4, <3>1, <4>1, SwipSet
    <3>2. CASE ~(p # None /\ ResidentAt(p, f))
      <4>1. UNCHANGED swip /\ Carries(t) /\ th'[t].pc = "flush"
        BY <1>2, <2>1, <2>2, <2>3, <3>2 DEF Carries, Moves, LocalsOver
      <4> QED
        BY <4>1 DEF HomesKept
    <3> QED
      BY <3>1, <3>2
  <2>6. Still(t)
    BY <2>2, <2>5, StillSwip DEF Carries
  <2>7. th[t].op \notin FixOps \cup {"prefetch"}
    BY <1>3, <2>2 DEF ThreadOK, PlaceOK, TaskPlaces, Fixing
  <2> QED
    BY <1>3, <2>2, <2>5, <2>6, <2>7, PlainKeeps DEF Plain, SourceKept, Carries, SourceData
<1> QED
  BY <1>4, <1>5, <1>6, <1>7, <1>8

(***************************************************************************)
(* Nor does checking a frame out, or giving it back.                       *)
(***************************************************************************)
LEMMA CheckoutData ==
    ASSUME IInv, IInv', DInv, NEW t \in Threads,
           \/ CheckoutClaims(t) \/ DropFrame(t)
    PROVE  DInv' /\ UNCHANGED valueBar
<1> USE DEF SlotPlaces, SnapPlaces, HeldPlaces, EvictPublished, EvictDetached, Published, LeadPlaces,
            AcquirePlaces, EvictPlaces, EvictReserved, FillPlaces, UndoPlaces, FixOps
<1>1. PICK D : TypedOver(D)
  BY DEF IInv
<1>2. th \in [Threads -> LocalsOver(D)]
  BY <1>1 DEF TypedOver
<1>3. ThreadOK(t) /\ Backed(t) /\ SourceData(t) /\ SnapData(t)
  BY Needs DEF IInv, DInv, ThreadData
<1>4. CASE CheckoutClaims(t)
  <2>1. /\ th[t].pc = "pf_claim"
        /\ UNCHANGED <<swip, pages, directory, slots, leader>>
    BY <1>4 DEF CheckoutClaims, At, pageVars, queues, tiers, prefetchVars
  <2>2. Carries(t) /\ th'[t].pc \in {"pf_gate", "undo_push"}
    BY <1>2, <1>4 DEF CheckoutClaims, At, Goto, Carries, Moves, LocalsOver
  <2>3. Still(t)
    <3>1. th[t].frame \in Frames
      BY <1>3, <2>1 DEF Backed, Unreserved
    <3>2. CASE Claim(th[t].frame)
      <4>1. PICK v : frames' = [frames EXCEPT ![th[t].frame].pin = v]
        BY <3>2 DEF Claim
      <4> QED
        BY <2>1, <2>2, <3>1, <4>1, StillPin DEF Carries
    <3>3. CASE UNCHANGED frames
      BY <2>1, <2>2, <3>3, StillApart DEF Carries
    <3> QED
      BY <1>4, <3>2, <3>3 DEF CheckoutClaims
  <2> QED
    BY <1>3, <2>1, <2>2, <2>3, PlainKeeps DEF Plain, SourceKept, Carries, SourceData
<1>5. CASE DropFrame(t)
  <2>1. /\ th[t].pc = "undo_push"
        /\ UNCHANGED <<swip, pages, frames, directory, slots, leader>>
    BY <1>5 DEF DropFrame, At, pageVars, tiers, prefetchVars
  <2>2. Still(t) \/ ~Moves(t)
    BY <2>1, StillApart
  <2>3. CASE th[t].op = "alloc"
    <3>1. Ended(t)
      BY <1>2, <1>5, <2>3 DEF DropFrame, Ended, Moves
    <3> QED
      BY <2>1, <2>2, <3>1, PlainKeeps DEF Plain, SourceGone, Ended, Idle
  <2>4. CASE th[t].op # "alloc"
    <3>1. Carries(t) /\ th'[t].pc = IF th[t].op # "submit" /\ leader[th[t].page] = t
                                    THEN "land" ELSE "unreserve"
      BY <1>2, <1>5, <2>4 DEF DropFrame, Carries, Moves, LocalsOver
    <3>2. th[t].src # None => th'[t].pc = "land"
      BY <1>3, <2>1, <3>1 DEF SourceData
    <3> QED
      BY <1>3, <2>1, <2>2, <3>1, <3>2, PlainKeeps DEF Plain, SourceKept, SourceGone, Carries
  <2> QED
    BY <2>3, <2>4
<1> QED
  BY <1>4, <1>5

(***************************************************************************)
(* A leader's steps between its look-up and its publication: what it knows *)
(* of its slot and its frame is all that matters.                          *)
(***************************************************************************)
LEMMA LeaderKeeps ==
    ASSUME IInv, IInv', DInv, NEW t \in Threads, Still(t), SourceData(t)', FillData(t)',
           th[t].pc \notin SlotPlaces \cup SnapPlaces,
           th'[t].pc \notin SlotPlaces \cup {"ev_write"},
           th'[t].new = th[t].new, th'[t].snap = th[t].snap
    PROVE  DInv' /\ UNCHANGED valueBar
<1>1. ThreadData(t)
  BY DEF DInv
<1>2. th'[t].new = None /\ th'[t].snap = None
  BY <1>1 DEF ThreadData, EvictData, SnapData
<1>3. OwesKept(t)
  BY DEF OwesKept, Owes, SlotPlaces
<1>4. EvictData(t)'
  BY <1>2 DEF EvictData, SlotPlaces, EvictPublished
<1>5. SnapData(t)'
  BY <1>2 DEF SnapData
<1> QED
  BY <1>3, <1>4, <1>5, StillKeeps DEF ThreadData

(***************************************************************************)
(* The slot of an evicted page is looked up.                               *)
(***************************************************************************)
LEMMA LookUpData ==
    ASSUME IInv, IInv', DInv, NEW t \in Threads, LeadLooksUp(t)
    PROVE  DInv' /\ UNCHANGED valueBar
<1>1. PICK D : TypedOver(D)
  BY DEF IInv
<1>2. th \in [Threads -> LocalsOver(D)]
  BY <1>1 DEF TypedOver
<1>3. ThreadOK(t) /\ ThreadData(t)
  BY DEF IInv, DInv
<1>4. PICK p : p = th[t].page
  OBVIOUS
<1>5. /\ th[t].pc = "lead" /\ swip[p] = Evicted
      /\ UNCHANGED <<swip, pages, frames, directory, slots, leader>>
  BY <1>4 DEF LeadLooksUp, At, pageVars, tiers
<1>6. /\ Moves(t) /\ th'[t].pc = (IF th[t].op = "prefetch" THEN "fill" ELSE "acquire")
      /\ th'[t].op = th[t].op /\ th'[t].page = p /\ th'[t].src = directory[p]
      /\ th'[t].new = th[t].new /\ th'[t].snap = th[t].snap
  BY <1>2, <1>4 DEF LeadLooksUp, Moves, LocalsOver
<1>7. th[t].op \in FixOps \cup {"prefetch"}
  <2>1. th[t].op \in Operations \cup {None}
    BY <1>2 DEF LocalsOver
  <2> QED
    BY <1>3, <1>5, <2>1 DEF ThreadOK, PlaceOK, Operations, FixOps, AcquirePlaces, EvictPlaces,
       EvictReserved, FillPlaces, UndoPlaces
<1>8. leader[p] = t /\ p \in pages
  BY <1>3, <1>4, <1>5, <1>7 DEF ThreadOK, LeadOK, LocalsOK, FixOps
<1>9. directory[p] # None
  BY <1>5, <1>8 DEF DInv, BackingOK
<1>10. SourceData(t)'
  BY <1>5, <1>6, <1>7, <1>8, <1>9 DEF SourceData, LeadPlaces, AcquirePlaces, FillPlaces
<1>11. FillData(t)'
  BY <1>6 DEF FillData, HeldPlaces, Published
<1>12. Still(t)
  BY <1>5, <1>6, StillApart
<1> QED
  BY <1>5, <1>6, <1>10, <1>11, <1>12, LeaderKeeps DEF SlotPlaces, SnapPlaces, EvictPublished,
     EvictDetached

(***************************************************************************)
(* The slot looked up is still the page's, and holds its bytes, when it is *)
(* read.                                                                   *)
(***************************************************************************)
LEMMA FillsData ==
    ASSUME IInv, IInv', DInv, NEW t \in Threads, FillFrame(t)
    PROVE  DInv' /\ UNCHANGED valueBar
<1>1. PICK D : TypedOver(D)
  BY DEF IInv
<1>2. th \in [Threads -> LocalsOver(D)] /\ frames \in [Frames -> FrameOver(D)]
  BY <1>1 DEF TypedOver, SharedOver
<1>3. ThreadOK(t) /\ ThreadData(t) /\ Backed(t)
  BY Needs DEF IInv, DInv
<1>4. PICK p, f : p = th[t].page /\ f = th[t].frame
  OBVIOUS
<1>5. /\ th[t].pc = "fill" /\ frames[f].writer = None
      /\ UNCHANGED <<swip, pages, directory, slots, leader>>
  BY <1>4 DEF FillFrame, At, CanLockExclusive, pageVars, tiers
<1>6. Carries(t) /\ th'[t].pc = "install" /\ th'[t].new = th[t].new /\ th'[t].frame = f
  BY <1>2, <1>4 DEF FillFrame, Goto, Carries, Moves, LocalsOver
<1>7. f \in Frames /\ f \in OwnedBy(th[t])
  BY <1>3, <1>4, <1>5 DEF Backed, OwnedBy, Reserved
<1>8. PICK v : v = IF th[t].op = "alloc" THEN 0 ELSE slots[th[t].src]
  OBVIOUS
<1>9. th[t].op # "alloc" => /\ th[t].src # None /\ th[t].src = directory[p]
                            /\ p \in Pages /\ slots[directory[p]] # None
  <2> SUFFICES ASSUME th[t].op # "alloc"
               PROVE  /\ th[t].src # None /\ th[t].src = directory[p]
                      /\ p \in Pages /\ slots[directory[p]] # None
    OBVIOUS
  <2>1. th[t].op \in Operations \cup {None}
    BY <1>2 DEF LocalsOver
  <2>2. th[t].op \in FixOps \cup {"prefetch"}
    BY <1>3, <1>5, <2>1 DEF ThreadOK, PlaceOK, Operations, FixOps, AcquirePlaces, EvictPlaces,
       EvictReserved, UndoPlaces
  <2>3. th[t].src # None
    BY <1>3, <1>5, <2>2 DEF ThreadData, SourceData, LeadPlaces, FillPlaces
  <2>4. th[t].src = directory[p] /\ p \in Pages
    BY <1>3, <1>4, <1>5, <2>2, <2>3 DEF ThreadData, SourceData, Backed
  <2> QED
    BY <2>3, <2>4 DEF DInv, BackingOK
<1>10. v \in Values
  <2>1. th[t].op # "alloc" => th[t].src \in Slots
    BY <1>2, <1>9 DEF LocalsOver
  <2> QED
    BY <1>8, <1>9, <2>1, PoolAssumption DEF DInv, StoredOK
<1> DEFINE r == [frames[f] EXCEPT !.data = v, !.snaps = {}]
<1>11. r.data = v /\ r.snaps = {} /\ r.dirty = frames[f].dirty
  BY <1>2, <1>7 DEF FrameOver
<1>12. frames' = [frames EXCEPT ![f] = r]
  BY <1>2, <1>4, <1>7, <1>8 DEF FillFrame
<1> HIDE DEF r
<1>13. Still(t)
  BY <1>5, <1>6, <1>7, <1>10, <1>11, <1>12, StillFrame DEF Carries
<1>14. frames'[f].data = v
  BY <1>2, <1>7, <1>11, <1>12
<1>15. FillData(t)'
  <2>1. th'[t].op = th[t].op /\ th'[t].page = p
    BY <1>4, <1>6 DEF Carries
  <2> QED
    BY <1>5, <1>6, <1>8, <1>9, <1>14, <2>1 DEF FillData, Agrees, Published
<1>16. SourceKept(t)
  BY <1>5, <1>6 DEF SourceKept, Carries, LeadPlaces, FillPlaces
<1>17. SourceData(t)'
  BY <1>6, <1>13, <1>16, SourceStays
<1> QED
  BY <1>5, <1>6, <1>13, <1>15, <1>17, LeaderKeeps DEF Carries, SlotPlaces, SnapPlaces,
     EvictPublished, EvictDetached

(***************************************************************************)
(* Installing the page in its frame, ...                                   *)
(***************************************************************************)
LEMMA InstallsData ==
    ASSUME IInv, IInv', DInv, NEW t \in Threads, Install(t)
    PROVE  DInv' /\ UNCHANGED valueBar
<1>1. PICK D : TypedOver(D)
  BY DEF IInv
<1>2. th \in [Threads -> LocalsOver(D)] /\ frames \in [Frames -> FrameOver(D)]
  BY <1>1 DEF TypedOver, SharedOver
<1>3. ThreadData(t) /\ Backed(t)
  BY Needs DEF IInv, DInv
<1>4. PICK p, f : p = th[t].page /\ f = th[t].frame
  OBVIOUS
<1>5. /\ th[t].pc = "install" /\ frames[f].writer = None
      /\ UNCHANGED <<swip, pages, directory, slots, leader>>
  BY <1>4 DEF Install, At, CanLockExclusive, pageVars, tiers
<1>6. Carries(t) /\ th'[t].pc = "publish" /\ th'[t].new = th[t].new /\ th'[t].frame = f
  BY <1>2, <1>4 DEF Install, Goto, Carries, Moves, LocalsOver
<1>7. f \in Frames /\ f \in OwnedBy(th[t])
  BY <1>3, <1>4, <1>5 DEF Backed, OwnedBy, Reserved
<1>8. PICK b, g : b = (th[t].op = "alloc") /\ g = (frames[f].generation + 1) % GenerationMod
  OBVIOUS
<1> DEFINE r == [frames[f] EXCEPT !.pid = p, !.dirty = b, !.generation = g, !.snaps = {}]
<1>9. r.data = frames[f].data /\ r.snaps = {} /\ r.dirty = b
  BY <1>2, <1>7 DEF FrameOver
<1>10. frames' = [frames EXCEPT ![f] = r]
  BY <1>2, <1>4, <1>7, <1>8 DEF Install
<1> HIDE DEF r
<1>11. Still(t)
  BY <1>5, <1>6, <1>7, <1>9, <1>10, StillFrame DEF Carries, DInv, StoredOK
<1>12. frames'[f].data = frames[f].data /\ frames'[f].dirty = b
  BY <1>2, <1>7, <1>9, <1>10
<1>13. FillData(t)'
  <2>1. th'[t].op = th[t].op /\ th'[t].page = p
    BY <1>4, <1>6 DEF Carries
  <2>2. IF th[t].op = "alloc" THEN frames[f].data = 0 ELSE Agrees(p, f)
    BY <1>3, <1>4, <1>5 DEF ThreadData, FillData, HeldPlaces
  <2> QED
    BY <1>5, <1>6, <1>8, <1>12, <2>1, <2>2 DEF FillData, Agrees
<1>14. SourceKept(t)
  BY <1>5, <1>6 DEF SourceKept, Carries, LeadPlaces, FillPlaces
<1>15. SourceData(t)'
  BY <1>6, <1>11, <1>14, SourceStays
<1> QED
  BY <1>5, <1>6, <1>11, <1>13, <1>15, LeaderKeeps DEF Carries, SlotPlaces, SnapPlaces,
     EvictPublished, EvictDetached

(***************************************************************************)
(* ... publishing its pin, and placing its marker leave its bytes alone.   *)
(***************************************************************************)
LEMMA PublishesData ==
    ASSUME IInv, IInv', DInv, NEW t \in Threads, PublishPin(t) \/ PlaceMarker(t)
    PROVE  DInv' /\ UNCHANGED valueBar
<1>1. PICK D : TypedOver(D)
  BY DEF IInv
<1>2. th \in [Threads -> LocalsOver(D)] /\ frames \in [Frames -> FrameOver(D)]
  BY <1>1 DEF TypedOver, SharedOver
<1>3. ThreadData(t) /\ Backed(t)
  BY Needs DEF IInv, DInv
<1>4. PICK f : f = th[t].frame
  OBVIOUS
<1>5. th[t].pc \in {"publish", "marker"} /\ UNCHANGED <<swip, pages, directory, slots, leader>>
  BY DEF PublishPin, PlaceMarker, At, pageVars, tiers
<1>6. /\ Carries(t) /\ th'[t].pc \in {"marker", "swizzle"}
      /\ th'[t].new = th[t].new /\ th'[t].frame = f
  BY <1>2, <1>4 DEF PublishPin, PlaceMarker, Goto, Carries, Moves, LocalsOver
<1>7. f \in Frames
  BY <1>3, <1>4, <1>5 DEF Backed, Reserved, Published
<1>8. Still(t) /\ frames'[f].data = frames[f].data /\ frames'[f].dirty = frames[f].dirty
  <2>1. CASE PublishPin(t)
    <3>1. frames' = [frames EXCEPT ![f].pin = 1]
      BY <1>4, <2>1 DEF PublishPin
    <3>2. Still(t)
      BY <1>5, <1>6, <1>7, <3>1, StillPin DEF Carries
    <3> QED
      BY <1>2, <1>7, <3>1, <3>2 DEF FrameOver
  <2>2. CASE PlaceMarker(t)
    <3>1. UNCHANGED frames
      BY <2>2 DEF PlaceMarker
    <3> QED
      BY <1>5, <1>6, <3>1, StillApart DEF Carries
  <2> QED
    BY <2>1, <2>2
<1>9. FillData(t)'
  <2>1. th'[t].op = th[t].op /\ th'[t].page = th[t].page
    BY <1>6 DEF Carries
  <2>2. /\ IF th[t].op = "alloc" THEN frames[f].data = 0 ELSE Agrees(th[t].page, f)
        /\ frames[f].dirty = (th[t].op = "alloc")
    BY <1>3, <1>4, <1>5 DEF ThreadData, FillData, HeldPlaces, Published
  <2> QED
    BY <1>5, <1>6, <1>8, <2>1, <2>2 DEF FillData, Agrees
<1>10. SourceKept(t)
  BY <1>5, <1>6 DEF SourceKept, Carries, LeadPlaces, FillPlaces
<1>11. SourceData(t)'
  BY <1>6, <1>8, <1>10, SourceStays
<1> QED
  BY <1>5, <1>6, <1>8, <1>9, <1>11, LeaderKeeps DEF Carries, SlotPlaces, SnapPlaces,
     EvictPublished, EvictDetached

(***************************************************************************)
(* The leader drops its pin, and a new page becomes canonical.             *)
(***************************************************************************)
LEMMA ReleasesData ==
    ASSUME IInv, IInv', DInv, NEW t \in Threads, UnpinFaulted(t) \/ RegisterPage(t)
    PROVE  DInv' /\ UNCHANGED valueBar
<1>1. PICK D : TypedOver(D)
  BY DEF IInv
<1>2. th \in [Threads -> LocalsOver(D)]
  BY <1>1 DEF TypedOver
<1>3. ThreadOK(t) /\ ThreadData(t) /\ Backed(t)
  BY Needs DEF IInv, DInv
<1>4. CASE UnpinFaulted(t)
  <2>1. /\ th[t].pc = "unpin" /\ UNCHANGED <<swip, pages, directory, slots, leader>>
        /\ frames' = [frames EXCEPT ![th[t].frame].pin = frames[th[t].frame].pin - 1]
    BY <1>4 DEF UnpinFaulted, Unpin, At, pageVars, tiers
  <2>2. Carries(t) /\ th'[t].pc = "land" /\ th'[t].new = th[t].new
    BY <1>2, <1>4 DEF UnpinFaulted, Carries, Moves, LocalsOver
  <2>3. th[t].frame \in Frames
    BY <1>3, <2>1 DEF Backed
  <2>4. Still(t)
    BY <2>1, <2>2, <2>3, StillPin DEF Carries
  <2>5. SourceData(t)'
    BY <1>3, <2>1, <2>2 DEF ThreadData, SourceData, Carries, LeadPlaces, AcquirePlaces, EvictPlaces,
       EvictReserved, FillPlaces
  <2>6. FillData(t)'
    BY <2>2 DEF FillData, HeldPlaces, Published
  <2> QED
    BY <2>1, <2>2, <2>4, <2>5, <2>6, LeaderKeeps DEF Carries, SlotPlaces, SnapPlaces,
       EvictPublished, EvictDetached
<1>5. CASE RegisterPage(t)
  <2>1. /\ th[t].pc = "register" /\ pages' = pages \cup {th[t].page}
        /\ UNCHANGED <<swip, frames, directory, slots, leader>>
    BY <1>5 DEF RegisterPage, At, tiers
  <2>2. Moves(t) /\ th'[t].pc = "guard" /\ th'[t].src = th[t].src
    BY <1>2, <1>5 DEF RegisterPage, Moves, LocalsOver
  <2>3. th'[t].new = th[t].new /\ th'[t].snap = th[t].snap
    BY <1>2, <1>5 DEF RegisterPage, LocalsOver
  <2>4. swip[th[t].page] # Evicted
    <3>1. swip[th[t].page] \in {Hot(th[t].frame), Cooling(th[t].frame)}
      BY <1>3, <2>1 DEF ThreadOK, ExactOK, ResidentAt
    <3>2. th[t].frame \in Frames
      BY <1>3, <2>1 DEF Backed
    <3> QED
      BY <3>1, <3>2 DEF Hot, Cooling, Evicted
  <2>5. Still(t)
    <3>1. HomesKept
      BY <2>1 DEF HomesKept
    <3>2. PagesGrow
      BY <2>1, <2>4 DEF PagesGrow
    <3>3. \A f \in Frames : FrameStill(t, f)
      BY <2>1 DEF FrameStill, DInv, StoredOK
    <3> QED
      BY <2>1, <2>2, <3>1, <3>2, <3>3 DEF Still, tiers
  <2>6. th[t].src = None
    BY <1>3, <2>1 DEF ThreadData, SourceData, LeadPlaces, AcquirePlaces, EvictPlaces, EvictReserved,
       FillPlaces, UndoPlaces
  <2>7. SourceData(t)'
    BY <2>2, <2>6 DEF SourceData, LeadPlaces, AcquirePlaces, EvictPlaces, EvictReserved, FillPlaces
  <2>8. FillData(t)'
    BY <2>2 DEF FillData, HeldPlaces, Published
  <2> QED
    BY <2>1, <2>2, <2>3, <2>5, <2>7, <2>8, LeaderKeeps DEF SlotPlaces, SnapPlaces,
       EvictPublished, EvictDetached
<1> QED
  BY <1>4, <1>5

(***************************************************************************)
(* A thread that handles a snapshot reads no slot and fills no frame.      *)
(***************************************************************************)
LEMMA SnapKeeps ==
    ASSUME IInv, IInv', DInv, NEW t \in Threads, Still(t), SnapData(t)',
           th[t].pc \in SnapPlaces \cup {"guard"},
           th'[t].pc \in SnapPlaces \cup {"idle"}, th'[t].src = th[t].src \/ th'[t].src = None,
           th'[t].new = th[t].new \/ th'[t].new = None
    PROVE  DInv' /\ UNCHANGED valueBar
<1> USE DEF SnapPlaces, SlotPlaces, EvictPublished, EvictDetached, LeadPlaces, AcquirePlaces,
            EvictPlaces, EvictReserved, FillPlaces, UndoPlaces
<1>1. ThreadData(t)
  BY DEF DInv
<1>2. th'[t].new = None /\ th'[t].src = None
  BY <1>1 DEF ThreadData, EvictData, SourceData
<1>3. OwesKept(t)
  BY DEF OwesKept, Owes
<1>4. EvictData(t)'
  BY <1>2 DEF EvictData
<1>5. SourceData(t)'
  BY <1>2 DEF SourceData
<1>6. FillData(t)'
  BY DEF FillData, HeldPlaces, Published
<1> QED
  BY <1>3, <1>4, <1>5, <1>6, StillKeeps DEF ThreadData

(***************************************************************************)
(* The page and the version of its latch are copied under a shared guard.  *)
(***************************************************************************)
LEMMA CapturesData ==
    ASSUME IInv, IInv', DInv, NEW t \in Threads, CaptureSnapshot(t)
    PROVE  DInv' /\ UNCHANGED valueBar
<1>1. PICK D : TypedOver(D)
  BY DEF IInv
<1>2. th \in [Threads -> LocalsOver(D)] /\ frames \in [Frames -> FrameOver(D)]
  BY <1>1 DEF TypedOver, SharedOver
<1>3. ThreadOK(t) /\ Backed(t)
  BY Needs DEF IInv
<1>4. PICK p, f : p = th[t].page /\ f = th[t].frame
  OBVIOUS
<1>5. /\ th[t].pc = "guard" /\ th[t].op = "optimistic"
      /\ UNCHANGED <<swip, pages, directory, slots, leader>>
  BY DEF CaptureSnapshot, At, pageVars, tiers
<1>6. /\ Moves(t) /\ th'[t].pc = "captured" /\ th'[t].src = th[t].src /\ th'[t].new = th[t].new
      /\ th'[t].page = p /\ th'[t].frame = f /\ th'[t].snap = frames[f].data
  BY <1>2, <1>4 DEF CaptureSnapshot, Moves, LocalsOver
<1>7. f \in Frames /\ p \in Pages
  BY <1>3, <1>4, <1>5 DEF Backed, GuardPlaces
<1>8. ResidentAt(p, f) /\ frames[f].writer = None
  <2>1. ResidentAt(p, f)
    BY <1>3, <1>4, <1>5 DEF ThreadOK, ExactOK, GuardPlaces
  <2>2. t \in frames[f].readers
    BY <1>3, <1>4, <1>5 DEF ThreadOK, LatchOK, GuardPlaces, SharedFix
  <2> QED
    BY <1>7, <2>1, <2>2 DEF IInv, LatchExcludes
<1> DEFINE r == [frames[f] EXCEPT !.snaps = @ \cup {t}]
<1>9. /\ r.data = frames[f].data /\ r.dirty = frames[f].dirty
      /\ r.snaps = frames[f].snaps \cup {t} /\ r.writer = None
  BY <1>2, <1>7, <1>8 DEF FrameOver
<1>10. frames' = [frames EXCEPT ![f] = r]
  BY <1>4 DEF CaptureSnapshot
<1> HIDE DEF r
<1>11. Still(t)
  BY <1>5, <1>6, <1>7, <1>9, <1>10, StillFrame DEF DInv, StoredOK
<1>12. frames'[f].data = frames[f].data
  BY <1>2, <1>7, <1>9, <1>10
<1>13. SnapData(t)'
  <2>1. frames[f].data \in Values
    BY <1>7 DEF DInv, StoredOK
  <2> QED
    BY <1>5, <1>6, <1>8, <1>12, <2>1 DEF SnapData, SnapPlaces, ResidentAt
<1> QED
  BY <1>5, <1>6, <1>11, <1>13, SnapKeeps DEF SnapPlaces

(***************************************************************************)
(* The guard is dropped: its pin, then its latch.                          *)
(***************************************************************************)
LEMMA DropsData ==
    ASSUME IInv, IInv', DInv, NEW t \in Threads, DropGuard(t) \/ DropLatch(t)
    PROVE  DInv' /\ UNCHANGED valueBar
<1>1. PICK D : TypedOver(D)
  BY DEF IInv
<1>2. th \in [Threads -> LocalsOver(D)] /\ frames \in [Frames -> FrameOver(D)]
  BY <1>1 DEF TypedOver, SharedOver
<1>3. ThreadData(t) /\ Backed(t)
  BY Needs DEF IInv, DInv
<1>4. PICK f : f = th[t].frame
  OBVIOUS
<1>5. /\ th[t].pc \in {"captured", "guard", "unpinned"}
      /\ UNCHANGED <<swip, pages, directory, slots, leader>>
  <2>1. CASE DropGuard(t)
    BY <2>1 DEF DropGuard, At, pageVars, tiers
  <2>2. CASE DropLatch(t)
    BY <2>2 DEF DropLatch, At, pageVars, tiers
  <2> QED
    BY <2>1, <2>2
<1>6. f \in Frames
  BY <1>3, <1>4, <1>5 DEF Backed, Fixing
<1>7. Moves(t) => /\ Still(t)
                  /\ frames'[f].data = frames[f].data /\ frames'[f].snaps = frames[f].snaps
  <2>1. CASE DropGuard(t)
    <3>1. frames' = [frames EXCEPT ![f].pin = frames[f].pin - 1]
      BY <1>4, <2>1 DEF DropGuard, Unpin
    <3>2. frames'[f].data = frames[f].data /\ frames'[f].snaps = frames[f].snaps
      BY <1>2, <1>6, <3>1 DEF FrameOver
    <3> QED
      BY <1>5, <1>6, <3>1, <3>2, StillPin
  <2>2. CASE DropLatch(t)
    <3>1. Unlock(t, f)
      BY <1>4, <2>2 DEF DropLatch
    <3>2. frames'[f].data = frames[f].data /\ frames'[f].snaps = frames[f].snaps
      BY <1>2, <1>6, <3>1 DEF FrameOver, Unlock
    <3> QED
      BY <1>5, <1>6, <3>1, <3>2, StillLatch
  <2> QED
    BY <2>1, <2>2
<1>8. \/ Ended(t)
      \/ Carries(t) /\ th'[t].pc \in {"unpinned", "snapshot"} /\ th'[t].frame = f
           /\ th'[t].new = th[t].new
  <2>1. CASE DropGuard(t)
    BY <1>2, <1>4, <2>1 DEF DropGuard, Goto, Carries, Moves, LocalsOver
  <2>2. CASE DropLatch(t) /\ th[t].op = "optimistic"
    BY <1>2, <1>4, <2>2 DEF DropLatch, Goto, Carries, Moves, LocalsOver
  <2>3. CASE DropLatch(t) /\ th[t].op # "optimistic"
    BY <1>2, <2>3 DEF DropLatch, Leave, Ended, Moves
  <2> QED
    BY <2>1, <2>2, <2>3
<1>9. CASE Ended(t)
  <2>1. th'[t].pc = "idle" /\ th'[t].src = None /\ th'[t].new = None /\ th'[t].snap = None
    BY <1>9 DEF Ended, Idle
  <2>2. SnapData(t)'
    BY <2>1 DEF SnapData
  <2> QED
    BY <1>5, <1>7, <1>9, <2>1, <2>2, SnapKeeps DEF SnapPlaces, Ended
<1>10. CASE Carries(t) /\ th'[t].pc \in {"unpinned", "snapshot"} /\ th'[t].frame = f
              /\ th'[t].new = th[t].new
  <2>1. th'[t].snap = th[t].snap /\ th'[t].page = th[t].page /\ th'[t].src = th[t].src /\ Moves(t)
    BY <1>10 DEF Carries
  <2>2. SnapData(t)'
    BY <1>3, <1>4, <1>5, <1>7, <1>10, <2>1 DEF ThreadData, SnapData, SnapPlaces, ResidentAt
  <2> QED
    BY <1>5, <1>7, <1>10, <2>1, <2>2, SnapKeeps DEF SnapPlaces
<1> QED
  BY <1>8, <1>9, <1>10

(***************************************************************************)
(* A snapshot is checked, and used again or dropped.                       *)
(***************************************************************************)
LEMMA ValidatesData ==
    ASSUME IInv, IInv', DInv, NEW t \in Threads, SnapshotExact(t) \/ SnapshotValidates(t)
    PROVE  DInv' /\ UNCHANGED valueBar
<1>1. PICK D : TypedOver(D)
  BY DEF IInv
<1>2. th \in [Threads -> LocalsOver(D)] /\ frames \in [Frames -> FrameOver(D)]
  BY <1>1 DEF TypedOver, SharedOver
<1>3. ThreadData(t) /\ Backed(t)
  BY Needs DEF IInv, DInv
<1>4. PICK f : f = th[t].frame
  OBVIOUS
<1>5. /\ th[t].pc \in {"snapshot", "validate"}
      /\ UNCHANGED <<swip, pages, directory, slots, leader>>
  <2>1. CASE SnapshotExact(t)
    BY <2>1 DEF SnapshotExact, At, pageVars, tiers
  <2>2. CASE SnapshotValidates(t)
    BY <2>2 DEF SnapshotValidates, At, pageVars, tiers
  <2> QED
    BY <2>1, <2>2
<1>6. f \in Frames
  BY <1>3, <1>4, <1>5 DEF Backed
<1>7. \/ DropSnapshot(t)
      \/ UNCHANGED frames /\ (Goto(t, "snapshot") \/ Goto(t, "validate"))
  BY DEF SnapshotExact, SnapshotValidates
<1>8. CASE DropSnapshot(t)
  <2>1. Moves(t) /\ th'[t] = Idle
    BY <1>2, <1>8 DEF DropSnapshot, Leave, Moves
  <2>2. th'[t].pc = "idle" /\ th'[t].src = None /\ th'[t].new = None /\ th'[t].snap = None
    BY <2>1 DEF Idle
  <2> DEFINE r == [frames[f] EXCEPT !.snaps = @ \ {t}]
  <2>3. /\ r.data = frames[f].data /\ r.dirty = frames[f].dirty
        /\ r.snaps = frames[f].snaps \ {t} /\ r.writer = frames[f].writer
    BY <1>2, <1>6 DEF FrameOver
  <2>4. frames' = [frames EXCEPT ![f] = r]
    BY <1>4, <1>8 DEF DropSnapshot
  <2> HIDE DEF r
  <2>5. Still(t)
    BY <1>5, <1>6, <2>1, <2>3, <2>4, StillFrame DEF DInv, StoredOK
  <2>6. SnapData(t)'
    BY <2>2 DEF SnapData
  <2> QED
    BY <1>5, <2>2, <2>5, <2>6, SnapKeeps DEF SnapPlaces
<1>9. CASE UNCHANGED frames /\ (Goto(t, "snapshot") \/ Goto(t, "validate"))
  <2>1. /\ Carries(t) /\ th'[t].pc \in {"snapshot", "validate"} /\ th'[t].frame = f
        /\ th'[t].new = th[t].new
    BY <1>2, <1>4, <1>9 DEF Goto, Carries, Moves, LocalsOver
  <2>2. Still(t)
    BY <1>5, <1>9, <2>1, StillApart DEF Carries
  <2>3. SnapData(t)'
    BY <1>3, <1>4, <1>5, <1>9, <2>1 DEF ThreadData, SnapData, SnapPlaces, Carries, ResidentAt
  <2> QED
    BY <1>5, <2>1, <2>2, <2>3, SnapKeeps DEF SnapPlaces, Carries
<1> QED
  BY <1>7, <1>8, <1>9

(***************************************************************************)
(* An evictor that has published goes on without touching a slot.          *)
(***************************************************************************)
LEMMA EvictorKeeps ==
    ASSUME IInv, IInv', DInv, NEW t \in Threads, Still(t), Carries(t), UNCHANGED leader,
           th'[t].new = th[t].new, th'[t].old = th[t].old,
           th[t].pc \in EvictDetached, th'[t].pc \in EvictPublished \ {"ev_unswizzle"}
    PROVE  DInv' /\ UNCHANGED valueBar
<1> USE DEF EvictPublished, EvictDetached
<1>1. ThreadData(t)
  BY DEF DInv
<1>2. OwesKept(t)
  BY DEF OwesKept, Owes
<1>3. EvictData(t)'
  BY DEF EvictData, SlotPlaces
<1>4. SourceKept(t)
  BY DEF SourceKept, Carries, LeadPlaces, AcquirePlaces, EvictPlaces, EvictReserved
<1>5. SourceData(t)'
  BY <1>4, SourceStays
<1>6. FillData(t)'
  BY DEF FillData, HeldPlaces, Published
<1>7. SnapData(t)'
  <2>1. th[t].snap = None
    BY <1>1 DEF ThreadData, SnapData, SnapPlaces
  <2> QED
    BY <2>1 DEF SnapData, Carries
<1> QED
  BY <1>2, <1>3, <1>5, <1>6, <1>7, StillKeeps DEF ThreadData

(***************************************************************************)
(* The marker is removed, the frame cleared, released and given back.      *)
(***************************************************************************)
LEMMA DetachedData ==
    ASSUME IInv, IInv', DInv, NEW t \in Threads,
           \/ EvictMarker(t) \/ EvictUnlatch(t) \/ EvictClear(t) \/ EvictRelease(t) \/ EvictPush(t)
    PROVE  DInv' /\ UNCHANGED valueBar
<1>1. PICK D : TypedOver(D)
  BY DEF IInv
<1>2. th \in [Threads -> LocalsOver(D)] /\ frames \in [Frames -> FrameOver(D)]
  BY <1>1 DEF TypedOver, SharedOver
<1>3. Backed(t)
  BY Needs
<1>4. PICK f : f = th[t].ticket.frame
  OBVIOUS
<1>5. th[t].pc \in EvictDetached => f \in Frames
  BY <1>3, <1>4 DEF Backed, EvictPlaces, EvictReserved, EvictDetached
<1>6. CASE EvictMarker(t)
  <2>1. /\ th[t].pc = "ev_marker" /\ UNCHANGED <<swip, pages, frames, directory, slots, leader>>
        /\ Goto(t, "ev_unlatch")
    BY <1>6 DEF EvictMarker, At, pageVars, tiers
  <2>2. /\ Carries(t) /\ th'[t].pc = "ev_unlatch" /\ th'[t].new = th[t].new
        /\ th'[t].old = th[t].old
    BY <1>2, <2>1 DEF Goto, Carries, Moves, LocalsOver
  <2>3. Still(t)
    BY <2>1, <2>2, StillApart DEF Carries
  <2> QED
    BY <2>1, <2>2, <2>3, EvictorKeeps DEF EvictPublished, EvictDetached
<1>7. CASE EvictUnlatch(t)
  <2>1. /\ th[t].pc = "ev_unlatch" /\ UNCHANGED <<swip, pages, directory, slots, leader>>
        /\ Goto(t, "ev_clear") /\ Unlock(t, f)
    BY <1>4, <1>7 DEF EvictUnlatch, At, pageVars, tiers
  <2>2. /\ Carries(t) /\ th'[t].pc = "ev_clear" /\ th'[t].new = th[t].new
        /\ th'[t].old = th[t].old
    BY <1>2, <2>1 DEF Goto, Carries, Moves, LocalsOver
  <2>3. Still(t)
    BY <1>5, <2>1, <2>2, StillLatch DEF Carries, EvictDetached
  <2> QED
    BY <2>1, <2>2, <2>3, EvictorKeeps DEF EvictPublished, EvictDetached
<1>8. CASE EvictClear(t)
  <2>1. /\ th[t].pc = "ev_clear" /\ UNCHANGED <<swip, pages, directory, slots, leader>>
        /\ Goto(t, "ev_release") /\ frames[f].writer = None
        /\ frames' = [frames EXCEPT ![f].pid = None, ![f].dirty = FALSE, ![f].snaps = {}]
    BY <1>4, <1>8 DEF EvictClear, CanLockExclusive, At, pageVars, tiers
  <2>2. /\ Carries(t) /\ th'[t].pc = "ev_release" /\ th'[t].new = th[t].new
        /\ th'[t].old = th[t].old
    BY <1>2, <2>1 DEF Goto, Carries, Moves, LocalsOver
  <2>3. f \in Frames /\ f \in OwnedBy(th[t])
    BY <1>4, <1>5, <2>1 DEF EvictDetached, OwnedBy
  <2> DEFINE r == [frames[f] EXCEPT !.pid = None, !.dirty = FALSE, !.snaps = {}]
  <2>4. r.data = frames[f].data /\ r.snaps = {}
    BY <1>2, <2>3 DEF FrameOver
  <2>5. frames' = [frames EXCEPT ![f] = r]
    BY <1>2, <2>1, <2>3
  <2> HIDE DEF r
  <2>6. Still(t)
    BY <2>1, <2>2, <2>3, <2>4, <2>5, StillFrame DEF Carries, DInv, StoredOK
  <2> QED
    BY <2>1, <2>2, <2>6, EvictorKeeps DEF EvictPublished, EvictDetached
<1>9. CASE EvictRelease(t)
  <2>1. /\ th[t].pc = "ev_release" /\ UNCHANGED <<swip, pages, directory, slots, leader>>
        /\ Goto(t, "ev_push") /\ frames' = [frames EXCEPT ![f].pin = 0]
    BY <1>4, <1>9 DEF EvictRelease, Release, At, pageVars, tiers
  <2>2. /\ Carries(t) /\ th'[t].pc = "ev_push" /\ th'[t].new = th[t].new
        /\ th'[t].old = th[t].old
    BY <1>2, <2>1 DEF Goto, Carries, Moves, LocalsOver
  <2>3. Still(t)
    BY <1>5, <2>1, <2>2, StillPin DEF Carries, EvictDetached
  <2> QED
    BY <2>1, <2>2, <2>3, EvictorKeeps DEF EvictPublished, EvictDetached
<1>10. CASE EvictPush(t)
  <2>1. /\ th[t].pc = "ev_push" /\ UNCHANGED <<swip, pages, frames, directory, slots, leader>>
        /\ Goto(t, "ev_free")
    BY <1>10 DEF EvictPush, At, pageVars, tiers
  <2>2. /\ Carries(t) /\ th'[t].pc = "ev_free" /\ th'[t].new = th[t].new
        /\ th'[t].old = th[t].old
    BY <1>2, <2>1 DEF Goto, Carries, Moves, LocalsOver
  <2>3. Still(t)
    BY <2>1, <2>2, StillApart DEF Carries
  <2> QED
    BY <2>1, <2>2, <2>3, EvictorKeeps DEF EvictPublished, EvictDetached
<1> QED
  BY <1>6, <1>7, <1>8, <1>9, <1>10

(***************************************************************************)
(* Under the latch the evictor decides whether the page must be written.   *)
(***************************************************************************)
LEMMA RecheckData ==
    ASSUME IInv, IInv', DInv, NEW t \in Threads, EvictRecheck(t)
    PROVE  DInv' /\ UNCHANGED valueBar
<1>1. PICK D : TypedOver(D)
  BY DEF IInv
<1>2. th \in [Threads -> LocalsOver(D)]
  BY <1>1 DEF TypedOver
<1>3. ThreadData(t) /\ Backed(t)
  BY Needs DEF IInv, DInv
<1>4. PICK k : k = th[t].ticket
  OBVIOUS
<1>5. th[t].pc = "ev_recheck" /\ UNCHANGED <<pages, frames, directory, slots, leader>>
  BY DEF EvictRecheck, At, queues, tiers, prefetchVars
<1>6. k.pid \in Pages /\ k.frame \in Frames
  BY <1>3, <1>4, <1>5 DEF Backed, EvictPlaces, EvictReserved
<1>7. HomesKept
  <2>1. CASE TryResurrect(k.pid, k.frame)
    BY <1>1, <1>6, <2>1, SwipSet
  <2>2. CASE UNCHANGED swip
    BY <2>2 DEF HomesKept
  <2> QED
    BY <1>4, <2>1, <2>2 DEF EvictRecheck
<1>8. th[t].new = None /\ th[t].snap = None
  BY <1>3, <1>5 DEF ThreadData, EvictData, SnapData, SlotPlaces, EvictPublished, EvictDetached,
     SnapPlaces
<1>9. /\ Carries(t) /\ th'[t].new = None /\ th'[t].ticket = k
      /\ \/ th'[t].pc = "ev_abort"
         \/ /\ k.pid \in pages /\ th'[t].old = directory[k.pid]
            /\ \/ th'[t].pc = "ev_write"
               \/ th'[t].pc = "ev_publish" /\ ~frames[k.frame].dirty
  <2>1. CASE ExactCoolingOwner(k)
    <3>1. th' = [th EXCEPT ![t].old = directory[k.pid],
                           ![t].pc = IF frames[k.frame].dirty \/ directory[k.pid] = None
                                     THEN "ev_write" ELSE "ev_publish"]
      BY <1>4, <2>1 DEF EvictRecheck
    <3>2. k.pid \in pages
      BY <2>1 DEF ExactCoolingOwner
    <3> QED
      BY <1>2, <1>4, <1>8, <3>1, <3>2 DEF Carries, Moves, LocalsOver
  <2>2. CASE ~ExactCoolingOwner(k)
    <3>1. th' = [th EXCEPT ![t].pc = "ev_abort", ![t].result = "stale"]
      BY <1>4, <2>2 DEF EvictRecheck
    <3> QED
      BY <1>2, <1>4, <1>8, <3>1 DEF Carries, Moves, LocalsOver
  <2> QED
    BY <2>1, <2>2
<1>10. Still(t)
  BY <1>5, <1>7, <1>9, StillSwip DEF Carries
<1>11. OwesKept(t)
  BY <1>5, <1>9, PoolAssumption DEF OwesKept, Owes, EvictPublished, EvictDetached
<1>12. EvictData(t)'
  BY <1>5, <1>9 DEF EvictData
<1>13. SourceKept(t)
  BY <1>5, <1>9 DEF SourceKept, Carries, LeadPlaces, AcquirePlaces, EvictPlaces, EvictReserved
<1>14. SourceData(t)'
  BY <1>9, <1>10, <1>13, SourceStays
<1>15. FillData(t)'
  BY <1>9 DEF FillData, HeldPlaces, Published
<1>16. SnapData(t)'
  BY <1>8, <1>9 DEF SnapData, Carries
<1> QED
  BY <1>10, <1>11, <1>12, <1>14, <1>15, <1>16, StillKeeps DEF ThreadData

-----------------------------------------------------------------------------
(***************************************************************************)
(* A thread that is filling a frame owns it, and its page has no other.    *)
(***************************************************************************)
LEMMA Held ==
    ASSUME IInv, NEW u \in Threads, th[u].pc \in HeldPlaces
    PROVE  /\ th[u].page \in Pages /\ th[u].frame \in Frames /\ th[u].frame \in OwnedBy(th[u])
           /\ swip[th[u].page] = Evicted
<1> USE DEF HeldPlaces, Published
<1>1. \E D : TypedOver(D)
  BY DEF IInv
<1>2. th[u].op \in Operations \cup {None}
  BY <1>1 DEF TypedOver, LocalsOver
<1>3. PlaceOK(u) /\ Backed(u)
  BY Needs DEF IInv, ThreadOK
<1>4. th[u].op \in FixOps \cup {"prefetch", "alloc"}
  BY <1>2, <1>3 DEF PlaceOK, Operations, FixOps, EvictPlaces, EvictReserved, UndoPlaces
<1>5. th[u].page \in Pages
  BY <1>3, <1>4 DEF Backed, FillPlaces
<1>6. th[u].frame \in Frames
  BY <1>3 DEF Backed, Reserved
<1>7. swip[th[u].page] = Evicted
  <2>1. VacantOK(u)
    BY DEF IInv, ThreadOK
  <2> QED
    BY <1>3, <1>4, <2>1 DEF VacantOK, PlaceOK, FillPlaces, FixOps, AcquirePlaces, EvictPlaces,
       EvictReserved, UndoPlaces, TaskPlaces, Fixing
<1> QED
  BY <1>5, <1>6, <1>7 DEF OwnedBy, Reserved

(***************************************************************************)
(* An evictor that leads a fault keeps the slot it has looked up for it.   *)
(***************************************************************************)
LEMMA EvictorSource ==
    ASSUME IInv, DInv, NEW t \in Threads, Carries(t), UNCHANGED leader, th[t].pc \in EvictPlaces,
           th'[t].pc \in AcquirePlaces \/ th[t].op = "shutdown", th'[t].pc # "unpin",
           th[t].src # None => /\ directory'[th[t].page] = directory[th[t].page]
                               /\ swip'[th[t].page] = swip[th[t].page]
    PROVE  SourceData(t)'
<1> USE DEF LeadPlaces, AcquirePlaces, EvictPlaces, EvictReserved
<1>1. SourceData(t)
  BY DEF DInv, ThreadData
<1>2. th'[t].op = th[t].op /\ th'[t].page = th[t].page /\ th'[t].src = th[t].src
  BY DEF Carries
<1>3. CASE th[t].src = None
  <2>1. th[t].op \notin FixOps \cup {"prefetch"}
    BY <1>1, <1>3 DEF SourceData
  <2> QED
    BY <1>2, <1>3, <2>1 DEF SourceData
<1>4. CASE th[t].src # None
  <2>1. th[t].op \in FixOps \cup {"prefetch"}
    BY <1>1, <1>4 DEF SourceData
  <2>2. th'[t].pc \in AcquirePlaces
    BY <2>1 DEF FixOps
  <2>3. leader[th[t].page] = t /\ swip[th[t].page] = Evicted /\ th[t].src = directory[th[t].page]
    BY <1>1, <1>4 DEF SourceData
  <2> QED
    BY <1>2, <1>4, <2>1, <2>2, <2>3 DEF SourceData
<1> QED
  BY <1>3, <1>4

(***************************************************************************)
(* Writing or freeing a slot that backs no page and that no other evictor  *)
(* is responsible for disturbs nobody.                                     *)
(***************************************************************************)
LEMMA SlotKeeps ==
    ASSUME IInv, DInv, NEW t \in Threads, Moves(t),
           UNCHANGED <<swip, pages, frames, directory, leader>>,
           NEW s \in Slots, NEW v \in Values \cup {None}, slots' = [slots EXCEPT ![s] = v],
           \A p \in Pages : directory[p] # s, \A u \in Threads \ {t} : ~Owes(u, s)
    PROVE  /\ BackingOK' /\ CleanOK' /\ StoredOK'
           /\ \A u \in Threads \ {t} : ThreadData(u)'
           /\ UNCHANGED valueBar
<1>1. PICK D : TypedOver(D)
  BY DEF IInv
<1>2. slots \in [Slots -> D \cup {None}] /\ pages \in SUBSET Pages
  BY <1>1 DEF TypedOver, SharedOver
<1>3. \A x \in Slots \ {s} : slots'[x] = slots[x]
  BY <1>2
<1>4. slots'[s] = v
  BY <1>2
<1>5. \A p \in Pages : slots'[directory[p]] = slots[directory[p]]
  BY <1>2
<1>6. BackingOK'
  BY <1>5 DEF DInv, BackingOK
<1>7. \A p \in Pages, f \in Frames : Agrees(p, f)' <=> Agrees(p, f)
  BY <1>5 DEF Agrees
<1>8. CleanOK'
  BY <1>7 DEF DInv, CleanOK, ResidentAt
<1>9. StoredOK'
  BY <1>3, <1>4 DEF DInv, StoredOK
<1>10. ASSUME NEW u \in Threads \ {t} PROVE ThreadData(u)'
  <2>1. th'[u] = th[u] /\ ThreadData(u)
    BY DEF Moves, DInv
  <2>2. th[u].pc = "ev_publish" => th[u].new # s
    BY DEF Owes
  <2>3. th[u].new \in Slots \cup {None}
    BY <1>1 DEF TypedOver, LocalsOver
  <2>4. EvictData(u)'
    BY <1>3, <2>1, <2>2, <2>3 DEF ThreadData, EvictData
  <2>5. SourceData(u)' /\ SnapData(u)'
    BY <2>1 DEF ThreadData, SourceData, SnapData, ResidentAt
  <2>6. FillData(u)'
    <3>1. th[u].pc \in HeldPlaces => th[u].page \in Pages /\ th[u].frame \in Frames
      BY Held
    <3> QED
      BY <1>7, <2>1, <3>1 DEF ThreadData, FillData, HeldPlaces
  <2> QED
    BY <2>4, <2>5, <2>6 DEF ThreadData
<1>11. UNCHANGED valueBar
  <2>1. \A p \in Pages : ValueOf(p)' = ValueOf(p)
    BY <1>5 DEF ValueOf
  <2> HIDE DEF ValueOf
  <2> QED
    BY <2>1, Bars
<1> QED
  BY <1>6, <1>8, <1>9, <1>10, <1>11

(***************************************************************************)
(* The page is written to a free slot.                                     *)
(***************************************************************************)
LEMMA WritesData ==
    ASSUME IInv, IInv', DInv, NEW t \in Threads, EvictWrite(t)
    PROVE  DInv' /\ UNCHANGED valueBar
<1>1. PICK D : TypedOver(D)
  BY DEF IInv
<1>2. th \in [Threads -> LocalsOver(D)] /\ slots \in [Slots -> D \cup {None}]
  BY <1>1 DEF TypedOver, SharedOver
<1>3. ThreadData(t) /\ Backed(t)
  BY Needs DEF IInv, DInv
<1>4. PICK k : k = th[t].ticket
  OBVIOUS
<1>5. th[t].pc = "ev_write" /\ UNCHANGED <<swip, pages, frames, directory, leader>>
  BY DEF EvictWrite, At, pageVars
<1>6. k.frame \in Frames /\ frames[k.frame].data \in Values
  BY <1>3, <1>4, <1>5 DEF Backed, EvictPlaces, EvictReserved, DInv, StoredOK
<1>7. PICK s \in Slots :
          /\ slots[s] = None
          /\ slots' = [slots EXCEPT ![s] = frames[k.frame].data]
          /\ th' = [th EXCEPT ![t].pc = "ev_publish", ![t].new = s]
  BY <1>4 DEF EvictWrite
<1>8. /\ Moves(t) /\ th'[t].pc = "ev_publish" /\ th'[t].new = s /\ th'[t].ticket = k
      /\ th'[t].old = th[t].old /\ th'[t].snap = th[t].snap
      /\ th'[t].op = th[t].op /\ th'[t].page = th[t].page /\ th'[t].src = th[t].src
  BY <1>2, <1>4, <1>7 DEF Moves, LocalsOver
<1>9. th[t].new = None /\ th[t].snap = None
  BY <1>3, <1>5 DEF ThreadData, EvictData, SnapData, SlotPlaces, EvictPublished, EvictDetached,
     SnapPlaces
<1>10. (\A p \in Pages : directory[p] # s) /\ (\A u \in Threads : ~Owes(u, s))
  BY <1>7, PoolAssumption DEF DInv, BackingOK, OwedOK
<1>11. /\ BackingOK' /\ CleanOK' /\ StoredOK'
       /\ \A u \in Threads \ {t} : ThreadData(u)'
       /\ UNCHANGED valueBar
  BY <1>5, <1>6, <1>7, <1>8, <1>10, SlotKeeps
<1>12. slots'[s] = frames[k.frame].data /\ slots'[s] # None
  BY <1>2, <1>6, <1>7, PoolAssumption
<1>13. OwedOK'
  <2>1. \A u \in Threads \ {t}, x \in Slots : Owes(u, x)' <=> Owes(u, x)
    BY <1>8 DEF Moves, Owes
  <2>2. \A x \in Slots : Owes(t, x)' <=> x = s
    BY <1>8 DEF Owes, EvictPublished, EvictDetached
  <2>3. \A x \in Slots : ~Owes(t, x)
    BY <1>5 DEF Owes, EvictPublished, EvictDetached
  <2>4. \A x \in Slots \ {s} : slots'[x] = slots[x]
    BY <1>2, <1>7
  <2> HIDE DEF Owes
  <2> QED
    BY <1>5, <1>10, <1>12, <2>1, <2>2, <2>3, <2>4 DEF DInv, OwedOK
<1>14. ThreadData(t)'
  <2>1. EvictData(t)'
    BY <1>3, <1>4, <1>5, <1>8, <1>12, PoolAssumption DEF ThreadData, EvictData, SlotPlaces
  <2>2. SourceData(t)'
    <3>1. SourceData(t)
      BY <1>3 DEF ThreadData
    <3> QED
      BY <1>5, <1>8, <3>1 DEF SourceData, LeadPlaces, AcquirePlaces, EvictPlaces, EvictReserved
  <2>3. FillData(t)'
    BY <1>8 DEF FillData, HeldPlaces, Published
  <2>4. SnapData(t)'
    BY <1>8, <1>9 DEF SnapData
  <2> QED
    BY <2>1, <2>2, <2>3, <2>4 DEF ThreadData
<1> QED
  BY <1>11, <1>13, <1>14 DEF DInv

(***************************************************************************)
(* The superseded slot is freed.                                           *)
(***************************************************************************)
LEMMA FreesData ==
    ASSUME IInv, IInv', DInv, NEW t \in Threads, EvictFreeOld(t)
    PROVE  DInv' /\ UNCHANGED valueBar
<1>1. PICK D : TypedOver(D)
  BY DEF IInv
<1>2. th \in [Threads -> LocalsOver(D)] /\ slots \in [Slots -> D \cup {None}]
  BY <1>1 DEF TypedOver, SharedOver
<1>3. ThreadData(t) /\ ThreadOK(t)
  BY DEF IInv, DInv
<1>4. th[t].pc = "ev_free" /\ UNCHANGED <<swip, pages, frames, directory, leader>>
  BY DEF EvictFreeOld, At, pageVars
<1>5. /\ Carries(t) /\ th'[t].pc = AfterEvict(t, "freed") /\ th'[t].new = None
  BY <1>2 DEF EvictFreeOld, EvictionReturns, Carries, Moves, LocalsOver
<1>6. /\ th'[t].pc \in {"sd_failed", "flush", "freed", "take"}
      /\ th'[t].pc \in {"sd_failed", "flush"} => th[t].op = "shutdown"
  BY <1>5 DEF AfterEvict
<1>7. ThreadData(t)'
  <2>1. EvictData(t)'
    BY <1>5, <1>6 DEF EvictData
  <2>2. SourceData(t)'
    BY <1>4, <1>5, <1>6, EvictorSource DEF EvictPlaces, AcquirePlaces
  <2>3. FillData(t)'
    BY <1>6 DEF FillData, HeldPlaces, Published
  <2>4. SnapData(t)'
    BY <1>3, <1>4, <1>5 DEF ThreadData, SnapData, SnapPlaces, Carries
  <2> QED
    BY <2>1, <2>2, <2>3, <2>4 DEF ThreadData
<1>8. CASE th[t].new # None /\ th[t].old # None
  <2>1. PICK s : s = th[t].old
    OBVIOUS
  <2>2. s \in Slots /\ slots' = [slots EXCEPT ![s] = None]
    BY <1>2, <1>8, <2>1 DEF EvictFreeOld, LocalsOver
  <2>3. Owes(t, s) /\ \A x \in Slots : Owes(t, x) => x = s
    BY <1>4, <1>8, <2>1 DEF Owes, EvictPublished
  <2>4. (\A p \in Pages : directory[p] # s) /\ (\A u \in Threads \ {t} : ~Owes(u, s))
    BY <2>2, <2>3 DEF DInv, OwedOK
  <2>5. /\ BackingOK' /\ CleanOK' /\ StoredOK'
        /\ \A u \in Threads \ {t} : ThreadData(u)'
        /\ UNCHANGED valueBar
    BY <1>4, <1>5, <2>2, <2>4, SlotKeeps DEF Carries
  <2>6. OwedOK'
    <3>1. \A u \in Threads \ {t}, x \in Slots : Owes(u, x)' <=> Owes(u, x)
      BY <1>5 DEF Carries, Moves, Owes
    <3>2. \A x \in Slots : ~Owes(t, x)'
      BY <1>5, <1>6 DEF Owes, EvictPublished, EvictDetached
    <3>3. slots'[s] = None /\ \A x \in Slots \ {s} : slots'[x] = slots[x]
      BY <1>2, <2>2
    <3> HIDE DEF Owes
    <3> QED
      BY <1>4, <2>3, <2>4, <3>1, <3>2, <3>3 DEF DInv, OwedOK
  <2> QED
    BY <1>7, <2>5, <2>6 DEF DInv
<1>9. CASE ~(th[t].new # None /\ th[t].old # None)
  <2>1. UNCHANGED slots
    BY <1>9 DEF EvictFreeOld
  <2>2. Still(t)
    BY <1>4, <1>5, <2>1, StillApart DEF Carries
  <2>3. OwesKept(t)
    BY <1>4, <1>5, <1>6, <1>9, PoolAssumption DEF OwesKept, Owes, EvictPublished, EvictDetached
  <2> QED
    BY <1>7, <2>2, <2>3, StillKeeps
<1> QED
  BY <1>8, <1>9


(***************************************************************************)
(* The new location is published, and the frame becomes clean.             *)
(***************************************************************************)
LEMMA LocationData ==
    ASSUME IInv, IInv', DInv, NEW t \in Threads, EvictPublish(t)
    PROVE  DInv' /\ UNCHANGED valueBar
<1>1. PICK D : TypedOver(D)
  BY DEF IInv
<1>2. /\ th \in [Threads -> LocalsOver(D)] /\ frames \in [Frames -> FrameOver(D)]
      /\ directory \in [Pages -> Slots \cup {None}]
  BY <1>1 DEF TypedOver, SharedOver
<1>3. ThreadData(t) /\ ThreadOK(t) /\ Backed(t)
  BY Needs DEF IInv, DInv
<1>4. PICK k, p, f, s : /\ k = th[t].ticket /\ p = k.pid /\ f = k.frame /\ s = th[t].new
  OBVIOUS
<1>5. /\ th[t].pc = "ev_publish" /\ UNCHANGED <<swip, pages, slots, leader>>
      /\ directory' = [directory EXCEPT ![p] = IF s = None THEN @ ELSE s]
      /\ frames' = [frames EXCEPT ![f].dirty = FALSE]
  BY <1>4 DEF EvictPublish, At, pageVars
<1>6. p \in Pages /\ f \in Frames
  BY <1>3, <1>4, <1>5 DEF Backed, EvictPlaces, EvictReserved
<1>7. /\ Carries(t) /\ th'[t].pc = "ev_unswizzle" /\ th'[t].new = s /\ th'[t].old = th[t].old
      /\ th'[t].ticket = k
  BY <1>2, <1>4 DEF EvictPublish, Goto, Carries, Moves, LocalsOver
<1>8. ResidentAt(p, f) /\ swip[p] = Cooling(f) /\ f \in ReservedBy(th[t])
  BY <1>3, <1>4, <1>5, <1>6 DEF ThreadOK, EvictorOK, ResidentAt, ReservedBy, EvictReserved
<1>9. /\ p \in pages /\ th[t].old = directory[p]
      /\ IF s = None THEN ~frames[f].dirty ELSE slots[s] = frames[f].data
  BY <1>3, <1>4, <1>5 DEF ThreadData, EvictData
<1>10. /\ \A g \in Frames : /\ frames'[g].data = frames[g].data /\ frames'[g].snaps = frames[g].snaps
                            /\ frames'[g].writer = frames[g].writer
                            /\ g # f => frames'[g].dirty = frames[g].dirty
       /\ frames'[f].dirty = FALSE
  BY <1>2, <1>5, <1>6 DEF FrameOver
<1>11. ThreadData(t)'
  <2>1. EvictData(t)'
    BY <1>4, <1>7, <1>10 DEF EvictData, SlotPlaces, EvictPublished
  <2>2. SourceData(t)'
    <3>1. th[t].src # None => directory'[th[t].page] = directory[th[t].page]
      <4> SUFFICES ASSUME th[t].src # None PROVE directory'[th[t].page] = directory[th[t].page]
        OBVIOUS
      <4>1. swip[th[t].page] = Evicted /\ th[t].page \in Pages
        BY <1>3, <1>5 DEF ThreadData, SourceData, Backed
      <4> QED
        BY <1>2, <1>5, <1>8, <4>1 DEF Evicted, Cooling
    <3> QED
      BY <1>5, <1>7, <3>1, EvictorSource DEF EvictPlaces, AcquirePlaces, EvictReserved
  <2>3. FillData(t)'
    BY <1>7 DEF FillData, HeldPlaces, Published
  <2>4. SnapData(t)'
    BY <1>3, <1>5, <1>7 DEF ThreadData, SnapData, SnapPlaces, Carries
  <2> QED
    BY <2>1, <2>2, <2>3, <2>4 DEF ThreadData
<1>12. CASE s = None
  <2>1. UNCHANGED directory
    BY <1>2, <1>5, <1>12
  <2>2. HomesKept /\ PagesGrow
    BY <1>5 DEF HomesKept, PagesGrow
  <2>3. \A g \in Frames : frames[g].dirty \in BOOLEAN
    BY <1>2 DEF FrameOver
  <2>4. \A g \in Frames : FrameStill(t, g)
    BY <1>9, <1>10, <1>12, <2>3 DEF FrameStill, DInv, StoredOK
  <2>5. Still(t)
    BY <1>5, <1>7, <2>1, <2>2, <2>4 DEF Still, tiers, Carries
  <2>6. OwesKept(t)
    BY <1>4, <1>5, <1>7, <1>12, PoolAssumption DEF OwesKept, Owes, EvictPublished, EvictDetached
  <2> QED
    BY <1>11, <2>5, <2>6, StillKeeps
<1>13. CASE s # None
  <2>1. s \in Slots
    BY <1>2, <1>4, <1>13 DEF LocalsOver
  <2>2. directory' = [directory EXCEPT ![p] = s]
    BY <1>2, <1>5, <1>13
  <2>3. directory'[p] = s /\ \A q \in Pages \ {p} : directory'[q] = directory[q]
    BY <1>2, <1>6, <2>2
  <2>4. Owes(t, s) /\ \A x \in Slots : Owes(t, x) => x = s
    BY <1>4, <1>5 DEF Owes, EvictPublished, EvictDetached
  <2>5. slots[s] # None /\ slots[s] = frames[f].data /\ \A q \in Pages : directory[q] # s
    BY <1>9, <1>13, <2>1, <2>4 DEF DInv, OwedOK
  <2>6. \A x \in Slots : Owes(t, x)' <=> x = directory[p]
    BY <1>7, <1>9, <1>13 DEF Owes, EvictPublished
  <2>7. \A u \in Threads \ {t}, x \in Slots : Owes(u, x)' <=> Owes(u, x)
    BY <1>7 DEF Carries, Moves, Owes
  <2>8. BackingOK'
    BY <1>5, <1>9, <2>1, <2>3, <2>5, PoolAssumption DEF DInv, BackingOK
  <2>9. OwedOK'
    <3> HIDE DEF Owes
    <3>1. ASSUME NEW u \in Threads, NEW x \in Slots, Owes(u, x)'
          PROVE  slots[x] # None /\ \A q \in Pages : directory'[q] # x
      <4>1. CASE u = t
        <5>1. x = directory[p] /\ x # s
          BY <1>6, <2>5, <2>6, <3>1, <4>1
        <5>2. x # None
          BY PoolAssumption
        <5> QED
          BY <1>6, <2>3, <5>1, <5>2 DEF DInv, BackingOK
      <4>2. CASE u # t
        <5>1. Owes(u, x)
          BY <2>7, <3>1, <4>2
        <5>2. x # s
          BY <2>1, <2>4, <4>2, <5>1 DEF DInv, OwedOK
        <5> QED
          BY <2>3, <5>1, <5>2 DEF DInv, OwedOK
      <4> QED
        BY <4>1, <4>2
    <3>2. ASSUME NEW u \in Threads, NEW v \in Threads, NEW x \in Slots, Owes(u, x)', Owes(v, x)'
          PROVE  u = v
      <4>1. CASE u # t /\ v # t
        BY <2>7, <3>2, <4>1 DEF DInv, OwedOK
      <4>2. CASE u = t /\ v # t
        BY <1>6, <2>6, <2>7, <3>2, <4>2 DEF DInv, OwedOK
      <4>3. CASE u # t /\ v = t
        BY <1>6, <2>6, <2>7, <3>2, <4>3 DEF DInv, OwedOK
      <4> QED
        BY <4>1, <4>2, <4>3
    <3>3. ASSUME NEW x \in Slots, slots[x] # None
          PROVE  (\E q \in Pages : directory'[q] = x) \/ \E u \in Threads : Owes(u, x)'
      <4>1. CASE x = s
        BY <1>6, <2>3, <4>1
      <4>2. CASE x = directory[p]
        BY <2>6, <4>2
      <4>3. CASE x # s /\ x # directory[p]
        <5>1. CASE \E q \in Pages : directory[q] = x
          BY <2>3, <4>3, <5>1
        <5>2. CASE \E u \in Threads : Owes(u, x)
          BY <2>4, <2>7, <4>3, <5>2
        <5> QED
          BY <3>3, <5>1, <5>2 DEF DInv, OwedOK
      <4> QED
        BY <4>1, <4>2, <4>3
    <3> QED
      BY <1>5, <3>1, <3>2, <3>3 DEF OwedOK
  <2>10. CleanOK'
    <3> SUFFICES ASSUME NEW q \in Pages, NEW g \in Frames, ResidentAt(q, g)', ~frames'[g].dirty
                 PROVE  Agrees(q, g)'
      BY DEF CleanOK
    <3>1. ResidentAt(q, g)
      BY <1>5 DEF ResidentAt
    <3>2. CASE q = p
      <4>1. g = f
        BY <1>8, <3>1, <3>2 DEF ResidentAt, Hot, Cooling
      <4> QED
        BY <1>5, <1>6, <1>10, <1>13, <2>3, <2>5, <3>2, <4>1 DEF Agrees
    <3>3. CASE q # p
      <4>1. g # f
        BY <1>6, <1>8, <3>1, <3>3, Sole
      <4>2. Agrees(q, g)
        BY <1>10, <3>1, <4>1 DEF DInv, CleanOK
      <4> QED
        BY <1>5, <1>10, <2>3, <3>3, <4>2 DEF Agrees
    <3> QED
      BY <3>2, <3>3
  <2>11. StoredOK'
    BY <1>5, <1>10 DEF DInv, StoredOK
  <2>12. ASSUME NEW u \in Threads \ {t} PROVE ThreadData(u)'
    <3>1. th'[u] = th[u] /\ ThreadData(u) /\ ThreadOK(u) /\ Backed(u)
      BY <1>7, Needs DEF Carries, Moves, IInv, DInv
    <3>2. EvictData(u)'
      <4>1. PICK l : l = th[u].ticket
        OBVIOUS
      <4>2. th[u].pc \in {"ev_write", "ev_publish", "ev_unswizzle"} =>
               /\ l.pid \in Pages \ {p} /\ l.frame \in Frames
        <5> SUFFICES ASSUME th[u].pc \in {"ev_write", "ev_publish", "ev_unswizzle"}
                     PROVE  l.pid \in Pages \ {p} /\ l.frame \in Frames
          OBVIOUS
        <5>1. l.pid \in Pages /\ l.frame \in Frames
          BY <3>1, <4>1 DEF Backed, EvictPlaces, EvictReserved
        <5>2. swip[l.pid] = Cooling(l.frame) /\ l.frame \in ReservedBy(th[u])
          BY <3>1, <4>1, <5>1 DEF ThreadOK, EvictorOK, ReservedBy, EvictReserved
        <5>3. l.frame # f
          BY <1>6, <1>8, <5>2, Alone
        <5> QED
          BY <1>8, <5>1, <5>2, <5>3 DEF Cooling
      <4>3. \A g \in Frames : ~frames[g].dirty => ~frames'[g].dirty
        BY <1>10
      <4> QED
        BY <1>5, <1>10, <2>3, <3>1, <4>1, <4>2, <4>3 DEF ThreadData, EvictData
    <3>3. SourceData(u)'
      <4>1. th[u].src # None => th[u].page \in Pages
        BY <3>1 DEF ThreadData, SourceData, Backed
      <4>2. th[u].src # None /\ th[u].pc \notin {"unpin", "land"} => th[u].page # p
        BY <1>8, <3>1 DEF ThreadData, SourceData, Evicted, Cooling
      <4> QED
        BY <1>5, <2>3, <3>1, <4>1, <4>2 DEF ThreadData, SourceData, ResidentAt
    <3>4. FillData(u)'
      <4>1. PICK q, g : q = th[u].page /\ g = th[u].frame
        OBVIOUS
      <4>2. th[u].pc \in HeldPlaces =>
               q \in Pages \ {p} /\ g \in Frames \ {f} /\ swip[q] = Evicted
        <5> SUFFICES ASSUME th[u].pc \in HeldPlaces
                     PROVE  q \in Pages \ {p} /\ g \in Frames \ {f} /\ swip[q] = Evicted
          OBVIOUS
        <5>1. q \in Pages /\ g \in Frames /\ g \in OwnedBy(th[u]) /\ swip[q] = Evicted
          BY <4>1, Held
        <5>2. g # f
          BY <1>6, <1>8, <5>1, Sole
        <5> QED
          BY <1>8, <5>1, <5>2 DEF Evicted, Cooling
      <4>3. th[u].pc \in HeldPlaces => /\ Agrees(q, g)' <=> Agrees(q, g)
                                      /\ frames'[g].data = frames[g].data
                                      /\ frames'[g].dirty = frames[g].dirty
        BY <1>5, <1>10, <2>3, <4>2 DEF Agrees
      <4> QED
        BY <3>1, <4>1, <4>3 DEF ThreadData, FillData, HeldPlaces
    <3>5. SnapData(u)'
      <4>1. th[u].pc \in SnapPlaces => th[u].frame \in Frames
        BY <3>1 DEF Backed, SnapPlaces, Fixing
      <4> QED
        BY <1>5, <1>10, <3>1, <4>1 DEF ThreadData, SnapData, ResidentAt
    <3> QED
      BY <3>2, <3>3, <3>4, <3>5 DEF ThreadData
  <2>13. ASSUME NEW q \in Pages PROVE ValueOf(q)' = ValueOf(q)
    <3>1. CASE swip[q] = Evicted
      <4>1. q # p
        BY <1>8, <3>1 DEF Evicted, Cooling
      <4> QED
        BY <1>5, <2>3, <3>1, <4>1 DEF ValueOf
    <3>2. CASE swip[q] # Evicted
      <4>1. PICK g \in Frames : ResidentAt(q, g)
        BY <3>2, PageValue
      <4>2. ResidentAt(q, g)'
        BY <1>5, <4>1 DEF ResidentAt
      <4> QED
        BY <1>10, <4>1, <4>2, PageValue
    <3> QED
      BY <3>1, <3>2
  <2>14. UNCHANGED valueBar
    <3> HIDE DEF ValueOf
    <3> QED
      BY <2>13, Bars
  <2> QED
    BY <1>11, <2>8, <2>9, <2>10, <2>11, <2>12, <2>14 DEF DInv
<1> QED
  BY <1>12, <1>13

(***************************************************************************)
(* The page loses its frame: its backing slot has its bytes by now.        *)
(***************************************************************************)
LEMMA UnswizzlesData ==
    ASSUME IInv, IInv', DInv, NEW t \in Threads, EvictUnswizzle(t)
    PROVE  DInv' /\ UNCHANGED valueBar
<1>1. PICK D : TypedOver(D)
  BY DEF IInv
<1>2. /\ th \in [Threads -> LocalsOver(D)] /\ swip \in [Pages -> SwipStates]
  BY <1>1 DEF TypedOver, SharedOver
<1>3. ThreadData(t) /\ ThreadOK(t) /\ Backed(t)
  BY Needs DEF IInv, DInv
<1>4. PICK k, p, f : k = th[t].ticket /\ p = k.pid /\ f = k.frame
  OBVIOUS
<1>5. /\ th[t].pc = "ev_unswizzle" /\ UNCHANGED <<pages, frames, directory, slots, leader>>
      /\ swip[p] = Cooling(f) /\ swip' = [swip EXCEPT ![p] = Evicted]
  BY <1>4 DEF EvictUnswizzle, SetSwip, At, tiers
<1>6. p \in Pages /\ f \in Frames
  BY <1>3, <1>4, <1>5 DEF Backed, EvictPlaces, EvictReserved
<1>7. /\ Carries(t) /\ th'[t].pc = "ev_marker" /\ th'[t].new = th[t].new
      /\ th'[t].old = th[t].old
  BY <1>2 DEF EvictUnswizzle, Goto, Carries, Moves, LocalsOver
<1>8. swip'[p] = Evicted /\ \A q \in Pages \ {p} : swip'[q] = swip[q]
  BY <1>2, <1>5, <1>6
<1>9. ResidentAt(p, f) /\ f \in ReservedBy(th[t]) /\ frames[f].snaps = {}
  <2>1. ResidentAt(p, f) /\ f \in ReservedBy(th[t])
    BY <1>4, <1>5, <1>6 DEF ResidentAt, ReservedBy, EvictReserved
  <2>2. frames[f].writer = t
    BY <1>3, <1>4, <1>5 DEF ThreadOK, LatchOK
  <2> QED
    BY <1>6, <2>1, <2>2, PoolAssumption DEF DInv, StoredOK
<1>10. directory[p] # None
  BY <1>3, <1>4, <1>5, <1>6, <1>9 DEF ThreadData, EvictData, DInv, CleanOK, Agrees
<1>11. \A q \in Pages, g \in Frames : ResidentAt(q, g)' <=> q # p /\ ResidentAt(q, g)
  BY <1>8 DEF ResidentAt, Evicted, Hot, Cooling
<1>12. \A g : ResidentAt(p, g) => g = f
  BY <1>5 DEF ResidentAt, Hot, Cooling
<1>13. BackingOK'
  <2>1. pages \in SUBSET Pages
    BY <1>1 DEF TypedOver, SharedOver
  <2> QED
    BY <1>5, <1>8, <1>10, <2>1 DEF DInv, BackingOK
<1>14. OwedOK'
  <2>1. ASSUME NEW u \in Threads, NEW s \in Slots PROVE Owes(u, s)' <=> Owes(u, s)
    BY <1>5, <1>7 DEF Carries, Moves, Owes, EvictPublished, EvictDetached
  <2> HIDE DEF Owes
  <2> QED
    BY <1>5, <2>1 DEF DInv, OwedOK
<1>15. CleanOK' /\ StoredOK'
  BY <1>5, <1>11 DEF DInv, CleanOK, StoredOK, Agrees
<1>16. ThreadData(t)'
  <2>1. EvictData(t)'
    BY <1>7 DEF EvictData, SlotPlaces, EvictPublished, EvictDetached
  <2>2. SourceData(t)'
    <3>1. th[t].src # None => th[t].page \in Pages /\ th[t].page # p
      BY <1>3, <1>5 DEF ThreadData, SourceData, Backed, Evicted, Cooling
    <3> QED
      BY <1>5, <1>7, <1>8, <3>1, EvictorSource DEF EvictPlaces, AcquirePlaces, EvictReserved
  <2>3. FillData(t)'
    BY <1>7 DEF FillData, HeldPlaces, Published
  <2>4. SnapData(t)'
    BY <1>3, <1>5, <1>7 DEF ThreadData, SnapData, SnapPlaces, Carries
  <2> QED
    BY <2>1, <2>2, <2>3, <2>4 DEF ThreadData
<1>17. ASSUME NEW u \in Threads \ {t} PROVE ThreadData(u)'
  <2>1. th'[u] = th[u] /\ ThreadData(u) /\ ThreadOK(u) /\ Backed(u)
    BY <1>7, Needs DEF Carries, Moves, IInv, DInv
  <2>2. PICK q, g : q = th[u].page /\ g = th[u].frame
    OBVIOUS
  <2>3. th[u].op \in Operations \cup {None}
    BY <1>2 DEF LocalsOver
  <2>4. EvictData(u)' /\ FillData(u)'
    BY <1>5, <2>1 DEF ThreadData, EvictData, FillData, Agrees
  <2>5. SourceData(u)'
    <3>1. th[u].src # None => q \in Pages
      BY <2>1, <2>2 DEF ThreadData, SourceData, Backed
    <3>2. th[u].pc = "unpin" => ResidentAt(q, g)'
      <4> SUFFICES ASSUME th[u].pc = "unpin" PROVE ResidentAt(q, g)'
        OBVIOUS
      <4>1. ResidentAt(q, g)
        BY <2>1, <2>2 DEF ThreadData, SourceData
      <4>2. g \in Frames
        BY <2>1, <2>2 DEF Backed
      <4>3. q \in Pages
        <5>1. th[u].op \in FixOps \cup {"prefetch"}
          BY <2>1, <2>3 DEF ThreadOK, PlaceOK, Operations, FixOps, AcquirePlaces, EvictPlaces,
             EvictReserved, FillPlaces, UndoPlaces
        <5> QED
          BY <2>1, <2>2, <5>1 DEF Backed
      <4>4. g \in PinnedBy(th[u])
        BY <2>2, <4>2 DEF PinnedBy
      <4>5. g # f
        BY <1>6, <1>9, <4>4, Alone
      <4> QED
        BY <1>11, <1>12, <4>1, <4>2, <4>3, <4>5
    <3> QED
      BY <1>5, <1>8, <2>1, <2>2, <3>1, <3>2 DEF ThreadData, SourceData, ResidentAt
  <2>6. SnapData(u)'
    <3>1. ASSUME th[u].snap # None, u \in frames[g].snaps PROVE ResidentAt(q, g)'
      <4>1. ResidentAt(q, g)
        BY <2>1, <2>2, <3>1 DEF ThreadData, SnapData
      <4>2. g \in Frames
        BY <2>1, <2>2, <3>1 DEF ThreadData, SnapData, Backed, SnapPlaces, Fixing
      <4>3. q \in Pages
        <5>1. th[u].pc \in SnapPlaces
          BY <2>1, <3>1 DEF ThreadData, SnapData
        <5>2. th[u].op \in FixOps
          BY <2>1, <2>3, <5>1 DEF SnapPlaces, ThreadOK, PlaceOK, Operations, FixOps, AcquirePlaces,
             EvictPlaces, EvictReserved, FillPlaces, UndoPlaces, TaskPlaces, Fixing
        <5> QED
          BY <2>1, <2>2, <5>2 DEF Backed
      <4>4. g # f
        BY <1>9, <3>1
      <4> QED
        BY <1>11, <1>12, <4>1, <4>2, <4>3, <4>4
    <3> QED
      BY <1>5, <2>1, <2>2, <3>1 DEF ThreadData, SnapData, ResidentAt
  <2> QED
    BY <2>4, <2>5, <2>6 DEF ThreadData
<1>18. ASSUME NEW q \in Pages PROVE ValueOf(q)' = ValueOf(q)
  <2>1. CASE q = p
    <3>1. ValueOf(p) = frames[f].data
      BY <1>6, <1>9, PageValue
    <3>2. ValueOf(p)' = slots[directory[p]]
      BY <1>5, <1>8, <1>10 DEF ValueOf
    <3>3. Agrees(p, f)
      BY <1>3, <1>4, <1>5, <1>6, <1>9 DEF ThreadData, EvictData, DInv, CleanOK
    <3> QED
      BY <2>1, <3>1, <3>2, <3>3 DEF Agrees
  <2>2. CASE q # p
    BY <1>5, <1>8, <2>2 DEF ValueOf
  <2> QED
    BY <2>1, <2>2
<1>19. UNCHANGED valueBar
  <2> HIDE DEF ValueOf
  <2> QED
    BY <1>18, Bars
<1> QED
  BY <1>13, <1>14, <1>15, <1>16, <1>17, <1>19 DEF DInv

(***************************************************************************)
(* The filled frame becomes the page's.                                    *)
(***************************************************************************)
LEMMA SwizzlesData ==
    ASSUME IInv, IInv', DInv, NEW t \in Threads, Swizzle(t)
    PROVE  /\ DInv'
           /\ th[t].op # "alloc" => UNCHANGED valueBar
           /\ th[t].op = "alloc" =>
                 /\ th[t].page \in Pages /\ valueBar[th[t].page] = None
                 /\ valueBar' = [valueBar EXCEPT ![th[t].page] = 0]
<1>1. PICK D : TypedOver(D)
  BY DEF IInv
<1>2. /\ th \in [Threads -> LocalsOver(D)] /\ swip \in [Pages -> SwipStates]
  BY <1>1 DEF TypedOver, SharedOver
<1>3. ThreadData(t) /\ ThreadOK(t)
  BY DEF IInv, DInv
<1>4. PICK p, f : p = th[t].page /\ f = th[t].frame
  OBVIOUS
<1>5. /\ th[t].pc = "swizzle" /\ UNCHANGED <<pages, frames, directory, slots, leader>>
      /\ swip[p] = Evicted /\ swip' = [swip EXCEPT ![p] = Hot(f)]
  BY <1>4 DEF Swizzle, SetSwip, At, tiers
<1>6. p \in Pages /\ f \in Frames
  BY <1>4, <1>5, Held DEF HeldPlaces, Published
<1>7. /\ Carries(t) /\ th'[t].new = th[t].new /\ th'[t].frame = f
      /\ th'[t].pc = IF th[t].op = "alloc" THEN "latch" ELSE "unpin"
  BY <1>2, <1>4 DEF Swizzle, Goto, Carries, Moves, LocalsOver
<1>8. swip'[p] = Hot(f) /\ \A q \in Pages \ {p} : swip'[q] = swip[q]
  BY <1>2, <1>5, <1>6
<1>9. Hot(f) # Evicted /\ \A g : ~ResidentAt(p, g)
  BY <1>5 DEF ResidentAt, Evicted, Hot, Cooling
<1>10. BackingOK'
  <2>1. pages \in SUBSET Pages
    BY <1>1 DEF TypedOver, SharedOver
  <2> QED
    BY <1>5, <1>8, <1>9, <2>1 DEF DInv, BackingOK
<1>11. OwedOK'
  <2>1. ASSUME NEW u \in Threads, NEW s \in Slots PROVE Owes(u, s)' <=> Owes(u, s)
    BY <1>5, <1>7 DEF Carries, Moves, Owes, EvictPublished, EvictDetached
  <2> HIDE DEF Owes
  <2> QED
    BY <1>5, <2>1 DEF DInv, OwedOK
<1>12. CleanOK'
  <2> SUFFICES ASSUME NEW q \in Pages, NEW g \in Frames, ResidentAt(q, g)', ~frames'[g].dirty
               PROVE  Agrees(q, g)'
    BY DEF CleanOK
  <2>1. CASE q = p
    <3>1. g = f
      BY <1>8, <2>1 DEF ResidentAt, Hot, Cooling
    <3>2. ~frames[f].dirty
      BY <1>5, <3>1
    <3>3. Agrees(p, f)
      BY <1>3, <1>4, <1>5, <3>2 DEF ThreadData, FillData, HeldPlaces, Published
    <3> QED
      BY <1>5, <2>1, <3>1, <3>3 DEF Agrees
  <2>2. CASE q # p
    <3>1. ResidentAt(q, g)
      BY <1>8, <2>2 DEF ResidentAt
    <3> QED
      BY <1>5, <3>1 DEF DInv, CleanOK, Agrees
  <2> QED
    BY <2>1, <2>2
<1>13. StoredOK'
  BY <1>5 DEF DInv, StoredOK
<1>14. ThreadData(t)'
  <2>1. EvictData(t)'
    BY <1>3, <1>5, <1>7 DEF ThreadData, EvictData, SlotPlaces, EvictPublished, EvictDetached
  <2>2. SourceData(t)'
    <3>1. th[t].op # "alloc" => th'[t].pc = "unpin"
      BY <1>7
    <3>2. th[t].op = "alloc" => th[t].src = None /\ th'[t].pc = "latch"
      BY <1>3, <1>7 DEF ThreadData, SourceData, FixOps
    <3>3. th[t].src # None => th[t].op \in FixOps \cup {"prefetch"} /\ th'[t].pc = "unpin"
      BY <1>3, <3>1, <3>2 DEF ThreadData, SourceData
    <3>4. ResidentAt(p, f)'
      BY <1>8 DEF ResidentAt
    <3> QED
      BY <1>4, <1>7, <3>1, <3>2, <3>3, <3>4 DEF SourceData, Carries, LeadPlaces, AcquirePlaces,
         EvictPlaces, EvictReserved, FillPlaces, ResidentAt
  <2>3. FillData(t)'
    BY <1>7 DEF FillData, HeldPlaces, Published
  <2>4. SnapData(t)'
    BY <1>3, <1>5, <1>7 DEF ThreadData, SnapData, SnapPlaces, Carries
  <2> QED
    BY <2>1, <2>2, <2>3, <2>4 DEF ThreadData
<1>15. ASSUME NEW u \in Threads \ {t} PROVE ThreadData(u)'
  <2>1. th'[u] = th[u] /\ ThreadData(u) /\ ThreadOK(u) /\ Backed(u)
    BY <1>7, Needs DEF Carries, Moves, IInv, DInv
  <2>2. PICK q, g : q = th[u].page /\ g = th[u].frame
    OBVIOUS
  <2>3. EvictData(u)' /\ FillData(u)'
    BY <1>5, <2>1 DEF ThreadData, EvictData, FillData, Agrees
  <2>4. \A h : ResidentAt(q, h) => swip'[q] = swip[q]
    <3>1. ASSUME NEW h, ResidentAt(q, h) PROVE swip'[q] = swip[q]
      <4>1. q # p
        BY <1>9, <3>1
      <4> QED
        BY <1>2, <1>5, <4>1
    <3> QED
      BY <3>1
  <2>5. SourceData(u)'
    <3>1. th[u].src # None /\ th[u].pc \notin {"unpin", "land"} => q \in Pages \ {p}
      <4> SUFFICES ASSUME th[u].src # None, th[u].pc \notin {"unpin", "land"}
                   PROVE  q \in Pages \ {p}
        OBVIOUS
      <4>1. th[u].op \in FixOps \cup {"prefetch"} /\ leader[q] = u
        BY <2>1, <2>2 DEF ThreadData, SourceData
      <4>2. q \in Pages /\ q \in pages
        BY <2>1, <2>2, <4>1 DEF Backed, ThreadOK, LocalsOK
      <4>3. CASE th[t].op = "alloc"
        BY <1>3, <1>4, <1>5, <4>2, <4>3 DEF ThreadOK, LocalsOK, FillPlaces
      <4>4. CASE th[t].op # "alloc"
        <5>1. th[t].op \in Operations \cup {None}
          BY <1>2 DEF LocalsOver
        <5>2. th[t].op \in FixOps \cup {"prefetch"}
          BY <1>3, <1>5, <4>4, <5>1 DEF ThreadOK, PlaceOK, Operations, FixOps, EvictPlaces,
             EvictReserved, UndoPlaces
        <5>3. leader[p] = t
          BY <1>3, <1>4, <1>5, <5>2 DEF ThreadOK, LeadOK, FillPlaces
        <5> QED
          BY <4>1, <4>2, <5>3
      <4> QED
        BY <4>3, <4>4
    <3> QED
      BY <1>5, <1>8, <2>1, <2>2, <2>4, <3>1 DEF ThreadData, SourceData, ResidentAt
  <2>6. SnapData(u)'
    BY <1>5, <2>1, <2>2, <2>4 DEF ThreadData, SnapData, ResidentAt
  <2> QED
    BY <2>3, <2>5, <2>6 DEF ThreadData
<1>16. \A q \in Pages \ {p} : ValueOf(q)' = ValueOf(q)
  BY <1>5, <1>8 DEF ValueOf
<1>17. ValueOf(p)' = frames[f].data
  BY <1>5, <1>8, <1>9 DEF ValueOf, Hot
<1>18. th[t].op # "alloc" => UNCHANGED valueBar
  <2> SUFFICES ASSUME th[t].op # "alloc" PROVE UNCHANGED valueBar
    OBVIOUS
  <2>1. Agrees(p, f)
    BY <1>3, <1>4, <1>5 DEF ThreadData, FillData, HeldPlaces, Published
  <2>2. ValueOf(p)' = ValueOf(p)
    BY <1>5, <1>17, <2>1 DEF Agrees, ValueOf
  <2> HIDE DEF ValueOf
  <2> QED
    BY <1>16, <2>2, Bars
<1>19. th[t].op = "alloc" => valueBar[p] = None /\ valueBar' = [valueBar EXCEPT ![p] = 0]
  <2> SUFFICES ASSUME th[t].op = "alloc"
               PROVE  valueBar[p] = None /\ valueBar' = [valueBar EXCEPT ![p] = 0]
    OBVIOUS
  <2>1. frames[f].data = 0
    BY <1>3, <1>4, <1>5 DEF ThreadData, FillData, HeldPlaces, Published
  <2>2. p \notin pages
    BY <1>3, <1>4, <1>5 DEF ThreadOK, LocalsOK, FillPlaces
  <2>3. ValueOf(p) = None
    BY <1>5, <1>6, <2>2 DEF ValueOf, DInv, BackingOK
  <2> HIDE DEF ValueOf
  <2> QED
    BY <1>6, <1>16, <1>17, <2>1, <2>3, Bars
<1> QED
  BY <1>4, <1>6, <1>10, <1>11, <1>12, <1>13, <1>14, <1>15, <1>18, <1>19 DEF DInv

(***************************************************************************)
(* The flight lands: its leader forgets the slot, and its followers knew   *)
(* none.                                                                   *)
(***************************************************************************)
LEMMA LandsData ==
    ASSUME IInv, IInv', DInv, NEW t \in Threads, Land(t)
    PROVE  DInv' /\ UNCHANGED valueBar
<1> USE DEF LeadPlaces, AcquirePlaces, EvictPlaces, EvictReserved, FillPlaces, UndoPlaces
<1>1. PICK D : TypedOver(D)
  BY DEF IInv
<1>2. /\ th \in [Threads -> LocalsOver(D)] /\ leader \in [Pages -> Threads \cup {None}]
  BY <1>1 DEF TypedOver, SharedOver
<1>3. ThreadData(t) /\ ThreadOK(t)
  BY DEF IInv, DInv
<1>4. PICK p, r : p = th[t].page /\ r = th[t].result
  OBVIOUS
<1>5. /\ th[t].pc = "land" /\ UNCHANGED <<swip, pages, frames, directory, slots>>
      /\ leader' = [leader EXCEPT ![p] = None]
  BY <1>4 DEF Land, At, pageVars, tiers
<1>6. leader[p] = t
  <2>1. th[t].op \in Operations \cup {None}
    BY <1>2 DEF LocalsOver
  <2>2. th[t].op \in FixOps \cup {"prefetch"}
    BY <1>3, <1>5, <2>1 DEF ThreadOK, PlaceOK, Operations, FixOps
  <2> QED
    BY <1>3, <1>4, <1>5, <2>2 DEF ThreadOK, LeadOK, FixOps
<1>7. th'[t] = AfterFault(t, r)
  BY <1>4 DEF Land
<1>8. /\ th'[t].src = None /\ th'[t].new \in {None, th[t].new} /\ th'[t].snap \in {None, th[t].snap}
      /\ th'[t].pc \in {"idle", "load", "unreserve", "undo_release"}
  BY <1>2, <1>7, AfterFaultForgets
<1>9. ASSUME NEW u \in Threads \ {t}
       PROVE  \/ th'[u] = th[u]
              \/ /\ th[u].pc = "follow" /\ th'[u].pc = "answered" /\ th'[u].op = th[u].op
                 /\ th'[u].src = th[u].src /\ th'[u].new = th[u].new /\ th'[u].snap = th[u].snap
  <2>1. CASE th[u].pc = "follow" /\ th[u].page = p
    <3>1. th'[u] = [th[u] EXCEPT !.pc = "answered", !.result = r]
      BY <1>4, <2>1 DEF Land
    <3> QED
      BY <1>2, <2>1, <3>1 DEF LocalsOver
  <2>2. CASE ~(th[u].pc = "follow" /\ th[u].page = p)
    BY <1>4, <2>2 DEF Land
  <2> QED
    BY <2>1, <2>2
<1>10. BackingOK' /\ CleanOK' /\ StoredOK'
  BY <1>5 DEF DInv, BackingOK, CleanOK, StoredOK, Agrees, ResidentAt
<1>11. OwedOK'
  <2>1. ASSUME NEW u \in Threads, NEW s \in Slots PROVE Owes(u, s)' <=> Owes(u, s)
    <3>1. CASE u = t
      BY <1>5, <1>8, <3>1 DEF Owes, EvictPublished, EvictDetached
    <3>2. CASE u # t
      BY <1>9, <3>2 DEF Owes, EvictPublished, EvictDetached
    <3> QED
      BY <3>1, <3>2
  <2> HIDE DEF Owes
  <2> QED
    BY <1>5, <2>1 DEF DInv, OwedOK
<1>12. ThreadData(t)'
  <2>1. th[t].new = None /\ th[t].snap = None
    BY <1>3, <1>5 DEF ThreadData, EvictData, SnapData, SlotPlaces, EvictPublished, EvictDetached,
       SnapPlaces
  <2>2. EvictData(t)'
    BY <1>8, <2>1 DEF EvictData, SlotPlaces, EvictPublished, EvictDetached
  <2>3. SourceData(t)'
    BY <1>8 DEF SourceData
  <2>4. FillData(t)'
    BY <1>8 DEF FillData, HeldPlaces, Published
  <2>5. SnapData(t)'
    BY <1>8, <2>1 DEF SnapData
  <2> QED
    BY <2>2, <2>3, <2>4, <2>5 DEF ThreadData
<1>13. ASSUME NEW u \in Threads \ {t} PROVE ThreadData(u)'
  <2>1. ThreadData(u) /\ Backed(u)
    BY Needs DEF IInv, DInv
  <2>2. CASE th'[u] = th[u]
    <3>1. EvictData(u)' /\ FillData(u)' /\ SnapData(u)'
      BY <1>5, <2>1, <2>2 DEF ThreadData, EvictData, FillData, SnapData, Agrees, ResidentAt
    <3>2. th[u].src # None /\ th[u].pc \notin {"unpin", "land"} =>
             leader'[th[u].page] = leader[th[u].page]
      <4> SUFFICES ASSUME th[u].src # None, th[u].pc \notin {"unpin", "land"}
                   PROVE  leader'[th[u].page] = leader[th[u].page]
        OBVIOUS
      <4>1. leader[th[u].page] = u
        BY <2>1 DEF ThreadData, SourceData
      <4>2. th[u].page # p
        BY <1>6, <4>1
      <4> QED
        BY <1>2, <1>5, <4>2
    <3>3. SourceData(u)'
      BY <1>5, <2>1, <2>2, <3>2 DEF ThreadData, SourceData, ResidentAt
    <3> QED
      BY <3>1, <3>3 DEF ThreadData
  <2>3. CASE /\ th[u].pc = "follow" /\ th'[u].pc = "answered" /\ th'[u].op = th[u].op
             /\ th'[u].src = th[u].src /\ th'[u].new = th[u].new /\ th'[u].snap = th[u].snap
    <3>1. th[u].src = None
      BY <2>1, <2>3 DEF ThreadData, SourceData
    <3>2. th[u].new = None /\ th[u].snap = None
      BY <2>1, <2>3 DEF ThreadData, EvictData, SnapData, SlotPlaces, EvictPublished, EvictDetached,
         SnapPlaces
    <3>3. EvictData(u)' /\ SnapData(u)'
      BY <2>3, <3>2 DEF EvictData, SnapData
    <3>4. SourceData(u)'
      BY <2>3, <3>1 DEF SourceData
    <3>5. FillData(u)'
      BY <2>3 DEF FillData, HeldPlaces, Published
    <3> QED
      BY <3>3, <3>4, <3>5 DEF ThreadData
  <2> QED
    BY <1>9, <2>2, <2>3
<1>14. UNCHANGED valueBar
  BY <1>5 DEF valueBar
<1> QED
  BY <1>10, <1>11, <1>12, <1>13, <1>14 DEF DInv

(***************************************************************************)
(* Only the frame of a page with an exclusive guard is written, and nobody *)
(* else relies on its bytes.                                               *)
(***************************************************************************)
LEMMA WriteGuardData ==
    ASSUME IInv, IInv', DInv, NEW t \in Threads, WriteGuard(t)
    PROVE  /\ DInv'
           /\ \E v \in Values : valueBar' = [valueBar EXCEPT ![th[t].page] = v]
<1>1. PICK D : TypedOver(D)
  BY DEF IInv
<1>2. frames \in [Frames -> FrameOver(D)]
  BY <1>1 DEF TypedOver, SharedOver
<1>3. ThreadOK(t) /\ Backed(t)
  BY Needs DEF IInv
<1>4. PICK p, f : p = th[t].page /\ f = th[t].frame
  OBVIOUS
<1>5. /\ th[t].pc = "guard" /\ th[t].op = "exclusive"
      /\ UNCHANGED <<swip, pages, directory, slots, leader, th>>
  BY DEF WriteGuard, At, pageVars, tiers
<1>6. PICK v \in Values : frames' = [frames EXCEPT ![f].dirty = TRUE, ![f].data = v]
  BY <1>4 DEF WriteGuard
<1>7. p \in Pages /\ f \in Frames
  BY <1>3, <1>4, <1>5 DEF Backed, GuardPlaces
<1>8. ResidentAt(p, f) /\ f \in PinnedBy(th[t]) /\ frames[f].snaps = {}
  <2>1. ResidentAt(p, f) /\ f \in PinnedBy(th[t])
    BY <1>3, <1>4, <1>5, <1>7 DEF ThreadOK, ExactOK, PinnedBy, GuardPlaces, Fixing
  <2>2. frames[f].writer = t
    BY <1>3, <1>4, <1>5 DEF ThreadOK, LatchOK, GuardPlaces, SharedFix
  <2> QED
    BY <1>7, <2>1, <2>2, PoolAssumption DEF DInv, StoredOK
<1>9. /\ \A g \in Frames \ {f} : frames'[g] = frames[g]
      /\ frames'[f].dirty = TRUE /\ frames'[f].data = v
      /\ frames'[f].snaps = {} /\ frames'[f].writer = frames[f].writer
  BY <1>2, <1>6, <1>7, <1>8 DEF FrameOver
<1>10. BackingOK' /\ OwedOK'
  BY <1>5 DEF DInv, BackingOK, OwedOK, Owes
<1>11. CleanOK'
  BY <1>5, <1>9 DEF DInv, CleanOK, Agrees, ResidentAt
<1>12. StoredOK'
  <2>1. \A g \in Frames : frames'[g].data \in Values
    BY <1>9 DEF DInv, StoredOK
  <2>2. \A g \in Frames : frames'[g].writer # None => frames'[g].snaps = {}
    BY <1>9 DEF DInv, StoredOK
  <2> QED
    BY <1>5, <2>1, <2>2 DEF DInv, StoredOK
<1>13. ASSUME NEW u \in Threads PROVE ThreadData(u)'
  <2>1. ThreadData(u) /\ Backed(u)
    BY Needs DEF IInv, DInv
  <2>2. EvictData(u)'
    <3>1. PICK g : g = th[u].ticket.frame
      OBVIOUS
    <3>2. th[u].pc \in {"ev_publish", "ev_unswizzle"} => frames'[g] = frames[g]
      <4> SUFFICES ASSUME th[u].pc \in {"ev_publish", "ev_unswizzle"}
                   PROVE  frames'[g] = frames[g]
        OBVIOUS
      <4>1. g \in Frames /\ g \in ReservedBy(th[u])
        BY <2>1, <3>1 DEF Backed, EvictPlaces, EvictReserved, ReservedBy
      <4>2. g # f
        BY <1>7, <1>8, <4>1, Alone
      <4> QED
        BY <1>9, <4>1, <4>2
    <3> QED
      BY <1>5, <2>1, <3>1, <3>2 DEF ThreadData, EvictData
  <2>3. SourceData(u)'
    BY <1>5, <2>1 DEF ThreadData, SourceData, ResidentAt
  <2>4. FillData(u)'
    <3>1. PICK g : g = th[u].frame
      OBVIOUS
    <3>2. th[u].pc \in HeldPlaces => frames'[g] = frames[g]
      <4> SUFFICES ASSUME th[u].pc \in HeldPlaces PROVE frames'[g] = frames[g]
        OBVIOUS
      <4>1. g \in Frames /\ g \in OwnedBy(th[u])
        BY <3>1, Held
      <4>2. g # f
        BY <1>7, <1>8, <4>1, Sole
      <4> QED
        BY <1>9, <4>1, <4>2
    <3> QED
      BY <1>5, <2>1, <3>1, <3>2 DEF ThreadData, FillData, Agrees, HeldPlaces
  <2>5. SnapData(u)'
    <3>1. PICK g : g = th[u].frame
      OBVIOUS
    <3>2. th[u].snap # None /\ u \in frames'[g].snaps => frames'[g] = frames[g]
      <4> SUFFICES ASSUME th[u].snap # None, u \in frames'[g].snaps
                   PROVE  frames'[g] = frames[g]
        OBVIOUS
      <4>1. g \in Frames
        BY <2>1, <3>1 DEF ThreadData, SnapData, Backed, SnapPlaces, Fixing
      <4>2. g # f
        BY <1>9
      <4> QED
        BY <1>9, <4>1, <4>2
    <3> QED
      BY <1>5, <2>1, <3>1, <3>2 DEF ThreadData, SnapData, ResidentAt
  <2> QED
    BY <2>2, <2>3, <2>4, <2>5 DEF ThreadData
<1>14. ValueOf(p)' = v /\ \A q \in Pages \ {p} : ValueOf(q)' = ValueOf(q)
  <2>1. \A q \in Pages : \A g : ResidentAt(q, g)' <=> ResidentAt(q, g)
    BY <1>5 DEF ResidentAt
  <2>2. ValueOf(p)' = v
    BY <1>7, <1>8, <1>9, <2>1, PageValue
  <2>3. ASSUME NEW q \in Pages \ {p} PROVE ValueOf(q)' = ValueOf(q)
    <3>1. CASE swip[q] = Evicted
      BY <1>5, <3>1 DEF ValueOf
    <3>2. CASE swip[q] # Evicted
      <4>1. PICK g \in Frames : ResidentAt(q, g)
        BY <3>2, PageValue
      <4>2. g # f
        BY <1>7, <1>8, <4>1, Sole
      <4> QED
        BY <1>9, <2>1, <4>1, <4>2, PageValue
    <3> QED
      BY <3>1, <3>2
  <2> QED
    BY <2>2, <2>3
<1>15. valueBar' = [valueBar EXCEPT ![p] = v]
  <2> HIDE DEF ValueOf
  <2> QED
    BY <1>7, <1>14, Bars
<1> QED
  BY <1>4, <1>10, <1>11, <1>12, <1>13, <1>15 DEF DInv

-----------------------------------------------------------------------------
(***************************************************************************)
(* No page exists when the pool is built.                                  *)
(***************************************************************************)
LEMMA InitData ==
    PoolInit => DInv
<1> SUFFICES ASSUME PoolInit PROVE DInv
  OBVIOUS
<1>1. /\ \A p \in Pages : swip[p] = Evicted /\ directory[p] = None
      /\ pages = {} /\ \A f \in Frames : frames[f] = EmptyFrame
      /\ \A s \in Slots : slots[s] = None
      /\ \A t \in Threads : th[t] = Idle
  BY DEF PoolInit
<1>2. \A t \in Threads : /\ th[t].pc = "idle" /\ th[t].op = None /\ th[t].src = None
                         /\ th[t].new = None /\ th[t].snap = None
  BY <1>1 DEF Idle
<1>3. \A f \in Frames : frames[f].data = 0 /\ frames[f].writer = None
  BY <1>1 DEF EmptyFrame
<1>4. BackingOK /\ StoredOK
  BY <1>1, <1>3, PoolAssumption DEF BackingOK, StoredOK
<1>5. OwedOK
  BY <1>1, <1>2 DEF OwedOK, Owes, EvictPublished, EvictDetached
<1>6. CleanOK
  BY <1>1 DEF CleanOK, ResidentAt, Evicted, Hot, Cooling
<1>7. ASSUME NEW t \in Threads PROVE ThreadData(t)
  <2>1. EvictData(t)
    BY <1>2 DEF EvictData
  <2>2. SourceData(t)
    BY <1>2, PoolAssumption DEF SourceData, LeadPlaces, AcquirePlaces, FillPlaces, EvictPlaces,
       EvictReserved
  <2>3. FillData(t)
    BY <1>2 DEF FillData, HeldPlaces, Published
  <2>4. SnapData(t)
    BY <1>2 DEF SnapData
  <2> QED
    BY <2>1, <2>2, <2>3, <2>4 DEF ThreadData
<1> QED
  BY <1>4, <1>5, <1>6, <1>7 DEF DInv

(***************************************************************************)
(* A stutter keeps the data.                                               *)
(***************************************************************************)
LEMMA StutterData ==
    ASSUME DInv, UNCHANGED poolVars
    PROVE  DInv'
<1> USE DEF poolVars
<1>1. BackingOK' /\ StoredOK'
  BY DEF DInv, BackingOK, StoredOK
<1>2. OwedOK'
  BY DEF DInv, OwedOK, Owes
<1>3. CleanOK'
  BY DEF DInv, CleanOK, Agrees, ResidentAt
<1>4. ASSUME NEW t \in Threads PROVE ThreadData(t)'
  <2>1. ThreadData(t)
    BY DEF DInv
  <2>2. EvictData(t)' /\ SourceData(t)'
    BY <2>1 DEF ThreadData, EvictData, SourceData, ResidentAt
  <2>3. FillData(t)' /\ SnapData(t)'
    BY <2>1 DEF ThreadData, FillData, SnapData, Agrees, ResidentAt
  <2> QED
    BY <2>2, <2>3 DEF ThreadData
<1> QED
  BY <1>1, <1>2, <1>3, <1>4 DEF DInv

(***************************************************************************)
(* A step keeps the data, and no page's value changes but by the first     *)
(* swizzle of a new page and by a write.                                   *)
(***************************************************************************)
LEMMA StepData ==
    ASSUME IInv, IInv', DInv, NEW t \in Threads,
           \/ ApiStep(t) \/ FaultStep(t) \/ EvictionStep(t)
           \/ PrefetchStep(t) \/ WorkerStep(t) \/ ShutdownStep(t)
    PROVE  DInv' /\ (UNCHANGED valueBar \/ Swizzle(t) \/ WriteGuard(t))
<1>1. CASE EvictionStep(t)
  <2>1. CASE \/ SampleDone(t) \/ SampleFrame(t) \/ EnqueueCandidate(t) \/ EvictCheck(t)
            \/ EvictBusy(t)
    BY <2>1, SampleData
  <2>2. CASE MarkCandidate(t) \/ EvictWriteFails(t)
    BY <2>2, SwipsData
  <2>3. CASE EvictClaim(t) \/ EvictUnreserve(t)
    BY <2>3, PinsData
  <2>4. CASE EvictLatch(t) \/ EvictAbort(t)
    BY <2>4, LatchesData
  <2>5. CASE EvictRecheck(t)
    BY <2>5, RecheckData
  <2>6. CASE EvictWrite(t)
    BY <2>6, WritesData
  <2>7. CASE EvictPublish(t)
    BY <2>7, LocationData
  <2>8. CASE EvictUnswizzle(t)
    BY <2>8, UnswizzlesData
  <2>9. CASE EvictMarker(t) \/ EvictUnlatch(t) \/ EvictClear(t) \/ EvictRelease(t) \/ EvictPush(t)
    BY <2>9, DetachedData
  <2>10. CASE EvictFreeOld(t)
    BY <2>10, FreesData
  <2> QED
    BY <1>1, <2>1, <2>2, <2>3, <2>4, <2>5, <2>6, <2>7, <2>8, <2>9, <2>10 DEF EvictionStep
<1>2. CASE FaultStep(t)
  <2>1. CASE \/ AcquireStops(t) \/ AcquirePops(t) \/ AcquireStarts(t) \/ AcquireSamples(t)
            \/ AcquireMisses(t) \/ TakeTicket(t) \/ EndRound(t)
    BY <2>1, RoundsData
  <2>2. CASE ClaimFree(t) \/ DropReservation(t)
    BY <2>2, PinsData
  <2>3. CASE DropFrame(t)
    BY <2>3, CheckoutData
  <2>4. CASE \/ FaultStops(t) \/ FaultLeads(t) \/ FaultFollows(t) \/ FollowerReturns(t)
            \/ LeadStops(t) \/ LeadFindsResident(t) \/ FillFails(t)
    BY <2>4, FlightsData
  <2>5. CASE LeadLooksUp(t)
    BY <2>5, LookUpData
  <2>6. CASE FillFrame(t)
    BY <2>6, FillsData
  <2>7. CASE Install(t)
    BY <2>7, InstallsData
  <2>8. CASE PublishPin(t) \/ PlaceMarker(t)
    BY <2>8, PublishesData
  <2>9. CASE Swizzle(t)
    BY <2>9, SwizzlesData
  <2>10. CASE UnpinFaulted(t)
    BY <2>10, ReleasesData
  <2>11. CASE Land(t)
    BY <2>11, LandsData
  <2> QED
    BY <1>2, <2>1, <2>2, <2>3, <2>4, <2>5, <2>6, <2>7, <2>8, <2>9, <2>10, <2>11 DEF FaultStep
<1>3. CASE ApiStep(t)
  <2>1. CASE \/ Allocate(t) \/ AllocatePid(t) \/ Fix(t) \/ FixStops(t) \/ LoadSwip(t)
            \/ PinRefused(t) \/ EnqueueDeclined(t)
    BY <2>1, CallsData
  <2>2. CASE RegisterPage(t)
    BY <2>2, ReleasesData
  <2>3. CASE PinFrame(t) \/ UnpinRetry(t)
    BY <2>3, PinsData
  <2>4. CASE LatchFrame(t) \/ FixRetries(t)
    BY <2>4, LatchesData
  <2>5. CASE FixSucceeds(t) \/ FixSucceedsDeclined(t)
    BY <2>5, SwipsData
  <2>6. CASE WriteGuard(t)
    BY <2>6, WriteGuardData
  <2>7. CASE CaptureSnapshot(t)
    BY <2>7, CapturesData
  <2>8. CASE DropGuard(t) \/ DropLatch(t)
    BY <2>8, DropsData
  <2>9. CASE SnapshotExact(t) \/ SnapshotValidates(t)
    BY <2>9, ValidatesData
  <2> QED
    BY <1>3, <2>1, <2>2, <2>3, <2>4, <2>5, <2>6, <2>7, <2>8, <2>9 DEF ApiStep
<1>4. CASE PrefetchStep(t)
  <2>1. CASE \/ SubmitPrefetch(t) \/ CheckoutPops(t) \/ SubmitChecks(t) \/ SendTask(t)
            \/ ReceiveTask(t) \/ DropPrefetchReservation(t)
    BY <2>1, RequestsData
  <2>2. CASE CheckoutClaims(t)
    BY <2>2, CheckoutData
  <2> QED
    BY <1>4, <2>1, <2>2 DEF PrefetchStep
<1>5. CASE WorkerStep(t)
  BY <1>5, WorkersData DEF WorkerStep
<1>6. CASE ShutdownStep(t)
  <2>1. CASE ShutdownStarts(t) \/ ShutdownJoins(t) \/ FlushPassEnds(t)
    BY <2>1, WorkersData
  <2>2. CASE FlushFrame(t)
    BY <2>2, SwipsData
  <2> QED
    BY <1>6, <2>1, <2>2 DEF ShutdownStep
<1> QED
  BY <1>1, <1>2, <1>3, <1>4, <1>5, <1>6

(***************************************************************************)
(* The bytes of every page are where the pool looks for them, in every     *)
(* reachable state.                                                        *)
(***************************************************************************)
THEOREM DataInductive == Spec => [](IInv /\ DInv)
<1>1. IInv /\ IInv' /\ DInv /\ [Next]_poolVars => DInv'
  BY StepData, StutterData DEF Next
<1> QED
  BY <1>1, InitData, Inductive, PTL DEF Spec

(***************************************************************************)
(* The state has its types: no slot, frame or snapshot ever holds anything *)
(* but a page's contents.                                                  *)
(***************************************************************************)
THEOREM TypeCorrect == Spec => []TypeOK
<1>1. IInv /\ DInv => TypeOK
  <2> SUFFICES ASSUME IInv, DInv PROVE TypeOK
    OBVIOUS
  <2>1. PICK D : TypedOver(D)
    BY DEF IInv
  <2>2. frames \in [Frames -> FrameType]
    <3>1. frames \in [Frames -> FrameOver(D)]
      BY <2>1 DEF TypedOver, SharedOver
    <3>2. ASSUME NEW f \in Frames PROVE frames[f] \in FrameType
      <4>1. frames[f] \in FrameOver(D) /\ frames[f].data \in Values
        BY <3>1 DEF DInv, StoredOK
      <4> QED
        BY <4>1 DEF FrameOver, FrameType
    <3> QED
      BY <3>1, <3>2
  <2>3. th \in [Threads -> Locals]
    <3>1. th \in [Threads -> LocalsOver(D)]
      BY <2>1 DEF TypedOver
    <3>2. ASSUME NEW t \in Threads PROVE th[t] \in Locals
      <4>1. th[t] \in LocalsOver(D) /\ th[t].snap \in Values \cup {None}
        BY <3>1 DEF DInv, ThreadData, SnapData
      <4> QED
        BY <4>1 DEF LocalsOver, Locals
    <3> QED
      BY <3>1, <3>2
  <2>4. slots \in [Slots -> Values \cup {None}]
    BY <2>1 DEF TypedOver, SharedOver, DInv, StoredOK
  <2> QED
    BY <2>1, <2>2, <2>3, <2>4 DEF TypeOK, TypedOver, SharedOver
<1> QED
  BY <1>1, DataInductive, PTL

(***************************************************************************)
(* A tier slot is allocated exactly while it backs a page, or while the    *)
(* evictor that wrote it or has still to free it is at work: no slot leaks *)
(* and no page's backing is freed or shared (evict_ticket).                *)
(***************************************************************************)
THEOREM SlotsAccounted == Spec => []SlotAccounting
<1>1. IInv /\ DInv => SlotAccounting
  <2> SUFFICES ASSUME IInv, DInv PROVE SlotAccounting
    OBVIOUS
  <2>1. ASSUME NEW t \in Threads, NEW s \in Slots, Owes(t, s) PROVE HoldsSlot(t, s)
    BY <2>1 DEF Owes, HoldsSlot, EvictPublished, EvictDetached, EvictReserved
  <2> HIDE DEF Owes, HoldsSlot
  <2> QED
    BY <2>1 DEF DInv, BackingOK, OwedOK, SlotAccounting
<1> QED
  BY <1>1, DataInductive, PTL

(***************************************************************************)
(* The slot a fault leader looked up stays its page's current one,         *)
(* allocated and not rewritten, until it has read it, whatever it evicts   *)
(* to find a frame in between (fault_into).                                *)
(***************************************************************************)
THEOREM FaultSourcesLive == Spec => []FaultSourceLive
<1>1. IInv /\ DInv => FaultSourceLive
  <2> SUFFICES ASSUME IInv, DInv, NEW t \in Threads, th[t].pc \notin {"land", "idle"},
                      th[t].src # None, swip[th[t].page] = Evicted
               PROVE  th[t].src = directory[th[t].page] /\ slots[th[t].src] # None
    BY DEF FaultSourceLive
  <2>1. SourceData(t) /\ Backed(t)
    BY Needs DEF DInv, ThreadData
  <2>2. th[t].pc # "unpin"
    BY <2>1 DEF SourceData, ResidentAt, Evicted, Hot, Cooling
  <2>3. th[t].src = directory[th[t].page] /\ th[t].page \in Pages
    BY <2>1, <2>2 DEF SourceData, Backed
  <2> QED
    BY <2>3 DEF DInv, BackingOK
<1> QED
  BY <1>1, DataInductive, PTL

(***************************************************************************)
(* A snapshot that validates is the page as it is now, although it holds   *)
(* neither pin nor latch (fix_optimistic, OptimisticGuard::read_with).     *)
(***************************************************************************)
THEOREM SnapshotsCurrent == Spec => []OptimisticCurrent
<1>1. IInv /\ DInv => OptimisticCurrent
  <2> SUFFICES ASSUME IInv, DInv, NEW t \in Threads, th[t].pc \in SnapPlaces, th[t].snap # None,
                      t \in frames[th[t].frame].snaps
               PROVE  /\ ResidentIsExact(th[t].page, th[t].frame)
                      /\ frames[th[t].frame].data = th[t].snap
    BY DEF OptimisticCurrent, SnapPlaces
  <2>1. PICK p, f : p = th[t].page /\ f = th[t].frame
    OBVIOUS
  <2>2. SnapData(t) /\ Backed(t) /\ PlaceOK(t)
    BY Needs DEF IInv, ThreadOK, DInv, ThreadData
  <2>3. ResidentAt(p, f) /\ frames[f].data = th[t].snap
    BY <2>1, <2>2 DEF SnapData
  <2>4. th[t].op \in Operations \cup {None}
    BY DEF IInv, TypedOver, LocalsOver
  <2>5. th[t].op \in FixOps
    BY <2>2, <2>4 DEF SnapPlaces, PlaceOK, Operations, FixOps, AcquirePlaces, EvictPlaces,
       EvictReserved, FillPlaces, UndoPlaces, TaskPlaces, Fixing
  <2>6. p \in Pages /\ f \in Frames
    BY <2>1, <2>2, <2>5 DEF Backed, SnapPlaces, Fixing
  <2> QED
    BY <2>1, <2>3, <2>6 DEF ResidentIsExact, IInv, OccupantOK
<1> QED
  BY <1>1, DataInductive, PTL

(***************************************************************************)
(* A shutdown that reports success has written every page back and left    *)
(* every frame empty, whatever prefetches, evictions and guards it met.    *)
(***************************************************************************)
THEOREM ShutdownFlushes == Spec => []ShutdownFlushed
<1>1. IInv /\ DInv /\ RInv => ShutdownFlushed
  <2> SUFFICES ASSUME IInv, DInv, RInv, NEW t \in Threads, At(t, "sd_done")
               PROVE  /\ \A p \in pages : swip[p] = Evicted /\ directory[p] # None
                      /\ \A f \in Frames : frames[f].pid = None
    BY DEF ShutdownFlushed
  <2>1. Flushing(t) /\ th[t].want = 0 /\ th[t].cand = {}
    BY OperationPlaces DEF At, PlacesFit, Flushing, RInv, FlushOK
  <2>2. \A f \in Frames : frames[f].pid = None
    BY <2>1 DEF RInv, FlushOK
  <2>3. ASSUME NEW p \in pages PROVE swip[p] = Evicted
    <3>1. PICK D : TypedOver(D)
      BY DEF IInv
    <3>2. p \in Pages /\ swip[p] \in SwipStates /\ p # None
      BY <3>1, PoolAssumption DEF TypedOver, SharedOver
    <3>3. \A f \in Frames : ~ResidentAt(p, f)
      BY <2>2, <3>2 DEF IInv, OccupantOK
    <3> QED
      BY <3>2, <3>3 DEF SwipStates, ResidentAt, Hot, Cooling
  <2> QED
    BY <2>2, <2>3 DEF DInv, BackingOK
<1> QED
  BY <1>1, DataInductive, RequestsInductive, PTL

-----------------------------------------------------------------------------
(* What a step does to the guards. *)

\* A step of t that neither takes, keeps nor drops a guard.
Outside(t) == Moves(t) /\ th[t].pc \notin GuardPlaces /\ th'[t].pc \notin GuardPlaces

\* An exclusive guard is the only guard of its page.
GuardsApart ==
    \A t, u \in Threads :
        /\ th[t].pc \in GuardPlaces /\ th[u].pc \in GuardPlaces
        /\ th[t].page = th[u].page /\ th[t].op = "exclusive"
        => t = u

\* Its holder is the owner of the page.
OwnersHold ==
    \A p \in Pages :
        /\ \A t \in Guards(p, {"exclusive"}) : ownerBar[p] = t
        /\ Guards(p, {"exclusive"}) = {} => ownerBar[p] = None

(***************************************************************************)
(* A page's guards name the same frame, and its latch keeps an exclusive   *)
(* one apart from the others.                                              *)
(***************************************************************************)
LEMMA Exclusion ==
    IInv => GuardsApart /\ OwnersHold
<1> SUFFICES ASSUME IInv PROVE GuardsApart /\ OwnersHold
  OBVIOUS
<1>1. GuardsApart
  <2> SUFFICES ASSUME NEW t \in Threads, NEW u \in Threads,
                      th[t].pc \in GuardPlaces, th[u].pc \in GuardPlaces,
                      th[t].page = th[u].page, th[t].op = "exclusive"
               PROVE  t = u
    BY DEF GuardsApart
  <2>1. PICK p, f, g : p = th[t].page /\ f = th[t].frame /\ g = th[u].frame
    OBVIOUS
  <2>2. ThreadOK(t) /\ ThreadOK(u) /\ Backed(t)
    BY Needs DEF IInv
  <2>3. p \in Pages /\ f \in Frames
    BY <2>1, <2>2 DEF Backed
  <2>4. ResidentAt(p, f) /\ ResidentAt(p, g)
    BY <2>1, <2>2 DEF ThreadOK, ExactOK
  <2>5. f = g
    BY <2>4 DEF ResidentAt, Hot, Cooling
  <2>6. frames[f].writer = t
    BY <2>1, <2>2 DEF ThreadOK, LatchOK, SharedFix
  <2>7. frames[f].readers = {}
    BY <2>3, <2>6, PoolAssumption DEF IInv, LatchExcludes
  <2> QED
    BY <2>1, <2>2, <2>5, <2>6, <2>7 DEF ThreadOK, LatchOK
<1>2. OwnersHold
  <2> SUFFICES ASSUME NEW p \in Pages
               PROVE  /\ \A t \in Guards(p, {"exclusive"}) : ownerBar[p] = t
                      /\ Guards(p, {"exclusive"}) = {} => ownerBar[p] = None
    BY DEF OwnersHold
  <2>1. \A t, u \in Guards(p, {"exclusive"}) : t = u
    BY <1>1 DEF Guards, GuardsApart
  <2>2. PICK G : G = Guards(p, {"exclusive"})
    OBVIOUS
  <2>3. ownerBar[p] = IF G = {} THEN None ELSE CHOOSE t \in Threads : t \in G
    BY <2>2 DEF ownerBar
  <2>4. G \subseteq Threads
    BY <2>2 DEF Guards
  <2> QED
    BY <2>1, <2>2, <2>3, <2>4
<1> QED
  BY <1>1, <1>2

(***************************************************************************)
(* And so after a step.                                                    *)
(***************************************************************************)
LEMMA ExclusionNext ==
    IInv' => GuardsApart' /\ OwnersHold'
  BY Exclusion, PTL

(***************************************************************************)
(* The guards of a page after a step of t.                                 *)
(***************************************************************************)
LEMMA GuardsMove ==
    ASSUME NEW t \in Threads, Moves(t), NEW p, NEW ops
    PROVE  /\ t \in Guards(p, ops) <=> th[t].pc \in GuardPlaces /\ th[t].op \in ops /\ th[t].page = p
           /\ Guards(p, ops)' =
                 IF th'[t].pc \in GuardPlaces /\ th'[t].op \in ops /\ th'[t].page = p
                 THEN Guards(p, ops) \cup {t} ELSE Guards(p, ops) \ {t}
  BY DEF Guards, Moves

(***************************************************************************)
(* When the guards are the same, so are the readers and the owners.        *)
(***************************************************************************)
LEMMA GuardsStill ==
    ASSUME IInv, IInv', \A p, ops : Guards(p, ops)' = Guards(p, ops)
    PROVE  UNCHANGED <<sharedBar, ownerBar>>
<1>1. OwnersHold /\ OwnersHold'
  BY Exclusion, ExclusionNext
<1>2. sharedBar' = sharedBar
  BY DEF sharedBar
<1>3. \A p \in Pages : ownerBar'[p] = ownerBar[p]
  BY <1>1 DEF OwnersHold
<1>4. ownerBar' = ownerBar
  BY <1>3 DEF ownerBar
<1> QED
  BY <1>2, <1>4
(***************************************************************************)
(* Sampling, tickets and the cooler.                                       *)
(***************************************************************************)
LEMMA SamplingOutside ==
    ASSUME IInv, NEW t \in Threads,
           \/ SampleDone(t) \/ SampleFrame(t) \/ MarkCandidate(t) \/ EnqueueCandidate(t)
           \/ EvictCheck(t) \/ EvictClaim(t) \/ EvictBusy(t) \/ EvictLatch(t) \/ CoolingStep(t)
           \/ WorkerExits(t)
    PROVE  Outside(t)
<1> USE DEF Outside, Moves, GuardPlaces
<1>1. PICK D : th \in [Threads -> LocalsOver(D)]
  BY DEF IInv, TypedOver
<1>2. th[t] \in LocalsOver(D)
  BY <1>1
<1>3. CASE SampleDone(t)
  BY <1>1, <1>2, <1>3 DEF SampleDone, At, LocalsOver
<1>4. CASE SampleFrame(t)
  <2>1. th[t].pc = "sample"
    BY <1>4 DEF SampleFrame, At
  <2>2. PICK f \in th[t].cand :
           th' = IF frames[f].pin = 0 /\ frames[f].pid # None
                 THEN [th EXCEPT ![t].pc = "mark", ![t].cand = @ \ {f},
                                 ![t].ticket = Ticket(f, frames[f].pid)]
                 ELSE [th EXCEPT ![t].cand = @ \ {f}]
    BY <1>4 DEF SampleFrame
  <2> QED
    BY <1>1, <1>2, <2>1, <2>2 DEF LocalsOver
<1>5. CASE MarkCandidate(t)
  BY <1>1, <1>2, <1>5 DEF MarkCandidate, Goto, At, LocalsOver
<1>6. CASE EnqueueCandidate(t)
  BY <1>1, <1>2, <1>6 DEF EnqueueCandidate, At, LocalsOver
<1>7. CASE EvictCheck(t)
  BY <1>1, <1>2, <1>7 DEF EvictCheck, EvictionReturns, AfterEvict, Goto, At, LocalsOver
<1>8. CASE EvictClaim(t)
  BY <1>1, <1>2, <1>8 DEF EvictClaim, Goto, At, LocalsOver
<1>9. CASE EvictBusy(t)
  BY <1>1, <1>2, <1>9 DEF EvictBusy, EvictionReturns, AfterEvict, At, LocalsOver
<1>10. CASE EvictLatch(t)
  BY <1>1, <1>2, <1>10 DEF EvictLatch, Goto, At, LocalsOver
<1>11. CASE CoolingStep(t)
  BY <1>1, <1>2, <1>11 DEF CoolingStep, Starts, At, LocalsOver
<1>12. CASE WorkerExits(t)
  BY <1>1, <1>2, <1>12 DEF WorkerExits, Goto, At, LocalsOver
<1> QED
  BY <1>3, <1>4, <1>5, <1>6, <1>7, <1>8, <1>9, <1>10, <1>11, <1>12

(***************************************************************************)
(* The rest of evict_ticket.                                               *)
(***************************************************************************)
LEMMA EvictionOutside ==
    ASSUME IInv, NEW t \in Threads,
           \/ EvictRecheck(t) \/ EvictWrite(t) \/ EvictWriteFails(t) \/ EvictAbort(t)
           \/ EvictUnreserve(t) \/ EvictPublish(t) \/ EvictUnswizzle(t) \/ EvictMarker(t)
           \/ EvictUnlatch(t) \/ EvictClear(t) \/ EvictRelease(t) \/ EvictPush(t)
           \/ EvictFreeOld(t)
    PROVE  Outside(t)
<1> USE DEF Outside, Moves, GuardPlaces
<1>1. PICK D : th \in [Threads -> LocalsOver(D)]
  BY DEF IInv, TypedOver
<1>2. th[t] \in LocalsOver(D)
  BY <1>1
<1>3. CASE EvictRecheck(t)
  BY <1>1, <1>2, <1>3 DEF EvictRecheck, At, LocalsOver
<1>4. CASE EvictWrite(t)
  <2>1. th[t].pc = "ev_write"
    BY <1>4 DEF EvictWrite, At
  <2>2. PICK s \in Slots : th' = [th EXCEPT ![t].pc = "ev_publish", ![t].new = s]
    BY <1>4 DEF EvictWrite
  <2> QED
    BY <1>1, <1>2, <2>1, <2>2 DEF LocalsOver
<1>5. CASE EvictWriteFails(t)
  BY <1>1, <1>2, <1>5 DEF EvictWriteFails, At, LocalsOver
<1>6. CASE EvictAbort(t)
  BY <1>1, <1>2, <1>6 DEF EvictAbort, Goto, At, LocalsOver
<1>7. CASE EvictUnreserve(t)
  BY <1>1, <1>2, <1>7 DEF EvictUnreserve, AfterEvict, At, LocalsOver
<1>8. CASE EvictPublish(t)
  BY <1>1, <1>2, <1>8 DEF EvictPublish, Goto, At, LocalsOver
<1>9. CASE EvictUnswizzle(t)
  BY <1>1, <1>2, <1>9 DEF EvictUnswizzle, Goto, At, LocalsOver
<1>10. CASE EvictMarker(t)
  BY <1>1, <1>2, <1>10 DEF EvictMarker, Goto, At, LocalsOver
<1>11. CASE EvictUnlatch(t)
  BY <1>1, <1>2, <1>11 DEF EvictUnlatch, Goto, At, LocalsOver
<1>12. CASE EvictClear(t)
  BY <1>1, <1>2, <1>12 DEF EvictClear, Goto, At, LocalsOver
<1>13. CASE EvictRelease(t)
  BY <1>1, <1>2, <1>13 DEF EvictRelease, Goto, At, LocalsOver
<1>14. CASE EvictPush(t)
  BY <1>1, <1>2, <1>14 DEF EvictPush, Goto, At, LocalsOver
<1>15. CASE EvictFreeOld(t)
  BY <1>1, <1>2, <1>15 DEF EvictFreeOld, EvictionReturns, AfterEvict, At, LocalsOver
<1> QED
  BY <1>3, <1>4, <1>5, <1>6, <1>7, <1>8, <1>9, <1>10, <1>11, <1>12, <1>13, <1>14, <1>15

(***************************************************************************)
(* The search for a frame.                                                 *)
(***************************************************************************)
LEMMA AcquireOutside ==
    ASSUME IInv, NEW t \in Threads,
           \/ AcquireStops(t) \/ AcquirePops(t) \/ AcquireStarts(t) \/ AcquireSamples(t)
           \/ AcquireMisses(t) \/ TakeTicket(t) \/ EndRound(t) \/ ClaimFree(t)
           \/ DropReservation(t) \/ DropFrame(t)
    PROVE  Outside(t)
<1> USE DEF Outside, Moves, GuardPlaces
<1>1. PICK D : th \in [Threads -> LocalsOver(D)]
  BY DEF IInv, TypedOver
<1>2. th[t] \in LocalsOver(D)
  BY <1>1
<1>3. CASE AcquireStops(t)
  BY <1>1, <1>2, <1>3 DEF AcquireStops, FailAcquire, Idle, LocalsOver
<1>4. CASE AcquirePops(t)
  BY <1>1, <1>2, <1>4 DEF AcquirePops, At, LocalsOver
<1>5. CASE AcquireStarts(t)
  BY <1>1, <1>2, <1>5 DEF AcquireStarts, At, LocalsOver
<1>6. CASE AcquireSamples(t)
  BY <1>1, <1>2, <1>6 DEF AcquireSamples, At, LocalsOver
<1>7. CASE AcquireMisses(t)
  BY <1>1, <1>2, <1>7 DEF AcquireMisses, Goto, At, LocalsOver
<1>8. CASE TakeTicket(t)
  BY <1>1, <1>2, <1>8 DEF TakeTicket, At, LocalsOver
<1>9. CASE EndRound(t)
  BY <1>1, <1>2, <1>9 DEF EndRound, FailAcquire, Idle, Leave, At, LocalsOver
<1>10. CASE ClaimFree(t)
  BY <1>1, <1>2, <1>10 DEF ClaimFree, Goto, At, LocalsOver
<1>11. CASE DropReservation(t)
  BY <1>1, <1>2, <1>11 DEF DropReservation, Goto, At, LocalsOver
<1>12. CASE DropFrame(t)
  BY <1>1, <1>2, <1>12 DEF DropFrame, Idle, At, LocalsOver
<1> QED
  BY <1>3, <1>4, <1>5, <1>6, <1>7, <1>8, <1>9, <1>10, <1>11, <1>12

(***************************************************************************)
(* Faults, up to their landing.                                            *)
(***************************************************************************)
LEMMA FaultOutside ==
    ASSUME IInv, NEW t \in Threads,
           \/ FaultStops(t) \/ FaultLeads(t) \/ FaultFollows(t) \/ FollowerReturns(t)
           \/ LeadStops(t) \/ LeadFindsResident(t) \/ LeadLooksUp(t) \/ FillFrame(t)
           \/ FillFails(t) \/ Install(t) \/ PublishPin(t) \/ PlaceMarker(t) \/ Swizzle(t)
           \/ UnpinFaulted(t)
    PROVE  Outside(t)
<1> USE DEF Outside, Moves, GuardPlaces
<1>1. PICK D : th \in [Threads -> LocalsOver(D)]
  BY DEF IInv, TypedOver
<1>2. th[t] \in LocalsOver(D)
  BY <1>1
<1>3. CASE FaultStops(t)
  BY <1>1, <1>2, <1>3 DEF FaultStops, AfterFault, Idle, At, LocalsOver
<1>4. CASE FaultLeads(t)
  BY <1>1, <1>2, <1>4 DEF FaultLeads, Goto, At, LocalsOver
<1>5. CASE FaultFollows(t)
  BY <1>1, <1>2, <1>5 DEF FaultFollows, Goto, At, LocalsOver
<1>6. CASE FollowerReturns(t)
  BY <1>1, <1>2, <1>6 DEF FollowerReturns, AfterFault, Idle, At, LocalsOver
<1>7. CASE LeadStops(t)
  BY <1>1, <1>2, <1>7 DEF LeadStops, At, LocalsOver
<1>8. CASE LeadFindsResident(t)
  BY <1>1, <1>2, <1>8 DEF LeadFindsResident, At, LocalsOver
<1>9. CASE LeadLooksUp(t)
  BY <1>1, <1>2, <1>9 DEF LeadLooksUp, At, LocalsOver
<1>10. CASE FillFrame(t)
  BY <1>1, <1>2, <1>10 DEF FillFrame, Goto, At, LocalsOver
<1>11. CASE FillFails(t)
  BY <1>1, <1>2, <1>11 DEF FillFails, At, LocalsOver
<1>12. CASE Install(t)
  BY <1>1, <1>2, <1>12 DEF Install, Goto, At, LocalsOver
<1>13. CASE PublishPin(t)
  BY <1>1, <1>2, <1>13 DEF PublishPin, Goto, At, LocalsOver
<1>14. CASE PlaceMarker(t)
  BY <1>1, <1>2, <1>14 DEF PlaceMarker, Goto, At, LocalsOver
<1>15. CASE Swizzle(t)
  BY <1>1, <1>2, <1>15 DEF Swizzle, Goto, At, LocalsOver
<1>16. CASE UnpinFaulted(t)
  BY <1>1, <1>2, <1>16 DEF UnpinFaulted, At, LocalsOver
<1> QED
  BY <1>3, <1>4, <1>5, <1>6, <1>7, <1>8, <1>9, <1>10, <1>11, <1>12, <1>13, <1>14, <1>15, <1>16

(***************************************************************************)
(* allocate and the fixes, but for their guards.                           *)
(***************************************************************************)
LEMMA CallOutside ==
    ASSUME IInv, NEW t \in Threads,
           \/ Allocate(t) \/ AllocatePid(t) \/ Fix(t) \/ FixStops(t) \/ LoadSwip(t)
           \/ PinFrame(t) \/ PinRefused(t) \/ LatchFrame(t) \/ FixRetries(t) \/ UnpinRetry(t)
           \/ DropLatch(t) \/ SnapshotExact(t) \/ SnapshotValidates(t)
    PROVE  Outside(t)
<1> USE DEF Outside, Moves, GuardPlaces
<1>1. PICK D : th \in [Threads -> LocalsOver(D)]
  BY DEF IInv, TypedOver
<1>2. th[t] \in LocalsOver(D)
  BY <1>1
<1>3. CASE Allocate(t)
  BY <1>1, <1>2, <1>3 DEF Allocate, Starts, At, LocalsOver
<1>4. CASE AllocatePid(t)
  BY <1>1, <1>2, <1>4 DEF AllocatePid, Goto, At, LocalsOver
<1>5. CASE Fix(t)
  <2>1. th[t].pc = "idle"
    BY <1>5 DEF Fix, Starts, At
  <2>2. PICK o, p : th' = [th EXCEPT ![t].pc = "load", ![t].op = o, ![t].page = p]
    BY <1>5 DEF Fix
  <2> QED
    BY <1>1, <1>2, <2>1, <2>2 DEF LocalsOver
<1>6. CASE FixStops(t)
  BY <1>1, <1>2, <1>6 DEF FixStops, Leave, Idle, At, LocalsOver
<1>7. CASE LoadSwip(t)
  BY <1>1, <1>2, <1>7 DEF LoadSwip, At, LocalsOver
<1>8. CASE PinFrame(t)
  BY <1>1, <1>2, <1>8 DEF PinFrame, Goto, At, LocalsOver
<1>9. CASE PinRefused(t)
  BY <1>1, <1>2, <1>9 DEF PinRefused, At, LocalsOver
<1>10. CASE LatchFrame(t)
  BY <1>1, <1>2, <1>10 DEF LatchFrame, Goto, At, LocalsOver
<1>11. CASE FixRetries(t)
  BY <1>1, <1>2, <1>11 DEF FixRetries, Goto, At, LocalsOver
<1>12. CASE UnpinRetry(t)
  BY <1>1, <1>2, <1>12 DEF UnpinRetry, At, LocalsOver
<1>13. CASE DropLatch(t)
  BY <1>1, <1>2, <1>13 DEF DropLatch, Leave, Idle, Goto, At, LocalsOver
<1>14. CASE SnapshotExact(t)
  BY <1>1, <1>2, <1>14 DEF SnapshotExact, DropSnapshot, Leave, Idle, Goto, At, LocalsOver
<1>15. CASE SnapshotValidates(t)
  BY <1>1, <1>2, <1>15 DEF SnapshotValidates, DropSnapshot, Leave, Idle, Goto, At, LocalsOver
<1> QED
  BY <1>3, <1>4, <1>5, <1>6, <1>7, <1>8, <1>9, <1>10, <1>11, <1>12, <1>13, <1>14, <1>15

(***************************************************************************)
(* prefetch and shutdown.                                                  *)
(***************************************************************************)
LEMMA TaskOutside ==
    ASSUME IInv, NEW t \in Threads,
           \/ SubmitPrefetch(t) \/ CheckoutPops(t) \/ CheckoutClaims(t) \/ SubmitChecks(t)
           \/ SendTask(t) \/ ReceiveTask(t) \/ DropPrefetchReservation(t) \/ ShutdownStarts(t)
           \/ ShutdownJoins(t) \/ FlushFrame(t) \/ FlushPassEnds(t)
    PROVE  Outside(t)
<1> USE DEF Outside, Moves, GuardPlaces
<1>1. PICK D : th \in [Threads -> LocalsOver(D)]
  BY DEF IInv, TypedOver
<1>2. th[t] \in LocalsOver(D)
  BY <1>1
<1>3. CASE SubmitPrefetch(t)
  <2>1. th[t].pc = "idle"
    BY <1>3 DEF SubmitPrefetch, Starts, At
  <2>2. PICK p : th' = [th EXCEPT ![t].pc = "pf_pop", ![t].op = "submit", ![t].page = p]
    BY <1>3 DEF SubmitPrefetch
  <2> QED
    BY <1>1, <1>2, <2>1, <2>2 DEF LocalsOver
<1>4. CASE CheckoutPops(t)
  BY <1>1, <1>2, <1>4 DEF CheckoutPops, Goto, At, LocalsOver
<1>5. CASE CheckoutClaims(t)
  BY <1>1, <1>2, <1>5 DEF CheckoutClaims, Goto, At, LocalsOver
<1>6. CASE SubmitChecks(t)
  BY <1>1, <1>2, <1>6 DEF SubmitChecks, Goto, At, LocalsOver
<1>7. CASE SendTask(t)
  BY <1>1, <1>2, <1>7 DEF SendTask, Leave, Idle, At, LocalsOver
<1>8. CASE ReceiveTask(t)
  BY <1>1, <1>2, <1>8 DEF ReceiveTask, Starts, At, LocalsOver
<1>9. CASE DropPrefetchReservation(t)
  BY <1>1, <1>2, <1>9 DEF DropPrefetchReservation, Leave, Idle, At, LocalsOver
<1>10. CASE ShutdownStarts(t)
  BY <1>1, <1>2, <1>10 DEF ShutdownStarts, Idle, LocalsOver
<1>11. CASE ShutdownJoins(t)
  BY <1>1, <1>2, <1>11 DEF ShutdownJoins, At, LocalsOver
<1>12. CASE FlushFrame(t)
  <2>1. PICK f \in th[t].cand :
            LET p == frames[f].pid
                seen == [th EXCEPT ![t].cand = @ \ {f}, ![t].want = IF p = None THEN @ ELSE 1]
            IN  IF p # None /\ ResidentAt(p, f)
                THEN th' = [seen EXCEPT ![t].pc = "ev_check", ![t].ticket = Ticket(f, p)]
                ELSE th' = seen
    BY <1>12 DEF FlushFrame
  <2>2. th[t].pc = "flush"
    BY <1>12 DEF FlushFrame, At
  <2>3. PICK p : p = frames[f].pid
    OBVIOUS
  <2>4. CASE p # None /\ ResidentAt(p, f)
    BY <1>1, <1>2, <2>1, <2>2, <2>3, <2>4 DEF LocalsOver
  <2>5. CASE ~(p # None /\ ResidentAt(p, f))
    BY <1>1, <1>2, <2>1, <2>2, <2>3, <2>5 DEF LocalsOver
  <2> QED
    BY <2>4, <2>5
<1>13. CASE FlushPassEnds(t)
  BY <1>1, <1>2, <1>13 DEF FlushPassEnds, Goto, At, LocalsOver
<1> QED
  BY <1>3, <1>4, <1>5, <1>6, <1>7, <1>8, <1>9, <1>10, <1>11, <1>12, <1>13


(***************************************************************************)
(* The owners are a function of the pages.                                 *)
(***************************************************************************)
LEMMA OwnerMap ==
    /\ ownerBar = [p \in Pages |-> ownerBar[p]]
    /\ ownerBar' = [p \in Pages |-> ownerBar'[p]]
  BY DEF ownerBar

(***************************************************************************)
(* Where a guard is, its page has a value.                                 *)
(***************************************************************************)
LEMMA GuardedValue ==
    ASSUME IInv, IInv', DInv, NEW p \in Pages
    PROVE  \A f : ResidentAt(p, f) => valueBar[p] # None
<1> SUFFICES ASSUME NEW f, ResidentAt(p, f) PROVE valueBar[p] # None
  OBVIOUS
<1>1. PICK g \in Frames : ResidentAt(p, g)
  <2>1. swip[p] # Evicted
    BY DEF ResidentAt, Evicted, Hot, Cooling
  <2> QED
    BY <2>1, PageValue
<1>2. valueBar[p] = frames[g].data
  <2> HIDE DEF ValueOf
  <2>1. ValueOf(p) = frames[g].data
    BY <1>1, PageValue
  <2> QED
    BY <2>1, Bars
<1>3. frames[g].data \in Values
  BY <1>1 DEF DInv, StoredOK
<1> QED
  BY <1>2, <1>3, PoolAssumption

(***************************************************************************)
(* Taking a guard is one of the store's acquisitions.                      *)
(***************************************************************************)
LEMMA Takes ==
    ASSUME IInv, IInv', DInv, NEW t \in Threads, NEW p \in Pages, NEW f,
           Moves(t), UNCHANGED valueBar, ResidentAt(p, f),
           th[t].pc \notin GuardPlaces,
           th'[t].pc \in GuardPlaces, th'[t].op \in FixOps, th'[t].page = p
    PROVE  Store!AcquireShared(t, p) \/ Store!AcquireExclusive(t, p)
<1>1. valueBar[p] # None
  BY GuardedValue
<1>2. GuardsApart' /\ OwnersHold /\ OwnersHold'
  BY Exclusion, ExclusionNext
<1>3. ASSUME NEW u \in Threads, u # t, th[u].pc \in GuardPlaces, th[u].page = p
      PROVE  th[u].op # "exclusive" /\ th'[t].op # "exclusive"
  <2>1. th'[u] = th[u]
    BY <1>3 DEF Moves
  <2> QED
    BY <1>2, <1>3, <2>1 DEF GuardsApart
<1>4. Guards(p, {"exclusive"}) = {}
  BY <1>3 DEF Guards
<1>5. ownerBar[p] = None
  BY <1>2, <1>4 DEF OwnersHold
<1>6. \A q \in Pages : \A ops : q # p => Guards(q, ops)' = Guards(q, ops)
  BY DEF Guards, Moves
<1>7. \A q \in Pages : q # p => sharedBar'[q] = sharedBar[q] /\ ownerBar'[q] = ownerBar[q]
  <2>1. \A q \in Pages : q # p => ownerBar'[q] = ownerBar[q]
    BY <1>2, <1>6 DEF OwnersHold
  <2> QED
    BY <1>6, <2>1 DEF sharedBar
<1>8. CASE th'[t].op \in {"shared", "optimistic"}
  <2>1. /\ Guards(p, {"exclusive"})' = Guards(p, {"exclusive"})
        /\ Guards(p, {"shared", "optimistic"})' = Guards(p, {"shared", "optimistic"}) \cup {t}
        /\ t \notin Guards(p, {"shared", "optimistic"})
    BY <1>8 DEF Guards, Moves
  <2>2. ownerBar'[p] = ownerBar[p]
    BY <1>2, <2>1 DEF OwnersHold
  <2>3. UNCHANGED ownerBar
    BY <1>7, <2>2 DEF ownerBar
  <2>4. sharedBar' = [sharedBar EXCEPT ![p] = @ \cup {t}] /\ t \notin sharedBar[p]
    BY <1>6, <2>1 DEF sharedBar
  <2> QED
    BY <1>1, <1>5, <2>3, <2>4 DEF Store!AcquireShared
<1>9. CASE th'[t].op = "exclusive"
  <2>1. /\ t \in Guards(p, {"exclusive"})'
        /\ Guards(p, {"shared", "optimistic"})' = Guards(p, {"shared", "optimistic"})
    BY <1>9 DEF Guards, Moves
  <2>2. Guards(p, {"shared", "optimistic"}) = {}
    BY <1>3, <1>9 DEF Guards
  <2>3. sharedBar[p] = {} /\ UNCHANGED sharedBar
    BY <1>6, <2>1, <2>2 DEF sharedBar
  <2>4. ownerBar'[p] = t
    BY <1>2, <2>1 DEF OwnersHold
  <2>5. ownerBar' = [ownerBar EXCEPT ![p] = t]
    BY <1>7, <2>4, OwnerMap
  <2> QED
    BY <1>1, <1>5, <2>3, <2>5 DEF Store!AcquireExclusive
<1> QED
  BY <1>8, <1>9 DEF FixOps

(***************************************************************************)
(* And dropping one is one of its releases.                                *)
(***************************************************************************)
LEMMA Releases ==
    ASSUME IInv, IInv', NEW t \in Threads, NEW p \in Pages,
           Moves(t), UNCHANGED valueBar,
           th[t].pc \in GuardPlaces, th[t].op \in FixOps, th[t].page = p,
           th'[t].pc \notin GuardPlaces
    PROVE  Store!ReleaseShared(t, p) \/ Store!ReleaseExclusive(t, p)
<1>1. GuardsApart /\ OwnersHold /\ OwnersHold'
  BY Exclusion, ExclusionNext
<1>2. \A q \in Pages : \A ops : q # p => Guards(q, ops)' = Guards(q, ops)
  BY DEF Guards, Moves
<1>3. \A q \in Pages : q # p => ownerBar'[q] = ownerBar[q]
  BY <1>1, <1>2 DEF OwnersHold
<1>4. CASE th[t].op \in {"shared", "optimistic"}
  <2>1. /\ Guards(p, {"exclusive"})' = Guards(p, {"exclusive"})
        /\ Guards(p, {"shared", "optimistic"})' = Guards(p, {"shared", "optimistic"}) \ {t}
        /\ t \in Guards(p, {"shared", "optimistic"})
    BY <1>4 DEF Guards, Moves
  <2>2. ownerBar'[p] = ownerBar[p]
    BY <1>1, <2>1 DEF OwnersHold
  <2>3. UNCHANGED ownerBar
    BY <1>3, <2>2 DEF ownerBar
  <2>4. sharedBar' = [sharedBar EXCEPT ![p] = @ \ {t}] /\ t \in sharedBar[p]
    BY <1>2, <2>1 DEF sharedBar
  <2> QED
    BY <2>3, <2>4 DEF Store!ReleaseShared
<1>5. CASE th[t].op = "exclusive"
  <2>1. /\ t \in Guards(p, {"exclusive"})
        /\ Guards(p, {"shared", "optimistic"})' = Guards(p, {"shared", "optimistic"})
        /\ Guards(p, {"exclusive"})' = Guards(p, {"exclusive"}) \ {t}
    BY <1>5 DEF Guards, Moves
  <2>2. Guards(p, {"exclusive"})' = {}
    BY <1>1, <1>5, <2>1 DEF Guards, GuardsApart
  <2>3. UNCHANGED sharedBar
    BY <1>2, <2>1 DEF sharedBar
  <2>4. ownerBar[p] = t /\ ownerBar'[p] = None
    BY <1>1, <2>1, <2>2 DEF OwnersHold
  <2>5. ownerBar' = [ownerBar EXCEPT ![p] = None]
    BY <1>3, <2>4, OwnerMap
  <2> QED
    BY <2>3, <2>4, <2>5 DEF Store!ReleaseExclusive
<1> QED
  BY <1>4, <1>5 DEF FixOps

(***************************************************************************)
(* A step that leaves the guards alone leaves the readers and owners.      *)
(***************************************************************************)
LEMMA OutsideStill ==
    ASSUME IInv, IInv', NEW t \in Threads, Outside(t)
    PROVE  UNCHANGED <<sharedBar, ownerBar>>
<1>1. \A p, ops : Guards(p, ops)' = Guards(p, ops)
  BY DEF Guards, Outside, Moves
<1> QED
  BY <1>1, GuardsStill

(***************************************************************************)
(* The steps that take, keep or drop a guard.                              *)
(***************************************************************************)
LEMMA GuardSteps ==
    ASSUME IInv, IInv', DInv, NEW t \in Threads, UNCHANGED valueBar,
           \/ RegisterPage(t) \/ FixSucceeds(t) \/ FixSucceedsDeclined(t)
           \/ EnqueueDeclined(t) \/ CaptureSnapshot(t) \/ DropGuard(t) \/ Land(t)
    PROVE  [Store!PSNext]_(Store!psVars)
<1>1. PICK D : th \in [Threads -> LocalsOver(D)]
  BY DEF IInv, TypedOver
<1>2. th[t] \in LocalsOver(D) /\ PlaceOK(t) /\ ExactOK(t) /\ Backed(t)
  BY <1>1, Needs DEF IInv, ThreadOK
<1>3. th[t].pc \in {"check", "guard", "guard_cooling", "captured"} => th[t].op \in FixOps
  <2>1. th[t].op \in Operations \cup {None}
    BY <1>2 DEF LocalsOver
  <2> QED
    BY <1>2, <2>1 DEF PlaceOK, Operations, FixOps, AcquirePlaces, EvictPlaces, EvictReserved,
       FillPlaces, UndoPlaces, TaskPlaces, Fixing
<1>4. PICK p, f : p = th[t].page /\ f = th[t].frame
  OBVIOUS
<1>5. ASSUME NEW q \in Pages, Store!AcquireShared(t, q) \/ Store!AcquireExclusive(t, q)
      PROVE  Store!PSNext
  BY <1>5 DEF Store!PSNext
<1>6. ASSUME NEW q \in Pages, Store!ReleaseShared(t, q) \/ Store!ReleaseExclusive(t, q)
      PROVE  Store!PSNext
  BY <1>6 DEF Store!PSNext
<1>7. ASSUME \A q, ops : Guards(q, ops)' = Guards(q, ops)
      PROVE  UNCHANGED Store!psVars
  BY <1>7, GuardsStill DEF Store!psVars
<1>8. CASE RegisterPage(t)
  <2>1. /\ th[t].pc = "register"
        /\ th' = [th EXCEPT ![t].pc = "guard", ![t].op = "exclusive"]
    BY <1>8 DEF RegisterPage, At
  <2>2. /\ Moves(t) /\ th'[t].pc = "guard" /\ th'[t].op = "exclusive" /\ th'[t].page = p
    BY <1>1, <1>2, <1>4, <2>1 DEF Moves, LocalsOver
  <2>3. p \in Pages /\ ResidentAt(p, f)
    BY <1>2, <1>4, <2>1 DEF Backed, ExactOK
  <2>4. Store!AcquireShared(t, p) \/ Store!AcquireExclusive(t, p)
    BY <2>1, <2>2, <2>3, Takes DEF GuardPlaces, FixOps
  <2> QED
    BY <1>5, <2>3, <2>4
<1>9. CASE FixSucceeds(t) \/ FixSucceedsDeclined(t)
  <2>1. /\ th[t].pc = "check" /\ ResidentAt(p, f)
        /\ \/ th' = [th EXCEPT ![t].pc = "guard"]
           \/ th' = [th EXCEPT ![t].pc = "guard_cooling"]
    BY <1>4, <1>9 DEF FixSucceeds, FixSucceedsDeclined, ResidentIsExact, Goto, At
  <2>2. /\ Moves(t) /\ th'[t].pc \in GuardPlaces /\ th'[t].op \in FixOps /\ th'[t].page = p
    BY <1>1, <1>2, <1>3, <1>4, <2>1 DEF Moves, LocalsOver, GuardPlaces
  <2>3. p \in Pages
    BY <1>2, <1>3, <1>4, <2>1 DEF Backed
  <2>4. Store!AcquireShared(t, p) \/ Store!AcquireExclusive(t, p)
    BY <2>1, <2>2, <2>3, Takes DEF GuardPlaces
  <2> QED
    BY <1>5, <2>3, <2>4
<1>10. CASE EnqueueDeclined(t) \/ CaptureSnapshot(t)
  <2>1. /\ th[t].pc \in GuardPlaces
        /\ \/ th' = [th EXCEPT ![t].pc = "guard"]
           \/ \E v : th' = [th EXCEPT ![t].pc = "captured", ![t].snap = v]
    BY <1>10 DEF EnqueueDeclined, CaptureSnapshot, Goto, At, GuardPlaces
  <2>2. /\ Moves(t) /\ th'[t].pc \in GuardPlaces
        /\ th'[t].op = th[t].op /\ th'[t].page = th[t].page
    BY <1>1, <1>2, <2>1 DEF Moves, LocalsOver, GuardPlaces
  <2> QED
    BY <1>7, <2>1, <2>2 DEF Guards, Moves
<1>11. CASE DropGuard(t)
  <2>1. /\ th[t].pc \in {"guard", "captured"}
        /\ th' = [th EXCEPT ![t].pc = "unpinned"]
    BY <1>11 DEF DropGuard, Goto, At
  <2>2. /\ Moves(t) /\ th'[t].pc = "unpinned"
    BY <1>1, <1>2, <2>1 DEF Moves, LocalsOver
  <2>3. p \in Pages
    BY <1>2, <1>3, <1>4, <2>1 DEF Backed
  <2>4. Store!ReleaseShared(t, p) \/ Store!ReleaseExclusive(t, p)
    BY <1>3, <1>4, <2>1, <2>2, <2>3, Releases DEF GuardPlaces
  <2> QED
    BY <1>6, <2>3, <2>4
<1>12. CASE Land(t)
  <2>1. /\ th[t].pc = "land"
        /\ \A u \in Threads \ {t} :
              th'[u] = IF th[u].pc = "follow" /\ th[u].page = p
                       THEN [th[u] EXCEPT !.pc = "answered", !.result = th[t].result] ELSE th[u]
        /\ th'[t] = AfterFault(t, th[t].result)
    BY <1>4, <1>12 DEF Land, At
  <2>2. th'[t].pc \notin GuardPlaces /\ th[t].pc \notin GuardPlaces
    <3>1. AfterFault(t, th[t].result).pc \in {"unreserve", "undo_release", "load", "idle"}
      BY <1>2 DEF AfterFault, Idle, LocalsOver
    <3> QED
      BY <2>1, <3>1 DEF GuardPlaces
  <2>3. ASSUME NEW u \in Threads \ {t}
        PROVE  \/ th'[u] = th[u]
               \/ th[u].pc \notin GuardPlaces /\ th'[u].pc \notin GuardPlaces
    <3>1. th[u] \in LocalsOver(D)
      BY <1>1
    <3> QED
      BY <2>1, <3>1 DEF LocalsOver, GuardPlaces
  <2> QED
    BY <1>7, <2>2, <2>3 DEF Guards
<1> QED
  BY <1>8, <1>9, <1>10, <1>11, <1>12

(***************************************************************************)
(* A write through an exclusive guard is the store's write.                *)
(***************************************************************************)
LEMMA Writes ==
    ASSUME IInv, IInv', DInv, NEW t \in Threads, WriteGuard(t)
    PROVE  Store!PSNext
<1>1. th[t].pc = "guard" /\ th[t].op = "exclusive" /\ UNCHANGED th
  BY DEF WriteGuard, At
<1>2. PICK p : p = th[t].page
  OBVIOUS
<1>3. p \in Pages
  BY <1>1, <1>2, Needs DEF Backed, GuardPlaces
<1>4. PICK v \in Values : valueBar' = [valueBar EXCEPT ![p] = v]
  BY <1>2, WriteGuardData
<1>5. ownerBar[p] = t
  BY <1>1, <1>2, <1>3, Exclusion DEF OwnersHold, Guards, GuardPlaces
<1>6. UNCHANGED <<sharedBar, ownerBar>>
  BY <1>1, GuardsStill DEF Guards
<1>7. Store!Write(t, p, v)
  BY <1>4, <1>5, <1>6 DEF Store!Write
<1> QED
  BY <1>3, <1>7 DEF Store!PSNext

(***************************************************************************)
(* A fault or an allocation that publishes its page.                       *)
(***************************************************************************)
LEMMA Swizzles ==
    ASSUME IInv, IInv', DInv, NEW t \in Threads, Swizzle(t)
    PROVE  [Store!PSNext]_(Store!psVars)
<1>1. UNCHANGED <<sharedBar, ownerBar>>
  BY FaultOutside, OutsideStill
<1>2. CASE th[t].op # "alloc"
  BY <1>1, <1>2, SwizzlesData DEF Store!psVars
<1>3. CASE th[t].op = "alloc"
  <2>1. Store!Create(th[t].page) /\ th[t].page \in Pages
    BY <1>1, <1>3, SwizzlesData DEF Store!Create
  <2> QED
    BY <2>1 DEF Store!PSNext
<1> QED
  BY <1>2, <1>3

(***************************************************************************)
(* The new pool is the empty store.                                        *)
(***************************************************************************)
LEMMA EmptyStore ==
    PoolInit => Store!PSInit
<1> SUFFICES ASSUME PoolInit PROVE Store!PSInit
  OBVIOUS
<1>1. valueBar = [p \in Pages |-> None]
  BY DEF PoolInit, valueBar
<1>2. \A p, ops : Guards(p, ops) = {}
  BY DEF PoolInit, Guards, GuardPlaces, Idle
<1>3. sharedBar = [p \in Pages |-> {}]
  BY <1>2 DEF sharedBar
<1>4. ownerBar = [p \in Pages |-> None]
  BY <1>2 DEF ownerBar
<1> QED
  BY <1>1, <1>3, <1>4 DEF Store!PSInit

(***************************************************************************)
(* The pool implements PageStore: a page's value changes only by a write   *)
(* under its exclusive guard, whatever is evicted, faulted in, prefetched  *)
(* or flushed meanwhile, and guards of one page exclude each other as a    *)
(* readers-writer lock does.                                               *)
(***************************************************************************)
THEOREM Implements == Spec => ImplementsPageStore
<1>1. ASSUME IInv, IInv', DInv, NEW t \in Threads,
             \/ ApiStep(t) \/ FaultStep(t) \/ EvictionStep(t)
             \/ PrefetchStep(t) \/ WorkerStep(t) \/ ShutdownStep(t)
      PROVE  [Store!PSNext]_(Store!psVars)
  <2>1. CASE Swizzle(t)
    BY <1>1, <2>1, Swizzles
  <2>2. CASE WriteGuard(t)
    BY <1>1, <2>2, Writes
  <2>3. CASE UNCHANGED valueBar
    <3>1. CASE \/ RegisterPage(t) \/ FixSucceeds(t) \/ FixSucceedsDeclined(t)
               \/ EnqueueDeclined(t) \/ CaptureSnapshot(t) \/ DropGuard(t) \/ Land(t)
      BY <1>1, <2>3, <3>1, GuardSteps
    <3>2. CASE Outside(t)
      BY <1>1, <2>3, <3>2, OutsideStill DEF Store!psVars
    <3>3. \/ Swizzle(t) \/ WriteGuard(t) \/ Outside(t)
          \/ RegisterPage(t) \/ FixSucceeds(t) \/ FixSucceedsDeclined(t)
          \/ EnqueueDeclined(t) \/ CaptureSnapshot(t) \/ DropGuard(t) \/ Land(t)
      <4>1. CASE EvictionStep(t) \/ WorkerStep(t)
        BY <1>1, <4>1, SamplingOutside, EvictionOutside DEF EvictionStep, WorkerStep
      <4>2. CASE FaultStep(t)
        BY <1>1, <4>2, AcquireOutside, FaultOutside DEF FaultStep
      <4>3. CASE ApiStep(t)
        BY <1>1, <4>3, CallOutside DEF ApiStep
      <4>4. CASE PrefetchStep(t) \/ ShutdownStep(t)
        BY <1>1, <4>4, TaskOutside DEF PrefetchStep, ShutdownStep
      <4> QED
        BY <1>1, <4>1, <4>2, <4>3, <4>4
    <3> QED
      BY <2>1, <2>2, <3>1, <3>2, <3>3
  <2> QED
    BY <1>1, <2>1, <2>2, <2>3, StepData
<1>2. UNCHANGED poolVars => UNCHANGED Store!psVars
  BY DEF poolVars, Store!psVars, valueBar, sharedBar, ownerBar, Guards
<1>3. IInv /\ IInv' /\ DInv /\ [Next]_poolVars => [Store!PSNext]_(Store!psVars)
  BY <1>1, <1>2 DEF Next
<1> QED
  BY <1>3, EmptyStore, DataInductive, PTL DEF Spec, ImplementsPageStore, Store!PSSpec
=============================================================================
