--------------------------- MODULE PoolInvariant ---------------------------
(***************************************************************************)
(* The inductive invariant of the page protocol of the pool, for any       *)
(* number of threads, frames, pages and slots, any roles and any outcome   *)
(* of tier I/O: who owns a frame, who has reserved it and who has pinned   *)
(* it.  With it the lemmas about its parts, and that eviction and the      *)
(* search for a frame preserve it; PoolProofs has the other steps and the  *)
(* theorems.                                                               *)
(***************************************************************************)
EXTENDS PoolProperties, FiniteSetTheorems, SequenceTheorems, TLAPS

\* The types of TypeOK with pages of D: that a frame holds a page's bytes and
\* nothing else takes more than types to show.
FrameOver(D) ==
    [pid : Pages \cup {None}, generation : Generations, dirty : BOOLEAN,
     pin : Int, writer : Threads \cup {None}, readers : SUBSET Threads,
     data : D, snaps : SUBSET Threads]

LocalsOver(D) ==
    [pc : Places, op : Operations \cup {None}, page : Pages \cup {None},
     frame : Frames \cup {None}, faulted : BOOLEAN, src : Slots \cup {None},
     snap : D \cup {None},
     ticket : CoolingTicket \cup {None}, old : Slots \cup {None},
     new : Slots \cup {None}, cand : SUBSET Frames, want : Nat, left : Nat,
     rounds : 0 .. MaxRounds, result : {"ok", "error", "stale", None}]

SharedOver(D) ==
    /\ swip \in [Pages -> SwipStates]
    /\ pages \in SUBSET Pages
    /\ next_pid \in 0 .. (MaxPid + 1)
    /\ frames \in [Frames -> FrameOver(D)]
    /\ free \in Seq(Frames)
    /\ cooling \in Seq(CoolingTicket)
    /\ directory \in [Pages -> Slots \cup {None}]
    /\ slots \in [Slots -> D \cup {None}]
    /\ leader \in [Pages -> Threads \cup {None}]
    /\ prefetched \in [Pages -> PrefetchMarker \cup {None}]
    /\ pending \in SUBSET Pages
    /\ channel \in Seq(PrefetchTask)
    /\ stopping \in BOOLEAN

TypedOver(D) == Values \subseteq D /\ SharedOver(D) /\ th \in [Threads -> LocalsOver(D)]

FixOps == {"shared", "exclusive", "optimistic"}
EvictPlaces == {"ev_check", "ev_claim", "ev_push", "ev_free"} \cup EvictReserved
AcquirePlaces == {"acquire", "round", "sample", "mark", "enqueue", "take", "freed", "claim"}
                     \cup EvictPlaces
FillPlaces == {"fill", "install", "publish", "swizzle"}
UndoPlaces == {"undo_release", "undo_push"}

\* The places each operation passes through.
PlaceOK(t) ==
    LET pc == th[t].pc
        op == th[t].op
    IN
    /\ op = None => pc \in {"idle", "exited"}
    /\ pc = "idle" => th[t] = Idle
    /\ op = "alloc" =>
          pc \in AcquirePlaces \cup FillPlaces \cup UndoPlaces \cup {"pid", "latch", "register"}
    /\ op \in FixOps =>
          pc \in AcquirePlaces \cup FillPlaces \cup UndoPlaces \cup TaskPlaces
                   \cup (Fixing \ {"register"})
                   \cup {"load", "pin", "unpin", "unpinned", "snapshot", "validate"}
    /\ op = "submit" => pc \in {"pf_pop", "pf_claim", "pf_gate", "pf_send", "unreserve"} \cup UndoPlaces
    /\ op = "prefetch" =>
          pc \in TaskPlaces \cup FillPlaces \cup UndoPlaces \cup {"marker", "unpin", "unreserve"}
    /\ op = "cool" => pc \in {"sample", "mark", "enqueue", "take"} \cup EvictPlaces
    /\ op = "shutdown" => pc \in {"sd_gate", "flush", "sd_done", "sd_failed"} \cup EvictPlaces
    /\ pc = "guard_cooling" => op \in {"shared", "optimistic"}
    /\ pc \in {"captured", "snapshot", "validate"} => op = "optimistic"

\* The locals a place needs.
LocalsOK(t) ==
    LET pc == th[t].pc
        op == th[t].op
    IN
    /\ \/ pc \in Unreserved \cup Reserved \cup Published \cup Fixing
                   \cup {"pin", "unpin", "unpinned", "snapshot", "validate"}
       \/ op = "prefetch" /\ pc \in {"fault", "follow", "answered", "lead"}
       => th[t].frame \in Frames
    /\ pc \in EvictPlaces \cup {"mark", "enqueue"} => th[t].ticket \in CoolingTicket
    /\ op \in FixOps \cup {"submit", "prefetch"} => th[t].page \in pages
    /\ op = "alloc" =>
          IF pc \in FillPlaces \cup {"latch", "register"}
          THEN th[t].page \in Pages \ pages /\ th[t].page < next_pid
          ELSE th[t].page = None

\* A thread that leads a flight is registered as its leader, ...
LeadOK(t) ==
    \/ th[t].op \in FixOps /\ th[t].pc \in AcquirePlaces \cup FillPlaces \cup UndoPlaces
                                             \cup {"lead", "land", "unpin"}
    \/ th[t].op = "prefetch" /\ th[t].pc \in FillPlaces \cup {"marker", "lead", "land", "unpin"}
    => leader[th[t].page] = t

\* ... and until it publishes the page nobody else has.
VacantOK(t) ==
    \/ th[t].op \in FixOps /\ th[t].pc \in AcquirePlaces \cup FillPlaces
    \/ th[t].op \in {"prefetch", "alloc"} /\ th[t].pc \in FillPlaces \cup {"marker"}
    => swip[th[t].page] = Evicted

\* The frame to be published bears the page's identifier.
InstalledOK(t) ==
    th[t].pc \in {"publish"} \cup Published => frames[th[t].frame].pid = th[t].page

\* A guard, and a new page on its way to its first guard, stays resident.
ExactOK(t) ==
    th[t].pc \in GuardPlaces \cup {"register"} \/ (th[t].op = "alloc" /\ th[t].pc = "latch") =>
        ResidentAt(th[t].page, th[t].frame)

\* An evictor that has rechecked its ticket keeps it exact.
EvictorOK(t) ==
    th[t].pc \in {"ev_write", "ev_publish", "ev_unswizzle"} =>
        swip[th[t].ticket.pid] = Cooling(th[t].ticket.frame)

\* Who holds a frame's latch.
LatchOK(t) ==
    /\ th[t].pc \in {"check", "unpinned", "register"} \cup GuardPlaces =>
          IF SharedFix(t) THEN t \in frames[th[t].frame].readers
          ELSE frames[th[t].frame].writer = t
    /\ th[t].pc \in {"ev_recheck", "ev_write", "ev_publish", "ev_unswizzle", "ev_marker",
                     "ev_unlatch", "ev_abort"} =>
          frames[th[t].ticket.frame].writer = t

ThreadOK(t) ==
    /\ PlaceOK(t) /\ LocalsOK(t)
    /\ LeadOK(t) /\ VacantOK(t) /\ InstalledOK(t) /\ ExactOK(t) /\ EvictorOK(t) /\ LatchOK(t)

Single(S) == \E x \in S : S = {x}
FreeAt(f) == {i \in 1 .. Len(free) : free[i] = f}

\* Each frame is in one place, ...
InOnePlace(f) ==
    \/ Single(FreeAt(f)) /\ Owners(f) = {} /\ TasksWith(f) = {} /\ Occupants(f) = {}
    \/ FreeAt(f) = {} /\ Single(Owners(f)) /\ TasksWith(f) = {} /\ Occupants(f) = {}
    \/ FreeAt(f) = {} /\ Owners(f) = {} /\ Single(TasksWith(f)) /\ Occupants(f) = {}
    \/ FreeAt(f) = {} /\ Owners(f) = {} /\ TasksWith(f) = {} /\ Single(Occupants(f))

\* ... reserved by one actor or pinned by those that will unpin it.
PinOK(f) ==
    \/ /\ frames[f].pin = EVICTING /\ Pinners(f) = {}
       /\ \/ Single(Reservers(f)) /\ TasksWith(f) = {}
          \/ Reservers(f) = {} /\ Single(TasksWith(f))
    \/ /\ Reservers(f) = {} /\ TasksWith(f) = {}
       /\ IsFiniteSet(Pinners(f)) /\ frames[f].pin = Cardinality(Pinners(f))

\* A page is resident where its identifier is.
OccupantOK == \A p \in Pages, f \in Frames : ResidentAt(p, f) => frames[f].pid = p

\* Identifiers are handed out once.
FreshOK ==
    /\ \A p \in pages : p < next_pid
    /\ \A p \in Pages : swip[p] # Evicted => p < next_pid
    /\ \A i \in 1 .. Len(channel) : channel[i].pid \in pages
    /\ \A t, u \in Threads :
          th[t].op = "alloc" /\ th[u].op = "alloc" /\ th[t].page = th[u].page
              /\ th[t].page # None => t = u

LatchExcludes == \A f \in Frames : frames[f].writer # None => frames[f].readers = {}

\* The inductive invariant.
IInv ==
    /\ \E D : TypedOver(D)
    /\ \A t \in Threads : ThreadOK(t)
    /\ \A f \in Frames : InOnePlace(f) /\ PinOK(f)
    /\ OccupantOK
    /\ FreshOK
    /\ LatchExcludes

-----------------------------------------------------------------------------
\* What a thread with locals l owns, has reserved and has pinned.
OwnedBy(l) ==
    {f \in Frames :
        \/ l.pc \in Unreserved \cup Reserved \cup Published /\ l.frame = f
        \/ l.op = "prefetch" /\ l.pc \in TaskPlaces /\ l.frame = f
        \/ l.pc \in EvictDetached /\ l.ticket.frame = f}
ReservedBy(l) ==
    {f \in Frames :
        \/ l.pc \in Reserved /\ l.frame = f
        \/ l.op = "prefetch" /\ l.pc \in TaskPlaces /\ l.frame = f
        \/ l.pc \in EvictReserved /\ l.ticket.frame = f}
PinnedBy(l) ==
    {f \in Frames : l.pc \in Fixing \cup Published \cup {"unpin"} /\ l.frame = f}

(***************************************************************************)
(* Who owns, reserves and pins a frame, by what each thread's locals say.  *)
(***************************************************************************)
LEMMA Views ==
    ASSUME NEW f \in Frames
    PROVE  /\ Owners(f) = {t \in Threads : f \in OwnedBy(th[t])}
           /\ Reservers(f) = {t \in Threads : f \in ReservedBy(th[t])}
           /\ Pinners(f) = {t \in Threads : f \in PinnedBy(th[t])}
           /\ Owners(f)' = {t \in Threads : f \in OwnedBy(th'[t])}
           /\ Reservers(f)' = {t \in Threads : f \in ReservedBy(th'[t])}
           /\ Pinners(f)' = {t \in Threads : f \in PinnedBy(th'[t])}
  BY DEF Owners, Reservers, Pinners, OwnedBy, ReservedBy, PinnedBy, HoldsTaskFrame

\* The frames, tickets and pages that the places of t talk about exist.
Backed(t) ==
    /\ \/ th[t].op \in FixOps \cup {"submit", "prefetch"}
       \/ th[t].op = "alloc" /\ th[t].pc \in FillPlaces \cup {"marker", "latch", "register"}
       \/ th[t].pc \in {"publish", "register"} \cup Published \cup GuardPlaces
       => th[t].page \in Pages
    /\ th[t].pc \in Unreserved \cup Reserved \cup Published \cup Fixing \cup GuardPlaces
                       \cup {"pin", "unpin", "unpinned", "snapshot", "validate", "check", "register"}
       => th[t].frame \in Frames
    /\ th[t].pc \in EvictPlaces \cup {"mark", "enqueue"}
       => th[t].ticket.pid \in Pages /\ th[t].ticket.frame \in Frames

(***************************************************************************)
(* They do by the table of places.                                         *)
(***************************************************************************)
LEMMA Needs ==
    ASSUME IInv, NEW t \in Threads
    PROVE  Backed(t)
<1> USE DEF FixOps, FillPlaces, UndoPlaces, AcquirePlaces, EvictPlaces, EvictReserved, TaskPlaces,
            Fixing, GuardPlaces, Unreserved, Reserved, Published
<1>1. PICK D : TypedOver(D)
  BY DEF IInv
<1>2. th[t].op \in Operations \cup {None} /\ pages \in SUBSET Pages
  BY <1>1 DEF TypedOver, SharedOver, LocalsOver
<1>3. PlaceOK(t) /\ LocalsOK(t)
  BY DEF IInv, ThreadOK
<1>4. th[t].pc \in EvictPlaces \cup {"mark", "enqueue"}
              => th[t].ticket.pid \in Pages /\ th[t].ticket.frame \in Frames
  BY <1>3 DEF LocalsOK, CoolingTicket
<1>5. th[t].op \in FixOps \cup {"submit", "prefetch"} => th[t].page \in Pages
  BY <1>2, <1>3 DEF LocalsOK
<1>6. th[t].op = "alloc" /\ th[t].pc \in FillPlaces \cup {"marker", "latch", "register"}
      => th[t].page \in Pages
  BY <1>2, <1>3 DEF PlaceOK, LocalsOK
<1>7. th[t].pc \in {"publish", "register"} \cup Published \cup GuardPlaces
      => th[t].op \in FixOps \cup {"prefetch", "alloc"}
  BY <1>2, <1>3 DEF PlaceOK, Operations
<1>8. th[t].op = "alloc" /\ th[t].pc \in {"publish", "register"} \cup Published \cup GuardPlaces
      => th[t].pc \in FillPlaces \cup {"marker", "latch", "register"}
  BY <1>2, <1>3 DEF PlaceOK
<1>9. th[t].pc \in Unreserved \cup Reserved \cup Published \cup Fixing \cup GuardPlaces
                     \cup {"pin", "unpin", "unpinned", "snapshot", "validate", "check", "register"}
      => th[t].frame \in Frames
  BY <1>3 DEF LocalsOK
<1> QED
  BY <1>4, <1>5, <1>6, <1>7, <1>8, <1>9 DEF Backed

-----------------------------------------------------------------------------
(* What a step must leave alone for another thread's place to stay in order. *)

PidsKept == \A f \in Frames : frames'[f].pid = frames[f].pid
LatchesKept(u) ==
    \A f \in Frames : /\ u \in frames[f].readers => u \in frames'[f].readers
                      /\ frames[f].writer = u => frames'[f].writer = u
\* Pages stay where they are; a page may be marked as cooling, or resurrected.
HomesKept ==
    \A p \in Pages : \/ swip'[p] = swip[p]
                     \/ /\ swip[p] # Evicted
                        /\ swip'[p] \in {Hot(swip[p].frame), Cooling(swip[p].frame)}
SwipsKept ==
    \A p \in Pages : \/ swip'[p] = swip[p]
                     \/ swip[p] # Evicted /\ swip'[p] = Cooling(swip[p].frame)

(***************************************************************************)
(* Marking a page as cooling moves no page.                                *)
(***************************************************************************)
LEMMA SwipsStay ==
    ASSUME IInv, (\E D : TypedOver(D))', HomesKept
    PROVE  /\ \A p \in Pages, f \in Frames :
                  swip'[p] \in {Hot(f), Cooling(f)} <=> swip[p] \in {Hot(f), Cooling(f)}
           /\ \A p \in Pages : swip'[p] = Evicted <=> swip[p] = Evicted
<1>1. (\E D : SharedOver(D)) /\ (\E D : SharedOver(D))'
  BY DEF IInv, TypedOver
<1>2. swip \in [Pages -> SwipStates] /\ swip' \in [Pages -> SwipStates]
  BY <1>1 DEF SharedOver
<1> QED
  BY <1>2, PoolAssumption DEF HomesKept, SwipStates, Hot, Cooling, Evicted

(***************************************************************************)
(* Another thread's locals and flight.                                     *)
(***************************************************************************)
LEMMA LocalsStay ==
    ASSUME IInv, NEW u \in Threads, th'[u] = th[u], UNCHANGED <<pages, next_pid, leader>>
    PROVE  PlaceOK(u)' /\ LocalsOK(u)' /\ LeadOK(u)'
<1>1. PlaceOK(u) /\ LocalsOK(u) /\ LeadOK(u)
  BY DEF IInv, ThreadOK
<1> QED
  BY <1>1 DEF PlaceOK, LocalsOK, LeadOK

(***************************************************************************)
(* Another thread's page and guard.                                        *)
(***************************************************************************)
LEMMA PageStays ==
    ASSUME IInv, (\E D : TypedOver(D))', HomesKept, NEW u \in Threads, th'[u] = th[u]
    PROVE  VacantOK(u)' /\ ExactOK(u)'
<1>1. VacantOK(u) /\ ExactOK(u) /\ Backed(u)
  BY Needs DEF IInv, ThreadOK
<1>2. VacantOK(u)'
  BY <1>1, SwipsStay DEF VacantOK, Backed, FixOps, FillPlaces
<1>3. ExactOK(u)'
  BY <1>1, SwipsStay DEF ExactOK, Backed, ResidentAt, Fixing
<1> QED
  BY <1>2, <1>3

(***************************************************************************)
(* Another thread's ticket, when nothing is resurrected.                   *)
(***************************************************************************)
LEMMA TicketStays ==
    ASSUME IInv, SwipsKept, NEW u \in Threads, th'[u] = th[u]
    PROVE  EvictorOK(u)'
<1>1. EvictorOK(u) /\ Backed(u)
  BY Needs DEF IInv, ThreadOK
<1> QED
  BY <1>1, PoolAssumption DEF EvictorOK, Backed, EvictPlaces, EvictReserved, SwipsKept, Cooling, Evicted

(***************************************************************************)
(* The frame another thread is about to publish.                           *)
(***************************************************************************)
LEMMA FrameStays ==
    ASSUME IInv, PidsKept, NEW u \in Threads, th'[u] = th[u]
    PROVE  InstalledOK(u)'
<1>1. InstalledOK(u) /\ Backed(u)
  BY Needs DEF IInv, ThreadOK
<1> QED
  BY <1>1 DEF InstalledOK, Backed, PidsKept, Published, Reserved

(***************************************************************************)
(* The latch another thread holds.                                         *)
(***************************************************************************)
LEMMA LatchStays ==
    ASSUME IInv, NEW u \in Threads, LatchesKept(u), th'[u] = th[u]
    PROVE  LatchOK(u)'
<1>1. LatchOK(u) /\ Backed(u)
  BY Needs DEF IInv, ThreadOK
<1> QED
  BY <1>1 DEF LatchOK, Backed, LatchesKept, SharedFix, EvictPlaces, EvictReserved

\* Nobody but t moves, and who owns, reserves and pins what stays.
Moves(t) == \A u \in Threads \ {t} : th'[u] = th[u]
OwnersKept(t) == Moves(t) /\ OwnedBy(th'[t]) = OwnedBy(th[t])
ReserversKept(t) == Moves(t) /\ ReservedBy(th'[t]) = ReservedBy(th[t])
PinnersKept(t) == Moves(t) /\ PinnedBy(th'[t]) = PinnedBy(th[t])
\* t takes no new identifier.
FreshKept(t) ==
    /\ Moves(t) /\ UNCHANGED <<pages, next_pid>>
    /\ \A i \in 1 .. Len(channel') : channel'[i].pid \in pages
    /\ th'[t].op = "alloc" => th'[t].page = None \/ (th[t].op = "alloc" /\ th'[t].page = th[t].page)

(***************************************************************************)
(* Owners, reservers and pinners that did not change.                      *)
(***************************************************************************)
LEMMA ViewsStay ==
    ASSUME NEW t \in Threads, NEW f \in Frames
    PROVE  /\ OwnersKept(t) => Owners(f)' = Owners(f)
           /\ ReserversKept(t) => Reservers(f)' = Reservers(f)
           /\ PinnersKept(t) => Pinners(f)' = Pinners(f)
<1>1. Owners(f)' = {u \in Threads : f \in OwnedBy(th'[u])}
  BY Views
<1>2. Reservers(f)' = {u \in Threads : f \in ReservedBy(th'[u])}
  BY Views
<1>3. Pinners(f)' = {u \in Threads : f \in PinnedBy(th'[u])}
  BY Views
<1>4. /\ Owners(f) = {u \in Threads : f \in OwnedBy(th[u])}
      /\ Reservers(f) = {u \in Threads : f \in ReservedBy(th[u])}
      /\ Pinners(f) = {u \in Threads : f \in PinnedBy(th[u])}
  BY Views
<1>5. OwnersKept(t) => \A u \in Threads : OwnedBy(th'[u]) = OwnedBy(th[u])
  BY DEF OwnersKept, Moves
<1>6. ReserversKept(t) => \A u \in Threads : ReservedBy(th'[u]) = ReservedBy(th[u])
  BY DEF ReserversKept, Moves
<1>7. PinnersKept(t) => \A u \in Threads : PinnedBy(th'[u]) = PinnedBy(th[u])
  BY DEF PinnersKept, Moves
<1> QED
  BY <1>1, <1>2, <1>3, <1>4, <1>5, <1>6, <1>7

(***************************************************************************)
(* A frame's place, when nothing that places it changed.                   *)
(***************************************************************************)
LEMMA PlaceStays ==
    ASSUME IInv, (\E D : TypedOver(D))', HomesKept, UNCHANGED <<free, channel>>,
           NEW t \in Threads, OwnersKept(t), NEW f \in Frames
    PROVE  InOnePlace(f)'
<1>1. Owners(f)' = Owners(f)
  BY ViewsStay
<1>2. Occupants(f)' = Occupants(f)
  BY SwipsStay DEF Occupants, ResidentAt
<1>3. FreeAt(f)' = FreeAt(f) /\ TasksWith(f)' = TasksWith(f)
  BY DEF FreeAt, TasksWith
<1>4. InOnePlace(f)
  BY DEF IInv
<1> QED
  BY <1>1, <1>2, <1>3, <1>4 DEF InOnePlace

(***************************************************************************)
(* A frame's pins, when nothing that counts them changed.                  *)
(***************************************************************************)
LEMMA PinsStay ==
    ASSUME IInv, UNCHANGED channel, NEW t \in Threads, ReserversKept(t), PinnersKept(t),
           NEW f \in Frames, frames'[f].pin = frames[f].pin
    PROVE  PinOK(f)'
<1>1. Reservers(f)' = Reservers(f) /\ Pinners(f)' = Pinners(f)
  BY ViewsStay
<1>2. TasksWith(f)' = TasksWith(f)
  BY DEF TasksWith
<1>3. PinOK(f)
  BY DEF IInv
<1> QED
  BY <1>1, <1>2, <1>3 DEF PinOK

(***************************************************************************)
(* Identifiers.                                                            *)
(***************************************************************************)
LEMMA FreshStays ==
    ASSUME IInv, (\E D : TypedOver(D))', HomesKept, NEW t \in Threads, FreshKept(t)
    PROVE  FreshOK'
<1>1. \A u, v \in Threads :
          th'[u].op = "alloc" /\ th'[v].op = "alloc" /\ th'[u].page = th'[v].page
              /\ th'[u].page # None => u = v
  BY DEF IInv, FreshOK, FreshKept, Moves
<1> QED
  BY <1>1, SwipsStay DEF IInv, FreshOK, FreshKept

(***************************************************************************)
(* Identifiers of resident pages.                                          *)
(***************************************************************************)
LEMMA OccupantsStay ==
    ASSUME IInv, (\E D : TypedOver(D))', HomesKept, PidsKept
    PROVE  OccupantOK'
  BY SwipsStay DEF IInv, OccupantOK, PidsKept, ResidentAt

\* A step of t that leaves alone who owns, reserves, pins, holds and leads
\* what.
FramesKept ==
    \A f \in Frames : /\ frames'[f].pid = frames[f].pid /\ frames'[f].pin = frames[f].pin
                      /\ frames'[f].writer = frames[f].writer
                      /\ frames'[f].readers = frames[f].readers
Calm == UNCHANGED <<pages, next_pid, free, leader, channel>> /\ FramesKept /\ SwipsKept
ViewsKept(t) ==
    /\ OwnedBy(th'[t]) = OwnedBy(th[t]) /\ ReservedBy(th'[t]) = ReservedBy(th[t])
    /\ PinnedBy(th'[t]) = PinnedBy(th[t])
    /\ th'[t].op = "alloc" => th'[t].page = None \/ (th[t].op = "alloc" /\ th'[t].page = th[t].page)
Quiet(t) == Calm /\ Moves(t) /\ ViewsKept(t)

\* What a step of t that moves no page, tags no frame and leads no flight has to
\* do for the others.
Orderly(t) ==
    /\ Moves(t) /\ FreshKept(t) /\ UNCHANGED leader
    /\ HomesKept /\ PidsKept
    /\ \A u \in Threads \ {t} : LatchesKept(u) /\ EvictorOK(u)'

(***************************************************************************)
(* Such a step keeps the invariant when t's own place, the frames' and the *)
(* latches are in order.                                                   *)
(***************************************************************************)
LEMMA OrderlyKeeps ==
    ASSUME IInv, (\E D : TypedOver(D))', NEW t \in Threads, Orderly(t), ThreadOK(t)',
           (\A f \in Frames : InOnePlace(f))', (\A f \in Frames : PinOK(f))', LatchExcludes'
    PROVE  IInv'
<1> USE DEF Orderly
<1>1. OccupantOK' /\ FreshOK'
  BY OccupantsStay, FreshStays
<1>2. ASSUME NEW u \in Threads PROVE ThreadOK(u)'
  <2> SUFFICES ASSUME u # t PROVE ThreadOK(u)'
    OBVIOUS
  <2>1. th'[u] = th[u] /\ LatchesKept(u) /\ EvictorOK(u)' /\ UNCHANGED <<pages, next_pid, leader>>
    BY DEF Moves, FreshKept
  <2> QED
    BY <2>1, LocalsStay, PageStays, FrameStays, LatchStays DEF ThreadOK
<1> QED
  BY <1>1, <1>2 DEF IInv

(***************************************************************************)
(* So does a quiet step.                                                   *)
(***************************************************************************)
LEMMA QuietKeeps ==
    ASSUME IInv, (\E D : TypedOver(D))', NEW t \in Threads, Quiet(t), ThreadOK(t)'
    PROVE  IInv'
<1> USE DEF Quiet, Calm
<1>1. HomesKept
  BY DEF HomesKept, SwipsKept
<1>2. PidsKept /\ \A u \in Threads : LatchesKept(u)
  BY DEF FramesKept, PidsKept, LatchesKept
<1>3. OwnersKept(t) /\ ReserversKept(t) /\ PinnersKept(t) /\ FreshKept(t)
  BY DEF IInv, FreshOK, ViewsKept, OwnersKept, ReserversKept, PinnersKept, FreshKept
<1>4. (\A f \in Frames : InOnePlace(f))' /\ (\A f \in Frames : PinOK(f))'
  BY <1>1, <1>3, PlaceStays, PinsStay DEF FramesKept
<1>5. LatchExcludes'
  BY DEF IInv, LatchExcludes, FramesKept
<1>6. ASSUME NEW u \in Threads \ {t} PROVE EvictorOK(u)'
  BY TicketStays DEF Moves
<1>7. Orderly(t)
  BY <1>1, <1>2, <1>3, <1>6 DEF Orderly
<1> QED
  BY <1>4, <1>5, <1>7, OrderlyKeeps

(***************************************************************************)
(* One thread's locals become l.                                           *)
(***************************************************************************)
LEMMA Becomes ==
    ASSUME NEW D, TypedOver(D), NEW t \in Threads, NEW l \in LocalsOver(D), th' = [th EXCEPT ![t] = l]
    PROVE  th' \in [Threads -> LocalsOver(D)] /\ Moves(t) /\ th'[t] = l
  BY DEF TypedOver, Moves


\* t goes to another place, with the operation, page, frame and ticket it has.
Going(t, D, to) ==
    /\ th' \in [Threads -> LocalsOver(D)] /\ Moves(t)
    /\ th'[t].pc = to /\ th'[t].op = th[t].op
    /\ th'[t].page = th[t].page /\ th'[t].frame = th[t].frame /\ th'[t].ticket = th[t].ticket

(***************************************************************************)
(* Goto keeps everything but the place.                                    *)
(***************************************************************************)
LEMMA GotoGoes ==
    ASSUME NEW D, TypedOver(D), NEW t \in Threads, NEW to \in Places, Goto(t, to)
    PROVE  Going(t, D, to)
<1> DEFINE l == [th[t] EXCEPT !.pc = to]
<1>1. th \in [Threads -> LocalsOver(D)] /\ th[t] \in LocalsOver(D)
  BY DEF TypedOver
<1>2. l \in LocalsOver(D)
  BY <1>1 DEF LocalsOver
<1>3. th' = [th EXCEPT ![t] = l]
  BY DEF Goto
<1>4. /\ l.pc = to /\ l.op = th[t].op /\ l.page = th[t].page /\ l.frame = th[t].frame
      /\ l.ticket = th[t].ticket
  BY <1>1 DEF LocalsOver
<1> HIDE DEF l
<1> QED
  BY <1>2, <1>3, <1>4, Becomes DEF Going

\* t's call is over.
Gone(t, D) == th' \in [Threads -> LocalsOver(D)] /\ Moves(t) /\ th'[t] = Idle

(***************************************************************************)
(* Leave ends the call.                                                    *)
(***************************************************************************)
LEMMA LeaveGoes ==
    ASSUME NEW D, TypedOver(D), NEW t \in Threads, th' = [th EXCEPT ![t] = Idle]
    PROVE  Gone(t, D) /\ ThreadOK(t)'
<1>1. "idle" \in Places
  BY DEF Places
<1>2. Idle \in LocalsOver(D)
  BY <1>1, PoolAssumption DEF LocalsOver, Idle
<1>3. Gone(t, D)
  BY <1>2, Becomes DEF Gone
<1>4. th'[t].pc = "idle" /\ th'[t].op = None /\ th'[t] = Idle
  BY <1>3 DEF Gone, Idle
<1>5. None \notin Operations
  BY PoolAssumption
<1>6. ThreadOK(t)'
  BY <1>4, <1>5 DEF Operations, ThreadOK, PlaceOK, LocalsOK, LeadOK, VacantOK, InstalledOK, ExactOK,
      EvictorOK, LatchOK, FixOps, FillPlaces, UndoPlaces, AcquirePlaces, EvictPlaces, EvictReserved,
      TaskPlaces, Fixing, GuardPlaces, Unreserved, Reserved, Published, EvictDetached
<1> QED
  BY <1>3, <1>6

(***************************************************************************)
(* A sample asks for a number of tickets among the frames.                 *)
(***************************************************************************)
LEMMA WantOK ==
    ASSUME NEW D, SharedOver(D)
    PROVE  Max(Len(cooling) + 1, CoolingTarget) \in Nat /\ ColdCandidates \in SUBSET Frames
<1>1. Len(cooling) \in Nat /\ CoolingTarget \in Nat
  BY PoolAssumption DEF SharedOver
<1>2. Max(Len(cooling) + 1, CoolingTarget) \in Nat
  BY <1>1 DEF Max
<1> QED
  BY <1>2 DEF ColdCandidates

(***************************************************************************)
(* A thread that leaves nothing behind keeps the invariant.                *)
(***************************************************************************)
LEMMA LeaveKeeps ==
    ASSUME IInv, NEW D, TypedOver(D), SharedOver(D)', Calm, NEW t \in Threads, Gone(t, D), ThreadOK(t)',
           OwnedBy(th[t]) = {}, ReservedBy(th[t]) = {}, PinnedBy(th[t]) = {}
    PROVE  IInv'
<1>1. th'[t].pc = "idle" /\ th'[t].op = None
  BY DEF Gone, Idle
<1>2. None # "alloc" /\ None # "prefetch"
  BY PoolAssumption DEF Operations
<1>3. ViewsKept(t)
  BY <1>1, <1>2 DEF ViewsKept, OwnedBy, ReservedBy, PinnedBy, Unreserved, Reserved, Published, TaskPlaces,
     EvictDetached, EvictReserved, Fixing
<1> QED
  BY <1>3, QuietKeeps DEF Quiet, Gone, TypedOver

(***************************************************************************)
(* Owners, reservers and pinners after a step of t.                        *)
(***************************************************************************)
LEMMA ViewsMove ==
    ASSUME NEW t \in Threads, Moves(t), NEW f \in Frames
    PROVE  /\ Owners(f)' = IF f \in OwnedBy(th'[t]) THEN Owners(f) \cup {t} ELSE Owners(f) \ {t}
           /\ Reservers(f)' = IF f \in ReservedBy(th'[t])
                              THEN Reservers(f) \cup {t} ELSE Reservers(f) \ {t}
           /\ Pinners(f)' = IF f \in PinnedBy(th'[t]) THEN Pinners(f) \cup {t} ELSE Pinners(f) \ {t}
           /\ t \in Owners(f) <=> f \in OwnedBy(th[t])
           /\ t \in Reservers(f) <=> f \in ReservedBy(th[t])
           /\ t \in Pinners(f) <=> f \in PinnedBy(th[t])
<1>1. Owners(f) = {u \in Threads : f \in OwnedBy(th[u])}
  BY Views
<1>2. Reservers(f) = {u \in Threads : f \in ReservedBy(th[u])}
  BY Views
<1>3. Pinners(f) = {u \in Threads : f \in PinnedBy(th[u])}
  BY Views
<1>4. Owners(f)' = {u \in Threads : f \in OwnedBy(th'[u])}
  BY Views
<1>5. Reservers(f)' = {u \in Threads : f \in ReservedBy(th'[u])}
  BY Views
<1>6. Pinners(f)' = {u \in Threads : f \in PinnedBy(th'[u])}
  BY Views
<1> DEFINE O(u) == f \in OwnedBy(th[u])
           R(u) == f \in ReservedBy(th[u])
           P(u) == f \in PinnedBy(th[u])
           O1(u) == f \in OwnedBy(th'[u])
           R1(u) == f \in ReservedBy(th'[u])
           P1(u) == f \in PinnedBy(th'[u])
<1>7. \A u \in Threads \ {t} : O1(u) = O(u) /\ R1(u) = R(u) /\ P1(u) = P(u)
  BY DEF Moves
<1> HIDE DEF O, R, P, O1, R1, P1
<1>8. {u \in Threads : O1(u)} = IF O1(t) THEN {u \in Threads : O(u)} \cup {t} ELSE {u \in Threads : O(u)} \ {t}
  BY <1>7
<1>9. {u \in Threads : R1(u)} = IF R1(t) THEN {u \in Threads : R(u)} \cup {t} ELSE {u \in Threads : R(u)} \ {t}
  BY <1>7
<1>10. {u \in Threads : P1(u)} = IF P1(t) THEN {u \in Threads : P(u)} \cup {t} ELSE {u \in Threads : P(u)} \ {t}
  BY <1>7
<1> QED
  BY <1>1, <1>2, <1>3, <1>4, <1>5, <1>6, <1>8, <1>9, <1>10 DEF O, R, P, O1, R1, P1

(***************************************************************************)
(* A frame that t does not gain or lose.                                   *)
(***************************************************************************)
LEMMA ViewsSame ==
    ASSUME NEW t \in Threads, Moves(t), NEW f \in Frames
    PROVE  /\ (f \in OwnedBy(th'[t]) <=> f \in OwnedBy(th[t])) => Owners(f)' = Owners(f)
           /\ (f \in ReservedBy(th'[t]) <=> f \in ReservedBy(th[t])) => Reservers(f)' = Reservers(f)
           /\ (f \in PinnedBy(th'[t]) <=> f \in PinnedBy(th[t])) => Pinners(f)' = Pinners(f)
<1> DEFINE O(u) == f \in OwnedBy(th[u])
           R(u) == f \in ReservedBy(th[u])
           P(u) == f \in PinnedBy(th[u])
           O1(u) == f \in OwnedBy(th'[u])
           R1(u) == f \in ReservedBy(th'[u])
           P1(u) == f \in PinnedBy(th'[u])
<1>1. \A u \in Threads \ {t} : O1(u) = O(u) /\ R1(u) = R(u) /\ P1(u) = P(u)
  BY DEF Moves
<1>2. Owners(f) = {u \in Threads : O(u)} /\ Owners(f)' = {u \in Threads : O1(u)}
  BY Views
<1>3. Reservers(f) = {u \in Threads : R(u)} /\ Reservers(f)' = {u \in Threads : R1(u)}
  BY Views
<1>4. Pinners(f) = {u \in Threads : P(u)} /\ Pinners(f)' = {u \in Threads : P1(u)}
  BY Views
<1>5. (O1(t) <=> O(t)) => \A u \in Threads : O1(u) <=> O(u)
  BY <1>1
<1>6. (R1(t) <=> R(t)) => \A u \in Threads : R1(u) <=> R(u)
  BY <1>1
<1>7. (P1(t) <=> P(t)) => \A u \in Threads : P1(u) <=> P(u)
  BY <1>1
<1> HIDE DEF O, R, P, O1, R1, P1
<1>8. (O1(t) <=> O(t)) => Owners(f)' = Owners(f)
  BY <1>2, <1>5
<1>9. (R1(t) <=> R(t)) => Reservers(f)' = Reservers(f)
  BY <1>3, <1>6
<1>10. (P1(t) <=> P(t)) => Pinners(f)' = Pinners(f)
  BY <1>4, <1>7
<1> QED
  BY <1>8, <1>9, <1>10 DEF O, R, P, O1, R1, P1

\* Pins change in f alone.
PinsElsewhere(f) == \A g \in Frames \ {f} : frames'[g].pin = frames[g].pin

(***************************************************************************)
(* try_claim_eviction: an unpinned frame gets its one reserver.            *)
(***************************************************************************)
LEMMA ClaimPins ==
    ASSUME IInv, NEW t \in Threads, Moves(t), NEW f \in Frames, UNCHANGED channel,
           frames[f].pin = 0, frames'[f].pin = EVICTING, PinsElsewhere(f),
           ReservedBy(th[t]) = {}, ReservedBy(th'[t]) = {f}, PinnersKept(t)
    PROVE  (\A g \in Frames : PinOK(g))'
<1> SUFFICES ASSUME NEW g \in Frames PROVE PinOK(g)'
  OBVIOUS
<1>1. PinOK(g) /\ PinOK(f)
  BY DEF IInv
<1>2. TasksWith(g)' = TasksWith(g) /\ Pinners(g)' = Pinners(g)
  BY ViewsStay DEF TasksWith
<1>3. CASE g = f
  <2>1. Reservers(f) = {} /\ TasksWith(f) = {} /\ IsFiniteSet(Pinners(f)) /\ Cardinality(Pinners(f)) = 0
    BY <1>1 DEF PinOK, EVICTING
  <2>2. Pinners(f) = {}
    BY <2>1, FS_EmptySet
  <2>3. Reservers(f)' = {t}
    BY <2>1, ViewsMove
  <2> QED
    BY <1>2, <1>3, <2>1, <2>2, <2>3 DEF PinOK, Single
<1>4. CASE g # f
  <2>1. Reservers(g)' = Reservers(g)
    BY <1>4, ViewsSame
  <2> QED
    BY <1>1, <1>2, <1>4, <2>1 DEF PinOK, PinsElsewhere
<1> QED
  BY <1>3, <1>4

(***************************************************************************)
(* release_eviction: the reservation ends, with no pin.                    *)
(***************************************************************************)
LEMMA ReleasePins ==
    ASSUME IInv, NEW t \in Threads, Moves(t), NEW f \in Frames, UNCHANGED channel,
           frames'[f].pin = 0, PinsElsewhere(f),
           ReservedBy(th[t]) = {f}, ReservedBy(th'[t]) = {}, PinnersKept(t)
    PROVE  (\A g \in Frames : PinOK(g))'
<1> SUFFICES ASSUME NEW g \in Frames PROVE PinOK(g)'
  OBVIOUS
<1>1. PinOK(g) /\ PinOK(f)
  BY DEF IInv
<1>2. TasksWith(g)' = TasksWith(g) /\ Pinners(g)' = Pinners(g)
  BY ViewsStay DEF TasksWith
<1>3. CASE g = f
  <2>1. t \in Reservers(f)
    BY ViewsMove
  <2>2. TasksWith(f) = {} /\ Pinners(f) = {} /\ Reservers(f) = {t}
    BY <1>1, <2>1 DEF PinOK, Single
  <2>3. Reservers(f)' = {}
    BY <2>2, ViewsMove
  <2> QED
    BY <1>2, <1>3, <2>2, <2>3, FS_EmptySet DEF PinOK
<1>4. CASE g # f
  <2>1. Reservers(g)' = Reservers(g)
    BY <1>4, ViewsSame
  <2> QED
    BY <1>1, <1>2, <1>4, <2>1 DEF PinOK, PinsElsewhere
<1> QED
  BY <1>3, <1>4

(***************************************************************************)
(* publish_reserved_pin: the reserver becomes the first pinner.            *)
(***************************************************************************)
LEMMA PublishPins ==
    ASSUME IInv, NEW t \in Threads, Moves(t), NEW f \in Frames, UNCHANGED channel,
           frames'[f].pin = 1, PinsElsewhere(f),
           ReservedBy(th[t]) = {f}, ReservedBy(th'[t]) = {},
           PinnedBy(th[t]) = {}, PinnedBy(th'[t]) = {f}
    PROVE  (\A g \in Frames : PinOK(g))'
<1> SUFFICES ASSUME NEW g \in Frames PROVE PinOK(g)'
  OBVIOUS
<1>1. PinOK(g) /\ PinOK(f)
  BY DEF IInv
<1>2. TasksWith(g)' = TasksWith(g)
  BY DEF TasksWith
<1>3. CASE g = f
  <2>1. t \in Reservers(f)
    BY ViewsMove
  <2>2. TasksWith(f) = {} /\ Pinners(f) = {} /\ Reservers(f) = {t}
    BY <1>1, <2>1 DEF PinOK, Single
  <2>3. Reservers(f)' = {} /\ Pinners(f)' = {t}
    BY <2>2, ViewsMove
  <2>4. IsFiniteSet({t}) /\ Cardinality({t}) = 1
    BY FS_Singleton
  <2> QED
    BY <1>2, <1>3, <2>2, <2>3, <2>4 DEF PinOK
<1>4. CASE g # f
  <2>1. Reservers(g)' = Reservers(g) /\ Pinners(g)' = Pinners(g)
    BY <1>4, ViewsSame
  <2> QED
    BY <1>1, <1>2, <1>4, <2>1 DEF PinOK, PinsElsewhere
<1> QED
  BY <1>3, <1>4

(***************************************************************************)
(* try_pin: one more pinner of a frame that is not reserved.               *)
(***************************************************************************)
LEMMA PinPins ==
    ASSUME IInv, NEW t \in Threads, Moves(t), NEW f \in Frames, UNCHANGED channel,
           frames[f].pin # EVICTING, frames'[f].pin = frames[f].pin + 1, PinsElsewhere(f),
           PinnedBy(th[t]) = {}, PinnedBy(th'[t]) = {f}, ReserversKept(t)
    PROVE  (\A g \in Frames : PinOK(g))'
<1> SUFFICES ASSUME NEW g \in Frames PROVE PinOK(g)'
  OBVIOUS
<1>1. PinOK(g) /\ PinOK(f)
  BY DEF IInv
<1>2. TasksWith(g)' = TasksWith(g) /\ Reservers(g)' = Reservers(g)
  BY ViewsStay DEF TasksWith
<1>3. CASE g = f
  <2>1. Reservers(f) = {} /\ TasksWith(f) = {} /\ IsFiniteSet(Pinners(f)) /\ frames[f].pin = Cardinality(Pinners(f))
    BY <1>1 DEF PinOK
  <2>2. Pinners(f)' = Pinners(f) \cup {t} /\ t \notin Pinners(f)
    BY ViewsMove
  <2>3. IsFiniteSet(Pinners(f)') /\ Cardinality(Pinners(f)') = Cardinality(Pinners(f)) + 1
    BY <2>1, <2>2, FS_AddElement
  <2> QED
    BY <1>2, <1>3, <2>1, <2>3 DEF PinOK
<1>4. CASE g # f
  <2>1. Pinners(g)' = Pinners(g)
    BY <1>4, ViewsSame
  <2> QED
    BY <1>1, <1>2, <1>4, <2>1 DEF PinOK, PinsElsewhere
<1> QED
  BY <1>3, <1>4

(***************************************************************************)
(* unpin: one pinner less; the frame was not reserved.                     *)
(***************************************************************************)
LEMMA UnpinPins ==
    ASSUME IInv, NEW t \in Threads, Moves(t), NEW f \in Frames, UNCHANGED channel,
           frames'[f].pin = frames[f].pin - 1, PinsElsewhere(f),
           PinnedBy(th[t]) = {f}, PinnedBy(th'[t]) = {}, ReserversKept(t)
    PROVE  (\A g \in Frames : PinOK(g))'
<1> SUFFICES ASSUME NEW g \in Frames PROVE PinOK(g)'
  OBVIOUS
<1>1. PinOK(g) /\ PinOK(f)
  BY DEF IInv
<1>2. TasksWith(g)' = TasksWith(g) /\ Reservers(g)' = Reservers(g)
  BY ViewsStay DEF TasksWith
<1>3. CASE g = f
  <2>1. t \in Pinners(f)
    BY ViewsMove
  <2>2. Reservers(f) = {} /\ TasksWith(f) = {} /\ IsFiniteSet(Pinners(f)) /\ frames[f].pin = Cardinality(Pinners(f))
    BY <1>1, <2>1 DEF PinOK
  <2>3. Pinners(f)' = Pinners(f) \ {t}
    BY ViewsMove
  <2>4. IsFiniteSet(Pinners(f)') /\ Cardinality(Pinners(f)') = Cardinality(Pinners(f)) - 1
    BY <2>1, <2>2, <2>3, FS_RemoveElement
  <2> QED
    BY <1>2, <1>3, <2>2, <2>4 DEF PinOK
<1>4. CASE g # f
  <2>1. Pinners(g)' = Pinners(g)
    BY <1>4, ViewsSame
  <2> QED
    BY <1>1, <1>2, <1>4, <2>1 DEF PinOK, PinsElsewhere
<1> QED
  BY <1>3, <1>4

(***************************************************************************)
(* A pinned frame is not reserved and counts its pins, a reserved frame    *)
(* has nobody else.                                                        *)
(***************************************************************************)
LEMMA Alone ==
    ASSUME IInv, NEW t \in Threads, NEW f \in Frames
    PROVE  /\ f \in PinnedBy(th[t]) => \A u \in Threads : f \notin ReservedBy(th[u])
           /\ f \in ReservedBy(th[t]) => \A u \in Threads \ {t} : f \notin ReservedBy(th[u])
           /\ f \in ReservedBy(th[t]) => \A u \in Threads : f \notin PinnedBy(th[u])
<1>1. PinOK(f)
  BY DEF IInv
<1>2. Reservers(f) = {u \in Threads : f \in ReservedBy(th[u])}
  BY Views
<1>3. Pinners(f) = {u \in Threads : f \in PinnedBy(th[u])}
  BY Views
<1> QED
  BY <1>1, <1>2, <1>3 DEF PinOK, Single

(***************************************************************************)
(* pop_free: the queue loses its head and keeps the rest.                  *)
(***************************************************************************)
LEMMA PopIndices ==
    ASSUME free \in Seq(Frames), PopFree, NEW g \in Frames
    PROVE  /\ Head(free) \in Frames
           /\ g = Head(free) => 1 \in FreeAt(g)
           /\ g = Head(free) /\ Single(FreeAt(g)) => FreeAt(g)' = {}
           /\ g # Head(free) /\ FreeAt(g) = {} => FreeAt(g)' = {}
           /\ g # Head(free) /\ Single(FreeAt(g)) => Single(FreeAt(g)')
<1>1. free # <<>> /\ free' = Tail(free)
  BY DEF PopFree
<1>2. Len(free) \in Nat \ {0} /\ Head(free) = free[1] /\ Head(free) \in Frames
  BY <1>1
<1>3. Len(free') = Len(free) - 1 /\ \A i \in 1 .. Len(free') : free'[i] = free[i + 1]
  BY <1>1, <1>2
<1>4. \A h : FreeAt(h)' = {i \in 1 .. (Len(free) - 1) : free[i + 1] = h}
  BY <1>3 DEF FreeAt
<1>5. \A h : FreeAt(h) = {i \in 1 .. Len(free) : free[i] = h}
  BY DEF FreeAt
<1>6. g = Head(free) => 1 \in FreeAt(g)
  BY <1>2, <1>5
<1>10. ASSUME NEW i \in FreeAt(g)' PROVE i + 1 \in FreeAt(g) /\ i + 1 # 1
  <2>1. i \in 1 .. (Len(free) - 1) /\ free[i + 1] = g
    BY <1>4
  <2> QED
    BY <1>2, <1>5, <2>1
<1>7. g = Head(free) /\ Single(FreeAt(g)) => FreeAt(g)' = {}
  BY <1>6, <1>10 DEF Single
<1>8. g # Head(free) /\ FreeAt(g) = {} => FreeAt(g)' = {}
  BY <1>10
<1>9. ASSUME g # Head(free), NEW k, FreeAt(g) = {k} PROVE Single(FreeAt(g)')
  <2>1. k \in 1 .. Len(free) /\ free[k] = g /\ k # 1
    BY <1>2, <1>5, <1>9
  <2>2. k - 1 \in FreeAt(g)'
    BY <1>2, <1>4, <2>1
  <2>3. ASSUME NEW i \in FreeAt(g)' PROVE i = k - 1
    <3>1. i \in 1 .. (Len(free) - 1) /\ free[i + 1] = g
      BY <1>4, <2>3
    <3>2. i + 1 \in FreeAt(g)
      BY <1>2, <1>5, <3>1
    <3> QED
      BY <1>9, <3>1, <3>2
  <2>4. FreeAt(g)' = {k - 1}
    BY <2>2, <2>3
  <2> QED
    BY <2>4 DEF Single
<1> QED
  BY <1>2, <1>6, <1>7, <1>8, <1>9 DEF Single

(***************************************************************************)
(* push_free: one more entry, for the frame pushed.                        *)
(***************************************************************************)
LEMMA PushIndices ==
    ASSUME free \in Seq(Frames), NEW f \in Frames, PushFree(f), NEW g \in Frames
    PROVE  FreeAt(g)' = IF g = f THEN FreeAt(g) \cup {Len(free) + 1} ELSE FreeAt(g)
<1>1. Len(free) \in Nat /\ Len(free') = Len(free) + 1
  BY DEF PushFree
<1>2. \A i \in 1 .. Len(free) : free'[i] = free[i]
  BY DEF PushFree
<1>3. free'[Len(free) + 1] = f
  BY DEF PushFree
<1>4. FreeAt(g)' = {i \in 1 .. (Len(free) + 1) : free'[i] = g}
  BY <1>1 DEF FreeAt
<1>5. FreeAt(g) = {i \in 1 .. Len(free) : free[i] = g}
  BY DEF FreeAt
<1>6. \A i : i \in 1 .. (Len(free) + 1) <=> i \in 1 .. Len(free) \/ i = Len(free) + 1
  BY <1>1
<1> QED
  BY <1>1, <1>2, <1>3, <1>4, <1>5, <1>6

(***************************************************************************)
(* Popping a frame makes the popper its owner.                             *)
(***************************************************************************)
LEMMA PopPlaces ==
    ASSUME IInv, (\E D : TypedOver(D))', HomesKept, UNCHANGED channel, NEW t \in Threads, Moves(t),
           PopFree, OwnedBy(th[t]) = {}, OwnedBy(th'[t]) = {Head(free)}
    PROVE  (\A f \in Frames : InOnePlace(f))'
<1>0. free \in Seq(Frames)
  BY DEF IInv, TypedOver, SharedOver
<1> SUFFICES ASSUME NEW g \in Frames PROVE InOnePlace(g)'
  OBVIOUS
<1>1. Occupants(g)' = Occupants(g) /\ TasksWith(g)' = TasksWith(g)
  BY SwipsStay DEF Occupants, ResidentAt, TasksWith
<1>2. InOnePlace(g)
  BY DEF IInv
<1>3. CASE g = Head(free)
  <2>1. Single(FreeAt(g)) /\ FreeAt(g)' = {}
    BY <1>0, <1>2, <1>3, PopIndices DEF InOnePlace
  <2>2. Owners(g) = {} /\ TasksWith(g) = {} /\ Occupants(g) = {}
    BY <1>2, <2>1 DEF InOnePlace, Single
  <2>3. Owners(g)' = {t}
    BY <1>3, <2>2, ViewsMove
  <2> QED
    BY <1>1, <2>1, <2>2, <2>3 DEF InOnePlace, Single
<1>4. CASE g # Head(free)
  <2>1. Owners(g)' = Owners(g)
    BY <1>4, ViewsSame
  <2>2. /\ FreeAt(g) = {} => FreeAt(g)' = {}
        /\ Single(FreeAt(g)) => Single(FreeAt(g)')
    BY <1>0, <1>4, PopIndices
  <2> QED
    BY <1>1, <1>2, <2>1, <2>2 DEF InOnePlace
<1> QED
  BY <1>3, <1>4

(***************************************************************************)
(* Pushing a frame ends its ownership.                                     *)
(***************************************************************************)
LEMMA PushPlaces ==
    ASSUME IInv, (\E D : TypedOver(D))', HomesKept, UNCHANGED channel, NEW t \in Threads, Moves(t),
           NEW f \in Frames, PushFree(f), OwnedBy(th[t]) = {f}, OwnedBy(th'[t]) = {}
    PROVE  (\A g \in Frames : InOnePlace(g))'
<1>0. free \in Seq(Frames)
  BY DEF IInv, TypedOver, SharedOver
<1> SUFFICES ASSUME NEW g \in Frames PROVE InOnePlace(g)'
  OBVIOUS
<1>1. Occupants(g)' = Occupants(g) /\ TasksWith(g)' = TasksWith(g)
  BY SwipsStay DEF Occupants, ResidentAt, TasksWith
<1>2. InOnePlace(g)
  BY DEF IInv
<1>3. CASE g = f
  <2>1. t \in Owners(g)
    BY <1>3, ViewsMove
  <2>2. Owners(g) = {t} /\ FreeAt(g) = {} /\ TasksWith(g) = {} /\ Occupants(g) = {}
    BY <1>2, <2>1 DEF InOnePlace, Single
  <2>3. Owners(g)' = {}
    BY <1>3, <2>2, ViewsMove
  <2>4. FreeAt(g)' = {Len(free) + 1}
    BY <1>0, <1>3, <2>2, PushIndices
  <2> QED
    BY <1>1, <2>2, <2>3, <2>4 DEF InOnePlace, Single
<1>4. CASE g # f
  <2>1. Owners(g)' = Owners(g)
    BY <1>4, ViewsSame
  <2>2. FreeAt(g)' = FreeAt(g)
    BY <1>0, <1>4, PushIndices
  <2> QED
    BY <1>1, <1>2, <2>1, <2>2 DEF InOnePlace
<1> QED
  BY <1>3, <1>4

(***************************************************************************)
(* The channel gains a task for its frame.                                 *)
(***************************************************************************)
LEMMA SendIndices ==
    ASSUME channel \in Seq(PrefetchTask), NEW k \in PrefetchTask, channel' = Append(channel, k), NEW g \in Frames
    PROVE  TasksWith(g)' = IF g = k.frame THEN TasksWith(g) \cup {Len(channel) + 1} ELSE TasksWith(g)
<1>1. Len(channel) \in Nat /\ Len(channel') = Len(channel) + 1
  OBVIOUS
<1>2. \A i \in 1 .. Len(channel) : channel'[i] = channel[i]
  OBVIOUS
<1>3. channel'[Len(channel) + 1] = k
  OBVIOUS
<1>4. TasksWith(g)' = {i \in 1 .. (Len(channel) + 1) : channel'[i].frame = g}
  BY <1>1 DEF TasksWith
<1>5. TasksWith(g) = {i \in 1 .. Len(channel) : channel[i].frame = g}
  BY DEF TasksWith
<1>6. \A i : i \in 1 .. (Len(channel) + 1) <=> i \in 1 .. Len(channel) \/ i = Len(channel) + 1
  BY <1>1
<1> QED
  BY <1>1, <1>2, <1>3, <1>4, <1>5, <1>6

(***************************************************************************)
(* The channel loses its head and keeps the rest.                          *)
(***************************************************************************)
LEMMA ReceiveIndices ==
    ASSUME channel \in Seq(PrefetchTask), channel # <<>>, channel' = Tail(channel), NEW g \in Frames
    PROVE  /\ Head(channel) \in PrefetchTask
           /\ g = Head(channel).frame => 1 \in TasksWith(g)
           /\ g = Head(channel).frame /\ Single(TasksWith(g)) => TasksWith(g)' = {}
           /\ g # Head(channel).frame /\ TasksWith(g) = {} => TasksWith(g)' = {}
           /\ g # Head(channel).frame /\ Single(TasksWith(g)) => Single(TasksWith(g)')
           /\ \A i \in 1 .. Len(channel') : channel'[i] = channel[i + 1] /\ i + 1 \in 1 .. Len(channel)
<1>2. Len(channel) \in Nat \ {0} /\ Head(channel) = channel[1] /\ Head(channel) \in PrefetchTask
  OBVIOUS
<1>3. Len(channel') = Len(channel) - 1 /\ \A i \in 1 .. Len(channel') : channel'[i] = channel[i + 1]
  BY <1>2
<1>10. \A i \in 1 .. Len(channel') : channel'[i] = channel[i + 1] /\ i + 1 \in 1 .. Len(channel)
  BY <1>2, <1>3
<1>4. \A j : TasksWith(j)' = {i \in 1 .. (Len(channel) - 1) : channel[i + 1].frame = j}
  BY <1>3 DEF TasksWith
<1>5. \A j : TasksWith(j) = {i \in 1 .. Len(channel) : channel[i].frame = j}
  BY DEF TasksWith
<1>6. g = Head(channel).frame => 1 \in TasksWith(g)
  BY <1>2, <1>5
<1>11. ASSUME NEW i \in TasksWith(g)' PROVE i + 1 \in TasksWith(g) /\ i + 1 # 1
  <2>1. i \in 1 .. (Len(channel) - 1) /\ channel[i + 1].frame = g
    BY <1>4
  <2> QED
    BY <1>2, <1>5, <2>1
<1>7. g = Head(channel).frame /\ Single(TasksWith(g)) => TasksWith(g)' = {}
  BY <1>6, <1>11 DEF Single
<1>8. g # Head(channel).frame /\ TasksWith(g) = {} => TasksWith(g)' = {}
  BY <1>11
<1>9. ASSUME g # Head(channel).frame, NEW k, TasksWith(g) = {k} PROVE Single(TasksWith(g)')
  <2>1. k \in 1 .. Len(channel) /\ channel[k].frame = g /\ k # 1
    BY <1>2, <1>5, <1>9
  <2>2. k - 1 \in TasksWith(g)'
    BY <1>2, <1>4, <2>1
  <2>3. ASSUME NEW i \in TasksWith(g)' PROVE i = k - 1
    <3>1. i \in 1 .. (Len(channel) - 1) /\ channel[i + 1].frame = g
      BY <1>4, <2>3
    <3>2. i + 1 \in TasksWith(g)
      BY <1>2, <1>5, <3>1
    <3> QED
      BY <1>9, <3>1, <3>2
  <2>4. TasksWith(g)' = {k - 1}
    BY <2>2, <2>3
  <2> QED
    BY <2>4 DEF Single
<1> QED
  BY <1>2, <1>6, <1>7, <1>8, <1>9, <1>10 DEF Single

(***************************************************************************)
(* A sent task takes its frame and the frame's reservation along.          *)
(***************************************************************************)
LEMMA SendPlaces ==
    ASSUME IInv, (\E D : TypedOver(D))', HomesKept, UNCHANGED free, NEW t \in Threads, Moves(t),
           NEW k \in PrefetchTask, channel' = Append(channel, k),
           OwnedBy(th[t]) = {k.frame}, OwnedBy(th'[t]) = {},
           ReservedBy(th[t]) = {k.frame}, ReservedBy(th'[t]) = {}, PinnersKept(t),
           \A g \in Frames : frames'[g].pin = frames[g].pin
    PROVE  (\A g \in Frames : InOnePlace(g))' /\ (\A g \in Frames : PinOK(g))'
<1>0. channel \in Seq(PrefetchTask)
  BY DEF IInv, TypedOver, SharedOver
<1> SUFFICES ASSUME NEW g \in Frames PROVE InOnePlace(g)' /\ PinOK(g)'
  OBVIOUS
<1>1. Occupants(g)' = Occupants(g) /\ FreeAt(g)' = FreeAt(g) /\ Pinners(g)' = Pinners(g)
  BY SwipsStay, ViewsStay DEF Occupants, ResidentAt, FreeAt
<1>2. InOnePlace(g) /\ PinOK(g)
  BY DEF IInv
<1>3. CASE g = k.frame
  <2>1. t \in Owners(g) /\ t \in Reservers(g)
    BY <1>3, ViewsMove
  <2>2. Owners(g) = {t} /\ FreeAt(g) = {} /\ TasksWith(g) = {} /\ Occupants(g) = {}
    BY <1>2, <2>1 DEF InOnePlace, Single
  <2>3. Reservers(g) = {t} /\ Pinners(g) = {} /\ frames[g].pin = EVICTING
    BY <1>2, <2>1 DEF PinOK, Single
  <2>4. Owners(g)' = {} /\ Reservers(g)' = {}
    BY <1>3, <2>2, <2>3, ViewsMove
  <2>5. TasksWith(g)' = {Len(channel) + 1}
    BY <1>0, <1>3, <2>2, SendIndices
  <2> QED
    BY <1>1, <2>2, <2>3, <2>4, <2>5 DEF InOnePlace, PinOK, Single
<1>4. CASE g # k.frame
  <2>1. Owners(g)' = Owners(g) /\ Reservers(g)' = Reservers(g)
    BY <1>4, ViewsSame
  <2>2. TasksWith(g)' = TasksWith(g)
    BY <1>0, <1>4, SendIndices
  <2> QED
    BY <1>1, <1>2, <2>1, <2>2 DEF InOnePlace, PinOK
<1> QED
  BY <1>3, <1>4

(***************************************************************************)
(* A received task brings them to the worker.                              *)
(***************************************************************************)
LEMMA ReceivePlaces ==
    ASSUME IInv, (\E D : TypedOver(D))', HomesKept, UNCHANGED free, NEW t \in Threads, Moves(t),
           channel # <<>>, channel' = Tail(channel),
           OwnedBy(th[t]) = {}, OwnedBy(th'[t]) = {Head(channel).frame},
           ReservedBy(th[t]) = {}, ReservedBy(th'[t]) = {Head(channel).frame}, PinnersKept(t),
           \A g \in Frames : frames'[g].pin = frames[g].pin
    PROVE  (\A g \in Frames : InOnePlace(g))' /\ (\A g \in Frames : PinOK(g))'
<1>0. channel \in Seq(PrefetchTask)
  BY DEF IInv, TypedOver, SharedOver
<1> SUFFICES ASSUME NEW g \in Frames PROVE InOnePlace(g)' /\ PinOK(g)'
  OBVIOUS
<1>1. Occupants(g)' = Occupants(g) /\ FreeAt(g)' = FreeAt(g) /\ Pinners(g)' = Pinners(g)
  BY SwipsStay, ViewsStay DEF Occupants, ResidentAt, FreeAt
<1>2. InOnePlace(g) /\ PinOK(g)
  BY DEF IInv
<1>3. CASE g = Head(channel).frame
  <2>1. 1 \in TasksWith(g)
    BY <1>0, <1>3, ReceiveIndices
  <2>2. Single(TasksWith(g)) /\ Owners(g) = {} /\ FreeAt(g) = {} /\ Occupants(g) = {}
    BY <1>2, <2>1 DEF InOnePlace
  <2>3. Reservers(g) = {} /\ Pinners(g) = {} /\ frames[g].pin = EVICTING
    BY <1>2, <2>1 DEF PinOK
  <2>4. Owners(g)' = {t} /\ Reservers(g)' = {t}
    BY <1>3, <2>2, <2>3, ViewsMove
  <2>5. TasksWith(g)' = {}
    BY <1>0, <1>3, <2>2, ReceiveIndices
  <2> QED
    BY <1>1, <2>2, <2>3, <2>4, <2>5 DEF InOnePlace, PinOK, Single
<1>4. CASE g # Head(channel).frame
  <2>1. Owners(g)' = Owners(g) /\ Reservers(g)' = Reservers(g)
    BY <1>4, ViewsSame
  <2>2. /\ TasksWith(g) = {} => TasksWith(g)' = {}
        /\ Single(TasksWith(g)) => Single(TasksWith(g)')
    BY <1>0, <1>4, ReceiveIndices
  <2> QED
    BY <1>1, <1>2, <2>1, <2>2 DEF InOnePlace, PinOK, Single
<1> QED
  BY <1>3, <1>4

-----------------------------------------------------------------------------
\* Steps that change the pin of one frame, or the latch of one.
Rest == UNCHANGED <<swip, pages, next_pid, free, leader, channel>>
NoNewPage(t) ==
    th'[t].op = "alloc" => th'[t].page = None \/ (th[t].op = "alloc" /\ th'[t].page = th[t].page)
OnlyPin(f) ==
    /\ PinsElsewhere(f)
    /\ \A g \in Frames : /\ frames'[g].pid = frames[g].pid /\ frames'[g].writer = frames[g].writer
                         /\ frames'[g].readers = frames[g].readers
OnlyLatch(t) ==
    /\ \A g \in Frames : frames'[g].pid = frames[g].pid /\ frames'[g].pin = frames[g].pin
    /\ \A u \in Threads \ {t} : LatchesKept(u)
    /\ LatchExcludes'

(***************************************************************************)
(* What changing pin_control does to the frames.                           *)
(***************************************************************************)
LEMMA PinSet ==
    ASSUME NEW D, SharedOver(D), NEW f \in Frames, NEW v \in Int,
           frames' = [frames EXCEPT ![f].pin = v]
    PROVE  frames' \in [Frames -> FrameOver(D)] /\ OnlyPin(f) /\ frames'[f].pin = v
<1>1. frames \in [Frames -> FrameOver(D)]
  BY DEF SharedOver
<1>2. [frames[f] EXCEPT !.pin = v] \in FrameOver(D)
  BY <1>1 DEF FrameOver
<1>3. frames' = [frames EXCEPT ![f] = [frames[f] EXCEPT !.pin = v]]
  OBVIOUS
<1>4. /\ [frames[f] EXCEPT !.pin = v].pin = v
      /\ [frames[f] EXCEPT !.pin = v].pid = frames[f].pid
      /\ [frames[f] EXCEPT !.pin = v].writer = frames[f].writer
      /\ [frames[f] EXCEPT !.pin = v].readers = frames[f].readers
  BY <1>1 DEF FrameOver
<1> QED
  BY <1>1, <1>2, <1>3, <1>4 DEF OnlyPin, PinsElsewhere

(***************************************************************************)
(* A step that changes pins only, and accounts for them, keeps the         *)
(* invariant.                                                              *)
(***************************************************************************)
LEMMA PinStepKeeps ==
    ASSUME IInv, (\E D : TypedOver(D))', NEW t \in Threads, NEW f \in Frames, OnlyPin(f), Rest,
           OwnersKept(t), NoNewPage(t), ThreadOK(t)', (\A g \in Frames : PinOK(g))'
    PROVE  IInv'
<1> USE DEF Rest
<1>1. HomesKept /\ SwipsKept
  BY DEF HomesKept, SwipsKept
<1>2. PidsKept /\ \A u \in Threads : LatchesKept(u)
  BY DEF OnlyPin, PidsKept, LatchesKept
<1>3. Moves(t) /\ FreshKept(t)
  BY DEF IInv, FreshOK, OwnersKept, NoNewPage, FreshKept
<1>4. (\A g \in Frames : InOnePlace(g))'
  BY <1>1, PlaceStays
<1>5. LatchExcludes'
  BY DEF IInv, LatchExcludes, OnlyPin
<1>6. ASSUME NEW u \in Threads \ {t} PROVE EvictorOK(u)'
  BY <1>1, <1>3, TicketStays DEF Moves
<1>7. Orderly(t)
  BY <1>1, <1>2, <1>3, <1>6 DEF Orderly
<1> QED
  BY <1>4, <1>5, <1>7, OrderlyKeeps

(***************************************************************************)
(* So does one that changes only what t holds of latches.                  *)
(***************************************************************************)
LEMMA LatchStepKeeps ==
    ASSUME IInv, (\E D : TypedOver(D))', NEW t \in Threads, OnlyLatch(t), Rest,
           Moves(t), ViewsKept(t), ThreadOK(t)'
    PROVE  IInv'
<1> USE DEF Rest
<1>1. HomesKept /\ SwipsKept
  BY DEF HomesKept, SwipsKept
<1>2. PidsKept
  BY DEF OnlyLatch, PidsKept
<1>3. OwnersKept(t) /\ ReserversKept(t) /\ PinnersKept(t) /\ FreshKept(t)
  BY DEF IInv, FreshOK, ViewsKept, OwnersKept, ReserversKept, PinnersKept, FreshKept
<1>4. (\A g \in Frames : InOnePlace(g))' /\ (\A g \in Frames : PinOK(g))'
  BY <1>1, <1>3, PlaceStays, PinsStay DEF OnlyLatch
<1>5. ASSUME NEW u \in Threads \ {t} PROVE EvictorOK(u)'
  BY <1>1, TicketStays DEF Moves
<1>6. Orderly(t)
  BY <1>1, <1>2, <1>3, <1>5 DEF Orderly, OnlyLatch
<1> QED
  BY <1>4, <1>6, OrderlyKeeps DEF OnlyLatch

(***************************************************************************)
(* Latching exclusively.                                                   *)
(***************************************************************************)
LEMMA LockExclusiveSet ==
    ASSUME IInv, NEW D, SharedOver(D), NEW t \in Threads, NEW f \in Frames,
           CanLockExclusive(f), LockExclusive(t, f)
    PROVE  frames' \in [Frames -> FrameOver(D)] /\ OnlyLatch(t) /\ frames'[f].writer = t
<1> DEFINE r == [frames[f] EXCEPT !.writer = t, !.snaps = {}]
<1>1. frames \in [Frames -> FrameOver(D)] /\ None \notin Threads
  BY PoolAssumption DEF SharedOver
<1>2. r \in FrameOver(D)
  BY <1>1 DEF FrameOver
<1>3. frames' = [frames EXCEPT ![f] = r]
  BY DEF LockExclusive
<1>4. r.writer = t /\ r.pid = frames[f].pid /\ r.pin = frames[f].pin /\ r.readers = frames[f].readers
  BY <1>1 DEF FrameOver
<1> HIDE DEF r
<1>5. frames[f].writer = None /\ frames[f].readers = {}
  BY DEF CanLockExclusive
<1>6. \A g \in Frames : frames'[g] = IF g = f THEN r ELSE frames[g]
  BY <1>1, <1>3
<1>7. LatchExcludes'
  BY <1>4, <1>5, <1>6 DEF IInv, LatchExcludes
<1>8. \A u \in Threads \ {t} : LatchesKept(u)
  BY <1>1, <1>4, <1>5, <1>6 DEF LatchesKept
<1> QED
  BY <1>1, <1>2, <1>3, <1>4, <1>6, <1>7, <1>8 DEF OnlyLatch

(***************************************************************************)
(* Latching shared.                                                        *)
(***************************************************************************)
LEMMA LockSharedSet ==
    ASSUME IInv, NEW D, SharedOver(D), NEW t \in Threads, NEW f \in Frames,
           CanLockShared(f), LockShared(t, f)
    PROVE  frames' \in [Frames -> FrameOver(D)] /\ OnlyLatch(t) /\ t \in frames'[f].readers
<1> DEFINE r == [frames[f] EXCEPT !.readers = @ \cup {t}]
<1>1. frames \in [Frames -> FrameOver(D)]
  BY DEF SharedOver
<1>2. r \in FrameOver(D)
  BY <1>1 DEF FrameOver
<1>3. frames' = [frames EXCEPT ![f] = r]
  BY DEF LockShared
<1>4. /\ r.writer = frames[f].writer /\ r.pid = frames[f].pid /\ r.pin = frames[f].pin
      /\ r.readers = frames[f].readers \cup {t}
  BY <1>1 DEF FrameOver
<1> HIDE DEF r
<1>5. frames[f].writer = None
  BY DEF CanLockShared
<1>6. \A g \in Frames : frames'[g] = IF g = f THEN r ELSE frames[g]
  BY <1>1, <1>3
<1>7. LatchExcludes'
  BY <1>4, <1>5, <1>6 DEF IInv, LatchExcludes
<1>8. \A u \in Threads \ {t} : LatchesKept(u)
  BY <1>4, <1>6 DEF LatchesKept
<1> QED
  BY <1>1, <1>2, <1>3, <1>4, <1>6, <1>7, <1>8 DEF OnlyLatch

(***************************************************************************)
(* Unlatching.                                                             *)
(***************************************************************************)
LEMMA UnlockSet ==
    ASSUME IInv, NEW D, SharedOver(D), NEW t \in Threads, NEW f \in Frames, Unlock(t, f)
    PROVE  frames' \in [Frames -> FrameOver(D)] /\ OnlyLatch(t)
<1> DEFINE r == [frames[f] EXCEPT !.readers = @ \ {t}, !.writer = IF @ = t THEN None ELSE @]
<1>1. frames \in [Frames -> FrameOver(D)] /\ None \notin Threads
  BY PoolAssumption DEF SharedOver
<1>2. r \in FrameOver(D)
  BY <1>1 DEF FrameOver
<1>3. frames' = [frames EXCEPT ![f] = r]
  BY DEF Unlock
<1>4. /\ r.writer = IF frames[f].writer = t THEN None ELSE frames[f].writer
      /\ r.pid = frames[f].pid /\ r.pin = frames[f].pin
      /\ r.readers = frames[f].readers \ {t}
  BY <1>1 DEF FrameOver
<1> HIDE DEF r
<1>6. \A g \in Frames : frames'[g] = IF g = f THEN r ELSE frames[g]
  BY <1>1, <1>3
<1>7. LatchExcludes'
  BY <1>4, <1>6 DEF IInv, LatchExcludes
<1>8. \A u \in Threads \ {t} : LatchesKept(u)
  BY <1>4, <1>6 DEF LatchesKept
<1> QED
  BY <1>1, <1>2, <1>3, <1>4, <1>6, <1>7, <1>8 DEF OnlyLatch

(***************************************************************************)
(* A page is resurrected only by who has reserved or pinned its frame, so  *)
(* no other evictor's ticket is spoilt.                                    *)
(***************************************************************************)
LEMMA ResurrectSpares ==
    ASSUME IInv, NEW D, SharedOver(D), NEW t \in Threads, NEW p \in Pages, NEW f \in Frames,
           TryResurrect(p, f), Moves(t), f \in ReservedBy(th[t]) \/ f \in PinnedBy(th[t])
    PROVE  swip' \in [Pages -> SwipStates] /\ HomesKept /\ \A u \in Threads \ {t} : EvictorOK(u)'
<1>1. swip \in [Pages -> SwipStates] /\ swip' = [swip EXCEPT ![p] = IF @ = Cooling(f) THEN Hot(f) ELSE @]
  BY DEF SharedOver, TryResurrect
<1>2. swip' \in [Pages -> SwipStates]
  BY <1>1 DEF SwipStates, Hot
<1>3. HomesKept
  BY <1>1 DEF HomesKept, Cooling, Hot, Evicted
<1>4. ASSUME NEW u \in Threads \ {t} PROVE EvictorOK(u)'
  <2> SUFFICES ASSUME th[u].pc \in {"ev_write", "ev_publish", "ev_unswizzle"}
               PROVE  swip'[th[u].ticket.pid] = Cooling(th[u].ticket.frame)
    BY DEF EvictorOK, Moves
  <2> DEFINE k == th[u].ticket
  <2>1. k.pid \in Pages /\ k.frame \in Frames
    BY Needs DEF Backed, EvictPlaces, EvictReserved
  <2>2. swip[k.pid] = Cooling(k.frame)
    BY DEF IInv, ThreadOK, EvictorOK
  <2>3. k.frame \in ReservedBy(th[u])
    BY <2>1 DEF ReservedBy, EvictReserved
  <2>4. k.frame # f
    BY <2>3, Alone
  <2>5. swip[k.pid] # Cooling(f)
    BY <2>2, <2>4 DEF Cooling
  <2> QED
    BY <1>1, <2>1, <2>2, <2>5
<1> QED
  BY <1>2, <1>3, <1>4

\* A step that at most resurrects a page.
Waking == UNCHANGED <<pages, next_pid, free, leader, channel>> /\ FramesKept /\ HomesKept

(***************************************************************************)
(* Such a step keeps the invariant.                                        *)
(***************************************************************************)
LEMMA WakingKeeps ==
    ASSUME IInv, (\E D : TypedOver(D))', NEW t \in Threads, Waking, Moves(t), ViewsKept(t),
           ThreadOK(t)', \A u \in Threads \ {t} : EvictorOK(u)'
    PROVE  IInv'
<1> USE DEF Waking
<1>2. PidsKept /\ \A u \in Threads : LatchesKept(u)
  BY DEF FramesKept, PidsKept, LatchesKept
<1>3. OwnersKept(t) /\ ReserversKept(t) /\ PinnersKept(t) /\ FreshKept(t)
  BY DEF IInv, FreshOK, ViewsKept, OwnersKept, ReserversKept, PinnersKept, FreshKept
<1>4. (\A f \in Frames : InOnePlace(f))' /\ (\A f \in Frames : PinOK(f))'
  BY <1>3, PlaceStays, PinsStay DEF FramesKept
<1>5. LatchExcludes'
  BY DEF IInv, LatchExcludes, FramesKept
<1>7. Orderly(t)
  BY <1>2, <1>3 DEF Orderly
<1> QED
  BY <1>4, <1>5, <1>7, OrderlyKeeps

\* t returns from evict_ticket.
Returning(t, D, place) ==
    /\ th' \in [Threads -> LocalsOver(D)] /\ Moves(t)
    /\ th'[t].pc = place /\ th'[t].op = th[t].op
    /\ th'[t].page = th[t].page /\ th'[t].frame = th[t].frame /\ th'[t].ticket = None

(***************************************************************************)
(* EvictionReturns drops the ticket.                                       *)
(***************************************************************************)
LEMMA EvictionReturnsGoes ==
    ASSUME NEW D, TypedOver(D), NEW t \in Threads, NEW outcome, EvictionReturns(t, outcome)
    PROVE  Returning(t, D, AfterEvict(t, outcome))
<1> DEFINE to == AfterEvict(t, outcome)
           n == IF th[t].op = "shutdown" /\ outcome = "freed" THEN 1 ELSE th[t].left
           l == [th[t] EXCEPT !.pc = to, !.ticket = None, !.old = None, !.new = None, !.left = n]
<1>1. th \in [Threads -> LocalsOver(D)] /\ th[t] \in LocalsOver(D)
  BY DEF TypedOver
<1>2. to \in Places
  BY DEF AfterEvict, Places
<1>3. th' = [th EXCEPT ![t] = l]
  BY DEF EvictionReturns
<1>7. n \in Nat
  BY <1>1 DEF LocalsOver
<1> HIDE DEF to, n
<1>4. l \in LocalsOver(D)
  BY <1>1, <1>2, <1>7 DEF LocalsOver
<1>5. /\ l.pc = to /\ l.op = th[t].op /\ l.page = th[t].page /\ l.frame = th[t].frame
      /\ l.ticket = None
  BY <1>1 DEF LocalsOver
<1> HIDE DEF l
<1>6. th' \in [Threads -> LocalsOver(D)] /\ Moves(t) /\ th'[t] = l
  BY <1>3, <1>4, Becomes
<1> QED
  BY <1>5, <1>6 DEF Returning, to

(***************************************************************************)
(* Changing a frame's bytes, dirty flag or snapshots leaves the rest.      *)
(***************************************************************************)
LEMMA FrameSet ==
    ASSUME NEW D, frames \in [Frames -> FrameOver(D)], NEW f \in Frames, NEW r \in FrameOver(D),
           frames' = [frames EXCEPT ![f] = r], r.pid = frames[f].pid, r.pin = frames[f].pin,
           r.writer = frames[f].writer, r.readers = frames[f].readers
    PROVE  frames' \in [Frames -> FrameOver(D)] /\ FramesKept
  BY DEF FramesKept

(***************************************************************************)
(* An owned frame has one owner and holds no page; a resident frame holds  *)
(* one page and nobody owns it.                                            *)
(***************************************************************************)
LEMMA Sole ==
    ASSUME IInv, NEW f \in Frames
    PROVE  /\ \A t, u \in Threads : f \in OwnedBy(th[t]) /\ f \in OwnedBy(th[u]) => t = u
           /\ \A t \in Threads, p \in Pages : f \in OwnedBy(th[t]) => ~ResidentAt(p, f)
           /\ \A p, q \in Pages : ResidentAt(p, f) /\ ResidentAt(q, f) => p = q
<1>1. InOnePlace(f)
  BY DEF IInv
<1>2. Owners(f) = {t \in Threads : f \in OwnedBy(th[t])}
  BY Views
<1>3. Occupants(f) = {p \in Pages : ResidentAt(p, f)}
  BY DEF Occupants
<1> QED
  BY <1>1, <1>2, <1>3 DEF InOnePlace, Single

\* The locals after a fault: a demand fault tries again or has failed, a
\* prefetch is over, with the frame it still has if any.
Outcome(t, D, l) ==
    /\ l \in LocalsOver(D)
    /\ \/ th[t].op \in FixOps /\ l = Idle
       \/ /\ th[t].op \in FixOps /\ l.pc = "load" /\ l.frame = None
          /\ l.op = th[t].op /\ l.page = th[t].page /\ l.ticket = th[t].ticket
       \/ /\ th[t].op = "prefetch"
          /\ l.pc = IF th[t].frame = None THEN "unreserve" ELSE "undo_release"
          /\ l.op = th[t].op /\ l.page = th[t].page /\ l.frame = th[t].frame
          /\ l.ticket = th[t].ticket

(***************************************************************************)
(* AfterFault, for a thread whose flight has ended or never began.         *)
(***************************************************************************)
LEMMA AfterFaultGoes ==
    ASSUME NEW D, TypedOver(D), NEW t \in Threads, PlaceOK(t), NEW result,
           th[t].pc \in {"fault", "answered", "land"}
    PROVE  Outcome(t, D, AfterFault(t, result))
<1>1. th[t] \in LocalsOver(D)
  BY DEF TypedOver
<1>2. th[t].op \in FixOps \cup {"prefetch"}
  BY <1>1 DEF PlaceOK, FixOps, Operations, LocalsOver, AcquirePlaces, FillPlaces, UndoPlaces,
     EvictPlaces, EvictReserved, TaskPlaces, Fixing
<1>3. {"unreserve", "undo_release", "load", "idle"} \subseteq Places
  BY DEF Places, Reserved
<1>4. Idle \in LocalsOver(D)
  BY <1>3, PoolAssumption DEF LocalsOver, Idle
<1>5. CASE th[t].op = "prefetch"
  <2> DEFINE to == IF th[t].frame = None THEN "unreserve" ELSE "undo_release"
             l == [th[t] EXCEPT !.pc = to, !.src = None, !.result = None]
  <2>1. to \in Places
    BY <1>3
  <2> HIDE DEF to
  <2>2. l \in LocalsOver(D)
    BY <1>1, <2>1 DEF LocalsOver
  <2>3. /\ l.pc = to /\ l.op = th[t].op /\ l.page = th[t].page
        /\ l.frame = th[t].frame /\ l.ticket = th[t].ticket
    BY <1>1 DEF LocalsOver
  <2>4. AfterFault(t, result) = l
    BY <1>5 DEF AfterFault, to
  <2> HIDE DEF l
  <2> QED
    BY <1>5, <2>2, <2>3, <2>4 DEF Outcome, to
<1>6. CASE th[t].op # "prefetch" /\ result = "ok"
  <2> DEFINE l == [th[t] EXCEPT !.pc = "load", !.src = None, !.result = None, !.frame = None]
  <2>1. l \in LocalsOver(D)
    BY <1>1, <1>3 DEF LocalsOver
  <2>2. /\ l.pc = "load" /\ l.op = th[t].op /\ l.page = th[t].page
        /\ l.frame = None /\ l.ticket = th[t].ticket
    BY <1>1 DEF LocalsOver
  <2>3. AfterFault(t, result) = l
    BY <1>6 DEF AfterFault
  <2> HIDE DEF l
  <2> QED
    BY <1>2, <1>6, <2>1, <2>2, <2>3 DEF Outcome
<1>7. CASE th[t].op # "prefetch" /\ result # "ok"
  BY <1>2, <1>4, <1>7 DEF Outcome, AfterFault
<1> QED
  BY <1>5, <1>6, <1>7

(***************************************************************************)
(* Page bytes of a larger set are still well typed.                        *)
(***************************************************************************)
LEMMA Widen ==
    ASSUME NEW D, NEW E, D \subseteq E, TypedOver(D)
    PROVE  TypedOver(E)
<1>1. FrameOver(D) \subseteq FrameOver(E)
  BY DEF FrameOver
<1>2. LocalsOver(D) \subseteq LocalsOver(E)
  BY DEF LocalsOver
<1>3. frames \in [Frames -> FrameOver(E)]
  BY <1>1 DEF TypedOver, SharedOver
<1>4. th \in [Threads -> LocalsOver(E)]
  BY <1>2 DEF TypedOver
<1>5. slots \in [Slots -> E \cup {None}]
  BY DEF TypedOver, SharedOver
<1> QED
  BY <1>3, <1>4, <1>5 DEF TypedOver, SharedOver

(***************************************************************************)
(* A step that ends a fault and touches nothing shared.                    *)
(***************************************************************************)
LEMMA OutcomeKeeps ==
    ASSUME IInv, NEW D, TypedOver(D), NEW t \in Threads, NEW l, Outcome(t, D, l),
           th[t].pc \in {"fault", "answered"}, th' = [th EXCEPT ![t] = l],
           SharedOver(D)', Calm
    PROVE  IInv'
<1> USE DEF FixOps, FillPlaces, UndoPlaces, AcquirePlaces, EvictPlaces, EvictReserved, TaskPlaces,
            Fixing, GuardPlaces, Unreserved, Reserved, Published, EvictDetached
<1>1. th' \in [Threads -> LocalsOver(D)] /\ Moves(t) /\ th'[t] = l
  BY Becomes DEF Outcome
<1>2. ThreadOK(t) /\ th[t] \in LocalsOver(D) /\ UNCHANGED <<pages, next_pid, leader>>
  BY DEF IInv, Calm, TypedOver
<1>3. CASE l = Idle
  <2>1. Gone(t, D) /\ ThreadOK(t)'
    BY <1>1, <1>3, LeaveGoes DEF Gone
  <2>2. th[t].op \in FixOps
    BY <1>2, <1>3, PoolAssumption DEF Outcome, Idle, Operations
  <2>3. OwnedBy(th[t]) = {} /\ ReservedBy(th[t]) = {} /\ PinnedBy(th[t]) = {}
    BY <2>2 DEF OwnedBy, ReservedBy, PinnedBy
  <2> QED
    BY <2>1, <2>3, LeaveKeeps
<1>4. CASE th[t].op \in FixOps /\ l.pc = "load" /\ l # Idle
  <2>1. l.op = th[t].op /\ l.page = th[t].page /\ l.frame = None
    BY <1>4 DEF Outcome
  <2>2. ThreadOK(t)'
    BY <1>1, <1>2, <1>4, <2>1 DEF ThreadOK, PlaceOK, LocalsOK, LeadOK, VacantOK, InstalledOK,
       ExactOK, EvictorOK, LatchOK
  <2>3. ViewsKept(t)
    BY <1>1, <1>2, <1>4, <2>1 DEF ViewsKept, OwnedBy, ReservedBy, PinnedBy
  <2> QED
    BY <1>1, <2>2, <2>3, QuietKeeps DEF Quiet, TypedOver
<1>5. CASE th[t].op = "prefetch"
  <2>1. th[t].frame \in Frames
    BY <1>2, <1>5 DEF ThreadOK, LocalsOK
  <2>2. /\ l.pc = "undo_release" /\ l.op = th[t].op /\ l.page = th[t].page
        /\ l.frame = th[t].frame /\ l.ticket = th[t].ticket
    BY <1>5, <2>1, PoolAssumption DEF Outcome
  <2>3. ThreadOK(t)'
    BY <1>1, <1>2, <1>5, <2>1, <2>2 DEF ThreadOK, PlaceOK, LocalsOK, LeadOK, VacantOK, InstalledOK,
       ExactOK, EvictorOK, LatchOK
  <2>4. ViewsKept(t)
    BY <1>1, <1>2, <1>5, <2>2 DEF ViewsKept, OwnedBy, ReservedBy, PinnedBy
  <2> QED
    BY <1>1, <2>3, <2>4, QuietKeeps DEF Quiet, TypedOver
<1> QED
  BY <1>3, <1>4, <1>5 DEF Outcome

(***************************************************************************)
(* A step that pops a frame for its thread, or pushes back what it owns,   *)
(* keeps the invariant.                                                    *)
(***************************************************************************)
LEMMA QueueKeeps ==
    ASSUME IInv, (\E D : TypedOver(D))', NEW t \in Threads, Moves(t), ThreadOK(t)',
           UNCHANGED <<swip, pages, next_pid, frames, leader, channel>>,
           (\A f \in Frames : InOnePlace(f))', NoNewPage(t),
           ReservedBy(th'[t]) = ReservedBy(th[t]), PinnedBy(th'[t]) = PinnedBy(th[t])
    PROVE  IInv'
<1>1. (\A g \in Frames : PinOK(g))'
  BY PinsStay DEF ReserversKept, PinnersKept
<1>2. LatchExcludes'
  BY DEF IInv, LatchExcludes
<1>3. Orderly(t)
  BY TicketStays
     DEF Orderly, FreshKept, NoNewPage, PidsKept, LatchesKept, SwipsKept, HomesKept, Moves, IInv, FreshOK
<1> QED
  BY <1>1, <1>2, <1>3, OrderlyKeeps

(***************************************************************************)
(* Popping.                                                                *)
(***************************************************************************)
LEMMA PopKeeps ==
    ASSUME IInv, (\E D : TypedOver(D))', NEW t \in Threads, Moves(t), ThreadOK(t)', PopFree,
           UNCHANGED <<swip, pages, next_pid, frames, leader, channel>>,
           OwnedBy(th[t]) = {}, OwnedBy(th'[t]) = {Head(free)}, NoNewPage(t),
           ReservedBy(th'[t]) = ReservedBy(th[t]), PinnedBy(th'[t]) = PinnedBy(th[t])
    PROVE  IInv'
<1>1. HomesKept
  BY DEF HomesKept
<1> QED
  BY <1>1, PopPlaces, QueueKeeps

(***************************************************************************)
(* Pushing.                                                                *)
(***************************************************************************)
LEMMA PushKeeps ==
    ASSUME IInv, (\E D : TypedOver(D))', NEW t \in Threads, Moves(t), ThreadOK(t)',
           NEW f \in Frames, PushFree(f),
           UNCHANGED <<swip, pages, next_pid, frames, leader, channel>>,
           OwnedBy(th[t]) = {f}, OwnedBy(th'[t]) = {}, NoNewPage(t),
           ReservedBy(th'[t]) = ReservedBy(th[t]), PinnedBy(th'[t]) = PinnedBy(th[t])
    PROVE  IInv'
<1>1. HomesKept
  BY DEF HomesKept
<1> QED
  BY <1>1, PushPlaces, QueueKeeps

(***************************************************************************)
(* enqueue_ticket queues a well-formed ticket or none.                     *)
(***************************************************************************)
LEMMA EnqueuesTicket ==
    ASSUME NEW D, SharedOver(D), NEW f \in Frames, NEW p \in Pages, EnqueueTicket(f, p)
    PROVE  cooling' \in Seq(CoolingTicket)
<1>1. Ticket(f, p) \in CoolingTicket
  BY DEF SharedOver, FrameOver, Ticket, CoolingTicket
<1>2. Append(cooling, Ticket(f, p)) \in Seq(CoolingTicket)
  BY <1>1 DEF SharedOver
<1> QED
  BY <1>2 DEF EnqueueTicket, PushUnique, SharedOver

(***************************************************************************)
(* enqueue_cold_candidates moves no frame: it marks a page as cooling and  *)
(* queues a ticket.                                                        *)
(***************************************************************************)
LEMMA SamplingKeeps ==
    ASSUME IInv, NEW t \in Threads,
           \/ SampleDone(t) \/ SampleFrame(t) \/ MarkCandidate(t) \/ EnqueueCandidate(t)
    PROVE  IInv'
<1> USE DEF FixOps, FillPlaces, UndoPlaces, AcquirePlaces, EvictPlaces, EvictReserved, TaskPlaces,
            Fixing, GuardPlaces, Unreserved, Reserved, Published, EvictDetached,
            pageVars, queues, tiers, prefetchVars
<1>1. PICK D : TypedOver(D)
  BY DEF IInv
<1>2. th[t] \in LocalsOver(D) /\ SharedOver(D) /\ Values \subseteq D /\ ThreadOK(t)
  BY <1>1 DEF IInv, TypedOver
<1>3. CASE SampleDone(t)
  <2> DEFINE l == [th[t] EXCEPT !.pc = "take", !.cand = {}, !.want = 0, !.left = Len(cooling)]
  <2>10. {"take"} \subseteq Places
    BY DEF Places
  <2>11. Len(cooling) \in Nat
    BY <1>3, <1>2 DEF SampleDone, At, SharedOver, LocalsOver
  <2>12. l \in LocalsOver(D)
    BY <1>2, <2>10, <2>11 DEF LocalsOver
  <2>13. th' = [th EXCEPT ![t] = l]
    BY <1>3, <1>1, <1>2 DEF SampleDone, At, TypedOver, LocalsOver
  <2>14. /\ l.pc = "take" /\ l.op = th[t].op /\ l.page = th[t].page
        /\ l.frame = th[t].frame /\ l.ticket = th[t].ticket
    BY <1>3, <1>2 DEF SampleDone, At, LocalsOver
  <2> HIDE DEF l
  <2>15. th' \in [Threads -> LocalsOver(D)] /\ Moves(t) /\ th'[t] = l
    BY <1>1, <2>12, <2>13, Becomes
  <2>19. At(t, "sample") /\ UNCHANGED <<swip, pages, next_pid, frames, leader>>
    BY <1>3 DEF SampleDone, At
  <2>16. SharedOver(D)' /\ Calm
    BY <1>3, <1>2 DEF SampleDone, At, SharedOver, Calm, FramesKept, SwipsKept
  <2>17. ThreadOK(t)'
    BY <2>19, <1>2, <2>14, <2>15 DEF At, ThreadOK, PlaceOK, LocalsOK, LeadOK, VacantOK,
       InstalledOK, ExactOK, EvictorOK, LatchOK
  <2>18. ViewsKept(t)
    BY <2>19, <1>2, <2>14, <2>15 DEF At, ViewsKept, OwnedBy, ReservedBy, PinnedBy, ThreadOK,
       PlaceOK
  <2> QED
    BY <1>2, <2>15, <2>16, <2>17, <2>18, QuietKeeps DEF Quiet, TypedOver
<1>4. CASE SampleFrame(t)
  <2>1. PICK f \in th[t].cand :
            th' = IF frames[f].pin = 0 /\ frames[f].pid # None
                  THEN [th EXCEPT ![t].pc = "mark", ![t].cand = @ \ {f},
                                  ![t].ticket = Ticket(f, frames[f].pid)]
                  ELSE [th EXCEPT ![t].cand = @ \ {f}]
    BY <1>4 DEF SampleFrame
  <2>2. CASE frames[f].pin = 0 /\ frames[f].pid # None
    <3> DEFINE l == [th[t] EXCEPT !.pc = "mark", !.cand = @ \ {f}, !.ticket = Ticket(f, frames[f].pid)]
    <3>10. {"mark"} \subseteq Places
      BY DEF Places
    <3>11. Ticket(f, frames[f].pid) \in CoolingTicket
      BY <2>2, <1>4, <2>1, <1>2 DEF SampleFrame, At, SharedOver, LocalsOver, FrameOver, Ticket,
         CoolingTicket
    <3>12. l \in LocalsOver(D)
      BY <1>2, <3>10, <3>11 DEF LocalsOver
    <3>13. th' = [th EXCEPT ![t] = l]
      BY <2>2, <1>4, <2>1, <1>1, <1>2 DEF SampleFrame, At, TypedOver, LocalsOver
    <3>14. /\ l.pc = "mark" /\ l.op = th[t].op /\ l.page = th[t].page
          /\ l.frame = th[t].frame /\ l.ticket = Ticket(f, frames[f].pid)
      BY <2>2, <1>4, <2>1, <1>2 DEF SampleFrame, At, LocalsOver
    <3> HIDE DEF l
    <3>15. th' \in [Threads -> LocalsOver(D)] /\ Moves(t) /\ th'[t] = l
      BY <1>1, <3>12, <3>13, Becomes
    <3>19. At(t, "sample") /\ UNCHANGED <<swip, pages, next_pid, frames, leader>>
      BY <2>2, <1>4, <2>1 DEF SampleFrame, At
    <3>16. SharedOver(D)' /\ Calm
      BY <2>2, <1>4, <2>1, <1>2 DEF SampleFrame, At, SharedOver, Calm, FramesKept, SwipsKept
    <3>17. ThreadOK(t)'
      BY <3>19, <1>2, <3>14, <3>15, <3>11 DEF At, ThreadOK, PlaceOK, LocalsOK, LeadOK, VacantOK,
         InstalledOK, ExactOK, EvictorOK, LatchOK
    <3>18. ViewsKept(t)
      BY <3>19, <1>2, <3>14, <3>15, <3>11 DEF At, ViewsKept, OwnedBy, ReservedBy, PinnedBy,
         ThreadOK, PlaceOK
    <3> QED
      BY <1>2, <3>15, <3>16, <3>17, <3>18, QuietKeeps DEF Quiet, TypedOver
  <2>3. CASE ~(frames[f].pin = 0 /\ frames[f].pid # None)
    <3> DEFINE l == [th[t] EXCEPT !.cand = @ \ {f}]
    <3>10. {"sample"} \subseteq Places
      BY DEF Places
    <3>12. l \in LocalsOver(D)
      BY <1>2, <3>10 DEF LocalsOver
    <3>13. th' = [th EXCEPT ![t] = l]
      BY <2>3, <1>4, <2>1, <1>1, <1>2 DEF SampleFrame, At, TypedOver, LocalsOver
    <3>14. /\ l.pc = "sample" /\ l.op = th[t].op /\ l.page = th[t].page
          /\ l.frame = th[t].frame /\ l.ticket = th[t].ticket
      BY <2>3, <1>4, <2>1, <1>2 DEF SampleFrame, At, LocalsOver
    <3> HIDE DEF l
    <3>15. th' \in [Threads -> LocalsOver(D)] /\ Moves(t) /\ th'[t] = l
      BY <1>1, <3>12, <3>13, Becomes
    <3>19. At(t, "sample") /\ UNCHANGED <<swip, pages, next_pid, frames, leader>>
      BY <2>3, <1>4, <2>1 DEF SampleFrame, At
    <3>16. SharedOver(D)' /\ Calm
      BY <2>3, <1>4, <2>1, <1>2 DEF SampleFrame, At, SharedOver, Calm, FramesKept, SwipsKept
    <3>17. ThreadOK(t)'
      BY <3>19, <1>2, <3>14, <3>15 DEF At, ThreadOK, PlaceOK, LocalsOK, LeadOK, VacantOK,
         InstalledOK, ExactOK, EvictorOK, LatchOK
    <3>18. ViewsKept(t)
      BY <3>19, <1>2, <3>14, <3>15 DEF At, ViewsKept, OwnedBy, ReservedBy, PinnedBy, ThreadOK,
         PlaceOK
    <3> QED
      BY <1>2, <3>15, <3>16, <3>17, <3>18, QuietKeeps DEF Quiet, TypedOver
  <2> QED
    BY <2>2, <2>3
<1>5. CASE MarkCandidate(t)
  <2>1. PICK o \in {th[t].ticket.pid, frames[th[t].ticket.frame].pid} \ {None} :
            IF ResidentAt(o, th[t].ticket.frame)
            THEN SetSwip(o, Cooling(th[t].ticket.frame)) /\ Goto(t, "enqueue")
            ELSE /\ th' = [th EXCEPT ![t].pc = "sample", ![t].ticket = None]
                 /\ UNCHANGED swip
    BY <1>5 DEF MarkCandidate
  <2>2. th[t].ticket \in CoolingTicket
    BY <1>2, <1>5 DEF MarkCandidate, At, ThreadOK, LocalsOK
  <2>3. o \in Pages /\ th[t].ticket.frame \in Frames
    BY <1>2, <2>1, <2>2 DEF CoolingTicket, SharedOver, FrameOver
  <2>4. CASE ResidentAt(o, th[t].ticket.frame)
    <3>15. Going(t, D, "enqueue")
      BY <2>4, <1>5, <2>1, <2>3, <1>1, GotoGoes DEF MarkCandidate, At, Places
    <3>1. swip' = [swip EXCEPT ![o] = Cooling(th[t].ticket.frame)]
      BY <2>1, <2>4 DEF SetSwip
    <3>2. swip' \in [Pages -> SwipStates]
      BY <1>2, <2>3, <3>1 DEF SharedOver, SwipStates, Cooling
    <3>3. SwipsKept
      BY <1>2, <2>3, <2>4, <3>1, PoolAssumption DEF SharedOver, SwipsKept, SwipStates, ResidentAt,
         Hot, Cooling, Evicted
    <3>16. SharedOver(D)' /\ Calm
      BY <1>2, <1>5, <3>2, <3>3 DEF MarkCandidate, SharedOver, Calm, FramesKept
    <3>4. th[t].op \in FixOps /\ swip[th[t].page] = Evicted => swip'[th[t].page] = Evicted
      BY <1>2, <3>15, <3>16, <3>3, SwipsStay, Needs DEF TypedOver, Going, Backed, SwipsKept,
         HomesKept
    <3>19. At(t, "mark") /\ UNCHANGED <<pages, next_pid, frames, leader>>
      BY <2>4, <1>5, <2>1, <2>3 DEF MarkCandidate, At
    <3>17. ThreadOK(t)'
      BY <3>19, <1>2, <3>15, <2>2, <3>4 DEF At, Going, ThreadOK, PlaceOK, LocalsOK, LeadOK,
         VacantOK, InstalledOK, ExactOK, EvictorOK, LatchOK
    <3>18. ViewsKept(t)
      BY <3>19, <1>2, <3>15, <2>2, <3>4 DEF At, Going, ViewsKept, OwnedBy, ReservedBy, PinnedBy,
         ThreadOK, PlaceOK
    <3> QED
      BY <1>2, <3>15, <3>16, <3>17, <3>18, QuietKeeps DEF Going, Quiet, TypedOver
  <2>5. CASE ~ResidentAt(o, th[t].ticket.frame)
    <3> DEFINE l == [th[t] EXCEPT !.pc = "sample", !.ticket = None]
    <3>10. {"sample"} \subseteq Places
      BY DEF Places
    <3>12. l \in LocalsOver(D)
      BY <1>2, <3>10 DEF LocalsOver
    <3>13. th' = [th EXCEPT ![t] = l]
      BY <2>5, <1>5, <2>1, <1>1, <1>2 DEF MarkCandidate, At, TypedOver, LocalsOver
    <3>14. /\ l.pc = "sample" /\ l.op = th[t].op /\ l.page = th[t].page
          /\ l.frame = th[t].frame /\ l.ticket = None
      BY <2>5, <1>5, <2>1, <1>2 DEF MarkCandidate, At, LocalsOver
    <3> HIDE DEF l
    <3>15. th' \in [Threads -> LocalsOver(D)] /\ Moves(t) /\ th'[t] = l
      BY <1>1, <3>12, <3>13, Becomes
    <3>19. At(t, "mark") /\ UNCHANGED <<swip, pages, next_pid, frames, leader>>
      BY <2>5, <1>5, <2>1 DEF MarkCandidate, At
    <3>16. SharedOver(D)' /\ Calm
      BY <2>5, <1>5, <2>1, <1>2 DEF MarkCandidate, At, SharedOver, Calm, FramesKept, SwipsKept
    <3>17. ThreadOK(t)'
      BY <3>19, <1>2, <3>14, <3>15 DEF At, ThreadOK, PlaceOK, LocalsOK, LeadOK, VacantOK,
         InstalledOK, ExactOK, EvictorOK, LatchOK
    <3>18. ViewsKept(t)
      BY <3>19, <1>2, <3>14, <3>15 DEF At, ViewsKept, OwnedBy, ReservedBy, PinnedBy, ThreadOK,
         PlaceOK
    <3> QED
      BY <1>2, <3>15, <3>16, <3>17, <3>18, QuietKeeps DEF Quiet, TypedOver
  <2> QED
    BY <2>4, <2>5
<1>6. CASE EnqueueCandidate(t)
  <2> DEFINE l == [th[t] EXCEPT !.pc = "sample", !.ticket = None]
  <2>10. {"sample"} \subseteq Places
    BY DEF Places
  <2>12. l \in LocalsOver(D)
    BY <1>2, <2>10 DEF LocalsOver
  <2>13. th' = [th EXCEPT ![t] = l]
    BY <1>6, <1>1, <1>2 DEF EnqueueCandidate, At, TypedOver, LocalsOver
  <2>14. /\ l.pc = "sample" /\ l.op = th[t].op /\ l.page = th[t].page
        /\ l.frame = th[t].frame /\ l.ticket = None
    BY <1>6, <1>2 DEF EnqueueCandidate, At, LocalsOver
  <2> HIDE DEF l
  <2>15. th' \in [Threads -> LocalsOver(D)] /\ Moves(t) /\ th'[t] = l
    BY <1>1, <2>12, <2>13, Becomes
  <2>1. th[t].ticket.pid \in Pages /\ th[t].ticket.frame \in Frames
    BY <1>2, <1>6 DEF EnqueueCandidate, At, ThreadOK, LocalsOK, CoolingTicket
  <2>2. cooling' \in Seq(CoolingTicket)
    BY <1>2, <1>6, <2>1, EnqueuesTicket DEF EnqueueCandidate
  <2>16. SharedOver(D)' /\ Calm
    BY <1>2, <1>6, <2>2 DEF EnqueueCandidate, SharedOver, Calm, FramesKept, SwipsKept
  <2>19. At(t, "enqueue") /\ UNCHANGED <<swip, pages, next_pid, frames, leader>>
    BY <1>6 DEF EnqueueCandidate, At
  <2>17. ThreadOK(t)'
    BY <2>19, <1>2, <2>14, <2>15 DEF At, ThreadOK, PlaceOK, LocalsOK, LeadOK, VacantOK,
       InstalledOK, ExactOK, EvictorOK, LatchOK
  <2>18. ViewsKept(t)
    BY <2>19, <1>2, <2>14, <2>15 DEF At, ViewsKept, OwnedBy, ReservedBy, PinnedBy, ThreadOK,
       PlaceOK
  <2> QED
    BY <1>2, <2>15, <2>16, <2>17, <2>18, QuietKeeps DEF Quiet, TypedOver
<1> QED
  BY <1>3, <1>4, <1>5, <1>6

(***************************************************************************)
(* A ticket that is stale or busy, and the bookkeeping of an eviction,     *)
(* move no frame.                                                          *)
(***************************************************************************)
LEMMA TicketKeeps ==
    ASSUME IInv, NEW t \in Threads,
           \/ EvictCheck(t) \/ EvictBusy(t) \/ EvictWrite(t)
           \/ EvictPublish(t) \/ EvictMarker(t) \/ EvictFreeOld(t)
    PROVE  IInv'
<1> USE DEF FixOps, FillPlaces, UndoPlaces, AcquirePlaces, EvictPlaces, EvictReserved, TaskPlaces,
            Fixing, GuardPlaces, Unreserved, Reserved, Published, EvictDetached,
            pageVars, queues, tiers, prefetchVars
<1>1. PICK D : TypedOver(D)
  BY DEF IInv
<1>2. th[t] \in LocalsOver(D) /\ SharedOver(D) /\ Values \subseteq D /\ ThreadOK(t)
  BY <1>1 DEF IInv, TypedOver
<1>3. CASE EvictCheck(t)
  <2>1. CASE ExactCoolingOwner(th[t].ticket)
    <3>15. Going(t, D, "ev_claim")
      BY <2>1, <1>3, <1>1, GotoGoes DEF EvictCheck, At, Places
    <3>19. At(t, "ev_check") /\ UNCHANGED <<swip, pages, next_pid, frames, leader>>
      BY <2>1, <1>3 DEF EvictCheck, At
    <3>16. SharedOver(D)' /\ Calm
      BY <2>1, <1>3, <1>2 DEF EvictCheck, At, SharedOver, Calm, FramesKept, SwipsKept
    <3>17. ThreadOK(t)'
      BY <3>19, <1>2, <3>15 DEF At, Going, ThreadOK, PlaceOK, LocalsOK, LeadOK, VacantOK,
         InstalledOK, ExactOK, EvictorOK, LatchOK
    <3>18. ViewsKept(t)
      BY <3>19, <1>2, <3>15 DEF At, Going, ViewsKept, OwnedBy, ReservedBy, PinnedBy, ThreadOK,
         PlaceOK
    <3> QED
      BY <1>2, <3>15, <3>16, <3>17, <3>18, QuietKeeps DEF Going, Quiet, TypedOver
  <2>2. CASE ~ExactCoolingOwner(th[t].ticket)
    <3>15. Returning(t, D, AfterEvict(t, "stale"))
      BY <2>2, <1>3, <1>1, EvictionReturnsGoes DEF EvictCheck, At
    <3>19. At(t, "ev_check") /\ UNCHANGED <<swip, pages, next_pid, frames, leader>>
      BY <2>2, <1>3 DEF EvictCheck, At
    <3>16. SharedOver(D)' /\ Calm
      BY <2>2, <1>3, <1>2 DEF EvictCheck, At, SharedOver, Calm, FramesKept, SwipsKept
    <3>17. ThreadOK(t)'
      BY <3>19, <1>2, <3>15 DEF At, Returning, AfterEvict, ThreadOK, PlaceOK, LocalsOK, LeadOK,
         VacantOK, InstalledOK, ExactOK, EvictorOK, LatchOK
    <3>18. ViewsKept(t)
      BY <3>19, <1>2, <3>15 DEF At, Returning, AfterEvict, ViewsKept, OwnedBy, ReservedBy,
         PinnedBy, ThreadOK, PlaceOK
    <3> QED
      BY <1>2, <3>15, <3>16, <3>17, <3>18, QuietKeeps DEF Returning, AfterEvict, Quiet, TypedOver
  <2> QED
    BY <2>1, <2>2
<1>4. CASE EvictBusy(t)
  <2>15. Returning(t, D, AfterEvict(t, "busy"))
    BY <1>4, <1>1, EvictionReturnsGoes DEF EvictBusy, At
  <2>1. th[t].ticket \in CoolingTicket
    BY <1>2, <1>4 DEF EvictBusy, At, ThreadOK, LocalsOK
  <2>2. Append(cooling, th[t].ticket) \in Seq(CoolingTicket)
    BY <1>2, <2>1 DEF SharedOver
  <2>16. SharedOver(D)' /\ Calm
    BY <1>2, <1>4, <2>2 DEF EvictBusy, PushUnique, SharedOver, Calm, FramesKept, SwipsKept
  <2>19. At(t, "ev_claim") /\ UNCHANGED <<swip, pages, next_pid, frames, leader>>
    BY <1>4 DEF EvictBusy, At
  <2>17. ThreadOK(t)'
    BY <2>19, <1>2, <2>15 DEF At, Returning, AfterEvict, ThreadOK, PlaceOK, LocalsOK, LeadOK,
       VacantOK, InstalledOK, ExactOK, EvictorOK, LatchOK
  <2>18. ViewsKept(t)
    BY <2>19, <1>2, <2>15 DEF At, Returning, AfterEvict, ViewsKept, OwnedBy, ReservedBy, PinnedBy,
       ThreadOK, PlaceOK
  <2> QED
    BY <1>2, <2>15, <2>16, <2>17, <2>18, QuietKeeps DEF Returning, AfterEvict, Quiet, TypedOver
<1>5. CASE EvictWrite(t)
  <2>1. PICK s \in Slots : /\ slots' = [slots EXCEPT ![s] = frames[th[t].ticket.frame].data]
                           /\ th' = [th EXCEPT ![t].pc = "ev_publish", ![t].new = s]
    BY <1>5 DEF EvictWrite
  <2>2. th[t].ticket.frame \in Frames
    BY <1>2, <1>5 DEF EvictWrite, At, ThreadOK, LocalsOK, CoolingTicket
  <2>3. frames[th[t].ticket.frame].data \in D
    BY <1>2, <2>2 DEF SharedOver, FrameOver
  <2>4. CASE TRUE
    <3> DEFINE l == [th[t] EXCEPT !.pc = "ev_publish", !.new = s]
    <3>10. {"ev_publish"} \subseteq Places
      BY DEF Places
    <3>12. l \in LocalsOver(D)
      BY <1>2, <3>10 DEF LocalsOver
    <3>13. th' = [th EXCEPT ![t] = l]
      BY <2>4, <1>5, <2>1, <1>1, <1>2 DEF EvictWrite, At, TypedOver, LocalsOver
    <3>14. /\ l.pc = "ev_publish" /\ l.op = th[t].op /\ l.page = th[t].page
          /\ l.frame = th[t].frame /\ l.ticket = th[t].ticket
      BY <2>4, <1>5, <2>1, <1>2 DEF EvictWrite, At, LocalsOver
    <3> HIDE DEF l
    <3>15. th' \in [Threads -> LocalsOver(D)] /\ Moves(t) /\ th'[t] = l
      BY <1>1, <3>12, <3>13, Becomes
    <3>19. At(t, "ev_write") /\ UNCHANGED <<swip, pages, next_pid, frames, leader>>
      BY <2>4, <1>5, <2>1 DEF EvictWrite, At
    <3>16. SharedOver(D)' /\ Calm
      BY <2>4, <1>5, <2>1, <1>2, <2>3 DEF EvictWrite, At, SharedOver, Calm, FramesKept, SwipsKept
    <3>17. ThreadOK(t)'
      BY <3>19, <1>2, <3>14, <3>15 DEF At, ThreadOK, PlaceOK, LocalsOK, LeadOK, VacantOK,
         InstalledOK, ExactOK, EvictorOK, LatchOK
    <3>18. ViewsKept(t)
      BY <3>19, <1>2, <3>14, <3>15 DEF At, ViewsKept, OwnedBy, ReservedBy, PinnedBy, ThreadOK,
         PlaceOK
    <3> QED
      BY <1>2, <3>15, <3>16, <3>17, <3>18, QuietKeeps DEF Quiet, TypedOver
  <2> QED
    BY <2>4
<1>6. CASE EvictPublish(t)
  <2>1. th[t].ticket.pid \in Pages /\ th[t].ticket.frame \in Frames
    BY <1>2, <1>6 DEF EvictPublish, At, ThreadOK, LocalsOK, CoolingTicket
  <2> DEFINE r == [frames[th[t].ticket.frame] EXCEPT !.dirty = FALSE]
  <2>30. frames \in [Frames -> FrameOver(D)]
    BY <1>2 DEF SharedOver, FrameOver
  <2>31. th[t].ticket.frame \in Frames
    BY <1>6, <1>2 DEF EvictPublish, At, ThreadOK, LocalsOK, CoolingTicket
  <2>32. r \in FrameOver(D)
    BY <2>30, <2>31, <1>2 DEF FrameOver
  <2>33. frames' = [frames EXCEPT ![th[t].ticket.frame] = r]
    BY <1>6 DEF EvictPublish, At
  <2>34. /\ r.pid = frames[th[t].ticket.frame].pid /\ r.pin = frames[th[t].ticket.frame].pin
        /\ r.writer = frames[th[t].ticket.frame].writer /\ r.readers = frames[th[t].ticket.frame].readers
    BY <2>30, <2>31 DEF FrameOver
  <2> HIDE DEF r
  <2>35. frames' \in [Frames -> FrameOver(D)] /\ FramesKept
    BY <2>30, <2>31, <2>32, <2>33, <2>34, FrameSet
  <2>6. directory' \in [Pages -> Slots \cup {None}]
    BY <1>2, <1>6, <2>1 DEF EvictPublish, SharedOver, LocalsOver
  <2>2. /\ frames' \in [Frames -> FrameOver(D)] /\ FramesKept
        /\ directory' \in [Pages -> Slots \cup {None}]
    BY <2>35, <2>6
  <2>3. CASE TRUE
    <3>15. Going(t, D, "ev_unswizzle")
      BY <2>3, <1>6, <1>1, GotoGoes DEF EvictPublish, At, Places
    <3>19. At(t, "ev_publish") /\ UNCHANGED <<swip, pages, next_pid, leader>>
      BY <2>3, <1>6 DEF EvictPublish, At
    <3>16. SharedOver(D)' /\ Calm
      BY <2>3, <1>6, <1>2, <2>2 DEF EvictPublish, At, SharedOver, Calm, FramesKept, SwipsKept
    <3>17. ThreadOK(t)'
      BY <3>19, <1>2, <3>15, <2>1, <2>2 DEF At, Going, ThreadOK, PlaceOK, LocalsOK, LeadOK,
         VacantOK, InstalledOK, ExactOK, EvictorOK, LatchOK, FramesKept
    <3>18. ViewsKept(t)
      BY <3>19, <1>2, <3>15, <2>1, <2>2 DEF At, Going, ViewsKept, OwnedBy, ReservedBy, PinnedBy,
         ThreadOK, PlaceOK
    <3> QED
      BY <1>2, <3>15, <3>16, <3>17, <3>18, QuietKeeps DEF Going, Quiet, TypedOver
  <2> QED
    BY <2>3
<1>7. CASE EvictMarker(t)
  <2>15. Going(t, D, "ev_unlatch")
    BY <1>7, <1>1, GotoGoes DEF EvictMarker, ConsumePrefetched, At, Places
  <2>19. At(t, "ev_marker") /\ UNCHANGED <<swip, pages, next_pid, frames, leader>>
    BY <1>7 DEF EvictMarker, ConsumePrefetched, At
  <2>16. SharedOver(D)' /\ Calm
    BY <1>7, <1>2 DEF EvictMarker, ConsumePrefetched, At, SharedOver, Calm, FramesKept, SwipsKept
  <2>17. ThreadOK(t)'
    BY <2>19, <1>2, <2>15 DEF At, Going, ThreadOK, PlaceOK, LocalsOK, LeadOK, VacantOK,
       InstalledOK, ExactOK, EvictorOK, LatchOK
  <2>18. ViewsKept(t)
    BY <2>19, <1>2, <2>15 DEF At, Going, ViewsKept, OwnedBy, ReservedBy, PinnedBy, ThreadOK,
       PlaceOK
  <2> QED
    BY <1>2, <2>15, <2>16, <2>17, <2>18, QuietKeeps DEF Going, Quiet, TypedOver
<1>8. CASE EvictFreeOld(t)
  <2>15. Returning(t, D, AfterEvict(t, "freed"))
    BY <1>8, <1>1, EvictionReturnsGoes DEF EvictFreeOld, At
  <2>19. At(t, "ev_free") /\ UNCHANGED <<swip, pages, next_pid, frames, leader>>
    BY <1>8 DEF EvictFreeOld, At
  <2>16. SharedOver(D)' /\ Calm
    BY <1>8, <1>2 DEF EvictFreeOld, At, SharedOver, Calm, FramesKept, SwipsKept, LocalsOver
  <2>17. ThreadOK(t)'
    BY <2>19, <1>2, <2>15 DEF At, Returning, AfterEvict, ThreadOK, PlaceOK, LocalsOK, LeadOK,
       VacantOK, InstalledOK, ExactOK, EvictorOK, LatchOK
  <2>18. ViewsKept(t)
    BY <2>19, <1>2, <2>15 DEF At, Returning, AfterEvict, ViewsKept, OwnedBy, ReservedBy, PinnedBy,
       ThreadOK, PlaceOK
  <2> QED
    BY <1>2, <2>15, <2>16, <2>17, <2>18, QuietKeeps DEF Returning, AfterEvict, Quiet, TypedOver
<1> QED
  BY <1>3, <1>4, <1>5, <1>6, <1>7, <1>8

(***************************************************************************)
(* An eviction claims a frame that nobody has pinned, and releases it.     *)
(***************************************************************************)
LEMMA ReservationKeeps ==
    ASSUME IInv, NEW t \in Threads,
           \/ EvictClaim(t) \/ EvictUnreserve(t) \/ EvictRelease(t)
    PROVE  IInv'
<1> USE DEF FixOps, FillPlaces, UndoPlaces, AcquirePlaces, EvictPlaces, EvictReserved, TaskPlaces,
            Fixing, GuardPlaces, Unreserved, Reserved, Published, EvictDetached,
            pageVars, queues, tiers, prefetchVars
<1>1. PICK D : TypedOver(D)
  BY DEF IInv
<1>2. th[t] \in LocalsOver(D) /\ SharedOver(D) /\ Values \subseteq D /\ ThreadOK(t)
  BY <1>1 DEF IInv, TypedOver
<1>3. CASE EvictClaim(t)
  <2>19. At(t, "ev_claim") /\ UNCHANGED <<swip, pages, next_pid, leader>>
    BY <1>3 DEF EvictClaim, Claim, CanClaim, At
  <2>10. th[t].ticket.frame \in Frames
    BY <1>2, <2>19 DEF At, LocalsOK, ThreadOK, CoolingTicket
  <2>15. Going(t, D, "ev_latch")
    BY <1>3, <1>1, <2>10, GotoGoes DEF EvictClaim, Claim, CanClaim, At, Places
  <2>9. frames' = [frames EXCEPT ![th[t].ticket.frame].pin = EVICTING]
    BY <1>3 DEF EvictClaim, Claim, CanClaim, At
  <2>8. EVICTING \in Int
    BY <1>2, <2>10 DEF EVICTING, SharedOver, FrameOver
  <2>20. /\ frames' \in [Frames -> FrameOver(D)] /\ OnlyPin(th[t].ticket.frame)
        /\ frames'[th[t].ticket.frame].pin = EVICTING
    BY <1>2, <2>8, <2>9, <2>10, PinSet
  <2>16. SharedOver(D)' /\ Rest
    BY <1>3, <1>2, <2>20 DEF EvictClaim, Claim, CanClaim, At, SharedOver, Rest
  <2>18. ReservedBy(th[t]) = {} /\ ReservedBy(th'[t]) = {th[t].ticket.frame} /\ PinnedBy(th'[t]) = PinnedBy(th[t])
    BY <1>2, <2>10, <2>15, <2>19 DEF At, Going, OwnedBy, ReservedBy, PinnedBy, ThreadOK, PlaceOK
  <2>11. OwnedBy(th'[t]) = OwnedBy(th[t]) /\ NoNewPage(t)
    BY <1>2, <2>10, <2>15, <2>19 DEF At, Going, NoNewPage, OwnedBy, ReservedBy, PinnedBy,
       ThreadOK, PlaceOK
  <2>12. (\A g \in Frames : PinOK(g))'
    BY <1>3, <2>10, <2>15, <2>16, <2>18, <2>20, ClaimPins DEF EvictClaim, Claim, CanClaim, At,
       Going, Rest, OnlyPin, PinnersKept, ReserversKept
  <2>17. ThreadOK(t)'
    BY <1>2, <2>10, <2>15, <2>19, <2>20 DEF At, OnlyPin, Going, ThreadOK, PlaceOK, LocalsOK,
       LeadOK, VacantOK, InstalledOK, ExactOK, EvictorOK, LatchOK
  <2> QED
    BY <1>2, <2>10, <2>11, <2>12, <2>15, <2>16, <2>17, <2>20, PinStepKeeps DEF Going, OwnersKept,
       TypedOver
<1>4. CASE EvictRelease(t)
  <2>19. At(t, "ev_release") /\ UNCHANGED <<swip, pages, next_pid, leader>>
    BY <1>4 DEF EvictRelease, Release, At
  <2>10. th[t].ticket.frame \in Frames
    BY <1>2, <2>19 DEF At, LocalsOK, ThreadOK, CoolingTicket
  <2>15. Going(t, D, "ev_push")
    BY <1>4, <1>1, <2>10, GotoGoes DEF EvictRelease, Release, At, Places
  <2>9. frames' = [frames EXCEPT ![th[t].ticket.frame].pin = 0]
    BY <1>4 DEF EvictRelease, Release, At
  <2>8. 0 \in Int
    BY <1>2, <2>10 DEF EVICTING, SharedOver, FrameOver
  <2>20. /\ frames' \in [Frames -> FrameOver(D)] /\ OnlyPin(th[t].ticket.frame)
        /\ frames'[th[t].ticket.frame].pin = 0
    BY <1>2, <2>8, <2>9, <2>10, PinSet
  <2>16. SharedOver(D)' /\ Rest
    BY <1>4, <1>2, <2>20 DEF EvictRelease, Release, At, SharedOver, Rest
  <2>18. ReservedBy(th[t]) = {th[t].ticket.frame} /\ ReservedBy(th'[t]) = {} /\ PinnedBy(th'[t]) = PinnedBy(th[t])
    BY <1>2, <2>10, <2>15, <2>19 DEF At, Going, OwnedBy, ReservedBy, PinnedBy, ThreadOK, PlaceOK
  <2>11. OwnedBy(th'[t]) = OwnedBy(th[t]) /\ NoNewPage(t)
    BY <1>2, <2>10, <2>15, <2>19 DEF At, Going, NoNewPage, OwnedBy, ReservedBy, PinnedBy,
       ThreadOK, PlaceOK
  <2>12. (\A g \in Frames : PinOK(g))'
    BY <2>10, <2>15, <2>16, <2>18, <2>20, ReleasePins DEF Going, Rest, OnlyPin, PinnersKept,
       ReserversKept
  <2>17. ThreadOK(t)'
    BY <1>2, <2>10, <2>15, <2>19, <2>20 DEF At, OnlyPin, Going, ThreadOK, PlaceOK, LocalsOK,
       LeadOK, VacantOK, InstalledOK, ExactOK, EvictorOK, LatchOK
  <2> QED
    BY <1>2, <2>10, <2>11, <2>12, <2>15, <2>16, <2>17, <2>20, PinStepKeeps DEF Going, OwnersKept,
       TypedOver
<1>5. CASE EvictUnreserve(t)
  <2>19. At(t, "ev_unreserve") /\ UNCHANGED <<swip, pages, next_pid, leader>>
    BY <1>5 DEF EvictUnreserve, Release, At
  <2>10. th[t].ticket.frame \in Frames
    BY <1>2, <2>19 DEF At, LocalsOK, ThreadOK, CoolingTicket
  <2>13. AfterEvict(t, th[t].result) \in Places
    BY DEF AfterEvict, Places
  <2> DEFINE to == AfterEvict(t, th[t].result)
             l == [th[t] EXCEPT !.pc = to, !.result = None, !.ticket = None, !.old = None, !.new = None]
  <2>14. l \in LocalsOver(D)
    BY <1>2, <2>13 DEF LocalsOver
  <2>21. th' = [th EXCEPT ![t] = l]
    BY <1>5 DEF EvictUnreserve
  <2>22. /\ l.pc = to /\ l.op = th[t].op /\ l.page = th[t].page /\ l.frame = th[t].frame
         /\ l.ticket = None
    BY <1>2 DEF LocalsOver
  <2> HIDE DEF l
  <2>15. Returning(t, D, to)
    BY <1>1, <2>14, <2>21, <2>22, Becomes DEF Returning
  <2>9. frames' = [frames EXCEPT ![th[t].ticket.frame].pin = 0]
    BY <1>5 DEF EvictUnreserve, Release, At
  <2>8. 0 \in Int
    BY <1>2, <2>10 DEF EVICTING, SharedOver, FrameOver
  <2>20. /\ frames' \in [Frames -> FrameOver(D)] /\ OnlyPin(th[t].ticket.frame)
        /\ frames'[th[t].ticket.frame].pin = 0
    BY <1>2, <2>8, <2>9, <2>10, PinSet
  <2>16. SharedOver(D)' /\ Rest
    BY <1>5, <1>2, <2>20 DEF EvictUnreserve, Release, At, SharedOver, Rest
  <2>18. ReservedBy(th[t]) = {th[t].ticket.frame} /\ ReservedBy(th'[t]) = {} /\ PinnedBy(th'[t]) = PinnedBy(th[t])
    BY <1>2, <2>10, <2>15, <2>19 DEF At, Returning, AfterEvict, OwnedBy, ReservedBy, PinnedBy,
       ThreadOK, PlaceOK
  <2>11. OwnedBy(th'[t]) = OwnedBy(th[t]) /\ NoNewPage(t)
    BY <1>2, <2>10, <2>15, <2>19 DEF At, Returning, AfterEvict, NoNewPage, OwnedBy, ReservedBy,
       PinnedBy, ThreadOK, PlaceOK
  <2>12. (\A g \in Frames : PinOK(g))'
    BY <2>10, <2>15, <2>16, <2>18, <2>20, ReleasePins DEF Returning, AfterEvict, Rest, OnlyPin,
       PinnersKept, ReserversKept
  <2>17. ThreadOK(t)'
    BY <1>2, <2>10, <2>15, <2>19, <2>20 DEF At, OnlyPin, Returning, AfterEvict, ThreadOK, PlaceOK,
       LocalsOK, LeadOK, VacantOK, InstalledOK, ExactOK, EvictorOK, LatchOK
  <2> QED
    BY <1>2, <2>10, <2>11, <2>12, <2>15, <2>16, <2>17, <2>20, PinStepKeeps DEF Returning,
       AfterEvict, OwnersKept, TypedOver
<1> QED
  BY <1>3, <1>4, <1>5

(***************************************************************************)
(* An evictor takes the latch of the frame it has reserved, and leaves it. *)
(***************************************************************************)
LEMMA EvictionLatchKeeps ==
    ASSUME IInv, NEW t \in Threads,
           \/ EvictLatch(t) \/ EvictAbort(t) \/ EvictUnlatch(t)
    PROVE  IInv'
<1> USE DEF FixOps, FillPlaces, UndoPlaces, AcquirePlaces, EvictPlaces, EvictReserved, TaskPlaces,
            Fixing, GuardPlaces, Unreserved, Reserved, Published, EvictDetached,
            pageVars, queues, tiers, prefetchVars
<1>1. PICK D : TypedOver(D)
  BY DEF IInv
<1>2. th[t] \in LocalsOver(D) /\ SharedOver(D) /\ Values \subseteq D /\ ThreadOK(t)
  BY <1>1 DEF IInv, TypedOver
<1>3. CASE EvictLatch(t)
  <2>19. At(t, "ev_latch") /\ UNCHANGED <<swip, pages, next_pid, leader>>
    BY <1>3 DEF EvictLatch, At
  <2>10. th[t].ticket.frame \in Frames
    BY <1>2, <2>19 DEF At, LocalsOK, ThreadOK, CoolingTicket
  <2>15. Going(t, D, "ev_recheck")
    BY <1>3, <1>1, GotoGoes DEF EvictLatch, At, Places
  <2>20. frames' \in [Frames -> FrameOver(D)] /\ OnlyLatch(t) /\ frames'[th[t].ticket.frame].writer = t
    BY <1>3, <1>2, <2>10, LockExclusiveSet DEF EvictLatch, At
  <2>16. SharedOver(D)' /\ Rest
    BY <1>3, <1>2, <2>20 DEF EvictLatch, At, SharedOver, Rest
  <2>17. ThreadOK(t)'
    BY <1>2, <2>10, <2>15, <2>19, <2>20 DEF At, OnlyLatch, Going, ThreadOK, PlaceOK, LocalsOK,
       LeadOK, VacantOK, InstalledOK, ExactOK, EvictorOK, LatchOK
  <2>18. ViewsKept(t)
    BY <1>2, <2>15, <2>19 DEF At, Going, ViewsKept, OwnedBy, ReservedBy, PinnedBy, ThreadOK,
       PlaceOK
  <2> QED
    BY <1>2, <2>15, <2>16, <2>17, <2>18, <2>20, LatchStepKeeps DEF Going, TypedOver
<1>4. CASE EvictAbort(t)
  <2>19. At(t, "ev_abort") /\ UNCHANGED <<swip, pages, next_pid, leader>>
    BY <1>4 DEF EvictAbort, At
  <2>10. th[t].ticket.frame \in Frames
    BY <1>2, <2>19 DEF At, LocalsOK, ThreadOK, CoolingTicket
  <2>15. Going(t, D, "ev_unreserve")
    BY <1>4, <1>1, GotoGoes DEF EvictAbort, At, Places
  <2>20. frames' \in [Frames -> FrameOver(D)] /\ OnlyLatch(t)
    BY <1>4, <1>2, <2>10, UnlockSet DEF EvictAbort, At
  <2>16. SharedOver(D)' /\ Rest
    BY <1>4, <1>2, <2>20 DEF EvictAbort, At, SharedOver, Rest
  <2>17. ThreadOK(t)'
    BY <1>2, <2>10, <2>15, <2>19, <2>20 DEF At, OnlyLatch, Going, ThreadOK, PlaceOK, LocalsOK,
       LeadOK, VacantOK, InstalledOK, ExactOK, EvictorOK, LatchOK
  <2>18. ViewsKept(t)
    BY <1>2, <2>15, <2>19 DEF At, Going, ViewsKept, OwnedBy, ReservedBy, PinnedBy, ThreadOK,
       PlaceOK
  <2> QED
    BY <1>2, <2>15, <2>16, <2>17, <2>18, <2>20, LatchStepKeeps DEF Going, TypedOver
<1>5. CASE EvictUnlatch(t)
  <2>19. At(t, "ev_unlatch") /\ UNCHANGED <<swip, pages, next_pid, leader>>
    BY <1>5 DEF EvictUnlatch, At
  <2>10. th[t].ticket.frame \in Frames
    BY <1>2, <2>19 DEF At, LocalsOK, ThreadOK, CoolingTicket
  <2>15. Going(t, D, "ev_clear")
    BY <1>5, <1>1, GotoGoes DEF EvictUnlatch, At, Places
  <2>20. frames' \in [Frames -> FrameOver(D)] /\ OnlyLatch(t)
    BY <1>5, <1>2, <2>10, UnlockSet DEF EvictUnlatch, At
  <2>16. SharedOver(D)' /\ Rest
    BY <1>5, <1>2, <2>20 DEF EvictUnlatch, At, SharedOver, Rest
  <2>17. ThreadOK(t)'
    BY <1>2, <2>10, <2>15, <2>19, <2>20 DEF At, OnlyLatch, Going, ThreadOK, PlaceOK, LocalsOK,
       LeadOK, VacantOK, InstalledOK, ExactOK, EvictorOK, LatchOK
  <2>18. ViewsKept(t)
    BY <1>2, <2>15, <2>19 DEF At, Going, ViewsKept, OwnedBy, ReservedBy, PinnedBy, ThreadOK,
       PlaceOK
  <2> QED
    BY <1>2, <2>15, <2>16, <2>17, <2>18, <2>20, LatchStepKeeps DEF Going, TypedOver
<1> QED
  BY <1>3, <1>4, <1>5

(***************************************************************************)
(* Under reservation and latch the ticket is looked at again; giving up    *)
(* resurrects its page.                                                    *)
(***************************************************************************)
LEMMA RecheckKeeps ==
    ASSUME IInv, NEW t \in Threads,
           \/ EvictRecheck(t) \/ EvictWriteFails(t)
    PROVE  IInv'
<1> USE DEF FixOps, FillPlaces, UndoPlaces, AcquirePlaces, EvictPlaces, EvictReserved, TaskPlaces,
            Fixing, GuardPlaces, Unreserved, Reserved, Published, EvictDetached,
            pageVars, queues, tiers, prefetchVars
<1>1. PICK D : TypedOver(D)
  BY DEF IInv
<1>2. th[t] \in LocalsOver(D) /\ SharedOver(D) /\ Values \subseteq D /\ ThreadOK(t)
  BY <1>1 DEF IInv, TypedOver
<1>3. CASE EvictRecheck(t)
  <2> DEFINE k == th[t].ticket
             to == IF frames[k.frame].dirty \/ directory[k.pid] = None THEN "ev_write" ELSE "ev_publish"
  <2>1. k \in CoolingTicket
    BY <1>2, <1>3 DEF EvictRecheck, At, ThreadOK, LocalsOK
  <2>2. to \in {"ev_write", "ev_publish"}
    OBVIOUS
  <2> HIDE DEF to
  <2>3. CASE ExactCoolingOwner(k)
    <3> DEFINE l == [th[t] EXCEPT !.old = directory[k.pid], !.pc = to]
    <3>10. {"ev_write", "ev_publish"} \subseteq Places
      BY DEF Places
    <3>11. directory[k.pid] \in Slots \cup {None} /\ to \in {"ev_write", "ev_publish"}
      BY <2>3, <1>3, <2>1, <1>2, <2>2 DEF EvictRecheck, At, to, SharedOver, LocalsOver,
         CoolingTicket
    <3>12. l \in LocalsOver(D)
      BY <1>2, <3>10, <3>11 DEF LocalsOver
    <3>13. th' = [th EXCEPT ![t] = l]
      BY <2>3, <1>3, <2>1, <1>1, <1>2 DEF EvictRecheck, At, to, TypedOver, LocalsOver
    <3>14. /\ l.pc = to /\ l.op = th[t].op /\ l.page = th[t].page
          /\ l.frame = th[t].frame /\ l.ticket = th[t].ticket
      BY <2>3, <1>3, <2>1, <1>2 DEF EvictRecheck, At, to, LocalsOver
    <3> HIDE DEF l
    <3>15. th' \in [Threads -> LocalsOver(D)] /\ Moves(t) /\ th'[t] = l
      BY <1>1, <3>12, <3>13, Becomes
    <3>20. swip[k.pid] = Cooling(k.frame)
      BY <2>3 DEF ExactCoolingOwner
    <3>19. At(t, "ev_recheck") /\ UNCHANGED <<swip, pages, next_pid, frames, leader>>
      BY <2>3, <1>3, <2>1 DEF EvictRecheck, At, to
    <3>16. SharedOver(D)' /\ Calm
      BY <2>3, <1>3, <2>1, <1>2 DEF EvictRecheck, At, to, SharedOver, Calm, FramesKept, SwipsKept
    <3>17. ThreadOK(t)'
      BY <3>19, <1>2, <3>14, <3>15, <2>2, <3>20 DEF At, ThreadOK, PlaceOK, LocalsOK, LeadOK,
         VacantOK, InstalledOK, ExactOK, EvictorOK, LatchOK
    <3>18. ViewsKept(t)
      BY <3>19, <1>2, <3>14, <3>15, <2>2, <3>20 DEF At, ViewsKept, OwnedBy, ReservedBy, PinnedBy,
         ThreadOK, PlaceOK
    <3> QED
      BY <1>2, <3>15, <3>16, <3>17, <3>18, QuietKeeps DEF Quiet, TypedOver
  <2>4. CASE ~ExactCoolingOwner(k)
    <3> DEFINE l == [th[t] EXCEPT !.pc = "ev_abort", !.result = "stale"]
    <3>10. {"ev_abort"} \subseteq Places
      BY DEF Places
    <3>12. l \in LocalsOver(D)
      BY <1>2, <3>10 DEF LocalsOver
    <3>13. th' = [th EXCEPT ![t] = l]
      BY <2>4, <1>3, <1>1, <1>2 DEF EvictRecheck, At, TypedOver, LocalsOver
    <3>14. /\ l.pc = "ev_abort" /\ l.op = th[t].op /\ l.page = th[t].page
          /\ l.frame = th[t].frame /\ l.ticket = th[t].ticket
      BY <2>4, <1>3, <1>2 DEF EvictRecheck, At, LocalsOver
    <3> HIDE DEF l
    <3>15. th' \in [Threads -> LocalsOver(D)] /\ Moves(t) /\ th'[t] = l
      BY <1>1, <3>12, <3>13, Becomes
    <3>1. TryResurrect(k.pid, k.frame) \/ UNCHANGED swip
      BY <1>3, <2>4 DEF EvictRecheck
    <3>2. CASE TryResurrect(k.pid, k.frame)
      <4>19. At(t, "ev_recheck") /\ UNCHANGED <<pages, next_pid, frames, leader>>
        BY <1>3, <2>4 DEF EvictRecheck, At
      <4>20. k.pid \in Pages /\ k.frame \in Frames
        BY <1>2, <4>19 DEF At, SharedOver, LocalsOK, ThreadOK, CoolingTicket
      <4>21. k.frame \in ReservedBy(th[t]) \/ k.frame \in PinnedBy(th[t])
        BY <4>19, <4>20 DEF At, ReservedBy, PinnedBy
      <4>22. /\ swip' \in [Pages -> SwipStates] /\ HomesKept
            /\ \A u \in Threads \ {t} : EvictorOK(u)'
        BY <1>3, <2>4, <1>2, <3>14, <3>15, <3>2, <4>20, <4>21, ResurrectSpares DEF EvictRecheck,
           At
      <4>16. SharedOver(D)' /\ Waking
        BY <1>3, <2>4, <1>2, <4>22 DEF EvictRecheck, At, SharedOver, Waking, FramesKept
      <4>23. th[t].op \in FixOps /\ swip[th[t].page] = Evicted => swip'[th[t].page] = Evicted
        BY <1>2, <3>14, <3>15, <4>16, <4>22, SwipsStay, Needs DEF TypedOver, Backed
      <4>17. ThreadOK(t)'
        BY <1>2, <4>19, <3>14, <3>15, <4>23 DEF At, ThreadOK, PlaceOK, LocalsOK, LeadOK, VacantOK,
           InstalledOK, ExactOK, EvictorOK, LatchOK
      <4>18. ViewsKept(t)
        BY <1>2, <4>19, <3>14, <3>15 DEF At, ViewsKept, OwnedBy, ReservedBy, PinnedBy, ThreadOK,
           PlaceOK
      <4> QED
        BY <1>2, <3>14, <3>15, <4>16, <4>17, <4>18, <4>22, WakingKeeps DEF TypedOver
    <3>3. CASE UNCHANGED swip
      <4>19. At(t, "ev_recheck") /\ UNCHANGED <<swip, pages, next_pid, frames, leader>>
        BY <1>3, <2>4, <3>3 DEF EvictRecheck, At
      <4>16. SharedOver(D)' /\ Calm
        BY <1>3, <2>4, <3>3, <1>2 DEF EvictRecheck, At, SharedOver, Calm, FramesKept, SwipsKept
      <4>17. ThreadOK(t)'
        BY <4>19, <1>2, <3>14, <3>15 DEF At, ThreadOK, PlaceOK, LocalsOK, LeadOK, VacantOK,
           InstalledOK, ExactOK, EvictorOK, LatchOK
      <4>18. ViewsKept(t)
        BY <4>19, <1>2, <3>14, <3>15 DEF At, ViewsKept, OwnedBy, ReservedBy, PinnedBy, ThreadOK,
           PlaceOK
      <4> QED
        BY <1>2, <3>15, <4>16, <4>17, <4>18, QuietKeeps DEF Quiet, TypedOver
    <3> QED
      BY <3>1, <3>2, <3>3
  <2> QED
    BY <2>3, <2>4
<1>4. CASE EvictWriteFails(t)
  <2> DEFINE l == [th[t] EXCEPT !.pc = "ev_abort", !.result = "error"]
  <2>10. {"ev_abort"} \subseteq Places
    BY DEF Places
  <2>12. l \in LocalsOver(D)
    BY <1>2, <2>10 DEF LocalsOver
  <2>13. th' = [th EXCEPT ![t] = l]
    BY <1>4, <1>1, <1>2 DEF EvictWriteFails, At, TypedOver, LocalsOver
  <2>14. /\ l.pc = "ev_abort" /\ l.op = th[t].op /\ l.page = th[t].page
        /\ l.frame = th[t].frame /\ l.ticket = th[t].ticket
    BY <1>4, <1>2 DEF EvictWriteFails, At, LocalsOver
  <2> HIDE DEF l
  <2>15. th' \in [Threads -> LocalsOver(D)] /\ Moves(t) /\ th'[t] = l
    BY <1>1, <2>12, <2>13, Becomes
  <2>19. At(t, "ev_write") /\ UNCHANGED <<pages, next_pid, frames, leader>>
    BY <1>4 DEF EvictWriteFails, At
  <2>20. th[t].ticket.pid \in Pages /\ th[t].ticket.frame \in Frames
    BY <1>2, <2>19 DEF At, SharedOver, LocalsOK, ThreadOK, CoolingTicket
  <2>21. th[t].ticket.frame \in ReservedBy(th[t]) \/ th[t].ticket.frame \in PinnedBy(th[t])
    BY <2>19, <2>20 DEF At, ReservedBy, PinnedBy
  <2>22. /\ swip' \in [Pages -> SwipStates] /\ HomesKept
        /\ \A u \in Threads \ {t} : EvictorOK(u)'
    BY <1>4, <1>2, <2>14, <2>15, <2>20, <2>21, ResurrectSpares DEF EvictWriteFails, At
  <2>16. SharedOver(D)' /\ Waking
    BY <1>4, <1>2, <2>22 DEF EvictWriteFails, At, SharedOver, Waking, FramesKept
  <2>23. th[t].op \in FixOps /\ swip[th[t].page] = Evicted => swip'[th[t].page] = Evicted
    BY <1>2, <2>14, <2>15, <2>16, <2>22, SwipsStay, Needs DEF TypedOver, Backed
  <2>17. ThreadOK(t)'
    BY <1>2, <2>19, <2>14, <2>15, <2>23 DEF At, ThreadOK, PlaceOK, LocalsOK, LeadOK, VacantOK,
       InstalledOK, ExactOK, EvictorOK, LatchOK
  <2>18. ViewsKept(t)
    BY <1>2, <2>19, <2>14, <2>15 DEF At, ViewsKept, OwnedBy, ReservedBy, PinnedBy, ThreadOK,
       PlaceOK
  <2> QED
    BY <1>2, <2>14, <2>15, <2>16, <2>17, <2>18, <2>22, WakingKeeps DEF TypedOver
<1> QED
  BY <1>3, <1>4

(***************************************************************************)
(* The emptied frame goes back to the free queue.                          *)
(***************************************************************************)
LEMMA EvictPushKeeps ==
    ASSUME IInv, NEW t \in Threads,
           EvictPush(t)
    PROVE  IInv'
<1> USE DEF FixOps, FillPlaces, UndoPlaces, AcquirePlaces, EvictPlaces, EvictReserved, TaskPlaces,
            Fixing, GuardPlaces, Unreserved, Reserved, Published, EvictDetached,
            pageVars, queues, tiers, prefetchVars
<1>1. PICK D : TypedOver(D)
  BY DEF IInv
<1>2. th[t] \in LocalsOver(D) /\ SharedOver(D) /\ Values \subseteq D /\ ThreadOK(t)
  BY <1>1 DEF IInv, TypedOver
<1>3. At(t, "ev_push") /\ UNCHANGED <<swip, pages, next_pid, frames, leader, channel>>
  BY DEF EvictPush, At
<1> DEFINE f == th[t].ticket.frame
<1>4. f \in Frames
  BY <1>2, <1>3 DEF At, ThreadOK, LocalsOK, CoolingTicket
<1>5. Going(t, D, "ev_free")
  BY <1>1, GotoGoes DEF EvictPush, Places
<1>6. PushFree(f) /\ free' \in Seq(Frames)
  BY <1>2, <1>4 DEF EvictPush, PushFree, SharedOver
<1>7. SharedOver(D)'
  BY <1>2, <1>6 DEF EvictPush, SharedOver
<1>8. OwnedBy(th[t]) = {f} /\ OwnedBy(th'[t]) = {}
  BY <1>2, <1>3, <1>4, <1>5 DEF At, Going, OwnedBy, ThreadOK, PlaceOK
<1>9. ReservedBy(th'[t]) = ReservedBy(th[t]) /\ PinnedBy(th'[t]) = PinnedBy(th[t]) /\ NoNewPage(t)
  BY <1>2, <1>3, <1>5 DEF At, Going, ReservedBy, PinnedBy, NoNewPage, ThreadOK, PlaceOK
<1>10. (\E E : TypedOver(E))' /\ Moves(t) /\ HomesKept
  BY <1>2, <1>3, <1>5, <1>7 DEF Going, TypedOver, HomesKept
<1>11. ThreadOK(t)'
  BY <1>2, <1>3, <1>5 DEF At, Going, ThreadOK, PlaceOK, LocalsOK, LeadOK, VacantOK, InstalledOK, ExactOK, EvictorOK, LatchOK
<1> HIDE DEF f
<1>12. (\A g \in Frames : InOnePlace(g))'
  BY <1>3, <1>4, <1>6, <1>8, <1>10, PushPlaces
<1>13. (\A g \in Frames : PinOK(g))'
  BY <1>3, <1>9, <1>10, PinsStay DEF ReserversKept, PinnersKept
<1>14. LatchExcludes'
  BY <1>3 DEF IInv, LatchExcludes
<1>15. Orderly(t)
  BY <1>3, <1>9, <1>10, TicketStays
     DEF Orderly, FreshKept, NoNewPage, PidsKept, LatchesKept, SwipsKept, Moves, IInv, FreshOK
<1> QED
  BY <1>10, <1>11, <1>12, <1>13, <1>14, <1>15, OrderlyKeeps

(***************************************************************************)
(* try_unswizzle takes the page out of the frame its evictor has reserved: *)
(* nobody holds a guard of it or another ticket for it.                    *)
(***************************************************************************)
LEMMA UnswizzleKeeps ==
    ASSUME IInv, NEW t \in Threads,
           EvictUnswizzle(t)
    PROVE  IInv'
<1> USE DEF FixOps, FillPlaces, UndoPlaces, AcquirePlaces, EvictPlaces, EvictReserved, TaskPlaces,
            Fixing, GuardPlaces, Unreserved, Reserved, Published, EvictDetached,
            pageVars, queues, tiers, prefetchVars
<1>1. PICK D : TypedOver(D)
  BY DEF IInv
<1>2. th[t] \in LocalsOver(D) /\ SharedOver(D) /\ Values \subseteq D /\ ThreadOK(t)
  BY <1>1 DEF IInv, TypedOver
<1> DEFINE f == th[t].ticket.frame
           p == th[t].ticket.pid
<1>3. /\ At(t, "ev_unswizzle") /\ UNCHANGED <<pages, next_pid, frames, free, leader, channel>>
      /\ swip[p] = Cooling(f) /\ swip' = [swip EXCEPT ![p] = Evicted]
  BY DEF EvictUnswizzle, SetSwip, At
<1>4. f \in Frames /\ p \in Pages
  BY <1>2, <1>3 DEF At, ThreadOK, LocalsOK, CoolingTicket
<1>5. Going(t, D, "ev_marker")
  BY <1>1, GotoGoes DEF EvictUnswizzle, Places
<1>6. swip \in [Pages -> SwipStates] /\ swip' \in [Pages -> SwipStates]
  BY <1>2, <1>3 DEF SharedOver, SwipStates
<1>7. SharedOver(D)'
  BY <1>2, <1>6 DEF EvictUnswizzle, SharedOver
<1>8. /\ OwnedBy(th[t]) = {} /\ OwnedBy(th'[t]) = {f} /\ ReservedBy(th[t]) = {f}
      /\ ReservedBy(th'[t]) = {f} /\ PinnedBy(th'[t]) = PinnedBy(th[t]) /\ NoNewPage(t)
  BY <1>2, <1>3, <1>4, <1>5
     DEF At, Going, OwnedBy, ReservedBy, PinnedBy, NoNewPage, ThreadOK, PlaceOK
<1>9. (\E E : TypedOver(E))' /\ Moves(t)
  BY <1>2, <1>5, <1>7 DEF Going, TypedOver
<1>10. /\ \A q \in Pages \ {p} : swip'[q] = swip[q]
       /\ swip'[p] = Evicted
       /\ \A g \in Frames : ResidentAt(p, g) <=> g = f
       /\ \A g \in Frames, q \in Pages : ResidentAt(q, g)' <=> q # p /\ ResidentAt(q, g)
  BY <1>3, <1>4, <1>6, PoolAssumption DEF ResidentAt, Hot, Cooling, Evicted, SwipStates
<1> HIDE DEF f, p
<1>11. ThreadOK(t)'
  BY <1>2, <1>3, <1>5, <1>6, <1>10 DEF At, Going, SharedOver, ThreadOK, PlaceOK, LocalsOK, LeadOK, VacantOK, InstalledOK, ExactOK, EvictorOK, LatchOK, p, f
<1>12. ASSUME NEW u \in Threads \ {t} PROVE ThreadOK(u)'
  <2>1. th'[u] = th[u] /\ Backed(u) /\ ThreadOK(u)
    BY <1>9, Needs DEF Moves, IInv
  <2>2. f \notin ReservedBy(th[u]) /\ f \notin PinnedBy(th[u])
    BY <1>4, <1>8, Alone
  <2>3. PlaceOK(u)' /\ LocalsOK(u)' /\ LeadOK(u)' /\ InstalledOK(u)' /\ LatchOK(u)'
    BY <1>3, <2>1, LocalsStay, FrameStays, LatchStays DEF PidsKept, LatchesKept
  <2>4. VacantOK(u)'
    BY <1>10, <2>1 DEF VacantOK, Backed, ThreadOK
  <2>5. ExactOK(u)'
    BY <1>10, <2>1, <2>2 DEF ExactOK, Backed, ThreadOK, PinnedBy
  <2>6. EvictorOK(u)'
    <3> SUFFICES ASSUME th[u].pc \in {"ev_write", "ev_publish", "ev_unswizzle"}
                 PROVE  swip'[th[u].ticket.pid] = Cooling(th[u].ticket.frame)
      BY <2>1 DEF EvictorOK
    <3>1. /\ th[u].ticket.pid \in Pages /\ th[u].ticket.frame \in Frames
          /\ swip[th[u].ticket.pid] = Cooling(th[u].ticket.frame)
      BY <2>1 DEF Backed, ThreadOK, EvictorOK
    <3>2. th[u].ticket.frame # f
      BY <2>2, <3>1 DEF ReservedBy
    <3>3. th[u].ticket.pid # p
      BY <1>3, <3>1, <3>2 DEF Cooling, p, f
    <3> QED
      BY <1>10, <3>1, <3>3
  <2> QED
    BY <2>3, <2>4, <2>5, <2>6 DEF ThreadOK
<1>13. ASSUME NEW g \in Frames PROVE InOnePlace(g)'
  <2>1. FreeAt(g)' = FreeAt(g) /\ TasksWith(g)' = TasksWith(g) /\ InOnePlace(g)
    BY <1>3 DEF FreeAt, TasksWith, IInv
  <2>2. CASE g = f
    <3>1. p \in Occupants(g)
      BY <1>4, <1>10, <2>2 DEF Occupants
    <3>2. Occupants(g) = {p} /\ Owners(g) = {} /\ FreeAt(g) = {} /\ TasksWith(g) = {}
      BY <2>1, <3>1 DEF InOnePlace, Single
    <3>3. Occupants(g)' = {}
      BY <1>10, <3>2 DEF Occupants
    <3>4. Owners(g)' = {t}
      BY <1>8, <1>9, <2>2, <3>2, ViewsMove
    <3> QED
      BY <2>1, <3>2, <3>3, <3>4 DEF InOnePlace, Single
  <2>3. CASE g # f
    <3>1. Owners(g)' = Owners(g)
      BY <1>8, <1>9, <2>3, ViewsSame
    <3>2. Occupants(g)' = Occupants(g)
      BY <1>10, <2>3 DEF Occupants
    <3> QED
      BY <2>1, <3>1, <3>2 DEF InOnePlace
  <2> QED
    BY <2>2, <2>3
<1>14. (\A g \in Frames : PinOK(g))'
  BY <1>3, <1>8, <1>9, PinsStay DEF ReserversKept, PinnersKept
<1>15. OccupantOK'
  BY <1>3, <1>10 DEF IInv, OccupantOK
<1>16. FreshOK'
  <2>1. \A u, v \in Threads :
            th'[u].op = "alloc" /\ th'[v].op = "alloc" /\ th'[u].page = th'[v].page
                /\ th'[u].page # None => u = v
    BY <1>8, <1>9 DEF NoNewPage, Moves, IInv, FreshOK
  <2> QED
    BY <1>3, <1>10, <2>1 DEF IInv, FreshOK
<1>17. LatchExcludes'
  BY <1>3 DEF IInv, LatchExcludes
<1> QED
  BY <1>9, <1>11, <1>12, <1>13, <1>14, <1>15, <1>16, <1>17 DEF IInv

(***************************************************************************)
(* clear_after_eviction empties the metadata of a frame that only the      *)
(* evictor owns.                                                           *)
(***************************************************************************)
LEMMA ClearKeeps ==
    ASSUME IInv, NEW t \in Threads,
           EvictClear(t)
    PROVE  IInv'
<1> USE DEF FixOps, FillPlaces, UndoPlaces, AcquirePlaces, EvictPlaces, EvictReserved, TaskPlaces,
            Fixing, GuardPlaces, Unreserved, Reserved, Published, EvictDetached,
            pageVars, queues, tiers, prefetchVars
<1>1. PICK D : TypedOver(D)
  BY DEF IInv
<1>2. th[t] \in LocalsOver(D) /\ SharedOver(D) /\ Values \subseteq D /\ ThreadOK(t)
  BY <1>1 DEF IInv, TypedOver
<1> DEFINE f == th[t].ticket.frame
<1>3. At(t, "ev_clear") /\ UNCHANGED <<swip, pages, next_pid, free, leader, channel>>
  BY DEF EvictClear, At
<1>4. f \in Frames
  BY <1>2, <1>3 DEF At, ThreadOK, LocalsOK, CoolingTicket
<1>5. Going(t, D, "ev_release")
  BY <1>1, GotoGoes DEF EvictClear, Places
<1> DEFINE r == [frames[f] EXCEPT !.pid = None, !.dirty = FALSE, !.snaps = {}]
<1>6. frames \in [Frames -> FrameOver(D)] /\ frames' = [frames EXCEPT ![f] = r]
  BY <1>2 DEF EvictClear, SharedOver
<1>7. r \in FrameOver(D)
  BY <1>4, <1>6 DEF FrameOver
<1>8. r.pin = frames[f].pin /\ r.writer = frames[f].writer /\ r.readers = frames[f].readers
  BY <1>4, <1>6 DEF FrameOver
<1> HIDE DEF r
<1>9. /\ frames' \in [Frames -> FrameOver(D)]
      /\ \A g \in Frames :
             /\ frames'[g].pin = frames[g].pin /\ frames'[g].writer = frames[g].writer
             /\ frames'[g].readers = frames[g].readers
      /\ \A g \in Frames \ {f} : frames'[g] = frames[g]
  BY <1>4, <1>6, <1>7, <1>8
<1>10. SharedOver(D)'
  BY <1>2, <1>9 DEF EvictClear, SharedOver
<1>11. (\E E : TypedOver(E))' /\ Moves(t) /\ HomesKept /\ SwipsKept
  BY <1>2, <1>3, <1>5, <1>10 DEF Going, TypedOver, HomesKept, SwipsKept
<1>12. /\ OwnedBy(th[t]) = {f} /\ OwnedBy(th'[t]) = OwnedBy(th[t])
       /\ ReservedBy(th'[t]) = ReservedBy(th[t])
       /\ PinnedBy(th'[t]) = PinnedBy(th[t]) /\ NoNewPage(t)
  BY <1>2, <1>3, <1>4, <1>5
     DEF At, Going, OwnedBy, ReservedBy, PinnedBy, NoNewPage, ThreadOK, PlaceOK
<1>13. ThreadOK(t)'
  BY <1>2, <1>3, <1>5 DEF At, Going, ThreadOK, PlaceOK, LocalsOK, LeadOK, VacantOK, InstalledOK, ExactOK, EvictorOK, LatchOK
<1> HIDE DEF f
<1>14. ASSUME NEW u \in Threads \ {t} PROVE ThreadOK(u)'
  <2>1. th'[u] = th[u] /\ Backed(u) /\ InstalledOK(u)
    BY <1>11, Needs DEF Moves, IInv, ThreadOK
  <2>2. LatchesKept(u)
    BY <1>9 DEF LatchesKept
  <2>3. PlaceOK(u)' /\ LocalsOK(u)' /\ LeadOK(u)' /\ VacantOK(u)' /\ ExactOK(u)' /\ EvictorOK(u)' /\ LatchOK(u)'
    BY <1>3, <1>11, <2>1, <2>2, LocalsStay, PageStays, TicketStays, LatchStays
  <2>4. f \notin OwnedBy(th[u])
    BY <1>4, <1>12, Sole
  <2>5. InstalledOK(u)'
    BY <1>9, <2>1, <2>4 DEF InstalledOK, Backed, OwnedBy
  <2> QED
    BY <2>3, <2>5 DEF ThreadOK
<1>15. (\A g \in Frames : InOnePlace(g))'
  BY <1>3, <1>11, <1>12, PlaceStays DEF OwnersKept
<1>16. (\A g \in Frames : PinOK(g))'
  BY <1>3, <1>9, <1>11, <1>12, PinsStay DEF ReserversKept, PinnersKept
<1>17. OccupantOK'
  <2> SUFFICES ASSUME NEW q \in Pages, NEW g \in Frames, ResidentAt(q, g)' PROVE frames'[g].pid = q
    BY DEF OccupantOK
  <2>1. ResidentAt(q, g)
    BY <1>3 DEF ResidentAt
  <2>2. g # f
    BY <1>12, <2>1, Sole
  <2> QED
    BY <1>9, <2>1, <2>2 DEF IInv, OccupantOK
<1>18. FreshOK'
  BY <1>3, <1>11, <1>12, FreshStays DEF FreshKept, NoNewPage, IInv, FreshOK
<1>19. LatchExcludes'
  BY <1>9 DEF IInv, LatchExcludes
<1> QED
  BY <1>11, <1>13, <1>14, <1>15, <1>16, <1>17, <1>18, <1>19 DEF IInv

(***************************************************************************)
(* Looking for a frame, round by round, moves none until one is popped.    *)
(***************************************************************************)
LEMMA RoundsKeep ==
    ASSUME IInv, NEW t \in Threads,
           \/ AcquireStops(t) \/ AcquireStarts(t) \/ AcquireSamples(t)
           \/ AcquireMisses(t) \/ TakeTicket(t) \/ EndRound(t)
    PROVE  IInv'
<1> USE DEF FixOps, FillPlaces, UndoPlaces, AcquirePlaces, EvictPlaces, EvictReserved, TaskPlaces,
            Fixing, GuardPlaces, Unreserved, Reserved, Published, EvictDetached,
            pageVars, queues, tiers, prefetchVars
<1>1. PICK D : TypedOver(D)
  BY DEF IInv
<1>2. th[t] \in LocalsOver(D) /\ SharedOver(D) /\ Values \subseteq D /\ ThreadOK(t)
  BY <1>1 DEF IInv, TypedOver
<1>3. CASE AcquireStops(t)
  <2>1. CASE th[t].op = "alloc"
    <3>15. Gone(t, D) /\ ThreadOK(t)'
      BY <2>1, <1>3, <1>1, LeaveGoes DEF AcquireStops, FailAcquire, At
    <3>16. SharedOver(D)' /\ Calm
      BY <2>1, <1>3, <1>2 DEF AcquireStops, FailAcquire, At, SharedOver, Calm, FramesKept,
         SwipsKept
    <3>17. OwnedBy(th[t]) = {} /\ ReservedBy(th[t]) = {} /\ PinnedBy(th[t]) = {}
      BY <2>1, <1>3, <1>2 DEF AcquireStops, FailAcquire, At, OwnedBy, ReservedBy, PinnedBy,
         ThreadOK, PlaceOK
    <3> QED
      BY <1>1, <3>15, <3>16, <3>17, LeaveKeeps
  <2>2. CASE th[t].op # "alloc"
    <3> DEFINE l == [th[t] EXCEPT !.pc = "land", !.result = "error", !.left = 0, !.rounds = 0]
    <3>10. {"land"} \subseteq Places
      BY DEF Places
    <3>11. 0 \in 0 .. MaxRounds
      BY <2>2, <1>3, <1>2, PoolAssumption DEF AcquireStops, FailAcquire, At, SharedOver,
         LocalsOver
    <3>12. l \in LocalsOver(D)
      BY <1>2, <3>10, <3>11 DEF LocalsOver
    <3>13. th' = [th EXCEPT ![t] = l]
      BY <2>2, <1>3, <1>1, <1>2 DEF AcquireStops, FailAcquire, At, TypedOver, LocalsOver
    <3>14. /\ l.pc = "land" /\ l.op = th[t].op /\ l.page = th[t].page
          /\ l.frame = th[t].frame /\ l.ticket = th[t].ticket
      BY <2>2, <1>3, <1>2 DEF AcquireStops, FailAcquire, At, LocalsOver
    <3> HIDE DEF l
    <3>15. th' \in [Threads -> LocalsOver(D)] /\ Moves(t) /\ th'[t] = l
      BY <1>1, <3>12, <3>13, Becomes
    <3>19. th[t].pc \in {"acquire", "round"} /\ UNCHANGED <<swip, pages, next_pid, frames, leader>>
      BY <2>2, <1>3 DEF AcquireStops, FailAcquire, At
    <3>16. SharedOver(D)' /\ Calm
      BY <2>2, <1>3, <1>2 DEF AcquireStops, FailAcquire, At, SharedOver, Calm, FramesKept,
         SwipsKept
    <3>17. ThreadOK(t)'
      BY <3>19, <1>2, <3>14, <3>15, <2>2 DEF At, ThreadOK, PlaceOK, LocalsOK, LeadOK, VacantOK,
         InstalledOK, ExactOK, EvictorOK, LatchOK
    <3>18. ViewsKept(t)
      BY <3>19, <1>2, <3>14, <3>15, <2>2, <2>2 DEF At, ViewsKept, OwnedBy, ReservedBy, PinnedBy,
         ThreadOK, PlaceOK
    <3> QED
      BY <1>2, <3>15, <3>16, <3>17, <3>18, QuietKeeps DEF Quiet, TypedOver
  <2> QED
    BY <2>1, <2>2
<1>4. CASE AcquireStarts(t)
  <2> DEFINE l == [th[t] EXCEPT !.pc = "round", !.rounds = MaxRounds]
  <2>10. {"round"} \subseteq Places
    BY DEF Places
  <2>11. MaxRounds \in 0 .. MaxRounds
    BY <1>4, <1>2, PoolAssumption DEF AcquireStarts, At, SharedOver, LocalsOver
  <2>12. l \in LocalsOver(D)
    BY <1>2, <2>10, <2>11 DEF LocalsOver
  <2>13. th' = [th EXCEPT ![t] = l]
    BY <1>4, <1>1, <1>2 DEF AcquireStarts, At, TypedOver, LocalsOver
  <2>14. /\ l.pc = "round" /\ l.op = th[t].op /\ l.page = th[t].page
        /\ l.frame = th[t].frame /\ l.ticket = th[t].ticket
    BY <1>4, <1>2 DEF AcquireStarts, At, LocalsOver
  <2> HIDE DEF l
  <2>15. th' \in [Threads -> LocalsOver(D)] /\ Moves(t) /\ th'[t] = l
    BY <1>1, <2>12, <2>13, Becomes
  <2>19. At(t, "acquire") /\ UNCHANGED <<swip, pages, next_pid, frames, leader>>
    BY <1>4 DEF AcquireStarts, At
  <2>16. SharedOver(D)' /\ Calm
    BY <1>4, <1>2 DEF AcquireStarts, At, SharedOver, Calm, FramesKept, SwipsKept
  <2>17. ThreadOK(t)'
    BY <2>19, <1>2, <2>14, <2>15 DEF At, ThreadOK, PlaceOK, LocalsOK, LeadOK, VacantOK,
       InstalledOK, ExactOK, EvictorOK, LatchOK
  <2>18. ViewsKept(t)
    BY <2>19, <1>2, <2>14, <2>15 DEF At, ViewsKept, OwnedBy, ReservedBy, PinnedBy, ThreadOK,
       PlaceOK
  <2> QED
    BY <1>2, <2>15, <2>16, <2>17, <2>18, QuietKeeps DEF Quiet, TypedOver
<1>5. CASE AcquireSamples(t)
  <2> DEFINE l == [th[t] EXCEPT !.pc = "sample", !.cand = ColdCandidates, !.want = Max(Len(cooling) + 1, CoolingTarget)]
  <2>10. {"sample"} \subseteq Places
    BY DEF Places
  <2>11. Max(Len(cooling) + 1, CoolingTarget) \in Nat /\ ColdCandidates \in SUBSET Frames
    BY <1>5, <1>2, WantOK DEF AcquireSamples, At, SharedOver, LocalsOver
  <2>12. l \in LocalsOver(D)
    BY <1>2, <2>10, <2>11 DEF LocalsOver
  <2>13. th' = [th EXCEPT ![t] = l]
    BY <1>5, <1>1, <1>2 DEF AcquireSamples, At, TypedOver, LocalsOver
  <2>14. /\ l.pc = "sample" /\ l.op = th[t].op /\ l.page = th[t].page
        /\ l.frame = th[t].frame /\ l.ticket = th[t].ticket
    BY <1>5, <1>2 DEF AcquireSamples, At, LocalsOver
  <2> HIDE DEF l
  <2>15. th' \in [Threads -> LocalsOver(D)] /\ Moves(t) /\ th'[t] = l
    BY <1>1, <2>12, <2>13, Becomes
  <2>19. At(t, "round") /\ UNCHANGED <<swip, pages, next_pid, frames, leader>>
    BY <1>5 DEF AcquireSamples, At
  <2>16. SharedOver(D)' /\ Calm
    BY <1>5, <1>2 DEF AcquireSamples, At, SharedOver, Calm, FramesKept, SwipsKept
  <2>17. ThreadOK(t)'
    BY <2>19, <1>2, <2>14, <2>15 DEF At, ThreadOK, PlaceOK, LocalsOK, LeadOK, VacantOK,
       InstalledOK, ExactOK, EvictorOK, LatchOK
  <2>18. ViewsKept(t)
    BY <2>19, <1>2, <2>14, <2>15 DEF At, ViewsKept, OwnedBy, ReservedBy, PinnedBy, ThreadOK,
       PlaceOK
  <2> QED
    BY <1>2, <2>15, <2>16, <2>17, <2>18, QuietKeeps DEF Quiet, TypedOver
<1>6. CASE AcquireMisses(t)
  <2>15. Going(t, D, "take")
    BY <1>6, <1>1, GotoGoes DEF AcquireMisses, At, Places
  <2>19. At(t, "freed") /\ UNCHANGED <<swip, pages, next_pid, frames, leader>>
    BY <1>6 DEF AcquireMisses, At
  <2>16. SharedOver(D)' /\ Calm
    BY <1>6, <1>2 DEF AcquireMisses, At, SharedOver, Calm, FramesKept, SwipsKept
  <2>17. ThreadOK(t)'
    BY <2>19, <1>2, <2>15 DEF At, Going, ThreadOK, PlaceOK, LocalsOK, LeadOK, VacantOK,
       InstalledOK, ExactOK, EvictorOK, LatchOK
  <2>18. ViewsKept(t)
    BY <2>19, <1>2, <2>15 DEF At, Going, ViewsKept, OwnedBy, ReservedBy, PinnedBy, ThreadOK,
       PlaceOK
  <2> QED
    BY <1>2, <2>15, <2>16, <2>17, <2>18, QuietKeeps DEF Going, Quiet, TypedOver
<1>7. CASE TakeTicket(t)
  <2> DEFINE l == [th[t] EXCEPT !.pc = "ev_check", !.left = @ - 1, !.ticket = Head(cooling)]
  <2>10. {"ev_check"} \subseteq Places
    BY DEF Places
  <2>11. Head(cooling) \in CoolingTicket /\ Tail(cooling) \in Seq(CoolingTicket) /\ th[t].left - 1 \in Nat
    BY <1>7, <1>2 DEF TakeTicket, At, SharedOver, LocalsOver
  <2>12. l \in LocalsOver(D)
    BY <1>2, <2>10, <2>11 DEF LocalsOver
  <2>13. th' = [th EXCEPT ![t] = l]
    BY <1>7, <1>1, <1>2 DEF TakeTicket, At, TypedOver, LocalsOver
  <2>14. /\ l.pc = "ev_check" /\ l.op = th[t].op /\ l.page = th[t].page
        /\ l.frame = th[t].frame /\ l.ticket = Head(cooling)
    BY <1>7, <1>2 DEF TakeTicket, At, LocalsOver
  <2> HIDE DEF l
  <2>15. th' \in [Threads -> LocalsOver(D)] /\ Moves(t) /\ th'[t] = l
    BY <1>1, <2>12, <2>13, Becomes
  <2>19. At(t, "take") /\ UNCHANGED <<swip, pages, next_pid, frames, leader>>
    BY <1>7 DEF TakeTicket, At
  <2>16. SharedOver(D)' /\ Calm
    BY <1>7, <1>2, <2>11 DEF TakeTicket, At, SharedOver, Calm, FramesKept, SwipsKept
  <2>17. ThreadOK(t)'
    BY <2>19, <1>2, <2>14, <2>15, <2>11 DEF At, ThreadOK, PlaceOK, LocalsOK, LeadOK, VacantOK,
       InstalledOK, ExactOK, EvictorOK, LatchOK
  <2>18. ViewsKept(t)
    BY <2>19, <1>2, <2>14, <2>15, <2>11 DEF At, ViewsKept, OwnedBy, ReservedBy, PinnedBy,
       ThreadOK, PlaceOK
  <2> QED
    BY <1>2, <2>15, <2>16, <2>17, <2>18, QuietKeeps DEF Quiet, TypedOver
<1>8. CASE EndRound(t)
  <2>1. CASE th[t].op = "cool"
    <3>15. Gone(t, D) /\ ThreadOK(t)'
      BY <2>1, <1>8, <1>1, LeaveGoes DEF EndRound, FailAcquire, Leave, At
    <3>16. SharedOver(D)' /\ Calm
      BY <2>1, <1>8, <1>2 DEF EndRound, FailAcquire, Leave, At, SharedOver, Calm, FramesKept,
         SwipsKept
    <3>17. OwnedBy(th[t]) = {} /\ ReservedBy(th[t]) = {} /\ PinnedBy(th[t]) = {}
      BY <2>1, <1>8, <1>2 DEF EndRound, FailAcquire, Leave, At, OwnedBy, ReservedBy, PinnedBy,
         ThreadOK, PlaceOK
    <3> QED
      BY <1>1, <3>15, <3>16, <3>17, LeaveKeeps
  <2>2. CASE th[t].op # "cool" /\ th[t].rounds > 1
    <3>1. MaxRounds \in Nat
      BY PoolAssumption
    <3>2. th[t].rounds \in 0 .. MaxRounds
      BY <1>2 DEF LocalsOver
    <3>3. th[t].rounds - 1 \in 0 .. MaxRounds
      BY <2>2, <3>1, <3>2
    <3> DEFINE l == [th[t] EXCEPT !.pc = "round", !.rounds = @ - 1, !.left = 0]
    <3>10. {"round"} \subseteq Places
      BY DEF Places
    <3>11. th[t].rounds - 1 \in 0 .. MaxRounds
      BY <2>2, <1>8, <1>2, <3>3 DEF EndRound, FailAcquire, At, SharedOver, LocalsOver
    <3>12. l \in LocalsOver(D)
      BY <1>2, <3>10, <3>11 DEF LocalsOver
    <3>13. th' = [th EXCEPT ![t] = l]
      BY <2>2, <1>8, <1>1, <1>2 DEF EndRound, FailAcquire, At, TypedOver, LocalsOver
    <3>14. /\ l.pc = "round" /\ l.op = th[t].op /\ l.page = th[t].page
          /\ l.frame = th[t].frame /\ l.ticket = th[t].ticket
      BY <2>2, <1>8, <1>2 DEF EndRound, FailAcquire, At, LocalsOver
    <3> HIDE DEF l
    <3>15. th' \in [Threads -> LocalsOver(D)] /\ Moves(t) /\ th'[t] = l
      BY <1>1, <3>12, <3>13, Becomes
    <3>19. At(t, "take") /\ UNCHANGED <<swip, pages, next_pid, frames, leader>>
      BY <2>2, <1>8 DEF EndRound, FailAcquire, At
    <3>16. SharedOver(D)' /\ Calm
      BY <2>2, <1>8, <1>2 DEF EndRound, FailAcquire, At, SharedOver, Calm, FramesKept, SwipsKept
    <3>17. ThreadOK(t)'
      BY <3>19, <1>2, <3>14, <3>15, <2>2 DEF At, ThreadOK, PlaceOK, LocalsOK, LeadOK, VacantOK,
         InstalledOK, ExactOK, EvictorOK, LatchOK
    <3>18. ViewsKept(t)
      BY <3>19, <1>2, <3>14, <3>15, <2>2 DEF At, ViewsKept, OwnedBy, ReservedBy, PinnedBy,
         ThreadOK, PlaceOK
    <3> QED
      BY <1>2, <3>15, <3>16, <3>17, <3>18, QuietKeeps DEF Quiet, TypedOver
  <2>3. CASE th[t].op = "alloc" /\ ~(th[t].rounds > 1)
    <3>15. Gone(t, D) /\ ThreadOK(t)'
      BY <2>3, <1>8, <1>1, LeaveGoes DEF EndRound, FailAcquire, Leave, At
    <3>16. SharedOver(D)' /\ Calm
      BY <2>3, <1>8, <1>2 DEF EndRound, FailAcquire, Leave, At, SharedOver, Calm, FramesKept,
         SwipsKept
    <3>17. OwnedBy(th[t]) = {} /\ ReservedBy(th[t]) = {} /\ PinnedBy(th[t]) = {}
      BY <2>3, <1>8, <1>2 DEF EndRound, FailAcquire, Leave, At, OwnedBy, ReservedBy, PinnedBy,
         ThreadOK, PlaceOK
    <3> QED
      BY <1>1, <3>15, <3>16, <3>17, LeaveKeeps
  <2>4. CASE th[t].op \notin {"alloc", "cool"} /\ ~(th[t].rounds > 1)
    <3> DEFINE l == [th[t] EXCEPT !.pc = "land", !.result = "error", !.left = 0, !.rounds = 0]
    <3>10. {"land"} \subseteq Places
      BY DEF Places
    <3>11. 0 \in 0 .. MaxRounds
      BY <2>4, <1>8, <1>2, PoolAssumption DEF EndRound, FailAcquire, At, SharedOver, LocalsOver
    <3>12. l \in LocalsOver(D)
      BY <1>2, <3>10, <3>11 DEF LocalsOver
    <3>13. th' = [th EXCEPT ![t] = l]
      BY <2>4, <1>8, <1>1, <1>2 DEF EndRound, FailAcquire, At, TypedOver, LocalsOver
    <3>14. /\ l.pc = "land" /\ l.op = th[t].op /\ l.page = th[t].page
          /\ l.frame = th[t].frame /\ l.ticket = th[t].ticket
      BY <2>4, <1>8, <1>2 DEF EndRound, FailAcquire, At, LocalsOver
    <3> HIDE DEF l
    <3>15. th' \in [Threads -> LocalsOver(D)] /\ Moves(t) /\ th'[t] = l
      BY <1>1, <3>12, <3>13, Becomes
    <3>19. At(t, "take") /\ UNCHANGED <<swip, pages, next_pid, frames, leader>>
      BY <2>4, <1>8 DEF EndRound, FailAcquire, At
    <3>16. SharedOver(D)' /\ Calm
      BY <2>4, <1>8, <1>2 DEF EndRound, FailAcquire, At, SharedOver, Calm, FramesKept, SwipsKept
    <3>17. ThreadOK(t)'
      BY <3>19, <1>2, <3>14, <3>15, <2>4 DEF At, ThreadOK, PlaceOK, LocalsOK, LeadOK, VacantOK,
         InstalledOK, ExactOK, EvictorOK, LatchOK
    <3>18. ViewsKept(t)
      BY <3>19, <1>2, <3>14, <3>15, <2>4 DEF At, ViewsKept, OwnedBy, ReservedBy, PinnedBy,
         ThreadOK, PlaceOK
    <3> QED
      BY <1>2, <3>15, <3>16, <3>17, <3>18, QuietKeeps DEF Quiet, TypedOver
  <2> QED
    BY <2>1, <2>2, <2>3, <2>4
<1> QED
  BY <1>3, <1>4, <1>5, <1>6, <1>7, <1>8

(***************************************************************************)
(* Joining a flight, following it, and what a leader looks up before it    *)
(* fills a frame.                                                          *)
(***************************************************************************)
LEMMA FlightsKeep ==
    ASSUME IInv, NEW t \in Threads,
           \/ FaultStops(t) \/ FaultFollows(t) \/ FollowerReturns(t)
           \/ LeadStops(t) \/ LeadFindsResident(t) \/ LeadLooksUp(t)
           \/ FillFails(t) \/ PlaceMarker(t)
    PROVE  IInv'
<1> USE DEF FixOps, FillPlaces, UndoPlaces, AcquirePlaces, EvictPlaces, EvictReserved, TaskPlaces,
            Fixing, GuardPlaces, Unreserved, Reserved, Published, EvictDetached,
            pageVars, queues, tiers, prefetchVars
<1>1. PICK D : TypedOver(D)
  BY DEF IInv
<1>2. th[t] \in LocalsOver(D) /\ SharedOver(D) /\ Values \subseteq D /\ ThreadOK(t)
  BY <1>1 DEF IInv, TypedOver
<1>3. CASE FaultStops(t)
  <2>1. Outcome(t, D, AfterFault(t, "error"))
    BY <1>1, <1>2, <1>3, AfterFaultGoes DEF FaultStops, At, ThreadOK
  <2>2. SharedOver(D)' /\ Calm
    BY <1>2, <1>3 DEF FaultStops, SharedOver, Calm, FramesKept, SwipsKept
  <2> QED
    BY <1>1, <1>3, <2>1, <2>2, OutcomeKeeps DEF FaultStops, At
<1>4. CASE FollowerReturns(t)
  <2>1. Outcome(t, D, AfterFault(t, th[t].result))
    BY <1>1, <1>2, <1>4, AfterFaultGoes DEF FollowerReturns, At, ThreadOK
  <2>2. SharedOver(D)' /\ Calm
    BY <1>2, <1>4 DEF FollowerReturns, SharedOver, Calm, FramesKept, SwipsKept
  <2> QED
    BY <1>1, <1>4, <2>1, <2>2, OutcomeKeeps DEF FollowerReturns, At
<1>5. CASE FaultFollows(t)
  <2>15. Going(t, D, "follow")
    BY <1>5, <1>1, GotoGoes DEF FaultFollows, At, Places
  <2>19. At(t, "fault") /\ UNCHANGED <<swip, pages, next_pid, frames, leader>>
    BY <1>5 DEF FaultFollows, At
  <2>16. SharedOver(D)' /\ Calm
    BY <1>5, <1>2 DEF FaultFollows, At, SharedOver, Calm, FramesKept, SwipsKept
  <2>17. ThreadOK(t)'
    BY <2>19, <1>2, <2>15 DEF At, Going, ThreadOK, PlaceOK, LocalsOK, LeadOK, VacantOK,
       InstalledOK, ExactOK, EvictorOK, LatchOK
  <2>18. ViewsKept(t)
    BY <2>19, <1>2, <2>15 DEF At, Going, ViewsKept, OwnedBy, ReservedBy, PinnedBy, ThreadOK,
       PlaceOK
  <2> QED
    BY <1>2, <2>15, <2>16, <2>17, <2>18, QuietKeeps DEF Going, Quiet, TypedOver
<1>6. CASE LeadStops(t)
  <2> DEFINE l == [th[t] EXCEPT !.pc = "land", !.result = "error"]
  <2>10. {"land"} \subseteq Places
    BY DEF Places
  <2>12. l \in LocalsOver(D)
    BY <1>2, <2>10 DEF LocalsOver
  <2>13. th' = [th EXCEPT ![t] = l]
    BY <1>6, <1>1, <1>2 DEF LeadStops, At, TypedOver, LocalsOver
  <2>14. /\ l.pc = "land" /\ l.op = th[t].op /\ l.page = th[t].page
        /\ l.frame = th[t].frame /\ l.ticket = th[t].ticket
    BY <1>6, <1>2 DEF LeadStops, At, LocalsOver
  <2> HIDE DEF l
  <2>15. th' \in [Threads -> LocalsOver(D)] /\ Moves(t) /\ th'[t] = l
    BY <1>1, <2>12, <2>13, Becomes
  <2>19. At(t, "lead") /\ UNCHANGED <<swip, pages, next_pid, frames, leader>>
    BY <1>6 DEF LeadStops, At
  <2>16. SharedOver(D)' /\ Calm
    BY <1>6, <1>2 DEF LeadStops, At, SharedOver, Calm, FramesKept, SwipsKept
  <2>17. ThreadOK(t)'
    BY <2>19, <1>2, <2>14, <2>15 DEF At, ThreadOK, PlaceOK, LocalsOK, LeadOK, VacantOK,
       InstalledOK, ExactOK, EvictorOK, LatchOK
  <2>18. ViewsKept(t)
    BY <2>19, <1>2, <2>14, <2>15 DEF At, ViewsKept, OwnedBy, ReservedBy, PinnedBy, ThreadOK,
       PlaceOK
  <2> QED
    BY <1>2, <2>15, <2>16, <2>17, <2>18, QuietKeeps DEF Quiet, TypedOver
<1>7. CASE LeadFindsResident(t)
  <2> DEFINE l == [th[t] EXCEPT !.pc = "land", !.result = "ok"]
  <2>10. {"land"} \subseteq Places
    BY DEF Places
  <2>12. l \in LocalsOver(D)
    BY <1>2, <2>10 DEF LocalsOver
  <2>13. th' = [th EXCEPT ![t] = l]
    BY <1>7, <1>1, <1>2 DEF LeadFindsResident, At, TypedOver, LocalsOver
  <2>14. /\ l.pc = "land" /\ l.op = th[t].op /\ l.page = th[t].page
        /\ l.frame = th[t].frame /\ l.ticket = th[t].ticket
    BY <1>7, <1>2 DEF LeadFindsResident, At, LocalsOver
  <2> HIDE DEF l
  <2>15. th' \in [Threads -> LocalsOver(D)] /\ Moves(t) /\ th'[t] = l
    BY <1>1, <2>12, <2>13, Becomes
  <2>19. At(t, "lead") /\ UNCHANGED <<swip, pages, next_pid, frames, leader>>
    BY <1>7 DEF LeadFindsResident, At
  <2>16. SharedOver(D)' /\ Calm
    BY <1>7, <1>2 DEF LeadFindsResident, At, SharedOver, Calm, FramesKept, SwipsKept
  <2>17. ThreadOK(t)'
    BY <2>19, <1>2, <2>14, <2>15 DEF At, ThreadOK, PlaceOK, LocalsOK, LeadOK, VacantOK,
       InstalledOK, ExactOK, EvictorOK, LatchOK
  <2>18. ViewsKept(t)
    BY <2>19, <1>2, <2>14, <2>15 DEF At, ViewsKept, OwnedBy, ReservedBy, PinnedBy, ThreadOK,
       PlaceOK
  <2> QED
    BY <1>2, <2>15, <2>16, <2>17, <2>18, QuietKeeps DEF Quiet, TypedOver
<1>8. CASE LeadLooksUp(t)
  <2> DEFINE to == IF th[t].op = "prefetch" THEN "fill" ELSE "acquire"
  <2>1. th[t].page \in Pages
    BY <1>2, <1>8, Needs DEF LeadLooksUp, At, ThreadOK, PlaceOK, Backed, Operations, LocalsOver
  <2>2. to \in {"fill", "acquire"}
    OBVIOUS
  <2> HIDE DEF to
  <2> DEFINE l == [th[t] EXCEPT !.pc = to, !.src = directory[th[t].page]]
  <2>10. {"fill", "acquire"} \subseteq Places
    BY DEF Places
  <2>11. directory[th[t].page] \in Slots \cup {None} /\ to \in {"fill", "acquire"}
    BY <1>8, <1>2, <2>1, <2>2 DEF LeadLooksUp, At, to, SharedOver, LocalsOver
  <2>12. l \in LocalsOver(D)
    BY <1>2, <2>10, <2>11 DEF LocalsOver
  <2>13. th' = [th EXCEPT ![t] = l]
    BY <1>8, <1>1, <1>2 DEF LeadLooksUp, At, to, TypedOver, LocalsOver
  <2>14. /\ l.pc = to /\ l.op = th[t].op /\ l.page = th[t].page
        /\ l.frame = th[t].frame /\ l.ticket = th[t].ticket
    BY <1>8, <1>2 DEF LeadLooksUp, At, to, LocalsOver
  <2> HIDE DEF l
  <2>15. th' \in [Threads -> LocalsOver(D)] /\ Moves(t) /\ th'[t] = l
    BY <1>1, <2>12, <2>13, Becomes
  <2>9. swip[th[t].page] = Evicted
    BY <1>8 DEF LeadLooksUp
  <2>19. At(t, "lead") /\ UNCHANGED <<swip, pages, next_pid, frames, leader>>
    BY <1>8 DEF LeadLooksUp, At, to
  <2>16. SharedOver(D)' /\ Calm
    BY <1>8, <1>2 DEF LeadLooksUp, At, to, SharedOver, Calm, FramesKept, SwipsKept
  <2>17. ThreadOK(t)'
    BY <2>19, <1>2, <2>14, <2>15, <2>9, <2>2 DEF At, ThreadOK, PlaceOK, LocalsOK, LeadOK,
       VacantOK, InstalledOK, ExactOK, EvictorOK, LatchOK, to
  <2>18. ViewsKept(t)
    BY <2>19, <1>2, <2>14, <2>15, <2>9, <2>2 DEF At, ViewsKept, OwnedBy, ReservedBy, PinnedBy,
       ThreadOK, PlaceOK, to
  <2> QED
    BY <1>2, <2>15, <2>16, <2>17, <2>18, QuietKeeps DEF Quiet, TypedOver
<1>9. CASE FillFails(t)
  <2> DEFINE l == [th[t] EXCEPT !.pc = "undo_release", !.result = "error"]
  <2>10. {"undo_release"} \subseteq Places
    BY DEF Places
  <2>12. l \in LocalsOver(D)
    BY <1>2, <2>10 DEF LocalsOver
  <2>13. th' = [th EXCEPT ![t] = l]
    BY <1>9, <1>1, <1>2 DEF FillFails, At, TypedOver, LocalsOver
  <2>14. /\ l.pc = "undo_release" /\ l.op = th[t].op /\ l.page = th[t].page
        /\ l.frame = th[t].frame /\ l.ticket = th[t].ticket
    BY <1>9, <1>2 DEF FillFails, At, LocalsOver
  <2> HIDE DEF l
  <2>15. th' \in [Threads -> LocalsOver(D)] /\ Moves(t) /\ th'[t] = l
    BY <1>1, <2>12, <2>13, Becomes
  <2>9. th[t].op # "alloc"
    BY <1>9 DEF FillFails
  <2>19. At(t, "fill") /\ UNCHANGED <<swip, pages, next_pid, frames, leader>>
    BY <1>9 DEF FillFails, At
  <2>16. SharedOver(D)' /\ Calm
    BY <1>9, <1>2 DEF FillFails, At, SharedOver, Calm, FramesKept, SwipsKept
  <2>17. ThreadOK(t)'
    BY <2>19, <1>2, <2>14, <2>15, <2>9 DEF At, ThreadOK, PlaceOK, LocalsOK, LeadOK, VacantOK,
       InstalledOK, ExactOK, EvictorOK, LatchOK
  <2>18. ViewsKept(t)
    BY <2>19, <1>2, <2>14, <2>15, <2>9 DEF At, ViewsKept, OwnedBy, ReservedBy, PinnedBy, ThreadOK,
       PlaceOK
  <2> QED
    BY <1>2, <2>15, <2>16, <2>17, <2>18, QuietKeeps DEF Quiet, TypedOver
<1>10. CASE PlaceMarker(t)
  <2>15. Going(t, D, "swizzle")
    BY <1>10, <1>1, GotoGoes DEF PlaceMarker, At, Places
  <2>1. th[t].frame \in Frames /\ th[t].page \in Pages
    BY <1>2, <1>10, Needs DEF PlaceMarker, At, Backed
  <2>2. [frame |-> th[t].frame, generation |-> frames[th[t].frame].generation] \in PrefetchMarker
    BY <1>2, <2>1 DEF PrefetchMarker, SharedOver, FrameOver
  <2>16. SharedOver(D)' /\ Calm
    BY <1>2, <1>10, <2>1, <2>2 DEF PlaceMarker, SharedOver, Calm, FramesKept, SwipsKept
  <2>19. At(t, "marker") /\ UNCHANGED <<swip, pages, next_pid, frames, leader>>
    BY <1>10 DEF PlaceMarker, At
  <2>17. ThreadOK(t)'
    BY <2>19, <1>2, <2>15 DEF At, Going, ThreadOK, PlaceOK, LocalsOK, LeadOK, VacantOK,
       InstalledOK, ExactOK, EvictorOK, LatchOK
  <2>18. ViewsKept(t)
    BY <2>19, <1>2, <2>15 DEF At, Going, ViewsKept, OwnedBy, ReservedBy, PinnedBy, ThreadOK,
       PlaceOK
  <2> QED
    BY <1>2, <2>15, <2>16, <2>17, <2>18, QuietKeeps DEF Going, Quiet, TypedOver
<1> QED
  BY <1>3, <1>4, <1>5, <1>6, <1>7, <1>8, <1>9, <1>10
=============================================================================
