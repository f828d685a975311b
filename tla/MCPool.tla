-------------------------------- MODULE MCPool --------------------------------
(***************************************************************************)
(* Small pools for TLC.  A configuration chooses the threads and what they *)
(* run, the number of frames, pages and slots, and whether it starts from  *)
(* the empty pool or from a warm one: every page already allocated and     *)
(* evicted to a slot of its own, every frame free again.                   *)
(***************************************************************************)
EXTENDS PoolProperties, TLC

CONSTANTS a, b, c, w, s1, s2, s3

TwoSlots == {s1, s2}
ThreeSlots == {s1, s2, s3}
TwoSlotSymmetry == Permutations(TwoSlots)
ThreeSlotSymmetry == Permutations(ThreeSlots)

\* An allocating writer beside a reader that takes snapshots.
WriterReader == (a :> {"alloc", "exclusive"}) @@ (b :> {"optimistic"})
\* A caller that prefetches, the cooler and a prefetch worker.
Prefetching == (a :> {"shared", "submit"}) @@ (c :> {"cool"}) @@ (w :> {"prefetch"})

\* A caller, a prefetch worker and a thread that shuts the pool down.
Stopping == (a :> {"exclusive", "submit"}) @@ (b :> {"shutdown"}) @@ (w :> {"prefetch"})
\* Two callers, one writing, one reading, and a thread that shuts the pool
\* down.
StoppingCallers == (a :> {"exclusive"}) @@ (b :> {"shared"}) @@ (c :> {"shutdown"})

WarmInit ==
    /\ swip = [p \in Pages |-> Evicted]
    /\ pages = Pages
    /\ next_pid = MaxPid + 1
    /\ frames = [f \in Frames |-> EmptyFrame]
    /\ free = [i \in 1 .. FrameCount |-> i - 1]
    /\ cooling = <<>>
    /\ directory = CHOOSE d \in [Pages -> Slots] :
                       \A p, q \in Pages : d[p] = d[q] => p = q
    /\ slots = [s \in Slots |->
                  IF \E p \in Pages : directory[p] = s THEN 0 ELSE None]
    /\ leader = [p \in Pages |-> None]
    /\ prefetched = [p \in Pages |-> None]
    /\ pending = {}
    /\ channel = <<>>
    /\ stopping = FALSE
    /\ th = [t \in Threads |-> Idle]

WarmSpec == WarmInit /\ [][Next]_poolVars
WarmFairSpec == WarmSpec /\ Fairness /\ FlushFairness
=============================================================================
