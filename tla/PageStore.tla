------------------------------- MODULE PageStore -------------------------------
(***************************************************************************)
(* What a BufferManager promises to its callers: a store of pages, each    *)
(* with one current value and a readers-writer guard.  There are no        *)
(* frames, tiers, evictions or faults here: moving a page between DRAM and *)
(* the lower tiers must not be visible.                                    *)
(***************************************************************************)
CONSTANTS PSThreads, PSPages, PSValues, Zero, NoValue, NoThread

VARIABLES value,    \* value[p]: the page's content, NoValue before allocation
          shared,   \* shared[p]: the threads holding a shared guard of p
          owner     \* owner[p]: the thread holding its exclusive guard

psVars == <<value, shared, owner>>

PSInit ==
    /\ value = [p \in PSPages |-> NoValue]
    /\ shared = [p \in PSPages |-> {}]
    /\ owner = [p \in PSPages |-> NoThread]

Create(p) ==
    /\ value[p] = NoValue
    /\ value' = [value EXCEPT ![p] = Zero]
    /\ UNCHANGED <<shared, owner>>

AcquireShared(t, p) ==
    /\ value[p] # NoValue
    /\ owner[p] = NoThread
    /\ t \notin shared[p]
    /\ shared' = [shared EXCEPT ![p] = @ \cup {t}]
    /\ UNCHANGED <<value, owner>>

AcquireExclusive(t, p) ==
    /\ value[p] # NoValue
    /\ owner[p] = NoThread
    /\ shared[p] = {}
    /\ owner' = [owner EXCEPT ![p] = t]
    /\ UNCHANGED <<value, shared>>

\* The only step that changes a page's value.
Write(t, p, v) ==
    /\ owner[p] = t
    /\ value' = [value EXCEPT ![p] = v]
    /\ UNCHANGED <<shared, owner>>

ReleaseShared(t, p) ==
    /\ t \in shared[p]
    /\ shared' = [shared EXCEPT ![p] = @ \ {t}]
    /\ UNCHANGED <<value, owner>>

ReleaseExclusive(t, p) ==
    /\ owner[p] = t
    /\ owner' = [owner EXCEPT ![p] = NoThread]
    /\ UNCHANGED <<value, shared>>

PSNext ==
    \E p \in PSPages :
        \/ Create(p)
        \/ \E t \in PSThreads :
              \/ AcquireShared(t, p) \/ AcquireExclusive(t, p)
              \/ ReleaseShared(t, p) \/ ReleaseExclusive(t, p)
              \/ \E v \in PSValues : Write(t, p, v)

PSSpec == PSInit /\ [][PSNext]_psVars
=============================================================================
