----------------------------- MODULE SlotStore -----------------------------
(***************************************************************************)
(* What a storage backend promises its callers (the contract of the trait  *)
(* TierBackend, src/crates/tierbuf/src/tier/mod.rs): a store of at most    *)
(* SlotCount pages.  write keeps a page in a slot nobody holds and refuses *)
(* a page for want of room only when every slot is held; read returns the  *)
(* page written last in a held slot; free gives the slot back.  Any        *)
(* operation may fail with an I/O error, which changes nothing.            *)
(***************************************************************************)
EXTENDS Naturals

CONSTANTS SlotCount,   \* capacity_bytes / PAGE_SIZE
          Data,        \* what a page can hold
          None         \* no page

VARIABLES stored,      \* slot -> the page it holds, or None
          result       \* what the latest operation returned

vars == <<stored, result>>

Slots == 0 .. SlotCount - 1

Init == /\ stored = [s \in Slots |-> None]
        /\ result = <<"none">>

Write(s, v) == /\ stored[s] = None
               /\ stored' = [stored EXCEPT ![s] = v]
               /\ result' = <<"written", s>>

StorageFull == /\ \A s \in Slots : stored[s] # None
               /\ result' = <<"err", "StorageFull">>
               /\ UNCHANGED stored

Read(s) == /\ stored[s] # None
           /\ result' = <<"page", s, stored[s]>>
           /\ UNCHANGED stored

NotFound(s) == /\ stored[s] = None
               /\ result' = <<"err", "NotFound">>
               /\ UNCHANGED stored

(* free has no result; freeing a slot nobody holds is a no-op.             *)
Free(s) == /\ stored' = [stored EXCEPT ![s] = None]
           /\ result' = <<"freed">>

(* A location that is no slot, or a buffer that is no page, is refused     *)
(* (by free, silently).                                                    *)
Invalid == /\ result' \in {<<"err", "InvalidInput">>, <<"freed">>}
           /\ UNCHANGED stored

IoError == /\ result' = <<"err", "Io">>
           /\ UNCHANGED stored

Next == \/ \E s \in Slots : \/ \E v \in Data : Write(s, v)
                            \/ Read(s) \/ NotFound(s) \/ Free(s)
        \/ StorageFull \/ Invalid \/ IoError

Spec == Init /\ [][Next]_vars
=============================================================================
