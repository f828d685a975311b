----------------------------- MODULE FileTier ------------------------------
(***************************************************************************)
(* The file-backed tier (src/crates/tierbuf/src/tier/file.rs): one file    *)
(* split into page slots, a stack of freed slots that is used before the   *)
(* file grows into a slot never used, and an in-memory map of which slots  *)
(* are held.  Every operation holds the state mutex from its first look    *)
(* at the slots to its return, the file I/O included, so each is one step; *)
(* threads interleave between operations and may pass any location.        *)
(* Offsets count in units, PageUnits of them to a page, so that a location *)
(* can be misaligned or past the end.                                      *)
(***************************************************************************)
EXTENDS Integers, Sequences, FiniteSets, SequencesExt

CONSTANTS SlotCount,   \* capacity_bytes / PAGE_SIZE
          PageUnits,   \* PAGE_SIZE, in units of the offsets modelled
          Data,        \* what a caller's page can hold
          Zero,        \* the contents of a slot never written
          Torn,        \* what an interrupted write can leave in a slot
          None         \* no page (the abstract store)

ASSUME FileTierAssumption ==
    /\ SlotCount \in Nat \ {0}
    /\ PageUnits \in Nat \ {0}
    /\ Zero \notin Data /\ Torn \notin Data /\ None \notin Data

VARIABLES file,        \* slot -> its bytes in the backing file
          allocated,   \* SlotState::allocated
          free_slots,  \* SlotState::free_slots, the top of the stack last
          next_slot,   \* SlotState::next_slot
          used_slots,  \* SlotState::used_slots
          result       \* what the latest operation returned

slotState == <<allocated, free_slots, next_slot, used_slots>>
vars == <<file, allocated, free_slots, next_slot, used_slots, result>>

Slots == 0 .. SlotCount - 1
capacity == SlotCount * PageUnits
(* The locations callers pass: every offset up to one page past the end.   *)
Locations == 0 .. capacity + PageUnits
Contents == Data \cup {Zero, Torn}

(* FileTier::open creates or truncates the file: no slot is held.          *)
Init == /\ file = [s \in Slots |-> Zero]
        /\ allocated = [s \in Slots |-> FALSE]
        /\ free_slots = <<>>
        /\ next_slot = 0
        /\ used_slots = 0
        /\ result = <<"none">>

-----------------------------------------------------------------------------
ValidLocation(loc) == loc % PageUnits = 0 /\ loc < capacity
SlotOf(loc) == loc \div PageUnits

Fail(e) == result' = <<"err", e>>

(* validate_page_buffer: read and write refuse a buffer that is no page.   *)
RejectBuffer == Fail("InvalidInput") /\ UNCHANGED <<file, slotState>>

(* read and free of a location that is no slot; free returns nothing.      *)
RejectLocation(loc) ==
    /\ ~ValidLocation(loc)
    /\ result' \in {<<"err", "InvalidInput">>, <<"freed">>}
    /\ UNCHANGED <<file, slotState>>

ReadMissing(loc) ==
    /\ ValidLocation(loc)
    /\ ~allocated[SlotOf(loc)]
    /\ Fail("NotFound")
    /\ UNCHANGED <<file, slotState>>

Read(loc) ==
    /\ ValidLocation(loc)
    /\ allocated[SlotOf(loc)]
    /\ result' = <<"page", SlotOf(loc), file[SlotOf(loc)]>>
    /\ UNCHANGED <<file, slotState>>

ReadFails(loc) ==
    /\ ValidLocation(loc)
    /\ allocated[SlotOf(loc)]
    /\ Fail("Io")
    /\ UNCHANGED <<file, slotState>>

(* Mutant: the free stack does not count as room.                          *)
HasSlotFresh == next_slot < SlotCount

(* The slot write selects: the one freed last, else the first never used.  *)
HasSlot == free_slots # <<>> \/ next_slot < SlotCount
Selected == IF free_slots # <<>> THEN Last(free_slots) ELSE next_slot

WriteFull ==
    /\ ~HasSlot
    /\ Fail("StorageFull")
    /\ UNCHANGED <<file, slotState>>

(* The slot is taken only after its bytes are in the file.                 *)
Write(v) ==
    /\ HasSlot
    /\ file' = [file EXCEPT ![Selected] = v]
    /\ IF free_slots # <<>>
       THEN free_slots' = Front(free_slots) /\ UNCHANGED next_slot
       ELSE next_slot' = next_slot + 1 /\ UNCHANGED free_slots
    /\ allocated' = [allocated EXCEPT ![Selected] = TRUE]
    /\ used_slots' = used_slots + 1
    /\ result' = <<"written", Selected>>

(* Mutant: the slot is taken before its bytes are written.                 *)
WriteFailsPopped(v) ==
    /\ HasSlot
    /\ IF free_slots # <<>>
       THEN free_slots' = Front(free_slots) /\ UNCHANGED next_slot
       ELSE next_slot' = next_slot + 1 /\ UNCHANGED free_slots
    /\ Fail("Io")
    /\ UNCHANGED <<file, allocated, used_slots>>

(* write_page fails: the slot's bytes are the old ones, the new ones or a  *)
(* mixture, and the slot state is as it was.                               *)
WriteFails(v) ==
    /\ HasSlot
    /\ \E bytes \in {file[Selected], v, Torn} :
          file' = [file EXCEPT ![Selected] = bytes]
    /\ Fail("Io")
    /\ UNCHANGED slotState

Free(loc) ==
    /\ ValidLocation(loc)
    /\ IF allocated[SlotOf(loc)]
       THEN /\ allocated' = [allocated EXCEPT ![SlotOf(loc)] = FALSE]
            /\ free_slots' = Append(free_slots, SlotOf(loc))
            /\ used_slots' = used_slots - 1
       ELSE UNCHANGED <<allocated, free_slots, used_slots>>
    /\ result' = <<"freed">>
    /\ UNCHANGED <<file, next_slot>>

(* Everything but write.                                                   *)
AccessStep == \/ \E loc \in Locations : \/ RejectLocation(loc) \/ ReadMissing(loc)
                                        \/ Read(loc) \/ ReadFails(loc) \/ Free(loc)
              \/ RejectBuffer

Next == AccessStep \/ WriteFull \/ \E v \in Data : Write(v) \/ WriteFails(v)

Spec == Init /\ [][Next]_vars

-----------------------------------------------------------------------------
(* The slot state is well typed: used_slots counts within the capacity and *)
(* next_slot never runs past the file (write and free in file.rs).         *)
TypeOK == /\ file \in [Slots -> Contents]
          /\ allocated \in [Slots -> BOOLEAN]
          /\ free_slots \in Seq(Slots)
          /\ next_slot \in 0 .. SlotCount
          /\ used_slots \in 0 .. SlotCount
          /\ result[1] \in {"none", "err", "freed", "page", "written"}

(* Whatever writes, failed writes, double frees and frees of slots never   *)
(* written came before, each slot below next_slot is either held or on the *)
(* free stack exactly once, none above is either, and used_slots, from     *)
(* which used_bytes answers, counts the held ones (write's selection and   *)
(* its late pop, free's check of allocated).                               *)
SlotPartition ==
    /\ IsInjective(free_slots)
    /\ \A s \in Slots : (s < next_slot) = (allocated[s] \/ s \in ToSet(free_slots))
    /\ \A s \in ToSet(free_slots) : ~allocated[s]
    /\ used_slots = Cardinality({s \in Slots : allocated[s]})

store == INSTANCE SlotStore
         WITH stored <- [s \in Slots |-> IF allocated[s] THEN file[s] ELSE None]

(* The tier implements the backend contract: a page is only ever placed in *)
(* a slot nobody holds, a read returns what was written last there and no  *)
(* torn write shows, a failed write costs no slot, and StorageFull is      *)
(* returned only when every slot is held.                                  *)
BackendContract == store!Spec
=============================================================================
