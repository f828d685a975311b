------------------------------ MODULE MockTier ------------------------------
(***************************************************************************)
(* The in-memory tier of the tests and examples (tier/mock.rs): pages in   *)
(* slots, freed slots reused last freed first, and one read that can be    *)
(* told to fail.  Every operation is one step under the tier's mutex; its  *)
(* artificial delay is before it and changes nothing.                      *)
(***************************************************************************)
EXTENDS Integers, Sequences

CONSTANTS
    MockSlots,         \* slot_count
    MockData,          \* what a page can hold
    MaxAttempts,       \* u64::MAX, where read_attempts saturates
    NoData             \* Option::None, no page

ASSUME MockAssumption ==
    /\ MockSlots \in Nat \ {0} /\ MaxAttempts \in Nat \ {0}
    /\ NoData \notin MockData \cup Nat

VARIABLES
    mock_pages,        \* MockState::pages, by slot
    mock_free,         \* free_slots
    next_slot,
    read_attempts,
    fail_read_at,
    mock_result        \* what the latest call returned

mockVars == <<mock_pages, mock_free, next_slot, read_attempts, fail_read_at, mock_result>>

\* An offset is a slot of the tier or fails validate_location.
SlotsOfMock == 0 .. (MockSlots - 1)
Offsets == SlotsOfMock \cup {MockSlots}

MockInit ==
    /\ mock_pages = [s \in SlotsOfMock |-> NoData]
    /\ mock_free = <<>>
    /\ next_slot = 0
    /\ read_attempts = 0
    /\ fail_read_at = NoData
    /\ mock_result = <<"none">>

\* validate_page_buffer, validate_location, and Some(0) for fail_nth_read.
MockRefuses ==
    /\ mock_result' = <<"err", "InvalidInput">>
    /\ UNCHANGED <<mock_pages, mock_free, next_slot, read_attempts, fail_read_at>>

MockFailNthRead(nth) ==
    /\ nth # 0
    /\ read_attempts' = 0
    /\ fail_read_at' = nth
    /\ UNCHANGED <<mock_pages, mock_free, next_slot, mock_result>>

MockRead(location) ==
    LET attempt == IF read_attempts = MaxAttempts THEN MaxAttempts ELSE read_attempts + 1 IN
    /\ location \in SlotsOfMock
    /\ read_attempts' = attempt
    /\ IF fail_read_at = attempt
       THEN fail_read_at' = NoData /\ mock_result' = <<"err", "Io">>
       ELSE /\ UNCHANGED fail_read_at
            /\ mock_result' = IF mock_pages[location] = NoData
                              THEN <<"err", "NotFound">>
                              ELSE <<"page", location, mock_pages[location]>>
    /\ UNCHANGED <<mock_pages, mock_free, next_slot>>

Keep(location, page) ==
    /\ mock_pages' = [mock_pages EXCEPT ![location] = page]
    /\ mock_result' = <<"written", location>>
    /\ UNCHANGED <<read_attempts, fail_read_at>>

MockWrite(page) ==
    \/ /\ mock_free # <<>>
       /\ mock_free' = SubSeq(mock_free, 1, Len(mock_free) - 1)
       /\ Keep(mock_free[Len(mock_free)], page)
       /\ UNCHANGED next_slot
    \/ /\ mock_free = <<>> /\ next_slot < MockSlots
       /\ next_slot' = next_slot + 1
       /\ Keep(next_slot, page)
       /\ UNCHANGED mock_free
    \/ /\ mock_free = <<>> /\ next_slot = MockSlots
       /\ mock_result' = <<"err", "StorageFull">>
       /\ UNCHANGED <<mock_pages, mock_free, next_slot, read_attempts, fail_read_at>>

\* Mutant: a slot is handed back whether or not it held a page.
FreeUnchecked(location) ==
    /\ location \in SlotsOfMock
    /\ mock_pages' = [mock_pages EXCEPT ![location] = NoData]
    /\ mock_free' = Append(mock_free, location)
    /\ mock_result' = <<"freed">>
    /\ Len(mock_free) < MockSlots
    /\ UNCHANGED <<next_slot, read_attempts, fail_read_at>>

MockFree(location) ==
    /\ IF location \in SlotsOfMock /\ mock_pages[location] # NoData
       THEN /\ mock_pages' = [mock_pages EXCEPT ![location] = NoData]
            /\ mock_free' = Append(mock_free, location)
       ELSE UNCHANGED <<mock_pages, mock_free>>
    /\ mock_result' = <<"freed">>
    /\ UNCHANGED <<next_slot, read_attempts, fail_read_at>>

MockStep ==
    \/ MockRefuses
    \/ \E nth \in (0 .. MaxAttempts) \cup {NoData} : MockFailNthRead(nth)
    \/ \E location \in Offsets : MockRead(location) \/ MockFree(location)
    \/ \E page \in MockData : MockWrite(page)

(***************************************************************************)
(* The mock tier keeps the contract of every tier (SlotStore): whatever    *)
(* calls come in whatever order, a page is written only where no page is,  *)
(* refused only when every slot holds one, and read back as it was         *)
(* written, also after slots were freed twice or before they were ever     *)
(* given out (read, write and free of mock.rs, and its debug_assert that   *)
(* an allocated slot was not occupied).                                    *)
(***************************************************************************)
Contract == INSTANCE SlotStore WITH
    SlotCount <- MockSlots, Data <- MockData, None <- NoData,
    stored <- mock_pages, result <- mock_result
MockContract == Contract!Spec
=============================================================================
