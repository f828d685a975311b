---------------------------- MODULE StatsRecorder ----------------------------
(***************************************************************************)
(* The statistics of a manager (metrics.rs, StatsRecorder): saturating     *)
(* atomic counters, recorded under the shared side of a gate and           *)
(* snapshotted under its exclusive side.  An event of one counter is one   *)
(* step; a tier read or write adds to its count and then to its bytes,     *)
(* and others run in between.                                              *)
(***************************************************************************)
EXTENDS Integers, FiniteSets

CONSTANTS
    Recorders,         \* threads that record events
    Events,            \* the counters of one-counter events
    PageLength,        \* PAGE_SIZE
    MaxCount           \* u64::MAX

Transfers == {"read", "write"}

ASSUME StatsAssumption ==
    /\ IsFiniteSet(Recorders)
    /\ PageLength \in Nat \ {0} /\ MaxCount \in Nat \ {0}
    /\ Events \cap Transfers = {}

VARIABLES
    count,             \* count[c]: events recorded, tier reads and writes
    bytes,             \* bytes[x]: bytes_read and bytes_written
    updating           \* updating[r]: the transfer r is halfway through

statsVars == <<count, bytes, updating>>

Counters == Events \cup Transfers
TierStats == [count : [Counters -> 0 .. MaxCount], bytes : [Transfers -> 0 .. MaxCount]]

\* StatsRecorder::new.
StatsInit ==
    /\ count = [c \in Counters |-> 0]
    /\ bytes = [x \in Transfers |-> 0]
    /\ updating = [r \in Recorders |-> "none"]

saturating_add(counter, amount) ==
    IF counter + amount > MaxCount THEN MaxCount ELSE counter + amount

\* record_dram_hit, record_fault, record_tier_demand_hit and the like: the
\* gate is entered and left around one addition.
RecordEvent(c) ==
    /\ count' = [count EXCEPT ![c] = saturating_add(@, 1)]
    /\ UNCHANGED <<bytes, updating>>

\* record_tier_read and record_tier_write.
RecordTransfer(r, x) ==
    /\ updating[r] = "none"
    /\ count' = [count EXCEPT ![x] = saturating_add(@, 1)]
    /\ updating' = [updating EXCEPT ![r] = x]
    /\ UNCHANGED bytes

RecordBytes(r) ==
    /\ updating[r] # "none"
    /\ bytes' = [bytes EXCEPT ![updating[r]] = saturating_add(@, PageLength)]
    /\ updating' = [updating EXCEPT ![r] = "none"]
    /\ UNCHANGED count

\* Mutant: the gate is not closed to recorders.
NoGate == TRUE

\* begin_snapshot gets the gate when no recorder is inside.
GateFree == \A r \in Recorders : updating[r] = "none"

snapshot == [count |-> count, bytes |-> bytes]
=============================================================================
