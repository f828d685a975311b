----------------------------- MODULE HeatTracker -----------------------------
(***************************************************************************)
(* The heat of one frame (policy/heat.rs, and the packed word of frame.rs):*)
(* a fixed-point access count and the epoch of its last update in one      *)
(* atomic word.  The global epoch moves without touching any frame; the    *)
(* next access decays the old heat by the epochs that passed and adds one  *)
(* access, in a compare-exchange loop.                                     *)
(*                                                                         *)
(* Accessors hold the frame's latch shared, the evictor that reads or      *)
(* resets the word holds it exclusively.  ideal is not in the code: it is  *)
(* the heat of a tracker whose accesses take effect in one step.           *)
(***************************************************************************)
EXTENDS Integers, FiniteSets

CONSTANTS
    Accessors,     \* threads in a fix of the frame's page
    HEAT_ONE,      \* one access, in fixed point
    MaxHeat,       \* u32::MAX
    MaxShift,      \* MAX_DECAY_SHIFT, the width of the heat
    EpochMod,      \* the epoch wraps here (2^32)
    MaxTicks       \* bound: epochs in one behaviour

ASSUME HeatAssumption ==
    /\ MaxHeat \in Nat /\ HEAT_ONE \in 1 .. MaxHeat
    /\ MaxShift \in Nat
    /\ EpochMod \in Nat /\ MaxTicks \in Nat
    /\ MaxTicks + MaxShift < EpochMod

VARIABLES
    epoch,         \* HeatTracker::epoch
    ticks,         \* how often it advanced
    word,          \* Frame::heat_epoch, unpacked
    acc,           \* acc[t]: program counter and locals of on_access
    ideal

heatVars == <<epoch, ticks, word, acc, ideal>>

Heats == 0 .. MaxHeat
Epochs == 0 .. (EpochMod - 1)
Word == [heat : Heats, epoch : Epochs]
\* What install and clear_after_eviction store.
NoHeat == [heat |-> 0, epoch |-> 0]
Outside == [pc |-> "idle", epoch |-> 0, seen |-> NoHeat]

\* u32::wrapping_sub, saturating_add.
Elapsed(now, then) == (now - then + EpochMod) % EpochMod
AddAccess(heat) == IF heat + HEAT_ONE > MaxHeat THEN MaxHeat ELSE heat + HEAT_ONE

\* Shifted[n][heat] is heat >> n, one place after the other.
Shifted[n \in 0 .. MaxShift] ==
    [heat \in Heats |-> IF n = 0 THEN heat ELSE Shifted[n - 1][heat] \div 2]

\* MAX_DECAY_SHIFT is the width of the heat: nothing is left beyond it.
ASSUME WidthAssumption == \A heat \in Heats : Shifted[MaxShift][heat] = 0

\* Mutant: the shift is not capped, as `heat >> elapsed` of the machine is not.
DecayUncapped(heat, elapsed) == Shifted[elapsed % MaxShift][heat]

decay(heat, elapsed) ==
    IF elapsed >= MaxShift THEN 0 ELSE Shifted[elapsed][heat]

\* A frame is installed with no heat at any epoch of the global clock.
HeatInit ==
    /\ epoch \in {0, EpochMod - 1}
    /\ ticks = 0
    /\ word = NoHeat
    /\ acc = [t \in Accessors |-> Outside]
    /\ ideal = 0

-----------------------------------------------------------------------------
NoAccess == \A t \in Accessors : acc[t].pc = "idle"

\* on_access loads the epoch once, before its loop.
LoadEpoch(t) ==
    /\ acc[t].pc = "idle"
    /\ acc' = [acc EXCEPT ![t] = [@ EXCEPT !.pc = "observe", !.epoch = epoch]]
    /\ UNCHANGED <<epoch, ticks, word, ideal>>

ObserveWord(t) ==
    /\ acc[t].pc = "observe"
    /\ acc' = [acc EXCEPT ![t] = [@ EXCEPT !.pc = "cas", !.seen = word]]
    /\ UNCHANGED <<epoch, ticks, word, ideal>>

Replacement(t) ==
    [heat |-> AddAccess(decay(acc[t].seen.heat,
                              Elapsed(acc[t].epoch, acc[t].seen.epoch))),
     epoch |-> acc[t].epoch]

CasWord(t) ==
    /\ acc[t].pc = "cas"
    /\ word = acc[t].seen
    /\ word' = Replacement(t)
    /\ acc' = [acc EXCEPT ![t] = Outside]
    /\ ideal' = AddAccess(ideal)
    /\ UNCHANGED <<epoch, ticks>>

\* The loop goes on from the word the failed exchange returned; the weak
\* exchange may also fail on the word it expects.
CasFails(t) ==
    /\ acc[t].pc = "cas"
    /\ acc' = [acc EXCEPT ![t].seen = word]
    /\ UNCHANGED <<epoch, ticks, word, ideal>>

OnEpoch ==
    /\ ticks < MaxTicks
    /\ ticks' = ticks + 1
    /\ epoch' = (epoch + 1) % EpochMod
    /\ ideal' = ideal \div 2
    /\ UNCHANGED <<word, acc>>

\* Frame::install, Frame::clear_after_eviction.
ResetHeat ==
    /\ NoAccess
    /\ word' = NoHeat
    /\ ideal' = 0
    /\ UNCHANGED <<epoch, ticks, acc>>

AccessStep(t) == LoadEpoch(t) \/ ObserveWord(t) \/ CasWord(t) \/ CasFails(t)

-----------------------------------------------------------------------------
\* current_heat_raw, when the word and the epoch are read together.
HeatNow == decay(word.heat, Elapsed(epoch, word.epoch))

(***************************************************************************)
(* Whatever accesses race with each other and with the epoch, a frame is   *)
(* never reported hotter than its accesses made it: the word, decayed to   *)
(* now, never exceeds the heat of a tracker without races (on_access and   *)
(* current_heat_raw of heat.rs, with the epoch about to wrap too).         *)
(***************************************************************************)
HeatNeverOverstated == HeatNow <= ideal

(***************************************************************************)
(* An access never cools its frame: heat.rs says it "lazily right-shifts   *)
(* old heat once per elapsed epoch, then adds one fixed point access with  *)
(* saturation", so the heat it leaves, decayed to now, is at least the     *)
(* heat it found, decayed to now.                                          *)
(***************************************************************************)
AccessKeepsHeat ==
    [][\A t \in Accessors : CasWord(t) => HeatNow' >= HeatNow]_heatVars
=============================================================================
