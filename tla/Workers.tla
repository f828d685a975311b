------------------------------- MODULE Workers -------------------------------
(***************************************************************************)
(* The manager's cooler and epoch threads as threads (pool.rs): how they   *)
(* sleep on their WorkerSignal and are woken, when the cooler evicts in    *)
(* each EvictionMode, and how both end, by shutdown or because the last    *)
(* handle of the manager is dropped, possibly by one of them.  What an     *)
(* eviction does is in Eviction, what a tick does to heat, budgets and     *)
(* costs in HeatTracker, WriteBudget and ResidencyCost.                    *)
(***************************************************************************)
EXTENDS Integers, FiniteSets

CONSTANTS
    PoolFrames,        \* frames of the pool
    LowFrames,         \* low_watermark
    CoolingTargets,    \* cooling targets to look at; a cooling_ratio of 0.0 gives 0
    MaxFaultIns,       \* bound: fault-ins counted in one epoch
    MaxRequests        \* bound: exhausted-frame requests

ASSUME WorkersAssumption ==
    /\ PoolFrames \in Nat \ {0}
    /\ LowFrames \in 1 .. PoolFrames
    /\ CoolingTargets \subseteq 0 .. PoolFrames /\ CoolingTargets # {}
    /\ MaxFaultIns \in Nat \ {0} /\ MaxRequests \in Nat \ {0}

Loops == {"cooler", "epoch"}
Actors == Loops \cup {"caller", "owner"}
Signals == Loops              \* cooler_signal and worker_signal

VARIABLES
    mode,              \* eviction_mode
    cooling_target,    \* cooling_target, as fixed as the mode
    free_count,        \* frames in the free queue
    fault_ins,         \* fault_ins_this_epoch
    exhausted,         \* exhausted_frame_request
    halt,              \* stopping
    generation,        \* WorkerSignal::generation of each signal
    seen_gen,          \* each worker's observed_signal
    handles,           \* who holds a strong reference to the manager
    at,                \* program counters
    requests,          \* requests so far
    owed               \* a request was made and no pass has begun since

workerVars == <<mode, cooling_target, free_count, fault_ins, exhausted, halt,
                generation, seen_gen, handles, at, requests, owed>>
configured == <<mode, cooling_target>>
signalVars == <<generation, seen_gen>>
poolSide == <<configured, free_count, fault_ins, exhausted, requests, owed>>

Places ==
    {"idle", "acquire", "notify", "retry",         \* the caller
     "open", "join", "closed",                                \* the owner
     "upgrade", "check", "step", "swap", "pass", "release",   \* loops
     "wait", "lock", "locked", "asleep", "woken", "exited",   \* wait_for_worker
     "store", "signal_epoch", "signal_cooler"}                \* stopping

WorkersInit ==
    /\ mode \in {"Demand", "Watermark"}
    /\ cooling_target \in CoolingTargets
    /\ free_count = PoolFrames
    /\ fault_ins = 0
    /\ exhausted = FALSE
    /\ halt = FALSE
    /\ generation = [s \in Signals |-> 0]
    /\ seen_gen = [s \in Signals |-> 0]
    /\ handles = {"owner"}
    /\ at = [a \in Actors |-> CASE a = "cooler" -> "upgrade" [] a = "epoch" -> "wait"
                                [] a = "caller" -> "idle" [] a = "owner" -> "open"]
    /\ requests = 0
    /\ owed = FALSE

Move(a, place) == at' = [at EXCEPT ![a] = place]

-----------------------------------------------------------------------------
(* Callers: allocate and fault, as far as the workers notice them          *)

\* A fault counts itself in Demand mode before it acquires a frame; an
\* allocation does not.  Callers borrow the owner's handle.
CallerStarts ==
    /\ at["caller"] = "idle" /\ at["owner"] = "open" /\ ~halt
    /\ requests < MaxRequests
    /\ Move("caller", "acquire")
    /\ \/ UNCHANGED fault_ins
       \/ /\ mode = "Demand" /\ fault_ins < MaxFaultIns
          /\ fault_ins' = fault_ins + 1
    /\ UNCHANGED <<configured, free_count, exhausted, halt, signalVars, handles, requests, owed>>

\* acquire_frame: pop_free, first and again in its retries.
CallerPops ==
    /\ at["caller"] \in {"acquire", "retry"}
    /\ ~halt /\ free_count > 0
    /\ free_count' = free_count - 1
    /\ Move("caller", "idle")
    /\ UNCHANGED <<configured, fault_ins, exhausted, halt, signalVars, handles, requests, owed>>

CallerRequests ==
    /\ at["caller"] = "acquire"
    /\ free_count = 0
    /\ exhausted' = TRUE
    /\ owed' = TRUE
    /\ requests' = requests + 1
    /\ Move("caller", "notify")
    /\ UNCHANGED <<configured, free_count, fault_ins, halt, signalVars, handles>>

\* The caller's own tries end with a frame it evicted itself, or without.
CallerGivesUp ==
    /\ at["caller"] = "retry" \/ (at["caller"] = "acquire" /\ halt)
    /\ Move("caller", "idle")
    /\ UNCHANGED <<poolSide, halt, signalVars, handles>>

\* The caller's evictions, and pages that leave DRAM some other way.
CallerFrees ==
    /\ at["caller"] = "retry"
    /\ free_count < PoolFrames
    /\ free_count' = free_count + 1
    /\ UNCHANGED <<configured, fault_ins, exhausted, halt, signalVars, handles, at, requests, owed>>

\* WorkerSignal::notify takes the signal's mutex, which a worker between its
\* checks and its sleep holds.
Notify(s) ==
    /\ at[s] # "locked"
    /\ generation' = [generation EXCEPT ![s] = @ + 1]
    /\ UNCHANGED seen_gen

\* notify_all: the sleeper has to run again.
Wakes(s, a, place) ==
    at' = [at EXCEPT ![a] = place, ![s] = IF @ = "asleep" THEN "woken" ELSE @]

CallerNotifies ==
    /\ at["caller"] = "notify"
    /\ Notify("cooler")
    /\ Wakes("cooler", "caller", "retry")
    /\ UNCHANGED <<poolSide, halt, handles>>

-----------------------------------------------------------------------------
(* The loops of start_workers                                              *)

\* Weak::upgrade, then the check of stopping.
Upgrade(a) ==
    /\ at[a] = "upgrade"
    /\ IF handles = {}
       THEN Move(a, "exited") /\ UNCHANGED handles
       ELSE Move(a, "check") /\ handles' = handles \cup {a}
    /\ UNCHANGED <<poolSide, halt, signalVars>>

CheckStopping(a) ==
    /\ at[a] = "check"
    /\ Move(a, IF halt THEN "release" ELSE "step")
    /\ UNCHANGED <<poolSide, halt, signalVars, handles>>

\* tick_epoch.
TickEpoch ==
    /\ at["epoch"] = "step"
    /\ fault_ins' = 0
    /\ Move("epoch", "release")
    /\ UNCHANGED <<configured, free_count, exhausted, halt, signalVars, handles, requests, owed>>

\* background_cooling_step: its early return leaves the request alone.
CoolingGate ==
    /\ at["cooler"] = "step"
    /\ Move("cooler", IF halt \/ free_count >= LowFrames \/ cooling_target = 0
                      THEN "release" ELSE "swap")
    /\ UNCHANGED <<poolSide, halt, signalVars, handles>>

\* Mutant: in Demand mode only fault-ins activate the cooler.
SwapIgnoringRequest ==
    /\ at["cooler"] = "swap"
    /\ exhausted' = FALSE
    /\ IF mode = "Demand" /\ fault_ins = 0
       THEN Move("cooler", "release") /\ UNCHANGED owed
       ELSE Move("cooler", "pass") /\ owed' = FALSE
    /\ UNCHANGED <<configured, free_count, fault_ins, halt, signalVars, handles, requests>>

SwapRequest ==
    /\ at["cooler"] = "swap"
    /\ exhausted' = FALSE
    /\ IF mode = "Demand" /\ fault_ins = 0 /\ ~exhausted
       THEN Move("cooler", "release") /\ UNCHANGED owed
       ELSE Move("cooler", "pass") /\ owed' = FALSE
    /\ UNCHANGED <<configured, free_count, fault_ins, halt, signalVars, handles, requests>>

\* The pass evicts up to the watermark; tickets may be stale, busy or fail.
PassEvicts ==
    /\ at["cooler"] = "pass"
    /\ free_count < LowFrames
    /\ free_count' = free_count + 1
    /\ UNCHANGED <<configured, fault_ins, exhausted, halt, signalVars, handles, at, requests, owed>>

PassEnds ==
    /\ at["cooler"] = "pass"
    /\ Move("cooler", "release")
    /\ UNCHANGED <<poolSide, halt, signalVars, handles>>

\* The upgraded handle is dropped; if it was the last, Drop runs here.
Release(a) ==
    /\ a \in Loops
    /\ at[a] = "release"
    /\ handles' = handles \ {a}
    /\ Move(a, IF handles = {a} THEN "store" ELSE "wait")
    /\ UNCHANGED <<poolSide, halt, signalVars>>

-----------------------------------------------------------------------------
(* wait_for_worker                                                         *)

WaitChecks(a) ==
    /\ at[a] = "wait"
    /\ Move(a, IF halt THEN "exited" ELSE "lock")
    /\ UNCHANGED <<poolSide, halt, signalVars, handles>>

\* Under the mutex: stopping, then the generation.
WaitLocks(a) ==
    /\ at[a] = "lock"
    /\ \/ halt /\ Move(a, "exited") /\ UNCHANGED signalVars
       \/ /\ ~halt /\ generation[a] # seen_gen[a]
          /\ seen_gen' = [seen_gen EXCEPT ![a] = generation[a]]
          /\ UNCHANGED generation
          /\ Move(a, "upgrade")
       \/ /\ ~halt /\ generation[a] = seen_gen[a]
          /\ UNCHANGED signalVars
          /\ Move(a, "locked")
    /\ UNCHANGED <<poolSide, halt, handles>>

\* wait_timeout_while looks at its condition and sleeps, giving up the mutex;
\* woken, it looks again.  Either way it returns with the generation seen.
WaitReturns(a) ==
    /\ seen_gen' = [seen_gen EXCEPT ![a] = generation[a]]
    /\ UNCHANGED generation
    /\ Move(a, IF halt THEN "exited" ELSE "upgrade")

WaitSleeps(a) ==
    /\ at[a] \in {"locked", "woken"}
    /\ \/ ~halt /\ generation[a] = seen_gen[a] /\ Move(a, "asleep") /\ UNCHANGED signalVars
       \/ (halt \/ generation[a] # seen_gen[a]) /\ WaitReturns(a)
    /\ UNCHANGED <<poolSide, halt, handles>>

\* The timeout: COOLER_INTERVAL, or the configured epoch.
WaitTimesOut(a) ==
    /\ at[a] = "asleep"
    /\ WaitReturns(a)
    /\ UNCHANGED <<poolSide, halt, handles>>

-----------------------------------------------------------------------------
(* shutdown and Drop                                                       *)

OwnerShutsDown ==
    /\ at["owner"] = "open"
    /\ Move("owner", "store")
    /\ UNCHANGED <<poolSide, halt, signalVars, handles>>

\* The owner drops its handle instead; no caller borrows it any more.
OwnerDrops ==
    /\ at["owner"] = "open" /\ at["caller"] = "idle"
    /\ handles' = handles \ {"owner"}
    /\ Move("owner", IF handles = {"owner"} THEN "store" ELSE "closed")
    /\ UNCHANGED <<poolSide, halt, signalVars>>

StoreStopping(a) ==
    /\ at[a] = "store"
    /\ halt' = TRUE
    /\ Move(a, "signal_epoch")
    /\ UNCHANGED <<poolSide, signalVars, handles>>

\* Mutant: only the cooler is told.
SignalForgotten(a) ==
    /\ at[a] = "signal_epoch"
    /\ Move(a, "signal_cooler")
    /\ UNCHANGED <<poolSide, halt, signalVars, handles>>

SignalEpoch(a) ==
    /\ at[a] = "signal_epoch"
    /\ Notify("epoch")
    /\ Wakes("epoch", a, "signal_cooler")
    /\ UNCHANGED <<poolSide, halt, handles>>

\* A worker that ran Drop goes on to its wait; shutdown joins the workers,
\* Drop does not.
SignalCooler(a) ==
    /\ at[a] = "signal_cooler"
    /\ Notify("cooler")
    /\ Wakes("cooler", a, CASE a \in Loops -> "wait"
                            [] a = "owner" -> IF handles = {} THEN "closed" ELSE "join")
    /\ UNCHANGED <<poolSide, halt, handles>>

\* operation_gate.write() and join_workers().
Join ==
    /\ at["owner"] = "join"
    /\ at["caller"] = "idle" /\ \A a \in Loops : at[a] = "exited"
    /\ Move("owner", "closed")
    /\ UNCHANGED <<poolSide, halt, signalVars, handles>>

-----------------------------------------------------------------------------
CallerStep == CallerPops \/ CallerRequests \/ CallerGivesUp \/ CallerNotifies

WorkerLoop(a) ==
    \/ Upgrade(a) \/ CheckStopping(a) \/ Release(a)
    \/ WaitChecks(a) \/ WaitLocks(a) \/ WaitSleeps(a)
    \/ StoreStopping(a) \/ SignalEpoch(a) \/ SignalCooler(a)

CoolerStep == WorkerLoop("cooler") \/ CoolingGate \/ SwapRequest \/ PassEnds
EpochStep == WorkerLoop("epoch") \/ TickEpoch
OwnerStep == StoreStopping("owner") \/ SignalEpoch("owner") \/ SignalCooler("owner") \/ Join

WorkersNext ==
    \/ CallerStarts \/ CallerStep \/ CallerFrees
    \/ CoolerStep \/ PassEvicts \/ EpochStep
    \/ WaitTimesOut("cooler") \/ WaitTimesOut("epoch")
    \/ OwnerShutsDown \/ OwnerDrops \/ OwnerStep

(***************************************************************************)
(* A caller that found no free frame is not forgotten: in a pool that      *)
(* cools at all, as long as frames stay below the watermark and nobody     *)
(* stops it, a cooling pass begins after the request, in Demand mode too,  *)
(* and however early returns, the swap of the flag and epoch ticks that    *)
(* zero the fault count fall (background_cooling_step and acquire_frame).  *)
(* With a cooling target of 0 no pass ever begins.                         *)
(***************************************************************************)
RequestServed ==
    owed /\ cooling_target # 0 ~> (~owed \/ free_count >= LowFrames \/ halt)

(***************************************************************************)
(* However the manager's life ends, by shutdown or by dropping the last    *)
(* handle on any thread, both workers leave, even when an epoch never ends *)
(* (wait_for_worker's double check of stopping, and the notifications of   *)
(* shutdown and Drop).  One way out of it remains when the owner drops its *)
(* handle: each worker's upgraded handle keeps the manager alive for the   *)
(* other, so it lives on as long as their passes and ticks keep            *)
(* overlapping.                                                            *)
(***************************************************************************)
WorkersExit ==
    \/ []<>(handles = Loops)
    \/ at["owner"] # "open" ~> \A a \in Loops : at[a] = "exited"
=============================================================================
