------------------------------ MODULE Services ------------------------------
(***************************************************************************)
(* The parts beside the pool's page protocol, side by side: the heat of a  *)
(* frame, the demotion of a page, the two background workers, the cost of  *)
(* residency, the statistics under a benchmark and the mock tier.  They    *)
(* share no state but the heat that demotion reads, so nothing is lost by  *)
(* letting each run on its own: cast says which part a behaviour is about, *)
(* and the others stay as they begin.                                      *)
(***************************************************************************)
EXTENDS Demotion, ResidencyCost, Benchmark, Workers, MockTier

CONSTANT Casts             \* the parts to look at

ASSUME CastsAssumption ==
    Casts \subseteq {"heat", "demotion", "cost", "bench", "workers", "mock"}

VARIABLE cast

heatSide == <<heatVars, demotionVars>>
vars == <<cast, heatSide, costVars, benchVars, workerVars, mockVars>>

\* Demotion comes to a frame whose heat is whatever accesses made it.
AnyHeat ==
    /\ epoch = 0 /\ ticks = 0
    /\ word \in [heat : Heats, epoch : {0}]
    /\ acc = [t \in Accessors |-> Outside]
    /\ ideal = word.heat

Init ==
    /\ cast \in Casts
    /\ IF cast = "demotion" THEN AnyHeat ELSE HeatInit
    /\ cast \notin {"heat", "demotion"} => epoch = 0
    /\ DemotionInit
    /\ cast # "demotion" => tier = CHOOSE t \in TierTables : TRUE
    /\ CostInit /\ BenchInit
    /\ WorkersInit
    /\ cast # "workers" =>
          mode = "Demand" /\ cooling_target = CHOOSE n \in CoolingTargets : TRUE
    /\ MockInit

HeatStep ==
    /\ cast = "heat"
    /\ OnEpoch \/ ResetHeat \/ \E t \in Accessors : AccessStep(t)
    /\ UNCHANGED demotionVars

Demotes ==
    /\ cast = "demotion"
    /\ DemotionStep \/ (OnEpoch /\ UNCHANGED demotionVars)

Next ==
    \/ /\ HeatStep \/ Demotes
       /\ UNCHANGED <<cast, costVars, benchVars, workerVars, mockVars>>
    \/ /\ cast = "cost"
       /\ PageStep \/ SampleStep
       /\ UNCHANGED <<cast, heatSide, benchVars, workerVars, mockVars>>
    \/ /\ cast = "bench"
       /\ BenchStep
       /\ UNCHANGED <<cast, heatSide, costVars, workerVars, mockVars>>
    \/ /\ cast = "workers"
       /\ WorkersNext
       /\ UNCHANGED <<cast, heatSide, costVars, benchVars, mockVars>>
    \/ /\ cast = "mock"
       /\ MockStep
       /\ UNCHANGED <<cast, heatSide, costVars, benchVars, workerVars>>

(***************************************************************************)
(* Threads inside their loops or calls keep running, and the cooler's      *)
(* interval of a few milliseconds ends.  Nothing is assumed about the      *)
(* length of an epoch, about callers starting calls or evictions working.  *)
(***************************************************************************)
Fairness ==
    /\ WF_workerVars(cast = "workers" /\ CoolerStep)
    /\ WF_workerVars(cast = "workers" /\ EpochStep)
    /\ WF_workerVars(cast = "workers" /\ CallerStep)
    /\ WF_workerVars(cast = "workers" /\ OwnerStep)
    /\ WF_workerVars(cast = "workers" /\ WaitTimesOut("cooler"))

Spec == Init /\ [][Next]_vars /\ Fairness
=============================================================================
