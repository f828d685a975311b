------------------------------ MODULE Demotion ------------------------------
(***************************************************************************)
(* Where an eviction writes its page: the economic policy (policy/         *)
(* economic.rs) chooses a tier from the frame's heat and a table of the    *)
(* tiers read one after the other, and evict_ticket (pool.rs) walks from   *)
(* that tier downwards, because by then a budget may be used up, and a     *)
(* write may fail.                                                         *)
(*                                                                         *)
(* Prices, latencies and costs are naturals in one unit, compared exactly  *)
(* where the code divides doubles.  A negative price or latency stands for *)
(* one that is not a finite, non-negative number.                          *)
(***************************************************************************)
EXTENDS HeatTracker, Sequences, FiniteSetsExt

CONSTANTS
    TierTables,            \* the configurations of tiers to look at
    PageBytes,             \* PAGE_SIZE
    BudgetCap,             \* bound: bytes a write budget can hold
    MaxBudgetMoves,        \* bound: refills and other evictors' writes
    DramPageCost,          \* dram_page_cost_per_second
    EpochSeconds,          \* EconomicConfig::epoch_seconds
    CpuCost,               \* cpu_cost_usd_per_us
    FixedReadCost,         \* read_opportunity_cost_usd
    NoTier                 \* Option::None

\* TierInfo, and the tier itself as far as a write-back sees it.
TierInfo == [price : Int, latency : Int, budget : Nat \cup {NoTier}]

ASSUME DemotionAssumption ==
    /\ TierTables \subseteq Seq(TierInfo) \ {<<>>}
    /\ PageBytes \in Nat \ {0} /\ BudgetCap \in Nat /\ MaxBudgetMoves \in Nat
    /\ DramPageCost \in Nat \ {0} /\ EpochSeconds \in Nat \ {0}
    /\ CpuCost \in Nat /\ FixedReadCost \in Nat
    /\ NoTier \notin Nat

VARIABLES
    tier,                  \* the tiers, from fast to authoritative
    moves,                 \* budget moves of others so far
    demote                 \* the evictor: program counter and locals

demotionVars == <<tier, moves, demote>>

NotDemoting == [pc |-> "idle", infos |-> <<>>, seen |-> NoHeat, at |-> 0]

\* The evictor comes to a frame of any heat.
DemotionInit ==
    /\ tier \in TierTables
    /\ moves = 0
    /\ demote = NotDemoting

-----------------------------------------------------------------------------
(* EconomicPolicy                                                          *)

ReadOpportunityCost(info) == info.latency * CpuCost + FixedReadCost

IsEligible(info) ==
    /\ info.price >= 0 /\ info.latency >= 0
    /\ info.budget = NoTier \/ info.budget >= PageBytes

Eligible(infos) == {i \in 1 .. Len(infos) : IsEligible(infos[i])}

\* estimated_reaccess_seconds >= break_even_seconds; no heat, no reaccess.
PaysOff(info, heat) ==
    \/ heat = 0
    \/ EpochSeconds * HEAT_ONE * DramPageCost >= ReadOpportunityCost(info) * heat

\* Iterator::min_by: the first of the least.
FirstMinBy(S, key(_)) ==
    Min({i \in S : \A j \in S : key(i) <= key(j)})

\* Mutant: the fallback for a page too hot for any tier is the cheapest one.
TargetCheapest(infos, heat) ==
    LET price(i) == infos[i].price
        worth == {i \in Eligible(infos) : PaysOff(infos[i], heat)}
    IN IF Eligible(infos) = {} THEN NoTier
       ELSE IF worth # {} THEN FirstMinBy(worth, price)
       ELSE FirstMinBy(Eligible(infos), price)

demotion_target(infos, heat) ==
    LET price(i) == infos[i].price
        latency(i) == infos[i].latency
        worth == {i \in Eligible(infos) : PaysOff(infos[i], heat)}
    IN IF Eligible(infos) = {} THEN NoTier
       ELSE IF worth # {} THEN FirstMinBy(worth, price)
       ELSE FirstMinBy(Eligible(infos), latency)

-----------------------------------------------------------------------------
(* The write-back of evict_ticket, under the frame's exclusive latch       *)

DemoteStarts ==
    /\ demote.pc = "idle"
    /\ NoAccess
    /\ demote' = [NotDemoting EXCEPT !.pc = "infos"]
    /\ UNCHANGED <<heatVars, tier, moves>>

\* live_tier_info, one tier at a time.
ReadTierInfo ==
    /\ demote.pc = "infos"
    /\ LET n == Len(demote.infos) + 1 IN
          demote' = [demote EXCEPT !.infos = Append(@, tier[n]),
                                   !.pc = IF n = Len(tier) THEN "heat" ELSE "infos"]
    /\ UNCHANGED <<heatVars, tier, moves>>

\* current_heat_raw reads the word, then the epoch.
ReadHeatWord ==
    /\ demote.pc = "heat"
    /\ demote' = [demote EXCEPT !.pc = "choose", !.seen = word]
    /\ UNCHANGED <<heatVars, tier, moves>>

ChooseTarget ==
    /\ demote.pc = "choose"
    /\ LET heat == decay(demote.seen.heat, Elapsed(epoch, demote.seen.epoch))
           target == demotion_target(demote.infos, heat)
       IN demote' = [demote EXCEPT !.pc = "pay",
                                   !.at = IF target = NoTier THEN 1 ELSE target]
    /\ UNCHANGED <<heatVars, tier, moves>>

\* The next tier, or the last error once every tier from the start refused.
Onwards == IF demote.at = Len(tier) THEN NotDemoting
           ELSE [demote EXCEPT !.pc = "pay", !.at = @ + 1]

PayBudget ==
    /\ demote.pc = "pay"
    /\ LET b == tier[demote.at].budget IN
          \/ /\ b = NoTier
             /\ demote' = [demote EXCEPT !.pc = "write"]
             /\ UNCHANGED tier
          \/ /\ b # NoTier /\ b >= PageBytes
             /\ tier' = [tier EXCEPT ![demote.at].budget = @ - PageBytes]
             /\ demote' = [demote EXCEPT !.pc = "write"]
          \/ /\ b # NoTier /\ b < PageBytes
             /\ demote' = Onwards
             /\ UNCHANGED tier
    /\ UNCHANGED <<heatVars, moves>>

WriteFails ==
    /\ demote.pc = "write"
    /\ demote' = Onwards
    /\ UNCHANGED <<heatVars, tier, moves>>

\* The page is on the tier: the frame is cleared and its heat forgotten.
Written ==
    /\ demote.pc = "write"
    /\ ResetHeat
    /\ demote' = NotDemoting
    /\ UNCHANGED <<tier, moves>>

\* Other evictors use budgets up and the epoch worker refills them.
BudgetMoves(i) ==
    /\ moves < MaxBudgetMoves
    /\ tier[i].budget # NoTier
    /\ \/ /\ tier[i].budget >= PageBytes
          /\ tier' = [tier EXCEPT ![i].budget = @ - PageBytes]
       \/ /\ tier[i].budget < BudgetCap
          /\ tier' = [tier EXCEPT ![i].budget = @ + 1]
    /\ moves' = moves + 1
    /\ UNCHANGED <<heatVars, demote>>

DemotionStep ==
    \/ DemoteStarts \/ ReadTierInfo \/ ReadHeatWord \/ ChooseTarget
    \/ PayBudget \/ WriteFails \/ Written
    \/ \E i \in 1 .. Len(tier) : BudgetMoves(i)

-----------------------------------------------------------------------------
(***************************************************************************)
(* Whatever tiers are configured and whatever budgets the evictor happened *)
(* to see, the hotter of two frames is never sent to a slower tier than    *)
(* the colder one, and no frame to a tier that could not take a page       *)
(* (demotion_target of economic.rs).                                       *)
(***************************************************************************)
HotterIsFaster ==
    demote.pc = "choose" =>
        \A cold, hot \in Heats :
            LET infos == demote.infos
                to(h) == demotion_target(infos, h)
            IN cold <= hot /\ to(cold) # NoTier =>
                  /\ infos[to(hot)].latency <= infos[to(cold)].latency
                  /\ infos[to(hot)].budget # NoTier => infos[to(hot)].budget >= PageBytes
=============================================================================
