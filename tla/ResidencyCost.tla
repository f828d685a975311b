---------------------------- MODULE ResidencyCost ----------------------------
(***************************************************************************)
(* The cost of residency (metrics.rs, ResidencyCost) as the epoch worker   *)
(* integrates it (pool.rs, tick_epoch): it looks at the frames one after   *)
(* the other, then asks the tier for its used bytes, while allocations,    *)
(* faults and evictions move pages.  Residency is counted in pages times   *)
(* elapsed time and costs in residency times price; the code's division by *)
(* GiB and by the seconds of a month only scales them.  One lower tier.    *)
(***************************************************************************)
EXTENDS Integers, FiniteSets, Functions

CONSTANTS
    CostFrames,        \* number of frames
    CostPages,         \* pages that may be allocated
    CostEvictors,      \* threads that evict
    Elapses,           \* the times an epoch may last
    DramPrice,         \* dram_price_gib_month
    TierPrices,        \* prices the tier may have at a tick
    MaxSamples,        \* bound: ticks
    MaxPageMoves,      \* bound: allocations, faults and evictions
    NoPage             \* PageId::INVALID, no frame

ASSUME CostAssumption ==
    /\ CostFrames \in Nat \ {0} /\ MaxSamples \in Nat /\ MaxPageMoves \in Nat
    /\ Elapses \subseteq Nat /\ DramPrice \in Nat /\ TierPrices \subseteq Nat
    /\ IsFiniteSet(CostPages) /\ IsFiniteSet(CostEvictors)
    /\ NoPage \notin CostPages \cup Nat

VARIABLES
    occupant,          \* occupant[f]: Frame::pid
    copies,            \* copies[p]: slots of the tier that hold p
    resides,           \* resides[p]: the frame p's Swip names
    evictor,           \* evictor[e]: an eviction in progress
    page_moves,        \* page moves so far
    sampler,           \* tick_epoch: program counter and locals
    cost,              \* the accumulators of ResidencyCost
    samples,           \* ticks so far
    due                \* not in the code: what the ticks must have charged

costVars == <<occupant, copies, resides, evictor, page_moves,
              sampler, cost, samples, due>>
pageSide == <<occupant, copies, resides, evictor, page_moves>>
tickSide == <<sampler, cost, samples, due>>

Sampler == [pc : {"idle", "frames", "tier", "charge"}, next : Nat, dram : Nat,
            tier : Nat, elapsed : Elapses, least : Nat]
NotSampling ==
    [pc |-> "idle", next |-> 0, dram |-> 0, tier |-> 0, elapsed |-> 0, least |-> 0]
NotEvicting == [pc |-> "idle", page |-> NoPage, frame |-> NoPage, frees |-> FALSE]
NoCost == [residency |-> 0, usd |-> 0]

CostInit ==
    /\ occupant = [f \in 0 .. (CostFrames - 1) |-> NoPage]
    /\ copies = [p \in CostPages |-> 0]
    /\ resides = [p \in CostPages |-> NoPage]
    /\ evictor = [e \in CostEvictors |-> NotEvicting]
    /\ page_moves = 0
    /\ sampler = NotSampling
    /\ cost = [dram |-> NoCost, lower |-> NoCost, all_dram |-> 0]
    /\ samples = 0
    /\ due = 0

-----------------------------------------------------------------------------
(* Pages move: allocate, fault, evict_ticket                               *)

AllocatedPages == {p \in CostPages : resides[p] # NoPage \/ copies[p] > 0}
Evicting(f) == \E e \in CostEvictors : evictor[e].frame = f

Moves == page_moves < MaxPageMoves /\ page_moves' = page_moves + 1

\* Frame::install and swizzle, of a new page or of one that has a slot and
\* keeps it; the evictor that withdrew the page may still be at work.
InstallPage(p, f) ==
    /\ Moves
    /\ resides[p] = NoPage /\ occupant[f] = NoPage /\ ~Evicting(f)
    /\ occupant' = [occupant EXCEPT ![f] = p]
    /\ resides' = [resides EXCEPT ![p] = f]
    /\ UNCHANGED <<copies, evictor, tickSide>>

\* evict_ticket writes a dirty page, or one without a slot, first.
EvictWrites(e, p, writes) ==
    /\ Moves
    /\ evictor[e].pc = "idle"
    /\ resides[p] # NoPage /\ ~Evicting(resides[p])
    /\ writes \/ copies[p] > 0
    /\ copies' = [copies EXCEPT ![p] = IF writes THEN @ + 1 ELSE @]
    /\ evictor' = [evictor EXCEPT ![e] =
                      [pc |-> "unswizzle", page |-> p, frame |-> resides[p],
                       frees |-> writes /\ copies[p] > 0]]
    /\ UNCHANGED <<occupant, resides, tickSide>>

EvictUnswizzles(e) ==
    /\ evictor[e].pc = "unswizzle"
    /\ resides' = [resides EXCEPT ![evictor[e].page] = NoPage]
    /\ evictor' = [evictor EXCEPT ![e].pc = "clear"]
    /\ UNCHANGED <<occupant, copies, page_moves, tickSide>>

EvictClears(e) ==
    /\ evictor[e].pc = "clear"
    /\ occupant' = [occupant EXCEPT ![evictor[e].frame] = NoPage]
    /\ evictor' = [evictor EXCEPT ![e].pc = "free", ![e].frame = NoPage]
    /\ UNCHANGED <<copies, resides, page_moves, tickSide>>

\* The superseded slot goes last.
EvictFrees(e) ==
    /\ evictor[e].pc = "free"
    /\ copies' = IF evictor[e].frees THEN [copies EXCEPT ![evictor[e].page] = @ - 1]
                 ELSE copies
    /\ evictor' = [evictor EXCEPT ![e] = NotEvicting]
    /\ UNCHANGED <<occupant, resides, page_moves, tickSide>>

PageStep ==
    \/ \E p \in CostPages, f \in DOMAIN occupant : InstallPage(p, f)
    \/ \E e \in CostEvictors :
          \/ \E p \in CostPages, writes \in BOOLEAN : EvictWrites(e, p, writes)
          \/ EvictUnswizzles(e) \/ EvictClears(e) \/ EvictFrees(e)

-----------------------------------------------------------------------------
(* tick_epoch's sampling and ResidencyCost::tick                           *)

SampleStarts ==
    /\ sampler.pc = "idle" /\ samples < MaxSamples
    /\ \E e \in Elapses :
          sampler' = [NotSampling EXCEPT !.pc = "frames", !.elapsed = e,
                                         !.least = Cardinality(AllocatedPages)]
    /\ UNCHANGED <<pageSide, cost, samples, due>>

SampleFrame ==
    /\ sampler.pc = "frames" /\ sampler.next < CostFrames
    /\ sampler' = [sampler EXCEPT !.next = @ + 1,
                       !.dram = IF occupant[sampler.next] = NoPage THEN @ ELSE @ + 1,
                       !.pc = IF sampler.next + 1 = CostFrames THEN "tier" ELSE "frames"]
    /\ UNCHANGED <<pageSide, cost, samples, due>>

UsedSlots == SumFunction(copies)

\* TierBackend::used_bytes counts under the tier's lock.
SampleTier ==
    /\ sampler.pc = "tier"
    /\ sampler' = [sampler EXCEPT !.pc = "charge", !.tier = UsedSlots]
    /\ UNCHANGED <<pageSide, cost, samples, due>>

\* CostAccumulator.
Charge(account, residency, price) ==
    [residency |-> account.residency + residency,
     usd |-> account.usd + residency * price]

\* Mutant: the counterfactual leaves the lower tier out.
TickDramOnly ==
    /\ sampler.pc = "charge"
    /\ \E price \in TierPrices :
          LET e == sampler.elapsed IN
          cost' = [dram |-> Charge(cost.dram, sampler.dram * e, DramPrice),
                   lower |-> Charge(cost.lower, sampler.tier * e, price),
                   all_dram |-> cost.all_dram + sampler.dram * e * DramPrice]
    /\ due' = due + sampler.least * sampler.elapsed
    /\ samples' = samples + 1
    /\ sampler' = NotSampling
    /\ UNCHANGED pageSide

\* ResidencyCost::tick, under its mutex; an interval of no length adds none.
Tick ==
    /\ sampler.pc = "charge"
    /\ IF sampler.elapsed = 0 THEN UNCHANGED cost
       ELSE \E price \in TierPrices :
               LET e == sampler.elapsed IN
               cost' = [dram |-> Charge(cost.dram, sampler.dram * e, DramPrice),
                        lower |-> Charge(cost.lower, sampler.tier * e, price),
                        all_dram |-> cost.all_dram + (sampler.dram + sampler.tier) * e * DramPrice]
    /\ due' = due + sampler.least * sampler.elapsed
    /\ samples' = samples + 1
    /\ sampler' = NotSampling
    /\ UNCHANGED pageSide

SampleStep == SampleStarts \/ SampleFrame \/ SampleTier \/ Tick

\* ResidencyCost::report, and CostReport::actual_to_all_dram_ratio as a pair.
ActualCost == cost.dram.usd + cost.lower.usd
Ratio == IF cost.all_dram > 0 THEN <<ActualCost, cost.all_dram>> ELSE <<>>

-----------------------------------------------------------------------------
(***************************************************************************)
(* However pages move while a tick samples them, none is missed: the       *)
(* all-DRAM counterfactual charges every page that existed when the tick   *)
(* began, for the whole interval, at the DRAM price, and as long as no     *)
(* tier costs more than DRAM the report never claims that tiering cost     *)
(* more than DRAM would have (tick_epoch samples frames before tiers, and  *)
(* an eviction writes the slot before it clears the frame).                *)
(***************************************************************************)
AllDramCovers ==
    /\ cost.all_dram >= DramPrice * due
    /\ (\A price \in TierPrices : price <= DramPrice) /\ Ratio # <<>> => Ratio[1] <= Ratio[2]
=============================================================================
