---------------------------- MODULE BudgetedTier ----------------------------
(***************************************************************************)
(* A file tier with a write budget, as an eviction uses it (pool.rs,       *)
(* evict_ticket, and tier/): the evicting thread takes a page's tokens     *)
(* from the budget and then writes through the tier.  The tier itself      *)
(* never charges its budget.  Meanwhile other threads read and free, and   *)
(* the epoch worker refills.                                               *)
(***************************************************************************)
EXTENDS FileTier, WriteBudget

TierInit == Init /\ BudgetInit

(* tier.write of an evictor that has paid: it succeeds, fails with or      *)
(* without having worn the device, or finds the tier full.                 *)
Written(e) == WriteEnds(e, TRUE) /\ \E v \in Data : Write(v)
WriteErrs(e) == /\ \E worn \in BOOLEAN : WriteEnds(e, worn)
                /\ \E v \in Data : WriteFails(v)
WriteRefused(e) == WriteEnds(e, FALSE) /\ WriteFull

TierNext == \/ \E e \in Evictors : Written(e) \/ WriteErrs(e) \/ WriteRefused(e)
            \/ (ConsumeStep \/ RefillStep) /\ UNCHANGED vars
            \/ AccessStep /\ UNCHANGED budgetVars

TierSpec == TierInit /\ [][TierNext]_<<vars, budgetVars>>

(* The slot state and the bucket are well typed (FileTier's TypeOK and     *)
(* WriteBudget's BudgetTypeOK): the counters stay within the capacity and  *)
(* the bucket within one day's allowance.                                  *)
TierTypeOK == TypeOK /\ BudgetTypeOK
=============================================================================
