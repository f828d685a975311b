--------------------------- MODULE MCBudgetedTier ---------------------------
(* Two slots, two page contents and every offset up to a page past the     *)
(* end; two evictors and two tickers; a page of two bytes against an       *)
(* allowance of three, so that the bucket can hold a fraction of a page; a *)
(* day of four units, which does not divide the allowance, and ticks of    *)
(* none, a fraction of a day, and a day and a half.                        *)
EXTENDS BudgetedTier, TLC

TierSymmetry == Permutations(Data) \cup Permutations(Evictors)
                    \cup Permutations(Tickers)
=============================================================================
