----------------------------- MODULE MCServices -----------------------------
(* Services on small instances. *)
EXTENDS Services

\* Two tiers of every price, speed and budget, some of them misreported.
MCTiers ==
    [price : {1, 2}, latency : {1, 3}, budget : {NoTier, 2}]
        \cup [price : {-1}, latency : {1}, budget : {NoTier, 2}]
        \cup [price : {1}, latency : {-1}, budget : {NoTier, 2}]
MCTierTables == [1 .. 2 -> MCTiers]
=============================================================================
